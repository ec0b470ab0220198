-------------------------- MODULE SseStream_proof ---------------------------
(***************************************************************************)
(* Proofs about SseStream for any number of lines of any kinds, with any   *)
(* line ends, read in chunks of any sizes: its type invariant, and its     *)
(* safety properties, ChunkingInvisible first of all.                      *)
(*                                                                         *)
(* The places that the characters of a text carry make the argument.  The  *)
(* buffer lists a suffix of the bytes read, the event a stretch before it, *)
(* and what stands before the event has been handled: two line feeds next  *)
(* to each other in the text are next to each other in the body.           *)
(***************************************************************************)
EXTENDS SseStream, SequenceTheorems, WellFoundedInduction, TLAPS

Chars == TextKinds \cup {"nl", "cr", "repl", "char"}
AnyText == Seq([k : Chars, n : Nat])

-----------------------------------------------------------------------------
(* Bodies. *)

\* Lines start behind line feeds, and the two bytes of a character are together.
WellPlaced(w, p) ==
  /\ w[p] \in TextKinds => p = 1 \/ w[p - 1] = "nl"
  /\ w[p] = "lead" => p < Len(w) /\ w[p + 1] = "cont"
  /\ w[p] = "cont" => p > 1 /\ w[p - 1] = "lead"

WellWritten(w) ==
  /\ \A p \in 1 .. Len(w) : WellPlaced(w, p)
  /\ Len(w) > 0 => w[Len(w)] = "nl"

LEMMA BytesDiffer ==
  \A k \in TextKinds : k \notin {"nl", "cr", "lead", "cont", "repl", "char"}
BY DEF TextKinds, DataKinds

\* Every line the gateway can write is one.
LEMMA LineWritten ==
  ASSUME NEW k \in LineKinds, NEW e \in {"lf", "crlf"}, NEW accented \in BOOLEAN,
         accented => k = "delta"
  PROVE  /\ TextOf(k, accented) \o EndOf(e) \in Seq(Bytes)
         /\ WellWritten(TextOf(k, accented) \o EndOf(e))
<1> DEFINE text == TextOf(k, accented)
           end == EndOf(e)
           line == text \o end
<1>1. /\ end \in Seq(Bytes) /\ Len(end) \in 1 .. 2 /\ end[Len(end)] = "nl"
      /\ Len(end) = 2 => end[1] = "cr"
  <2>1. CASE e = "lf"
    BY <2>1 DEF EndOf, Bytes
  <2>2. CASE e = "crlf"
    BY <2>2 DEF EndOf, Bytes
  <2> QED
    BY <2>1, <2>2
<1>2. /\ text \in Seq(Bytes) /\ Len(text) \in {0, 1, 3}
      /\ Len(text) > 0 => text[1] \in TextKinds
      /\ Len(text) = 3 => text[2] = "lead" /\ text[3] = "cont"
  <2>1. CASE k = "blank"
    BY <2>1 DEF TextOf
  <2>2. CASE k # "blank" /\ ~accented
    BY <2>2 DEF TextOf, LineKinds, Bytes
  <2>3. CASE k # "blank" /\ accented
    <3>1. text = <<"delta", "lead", "cont">>
      BY <2>3 DEF TextOf
    <3>2. "delta" \in TextKinds
      BY DEF TextKinds, DataKinds
    <3> QED
      BY <3>1, <3>2 DEF Bytes
  <2> QED
    BY <2>1, <2>2, <2>3
<1> HIDE DEF text, end
<1>3. /\ line \in Seq(Bytes) /\ Len(line) = Len(text) + Len(end)
      /\ \A p \in 1 .. Len(text) : line[p] = text[p]
      /\ \A p \in 1 .. Len(end) : line[Len(text) + p] = end[p]
  <2>1. /\ line \in Seq(Bytes) /\ Len(line) = Len(text) + Len(end)
        /\ \A p \in 1 .. Len(text) + Len(end) :
             line[p] = IF p <= Len(text) THEN text[p] ELSE end[p - Len(text)]
    BY <1>1, <1>2, ConcatProperties, Zenon
  <2>2. Len(text) \in Nat /\ Len(end) \in Nat
    BY <1>1, <1>2
  <2>3. ASSUME NEW p \in 1 .. Len(text)
        PROVE  line[p] = text[p]
    BY <2>1, <2>2
  <2>4. ASSUME NEW p \in 1 .. Len(end)
        PROVE  line[Len(text) + p] = end[p]
    <3>1. Len(text) + p \in 1 .. Len(text) + Len(end) /\ ~(Len(text) + p <= Len(text))
          /\ Len(text) + p - Len(text) = p
      BY <2>2
    <3> QED
      BY <2>1, <3>1
  <2> QED
    BY <2>1, <2>3, <2>4
<1> SUFFICES line \in Seq(Bytes) /\ WellWritten(line)
  BY DEF line, text, end
<1> HIDE DEF line
<1>4. line[Len(line)] = "nl" /\ (Len(end) = 2 => line[Len(text) + 1] = "cr")
  <2>1. Len(end) \in 1 .. Len(end) /\ 1 \in 1 .. Len(end)
    BY <1>1
  <2>2. line[Len(text) + Len(end)] = end[Len(end)] /\ line[Len(text) + 1] = end[1]
    BY <1>3, <2>1
  <2> QED
    BY <1>1, <1>3, <2>2
<1>5. ASSUME NEW p \in 1 .. Len(line)
      PROVE  WellPlaced(line, p)
  <2>1. \/ p = 1 /\ line[p] \in TextKinds
        \/ p = 2 /\ line[p] = "lead" /\ line[p + 1] = "cont" /\ p < Len(line)
        \/ p = 3 /\ line[p] = "cont" /\ line[p - 1] = "lead"
        \/ line[p] \in {"nl", "cr"}
    <3>1. CASE p <= Len(text) /\ Len(text) = 1
      BY <1>2, <1>3, <3>1
    <3>2. CASE p <= Len(text) /\ Len(text) = 3
      <4>1. 1 \in 1 .. Len(text) /\ 2 \in 1 .. Len(text) /\ 3 \in 1 .. Len(text)
        BY <3>2
      <4>2. line[1] \in TextKinds /\ line[2] = "lead" /\ line[3] = "cont"
        BY <1>2, <1>3, <3>2, <4>1
      <4>3. p \in {1, 2, 3} /\ Len(line) > 2
        BY <1>1, <1>3, <3>2
      <4> QED
        BY <4>2, <4>3
    <3>3. CASE ~(p <= Len(text))
      <4>1. /\ p \in Nat /\ Len(text) \in Nat /\ p <= Len(text) + Len(end)
            /\ Len(end) = 1 \/ Len(end) = 2
        BY <1>1, <1>2, <1>3
      <4>2. p = Len(text) + Len(end) \/ (Len(end) = 2 /\ p = Len(text) + 1)
        <5>1. CASE Len(end) = 1
          BY <3>3, <4>1, <5>1
        <5>2. CASE Len(end) = 2
          BY <3>3, <4>1, <5>2
        <5> QED
          BY <4>1, <5>1, <5>2
      <4> QED
        BY <1>3, <1>4, <4>2
    <3> QED
      BY <1>2, <3>1, <3>2, <3>3
  <2> QED
    BY <2>1, BytesDiffer DEF WellPlaced
<1> QED
  BY <1>3, <1>4, <1>5 DEF WellWritten

\* And so is a body to which a line is added.
LEMMA BodyWritten ==
  ASSUME NEW w \in Seq(Bytes), WellWritten(w), NEW line \in Seq(Bytes), WellWritten(line)
  PROVE  /\ w \o line \in Seq(Bytes)
         /\ WellWritten(w \o line)
         /\ Len(w \o line) >= Len(w)
         /\ \A p \in 1 .. Len(w) : (w \o line)[p] = w[p]
<1> DEFINE v == w \o line
<1>1. /\ v \in Seq(Bytes) /\ Len(v) = Len(w) + Len(line)
      /\ Len(w) \in Nat /\ Len(line) \in Nat
      /\ \A p \in 1 .. Len(w) : v[p] = w[p]
      /\ \A p \in 1 .. Len(line) : v[Len(w) + p] = line[p]
  OBVIOUS
<1>2. \A p \in 1 .. Len(v) : p \in 1 .. Len(w) \/ \E q \in 1 .. Len(line) : p = Len(w) + q
  <2> TAKE p \in 1 .. Len(v)
  <2>1. p \notin 1 .. Len(w) => p - Len(w) \in 1 .. Len(line) /\ p = Len(w) + (p - Len(w))
    BY <1>1
  <2> QED
    BY <2>1
<1> HIDE DEF v
<1>3. ASSUME NEW p \in 1 .. Len(w)
      PROVE  WellPlaced(v, p)
  <2>1. p > 1 => v[p - 1] = w[p - 1]
    <3>1. p > 1 => p - 1 \in 1 .. Len(w)
      BY <1>1
    <3> QED
      BY <1>1, <3>1
  <2>2. p < Len(w) => p < Len(v) /\ v[p + 1] = w[p + 1]
    <3>1. p < Len(w) => p + 1 \in 1 .. Len(w)
      BY <1>1
    <3> QED
      BY <1>1, <3>1
  <2>3. v[p] = w[p] /\ WellPlaced(w, p)
    BY <1>1 DEF WellWritten
  <2> QED
    BY <2>1, <2>2, <2>3 DEF WellPlaced
<1>4. ASSUME NEW q \in 1 .. Len(line)
      PROVE  WellPlaced(v, Len(w) + q)
  <2> DEFINE p == Len(w) + q
  <2>1. v[p] = line[q] /\ WellPlaced(line, q)
    BY <1>1, <1>4 DEF WellWritten
  <2>2. CASE q > 1
    <3>1. v[p - 1] = line[q - 1]
      <4>1. q - 1 \in 1 .. Len(line) /\ p - 1 = Len(w) + (q - 1)
        BY <1>1, <1>4, <2>2
      <4> QED
        BY <4>1, <1>1
    <3>2. q < Len(line) => v[p + 1] = line[q + 1] /\ p < Len(v)
      <4>1. q < Len(line) => q + 1 \in 1 .. Len(line) /\ p + 1 = Len(w) + (q + 1)
        BY <1>1, <1>4, <2>2
      <4> QED
        BY <4>1, <1>1, <1>4
    <3> QED
      BY <1>1, <1>4, <2>1, <2>2, <3>1, <3>2 DEF WellPlaced
  <2>3. CASE q = 1
    <3>1. p > 1 => v[p - 1] = "nl"
      <4>1. p > 1 => p - 1 = Len(w) /\ Len(w) \in 1 .. Len(w)
        BY <1>1, <2>3
      <4> QED
        BY <4>1, <1>1 DEF WellWritten
    <3>2. q < Len(line) => v[p + 1] = line[q + 1] /\ p < Len(v)
      <4>1. q < Len(line) => q + 1 \in 1 .. Len(line) /\ p + 1 = Len(w) + (q + 1)
        BY <1>1, <1>4, <2>3
      <4> QED
        BY <4>1, <1>1, <1>4
    <3> QED
      BY <1>1, <1>4, <2>1, <2>3, <3>1, <3>2 DEF WellPlaced
  <2> QED
    BY <1>4, <2>2, <2>3
<1>5. Len(v) > 0 => v[Len(v)] = "nl"
  <2>1. CASE Len(line) > 0
    <3>1. Len(line) \in 1 .. Len(line)
      BY <2>1, <1>1
    <3> QED
      BY <3>1, <2>1, <1>1 DEF WellWritten
  <2>2. CASE Len(line) = 0
    BY <2>2, <1>1 DEF WellWritten
  <2> QED
    BY <2>1, <2>2, <1>1
<1>6. ASSUME NEW p \in 1 .. Len(v)
      PROVE  WellPlaced(v, p)
  BY <1>2, <1>3, <1>4
<1>7. WellWritten(v)
  BY <1>5, <1>6 DEF WellWritten
<1> QED
  BY <1>1, <1>7 DEF v

-----------------------------------------------------------------------------
(* Texts.  A text lists the bytes of w in a + 1 .. b when every one of them *)
(* that can be seen is in it, in order, as sdk s shows it.                  *)

VisibleIn(s, byte) == s = "typescript" => byte # "lead"

ShownAs(s, byte) ==
  IF byte \notin {"lead", "cont"} THEN byte
  ELSE IF s = "python" THEN "repl" ELSE "char"

Listing(s, w, text, a, b) ==
  /\ text \in AnyText
  /\ a \in Nat /\ b \in Nat /\ a <= b /\ b <= Len(w)
  /\ \A i \in 1 .. Len(text) :
       /\ text[i].n \in a + 1 .. b
       /\ VisibleIn(s, w[text[i].n])
       /\ text[i].k = ShownAs(s, w[text[i].n])
  /\ \A i, j \in 1 .. Len(text) : i < j => text[i].n < text[j].n
  /\ \A p \in a + 1 .. b : VisibleIn(s, w[p]) => \E i \in 1 .. Len(text) : text[i].n = p

\* Nothing lists nothing.
LEMMA NothingListed ==
  ASSUME NEW s, NEW w \in Seq(Bytes), NEW a \in 0 .. Len(w)
  PROVE  Listing(s, w, <<>>, a, a)
BY DEF Listing, AnyText

\* The bytes that follow make no difference.
LEMMA ListingExtends ==
  ASSUME NEW s, NEW w \in Seq(Bytes), NEW v \in Seq(Bytes), NEW text, NEW a, NEW b,
         Len(w) <= Len(v), \A p \in 1 .. Len(w) : v[p] = w[p],
         Listing(s, w, text, a, b)
  PROVE  Listing(s, v, text, a, b)
<1>1. /\ a \in Nat /\ b \in Nat /\ b <= Len(v) /\ Len(w) \in Nat /\ Len(v) \in Nat
      /\ \A p \in a + 1 .. b : v[p] = w[p]
  BY DEF Listing
<1> QED
  BY <1>1 DEF Listing

\* One more byte that can be seen.
LEMMA ListingAppend ==
  ASSUME NEW s, NEW w \in Seq(Bytes), NEW text, NEW a, NEW b,
         Listing(s, w, text, a, b), b < Len(w), VisibleIn(s, w[b + 1]),
         NEW c, c = [k |-> ShownAs(s, w[b + 1]), n |-> b + 1]
  PROVE  Listing(s, w, Append(text, c), a, b + 1)
<1> DEFINE new == Append(text, c)
<1>1. /\ text \in AnyText /\ Len(text) \in Nat /\ a \in Nat /\ b \in Nat /\ a <= b
      /\ b + 1 \in 1 .. Len(w) /\ Len(w) \in Nat
  BY DEF Listing, AnyText
<1>2. c \in [k : Chars, n : Nat] /\ c.n = b + 1 /\ c.k = ShownAs(s, w[b + 1])
  <2>1. w[b + 1] \in Bytes
    BY <1>1
  <2>2. ShownAs(s, w[b + 1]) \in Chars
    BY <2>1 DEF ShownAs, Bytes, Chars
  <2> QED
    BY <1>1, <2>2
<1>3. /\ new \in AnyText /\ Len(new) = Len(text) + 1
      /\ \A i \in 1 .. Len(text) : new[i] = text[i]
      /\ new[Len(text) + 1] = c
  BY <1>1, <1>2, AppendProperties DEF AnyText
<1> HIDE DEF new
<1>4. \A i \in 1 .. Len(new) : i \in 1 .. Len(text) \/ i = Len(text) + 1
  BY <1>1, <1>3
<1>5. ASSUME NEW i \in 1 .. Len(new)
      PROVE  /\ new[i].n \in a + 1 .. b + 1
             /\ VisibleIn(s, w[new[i].n])
             /\ new[i].k = ShownAs(s, w[new[i].n])
  <2>1. CASE i \in 1 .. Len(text)
    <3>1. text[i].n \in a + 1 .. b
      BY <2>1 DEF Listing
    <3>2. text[i].n \in a + 1 .. b + 1
      BY <1>1, <3>1
    <3> QED
      BY <1>3, <2>1, <3>2 DEF Listing
  <2>2. CASE i = Len(text) + 1
    BY <1>1, <1>2, <1>3, <2>2
  <2> QED
    BY <1>4, <2>1, <2>2
<1>6. ASSUME NEW i \in 1 .. Len(new), NEW j \in 1 .. Len(new), i < j
      PROVE  new[i].n < new[j].n
  <2>1. i \in 1 .. Len(text) /\ new[i].n = text[i].n /\ text[i].n \in a + 1 .. b
    <3>1. i \in 1 .. Len(text)
      BY <1>1, <1>3, <1>6
    <3> QED
      BY <1>3, <3>1 DEF Listing
  <2>2. CASE j \in 1 .. Len(text)
    BY <1>3, <1>6, <2>1, <2>2 DEF Listing
  <2>3. CASE j = Len(text) + 1
    BY <1>1, <1>2, <1>3, <2>1, <2>3
  <2> QED
    BY <1>4, <2>2, <2>3
<1>7. ASSUME NEW p \in a + 1 .. b + 1, VisibleIn(s, w[p])
      PROVE  \E i \in 1 .. Len(new) : new[i].n = p
  <2>1. CASE p \in a + 1 .. b
    <3>1. PICK i \in 1 .. Len(text) : text[i].n = p
      BY <1>7, <2>1 DEF Listing
    <3>2. i \in 1 .. Len(new) /\ new[i].n = p
      BY <1>1, <1>3, <3>1
    <3> QED
      BY <3>2
  <2>2. CASE p = b + 1
    <3>1. Len(text) + 1 \in 1 .. Len(new) /\ new[Len(text) + 1].n = p
      BY <1>1, <1>2, <1>3, <2>2
    <3> QED
      BY <3>1
  <2> QED
    BY <1>1, <2>1, <2>2
<1>8. Listing(s, w, new, a, b + 1)
  BY <1>1, <1>3, <1>5, <1>6, <1>7 DEF Listing
<1> QED
  BY <1>8 DEF new

\* One more byte that cannot be seen.
LEMMA ListingHidden ==
  ASSUME NEW s, NEW w \in Seq(Bytes), NEW text, NEW a, NEW b,
         Listing(s, w, text, a, b), b < Len(w), ~VisibleIn(s, w[b + 1])
  PROVE  Listing(s, w, text, a, b + 1)
<1>1. a \in Nat /\ b \in Nat /\ a <= b /\ Len(w) \in Nat
  BY DEF Listing
<1>2. a + 1 .. b + 1 = (a + 1 .. b) \cup {b + 1}
  BY <1>1
<1> QED
  BY <1>1, <1>2 DEF Listing

\* What stands before a character, and what stands behind it.
LEMMA ListingSplit ==
  ASSUME NEW s, NEW w \in Seq(Bytes), NEW text, NEW a, NEW b,
         Listing(s, w, text, a, b), NEW i \in 1 .. Len(text)
  PROVE  /\ Listing(s, w, SubSeq(text, 1, i - 1), a, text[i].n - 1)
         /\ Listing(s, w, SubSeq(text, i + 1, Len(text)), text[i].n, b)
<1> DEFINE l == SubSeq(text, 1, i - 1)
           r == SubSeq(text, i + 1, Len(text))
           m == text[i].n
<1>1. /\ text \in AnyText /\ Len(text) \in Nat /\ a \in Nat /\ b \in Nat /\ a <= b
      /\ m \in a + 1 .. b /\ Len(w) \in Nat /\ b <= Len(w)
  BY DEF Listing, AnyText
<1>2. /\ l \in AnyText /\ Len(l) = i - 1
      /\ \A j \in 1 .. Len(l) : j \in 1 .. Len(text) /\ l[j] = text[j] /\ j < i
  <2>1. ASSUME NEW j \in 1 .. i - 1
        PROVE  text[j] \in [k : Chars, n : Nat]
    <3>1. j \in 1 .. Len(text)
      BY <1>1
    <3> QED
      BY <1>1, <3>1, ElementOfSeq DEF AnyText
  <2>2. /\ l \in AnyText
        /\ Len(l) = IF 1 <= i - 1 THEN (i - 1) - 1 + 1 ELSE 0
        /\ \A j \in 1 .. (i - 1) - 1 + 1 : l[j] = text[1 + j - 1]
    BY <1>1, <2>1, SubSeqProperties DEF AnyText
  <2> QED
    BY <1>1, <2>2
<1>3. /\ r \in AnyText /\ Len(r) = Len(text) - i
      /\ \A j \in 1 .. Len(r) : i + j \in 1 .. Len(text) /\ r[j] = text[i + j]
  <2>1. ASSUME NEW j \in i + 1 .. Len(text)
        PROVE  text[j] \in [k : Chars, n : Nat]
    <3>1. j \in 1 .. Len(text)
      BY <1>1
    <3> QED
      BY <1>1, <3>1, ElementOfSeq DEF AnyText
  <2>2. /\ r \in AnyText
        /\ Len(r) = IF i + 1 <= Len(text) THEN Len(text) - (i + 1) + 1 ELSE 0
        /\ \A j \in 1 .. Len(text) - (i + 1) + 1 : r[j] = text[i + 1 + j - 1]
    BY <1>1, <2>1, SubSeqProperties DEF AnyText
  <2>3. \A j \in Nat : i + 1 + j - 1 = i + j
    BY <1>1
  <2> QED
    BY <1>1, <2>2, <2>3
<1> HIDE DEF l, r
<1>4. Listing(s, w, l, a, m - 1)
  <2>1. ASSUME NEW j \in 1 .. Len(l)
        PROVE  /\ l[j].n \in a + 1 .. m - 1
               /\ VisibleIn(s, w[l[j].n])
               /\ l[j].k = ShownAs(s, w[l[j].n])
    <3>1. l[j] = text[j] /\ j \in 1 .. Len(text) /\ text[j].n < m /\ text[j].n \in a + 1 .. b
      BY <1>2 DEF Listing
    <3>2. l[j].n \in a + 1 .. m - 1
      BY <1>1, <3>1
    <3> QED
      BY <3>1, <3>2 DEF Listing
  <2>2. \A j, j2 \in 1 .. Len(l) : j < j2 => l[j].n < l[j2].n
    BY <1>2 DEF Listing
  <2>3. ASSUME NEW p \in a + 1 .. m - 1, VisibleIn(s, w[p])
        PROVE  \E j \in 1 .. Len(l) : l[j].n = p
    <3>1. p \in a + 1 .. b /\ p < m
      BY <1>1
    <3>2. PICK j \in 1 .. Len(text) : text[j].n = p
      BY <2>3, <3>1 DEF Listing
    <3>3. j < i
      <4>1. ~(i < j) /\ i # j
        BY <3>1, <3>2, <1>1 DEF Listing
      <4> QED
        BY <4>1, <1>1
    <3>4. j \in 1 .. Len(l)
      BY <1>2, <3>3
    <3> QED
      BY <1>2, <3>2, <3>4
  <2>4. a <= m - 1 /\ m - 1 \in Nat /\ m - 1 <= Len(w)
    BY <1>1
  <2> QED
    BY <1>1, <1>2, <2>1, <2>2, <2>3, <2>4 DEF Listing
<1>5. Listing(s, w, r, m, b)
  <2>1. ASSUME NEW j \in 1 .. Len(r)
        PROVE  /\ r[j].n \in m + 1 .. b
               /\ VisibleIn(s, w[r[j].n])
               /\ r[j].k = ShownAs(s, w[r[j].n])
    <3>1. /\ i + j \in 1 .. Len(text) /\ i < i + j
          /\ r[j] = text[i + j]
      BY <1>1, <1>3
    <3>2. m < text[i + j].n /\ text[i + j].n \in a + 1 .. b
      BY <3>1 DEF Listing
    <3>3. r[j].n \in m + 1 .. b
      BY <1>1, <3>1, <3>2
    <3> QED
      BY <3>1, <3>3 DEF Listing
  <2>2. ASSUME NEW j \in 1 .. Len(r), NEW j2 \in 1 .. Len(r), j < j2
        PROVE  r[j].n < r[j2].n
    <3>1. /\ i + j \in 1 .. Len(text) /\ i + j2 \in 1 .. Len(text) /\ i + j < i + j2
          /\ r[j] = text[i + j] /\ r[j2] = text[i + j2]
      BY <1>1, <1>3, <2>2
    <3> QED
      BY <3>1 DEF Listing
  <2>3. ASSUME NEW p \in m + 1 .. b, VisibleIn(s, w[p])
        PROVE  \E j \in 1 .. Len(r) : r[j].n = p
    <3>1. p \in a + 1 .. b /\ m < p
      BY <1>1
    <3>2. PICK j \in 1 .. Len(text) : text[j].n = p
      BY <2>3, <3>1 DEF Listing
    <3>3. i < j
      <4>1. ~(j < i) /\ i # j
        BY <3>1, <3>2, <1>1 DEF Listing
      <4> QED
        BY <4>1, <1>1
    <3>4. j - i \in 1 .. Len(r) /\ i + (j - i) = j
      BY <1>1, <1>3, <3>3
    <3> QED
      BY <1>3, <3>2, <3>4
  <2>4. m <= b /\ m \in Nat
    BY <1>1
  <2> QED
    BY <1>1, <1>3, <2>1, <2>2, <2>3, <2>4 DEF Listing
<1> QED
  BY <1>4, <1>5 DEF l, r

\* The byte before a character is the character before it.
LEMMA ListedBefore ==
  ASSUME NEW s, NEW w \in Seq(Bytes), NEW text, NEW a, NEW b,
         Listing(s, w, text, a, b), NEW i \in 1 .. Len(text),
         NEW p \in Nat, p > a, p + 1 = text[i].n, VisibleIn(s, w[p])
  PROVE  i > 1 /\ text[i - 1].n = p
<1>1. /\ Len(text) \in Nat /\ a \in Nat /\ b \in Nat
      /\ \A j \in 1 .. Len(text) : text[j].n \in a + 1 .. b
      /\ \A j, j2 \in 1 .. Len(text) : j < j2 => text[j].n < text[j2].n
  BY DEF Listing, AnyText
<1>2. p \in a + 1 .. b
  BY <1>1
<1>3. PICK j \in 1 .. Len(text) : text[j].n = p
  BY <1>2 DEF Listing
<1>4. j < i
  <2>1. ~(i < j) /\ i # j
    BY <1>1, <1>3
  <2> QED
    BY <1>1, <2>1
<1>5. i - 1 \in 1 .. Len(text) /\ j <= i - 1
  BY <1>1, <1>4
<1>6. ~(j < i - 1)
  <2>1. text[i - 1].n < text[i].n
    BY <1>1, <1>5
  <2>2. ~(p < text[i - 1].n)
    BY <1>1, <1>5, <2>1
  <2> QED
    BY <1>1, <1>3, <1>5, <2>2
<1> QED
  BY <1>1, <1>3, <1>5, <1>6

\* A byte of ASCII is shown as it is, and nothing else looks like one.
LEMMA ShownAsItself ==
  ASSUME NEW s \in {"python", "typescript"}, NEW byte \in Bytes
  PROVE  /\ ShownAs(s, byte) \in TextKinds \cup {"nl", "cr"} => byte = ShownAs(s, byte)
         /\ byte \in TextKinds \cup {"nl", "cr"} => byte = ShownAs(s, byte) /\ VisibleIn(s, byte)
         /\ ShownAs(s, byte) \in Chars
         /\ s = "typescript" => ShownAs(s, byte) # "repl"
<1>1. CASE byte = "lead" \/ byte = "cont"
  <2>1. ShownAs(s, byte) \in {"repl", "char"} /\ (s = "typescript" => ShownAs(s, byte) # "repl")
    BY <1>1 DEF ShownAs
  <2>2. /\ byte \notin TextKinds \cup {"nl", "cr"}
        /\ ShownAs(s, byte) \notin TextKinds \cup {"nl", "cr"}
    BY <1>1, <2>1, BytesDiffer
  <2> QED
    BY <2>1, <2>2 DEF Chars
<1>2. CASE byte \notin {"lead", "cont"}
  <2>1. ShownAs(s, byte) = byte
    BY <1>2 DEF ShownAs
  <2>2. byte \in Chars /\ byte # "repl" /\ byte # "lead"
    BY <1>2, BytesDiffer DEF Bytes, Chars
  <2> QED
    BY <2>1, <2>2 DEF VisibleIn
<1> QED
  BY <1>1, <1>2

\* Line feeds next to each other in the text are so in the body ...
LEMMA AdjacentInText ==
  ASSUME NEW s \in {"python", "typescript"}, NEW w \in Seq(Bytes), WellWritten(w),
         NEW text, NEW a, NEW b, Listing(s, w, text, a, b), NEW i \in Separators(text)
  PROVE  /\ i \in 1 .. Len(text) /\ i + 1 \in 1 .. Len(text)
         /\ text[i + 1].n = text[i].n + 1
         /\ w[text[i].n] = "nl" /\ w[text[i + 1].n] = "nl"
<1>1. /\ Len(text) \in Nat /\ a \in Nat /\ b \in Nat /\ b <= Len(w) /\ Len(w) \in Nat
      /\ \A j \in 1 .. Len(text) : text[j].n \in a + 1 .. b
  BY DEF Listing, AnyText
<1>2. i \in 1 .. Len(text) /\ i + 1 \in 1 .. Len(text) /\ text[i].k = "nl" /\ text[i + 1].k = "nl"
  BY <1>1 DEF Separators
<1>3. \A j \in 1 .. Len(text) : text[j].n \in 1 .. Len(w) /\ w[text[j].n] \in Bytes
  BY <1>1
<1>4. w[text[i].n] = "nl" /\ w[text[i + 1].n] = "nl"
  <2>1. text[i].k = ShownAs(s, w[text[i].n]) /\ text[i + 1].k = ShownAs(s, w[text[i + 1].n])
    BY <1>2 DEF Listing
  <2> QED
    BY <1>2, <1>3, <2>1, ShownAsItself
<1>5. text[i].n < text[i + 1].n
  BY <1>1, <1>2 DEF Listing
<1> DEFINE m == text[i + 1].n
<1>6. CASE text[i].n + 1 < m
  <2>1. /\ m - 1 > a /\ m - 1 \in 1 .. Len(w) /\ m - 1 \in Nat /\ (m - 1) + 1 = m
    BY <1>1, <1>2, <1>6
  <2>2. CASE VisibleIn(s, w[m - 1])
    <3> DEFINE j == i + 1
               p == m - 1
    <3>1. j \in 1 .. Len(text) /\ p \in Nat /\ p > a /\ p + 1 = text[j].n /\ VisibleIn(s, w[p])
      BY <1>2, <2>1, <2>2
    <3> HIDE DEF j, p
    <3>2. text[j - 1].n = p
      BY <1>1, <3>1, ListedBefore
    <3>3. j - 1 = i /\ p = m - 1
      BY <1>1, <1>2 DEF j, p
    <3> QED
      BY <1>1, <1>2, <1>6, <3>2, <3>3
  <2>3. CASE ~VisibleIn(s, w[m - 1])
    <3>1. w[m - 1] = "lead"
      BY <2>3 DEF VisibleIn
    <3>2. w[(m - 1) + 1] = "cont"
      BY <2>1, <3>1 DEF WellWritten, WellPlaced
    <3> QED
      BY <1>4, <2>1, <3>2
  <2> QED
    BY <2>2, <2>3
<1> QED
  BY <1>1, <1>2, <1>4, <1>5, <1>6

\* ... and the other way round.
LEMMA AdjacentInBody ==
  ASSUME NEW s \in {"python", "typescript"}, NEW w \in Seq(Bytes),
         NEW text, NEW a, NEW b, Listing(s, w, text, a, b),
         NEW p \in a + 1 .. b, p + 1 <= b, w[p] = "nl", w[p + 1] = "nl"
  PROVE  Separators(text) # {}
<1>1. /\ Len(text) \in Nat /\ a \in Nat /\ b \in Nat /\ p + 1 \in a + 1 .. b
      /\ b <= Len(w) /\ Len(w) \in Nat /\ (p + 1) - 1 = p /\ p > a
  BY DEF Listing, AnyText
<1>2. "nl" \in Bytes /\ "nl" \in TextKinds \cup {"nl", "cr"}
  BY DEF Bytes
<1>3. VisibleIn(s, w[p]) /\ VisibleIn(s, w[p + 1]) /\ ShownAs(s, "nl") = "nl"
  BY <1>2, ShownAsItself
<1>4. PICK i \in 1 .. Len(text) : text[i].n = p + 1
  BY <1>1, <1>3 DEF Listing
<1>5. i > 1 /\ text[i - 1].n = p
  <2>1. p \in Nat
    BY <1>1
  <2> QED
    BY <1>1, <1>3, <1>4, <2>1, ListedBefore
<1>6. i - 1 \in 1 .. Len(text) - 1 /\ i - 1 \in 1 .. Len(text) /\ (i - 1) + 1 = i
  BY <1>1, <1>5
<1>7. text[i].k = ShownAs(s, w[p + 1]) /\ text[i - 1].k = ShownAs(s, w[p])
  BY <1>4, <1>5, <1>6 DEF Listing
<1>8. i - 1 \in Separators(text)
  BY <1>3, <1>6, <1>7 DEF Separators
<1> QED
  BY <1>8

\* There is a first one among any places.
LEMMA Least ==
  ASSUME NEW T, T \subseteq Nat, T # {}
  PROVE  (CHOOSE x \in T : \A y \in T : x <= y) \in T
         /\ \A y \in T : (CHOOSE x \in T : \A y2 \in T : x <= y2) <= y
<1> DEFINE R == OpToRel(<, Nat)
<1>1. IsWellFoundedOn(R, Nat)
  BY NatLessThanWellFounded
<1>2. \A x, y \in Nat : y < x => <<y, x>> \in R
  BY DEF OpToRel
<1> HIDE DEF R
<1>3. PICK x \in T : \A y \in T : ~(<<y, x>> \in R)
  BY <1>1, WFMin
<1>4. ASSUME NEW y \in T
      PROVE  x <= y
  <2>1. x \in Nat /\ y \in Nat
    OBVIOUS
  <2>2. ~(y < x)
    BY <1>2, <1>3, <2>1, Zenon
  <2> QED
    BY <2>1, <2>2
<1>5. \E x2 \in T : \A y \in T : x2 <= y
  BY <1>4
<1> QED
  BY <1>5

LEMMA LineEndIs ==
  ASSUME NEW text \in AnyText
  PROVE  /\ LineEnd(text) \in 1 .. Len(text) + 1
         /\ \A i \in 1 .. LineEnd(text) - 1 : text[i].k # "nl"
         /\ LineEnd(text) <= Len(text) => text[LineEnd(text)].k = "nl"
<1> DEFINE ends == {i \in 1 .. Len(text) : text[i].k = "nl"}
           e == CHOOSE i \in ends : \A j \in ends : i <= j
<1>1. Len(text) \in Nat
  BY DEF AnyText
<1>2. CASE ends = {}
  <2>1. LineEnd(text) = Len(text) + 1
    BY <1>2 DEF LineEnd
  <2> QED
    BY <1>1, <1>2, <2>1
<1>3. CASE ends # {}
  <2>1. LineEnd(text) = e
    BY <1>3 DEF LineEnd
  <2>2. ends \subseteq Nat
    BY <1>1
  <2> HIDE DEF ends
  <2>3. e \in ends /\ \A y \in ends : e <= y
    BY <1>3, <2>2, Least, Zenon
  <2> HIDE DEF e
  <2>4. e \in 1 .. Len(text) /\ text[e].k = "nl"
    BY <2>3 DEF ends
  <2>5. ASSUME NEW i \in 1 .. e - 1
        PROVE  text[i].k # "nl"
    <3>1. i \in 1 .. Len(text) /\ ~(e <= i)
      BY <1>1, <2>4
    <3> QED
      BY <2>3, <3>1 DEF ends
  <2> QED
    BY <1>1, <2>1, <2>4, <2>5
<1> QED
  BY <1>2, <1>3

\* A line starts behind a line feed, in the text too.
LEMMA LineStarts ==
  ASSUME NEW s \in {"python", "typescript"}, NEW w \in Seq(Bytes), WellWritten(w),
         NEW text, NEW a, NEW b, Listing(s, w, text, a, b),
         NEW i \in 2 .. Len(text), text[i].k \in TextKinds
  PROVE  text[i - 1].k = "nl"
<1>1. /\ Len(text) \in Nat /\ a \in Nat /\ b \in Nat /\ b <= Len(w) /\ Len(w) \in Nat
      /\ \A j \in 1 .. Len(text) : text[j].n \in a + 1 .. b
  BY DEF Listing, AnyText
<1>2. i \in 1 .. Len(text) /\ i - 1 \in 1 .. Len(text) /\ i - 1 < i
  BY <1>1
<1>3. text[i - 1].n < text[i].n /\ text[i].n \in 1 .. Len(w)
  <2>1. text[i - 1].n < text[i].n
    BY <1>2 DEF Listing
  <2> QED
    BY <1>1, <1>2, <2>1
<1>4. w[text[i].n] \in TextKinds
  <2>1. text[i].k = ShownAs(s, w[text[i].n]) /\ w[text[i].n] \in Bytes
    BY <1>2, <1>3 DEF Listing
  <2> QED
    BY <2>1, ShownAsItself
<1> DEFINE p == text[i].n - 1
<1>5. p \in Nat /\ p > a /\ p \in 1 .. Len(w) /\ p + 1 = text[i].n
  <2>1. text[i - 1].n \in a + 1 .. b /\ text[i].n \in a + 1 .. b
    BY <1>1, <1>2
  <2> QED
    BY <1>1, <1>3, <2>1
<1>6. w[p] = "nl"
  BY <1>3, <1>4, <1>5 DEF WellWritten, WellPlaced
<1>7. "nl" \in Bytes /\ "nl" \in TextKinds \cup {"nl", "cr"}
  BY DEF Bytes
<1>8. VisibleIn(s, "nl") /\ ShownAs(s, "nl") = "nl"
  BY <1>7, ShownAsItself
<1> HIDE DEF p
<1>9. text[i - 1].n = p
  BY <1>1, <1>2, <1>5, <1>6, <1>8, ListedBefore
<1> QED
  BY <1>2, <1>6, <1>8, <1>9 DEF Listing

\* What the first line consists of behind its first character.
LEMMA RestOfLine ==
  ASSUME NEW s \in {"python", "typescript"}, NEW w \in Seq(Bytes), WellWritten(w),
         NEW text, NEW a, NEW b, Listing(s, w, text, a, b),
         NEW i \in 2 .. LineEnd(text) - 1
  PROVE  /\ i \in 1 .. Len(text)
         /\ text[i].k \in {"cr", "repl", "char"}
         /\ s = "typescript" => text[i].k # "repl"
<1>1. text \in AnyText /\ Len(text) \in Nat
  BY DEF Listing, AnyText
<1>2. /\ LineEnd(text) \in 1 .. Len(text) + 1
      /\ \A j \in 1 .. LineEnd(text) - 1 : text[j].k # "nl"
  BY <1>1, LineEndIs
<1>3. /\ i \in 1 .. Len(text) /\ i \in 2 .. Len(text)
      /\ i \in 1 .. LineEnd(text) - 1 /\ i - 1 \in 1 .. LineEnd(text) - 1
  BY <1>1, <1>2
<1>4. text[i].k \notin TextKinds
  BY <1>2, <1>3, LineStarts
<1>5. w[text[i].n] \in Bytes /\ text[i].k = ShownAs(s, w[text[i].n])
  <2>1. text[i].n \in a + 1 .. b /\ a \in Nat /\ b \in Nat /\ b <= Len(w) /\ Len(w) \in Nat
    BY <1>3 DEF Listing
  <2>2. text[i].n \in 1 .. Len(w)
    BY <2>1
  <2> QED
    BY <1>3, <2>2 DEF Listing
<1>6. text[i].k \in Chars /\ (s = "typescript" => text[i].k # "repl")
  BY <1>5, ShownAsItself
<1> QED
  BY <1>2, <1>3, <1>4, <1>6 DEF Chars

\* The first character of a text and the line it begins.
LEMMA FirstLine ==
  ASSUME NEW s \in {"python", "typescript"}, NEW w \in Seq(Bytes), WellWritten(w),
         NEW text, NEW a, NEW b, Listing(s, w, text, a, b), text # <<>>
  PROVE  /\ text[1].n \in a + 1 .. b
         /\ KindOf(text) \in TextKinds => w[text[1].n] = KindOf(text)
         /\ w[text[1].n] \in TextKinds => KindOf(text) = w[text[1].n]
         /\ \E c \in a + 1 .. b :
              /\ Listing(s, w, RestOf(text), c, b)
              /\ text[1].n <= c
              /\ \A p \in a + 1 .. c : w[p] \in TextKinds => p = text[1].n
<1> DEFINE e == LineEnd(text)
           first == text[1].n
<1>1. /\ text \in AnyText /\ Len(text) \in Nat /\ 1 \in 1 .. Len(text)
      /\ a \in Nat /\ b \in Nat /\ b <= Len(w) /\ Len(w) \in Nat
      /\ \A j \in 1 .. Len(text) : text[j].n \in a + 1 .. b
  BY EmptySeq DEF Listing, AnyText
<1>2. first \in a + 1 .. b /\ first \in 1 .. Len(w) /\ w[first] \in Bytes
  BY <1>1
<1>3. text[1].k = ShownAs(s, w[first])
  BY <1>1 DEF Listing
<1>4. KindOf(text) \in TextKinds => w[first] = KindOf(text)
  <2>1. "blank" \notin TextKinds
    BY DEF TextKinds, DataKinds
  <2> QED
    BY <1>2, <1>3, <2>1, ShownAsItself DEF KindOf
<1>5. w[first] \in TextKinds => KindOf(text) = w[first]
  BY <1>2, <1>3, BytesDiffer, ShownAsItself DEF KindOf
<1>6. /\ e \in 1 .. Len(text) + 1
      /\ e <= Len(text) => text[e].k = "nl"
  BY <1>1, LineEndIs
<1> HIDE DEF e
<1> DEFINE c == IF e <= Len(text) THEN text[e].n ELSE b
<1>7. c \in a + 1 .. b /\ first <= c
  <2>1. CASE e <= Len(text)
    <3>1. e \in 1 .. Len(text)
      BY <1>1, <1>6, <2>1
    <3>2. e = 1 \/ 1 < e
      BY <3>1
    <3>3. 1 < e => first < text[e].n
      BY <1>1, <3>1 DEF Listing
    <3> QED
      BY <1>1, <1>2, <2>1, <3>1, <3>2, <3>3
  <2>2. CASE ~(e <= Len(text))
    BY <1>1, <1>2, <2>2
  <2> QED
    BY <2>1, <2>2
<1>8. Listing(s, w, RestOf(text), c, b)
  <2>1. CASE e <= Len(text)
    <3>1. e \in 1 .. Len(text)
      BY <1>1, <1>6, <2>1
    <3>2. Listing(s, w, SubSeq(text, e + 1, Len(text)), text[e].n, b)
      BY <3>1, ListingSplit
    <3> QED
      BY <2>1, <3>2 DEF RestOf, e
  <2>2. CASE ~(e <= Len(text))
    <3>1. e = Len(text) + 1
      BY <1>1, <1>6, <2>2
    <3>2. SubSeq(text, e + 1, Len(text)) = <<>>
      <4>1. e + 1 \in Int /\ Len(text) \in Int /\ Len(text) < e + 1
        BY <1>1, <3>1
      <4> QED
        BY <4>1, SubSeqEmpty
    <3>3. Listing(s, w, <<>>, b, b)
      BY <1>1, NothingListed
    <3> QED
      BY <2>2, <3>2, <3>3 DEF RestOf, e
  <2> QED
    BY <2>1, <2>2
<1>9. ASSUME NEW p \in a + 1 .. c, w[p] \in TextKinds
      PROVE  p = first
  <2>1. p \in a + 1 .. b /\ p \in 1 .. Len(w) /\ w[p] \in Bytes
    BY <1>1, <1>7
  <2>2. VisibleIn(s, w[p]) /\ ShownAs(s, w[p]) = w[p]
    BY <1>9, <2>1, ShownAsItself
  <2>3. PICK j \in 1 .. Len(text) : text[j].n = p
    BY <2>1, <2>2 DEF Listing
  <2>4. text[j].k \in TextKinds
    BY <1>9, <2>2, <2>3 DEF Listing
  <2>5. j <= e
    <3>1. CASE e <= Len(text)
      <4>1. e \in 1 .. Len(text)
        BY <1>1, <1>6, <3>1
      <4>2. ~(e < j)
        <5>1. e < j => text[e].n < text[j].n
          BY <2>3, <4>1 DEF Listing
        <5> QED
          BY <1>1, <2>1, <2>3, <3>1, <4>1, <5>1
      <4> QED
        BY <1>1, <4>1, <4>2
    <3>2. CASE ~(e <= Len(text))
      BY <1>1, <1>6, <3>2
    <3> QED
      BY <3>1, <3>2
  <2>6. j # e
    <3>1. "nl" \notin TextKinds
      BY BytesDiffer
    <3> QED
      BY <1>6, <2>3, <2>4, <3>1
  <2>7. j \notin 2 .. e - 1
    <3>1. "cr" \notin TextKinds /\ "repl" \notin TextKinds /\ "char" \notin TextKinds
      BY BytesDiffer
    <3> QED
      BY <2>4, <3>1, RestOfLine DEF e
  <2>8. j = 1
    BY <1>1, <1>6, <2>5, <2>6, <2>7
  <2> QED
    BY <2>3, <2>8
<1> HIDE DEF c
<1> QED
  BY <1>2, <1>4, <1>5, <1>7, <1>8, <1>9

-----------------------------------------------------------------------------
(* The inductive invariant. *)

AnyContents == Seq([n : Nat, choice : {1, 2}, chars : SUBSET {"repl", "char"}])

NumbersIn(seq) == {Nth(seq[i].n, seq[i].choice) : i \in 1 .. Len(seq)}

NumbersAt(w, p) == IF w[p] = "pair" THEN {Nth(p, 1), Nth(p, 2)} ELSE {Nth(p, 1)}

\* The numbers of all contents in the first bytes of a body.
UpTo(w, front) == UNION {NumbersAt(w, p) : p \in {q \in 1 .. front : w[q] \in {"delta", "pair"}}}

Ordered(seq) ==
  \A i, j \in 1 .. Len(seq) :
     i < j => Nth(seq[i].n, seq[i].choice) < Nth(seq[j].n, seq[j].choice)

Before(c, d) ==
  \A i \in 1 .. Len(c), j \in 1 .. Len(d) : Nth(c[i].n, c[i].choice) < Nth(d[j].n, d[j].choice)

Within(seq, front) == \A i \in 1 .. Len(seq) : seq[i].n \in 1 .. front

\* c was yielded and d is about to be: all contents up to front, in order.
Given(w, front, c, d) ==
  /\ c \in AnyContents /\ d \in AnyContents
  /\ Within(c, front) /\ Within(d, front)
  /\ Ordered(c) /\ Ordered(d) /\ Before(c, d)
  /\ NumbersIn(c) \cup NumbersIn(d) = UpTo(w, front)

Undamaged(seq) == \A i \in 1 .. Len(seq) : seq[i].chars \subseteq {"char"}

Stoppers(s) == {"finish", "DONE", "alien"} \cup IF s = "python" THEN {} ELSE {"bad"}

\* The bytes up to front are dealt with, the event lists those up to upto, and
\* an empty line ends at base, where the buffer begins.
Laid(front, upto, base) ==
  /\ Listing(sdk, wire, event, front, upto)
  /\ Listing(sdk, wire, buffer, base, rd)
  /\ upto <= base
  /\ base > 0 => base > 1 /\ wire[base - 1] = "nl" /\ wire[base] = "nl"
  /\ \A p \in upto + 1 .. base : wire[p] \notin TextKinds
  /\ \A p \in 1 .. front : wire[p] \notin Stoppers(sdk)
  /\ Given(wire, front, out, contents)

Places ==
  /\ sdk \in {"python", "typescript"} /\ sdk \in Sdks
  /\ wire \in Seq(Bytes)
  /\ lineNo \in 0 .. MaxLines
  /\ net \in {"open", "ended", "broken"}
  /\ rd \in 0 .. Len(wire)
  /\ pc \in {"created", "read", "chunk", "cut", "line", "choices", "yielded"} \cup Final
  /\ bodyOpen \in BOOLEAN

\* Where something can be left to handle, and why a generator stopped.
Pending ==
  /\ pc = "created" => ~bodyOpen
  /\ pc \in {"created", "read", "chunk", "cut"} => event = <<>> /\ contents = <<>>
  /\ pc \in {"created", "read"} => Separators(buffer) = {}
  /\ pc = "line" => contents = <<>>
  /\ pc \in {"returned", "raised"} =>
       /\ contents = <<>>
       /\ \/ event = <<>> /\ Separators(buffer) = {}
          \/ event # <<>> /\ KindOf(event) \in Stoppers(sdk)

Decoder == held = (sdk = "typescript" /\ rd > 0 /\ wire[rd] = "lead")

Intact == sdk = "typescript" => Undamaged(out) /\ Undamaged(contents)

Layout == \E front, upto, base \in 0 .. Len(wire) : Laid(front, upto, base)

IInv ==
  /\ Places
  /\ WellWritten(wire)
  /\ Decoder
  /\ Pending
  /\ ClosedAtEnd
  /\ Intact
  /\ Layout

-----------------------------------------------------------------------------
(* Contents in order. *)

LEMMA NthGrows ==
  ASSUME NEW m \in Nat, NEW n \in Nat, m < n, NEW c \in {1, 2}, NEW d \in {1, 2}
  PROVE  Nth(m, c) < Nth(n, d)
BY DEF Nth

LEMMA UpToIs ==
  ASSUME NEW w, NEW front, NEW x
  PROVE  x \in UpTo(w, front) <=>
           \E p \in 1 .. front : w[p] \in {"delta", "pair"} /\ x \in NumbersAt(w, p)
BY DEF UpTo

LEMMA GivenExtends ==
  ASSUME NEW w \in Seq(Bytes), NEW v \in Seq(Bytes), NEW front \in 0 .. Len(w),
         Len(w) <= Len(v), \A p \in 1 .. Len(w) : v[p] = w[p],
         NEW c, NEW d, Given(w, front, c, d)
  PROVE  Given(v, front, c, d)
<1>1. \A p \in 1 .. front : v[p] = w[p]
  <2>1. \A p \in 1 .. front : p \in 1 .. Len(w)
    OBVIOUS
  <2> QED
    BY <2>1
<1>2. \A x : x \in UpTo(v, front) <=> x \in UpTo(w, front)
  BY <1>1, UpToIs DEF NumbersAt
<1>3. UpTo(v, front) = UpTo(w, front)
  BY <1>2
<1> QED
  BY <1>3 DEF Given

\* Lines without contents.
LEMMA GivenSkips ==
  ASSUME NEW w \in Seq(Bytes), NEW front \in Nat, NEW to \in Nat, front <= to,
         \A p \in front + 1 .. to : w[p] \notin {"delta", "pair"},
         NEW c, NEW d, Given(w, front, c, d)
  PROVE  Given(w, to, c, d)
<1>1. \A p \in 1 .. to : w[p] \in {"delta", "pair"} => p \in 1 .. front
  <2> SUFFICES ASSUME NEW p \in 1 .. to, ~(p <= front)
               PROVE  w[p] \notin {"delta", "pair"}
    OBVIOUS
  <2>1. p \in front + 1 .. to
    OBVIOUS
  <2> QED
    BY <2>1
<1>2. \A p \in 1 .. front : p \in 1 .. to
  OBVIOUS
<1>3. \A x : x \in UpTo(w, to) <=> x \in UpTo(w, front)
  BY <1>1, <1>2, UpToIs
<1>4. UpTo(w, to) = UpTo(w, front)
  BY <1>3
<1>5. Within(c, to) /\ Within(d, to)
  BY <1>2 DEF Given, Within
<1> QED
  BY <1>4, <1>5 DEF Given

\* A line with contents.
LEMMA GivenTakes ==
  ASSUME NEW w \in Seq(Bytes), NEW front \in Nat, NEW to \in Nat,
         NEW first \in front + 1 .. to, w[first] \in {"delta", "pair"},
         \A p \in front + 1 .. to : w[p] \in {"delta", "pair"} => p = first,
         NEW c, Given(w, front, c, <<>>),
         NEW d \in AnyContents, NumbersIn(d) = NumbersAt(w, first),
         Len(d) \in {1, 2}, \A i \in 1 .. Len(d) : d[i].n = first /\ d[i].choice = i
  PROVE  Given(w, to, c, d)
<1>1. \A p \in 1 .. to : w[p] \in {"delta", "pair"} => p \in 1 .. front \/ p = first
  <2> SUFFICES ASSUME NEW p \in 1 .. to, ~(p <= front), w[p] \in {"delta", "pair"}
               PROVE  p = first
    OBVIOUS
  <2>1. p \in front + 1 .. to
    OBVIOUS
  <2> QED
    BY <2>1
<1>2. first \in 1 .. to /\ \A p \in 1 .. front : p \in 1 .. to
  OBVIOUS
<1>3. \A x : x \in UpTo(w, to) <=> x \in UpTo(w, front) \/ x \in NumbersAt(w, first)
  BY <1>1, <1>2, UpToIs
<1>4. NumbersIn(c) \cup NumbersIn(<<>>) = UpTo(w, front) /\ NumbersIn(<<>>) = {}
  BY DEF Given, NumbersIn
<1>5. NumbersIn(c) \cup NumbersIn(d) = UpTo(w, to)
  BY <1>3, <1>4
<1>6. Within(c, to) /\ Within(d, to)
  BY <1>2 DEF Given, Within
<1>7. Ordered(d)
  <2> SUFFICES ASSUME NEW i \in 1 .. Len(d), NEW j \in 1 .. Len(d), i < j
               PROVE  Nth(d[i].n, d[i].choice) < Nth(d[j].n, d[j].choice)
    BY DEF Ordered
  <2> QED
    BY DEF Nth
<1>8. Before(c, d)
  <2> SUFFICES ASSUME NEW i \in 1 .. Len(c), NEW j \in 1 .. Len(d)
               PROVE  Nth(c[i].n, c[i].choice) < Nth(d[j].n, d[j].choice)
    BY DEF Before
  <2>1. c[i].n \in 1 .. front
    BY DEF Given, Within
  <2>2. c[i].choice \in {1, 2}
    <3>1. c \in AnyContents
      BY DEF Given
    <3>2. c[i] \in [n : Nat, choice : {1, 2}, chars : SUBSET {"repl", "char"}]
      BY <3>1, ElementOfSeq DEF AnyContents
    <3> QED
      BY <3>2
  <2>3. d[j].n = first /\ d[j].choice \in {1, 2}
    OBVIOUS
  <2>4. c[i].n \in Nat /\ first \in Nat /\ c[i].n < first
    BY <2>1
  <2> QED
    BY <2>2, <2>3, <2>4, NthGrows
<1> QED
  BY <1>5, <1>6, <1>7, <1>8 DEF Given

\* A yield.
LEMMA GivenYields ==
  ASSUME NEW w \in Seq(Bytes), NEW front, NEW c, NEW d, Given(w, front, c, d), d # <<>>
  PROVE  /\ Given(w, front, Append(c, Head(d)), Tail(d))
         /\ Undamaged(c) /\ Undamaged(d) => Undamaged(Append(c, Head(d))) /\ Undamaged(Tail(d))
<1> DEFINE new == Append(c, Head(d))
           rest == Tail(d)
           N(x) == Nth(x.n, x.choice)
<1>1. /\ c \in AnyContents /\ d \in AnyContents /\ Len(c) \in Nat /\ Len(d) \in Nat
      /\ 1 \in 1 .. Len(d) /\ Head(d) = d[1]
  BY EmptySeq DEF Given, AnyContents
<1>2. d[1] \in [n : Nat, choice : {1, 2}, chars : SUBSET {"repl", "char"}]
  BY <1>1, ElementOfSeq DEF AnyContents
<1>3. /\ new \in AnyContents /\ Len(new) = Len(c) + 1
      /\ \A i \in 1 .. Len(c) : new[i] = c[i]
      /\ new[Len(c) + 1] = d[1]
  BY <1>1, <1>2, AppendProperties DEF AnyContents
<1>4. /\ rest \in AnyContents /\ Len(rest) = Len(d) - 1
      /\ \A i \in 1 .. Len(rest) : rest[i] = d[i + 1]
  BY <1>1, HeadTailProperties DEF AnyContents
<1> HIDE DEF new, rest
<1>5. \A i \in 1 .. Len(new) : \/ i \in 1 .. Len(c) /\ new[i] = c[i]
                               \/ i = Len(c) + 1 /\ new[i] = d[1]
  BY <1>1, <1>3
<1>6. \A i \in 1 .. Len(rest) : i + 1 \in 1 .. Len(d) /\ 1 < i + 1 /\ rest[i] = d[i + 1]
  BY <1>1, <1>4
<1>7. /\ \A i, j \in 1 .. Len(c) : i < j => N(c[i]) < N(c[j])
      /\ \A i, j \in 1 .. Len(d) : i < j => N(d[i]) < N(d[j])
      /\ \A i \in 1 .. Len(c), j \in 1 .. Len(d) : N(c[i]) < N(d[j])
  BY DEF Given, Ordered, Before
<1> HIDE DEF N
<1>8. \A i, j \in 1 .. Len(new) : i < j => N(new[i]) < N(new[j])
  <2> SUFFICES ASSUME NEW i \in 1 .. Len(new), NEW j \in 1 .. Len(new), i < j
               PROVE  N(new[i]) < N(new[j])
    OBVIOUS
  <2>1. i \in 1 .. Len(c) /\ new[i] = c[i]
    BY <1>1, <1>3, <1>5
  <2> QED
    BY <1>1, <1>5, <1>7, <2>1
<1>9. \A i, j \in 1 .. Len(rest) : i < j => N(rest[i]) < N(rest[j])
  <2> SUFFICES ASSUME NEW i \in 1 .. Len(rest), NEW j \in 1 .. Len(rest), i < j
               PROVE  N(rest[i]) < N(rest[j])
    OBVIOUS
  <2>1. i + 1 < j + 1
    OBVIOUS
  <2> QED
    BY <1>6, <1>7, <2>1
<1>10. \A i \in 1 .. Len(new), j \in 1 .. Len(rest) : N(new[i]) < N(rest[j])
  <2> SUFFICES ASSUME NEW i \in 1 .. Len(new), NEW j \in 1 .. Len(rest)
               PROVE  N(new[i]) < N(rest[j])
    OBVIOUS
  <2> QED
    BY <1>1, <1>5, <1>6, <1>7
<1>11. Ordered(new) /\ Ordered(rest) /\ Before(new, rest)
  BY <1>8, <1>9, <1>10 DEF N, Ordered, Before
<1>12. Within(new, front) /\ Within(rest, front)
  <2>1. Within(c, front) /\ Within(d, front)
    BY DEF Given
  <2> QED
    BY <1>1, <1>5, <1>6, <2>1 DEF Within
<1>13. NumbersIn(new) \cup NumbersIn(rest) = NumbersIn(c) \cup NumbersIn(d)
  <2>1. ASSUME NEW x
        PROVE  /\ x \in NumbersIn(new) <=> \E i \in 1 .. Len(new) : x = N(new[i])
               /\ x \in NumbersIn(rest) <=> \E i \in 1 .. Len(rest) : x = N(rest[i])
               /\ x \in NumbersIn(c) <=> \E i \in 1 .. Len(c) : x = N(c[i])
               /\ x \in NumbersIn(d) <=> \E i \in 1 .. Len(d) : x = N(d[i])
    BY DEF NumbersIn, N
  <2>2. ASSUME NEW x, x \in NumbersIn(new) \cup NumbersIn(rest)
        PROVE  x \in NumbersIn(c) \cup NumbersIn(d)
    BY <1>1, <1>5, <1>6, <2>1, <2>2
  <2>3. ASSUME NEW x, x \in NumbersIn(c)
        PROVE  x \in NumbersIn(new)
    <3>1. PICK i \in 1 .. Len(c) : x = N(c[i])
      BY <2>1, <2>3
    <3>2. i \in 1 .. Len(new) /\ x = N(new[i])
      BY <1>1, <1>3, <3>1
    <3> QED
      BY <2>1, <3>2
  <2>4. ASSUME NEW x, x \in NumbersIn(d)
        PROVE  x \in NumbersIn(new) \cup NumbersIn(rest)
    <3>1. PICK i \in 1 .. Len(d) : x = N(d[i])
      BY <2>1, <2>4
    <3>2. CASE i = 1
      <4>1. Len(c) + 1 \in 1 .. Len(new) /\ x = N(new[Len(c) + 1])
        BY <1>1, <1>3, <3>1, <3>2
      <4> QED
        BY <2>1, <4>1
    <3>3. CASE i # 1
      <4>1. i - 1 \in 1 .. Len(rest) /\ (i - 1) + 1 = i
        BY <1>1, <1>4, <3>3
      <4>2. x = N(rest[i - 1])
        BY <1>6, <3>1, <4>1
      <4> QED
        BY <2>1, <4>1, <4>2
    <3> QED
      BY <3>2, <3>3
  <2> QED
    BY <2>2, <2>3, <2>4
<1>14. Given(w, front, new, rest)
  BY <1>3, <1>4, <1>11, <1>12, <1>13 DEF Given
<1>15. Undamaged(c) /\ Undamaged(d) => Undamaged(new) /\ Undamaged(rest)
  BY <1>1, <1>5, <1>6 DEF Undamaged
<1> QED
  BY <1>14, <1>15 DEF new, rest

\* What is yielded of a line.
LEMMA ContentsOfIs ==
  ASSUME NEW s \in {"python", "typescript"}, NEW w \in Seq(Bytes), WellWritten(w),
         NEW text, NEW a, NEW b, Listing(s, w, text, a, b), text # <<>>,
         KindOf(text) \in {"delta", "pair"}
  PROVE  /\ w[text[1].n] \in {"delta", "pair"}
         /\ ContentsOf(text) \in AnyContents
         /\ NumbersIn(ContentsOf(text)) = NumbersAt(w, text[1].n)
         /\ Len(ContentsOf(text)) \in {1, 2}
         /\ \A i \in 1 .. Len(ContentsOf(text)) :
              ContentsOf(text)[i].n = text[1].n /\ ContentsOf(text)[i].choice = i
         /\ s = "typescript" => Undamaged(ContentsOf(text))
<1> DEFINE chars == {text[i].k : i \in 2 .. LineEnd(text) - 1} \ {"cr"}
           first == text[1].n
           content(c) == [n |-> first, choice |-> c, chars |-> chars]
           d == ContentsOf(text)
<1>1. "delta" \in TextKinds /\ "pair" \in TextKinds
  BY DEF TextKinds, DataKinds
<1>2. w[first] = KindOf(text) /\ first \in Nat
  <2>1. first \in a + 1 .. b /\ a \in Nat /\ b \in Nat
    BY FirstLine DEF Listing
  <2> QED
    BY <1>1, <2>1, FirstLine
<1>3. KindOf(text) = text[1].k
  BY DEF KindOf
<1>4. chars \subseteq {"repl", "char"} /\ (s = "typescript" => chars \subseteq {"char"})
  BY RestOfLine
<1>5. d = IF w[first] = "pair" THEN <<content(1), content(2)>> ELSE <<content(1)>>
  BY <1>2, <1>3 DEF ContentsOf
<1> HIDE DEF chars, d, first
<1>6. \A c \in {1, 2} : content(c) \in [n : Nat, choice : {1, 2}, chars : SUBSET {"repl", "char"}]
  BY <1>2, <1>4
<1>7. CASE w[first] = "pair"
  <2>1. /\ d = <<content(1), content(2)>> /\ Len(d) = 2
        /\ d[1] = content(1) /\ d[2] = content(2)
        /\ d \in AnyContents
    BY <1>5, <1>6, <1>7 DEF AnyContents
  <2>2. \A i \in 1 .. Len(d) : i = 1 \/ i = 2
    BY <2>1
  <2>3. \A i \in 1 .. Len(d) : d[i].n = first /\ d[i].choice = i /\ d[i].chars = chars
    BY <2>1, <2>2
  <2>4. NumbersIn(d) = {Nth(first, 1), Nth(first, 2)}
    <3>1. 1 \in 1 .. Len(d) /\ 2 \in 1 .. Len(d)
      BY <2>1
    <3> QED
      BY <2>2, <2>3, <3>1 DEF NumbersIn
  <2> QED
    BY <1>2, <1>4, <1>7, <2>1, <2>3, <2>4 DEF NumbersAt, Undamaged, d, first
<1>8. CASE w[first] # "pair"
  <2>1. d = <<content(1)>> /\ Len(d) = 1 /\ d[1] = content(1) /\ d \in AnyContents
    BY <1>5, <1>6, <1>8 DEF AnyContents
  <2>2. \A i \in 1 .. Len(d) : i = 1
    BY <2>1
  <2>3. \A i \in 1 .. Len(d) : d[i].n = first /\ d[i].choice = i /\ d[i].chars = chars
    BY <2>1, <2>2
  <2>4. NumbersIn(d) = {Nth(first, 1)}
    <3>1. 1 \in 1 .. Len(d)
      BY <2>1
    <3> QED
      BY <2>2, <2>3, <3>1 DEF NumbersIn
  <2> QED
    BY <1>2, <1>4, <1>8, <2>1, <2>3, <2>4 DEF NumbersAt, Undamaged, d, first
<1> QED
  BY <1>7, <1>8

-----------------------------------------------------------------------------
(* The steps. *)

LEMMA StoppersAre ==
  /\ \A s : Stoppers(s) \subseteq TextKinds
  /\ \A s : "delta" \notin Stoppers(s) /\ "pair" \notin Stoppers(s)
  /\ {"finish", "DONE"} \cup Fatal = Stoppers(sdk)
  /\ Skipped \cap (Stoppers(sdk) \cup {"delta", "pair"}) = {}
  /\ {"delta", "pair"} \subseteq TextKinds
BY DEF Stoppers, TextKinds, DataKinds, Fatal, Skipped

LEMMA SameLayout ==
  ASSUME Layout, UNCHANGED <<sdk, wire, rd, event, buffer, contents, out>>
  PROVE  Layout'
BY DEF Layout, Laid

\* When the event is handled, everything before the buffer is.
LEMMA Settled ==
  ASSUME Places, NEW front \in Nat, NEW upto \in Nat, NEW base \in Nat,
         Laid(front, upto, base), event = <<>>, contents = <<>>
  PROVE  Laid(base, base, base)
<1>1. /\ front <= upto /\ upto <= base /\ base \in 0 .. Len(wire)
      /\ wire \in Seq(Bytes) /\ sdk \in {"python", "typescript"} /\ Len(wire) \in Nat
  BY DEF Laid, Listing, Places
<1>2. ASSUME NEW p \in front + 1 .. base
      PROVE  wire[p] \notin TextKinds
  <2>1. CASE p <= upto
    <3>1. p \in front + 1 .. upto /\ p \in 1 .. Len(wire) /\ Len(event) = 0
      BY <1>1, <2>1
    <3>2. ~VisibleIn(sdk, wire[p])
      <4>1. ~\E i \in 1 .. Len(event) : event[i].n = p
        BY <3>1
      <4> QED
        BY <3>1, <4>1 DEF Laid, Listing
    <3> QED
      BY <1>1, <3>1, <3>2, ShownAsItself
  <2>2. CASE ~(p <= upto)
    <3>1. p \in upto + 1 .. base
      BY <1>1, <2>2
    <3> QED
      BY <3>1 DEF Laid
  <2> QED
    BY <2>1, <2>2
<1>3. Given(wire, base, out, contents)
  <2>1. \A p \in front + 1 .. base : wire[p] \notin {"delta", "pair"}
    BY <1>2, StoppersAre
  <2>2. Given(wire, front, out, contents) /\ front <= base
    BY <1>1 DEF Laid
  <2> QED
    BY <1>1, <2>1, <2>2, GivenSkips
<1>4. ASSUME NEW p \in 1 .. base
      PROVE  wire[p] \notin Stoppers(sdk)
  <2>1. CASE p \in 1 .. front
    BY <2>1 DEF Laid
  <2>2. CASE p \notin 1 .. front
    <3>1. p \in front + 1 .. base
      BY <1>1, <2>2
    <3> QED
      BY <1>2, <3>1, StoppersAre
  <2> QED
    BY <2>1, <2>2
<1>5. Listing(sdk, wire, event, base, base)
  BY <1>1, NothingListed
<1>6. base + 1 .. base = {}
  BY <1>1
<1> QED
  BY <1>3, <1>4, <1>5, <1>6 DEF Laid

\* The gateway writes on; the reader does not notice.
LEMMA LayoutWrite ==
  ASSUME IInv, WriteLine
  PROVE  WellWritten(wire)' /\ (wire \in Seq(Bytes))' /\ (rd \in 0 .. Len(wire))' /\ Decoder' /\ Layout'
<1>1. /\ wire \in Seq(Bytes) /\ WellWritten(wire) /\ rd \in 0 .. Len(wire)
      /\ sdk \in Sdks /\ Len(wire) \in Nat
  BY DEF IInv, Places
<1>2. PICK line : line \in Seq(Bytes) /\ WellWritten(line) /\ wire' = wire \o line
  <2>1. PICK k \in Written[sdk], e \in Ends[sdk], accented \in BOOLEAN :
          /\ accented => k = "delta"
          /\ wire' = wire \o (TextOf(k, accented) \o EndOf(e))
    BY DEF WriteLine
  <2>2. k \in LineKinds /\ e \in {"lf", "crlf"}
    BY <1>1, WrittenAssumption, EndsAssumption
  <2>3. /\ TextOf(k, accented) \o EndOf(e) \in Seq(Bytes)
        /\ WellWritten(TextOf(k, accented) \o EndOf(e))
    BY <2>1, <2>2, LineWritten
  <2> QED
    BY <2>1, <2>3
<1>3. /\ wire' \in Seq(Bytes) /\ WellWritten(wire') /\ Len(wire') >= Len(wire)
      /\ \A p \in 1 .. Len(wire) : wire'[p] = wire[p]
  BY <1>1, <1>2, BodyWritten
<1>4. Len(wire') \in Nat /\ Len(wire) <= Len(wire')
  BY <1>1, <1>3
<1>5. UNCHANGED <<sdk, rd, held, event, buffer, contents, out>>
  BY DEF WriteLine, readVars
<1>6. Decoder'
  <2>1. rd > 0 => wire'[rd] = wire[rd]
    BY <1>1, <1>3
  <2> QED
    BY <1>5, <2>1 DEF IInv, Decoder
<1>7. PICK front \in 0 .. Len(wire), upto \in 0 .. Len(wire), base \in 0 .. Len(wire) :
        Laid(front, upto, base)
  BY DEF IInv, Layout
<1>8. /\ Listing(sdk, wire', event, front, upto)
      /\ Listing(sdk, wire', buffer, base, rd)
      /\ Given(wire', front, out, contents)
  <2>1. /\ Listing(sdk, wire, event, front, upto)
        /\ Listing(sdk, wire, buffer, base, rd)
        /\ Given(wire, front, out, contents)
    BY <1>7 DEF Laid
  <2>2. Listing(sdk, wire', event, front, upto)
    BY <1>1, <1>3, <1>4, <2>1, ListingExtends
  <2>3. Listing(sdk, wire', buffer, base, rd)
    BY <1>1, <1>3, <1>4, <2>1, ListingExtends
  <2>4. Given(wire', front, out, contents)
    BY <1>1, <1>3, <1>4, <2>1, GivenExtends
  <2> QED
    BY <2>2, <2>3, <2>4
<1>9. base > 0 => base > 1 /\ wire'[base - 1] = "nl" /\ wire'[base] = "nl"
  <2>1. base > 1 => base - 1 \in 1 .. Len(wire)
    BY <1>1
  <2>2. base > 0 => base \in 1 .. Len(wire)
    BY <1>1
  <2> QED
    BY <1>3, <1>7, <2>1, <2>2 DEF Laid
<1>10. /\ \A p \in upto + 1 .. base : wire'[p] \notin TextKinds
       /\ \A p \in 1 .. front : wire'[p] \notin Stoppers(sdk)
  <2>1. \A p \in upto + 1 .. base : p \in 1 .. Len(wire)
    BY <1>1
  <2>2. \A p \in 1 .. front : p \in 1 .. Len(wire)
    BY <1>1
  <2> QED
    BY <1>3, <1>7, <2>1, <2>2 DEF Laid
<1>11. Laid(front, upto, base)'
  BY <1>5, <1>7, <1>8, <1>9, <1>10 DEF Laid
<1>12. /\ front \in 0 .. Len(wire') /\ upto \in 0 .. Len(wire') /\ base \in 0 .. Len(wire')
       /\ rd \in 0 .. Len(wire')
  BY <1>1, <1>4
<1>13. Layout'
  BY <1>11, <1>12 DEF Layout
<1> QED
  BY <1>3, <1>5, <1>6, <1>12, <1>13

\* A byte is read: the buffer lists one more.
LEMMA LayoutRead ==
  ASSUME IInv, Read
  PROVE  (rd \in 0 .. Len(wire))' /\ Decoder' /\ Layout'
<1>1. /\ wire \in Seq(Bytes) /\ WellWritten(wire) /\ rd \in 0 .. Len(wire)
      /\ sdk \in {"python", "typescript"} /\ Len(wire) \in Nat
      /\ rd < Len(wire) /\ rd' = rd + 1
      /\ UNCHANGED <<sdk, wire, event, contents, out>>
  BY DEF IInv, Places, Read, gatewayVars
<1> DEFINE byte == wire[rd + 1]
<1>2. rd + 1 \in 1 .. Len(wire) /\ byte \in Bytes
  BY <1>1
<1>3. held' = (sdk = "typescript" /\ byte = "lead")
  BY DEF Read, Holds
<1>4. Decoder'
  BY <1>1, <1>3 DEF Decoder
<1>5. IF VisibleIn(sdk, byte) THEN Decoded(byte) = <<ShownAs(sdk, byte)>> ELSE Decoded(byte) = <<>>
  <2>1. held = (sdk = "typescript" /\ rd > 0 /\ wire[rd] = "lead")
    BY DEF IInv, Decoder
  <2>2. byte = "cont" => rd > 0 /\ wire[rd] = "lead"
    <3>1. byte = "cont" => rd + 1 > 1 /\ wire[(rd + 1) - 1] = "lead"
      BY <1>1, <1>2 DEF WellWritten, WellPlaced
    <3>2. (rd + 1) - 1 = rd
      BY <1>1
    <3> QED
      BY <1>1, <3>1, <3>2
  <2> HIDE DEF byte
  <2>3. CASE byte \notin {"lead", "cont"}
    BY <1>1, <2>3 DEF Decoded, ShownAs, VisibleIn
  <2>4. CASE byte = "lead"
    BY <1>1, <2>1, <2>4 DEF Decoded, ShownAs, VisibleIn
  <2>5. CASE byte = "cont"
    BY <1>1, <2>1, <2>2, <2>5 DEF Decoded, ShownAs, VisibleIn
  <2> QED
    BY <2>3, <2>4, <2>5
<1>6. PICK front \in 0 .. Len(wire), upto \in 0 .. Len(wire), base \in 0 .. Len(wire) :
        Laid(front, upto, base)
  BY DEF IInv, Layout
<1>7. Listing(sdk, wire, buffer, base, rd)
  BY <1>6 DEF Laid
<1>8. Listing(sdk, wire, buffer', base, rd + 1)
  <2>1. CASE VisibleIn(sdk, byte)
    <3>1. Decoded(byte) # <<>> /\ Decoded(byte)[1] = ShownAs(sdk, byte)
      BY <1>5, <2>1
    <3>2. buffer' = Append(buffer, [k |-> ShownAs(sdk, byte), n |-> rd + 1])
      BY <3>1 DEF Read
    <3>3. Listing(sdk, wire, Append(buffer, [k |-> ShownAs(sdk, byte), n |-> rd + 1]), base, rd + 1)
      BY <1>1, <1>7, <2>1, ListingAppend
    <3> QED
      BY <3>2, <3>3
  <2>2. CASE ~VisibleIn(sdk, byte)
    <3>1. buffer' = buffer
      BY <1>5, <2>2 DEF Read
    <3> QED
      BY <1>1, <1>7, <2>2, <3>1, ListingHidden
  <2> QED
    BY <2>1, <2>2
<1>9. Laid(front, upto, base)'
  BY <1>1, <1>6, <1>8 DEF Laid
<1> QED
  BY <1>1, <1>2, <1>4, <1>6, <1>9 DEF Layout

\* An event is cut off: it lists what stands before its empty line, and the
\* buffer what stands behind.
LEMMA LayoutCut ==
  ASSUME IInv, CutEvent
  PROVE  Layout'
<1>1. /\ wire \in Seq(Bytes) /\ WellWritten(wire) /\ rd \in 0 .. Len(wire)
      /\ sdk \in {"python", "typescript"} /\ Len(wire) \in Nat
      /\ event = <<>> /\ contents = <<>> /\ Separators(buffer) # {}
      /\ UNCHANGED <<sdk, wire, rd, contents, out>>
  BY DEF IInv, Places, Pending, CutEvent, gatewayVars
<1>2. PICK base \in 0 .. Len(wire) : Laid(base, base, base)
  <2>1. PICK front \in 0 .. Len(wire), upto \in 0 .. Len(wire), base \in 0 .. Len(wire) :
          Laid(front, upto, base)
    BY DEF IInv, Layout
  <2>2. front \in Nat /\ upto \in Nat /\ base \in Nat
    OBVIOUS
  <2>3. Laid(base, base, base)
    BY <1>1, <2>1, <2>2, Settled DEF IInv
  <2> QED
    BY <2>3
<1> DEFINE sep == CHOOSE i \in Separators(buffer) : \A j \in Separators(buffer) : i <= j
<1>3. /\ Listing(sdk, wire, buffer, base, rd)
      /\ Given(wire, base, out, contents)
      /\ \A p \in 1 .. base : wire[p] \notin Stoppers(sdk)
  BY <1>2 DEF Laid
<1>4. Len(buffer) \in Nat
  BY <1>3 DEF Listing, AnyText
<1>5. sep \in Separators(buffer)
  <2>1. Separators(buffer) \subseteq Nat
    BY <1>4 DEF Separators
  <2> QED
    BY <1>1, <2>1, Least, Zenon
<1>6. /\ event' = SubSeq(buffer, 1, sep - 1)
      /\ buffer' = SubSeq(buffer, sep + 2, Len(buffer))
  BY DEF CutEvent
<1> HIDE DEF sep
<1> DEFINE next == sep + 1
<1>7. /\ sep \in 1 .. Len(buffer) /\ next \in 1 .. Len(buffer)
      /\ buffer[next].n = buffer[sep].n + 1
      /\ wire[buffer[sep].n] = "nl" /\ wire[buffer[next].n] = "nl"
  BY <1>1, <1>3, <1>5, AdjacentInText
<1>8. PICK end \in base + 1 .. rd, last \in base + 1 .. rd :
        end = buffer[sep].n /\ last = buffer[next].n
  BY <1>3, <1>7 DEF Listing
<1>9. Listing(sdk, wire, event', base, end - 1)
  BY <1>1, <1>3, <1>6, <1>7, <1>8, ListingSplit
<1>10. Listing(sdk, wire, buffer', last, rd)
  <2>1. Listing(sdk, wire, SubSeq(buffer, next + 1, Len(buffer)), last, rd)
    <3> HIDE DEF next
    <3> QED
      BY <1>1, <1>3, <1>7, <1>8, ListingSplit
  <2>2. next + 1 = sep + 2
    BY <1>4, <1>7
  <2> QED
    BY <1>6, <2>1, <2>2
<1> HIDE DEF next
<1>11. /\ end - 1 <= last /\ last > 1 /\ last - 1 = end
       /\ end - 1 \in 0 .. Len(wire) /\ last \in 0 .. Len(wire)
       /\ \A p \in (end - 1) + 1 .. last : p = end \/ p = last
  <2>1. last = end + 1
    BY <1>7, <1>8
  <2>2. end \in Nat /\ 1 <= end /\ last <= Len(wire)
    BY <1>1
  <2> QED
    BY <1>1, <2>1, <2>2
<1>12. \A p \in (end - 1) + 1 .. last : wire[p] \notin TextKinds
  BY <1>7, <1>8, <1>11, BytesDiffer
<1>13. Laid(base, end - 1, last)'
  BY <1>1, <1>3, <1>7, <1>8, <1>9, <1>10, <1>11, <1>12 DEF Laid
<1> QED
  BY <1>1, <1>2, <1>11, <1>13 DEF Layout

\* A line is handled: either it has nothing to yield and stops nothing, or its
\* contents are what is to be yielded next.
LEMMA LayoutLine ==
  ASSUME IInv, SkipLine \/ TakeLine
  PROVE  Layout' /\ Intact'
<1>1. /\ wire \in Seq(Bytes) /\ WellWritten(wire) /\ rd \in 0 .. Len(wire)
      /\ sdk \in {"python", "typescript"} /\ Len(wire) \in Nat
      /\ event # <<>> /\ contents = <<>> /\ event' = RestOf(event)
      /\ UNCHANGED <<sdk, wire, rd, buffer, out>>
  BY DEF IInv, Places, Pending, SkipLine, TakeLine, gatewayVars, readVars
<1>2. PICK front \in 0 .. Len(wire), upto \in 0 .. Len(wire), base \in 0 .. Len(wire) :
        Laid(front, upto, base)
  BY DEF IInv, Layout
<1>3. /\ Listing(sdk, wire, event, front, upto)
      /\ Given(wire, front, out, <<>>)
      /\ \A p \in 1 .. front : wire[p] \notin Stoppers(sdk)
  BY <1>1, <1>2 DEF Laid
<1> DEFINE first == event[1].n
<1>4. /\ first \in front + 1 .. upto
      /\ KindOf(event) \in TextKinds => wire[first] = KindOf(event)
      /\ wire[first] \in TextKinds => KindOf(event) = wire[first]
  BY <1>1, <1>3, FirstLine
<1>5. PICK c \in front + 1 .. upto :
        /\ Listing(sdk, wire, RestOf(event), c, upto)
        /\ first <= c
        /\ \A p \in front + 1 .. c : wire[p] \in TextKinds => p = first
  BY <1>1, <1>3, FirstLine
<1>6. first \in front + 1 .. c /\ c \in Nat /\ front \in Nat /\ front <= c /\ c \in 0 .. Len(wire)
  BY <1>1, <1>4, <1>5
<1>7. wire[first] \notin Stoppers(sdk)
  <2>1. KindOf(event) \notin Stoppers(sdk)
    BY StoppersAre DEF SkipLine, TakeLine
  <2> QED
    BY <1>4, <2>1, StoppersAre
<1>8. ASSUME NEW p \in 1 .. c
      PROVE  wire[p] \notin Stoppers(sdk)
  <2>1. CASE p \in 1 .. front
    BY <1>3, <2>1
  <2>2. CASE p \notin 1 .. front
    <3>1. p \in front + 1 .. c
      BY <1>6, <2>2
    <3>2. wire[p] \in Stoppers(sdk) => p = first
      BY <1>5, <3>1, StoppersAre
    <3> QED
      BY <1>7, <3>2
  <2> QED
    BY <2>1, <2>2
<1>9. Given(wire, c, out, contents') /\ Intact'
  <2>1. CASE SkipLine
    <3>1. contents' = <<>>
      BY <1>1, <2>1 DEF SkipLine
    <3>2. wire[first] \notin {"delta", "pair"}
      <4>1. KindOf(event) \notin {"delta", "pair"}
        BY <2>1, StoppersAre DEF SkipLine
      <4> QED
        BY <1>4, <4>1, StoppersAre
    <3>3. \A p \in front + 1 .. c : wire[p] \notin {"delta", "pair"}
      BY <1>5, <3>2, StoppersAre
    <3>4. Given(wire, c, out, <<>>)
      BY <1>1, <1>3, <1>6, <3>3, GivenSkips
    <3> QED
      BY <1>1, <3>1, <3>4 DEF IInv, Intact
  <2>2. CASE TakeLine
    <3>1. contents' = ContentsOf(event) /\ KindOf(event) \in {"delta", "pair"}
      BY <2>2 DEF TakeLine
    <3>2. /\ wire[first] \in {"delta", "pair"}
          /\ contents' \in AnyContents
          /\ NumbersIn(contents') = NumbersAt(wire, first)
          /\ Len(contents') \in {1, 2}
          /\ \A i \in 1 .. Len(contents') : contents'[i].n = first /\ contents'[i].choice = i
          /\ sdk = "typescript" => Undamaged(contents')
      BY <1>1, <1>3, <3>1, ContentsOfIs
    <3>3. \A p \in front + 1 .. c : wire[p] \in {"delta", "pair"} => p = first
      BY <1>5, StoppersAre
    <3> HIDE DEF first
    <3>4. Given(wire, c, out, contents')
      BY <1>1, <1>3, <1>6, <3>2, <3>3, GivenTakes
    <3> QED
      BY <1>1, <3>2, <3>4 DEF IInv, Intact
  <2> QED
    BY <2>1, <2>2
<1>10. Laid(c, upto, base)'
  BY <1>1, <1>2, <1>5, <1>8, <1>9 DEF Laid
<1> QED
  BY <1>1, <1>2, <1>6, <1>9, <1>10 DEF Layout

\* A content is yielded.
LEMMA LayoutYield ==
  ASSUME IInv, Yield
  PROVE  Layout' /\ Intact'
<1>1. /\ contents # <<>> /\ out' = Append(out, Head(contents)) /\ contents' = Tail(contents)
      /\ wire \in Seq(Bytes) /\ UNCHANGED <<sdk, wire, rd, buffer, event>>
  BY DEF IInv, Places, Yield, gatewayVars, readVars
<1>2. PICK front \in 0 .. Len(wire), upto \in 0 .. Len(wire), base \in 0 .. Len(wire) :
        Laid(front, upto, base)
  BY DEF IInv, Layout
<1>3. Given(wire, front, out, contents)
  BY <1>2 DEF Laid
<1>4. /\ Given(wire, front, out', contents')
      /\ Undamaged(out) /\ Undamaged(contents) => Undamaged(out') /\ Undamaged(contents')
  BY <1>1, <1>3, GivenYields
<1>5. Laid(front, upto, base)'
  BY <1>1, <1>2, <1>4 DEF Laid
<1> QED
  BY <1>1, <1>2, <1>4, <1>5 DEF Layout, IInv, Intact

-----------------------------------------------------------------------------
(* The invariant holds. *)

LEMMA Initially ==
  Init => IInv
<1> SUFFICES ASSUME Init
             PROVE  IInv
  OBVIOUS
<1>1. /\ wire = <<>> /\ wire \in Seq(Bytes) /\ Len(wire) = 0 /\ rd = 0
      /\ sdk \in {"python", "typescript"}
      /\ event = <<>> /\ buffer = <<>> /\ contents = <<>> /\ out = <<>>
  BY SdksAssumption DEF Init
<1>2. Places
  <2>1. 0 \in 0 .. MaxLines /\ rd \in 0 .. Len(wire)
    BY <1>1, BoundAssumption
  <2>2. /\ sdk \in Sdks /\ lineNo = 0 /\ net = "open" /\ pc = "created" /\ bodyOpen = FALSE
    BY DEF Init
  <2> QED
    BY <1>1, <2>1, <2>2 DEF Places
<1>3. WellWritten(wire)
  BY <1>1 DEF WellWritten
<1>4. Pending
  BY <1>1 DEF Init, Pending, Separators
<1>5. Given(wire, 0, out, contents)
  <2>1. <<>> \in AnyContents
    BY DEF AnyContents
  <2>2. UpTo(wire, 0) = {} /\ NumbersIn(<<>>) = {}
    BY DEF UpTo, NumbersIn
  <2> QED
    BY <1>1, <2>1, <2>2 DEF Given, Within, Ordered, Before
<1>6. Laid(0, 0, 0)
  <2>1. Listing(sdk, wire, <<>>, 0, 0)
    <3>1. 0 \in 0 .. Len(wire)
      BY <1>1
    <3> QED
      BY <1>1, <3>1, NothingListed
  <2> QED
    BY <1>1, <1>5, <2>1 DEF Laid
<1>7. Layout
  BY <1>1, <1>6 DEF Layout
<1>8. Decoder
  <2>1. held = FALSE /\ ~(rd > 0)
    BY <1>1 DEF Init
  <2> QED
    BY <2>1 DEF Decoder
<1>9. ClosedAtEnd
  BY DEF Init, ClosedAtEnd
<1>10. Intact
  BY <1>1 DEF Intact, Undamaged
<1> QED
  BY <1>2, <1>3, <1>4, <1>7, <1>8, <1>9, <1>10 DEF IInv

LEMMA Inductive ==
  IInv /\ [Next]_vars => IInv'
<1> SUFFICES ASSUME IInv, [Next]_vars
             PROVE  IInv'
  OBVIOUS
<1>0. /\ Places /\ WellWritten(wire) /\ Decoder /\ Pending /\ ClosedAtEnd /\ Intact /\ Layout
  BY DEF IInv
<1> DEFINE Rest == UNCHANGED <<sdk, wire, rd, held, event, buffer, contents, out>>
<1>1. ASSUME Rest, Places', Pending', ClosedAtEnd'
      PROVE  IInv'
  <2>1. WellWritten(wire)' /\ Decoder' /\ Intact'
    BY <1>0, <1>1 DEF WellWritten, WellPlaced, Decoder, Intact, Undamaged
  <2>2. Layout'
    BY <1>0, <1>1, SameLayout
  <2> QED
    BY <1>1, <2>1, <2>2 DEF IInv
<1>2. CASE WriteLine
  <2>1. /\ WellWritten(wire)' /\ (wire \in Seq(Bytes))' /\ (rd \in 0 .. Len(wire))' /\ Decoder' /\ Layout'
    BY <1>2, LayoutWrite
  <2>2. /\ lineNo' \in 0 .. MaxLines
        /\ UNCHANGED <<sdk, net, rd, held, buffer, event, contents, pc, bodyOpen, out>>
    BY <1>0, <1>2, BoundAssumption DEF WriteLine, Places, readVars
  <2>3. Places' /\ Pending' /\ ClosedAtEnd' /\ Intact'
    BY <1>0, <2>1, <2>2
       DEF Places, Pending, Final, ClosedAtEnd, Intact, Undamaged, Separators, KindOf, Stoppers
  <2> QED
    BY <2>1, <2>3 DEF IInv
<1>3. CASE Read
  <2>1. (rd \in 0 .. Len(wire))' /\ Decoder' /\ Layout'
    BY <1>3, LayoutRead
  <2>2. /\ UNCHANGED <<sdk, wire, lineNo, net, event, contents, bodyOpen, out>>
        /\ pc \in {"read", "chunk"} /\ pc' \in {"chunk", "cut"}
    BY <1>3 DEF Read, gatewayVars
  <2>3. Places' /\ Pending' /\ ClosedAtEnd' /\ Intact' /\ WellWritten(wire)'
    BY <1>0, <2>1, <2>2
       DEF Places, Pending, Final, ClosedAtEnd, Intact, Undamaged, WellWritten, WellPlaced
  <2> QED
    BY <2>1, <2>3 DEF IInv
<1>4. CASE CutEvent
  <2>1. Layout'
    BY <1>4, LayoutCut
  <2>2. /\ UNCHANGED <<sdk, wire, lineNo, net, rd, held, contents, bodyOpen, out>>
        /\ pc = "cut" /\ pc' = "line"
    BY <1>4 DEF CutEvent, gatewayVars
  <2>3. Places' /\ Pending' /\ ClosedAtEnd' /\ Intact' /\ WellWritten(wire)' /\ Decoder'
    BY <1>0, <2>2
       DEF Places, Pending, Final, ClosedAtEnd, Intact, Undamaged, WellWritten, WellPlaced, Decoder
  <2> QED
    BY <2>1, <2>3 DEF IInv
<1>5. CASE SkipLine \/ TakeLine
  <2>1. Layout' /\ Intact'
    BY <1>5, LayoutLine
  <2>2. /\ UNCHANGED <<sdk, wire, lineNo, net, rd, held, bodyOpen>>
        /\ \/ pc' = "line" /\ contents' = contents /\ pc = "line"
           \/ pc' = "choices"
    BY <1>5 DEF SkipLine, TakeLine, gatewayVars, readVars
  <2>3. Places' /\ Pending' /\ ClosedAtEnd' /\ WellWritten(wire)' /\ Decoder'
    BY <1>0, <2>2
       DEF Places, Pending, Final, ClosedAtEnd, WellWritten, WellPlaced, Decoder
  <2> QED
    BY <2>1, <2>3 DEF IInv
<1>6. CASE Yield
  <2>1. Layout' /\ Intact'
    BY <1>6, LayoutYield
  <2>2. UNCHANGED <<sdk, wire, lineNo, net, rd, held, bodyOpen>> /\ pc' = "yielded"
    BY <1>6 DEF Yield, gatewayVars, readVars
  <2>3. Places' /\ Pending' /\ ClosedAtEnd' /\ WellWritten(wire)' /\ Decoder'
    BY <1>0, <2>2
       DEF Places, Pending, Final, ClosedAtEnd, WellWritten, WellPlaced, Decoder
  <2> QED
    BY <2>1, <2>3 DEF IInv
<1>7. ASSUME Rest, UNCHANGED lineNo, net' \in {"open", "ended", "broken"}, bodyOpen' \in BOOLEAN,
             pc' \in {"created", "read", "chunk", "cut", "line", "choices", "yielded"} \cup Final
      PROVE  Places'
  BY <1>0, <1>7 DEF Places
<1>8. ASSUME Rest
      PROVE  /\ Separators(buffer)' = Separators(buffer)
             /\ KindOf(event)' = KindOf(event)
             /\ Stoppers(sdk)' = Stoppers(sdk)
  BY <1>8 DEF Separators, KindOf, Stoppers
<1>9. CASE EndBody \/ Break \/ Abort
  <2>1. /\ Rest /\ UNCHANGED <<lineNo, pc>> /\ net' \in {"open", "ended", "broken"}
        /\ bodyOpen' \in BOOLEAN /\ (bodyOpen' => bodyOpen)
    BY <1>0, <1>9 DEF EndBody, Break, Abort, Places, gatewayVars, readVars
  <2>2. Places'
    BY <1>0, <1>7, <2>1 DEF Places
  <2>3. Pending' /\ ClosedAtEnd'
    BY <1>0, <1>8, <2>1 DEF Pending, ClosedAtEnd, Final
  <2> QED
    BY <1>1, <2>1, <2>2, <2>3
<1>10. CASE Opened \/ NoEvent \/ EventDone \/ ChoicesDone \/ Resume
  <2>1. /\ Rest /\ UNCHANGED <<lineNo, net>> /\ bodyOpen' \in BOOLEAN
        /\ \/ pc = "created" /\ pc' = "read"
           \/ pc = "cut" /\ pc' = "read" /\ Separators(buffer) = {}
           \/ pc = "line" /\ pc' = "cut" /\ event = <<>>
           \/ pc = "choices" /\ pc' = "line" /\ contents = <<>>
           \/ pc = "yielded" /\ pc' = "choices"
    BY <1>0, <1>10 DEF Opened, NoEvent, EventDone, ChoicesDone, Resume, Places, gatewayVars, readVars
  <2>2. Places'
    BY <1>0, <1>7, <2>1 DEF Places
  <2>3. Pending' /\ ClosedAtEnd'
    BY <1>0, <1>8, <2>1 DEF Pending, ClosedAtEnd, Final
  <2> QED
    BY <1>1, <2>1, <2>2, <2>3
<1>11. CASE Unreachable \/ BodyEnds \/ ReadFails
  <2>1. /\ Rest /\ UNCHANGED <<lineNo, net>> /\ bodyOpen' \in BOOLEAN
        /\ pc \in {"created", "read"} /\ pc' \in {"returned", "raised"}
        /\ ~bodyOpen'
    <3>1. CASE Unreachable
      <4>1. Rest /\ UNCHANGED <<lineNo, net, bodyOpen>> /\ pc = "created" /\ pc' = "raised"
        BY <3>1 DEF Unreachable, gatewayVars, readVars
      <4>2. bodyOpen \in BOOLEAN /\ ~bodyOpen
        BY <1>0, <4>1 DEF Places, Pending
      <4> QED
        BY <4>1, <4>2
    <3>2. CASE BodyEnds \/ ReadFails
      BY <3>2 DEF BodyEnds, ReadFails, gatewayVars, readVars
    <3> QED
      BY <1>11, <3>1, <3>2
  <2>2. Places'
    BY <1>0, <1>7, <2>1 DEF Places, Final
  <2>3. Pending' /\ ClosedAtEnd'
    BY <1>0, <1>8, <2>1 DEF Pending, ClosedAtEnd, Final
  <2> QED
    BY <1>1, <2>1, <2>2, <2>3
<1>12. CASE Finish \/ Trip
  <2>1. /\ Rest /\ UNCHANGED <<lineNo, net>> /\ bodyOpen' \in BOOLEAN
        /\ pc = "line" /\ pc' \in {"returned", "raised"}
        /\ sdk = "python" => ~bodyOpen'
        /\ event # <<>> /\ KindOf(event) \in {"finish", "DONE"} \cup Fatal
    BY <1>0, <1>12 DEF Finish, Trip, Leave, Places, gatewayVars, readVars
  <2>2. KindOf(event) \in Stoppers(sdk)
    BY <2>1, StoppersAre
  <2>3. Places'
    BY <1>0, <1>7, <2>1 DEF Places, Final
  <2>4. Pending' /\ ClosedAtEnd'
    BY <1>0, <1>8, <2>1, <2>2 DEF Pending, ClosedAtEnd, Final
  <2> QED
    BY <1>1, <2>1, <2>3, <2>4
<1>13. CASE Close
  <2>1. /\ Rest /\ UNCHANGED <<lineNo, net>> /\ bodyOpen' \in BOOLEAN /\ pc' = "closed"
        /\ sdk = "python" => ~bodyOpen'
    BY <1>0, <1>13 DEF Close, Leave, Places, gatewayVars, readVars
  <2>2. Places'
    BY <1>0, <1>7, <2>1 DEF Places, Final
  <2>3. Pending' /\ ClosedAtEnd'
    BY <2>1 DEF Pending, ClosedAtEnd, Final
  <2> QED
    BY <1>1, <2>1, <2>2, <2>3
<1>14. CASE Refused
  <2>1. /\ Rest /\ UNCHANGED <<lineNo, net>> /\ bodyOpen' \in BOOLEAN
        /\ pc = "created" /\ pc' = "refused"
    BY <1>14 DEF Refused, gatewayVars, readVars
  <2>2. Places'
    BY <1>0, <1>7, <2>1 DEF Places, Final
  <2>3. Pending' /\ ClosedAtEnd'
    BY <2>1 DEF Pending, ClosedAtEnd, Final
  <2> QED
    BY <1>1, <2>1, <2>2, <2>3
<1>15. CASE UNCHANGED vars
  <2>1. Rest /\ UNCHANGED <<lineNo, net, pc, bodyOpen>>
    BY <1>15 DEF vars
  <2>2. Places'
    BY <1>0, <1>7, <2>1 DEF Places
  <2>3. Pending' /\ ClosedAtEnd'
    BY <1>0, <1>8, <2>1 DEF Pending, ClosedAtEnd
  <2> QED
    BY <1>1, <2>1, <2>2, <2>3
<1> QED
  BY <1>2, <1>3, <1>4, <1>5, <1>6, <1>9, <1>10, <1>11, <1>12, <1>13, <1>14, <1>15
     DEF Next, Gateway, Generator, Terminated

LEMMA Invariant ==
  Spec => []IInv
BY Initially, Inductive, PTL DEF Spec

-----------------------------------------------------------------------------
(* What follows from it. *)

LEMMA AsTexts ==
  ASSUME NEW s \in {"python", "typescript"}, NEW w, NEW text, NEW a, NEW b,
         Listing(s, w, text, a, b), NEW m \in Nat, b <= m
  PROVE  text \in Seq([k : Chars, n : 1 .. m])
<1>1. /\ text \in AnyText /\ Len(text) \in Nat /\ a \in Nat /\ b \in Nat
      /\ \A i \in 1 .. Len(text) : text[i].n \in a + 1 .. b
  BY DEF Listing, AnyText
<1>2. ASSUME NEW i \in 1 .. Len(text)
      PROVE  text[i] \in [k : Chars, n : 1 .. m]
  <2>1. text[i] \in [k : Chars, n : Nat]
    BY <1>1, ElementOfSeq DEF AnyText
  <2>2. text[i].n \in 1 .. m
    BY <1>1
  <2> QED
    BY <2>1, <2>2
<1>3. SubSeq(text, 1, Len(text)) \in Seq([k : Chars, n : 1 .. m])
  <2>1. 1 \in Int /\ Len(text) \in Int
    BY <1>1
  <2> QED
    BY <1>2, <2>1, SubSeqProperties
<1>4. SubSeq(text, 1, Len(text)) = text
  BY <1>1, SubSeqFull DEF AnyText
<1> QED
  BY <1>3, <1>4

LEMMA AsContents ==
  ASSUME NEW c \in AnyContents, NEW front \in Nat, Within(c, front), NEW m \in Nat, front <= m
  PROVE  c \in Seq([n : 1 .. m, choice : {1, 2}, chars : SUBSET {"repl", "char"}])
<1>1. Len(c) \in Nat
  BY DEF AnyContents
<1>2. ASSUME NEW i \in 1 .. Len(c)
      PROVE  c[i] \in [n : 1 .. m, choice : {1, 2}, chars : SUBSET {"repl", "char"}]
  <2>1. c[i] \in [n : Nat, choice : {1, 2}, chars : SUBSET {"repl", "char"}]
    BY <1>1, ElementOfSeq DEF AnyContents
  <2>2. c[i].n \in 1 .. m
    BY DEF Within
  <2> QED
    BY <2>1, <2>2
<1>3. SubSeq(c, 1, Len(c)) \in Seq([n : 1 .. m, choice : {1, 2}, chars : SUBSET {"repl", "char"}])
  <2>1. 1 \in Int /\ Len(c) \in Int
    BY <1>1
  <2> QED
    BY <1>2, <2>1, SubSeqProperties
<1>4. SubSeq(c, 1, Len(c)) = c
  BY SubSeqFull DEF AnyContents
<1> QED
  BY <1>3, <1>4

LEMMA Typed ==
  IInv => TypeOK
<1> SUFFICES ASSUME IInv
             PROVE  TypeOK
  OBVIOUS
<1>1. Places /\ Decoder /\ Pending
  BY DEF IInv
<1>2. PICK front \in 0 .. Len(wire), upto \in 0 .. Len(wire), base \in 0 .. Len(wire) :
        Laid(front, upto, base)
  BY DEF IInv, Layout
<1>3. rd \in Nat /\ front <= upto /\ upto <= base /\ base <= rd
  BY <1>1, <1>2 DEF Places, Laid, Listing
<1>4. event \in Texts /\ buffer \in Texts
  <2>1. /\ Listing(sdk, wire, event, front, upto) /\ upto <= rd
        /\ Listing(sdk, wire, buffer, base, rd) /\ rd <= rd
    BY <1>2, <1>3 DEF Laid
  <2>2. /\ event \in Seq([k : Chars, n : 1 .. rd])
        /\ buffer \in Seq([k : Chars, n : 1 .. rd])
    BY <1>1, <1>3, <2>1, AsTexts DEF Places
  <2> QED
    BY <2>2 DEF Texts, Chars
<1>5. out \in Contents /\ contents \in Contents
  <2>1. /\ out \in AnyContents /\ contents \in AnyContents
        /\ Within(out, front) /\ Within(contents, front)
        /\ front \in Nat /\ front <= rd
    BY <1>2, <1>3 DEF Laid, Given
  <2> QED
    BY <1>3, <2>1, AsContents DEF Contents
<1>6. held \in BOOLEAN
  BY <1>1 DEF Decoder
<1>7. event # <<>> \/ contents # <<>> => pc \in {"line", "choices", "yielded"} \cup Final
  BY <1>1 DEF Places, Pending
<1> QED
  BY <1>1, <1>4, <1>5, <1>6, <1>7 DEF TypeOK, Places

LEMMA DueIs ==
  ASSUME NEW x
  PROVE  x \in Due <=>
           \E p \in 1 .. rd : /\ wire[p] \in {"delta", "pair"}
                              /\ Closed(p)
                              /\ \A j \in 1 .. p : ~Stops(j)
                              /\ x \in NumbersAt(wire, p)
BY DEF Due, Numbers, NumbersAt

\* Everything dealt with was due.
LEMMA NothingEarly ==
  ASSUME Places, NEW front \in Nat, NEW upto \in Nat, NEW base \in Nat, Laid(front, upto, base)
  PROVE  /\ \A p \in 1 .. base : wire[p] \in TextKinds => Closed(p)
         /\ UpTo(wire, front) \subseteq Due
<1>1. /\ rd \in Nat /\ front <= upto /\ upto <= base /\ base <= rd
      /\ base > 0 => base > 1 /\ wire[base - 1] = "nl" /\ wire[base] = "nl"
  BY DEF Places, Laid, Listing
<1>2. ASSUME NEW p \in 1 .. base, wire[p] \in TextKinds
      PROVE  Closed(p)
  <2>1. p # base
    BY <1>1, <1>2, BytesDiffer
  <2>2. base - 1 \in p .. rd - 1 /\ (base - 1) + 1 = base
    BY <1>1, <2>1
  <2> QED
    BY <1>1, <2>2 DEF Closed
<1>3. ASSUME NEW x \in UpTo(wire, front)
      PROVE  x \in Due
  <2>1. PICK p \in 1 .. front : wire[p] \in {"delta", "pair"} /\ x \in NumbersAt(wire, p)
    BY UpToIs
  <2>2. p \in 1 .. base /\ p \in 1 .. rd
    BY <1>1
  <2>3. Closed(p)
    BY <1>2, <2>1, <2>2, StoppersAre
  <2>4. ASSUME NEW j \in 1 .. p
        PROVE  ~Stops(j)
    <3>1. j \in 1 .. front
      OBVIOUS
    <3>2. wire[j] \notin Stoppers(sdk)
      BY <3>1 DEF Laid
    <3> QED
      BY <3>2, StoppersAre DEF Stops
  <2> QED
    BY <2>1, <2>2, <2>3, <2>4, DueIs
<1> QED
  BY <1>2, <1>3

\* And nothing more is due when the generator waits or has stopped by itself.
LEMMA NothingLate ==
  ASSUME Places, WellWritten(wire), Pending, pc \in {"read", "returned", "raised"},
         NEW front \in Nat, NEW upto \in Nat, NEW base \in Nat, Laid(front, upto, base)
  PROVE  Due \subseteq UpTo(wire, front)
<1>1. /\ wire \in Seq(Bytes) /\ sdk \in {"python", "typescript"} /\ Len(wire) \in Nat
      /\ rd \in Nat /\ front <= upto /\ upto <= base /\ base <= rd /\ rd <= Len(wire)
  BY DEF Places, Laid, Listing
<1> SUFFICES ASSUME NEW x \in Due
             PROVE  x \in UpTo(wire, front)
  OBVIOUS
<1>2. PICK p \in 1 .. rd : /\ wire[p] \in {"delta", "pair"}
                           /\ Closed(p)
                           /\ \A j \in 1 .. p : ~Stops(j)
                           /\ x \in NumbersAt(wire, p)
  BY DueIs
<1>3. CASE event = <<>> /\ Separators(buffer) = {}
  <2>1. contents = <<>>
    BY DEF Pending
  <2>2. Laid(base, base, base)
    BY <1>3, <2>1, Settled
  <2>3. p <= base
    <3>1. SUFFICES ASSUME ~(p <= base)
                   PROVE  FALSE
      OBVIOUS
    <3>2. PICK j \in p .. rd - 1 : wire[j] = "nl" /\ wire[j + 1] = "nl"
      BY <1>2 DEF Closed
    <3>3. j \in base + 1 .. rd /\ j + 1 <= rd
      BY <1>1, <3>1
    <3>4. Listing(sdk, wire, buffer, base, rd)
      BY DEF Laid
    <3>5. Separators(buffer) # {}
      BY <1>1, <3>2, <3>3, <3>4, AdjacentInBody
    <3> QED
      BY <1>3, <3>5
  <2>4. x \in UpTo(wire, base)
    <3>1. p \in 1 .. base
      BY <1>1, <2>3
    <3> QED
      BY <1>2, <3>1, UpToIs
  <2>5. UpTo(wire, base) = UpTo(wire, front)
    <3>1. Given(wire, base, out, contents) /\ Given(wire, front, out, contents)
      BY <2>2 DEF Laid
    <3> QED
      BY <3>1 DEF Given
  <2> QED
    BY <2>4, <2>5
<1>4. CASE event # <<>> /\ KindOf(event) \in Stoppers(sdk)
  <2> DEFINE first == event[1].n
  <2>1. Listing(sdk, wire, event, front, upto)
    BY DEF Laid
  <2>2. /\ first \in front + 1 .. upto
        /\ wire[first] \in Stoppers(sdk) /\ wire[first] \in TextKinds
    BY <1>1, <1>4, <2>1, FirstLine, StoppersAre
  <2>3. first \in 1 .. base
    BY <1>1, <2>2
  <2>4. Stops(first)
    <3>1. Closed(first)
      BY <2>2, <2>3, NothingEarly
    <3> QED
      BY <2>2, <3>1, StoppersAre DEF Stops
  <2>5. p < first
    <3>1. first \notin 1 .. p
      BY <1>2, <2>4
    <3> QED
      BY <1>1, <2>3, <3>1
  <2>6. p <= front
    <3>1. SUFFICES ASSUME ~(p <= front)
                   PROVE  FALSE
      OBVIOUS
    <3>2. p \in front + 1 .. upto /\ p \in 1 .. Len(wire) /\ wire[p] \in Bytes
      BY <1>1, <2>2, <2>5, <3>1
    <3>3. VisibleIn(sdk, wire[p])
      BY <1>1, <1>2, <3>2, ShownAsItself, StoppersAre
    <3>4. PICK i \in 1 .. Len(event) : event[i].n = p
      BY <2>1, <3>2, <3>3 DEF Listing
    <3>5. /\ Len(event) \in Nat /\ 1 \in 1 .. Len(event)
      BY <2>1, EmptySeq DEF Listing, AnyText
    <3>6. 1 < i => first < event[i].n
      BY <2>1, <3>5 DEF Listing
    <3> HIDE DEF first
    <3>7. i = 1 \/ 1 < i
      BY <3>5
    <3>8. i = 1 => event[i].n = first
      BY DEF first
    <3> QED
      BY <1>1, <2>3, <2>5, <3>4, <3>6, <3>7, <3>8
  <2>7. p \in 1 .. front
    BY <2>6
  <2> QED
    BY <1>2, <2>7, UpToIs
<1>5. pc = "read" => event = <<>> /\ Separators(buffer) = {}
  BY DEF Pending
<1>6. pc \in {"returned", "raised"} =>
        \/ event = <<>> /\ Separators(buffer) = {}
        \/ event # <<>> /\ KindOf(event) \in Stoppers(sdk)
  BY DEF Pending
<1> QED
  BY <1>3, <1>4, <1>5, <1>6

LEMMA Invisible ==
  IInv => ChunkingInvisible
<1> SUFFICES ASSUME IInv
             PROVE  ChunkingInvisible
  OBVIOUS
<1>1. Places /\ WellWritten(wire) /\ Pending
  BY DEF IInv
<1>2. PICK front \in 0 .. Len(wire), upto \in 0 .. Len(wire), base \in 0 .. Len(wire) :
        Laid(front, upto, base)
  BY DEF IInv, Layout
<1>3. /\ front \in Nat /\ upto \in Nat /\ base \in Nat
      /\ Given(wire, front, out, contents)
  BY <1>2 DEF Laid
<1>4. UpTo(wire, front) \subseteq Due
  BY <1>1, <1>2, <1>3, NothingEarly
<1>5. Yielded = NumbersIn(out) /\ NumbersIn(out) \cup NumbersIn(contents) = UpTo(wire, front)
  BY <1>3 DEF Given, Yielded, NumbersIn
<1>6. \A i, j \in 1 .. Len(out) :
        i < j => Nth(out[i].n, out[i].choice) < Nth(out[j].n, out[j].choice)
  BY <1>3 DEF Given, Ordered
<1>7. ASSUME NEW d \in Due \ Yielded, NEW y \in Yielded
      PROVE  y < d
  <2>1. PICK i \in 1 .. Len(out) : y = Nth(out[i].n, out[i].choice)
    BY DEF Yielded
  <2>2. CASE d \in NumbersIn(contents)
    <3>1. PICK j \in 1 .. Len(contents) : d = Nth(contents[j].n, contents[j].choice)
      BY <2>2 DEF NumbersIn
    <3> QED
      BY <1>3, <2>1, <3>1 DEF Given, Before
  <2>3. CASE d \notin NumbersIn(contents)
    <3>1. d \notin UpTo(wire, front)
      BY <1>5, <2>3
    <3>2. PICK p \in 1 .. rd : wire[p] \in {"delta", "pair"} /\ d \in NumbersAt(wire, p)
      BY DueIs
    <3>3. p \notin 1 .. front
      BY <3>1, <3>2, UpToIs
    <3>4. out[i].n \in Nat /\ out[i].choice \in {1, 2} /\ out[i].n <= front
      <4>1. out[i] \in [n : Nat, choice : {1, 2}, chars : SUBSET {"repl", "char"}]
        BY <1>3, ElementOfSeq DEF Given, AnyContents
      <4>2. out[i].n \in 1 .. front
        BY <1>3 DEF Given, Within
      <4> QED
        BY <1>3, <4>1, <4>2
    <3>5. p \in Nat /\ out[i].n < p
      BY <1>1, <1>3, <3>3, <3>4 DEF Places
    <3>6. \E c \in {1, 2} : d = Nth(p, c)
      BY <3>2 DEF NumbersAt
    <3> QED
      BY <2>1, <3>4, <3>5, <3>6, NthGrows
  <2> QED
    BY <2>2, <2>3
<1>8. ASSUME pc \in {"read", "returned", "raised"}
      PROVE  Yielded = Due
  <2>1. contents = <<>> /\ NumbersIn(<<>>) = {}
    BY <1>1, <1>8 DEF Pending, NumbersIn
  <2>2. Due \subseteq UpTo(wire, front)
    BY <1>1, <1>2, <1>3, <1>8, NothingLate
  <2> QED
    BY <1>4, <1>5, <2>1, <2>2
<1> QED
  BY <1>4, <1>5, <1>6, <1>7, <1>8 DEF ChunkingInvisible

-----------------------------------------------------------------------------
(* The refinement.  What is due by the bytes read is due by the body, and   *)
(* comes before everything else that is.                                    *)

LEMMA DeliveryDueIs ==
  ASSUME NEW x
  PROVE  x \in Delivery!Due <=>
           \E p \in 1 .. Len(wire) : /\ wire[p] \in {"delta", "pair"}
                                     /\ Delivery!Live(p)
                                     /\ x \in NumbersAt(wire, p)
<1>1. \A p : Delivery!NumbersOf(p) = NumbersAt(wire, p)
  BY DEF Delivery!NumbersOf, NumbersAt, Nth
<1> QED
  BY <1>1 DEF Delivery!Due

LEMMA StopsAre ==
  ASSUME NEW p
  PROVE  Stops(p) <=> wire[p] \in {"finish", "DONE"} \cup Fatal /\ Closed(p)
BY DEF Stops

\* An event that ends behind a byte is one for every byte before.
LEMMA ClosedBefore ==
  ASSUME Places, NEW p \in Nat, NEW q \in Nat, p <= q
  PROVE  /\ Closed(q) => Closed(p)
         /\ Closed(p) => Delivery!InEvent(p)
         /\ rd = Len(wire) => (Delivery!InEvent(p) => Closed(p))
<1>1. rd \in Nat /\ Len(wire) \in Nat /\ rd <= Len(wire)
  BY DEF Places
<1>2. \A j : j \in q .. rd - 1 => j \in p .. rd - 1
  OBVIOUS
<1>3. \A j : j \in p .. rd - 1 => j \in p .. Len(wire) - 1
  BY <1>1
<1> QED
  BY <1>2, <1>3 DEF Closed, Delivery!InEvent

LEMMA DueOfBody ==
  ASSUME Places
  PROVE  Due \subseteq Delivery!Due
<1> SUFFICES ASSUME NEW x \in Due
             PROVE  x \in Delivery!Due
  OBVIOUS
<1>1. PICK p \in 1 .. rd : /\ wire[p] \in {"delta", "pair"}
                           /\ Closed(p)
                           /\ \A j \in 1 .. p : ~Stops(j)
                           /\ x \in NumbersAt(wire, p)
  BY DueIs
<1>2. p \in Nat /\ p \in 1 .. Len(wire)
  BY DEF Places
<1>3. ASSUME NEW j \in 1 .. p
      PROVE  wire[j] \notin {"finish", "DONE"} \cup Fatal
  <2>1. Closed(j)
    BY <1>1, <1>2, ClosedBefore
  <2> QED
    BY <1>1, <2>1, StopsAre
<1>4. Delivery!InEvent(p)
  BY <1>1, <1>2, ClosedBefore
<1>5. Delivery!Live(p)
  BY <1>3, <1>4 DEF Delivery!Live
<1> QED
  BY <1>1, <1>2, <1>5, DeliveryDueIs

\* Of what is due by the body, that of a line which the bytes read complete.
LEMMA DueByNow ==
  ASSUME Places, NEW p \in 1 .. Len(wire), wire[p] \in {"delta", "pair"},
         Delivery!Live(p), NEW x \in NumbersAt(wire, p), Closed(p)
  PROVE  x \in Due
<1>1. p \in 1 .. rd
  <2>1. PICK j \in p .. rd - 1 : wire[j] = "nl"
    BY DEF Closed
  <2> QED
    BY <2>1 DEF Places
<1>2. \A j \in 1 .. p : ~Stops(j)
  BY StopsAre DEF Delivery!Live
<1> QED
  BY <1>1, <1>2, DueIs

LEMMA DueInOrder ==
  ASSUME Places, NEW d \in Due, NEW e \in Delivery!Due, e < d
  PROVE  e \in Due
<1>1. PICK q \in 1 .. rd : wire[q] \in {"delta", "pair"} /\ Closed(q) /\ d \in NumbersAt(wire, q)
  BY DueIs
<1>2. PICK p \in 1 .. Len(wire) : /\ wire[p] \in {"delta", "pair"}
                                  /\ Delivery!Live(p)
                                  /\ e \in NumbersAt(wire, p)
  BY DeliveryDueIs
<1>3. p \in Nat /\ q \in Nat
  BY DEF Places
<1>4. PICK c \in {1, 2}, f \in {1, 2} : e = Nth(p, c) /\ d = Nth(q, f)
  BY <1>1, <1>2 DEF NumbersAt
<1>5. p <= q
  BY <1>3, <1>4 DEF Nth
<1> QED
  BY <1>1, <1>2, <1>3, <1>5, ClosedBefore, DueByNow

\* When the body is at its end, or the event begins with an end mark, nothing
\* is due but what the bytes read call for.
LEMMA DueAtEnd ==
  ASSUME IInv,
         \/ rd = Len(wire)
         \/ pc = "line" /\ event # <<>> /\ KindOf(event) \in {"finish", "DONE"}
  PROVE  Delivery!Due \subseteq Due
<1>1. Places /\ WellWritten(wire)
  BY DEF IInv
<1> SUFFICES ASSUME NEW x \in Delivery!Due
             PROVE  x \in Due
  OBVIOUS
<1>2. PICK p \in 1 .. Len(wire) : /\ wire[p] \in {"delta", "pair"}
                                  /\ Delivery!Live(p)
                                  /\ x \in NumbersAt(wire, p)
  BY DeliveryDueIs
<1>3. CASE rd = Len(wire)
  <2>1. Closed(p)
    BY <1>1, <1>2, <1>3, ClosedBefore DEF Delivery!Live
  <2> QED
    BY <1>1, <1>2, <2>1, DueByNow
<1>4. CASE event # <<>> /\ KindOf(event) \in {"finish", "DONE"}
  <2>1. PICK front \in 0 .. Len(wire), upto \in 0 .. Len(wire), base \in 0 .. Len(wire) :
          Laid(front, upto, base)
    BY DEF IInv, Layout
  <2>2. /\ wire \in Seq(Bytes) /\ sdk \in {"python", "typescript"}
        /\ front \in Nat /\ upto \in Nat /\ base \in Nat /\ upto <= base
        /\ Listing(sdk, wire, event, front, upto)
    BY <1>1, <2>1 DEF Places, Laid
  <2> DEFINE first == event[1].n
  <2>3. first \in front + 1 .. upto /\ wire[first] = KindOf(event)
    BY <1>1, <1>4, <2>2, FirstLine, StoppersAre DEF TextKinds, DataKinds
  <2>4. Closed(first)
    <3>1. first \in 1 .. base /\ wire[first] \in TextKinds
      BY <1>4, <2>2, <2>3 DEF TextKinds, DataKinds
    <3> QED
      BY <1>1, <2>1, <2>2, <3>1, NothingEarly
  <2>5. first \in Nat /\ first \notin 1 .. p
    <3>1. \A j \in 1 .. p : wire[j] \notin {"finish", "DONE"}
      BY <1>2 DEF Delivery!Live
    <3> QED
      BY <1>4, <2>2, <2>3, <3>1
  <2> HIDE DEF first
  <2>6. p \in Nat /\ p <= first
    <3>1. first >= 1
      BY <2>2, <2>3
    <3> QED
      BY <2>5, <3>1
  <2>7. Closed(p)
    BY <1>1, <2>4, <2>5, <2>6, ClosedBefore
  <2> QED
    BY <1>1, <1>2, <2>7, DueByNow
<1> QED
  BY <1>3, <1>4

\* The numbers of the contents yielded, as SseDelivery sees them.
GotOf(seq) == [i \in 1 .. Len(seq) |-> Nth(seq[i].n, seq[i].choice)]

LEMMA GotOfIs ==
  ASSUME NEW seq \in AnyContents
  PROVE  /\ GotOf(seq) \in Seq(Nat)
         /\ Len(GotOf(seq)) = Len(seq)
         /\ \A i \in 1 .. Len(seq) : GotOf(seq)[i] = Nth(seq[i].n, seq[i].choice)
<1>1. Len(seq) \in Nat
  BY DEF AnyContents
<1>2. ASSUME NEW i \in 1 .. Len(seq)
      PROVE  Nth(seq[i].n, seq[i].choice) \in Nat
  <2>1. seq[i] \in [n : Nat, choice : {1, 2}, chars : SUBSET {"repl", "char"}]
    BY ElementOfSeq DEF AnyContents
  <2> QED
    BY <2>1 DEF Nth
<1>3. GotOf(seq) \in [1 .. Len(seq) -> Nat]
  BY <1>2 DEF GotOf
<1> QED
  BY <1>1, <1>3, LenProperties, SeqDef DEF GotOf

LEMMA GotOfAppend ==
  ASSUME NEW seq \in AnyContents,
         NEW c \in [n : Nat, choice : {1, 2}, chars : SUBSET {"repl", "char"}]
  PROVE  GotOf(Append(seq, c)) = Append(GotOf(seq), Nth(c.n, c.choice))
<1> DEFINE new == Append(seq, c)
           more == Append(GotOf(seq), Nth(c.n, c.choice))
<1>1. /\ new \in AnyContents /\ Len(new) = Len(seq) + 1 /\ Len(seq) \in Nat
      /\ \A i \in 1 .. Len(seq) : new[i] = seq[i]
      /\ new[Len(seq) + 1] = c
  BY AppendProperties DEF AnyContents
<1>2. Nth(c.n, c.choice) \in Nat
  BY DEF Nth
<1>3. /\ more \in Seq(Nat) /\ Len(more) = Len(seq) + 1
      /\ \A i \in 1 .. Len(seq) : more[i] = GotOf(seq)[i]
      /\ more[Len(seq) + 1] = Nth(c.n, c.choice)
  BY <1>1, <1>2, GotOfIs, AppendProperties
<1> HIDE DEF new, more
<1>4. GotOf(new) \in Seq(Nat) /\ Len(GotOf(new)) = Len(more)
  BY <1>1, <1>3, GotOfIs
<1>5. ASSUME NEW i \in 1 .. Len(more)
      PROVE  GotOf(new)[i] = more[i]
  <2>1. i \in 1 .. Len(new)
    BY <1>1, <1>3
  <2>2. GotOf(new)[i] = Nth(new[i].n, new[i].choice)
    BY <1>1, <2>1, GotOfIs
  <2>3. i \in 1 .. Len(seq) \/ i = Len(seq) + 1
    BY <1>1, <1>3
  <2> QED
    BY <1>1, <1>3, <2>2, <2>3, GotOfIs
<1>6. GotOf(new) = more
  BY <1>3, <1>4, <1>5, SeqEqual
<1> QED
  BY <1>6 DEF new, more

\* The last number is the largest.
LEMMA LastIsLargest ==
  ASSUME IInv
  PROVE  /\ Delivery!LastGot \in Nat
         /\ out = <<>> => Delivery!LastGot = 0
         /\ out # <<>> => Delivery!LastGot = Nth(out[Len(out)].n, out[Len(out)].choice)
         /\ \A y \in Yielded : y \in Nat /\ y <= Delivery!LastGot
<1>1. out \in AnyContents /\ Ordered(out)
  BY DEF IInv, Layout, Laid, Given
<1>2. Delivery!LastGot = IF GotOf(out) = <<>> THEN 0 ELSE GotOf(out)[Len(GotOf(out))]
  BY DEF Delivery!LastGot, GotOf
<1>3. /\ GotOf(out) \in Seq(Nat)
      /\ Len(GotOf(out)) = Len(out)
      /\ \A i \in 1 .. Len(out) : GotOf(out)[i] = Nth(out[i].n, out[i].choice)
  BY <1>1, GotOfIs
<1>4. CASE out = <<>>
  <2>1. GotOf(out) = <<>>
    BY <1>3, <1>4, EmptySeq
  <2> QED
    BY <1>2, <1>4, <2>1 DEF Yielded
<1>5. CASE out # <<>>
  <2>1. Len(out) \in 1 .. Len(out) /\ Len(out) \in Nat
    BY <1>1, <1>5, EmptySeq DEF AnyContents
  <2>2. GotOf(out) # <<>>
    BY <1>3, <2>1
  <2>3. Delivery!LastGot = GotOf(out)[Len(out)] /\ Delivery!LastGot \in Nat
    BY <1>2, <1>3, <2>1, <2>2, ElementOfSeq
  <2>4. ASSUME NEW y \in Yielded
        PROVE  y \in Nat /\ y <= Delivery!LastGot
    <3>1. PICK i \in 1 .. Len(out) : y = Nth(out[i].n, out[i].choice)
      BY DEF Yielded
    <3>2. y = GotOf(out)[i] /\ y \in Nat
      BY <1>3, <3>1, ElementOfSeq
    <3>3. CASE i = Len(out)
      BY <2>3, <3>2, <3>3
    <3>4. CASE i < Len(out)
      <4>1. y < Nth(out[Len(out)].n, out[Len(out)].choice)
        BY <1>1, <2>1, <3>1, <3>4 DEF Ordered
      <4> QED
        BY <1>3, <2>1, <2>3, <3>2, <4>1
    <3> QED
      BY <2>1, <3>3, <3>4
  <2> QED
    BY <1>3, <1>5, <2>1, <2>3, <2>4
<1> QED
  BY <1>4, <1>5

\* A content yielded is the next one due.
LEMMA YieldDelivers ==
  ASSUME IInv, ChunkingInvisible, ChunkingInvisible', Yield
  PROVE  Delivery!Deliver
<1> DEFINE c == Head(contents)
           d == Nth(c.n, c.choice)
<1>1. Places /\ out \in AnyContents /\ contents \in AnyContents
  BY DEF IInv, Layout, Laid, Given
<1>2. c \in [n : Nat, choice : {1, 2}, chars : SUBSET {"repl", "char"}]
  BY <1>1, HeadTailProperties DEF Yield, AnyContents
<1>3. /\ out' = Append(out, c)
      /\ UNCHANGED <<sdk, wire, rd>>
      /\ pc = "choices" /\ pc' = "yielded"
  BY DEF Yield, gatewayVars, readVars
<1> HIDE DEF c
<1>4. /\ Len(out') = Len(out) + 1 /\ Len(out) \in Nat
      /\ \A i \in 1 .. Len(out) : out'[i] = out[i]
      /\ out'[Len(out) + 1] = c
  BY <1>1, <1>2, <1>3, AppendProperties DEF AnyContents
<1>5. Due' = Due
  BY <1>3 DEF Due, Closed, Stops, Numbers, Fatal
<1>6. Yielded' = Yielded \cup {d}
  <2>1. \A i : i \in 1 .. Len(out') <=> i \in 1 .. Len(out) \/ i = Len(out) + 1
    BY <1>4
  <2>2. ASSUME NEW y
        PROVE  y \in Yielded' <=> y \in Yielded \/ y = d
    BY <1>4, <2>1 DEF Yielded
  <2> QED
    BY <2>2
<1>7. d \in Due
  BY <1>5, <1>6 DEF ChunkingInvisible
<1>8. d \in Delivery!Due
  BY <1>1, <1>7, DueOfBody
<1>9. Delivery!LastGot \in Nat /\ Delivery!LastGot < d
  <2>1. CASE out = <<>>
    BY <1>2, <2>1, LastIsLargest DEF Nth
  <2>2. CASE out # <<>>
    <3>1. Len(out) \in 1 .. Len(out') /\ Len(out) + 1 \in 1 .. Len(out') /\ Len(out) < Len(out) + 1
          /\ Len(out) \in 1 .. Len(out)
      BY <1>1, <1>4, <2>2, EmptySeq DEF AnyContents
    <3>2. Nth(out'[Len(out)].n, out'[Len(out)].choice)
            < Nth(out'[Len(out) + 1].n, out'[Len(out) + 1].choice)
      BY <3>1 DEF ChunkingInvisible
    <3> QED
      BY <1>4, <2>2, <3>1, <3>2, LastIsLargest
  <2> QED
    BY <2>1, <2>2
<1>10. ASSUME NEW e \in Delivery!Due, e < d
       PROVE  e <= Delivery!LastGot
  <2>1. e \in Due
    BY <1>1, <1>7, <1>10, DueInOrder
  <2>2. e \in Nat /\ d \in Nat
    <3>1. \A x \in Due : x \in Nat
      <4> TAKE x \in Due
      <4>1. PICK p \in 1 .. rd : x \in NumbersAt(wire, p)
        BY DueIs
      <4> QED
        BY <1>1, <4>1 DEF NumbersAt, Nth, Places
    <3> QED
      BY <1>7, <2>1, <3>1
  <2>3. e \in Yielded
    <3>1. SUFFICES ASSUME e \notin Yielded
                   PROVE  FALSE
      OBVIOUS
    <3>2. e \in Due' \ Yielded' /\ d \in Yielded'
      BY <1>5, <1>6, <1>10, <2>1, <2>2, <3>1
    <3>3. d < e
      BY <3>2 DEF ChunkingInvisible
    <3> QED
      BY <1>10, <2>2, <3>3
  <2> QED
    BY <2>3, LastIsLargest
<1>11. GotOf(out)' = Append(GotOf(out), d)
  <2>1. GotOf(Append(out, c)) = Append(GotOf(out), d)
    BY <1>1, <1>2, GotOfAppend
  <2> QED
    BY <1>3, <2>1 DEF GotOf
<1> HIDE DEF d
<1>12. Delivery!Deliver!2
  BY <1>8, <1>9, <1>10, <1>11 DEF Delivery!Deliver, GotOf
<1> QED
  BY <1>3, <1>12 DEF Delivery!Deliver, Final, Fatal

\* A generator that returns has given everything.
LEMMA ReturnConcludes ==
  ASSUME IInv, ChunkingInvisible', BodyEnds \/ Finish
  PROVE  Delivery!Conclude
<1>1. /\ UNCHANGED <<sdk, wire, rd, out>> /\ pc' = "returned"
      /\ pc \in {"read", "line"}
      /\ \/ rd = Len(wire)
         \/ pc = "line" /\ event # <<>> /\ KindOf(event) \in {"finish", "DONE"}
  BY DEF BodyEnds, Finish, Leave, gatewayVars, readVars
<1>2. Delivery!Due \subseteq Due
  BY <1>1, DueAtEnd
<1>3. Due' = Due /\ Yielded' = Yielded
  BY <1>1 DEF Due, Closed, Stops, Numbers, Fatal, Yielded
<1>4. Yielded = Due
  BY <1>1, <1>3 DEF ChunkingInvisible
<1>5. \A d \in Delivery!Due : d <= Delivery!LastGot
  BY <1>2, <1>4, LastIsLargest
<1> QED
  BY <1>1, <1>5 DEF Delivery!Conclude, Delivery!Verdicts, Fatal

\* Each step is, for someone who sees only the body, what was yielded and how it
\* ended, a step of SseDelivery or no step at all.
LEMMA StepDelivers ==
  ASSUME IInv, ChunkingInvisible, ChunkingInvisible', [Next]_vars
  PROVE  [Delivery!Next]_(Delivery!vars)
<1>1. CASE WriteLine
  <2>1. /\ Len(wire) < Len(wire')
        /\ \A p \in 1 .. Len(wire) : wire'[p] = wire[p]
    <3>1. PICK k \in Written[sdk], e \in Ends[sdk], accented \in BOOLEAN :
            /\ accented => k = "delta"
            /\ wire' = wire \o (TextOf(k, accented) \o EndOf(e))
      BY <1>1 DEF WriteLine
    <3>2. k \in LineKinds /\ e \in {"lf", "crlf"}
      BY WrittenAssumption, EndsAssumption DEF IInv, Places
    <3> DEFINE line == TextOf(k, accented) \o EndOf(e)
    <3>3. line \in Seq(Bytes) /\ Len(line) > 0
      <4>1. line \in Seq(Bytes)
        BY <3>1, <3>2, LineWritten
      <4>2. line # <<>>
        <5>1. CASE k = "blank"
          BY <3>2, <5>1 DEF TextOf, EndOf
        <5>2. CASE k # "blank" /\ accented
          BY <3>2, <5>2 DEF TextOf, EndOf
        <5>3. CASE k # "blank" /\ ~accented
          BY <3>2, <5>3 DEF TextOf, EndOf
        <5> QED
          BY <5>1, <5>2, <5>3
      <4> QED
        BY <4>1, <4>2, EmptySeq
    <3> HIDE DEF line
    <3>4. wire' = wire \o line /\ wire \in Seq(Bytes)
      BY <3>1 DEF line, IInv, Places
    <3> QED
      BY <3>3, <3>4
  <2>2. UNCHANGED <<sdk, out, pc>>
    BY <1>1 DEF WriteLine
  <2>3. Delivery!Write
    BY <2>1, <2>2 DEF Delivery!Write, Fatal
  <2> QED
    BY <2>3 DEF Delivery!Next
<1>2. CASE Yield
  BY <1>2, YieldDelivers DEF Delivery!Next
<1>3. CASE BodyEnds \/ Finish
  BY <1>3, ReturnConcludes DEF Delivery!Next
<1>4. CASE Unreachable \/ Refused \/ ReadFails \/ Trip \/ Close
  <2>1. /\ pc \in {"created", "read", "line", "yielded"} /\ pc' \in {"raised", "refused", "closed"}
        /\ UNCHANGED <<sdk, wire, out>>
    BY <1>4 DEF Unreachable, Refused, ReadFails, Trip, Close, Leave, gatewayVars, readVars
  <2>2. Delivery!Conclude
    BY <2>1 DEF Delivery!Conclude, Delivery!Verdicts, Fatal
  <2> QED
    BY <2>2 DEF Delivery!Next
<1>5. ASSUME UNCHANGED <<sdk, wire, out>>, pc' = pc \/ (pc \notin Final /\ pc' \notin Final)
      PROVE  UNCHANGED Delivery!vars
  BY <1>5 DEF Delivery!vars, Final, Fatal
<1>6. CASE EndBody \/ Break \/ Abort \/ SkipLine \/ Terminated \/ UNCHANGED vars
  BY <1>5, <1>6 DEF EndBody, Break, Abort, SkipLine, Terminated, vars, gatewayVars, readVars
<1>7. CASE Opened \/ Read \/ CutEvent \/ NoEvent \/ EventDone
  BY <1>5, <1>7 DEF Opened, Read, CutEvent, NoEvent, EventDone, Final, gatewayVars, readVars
<1>8. CASE TakeLine \/ ChoicesDone \/ Resume
  BY <1>5, <1>8 DEF TakeLine, ChoicesDone, Resume, Final, gatewayVars, readVars
<1> QED
  BY <1>1, <1>2, <1>3, <1>4, <1>6, <1>7, <1>8 DEF Next, Gateway, Generator

-----------------------------------------------------------------------------
(* The theorems. *)

\* Every variable has its type; in particular nothing but bytes of a character
\* is ever found between the first character of a line and its end (SseStream,
\* the loops over buffer, lines and choices).
THEOREM TypeCorrect ==
  Spec => []TypeOK
BY Invariant, Typed, PTL

\* What is yielded is what the bytes read so far call for, whatever the reads
\* and chunks, in order, once, and all of it whenever the generator waits or has
\* stopped by itself (the buffer cut at "\n\n" in client.py and index.ts).
THEOREM Chunking ==
  Spec => []ChunkingInvisible
BY Invariant, Invisible, PTL

\* TypeScript puts the bytes of a character together across chunks
\* (decode(value, { stream: true })).
THEOREM Deltas ==
  Spec => []DeltasIntact
<1>1. IInv => DeltasIntact
  BY DEF IInv, Intact, Undamaged, DeltasIntact
<1> QED
  BY <1>1, Invariant, PTL

\* Python closes the response however a generator ends whose call was accepted
\* (with resp); the one it leaves open is that of a refusal, which reaches the
\* caller inside the exception (client.py:188-190).
THEOREM Closing ==
  Spec => []ClosedAtEnd
<1>1. IInv => ClosedAtEnd
  BY DEF IInv
<1> QED
  BY <1>1, Invariant, PTL

\* Both generators implement SseDelivery: a consumer gets the contents of the
\* body in order, none skipped, nothing after the end, and all of them when the
\* generator returns instead of raising (client.py:188-217, index.ts:107-138).
THEOREM DeliveryRefined ==
  Spec => ImplementsDelivery
<1>1. Init => Delivery!Init
  BY EmptySeq DEF Init, Delivery!Init, Final
<1>2. IInv /\ ChunkingInvisible /\ ChunkingInvisible' /\ [Next]_vars
        => [Delivery!Next]_(Delivery!vars)
  BY StepDelivers
<1> QED
  BY <1>1, <1>2, Invariant, Chunking, PTL DEF Spec, ImplementsDelivery, Delivery!Spec
=============================================================================
