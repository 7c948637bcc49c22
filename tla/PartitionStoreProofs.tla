------------------------ MODULE PartitionStoreProofs ------------------------
(***************************************************************************)
(* The segment file of a partition, for any messages and any number of     *)
(* records, crashes and failing calls: the codec, the offsets, what a      *)
(* crash costs, and that the store implements DurableLog.                  *)
(***************************************************************************)
EXTENDS PartitionStore, SequenceTheorems, Ranks

-----------------------------------------------------------------------------
(* The codec.                                                              *)

(* What encoded data is made of.                                           *)
Cell == Bytes \union Nat

(* The first n elements of an encoded field and what follows it.           *)
Cut(v, rest, n) == SubSeq(WriteBytes(v) \o rest, 1, n)

LEMMA CutCells ==
    ASSUME NEW v \in Seq(Bytes), NEW rest \in Seq(Cell), NEW n \in 0..(1 + Len(v) + Len(rest))
    PROVE  /\ WriteBytes(v) \in Seq(Cell)
           /\ Len(WriteBytes(v)) = 1 + Len(v)
           /\ WriteBytes(v) \o rest \in Seq(Cell)
           /\ Len(WriteBytes(v) \o rest) = 1 + Len(v) + Len(rest)
           /\ Cut(v, rest, n) \in Seq(Cell)
           /\ Len(Cut(v, rest, n)) = n
           /\ n >= 1 => Cut(v, rest, n)[1] = Len(v)
           /\ \A i \in 1..Len(v) : i + 1 <= n => Cut(v, rest, n)[i + 1] = v[i]
           /\ \A i \in 1..Len(rest) :
                 1 + Len(v) + i <= n => Cut(v, rest, n)[1 + Len(v) + i] = rest[i]
<1> DEFINE h == <<Len(v)>>
           w == h \o v
           e == w \o rest
           k == Len(v)
           l == Len(rest)
<1>1. k \in Nat /\ l \in Nat /\ n \in Nat /\ n <= 1 + k + l
  OBVIOUS
<1>2. h \in Seq(Cell) /\ Len(h) = 1 /\ h[1] = k
  BY <1>1 DEF Cell
<1>3. v \in Seq(Cell)
  BY SeqMonotonic DEF Cell
<1> HIDE DEF h
<1>4. w \in Seq(Cell) /\ Len(w) = 1 + k
      /\ \A i \in 1..(1 + k) : w[i] = IF i <= 1 THEN h[i] ELSE v[i - 1]
  <2>1. /\ w \in Seq(Cell) /\ Len(w) = Len(h) + Len(v)
        /\ \A i \in 1..(Len(h) + Len(v)) : w[i] = IF i <= Len(h) THEN h[i] ELSE v[i - Len(h)]
    BY <1>2, <1>3, ConcatProperties
  <2> QED  BY <1>1, <1>2, <2>1
<1> HIDE DEF w
<1>5. /\ e \in Seq(Cell) /\ Len(e) = 1 + k + l
      /\ \A i \in 1..(1 + k + l) : e[i] = IF i <= 1 + k THEN w[i] ELSE rest[i - (1 + k)]
  <2>1. /\ e \in Seq(Cell) /\ Len(e) = Len(w) + Len(rest)
        /\ \A i \in 1..(Len(w) + Len(rest)) :
              e[i] = IF i <= Len(w) THEN w[i] ELSE rest[i - Len(w)]
    BY <1>4, ConcatProperties
  <2> QED  BY <1>1, <1>4, <2>1
<1> HIDE DEF e, k, l
<1>6. e[1] = k
  <2>1. 1 \in 1..(1 + k) /\ 1 \in 1..(1 + k + l) /\ 1 <= 1 + k
    BY <1>1
  <2> QED  BY <1>2, <1>4, <1>5, <2>1
<1>7. \A i \in 1..k : e[i + 1] = v[i]
  <2> TAKE i \in 1..k
  <2>1. i + 1 \in 1..(1 + k) /\ i + 1 \in 1..(1 + k + l) /\ ~(i + 1 <= 1) /\ (i + 1) - 1 = i
    BY <1>1
  <2> QED  BY <1>1, <1>4, <1>5, <2>1
<1>8. \A i \in 1..l : e[1 + k + i] = rest[i]
  <2> TAKE i \in 1..l
  <2>1. 1 + k + i \in 1..(1 + k + l) /\ ~(1 + k + i <= 1 + k) /\ (1 + k + i) - (1 + k) = i
    BY <1>1
  <2> QED  BY <1>5, <2>1
<1>9. \A i \in 1..n : e[i] \in Cell
  BY <1>1, <1>5
<1>10. /\ SubSeq(e, 1, n) \in Seq(Cell)
       /\ Len(SubSeq(e, 1, n)) = n
       /\ \A i \in 1..n : SubSeq(e, 1, n)[i] = e[i]
  <2>1. 1 \in Int /\ n \in Int
    BY <1>1
  <2>2. /\ SubSeq(e, 1, n) \in Seq(Cell)
        /\ Len(SubSeq(e, 1, n)) = IF 1 <= n THEN n - 1 + 1 ELSE 0
        /\ \A i \in 1..(n - 1 + 1) : SubSeq(e, 1, n)[i] = e[1 + i - 1]
    BY <1>9, <2>1, SubSeqProperties
  <2> QED  BY <1>1, <2>2
<1> DEFINE c == SubSeq(e, 1, n)
<1> HIDE DEF c
<1>11. c \in Seq(Cell) /\ Len(c) = n /\ \A i \in 1..n : c[i] = e[i]
  BY <1>10 DEF c
<1>12. n >= 1 => c[1] = k
  BY <1>1, <1>6, <1>11
<1>13. \A i \in 1..k : i + 1 <= n => c[i + 1] = v[i]
  BY <1>1, <1>7, <1>11
<1>14. \A i \in 1..l : 1 + k + i <= n => c[1 + k + i] = rest[i]
  <2> SUFFICES ASSUME NEW i \in 1..l, 1 + k + i <= n
               PROVE  c[1 + k + i] = rest[i]
    OBVIOUS
  <2>1. 1 + k + i \in 1..n
    BY <1>1
  <2> QED  BY <1>8, <1>11, <2>1
<1>15. WriteBytes(v) = w /\ WriteBytes(v) \o rest = e /\ Cut(v, rest, n) = c
  BY DEF WriteBytes, Cut, h, w, e, c
<1> QED  BY <1>4, <1>5, <1>11, <1>12, <1>13, <1>14, <1>15 DEF k, l

(* A field in front of other encoded data.                                 *)
LEMMA FieldCells ==
    ASSUME NEW v \in Seq(Bytes), NEW rest \in Seq(Cell)
    PROVE  /\ WriteBytes(v) \in Seq(Cell)
           /\ WriteBytes(v) \o rest \in Seq(Cell)
           /\ Len(WriteBytes(v) \o rest) = 1 + Len(v) + Len(rest)
<1>1. Len(v) \in Nat /\ Len(rest) \in Nat
  OBVIOUS
<1>2. 0 \in 0..(1 + Len(v) + Len(rest))
  BY <1>1
<1> QED  BY <1>2, CutCells

Cat(x, y) == x \o y

LEMMA FourFields ==
    \A s, t, u, v \in Seq(Cell) : Cat(Cat(Cat(s, t), u), v) = Cat(s, Cat(t, Cat(u, v)))
<1> DEFINE T == Seq(Cell)
<1>1. \A x, y, z \in T : Cat(Cat(x, y), z) = Cat(x, Cat(y, z))
  BY ConcatAssociative DEF Cat
<1>2. \A x, y \in T : Cat(x, y) \in T
  BY ConcatProperties DEF Cat
<1> HIDE DEF T
<1>3. \A s, t, u, v \in T : Cat(Cat(Cat(s, t), u), v) = Cat(s, Cat(t, Cat(u, v)))
  BY <1>1, <1>2
<1> QED  BY <1>3 DEF T

(* readBytes on a field that is complete, and on one that is cut.          *)
LEMMA FieldRead ==
    ASSUME NEW v \in Seq(Bytes), NEW rest \in Seq(Cell), NEW n \in 0..(1 + Len(v) + Len(rest))
    PROVE  LET r == ReadBytes(Cut(v, rest, n)) IN
           /\ n >= 2 /\ n >= 1 + Len(v) =>
                 /\ r.ok
                 /\ r.value = v
                 /\ r.rest = SubSeq(rest, 1, n - 1 - Len(v))
           /\ n <= 1 + Len(v) => r.rest = <<>>
<1> DEFINE d == Cut(v, rest, n)
           r == ReadBytes(d)
           k == Len(v)
           l == Len(rest)
           t == Tail(d)
<1>1. k \in Nat /\ l \in Nat /\ n \in Nat /\ n <= 1 + k + l
  OBVIOUS
<1>2. /\ d \in Seq(Cell) /\ Len(d) = n
      /\ n >= 1 => d[1] = k
      /\ \A i \in 1..k : i + 1 <= n => d[i + 1] = v[i]
      /\ \A i \in 1..l : 1 + k + i <= n => d[1 + k + i] = rest[i]
  <2>1. /\ Cut(v, rest, n) \in Seq(Cell) /\ Len(Cut(v, rest, n)) = n
        /\ n >= 1 => Cut(v, rest, n)[1] = Len(v)
        /\ \A i \in 1..Len(v) : i + 1 <= n => Cut(v, rest, n)[i + 1] = v[i]
        /\ \A i \in 1..Len(rest) :
              1 + Len(v) + i <= n => Cut(v, rest, n)[1 + Len(v) + i] = rest[i]
    BY CutCells
  <2> QED  BY <2>1
<1> HIDE DEF d
<1>3. CASE n <= 1
  <2>1. r = [ok |-> FALSE, value |-> <<>>, rest |-> <<>>]
    BY <1>2, <1>3 DEF ReadBytes
  <2> QED  BY <1>1, <1>3, <2>1 DEF d
<1>4. CASE n >= 2
  <2>1. d # <<>> /\ Head(d) = k
    BY <1>1, <1>2, <1>4
  <2>2. /\ t \in Seq(Cell) /\ Len(t) = n - 1
        /\ \A i \in 1..(n - 1) : t[i] = d[i + 1]
    BY <1>1, <1>2, <2>1, HeadTailProperties
  <2>3. r = [ok |-> TRUE,
             value |-> [i \in 1..k |-> IF i <= Len(t) THEN t[i] ELSE Zero],
             rest |-> SubSeq(t, k + 1, Len(t))]
    <3> HIDE DEF k
    <3>1. ~(Len(d) <= 1)
      BY <1>2, <1>4
    <3> QED  BY <2>1, <3>1, Zenon DEF ReadBytes
  <2> HIDE DEF t, r, k, l
  <2>4. ASSUME n <= 1 + k
        PROVE  r.rest = <<>>
    <3>1. SubSeq(t, k + 1, n - 1) = <<>>
      BY <1>1, <2>4, SubSeqEmpty
    <3> QED  BY <2>2, <2>3, <3>1
  <2>5. ASSUME n >= 1 + k
        PROVE  r.ok /\ r.value = v /\ r.rest = SubSeq(rest, 1, n - 1 - k)
    <3>1. r.value = v
      <4>1. \A i \in 1..k : i <= Len(t) /\ t[i] = v[i]
        <5> TAKE i \in 1..k
        <5>1. i \in 1..(n - 1) /\ i + 1 <= n
          BY <1>1, <2>5
        <5> QED  BY <1>2, <2>2, <5>1
      <4>2. r.value = [i \in 1..k |-> v[i]]
        BY <2>3, <4>1
      <4>3. v = [i \in 1..k |-> v[i]]
        BY DEF k
      <4> QED  BY <4>2, <4>3
    <3>2. r.rest = SubSeq(rest, 1, n - 1 - k)
      <4> DEFINE j == n - 1 - k
                 x == SubSeq(t, k + 1, n - 1)
                 y == SubSeq(rest, 1, j)
      <4>1. j \in Nat /\ j <= l
        BY <1>1, <2>5
      <4>2. /\ x \in Seq(Cell) /\ Len(x) = j
            /\ \A i \in 1..j : x[i] = t[k + i]
        <5>1. k + 1 \in Int /\ n - 1 \in Int /\ \A i \in (k + 1)..(n - 1) : t[i] \in Cell
          BY <1>1, <2>2
        <5>2. /\ x \in Seq(Cell)
              /\ Len(x) = IF k + 1 <= n - 1 THEN (n - 1) - (k + 1) + 1 ELSE 0
              /\ \A i \in 1..((n - 1) - (k + 1) + 1) : x[i] = t[(k + 1) + i - 1]
          BY <5>1, SubSeqProperties
        <5>3. (n - 1) - (k + 1) + 1 = j /\ \A i \in 1..j : (k + 1) + i - 1 = k + i
          BY <1>1
        <5>4. Len(x) = j
          BY <1>1, <4>1, <5>2
        <5> HIDE DEF x, j
        <5> QED  BY <5>2, <5>3, <5>4
      <4>3. /\ y \in Seq(Cell) /\ Len(y) = j
            /\ \A i \in 1..j : y[i] = rest[i]
        <5>1. 1 \in Int /\ j \in Int /\ \A i \in 1..j : rest[i] \in Cell
          BY <4>1 DEF l
        <5>2. /\ y \in Seq(Cell)
              /\ Len(y) = IF 1 <= j THEN j - 1 + 1 ELSE 0
              /\ \A i \in 1..(j - 1 + 1) : y[i] = rest[1 + i - 1]
          BY <5>1, SubSeqProperties
        <5> HIDE DEF y, j
        <5> QED  BY <4>1, <5>2
      <4>4. \A i \in 1..j : x[i] = y[i]
        <5> TAKE i \in 1..j
        <5>1. /\ i \in 1..l /\ 1 + k + i <= n /\ k + i \in 1..(n - 1)
              /\ (k + i) + 1 = 1 + k + i
          BY <1>1, <4>1
        <5>2. x[i] = d[1 + k + i]
          BY <2>2, <4>2, <5>1
        <5> QED  BY <1>2, <4>3, <5>1, <5>2
      <4>5. r.rest = x
        BY <2>2, <2>3
      <4> HIDE DEF x, y
      <4>6. x = y
        BY <4>2, <4>3, <4>4, SeqEqual
      <4> QED  BY <4>5, <4>6 DEF y
    <3>3. r.ok
      BY <2>3
    <3> QED  BY <3>1, <3>2, <3>3
  <2> QED  BY <2>4, <2>5 DEF r, d, k
<1> QED  BY <1>1, <1>3, <1>4

(* decodeMessage on the first n elements of an encoded message: everything *)
(* gives the message back, and a part never one of another identity.       *)
LEMMA DecodeCut ==
    ASSUME NEW m \in [id : Seq(Bytes), topic : Seq(Bytes), key : Seq(Bytes), payload : Seq(Bytes)],
           m.payload # <<>>
    PROVE  /\ Len(Encode(m)) \in Nat
           /\ Decode(Encode(m)) = m
           /\ \A n \in 0..Len(Encode(m)) :
                 LET d == Decode(SubSeq(Encode(m), 1, n)) IN
                 d # Failed => d.id = m.id /\ d.topic = m.topic /\ d.key = m.key
<1> DEFINE e == <<>>
           r3 == WriteBytes(m.payload) \o e
           r2 == WriteBytes(m.key) \o r3
           r1 == WriteBytes(m.topic) \o r2
           a == Len(m.id)
           b == Len(m.topic)
           c == Len(m.key)
           p == Len(m.payload)
           all == 4 + a + b + c + p
<1>1. /\ m.id \in Seq(Bytes) /\ m.topic \in Seq(Bytes)
      /\ m.key \in Seq(Bytes) /\ m.payload \in Seq(Bytes)
  OBVIOUS
<1>2. a \in Nat /\ b \in Nat /\ c \in Nat /\ p \in Nat /\ p >= 1
  BY <1>1, EmptySeq
<1>3. e \in Seq(Cell) /\ Len(e) = 0
  OBVIOUS
<1> HIDE DEF e
<1>4. /\ r3 \in Seq(Cell) /\ Len(r3) = 1 + p
      /\ WriteBytes(m.payload) \in Seq(Cell) /\ r3 = WriteBytes(m.payload)
  <2>2. /\ WriteBytes(m.payload) \in Seq(Cell)
        /\ WriteBytes(m.payload) \o e \in Seq(Cell)
        /\ Len(WriteBytes(m.payload) \o e) = 1 + Len(m.payload) + Len(e)
    BY <1>1, <1>3, FieldCells
  <2>3. r3 = WriteBytes(m.payload)
    <3> DEFINE w == WriteBytes(m.payload)
    <3> HIDE DEF w
    <3>1. w \in Seq(Cell)
      BY <2>2 DEF w
    <3>2. w \o <<>> = w
      BY <3>1
    <3> QED  BY <3>2 DEF w, e
  <2> QED  BY <1>2, <1>3, <2>2, <2>3
<1> HIDE DEF r3
<1>5. /\ r2 \in Seq(Cell) /\ Len(r2) = 2 + c + p
      /\ WriteBytes(m.key) \in Seq(Cell)
  <2>2. /\ WriteBytes(m.key) \in Seq(Cell)
        /\ WriteBytes(m.key) \o r3 \in Seq(Cell)
        /\ Len(WriteBytes(m.key) \o r3) = 1 + Len(m.key) + Len(r3)
    BY <1>1, <1>4, FieldCells
  <2>3. Len(r2) = 1 + Len(m.key) + (1 + p)
    BY <1>4, <2>2
  <2> QED  BY <1>2, <2>2, <2>3
<1> HIDE DEF r2
<1>6. /\ r1 \in Seq(Cell) /\ Len(r1) = 3 + b + c + p
      /\ WriteBytes(m.topic) \in Seq(Cell)
  <2>2. /\ WriteBytes(m.topic) \in Seq(Cell)
        /\ WriteBytes(m.topic) \o r2 \in Seq(Cell)
        /\ Len(WriteBytes(m.topic) \o r2) = 1 + Len(m.topic) + Len(r2)
    BY <1>1, <1>5, FieldCells
  <2> QED  BY <1>2, <1>5, <2>2
<1> HIDE DEF r1
<1>7. /\ Encode(m) = WriteBytes(m.id) \o r1
      /\ Encode(m) \in Seq(Cell) /\ Len(Encode(m)) = all
  <2>2. /\ WriteBytes(m.id) \in Seq(Cell)
        /\ WriteBytes(m.id) \o r1 \in Seq(Cell)
        /\ Len(WriteBytes(m.id) \o r1) = 1 + Len(m.id) + Len(r1)
    BY <1>1, <1>6, FieldCells
  <2> DEFINE wi == WriteBytes(m.id)  wt == WriteBytes(m.topic)
             wk == WriteBytes(m.key)  wp == WriteBytes(m.payload)
  <2>3. Encode(m) = Cat(Cat(Cat(wi, wt), wk), wp)
    BY DEF Encode, Cat
  <2>4. wi \in Seq(Cell) /\ wt \in Seq(Cell) /\ wk \in Seq(Cell) /\ wp \in Seq(Cell)
    BY <1>4, <1>5, <1>6, <2>2
  <2>5. r1 = Cat(wt, Cat(wk, wp))
    BY <1>4 DEF r1, r2, Cat
  <2> HIDE DEF wi, wt, wk, wp
  <2>6. Encode(m) = Cat(wi, r1)
    BY <2>3, <2>4, <2>5, FourFields
  <2>7. Encode(m) = WriteBytes(m.id) \o r1
    BY <2>6 DEF Cat, wi
  <2> QED  BY <1>2, <1>6, <2>2, <2>7
<1> DEFINE D(n) == SubSeq(Encode(m), 1, n)
<1>8. ASSUME NEW x, Len(x) <= 1
      PROVE  ~ReadBytes(x).ok /\ ReadBytes(x).rest = <<>>
  BY <1>8 DEF ReadBytes
<1>9. Len(<<>>) <= 1
  OBVIOUS
<1>10. ASSUME NEW n \in 0..all
       PROVE  LET d == Decode(D(n)) IN
              /\ n = all => d = m
              /\ d # Failed => d.id = m.id /\ d.topic = m.topic /\ d.key = m.key
  <2> DEFINE i == ReadBytes(D(n))
             t == ReadBytes(i.rest)
             k == ReadBytes(t.rest)
             q == ReadBytes(k.rest)
             d == Decode(D(n))
             n1 == n - 1 - a
             n2 == n1 - 1 - b
             n3 == n2 - 1 - c
  <2>1. /\ q.ok => d = [id |-> i.value, topic |-> t.value, key |-> k.value, payload |-> q.value]
        /\ ~q.ok => d = Failed
    BY DEF Decode
  <2>2. D(n) = Cut(m.id, r1, n) /\ n \in 0..(1 + Len(m.id) + Len(r1))
    BY <1>2, <1>6, <1>7 DEF Cut
  <2>3. /\ n >= 2 /\ n >= 1 + Len(m.id) =>
              /\ i.value = m.id
              /\ i.rest = SubSeq(r1, 1, n - 1 - Len(m.id))
        /\ n <= 1 + Len(m.id) => i.rest = <<>>
    <3>1. LET r == ReadBytes(Cut(m.id, r1, n)) IN
          /\ n >= 2 /\ n >= 1 + Len(m.id) =>
                /\ r.ok
                /\ r.value = m.id
                /\ r.rest = SubSeq(r1, 1, n - 1 - Len(m.id))
          /\ n <= 1 + Len(m.id) => r.rest = <<>>
      BY <1>1, <1>6, <2>2, FieldRead
    <3>2. i = ReadBytes(Cut(m.id, r1, n))
      BY <2>2
    <3> HIDE DEF i
    <3> QED  BY <3>1, <3>2
  <2> HIDE DEF D, i, d, all, a, b, c, p
  <2>4. CASE n <= 1 + a
    <3>1. i.rest = <<>>
      BY <2>3, <2>4 DEF a
    <3>2. t.rest = <<>>
      BY <1>8, <1>9, <3>1
    <3>3. k.rest = <<>>
      BY <1>8, <1>9, <3>2
    <3>4. ~q.ok
      BY <1>8, <1>9, <3>3
    <3>5. n # all
      BY <1>2, <2>4 DEF all
    <3> QED  BY <2>1, <3>4, <3>5 DEF d
  <2>5. CASE n > 1 + a
    <3>1. n1 \in 0..(3 + b + c + p) /\ n1 >= 1 /\ n >= 2 /\ n >= 1 + a
      BY <1>2, <2>5 DEF all
    <3>2. i.value = m.id /\ i.rest = SubSeq(r1, 1, n1)
      BY <2>3, <3>1 DEF a
    <3> HIDE DEF n1
    <3>3. i.rest = Cut(m.topic, r2, n1) /\ n1 \in 0..(1 + Len(m.topic) + Len(r2))
      BY <1>2, <1>5, <3>1, <3>2 DEF Cut, r1, b
    <3>4. /\ n1 >= 2 /\ n1 >= 1 + Len(m.topic) =>
                /\ t.value = m.topic
                /\ t.rest = SubSeq(r2, 1, n1 - 1 - Len(m.topic))
          /\ n1 <= 1 + Len(m.topic) => t.rest = <<>>
      BY <1>1, <1>5, <3>3, FieldRead
    <3> HIDE DEF t
    <3>5. CASE n1 <= 1 + b
      <4>1. t.rest = <<>>
        BY <3>4, <3>5 DEF b
      <4>2. k.rest = <<>>
        BY <1>8, <1>9, <4>1
      <4>3. ~q.ok
        BY <1>8, <1>9, <4>2
      <4>4. n # all
        BY <1>2, <3>5 DEF all, n1
      <4> QED  BY <2>1, <4>3, <4>4 DEF d
    <3>6. CASE n1 > 1 + b
      <4>1. n2 \in 0..(2 + c + p) /\ n2 >= 1 /\ n1 >= 2 /\ n1 >= 1 + b
        BY <1>2, <3>1, <3>6
      <4>2. t.value = m.topic /\ t.rest = SubSeq(r2, 1, n2)
        BY <3>4, <4>1 DEF b
      <4> HIDE DEF n2
      <4>3. t.rest = Cut(m.key, r3, n2) /\ n2 \in 0..(1 + Len(m.key) + Len(r3))
        BY <1>2, <1>4, <4>1, <4>2 DEF Cut, r2, c
      <4>4. /\ n2 >= 2 /\ n2 >= 1 + Len(m.key) =>
                  /\ k.value = m.key
                  /\ k.rest = SubSeq(r3, 1, n2 - 1 - Len(m.key))
            /\ n2 <= 1 + Len(m.key) => k.rest = <<>>
        BY <1>1, <1>4, <4>3, FieldRead
      <4> HIDE DEF k
      <4>5. CASE n2 <= 1 + c
        <5>1. k.rest = <<>>
          BY <4>4, <4>5 DEF c
        <5>2. ~q.ok
          BY <1>8, <1>9, <5>1
        <5>3. n # all
          BY <1>2, <4>5 DEF all, n1, n2
        <5> QED  BY <2>1, <5>2, <5>3 DEF d
      <4>6. CASE n2 > 1 + c
        <5>1. n3 \in 0..(1 + p) /\ n2 >= 2 /\ n2 >= 1 + c
          BY <1>2, <4>1, <4>6
        <5>2. k.value = m.key /\ k.rest = SubSeq(r3, 1, n3)
          BY <4>4, <5>1 DEF c
        <5>3. n = all => n3 = 1 + p
          BY <1>2 DEF all, n1, n2
        <5> HIDE DEF n3
        <5>4. k.rest = Cut(m.payload, e, n3) /\ n3 \in 0..(1 + Len(m.payload) + Len(e))
          BY <1>2, <1>3, <5>1, <5>2 DEF Cut, r3, p
        <5>5. n3 >= 2 /\ n3 >= 1 + Len(m.payload) => q.ok /\ q.value = m.payload
          <6>1. LET r == ReadBytes(Cut(m.payload, e, n3)) IN
                /\ n3 >= 2 /\ n3 >= 1 + Len(m.payload) =>
                      /\ r.ok
                      /\ r.value = m.payload
                      /\ r.rest = SubSeq(e, 1, n3 - 1 - Len(m.payload))
                /\ n3 <= 1 + Len(m.payload) => r.rest = <<>>
            BY <1>1, <1>3, <5>4, FieldRead
          <6> QED  BY <5>4, <6>1
        <5> HIDE DEF q
        <5>6. ASSUME n = all  PROVE d = m
          <6>1. q.ok /\ q.value = m.payload
            BY <1>2, <5>3, <5>5, <5>6 DEF p
          <6>2. d = [id |-> m.id, topic |-> m.topic, key |-> m.key, payload |-> m.payload]
            BY <2>1, <3>2, <4>2, <5>2, <6>1
          <6> QED  BY <6>2
        <5>7. ASSUME d # Failed
              PROVE  d.id = m.id /\ d.topic = m.topic /\ d.key = m.key
          BY <2>1, <3>2, <4>2, <5>2, <5>7
        <5> QED  BY <5>6, <5>7 DEF d
      <4>7. n2 \in Int /\ 1 + c \in Int
        BY <1>2, <4>1
      <4> QED  BY <4>5, <4>6, <4>7
    <3>7. n1 \in Int /\ 1 + b \in Int
      BY <1>2, <3>1
    <3> QED  BY <3>5, <3>6, <3>7
  <2> QED  BY <1>2, <2>4, <2>5
<1>11. Decode(Encode(m)) = m
  <2>1. all \in 0..all
    BY <1>2
  <2>2. D(all) = Encode(m)
    BY <1>7, SubSeqFull
  <2> QED  BY <1>10, <2>1, <2>2
<1>12. all \in Nat
  BY <1>2
<1> QED  BY <1>7, <1>10, <1>11, <1>12

(* What is stored decodes to itself, so never to an error or to Garbage.   *)
LEMMA StoredIsMessage ==
    ASSUME NEW m \in Message
    PROVE  Stored[m] = m /\ m # Failed /\ m # Garbage
<1>1. /\ m \in [id : Seq(Bytes), topic : Seq(Bytes), key : Seq(Bytes), payload : Seq(Bytes)]
      /\ m.payload # <<>> /\ m \in Requests
  BY CodecAssumption DEF Message, Accepts
<1>2. Decode(Encode(m)) = m
  BY <1>1, DecodeCut
<1>3. Stored[m] = Decode(Encode(m))
  BY DEF Stored
<1> QED  BY <1>1, <1>2, <1>3, CodecAssumption, StoreAssumption

-----------------------------------------------------------------------------
(* Records, and files as sequences of records.                             *)

LEMMA RecordFields ==
    ASSUME NEW r \in Record
    PROVE  /\ r.off \in Nat /\ r.msg \in Message \union {Garbage} /\ r.whole \in BOOLEAN
           /\ LET q == [r EXCEPT !.whole = TRUE] IN
              q \in Record /\ q.off = r.off /\ q.msg = r.msg /\ q.whole
           /\ LET q == [r EXCEPT !.whole = FALSE] IN
              q \in Record /\ q.off = r.off /\ q.msg = r.msg /\ ~q.whole
           /\ LET q == [r EXCEPT !.msg = Garbage, !.whole = TRUE] IN
              q \in Record /\ q.off = r.off /\ q.msg = Garbage /\ q.whole
           /\ r.whole => [r EXCEPT !.whole = TRUE] = r
<1> DEFINE B == BOOLEAN
           tt == TRUE
           ff == FALSE
           M == Message \union {Garbage}
<1>1. r \in [off : Nat, msg : M, whole : B] /\ tt \in B /\ ff \in B /\ Garbage \in M
  BY DEF Record
<1> HIDE DEF B, M, tt, ff
<1>2. r.off \in Nat /\ r.msg \in M /\ r.whole \in B
  BY <1>1
<1>3. \A b \in B :
         LET q == [r EXCEPT !.whole = b] IN
         q \in [off : Nat, msg : M, whole : B] /\ q.off = r.off /\ q.msg = r.msg /\ q.whole = b
  BY <1>1
<1>4. LET q == [r EXCEPT !.msg = Garbage, !.whole = tt] IN
      q \in [off : Nat, msg : M, whole : B] /\ q.off = r.off /\ q.msg = Garbage /\ q.whole = tt
  BY <1>1
<1>5. r.whole = tt => [r EXCEPT !.whole = tt] = r
  BY <1>1
<1>6. r.whole \in BOOLEAN => (r.whole <=> r.whole = TRUE)
  OBVIOUS
<1>7. LET q == [r EXCEPT !.whole = tt] IN
      q \in [off : Nat, msg : M, whole : B] /\ q.off = r.off /\ q.msg = r.msg /\ q.whole = tt
  BY <1>1, <1>3
<1>8. LET q == [r EXCEPT !.whole = ff] IN
      q \in [off : Nat, msg : M, whole : B] /\ q.off = r.off /\ q.msg = r.msg /\ q.whole = ff
  BY <1>1, <1>3
<1> QED  BY <1>2, <1>4, <1>5, <1>6, <1>7, <1>8, Zenon DEF B, M, tt, ff, Record

(* The first n records of a file.                                          *)
LEMMA FileCut ==
    ASSUME NEW f \in Seq(Record), NEW n \in 0..Len(f)
    PROVE  /\ SubSeq(f, 1, n) \in Seq(Record)
           /\ Len(SubSeq(f, 1, n)) = n
           /\ \A i \in 1..n : SubSeq(f, 1, n)[i] = f[i]
<1>1. n \in Nat /\ n <= Len(f) /\ Len(f) \in Nat
  OBVIOUS
<1>2. 1 \in Int /\ n \in Int /\ \A i \in 1..n : f[i] \in Record
  BY <1>1
<1>3. /\ SubSeq(f, 1, n) \in Seq(Record)
      /\ Len(SubSeq(f, 1, n)) = IF 1 <= n THEN n - 1 + 1 ELSE 0
      /\ \A i \in 1..(n - 1 + 1) : SubSeq(f, 1, n)[i] = f[1 + i - 1]
  BY <1>2, SubSeqProperties
<1> QED  BY <1>1, <1>3

(* One record of a file is replaced.                                       *)
LEMMA FileMark ==
    ASSUME NEW f \in Seq(Record), NEW n \in 1..Len(f), NEW e \in Record
    PROVE  LET g == [f EXCEPT ![n] = e] IN
           /\ g \in Seq(Record)
           /\ Len(g) = Len(f)
           /\ \A i \in 1..Len(f) : i # n => g[i] = f[i]
           /\ g[n] = e
<1> DEFINE g == [f EXCEPT ![n] = e]
<1>1. /\ g \in Seq(Record) /\ Len(g) = Len(f)
      /\ \A j \in 1..Len(f) : g[j] = IF j = n THEN e ELSE f[j]
  BY ExceptSeq
<1> HIDE DEF g
<1> QED  BY <1>1 DEF g

-----------------------------------------------------------------------------
(* The whole records at the start of a file are its first Sound records.   *)

WholePrefix(f) == {i \in 1..Len(f) : \A j \in 1..i : f[j].whole}
Sound(f) == Cardinality(WholePrefix(f))

LEMMA SoundPrefix ==
    ASSUME NEW f \in Seq(Record)
    PROVE  /\ Sound(f) \in 0..Len(f)
           /\ WholePrefix(f) = 1..Sound(f)
           /\ \A i \in 1..Sound(f) : f[i].whole
           /\ Sound(f) < Len(f) => ~f[Sound(f) + 1].whole
<1> DEFINE S == WholePrefix(f)
           n == Len(f)
           c == Sound(f)
<1>1. n \in Nat
  OBVIOUS
<1>2. S \in SUBSET (1..n) /\ S \in SUBSET Int
  BY <1>1 DEF WholePrefix
<1>3. IsFiniteSet(S)
  <2>1. IsFiniteSet(1..n)
    BY <1>1, FS_Interval
  <2> QED  BY <1>2, <2>1, FS_Subset
<1>4. \A i \in S : \A j \in 1..i : j \in S /\ f[j].whole
  BY <1>1 DEF WholePrefix
<1>5. ASSUME NEW x \in S  PROVE Rank(S, x) = x - 1
  <2>1. x \in 1..n
    BY <1>2
  <2>2. {y \in S : y < x} = 1..(x - 1)
    <3>1. ASSUME NEW y \in S, y < x  PROVE y \in 1..(x - 1)
      BY <1>1, <1>2, <2>1, <3>1
    <3>2. ASSUME NEW y \in 1..(x - 1)  PROVE y \in S /\ y < x
      BY <1>1, <1>4, <2>1
    <3> HIDE DEF S
    <3> QED  BY <3>1, <3>2
  <2>3. Cardinality(1..(x - 1)) = x - 1
    <3>1. Cardinality(1..(x - 1)) = IF 1 > x - 1 THEN 0 ELSE (x - 1) - 1 + 1
      BY <2>1, FS_Interval
    <3> QED  BY <2>1, <3>1
  <2> QED  BY <2>2, <2>3 DEF Rank
<1>6. c \in Nat /\ c = Cardinality(S)
  BY <1>3, FS_CardinalityType DEF Sound
<1>7. ASSUME NEW x \in S  PROVE x \in 1..c
  <2>1. Rank(S, x) \in 0..(Cardinality(S) - 1)
    BY <1>2, <1>3, RankDistinct
  <2>2. x \in 1..n
    BY <1>2
  <2> HIDE DEF S, c
  <2> QED  BY <1>1, <1>5, <1>6, <2>1, <2>2
<1>8. ASSUME NEW i \in 1..c  PROVE i \in S
  <2>1. i - 1 \in 0..(Cardinality(S) - 1)
    <3> HIDE DEF S, c
    <3> QED  BY <1>6
  <2>2. PICK x \in S : Rank(S, x) = i - 1
    BY <1>2, <1>3, <2>1, RankOnto
  <2>3. x \in 1..n /\ x - 1 = i - 1
    BY <1>2, <1>5, <2>2
  <2>4. x = i
    <3> HIDE DEF S, c
    <3> QED  BY <1>1, <1>6, <2>3
  <2> QED  BY <2>4
<1>9. S = 1..c
  <2> HIDE DEF S, c
  <2> QED  BY <1>7, <1>8
<1>10. c <= n
  <2>1. CASE c = 0
    <3> HIDE DEF c
    <3> QED  BY <1>1, <2>1
  <2>2. CASE c # 0
    <3>1. c \in 1..c
      <4> HIDE DEF c
      <4> QED  BY <1>6, <2>2
    <3>2. c \in 1..n
      BY <1>2, <1>9, <3>1
    <3> HIDE DEF c
    <3> QED  BY <1>1, <3>2
  <2> QED  BY <2>1, <2>2
<1>11. \A i \in 1..c : f[i].whole
  <2> TAKE i \in 1..c
  <2>1. i \in S /\ i \in 1..i
    <3>1. i \in S
      BY <1>9
    <3> HIDE DEF S
    <3> QED  BY <3>1
  <2> QED  BY <1>4, <2>1
<1>12. ASSUME c < n  PROVE ~f[c + 1].whole
  <2> SUFFICES ASSUME f[c + 1].whole  PROVE FALSE
    OBVIOUS
  <2>0. c \in Nat
    BY <1>6
  <2> HIDE DEF S, c
  <2>1. c + 1 \in 1..n /\ c + 1 \notin 1..c
    BY <1>1, <1>12, <2>0
  <2>2. \A j \in 1..(c + 1) : f[j].whole
    BY <1>11, <2>0
  <2>3. c + 1 \in S
    BY <2>1, <2>2 DEF S, WholePrefix
  <2> QED  BY <1>9, <2>1, <2>3
<1>13. c \in 0..n
  <2> HIDE DEF c
  <2> QED  BY <1>1, <1>6, <1>10
<1> QED  BY <1>9, <1>11, <1>12, <1>13

(* How many records are sound follows from which ones are whole.           *)
LEMMA SoundIs ==
    ASSUME NEW f \in Seq(Record), NEW n \in 0..Len(f),
           \A i \in 1..n : f[i].whole,
           n < Len(f) => ~f[n + 1].whole
    PROVE  Sound(f) = n
<1> DEFINE c == Sound(f)
           l == Len(f)
<1>1. /\ c \in 0..l /\ n \in 0..l /\ l \in Nat
      /\ \A i \in 1..c : f[i].whole
      /\ c < l => ~f[c + 1].whole
  BY SoundPrefix
<1> HIDE DEF c, l
<1>2. ~(c < n)
  <2> SUFFICES ASSUME c < n  PROVE FALSE
    OBVIOUS
  <2>1. c + 1 \in 1..n /\ c < l
    BY <1>1
  <2> QED  BY <1>1, <2>1
<1>3. ~(n < c)
  <2> SUFFICES ASSUME n < c  PROVE FALSE
    OBVIOUS
  <2>1. n + 1 \in 1..c /\ n < l
    BY <1>1
  <2> QED  BY <1>1, <2>1 DEF l
<1> QED  BY <1>1, <1>2, <1>3 DEF c

LEMMA MessageDecodes ==
    ASSUME NEW x \in Message \union {Garbage}
    PROVE  (IF x = Garbage THEN Garbage ELSE Stored[x]) = x /\ x # Failed
<1>1. CASE x = Garbage
  BY <1>1, StoreAssumption
<1>2. CASE x \in Message
  BY <1>2, StoredIsMessage
<1> QED  BY <1>1, <1>2

(* The records that Recover counts and those that Read finds are the same: *)
(* everything in front of the first fragment.                              *)
LEMMA ReadableIs ==
    ASSUME file \in Seq(Record)
    PROVE  /\ Framed = 1..Sound(file)
           /\ Readable = 1..Sound(file)
           /\ Cardinality(Readable) = Sound(file)
           /\ \A i \in 1..Len(file) : Decoded(i) = file[i].msg
<1>1. \A i \in 1..Len(file) : Decoded(i) = file[i].msg /\ Decoded(i) # Failed
  <2> TAKE i \in 1..Len(file)
  <2>1. file[i].msg \in Message \union {Garbage}
    BY RecordFields, ElementOfSeq
  <2> QED  BY <2>1, MessageDecodes DEF Decoded
<1>2. WholePrefix(file) = 1..Sound(file) /\ Framed = WholePrefix(file)
  BY SoundPrefix DEF Framed, WholePrefix
<1>3. \A i \in WholePrefix(file) : \A j \in 1..i : j \in 1..Len(file)
  BY DEF WholePrefix
<1>4. Readable = Framed
  BY <1>1, <1>2, <1>3 DEF Readable
<1>5. Cardinality(Readable) = Sound(file)
  BY <1>2, <1>4 DEF Sound
<1> QED  BY <1>1, <1>2, <1>4, <1>5

(* The same in the next state.                                             *)
LEMMA ReadableNextIs ==
    ASSUME file' \in Seq(Record)
    PROVE  /\ Readable' = 1..Sound(file')
           /\ Cardinality(Readable)' = Sound(file')
           /\ \A i \in 1..Len(file') : Decoded(i)' = file'[i].msg
<1>1. \A i \in 1..Len(file') : Decoded(i)' = file'[i].msg /\ Decoded(i)' # Failed
  <2> TAKE i \in 1..Len(file')
  <2>1. file'[i].msg \in Message \union {Garbage}
    BY RecordFields, ElementOfSeq
  <2> QED  BY <2>1, MessageDecodes DEF Decoded
<1>2. WholePrefix(file') = 1..Sound(file') /\ Framed' = WholePrefix(file')
  BY SoundPrefix DEF Framed, WholePrefix
<1>3. \A i \in WholePrefix(file') : \A j \in 1..i : j \in 1..Len(file')
  BY DEF WholePrefix
<1>4. Readable' = Framed'
  BY <1>1, <1>2, <1>3 DEF Readable
<1>5. Cardinality(Readable)' = Sound(file')
  BY <1>2, <1>4 DEF Sound
<1> QED  BY <1>1, <1>2, <1>4, <1>5

LEMMA MinOfTwo ==
    ASSUME NEW a \in Nat, NEW b \in Nat
    PROVE  Min({a, b}) = IF a <= b THEN a ELSE b
  BY DEF Min

-----------------------------------------------------------------------------
(* What the actions do to the file.                                        *)

(* OpenPartition keeps the sound records, and perhaps one more that the    *)
(* bytes behind the first fragment complete.                               *)
LEMMA OpenEffect ==
    ASSUME TypeInv, OpenPartition
    PROVE  LET k == Sound(file)  l == Len(file') IN
           /\ file' \in Seq(Record)
           /\ k \in 0..Len(file)
           /\ \A i \in 1..k : file'[i] = file[i] /\ file[i].whole
           /\ \/ l = k
              \/ /\ l = k + 1 /\ l < Len(file)
                 /\ ~file[l].whole
                 /\ file'[l].off = file[l].off /\ file'[l].msg = Garbage /\ file'[l].whole
           /\ synced' = IF synced <= l THEN synced ELSE l
           /\ nextOffset' = RecoveredNext(file')
<1> DEFINE k == Sound(file)
           l == Len(file')
           n == Len(file)
           p == SubSeq(file, 1, k)
<1>1. file \in Seq(Record) /\ n \in Nat /\ synced \in Nat
  BY DEF TypeInv
<1>2. k \in 0..n /\ \A i \in 1..k : file[i].whole
  BY <1>1, SoundPrefix
<1>3. Prefix = p /\ Cardinality(Readable) = k
  BY <1>1, ReadableIs DEF Prefix
<1>4. PICK f \in Recovered : file' = f /\ synced' = Min({synced, Len(f)}) /\ nextOffset' = RecoveredNext(f)
  BY DEF OpenPartition
<1>5. p \in Seq(Record) /\ Len(p) = k /\ \A i \in 1..k : p[i] = file[i]
  BY <1>1, <1>2, FileCut
<1> HIDE DEF k, n, p
<1>6. /\ file' \in Seq(Record)
      /\ \A i \in 1..k : file'[i] = file[i]
      /\ \/ l = k
         \/ /\ l = k + 1 /\ l < n
            /\ ~file[l].whole
            /\ file'[l].off = file[l].off /\ file'[l].msg = Garbage /\ file'[l].whole
  <2>1. CASE f = p
    BY <1>4, <1>5, <2>1
  <2>2. CASE f # p
    <3>1. PICK i \in 1..(n - 1) :
             /\ i = k + 1 /\ ~file[i].whole
             /\ f = Append(p, [file[i] EXCEPT !.msg = Garbage, !.whole = TRUE])
      BY <1>3, <1>4, <2>2 DEF Recovered, n
    <3> DEFINE r == [file[i] EXCEPT !.msg = Garbage, !.whole = TRUE]
    <3>2. file[i] \in Record
      BY <1>1, <3>1, ElementOfSeq DEF n
    <3>3. r \in Record /\ r.off = file[i].off /\ r.msg = Garbage /\ r.whole
      BY <3>2, RecordFields, Zenon
    <3> HIDE DEF r
    <3>4. /\ Append(p, r) \in Seq(Record) /\ Len(Append(p, r)) = Len(p) + 1
          /\ \A j \in 1..Len(p) : Append(p, r)[j] = p[j]
          /\ Append(p, r)[Len(p) + 1] = r
      BY <1>5, <3>3, AppendProperties
    <3>5. f = Append(p, r)
      BY <3>1 DEF r
    <3>6. l = k + 1 /\ file' \in Seq(Record) /\ file'[k + 1] = r
      BY <1>4, <1>5, <3>4, <3>5
    <3>7. \A j \in 1..k : file'[j] = file[j]
      BY <1>4, <1>5, <3>4, <3>5
    <3>8. l < n /\ i = l
      BY <1>1, <1>2, <3>1, <3>6
    <3> QED  BY <3>1, <3>3, <3>6, <3>7, <3>8
  <2> QED  BY <2>1, <2>2
<1>7. synced' = IF synced <= l THEN synced ELSE l
  <2>1. l \in Nat
    BY <1>6
  <2> QED  BY <1>1, <1>4, <2>1, MinOfTwo
<1> QED  BY <1>2, <1>4, <1>6, <1>7 DEF k, n

(* A crash loses records from the end, none of them synced, and may tear   *)
(* the last one left.                                                      *)
LEMMA CrashEffect ==
    ASSUME TypeInv, Crash
    PROVE  LET l == Len(file') IN
           /\ file' \in Seq(Record)
           /\ l \in synced..Len(file)
           /\ \A i \in 1..l : file'[i].off = file[i].off /\ file'[i].msg = file[i].msg
           /\ \A i \in 1..l : i # l \/ i <= synced => file'[i] = file[i]
           /\ l >= 1 => file'[l] = file[l] \/ ~file'[l].whole
<1> DEFINE n == Len(file)
<1>1. file \in Seq(Record) /\ n \in Nat /\ synced \in 0..n
  BY DEF TypeInv
<1>2. PICK j \in synced..n :
         \/ file' = SubSeq(file, 1, j)
         \/ /\ j > synced
            /\ file' = [SubSeq(file, 1, j) EXCEPT ![j].whole = FALSE]
  BY DEF Crash
<1> DEFINE p == SubSeq(file, 1, j)
<1>3. j \in 0..n
  BY <1>1
<1>4. p \in Seq(Record) /\ Len(p) = j /\ \A i \in 1..j : p[i] = file[i]
  BY <1>1, <1>3, FileCut
<1> HIDE DEF n, p
<1>5. CASE file' = p
  BY <1>1, <1>3, <1>4, <1>5 DEF n
<1>6. CASE j > synced /\ file' = [p EXCEPT ![j].whole = FALSE]
  <2> DEFINE e == [p[j] EXCEPT !.whole = FALSE]
             g == [p EXCEPT ![j] = e]
  <2>1. j \in 1..Len(p)
    BY <1>1, <1>3, <1>4, <1>6
  <2>0. p[j] \in Record
    BY <1>4, <2>1, ElementOfSeq
  <2>5. e \in Record /\ e.off = p[j].off /\ e.msg = p[j].msg /\ ~e.whole
    BY <2>0, RecordFields, Zenon
  <2>3. file' = g
    BY <1>6
  <2> HIDE DEF e
  <2>2. /\ g \in Seq(Record)
        /\ Len(g) = Len(p)
        /\ \A i \in 1..Len(p) : i # j => g[i] = p[i]
        /\ g[j] = e
    BY <1>4, <2>1, <2>5, FileMark
  <2> HIDE DEF g
  <2>4. \A i \in 1..j : i # j \/ i <= synced => i # j
    BY <1>1, <1>3, <1>6
  <2> QED  BY <1>1, <1>3, <1>4, <2>1, <2>2, <2>3, <2>4, <2>5 DEF n
<1> QED  BY <1>2, <1>5, <1>6 DEF p

(* The header of a new record reaches the file.                            *)
LEMMA HeaderEffect ==
    ASSUME TypeInv, op # None, file' = Append(file, Fragment)
    PROVE  LET l == Len(file) + 1 IN
           /\ file' \in Seq(Record)
           /\ Len(file') = l
           /\ \A i \in 1..Len(file) : file'[i] = file[i]
           /\ file'[l].off = op.off /\ file'[l].msg = op.msg /\ ~file'[l].whole
<1>1. file \in Seq(Record) /\ op.off \in Nat /\ op.msg \in Message
  BY DEF TypeInv, Call
<1>2. Fragment \in Record /\ Fragment.off = op.off /\ Fragment.msg = op.msg /\ ~Fragment.whole
  BY <1>1 DEF Fragment, Record
<1>3. /\ Append(file, Fragment) \in Seq(Record)
      /\ Len(Append(file, Fragment)) = Len(file) + 1
      /\ \A i \in 1..Len(file) : Append(file, Fragment)[i] = file[i]
      /\ Append(file, Fragment)[Len(file) + 1] = Fragment
  BY <1>1, <1>2, AppendProperties
<1> QED  BY <1>2, <1>3

(* The payload completes the last record.                                  *)
LEMMA PayloadEffect ==
    ASSUME TypeInv, Len(file) >= 1, WritePayload
    PROVE  LET l == Len(file) IN
           /\ file' \in Seq(Record)
           /\ Len(file') = l
           /\ \A i \in 1..l : i # l => file'[i] = file[i]
           /\ file'[l].off = file[l].off /\ file'[l].msg = file[l].msg /\ file'[l].whole
           /\ file[l].whole => file'[l] = file[l]
<1>1. file \in Seq(Record) /\ Len(file) \in 1..Len(file)
  BY DEF TypeInv
<1> DEFINE n == Len(file)
           e == [file[n] EXCEPT !.whole = TRUE]
           g == [file EXCEPT ![n] = e]
<1>2. file[n] \in Record
  BY <1>1, ElementOfSeq
<1>3. /\ e \in Record /\ e.off = file[n].off /\ e.msg = file[n].msg /\ e.whole
      /\ file[n].whole => e = file[n]
  BY <1>2, RecordFields, Zenon
<1>4. file' = g
  BY DEF WritePayload
<1> HIDE DEF e
<1>5. /\ g \in Seq(Record)
      /\ Len(g) = Len(file)
      /\ \A i \in 1..Len(file) : i # n => g[i] = file[i]
      /\ g[n] = e
  BY <1>1, <1>3, FileMark
<1> HIDE DEF g
<1> QED  BY <1>3, <1>4, <1>5

-----------------------------------------------------------------------------
(* The inductive invariant.                                                *)

(* The next offset that the last record of a file leaves room for.         *)
Follows(f, o) ==
    IF Len(f) = 0 THEN o = 0 ELSE o \in {f[Len(f)].off, f[Len(f)].off + 1}

(* Offsets start at 0 and each one is that of the record in front or the   *)
(* next: also in a file with fragments and repeated offsets in it.         *)
Offsets(f) ==
    /\ \A i \in 1..Len(f) :
          /\ i = 1 => f[i].off = 0
          /\ i > 1 => f[i].off \in {f[i - 1].off, f[i - 1].off + 1}
    /\ \A i, j \in 1..Len(f) : i <= j => f[i].off <= f[j].off

OffInv ==
    /\ Offsets(file)
    /\ open => Follows(file, nextOffset)

(* An append in progress has the next offset, and between its steps the    *)
(* last record of the file is its own.                                     *)
CallInv ==
    op # None =>
        /\ open
        /\ op.off = nextOffset
        /\ op.stage # "header" =>
              /\ Len(file) >= 1
              /\ file[Len(file)].off = op.off
              /\ file[Len(file)].msg = op.msg
              /\ op.stage = "payload" => ~file[Len(file)].whole

StoreInv == TypeInv /\ OffInv /\ CallInv

(* Until a call to the file fails the file is a log: the i-th record has   *)
(* offset i - 1, only the last can be a fragment, and only until the store *)
(* is opened or its append goes on, and what was acknowledged is synced.   *)
InPlace ==
    \A i \in 1..Len(file) :
        /\ file[i].off = i - 1
        /\ file[i].msg # Garbage
        /\ i < Len(file) \/ i <= synced => file[i].whole

AllWhole == \A i \in 1..Len(file) : file[i].whole

Settled == open /\ (op = None \/ op.stage # "payload") => AllWhole

NextIs ==
    open => nextOffset = IF op = None \/ op.stage = "header" THEN Len(file) ELSE Len(file) - 1

AckedKept == \A a \in acked : a[1] + 1 <= synced /\ file[a[1] + 1].msg = a[2]

GoodInv == ~failed => InPlace /\ Settled /\ NextIs /\ AckedKept

(* The offsets of a shorter file.                                          *)
LEMMA OffsetsCut ==
    ASSUME NEW f \in Seq(Record), NEW g \in Seq(Record), Len(g) <= Len(f), Offsets(f),
           \A i \in 1..Len(g) : g[i].off = f[i].off
    PROVE  Offsets(g)
<1> DEFINE n == Len(f)
           k == Len(g)
<1>1. n \in Nat /\ k \in Nat /\ k <= n
  OBVIOUS
<1>2. /\ \A i \in 1..n :
            /\ i = 1 => f[i].off = 0
            /\ i > 1 => f[i].off \in {f[i - 1].off, f[i - 1].off + 1}
      /\ \A i, j \in 1..n : i <= j => f[i].off <= f[j].off
  BY DEF Offsets
<1>3. \A i \in 1..k : g[i].off = f[i].off /\ i \in 1..n
  BY <1>1
<1> HIDE DEF n, k
<1>4. ASSUME NEW i \in 1..k
      PROVE  /\ i = 1 => g[i].off = 0
             /\ i > 1 => g[i].off \in {g[i - 1].off, g[i - 1].off + 1}
  <2>1. i > 1 => i - 1 \in 1..k
    BY <1>1
  <2> QED  BY <1>2, <1>3, <2>1
<1>5. \A i, j \in 1..k : i <= j => g[i].off <= g[j].off
  BY <1>2, <1>3
<1> QED  BY <1>4, <1>5 DEF Offsets, k

(* The offsets of a file with one record more.                             *)
LEMMA OffsetsGrow ==
    ASSUME NEW f \in Seq(Record), NEW g \in Seq(Record), Len(g) = Len(f) + 1, Offsets(f),
           \A i \in 1..Len(f) : g[i].off = f[i].off,
           Follows(f, g[Len(g)].off)
    PROVE  Offsets(g)
<1> DEFINE n == Len(f)
           k == Len(g)
<1>1. n \in Nat /\ k = n + 1
  OBVIOUS
<1>2. /\ \A i \in 1..n :
            /\ i = 1 => f[i].off = 0
            /\ i > 1 => f[i].off \in {f[i - 1].off, f[i - 1].off + 1}
      /\ \A i, j \in 1..n : i <= j => f[i].off <= f[j].off
  BY DEF Offsets
<1>3. \A i \in 1..n : g[i].off = f[i].off /\ f[i].off \in Nat
  BY RecordFields, ElementOfSeq
<1>4. n = 0 => g[k].off = 0
  BY DEF Follows
<1>5. n # 0 => g[k].off \in {f[n].off, f[n].off + 1}
  BY DEF Follows
<1> HIDE DEF n, k
<1>6. ASSUME NEW i \in 1..k
      PROVE  /\ i = 1 => g[i].off = 0
             /\ i > 1 => g[i].off \in {g[i - 1].off, g[i - 1].off + 1}
  <2>1. CASE i \in 1..n
    <3>1. i > 1 => i - 1 \in 1..n
      BY <1>1, <2>1
    <3> QED  BY <1>2, <1>3, <2>1, <3>1
  <2>2. CASE i = k /\ n # 0
    <3>1. i - 1 = n /\ n \in 1..n /\ i > 1
      BY <1>1, <2>2
    <3> QED  BY <1>3, <1>5, <2>2, <3>1
  <2>3. CASE i = k /\ n = 0
    BY <1>1, <1>4, <2>3
  <2> QED  BY <1>1, <2>1, <2>2, <2>3
<1>7. ASSUME NEW i \in 1..k, NEW j \in 1..k, i <= j
      PROVE  g[i].off <= g[j].off
  <2>1. CASE j \in 1..n
    <3>1. i \in 1..n
      BY <1>1, <1>7, <2>1
    <3> QED  BY <1>2, <1>3, <1>7, <2>1, <3>1
  <2>2. CASE i = k
    <3>1. j = k
      BY <1>1, <1>7, <2>2
    <3>2. g[k].off \in Nat
      <4>1. n # 0 => n \in 1..n
        BY <1>1
      <4> QED  BY <1>3, <1>4, <1>5, <4>1
    <3> QED  BY <2>2, <3>1, <3>2
  <2>3. CASE i \in 1..n /\ j = k
    <3>1. n # 0 /\ n \in 1..n /\ i <= n
      BY <1>1, <2>3
    <3>2. f[i].off <= f[n].off /\ f[n].off \in Nat /\ f[i].off \in Nat
      BY <1>2, <1>3, <2>3, <3>1
    <3>3. g[i].off = f[i].off /\ (g[j].off = f[n].off \/ g[j].off = f[n].off + 1)
      BY <1>3, <1>5, <2>3, <3>1
    <3> QED  BY <3>2, <3>3
  <2> QED  BY <1>1, <2>1, <2>2, <2>3
<1> QED  BY <1>6, <1>7 DEF Offsets, k

(* The next offset after a recovery is the one behind the last record's.   *)
LEMMA RecoveredNextIs ==
    ASSUME NEW f \in Seq(Record), Offsets(f)
    PROVE  RecoveredNext(f) = IF Len(f) = 0 THEN 0 ELSE f[Len(f)].off + 1
<1> DEFINE n == Len(f)
           S == {f[i].off + 1 : i \in 1..n}
<1>1. n \in Nat /\ (f = <<>> <=> n = 0)
  BY EmptySeq
<1>2. \A i, j \in 1..n : i <= j => f[i].off <= f[j].off
  BY DEF Offsets
<1>3. \A i \in 1..n : f[i].off \in Nat
  BY RecordFields, ElementOfSeq
<1>4. RecoveredNext(f) = IF f = <<>> THEN 0 ELSE Max(S)
  BY DEF RecoveredNext
<1> HIDE DEF n
<1>5. CASE n # 0
  <2>1. n \in 1..n
    BY <1>1, <1>5
  <2> DEFINE x == f[n].off + 1
  <2>2. x \in S /\ x \in Nat
    BY <1>3, <2>1
  <2>3. \A y \in S : x >= y /\ y \in Nat
    <3> SUFFICES ASSUME NEW i \in 1..n
                 PROVE  x >= f[i].off + 1 /\ f[i].off + 1 \in Nat
      OBVIOUS
    <3>1. i <= n
      BY <1>1
    <3>2. f[i].off <= f[n].off /\ f[i].off \in Nat /\ f[n].off \in Nat
      BY <1>2, <1>3, <2>1, <3>1
    <3> QED  BY <3>2
  <2> HIDE DEF S, x
  <2>4. Max(S) = x
    <3>1. Max(S) \in S /\ \A y \in S : Max(S) >= y
      BY <2>2, <2>3 DEF Max
    <3>2. Max(S) >= x /\ x >= Max(S) /\ Max(S) \in Nat
      BY <2>2, <2>3, <3>1
    <3> QED  BY <2>2, <3>2
  <2> QED  BY <1>1, <1>4, <1>5, <2>4 DEF x, n
<1> QED  BY <1>1, <1>4, <1>5 DEF n

LEMMA StoreInit == Init => StoreInv /\ GoodInv
<1> SUFFICES ASSUME Init  PROVE StoreInv /\ GoodInv
  OBVIOUS
<1>1. Len(file) = 0 /\ file \in Seq(Record) /\ acked = {}
  BY DEF Init
<1>2. TypeInv
  <2>1. synced \in 0..Len(file) /\ crashes \in 0..MaxCrashes
    BY <1>1, StoreAssumption DEF Init
  <2> QED  BY <1>1, <2>1 DEF Init, TypeInv
<1>3. OffInv /\ CallInv
  BY <1>1 DEF Init, OffInv, Offsets, CallInv
<1>4. GoodInv
  BY <1>1 DEF Init, GoodInv, InPlace, Settled, NextIs, AckedKept
<1> QED  BY <1>2, <1>3, <1>4 DEF StoreInv

(* The facts about an append in progress that its steps need.              *)
LEMMA CallFacts ==
    ASSUME TypeInv, op # None
    PROVE  /\ op \in Call /\ op.off \in Nat /\ op.msg \in Message
           /\ op.stage \in {"header", "payload", "sync"}
           /\ \A st \in {"header", "payload", "sync"} :
                 LET q == [op EXCEPT !.stage = st] IN
                 /\ q \in Call /\ q # None
                 /\ q.off = op.off /\ q.msg = op.msg /\ q.stage = st
<1> DEFINE G == {"header", "payload", "sync"}
<1>1. op \in [off : Nat, msg : Message, stage : G]
  BY DEF TypeInv, Call
<1> HIDE DEF G
<1>2. op.off \in Nat /\ op.msg \in Message /\ op.stage \in G
  BY <1>1
<1>3. \A st \in G :
         LET q == [op EXCEPT !.stage = st] IN
         /\ q \in [off : Nat, msg : Message, stage : G]
         /\ q.off = op.off /\ q.msg = op.msg /\ q.stage = st
  BY <1>1
<1>4. \A q \in Call : q # None
  BY CallAssumption
<1> QED  BY <1>1, <1>2, <1>3, <1>4 DEF Call, G

(* The offsets in a file that OpenPartition leaves, and the one behind.    *)
LEMMA OpenOffsets ==
    ASSUME TypeInv, OffInv, OpenPartition
    PROVE  /\ Offsets(file')
           /\ nextOffset' = IF Len(file') = 0 THEN 0 ELSE file'[Len(file')].off + 1
           /\ nextOffset' \in Nat
<1>0. file' \in Seq(Record) /\ Sound(file) \in 0..Len(file) /\ nextOffset' = RecoveredNext(file')
  BY OpenEffect
<1>1. Offsets(file')
  <2>1. \A i \in 1..Len(file') : i \in 1..Len(file) /\ file'[i].off = file[i].off
    <3>1. LET k == Sound(file)  l == Len(file') IN
          /\ \A i \in 1..k : file'[i] = file[i] /\ file[i].whole
          /\ \/ l = k
             \/ /\ l = k + 1 /\ l < Len(file)
                /\ ~file[l].whole
                /\ file'[l].off = file[l].off /\ file'[l].msg = Garbage /\ file'[l].whole
      BY OpenEffect
    <3> DEFINE k == Sound(file)
    <3>2. k \in 0..Len(file) /\ Len(file) \in Nat
      BY <1>0 DEF TypeInv
    <3>3. /\ \A i \in 1..k : file'[i] = file[i]
          /\ \/ Len(file') = k
             \/ Len(file') = k + 1 /\ k + 1 < Len(file) /\ file'[k + 1].off = file[k + 1].off
      BY <3>1
    <3> HIDE DEF k
    <3> QED  BY <3>2, <3>3
  <2>2. Len(file') <= Len(file)
    <3>1. Len(file') \in Nat /\ Len(file) \in Nat
      BY <1>0 DEF TypeInv
    <3>2. Len(file') # 0 => Len(file') \in 1..Len(file')
      BY <3>1
    <3> QED  BY <2>1, <3>1, <3>2
  <2>3. file \in Seq(Record) /\ Offsets(file)
    BY DEF TypeInv, OffInv
  <2> QED  BY <1>0, <2>1, <2>2, <2>3, OffsetsCut
<1>2. RecoveredNext(file') = IF Len(file') = 0 THEN 0 ELSE file'[Len(file')].off + 1
  BY <1>0, <1>1, RecoveredNextIs
<1>3. Len(file') # 0 => file'[Len(file')].off \in Nat
  <2>1. Len(file') # 0 => Len(file') \in 1..Len(file')
    BY <1>0
  <2> QED  BY <1>0, <2>1, ElementOfSeq, RecordFields
<1> QED  BY <1>0, <1>1, <1>2, <1>3

LEMMA TypeStep == StoreInv /\ [Next]_vars => TypeInv'
<1> SUFFICES ASSUME StoreInv, [Next]_vars  PROVE TypeInv'
  OBVIOUS
<1>0. TypeInv /\ OffInv /\ CallInv
  BY DEF StoreInv
<1>1. CASE OpenPartition
  <2>1. /\ file' \in Seq(Record)
        /\ Sound(file) \in 0..Len(file)
        /\ Len(file') = Sound(file) \/ Len(file') = Sound(file) + 1
        /\ synced' = IF synced <= Len(file') THEN synced ELSE Len(file')
        /\ nextOffset' = RecoveredNext(file')
    BY <1>0, <1>1, OpenEffect
  <2>2. synced' \in 0..Len(file')
    BY <1>0, <2>1 DEF TypeInv
  <2>3. nextOffset' \in Nat
    BY <1>0, <1>1, OpenOffsets
  <2> QED  BY <1>0, <1>1, <2>1, <2>2, <2>3 DEF TypeInv, OpenPartition
<1>2. ASSUME NEW o \in Nat, NEW m \in Message, Begin(o, m)  PROVE TypeInv'
  <2>1. op' \in Call
    BY <1>2 DEF Begin, Call
  <2> QED  BY <1>0, <1>2, <2>1 DEF TypeInv, Begin
<1>3. CASE WriteHeader
  <2>1. op # None /\ op' = [op EXCEPT !.stage = "payload"] /\ file' = Append(file, Fragment)
    BY <1>3 DEF WriteHeader
  <2>2. op' \in Call
    BY <1>0, <2>1, CallFacts
  <2>3. file' \in Seq(Record) /\ Len(file') = Len(file) + 1
    BY <1>0, <2>1, HeaderEffect
  <2> QED  BY <1>0, <1>3, <2>2, <2>3 DEF TypeInv, WriteHeader
<1>4. CASE WriteHeaderFails
  <2>1. op # None /\ (file' = file \/ file' = Append(file, Fragment))
    BY <1>4 DEF WriteHeaderFails
  <2>2. file' \in Seq(Record) /\ Len(file') \in {Len(file), Len(file) + 1}
    BY <1>0, <2>1, HeaderEffect DEF TypeInv
  <2> QED  BY <1>0, <1>4, <2>2 DEF TypeInv, WriteHeaderFails, Fails
<1>5. CASE WritePayload
  <2>1. op # None /\ op' = [op EXCEPT !.stage = "sync"] /\ op.stage = "payload"
    BY <1>5 DEF WritePayload
  <2>2. op' \in Call /\ Len(file) >= 1
    BY <1>0, <2>1, CallFacts DEF CallInv
  <2>3. file' \in Seq(Record) /\ Len(file') = Len(file)
    BY <1>0, <1>5, <2>2, PayloadEffect
  <2> QED  BY <1>0, <1>5, <2>2, <2>3 DEF TypeInv, WritePayload
<1>6. CASE WritePayloadFails
  BY <1>0, <1>6 DEF TypeInv, WritePayloadFails, Fails
<1>7. CASE Sync
  <2>1. op.off \in Nat /\ op.msg \in Message
    BY <1>0, <1>7, CallFacts DEF Sync
  <2>2. acked' \subseteq Nat \X Message
    BY <1>0, <1>7, <2>1 DEF Sync, TypeInv
  <2>3. Len(file') \in Nat /\ synced' \in 0..Len(file')
    BY <1>0, <1>7 DEF Sync, TypeInv
  <2> QED  BY <1>0, <1>7, <2>2, <2>3 DEF TypeInv, Sync
<1>8. CASE SyncFails
  BY <1>0, <1>8 DEF TypeInv, SyncFails, Fails
<1>9. CASE Flush
  <2>1. Len(file') \in Nat /\ synced' \in 0..Len(file')
    BY <1>0, <1>9 DEF Flush, TypeInv
  <2> QED  BY <1>0, <1>9, <2>1 DEF TypeInv, Flush
<1>10. CASE Close
  BY <1>0, <1>10 DEF TypeInv, Close
<1>11. CASE Crash
  <2>1. file' \in Seq(Record) /\ Len(file') \in synced..Len(file)
    BY <1>0, <1>11, CrashEffect
  <2>2. synced' \in 0..Len(file') /\ crashes' \in 0..MaxCrashes
    BY <1>0, <1>11, <2>1, StoreAssumption DEF TypeInv, Crash
  <2> QED  BY <1>0, <1>11, <2>1, <2>2 DEF TypeInv, Crash
<1>12. CASE UNCHANGED vars
  BY <1>0, <1>12 DEF TypeInv, vars
<1>13. nextOffset \in Nat
  BY <1>0 DEF TypeInv
<1>14. \A o \in 0..MaxRecords : o \in Nat
  OBVIOUS
<1> QED  BY <1>1, <1>2, <1>3, <1>4, <1>5, <1>6, <1>7, <1>8, <1>9, <1>10, <1>11, <1>12, <1>13, <1>14
         DEF Next, AppendMessage, AppendRecord, AppendStep, FailStep

(* A record that carries the next offset, whole or torn, keeps the offsets *)
(* in order.                                                               *)
LEMMA HeaderOffsets ==
    ASSUME StoreInv, op # None, op.stage = "header", file' = Append(file, Fragment)
    PROVE  Offsets(file') /\ Follows(file', nextOffset)
<1>0. TypeInv /\ OffInv /\ CallInv /\ open /\ op.off = nextOffset
  BY DEF StoreInv, CallInv
<1>1. /\ file' \in Seq(Record)
      /\ Len(file') = Len(file) + 1
      /\ \A i \in 1..Len(file) : file'[i] = file[i]
      /\ file'[Len(file) + 1].off = op.off
  BY <1>0, HeaderEffect
<1>2. file \in Seq(Record) /\ Offsets(file) /\ Follows(file, nextOffset)
  BY <1>0 DEF TypeInv, OffInv
<1>3. \A i \in 1..Len(file) : file'[i].off = file[i].off
  BY <1>1
<1>4. Follows(file, file'[Len(file')].off)
  BY <1>0, <1>1, <1>2
<1>5. Offsets(file')
  BY <1>1, <1>2, <1>3, <1>4, OffsetsGrow
<1>6. Len(file') # 0
  BY <1>1, <1>2
<1> QED  BY <1>0, <1>1, <1>5, <1>6 DEF Follows

LEMMA OffStep == StoreInv /\ [Next]_vars => OffInv' /\ CallInv'
<1> SUFFICES ASSUME StoreInv, [Next]_vars  PROVE OffInv' /\ CallInv'
  OBVIOUS
<1>0. TypeInv /\ OffInv /\ CallInv
  BY DEF StoreInv
<1>1. CASE OpenPartition
  <2>1. /\ Offsets(file')
        /\ nextOffset' = IF Len(file') = 0 THEN 0 ELSE file'[Len(file')].off + 1
    BY <1>0, <1>1, OpenOffsets
  <2>2. OffInv'
    BY <2>1 DEF OffInv, Follows
  <2>3. op = None
    BY <1>0, <1>1 DEF CallInv, OpenPartition
  <2> QED  BY <1>1, <2>2, <2>3 DEF CallInv, OpenPartition
<1>2. ASSUME NEW m \in Message, Begin(nextOffset, m)  PROVE OffInv' /\ CallInv'
  <2>1. op'.off = nextOffset /\ op'.stage = "header"
    BY <1>2 DEF Begin
  <2> QED  BY <1>0, <1>2, <2>1 DEF OffInv, CallInv, Begin
<1>3. CASE WriteHeader
  <2>1. op # None /\ op' = [op EXCEPT !.stage = "payload"] /\ op.stage = "header"
        /\ file' = Append(file, Fragment)
    BY <1>3 DEF WriteHeader
  <2>2. op'.off = op.off /\ op'.msg = op.msg /\ op'.stage = "payload"
    BY <1>0, <2>1, CallFacts
  <2>3. /\ file' \in Seq(Record)
        /\ Len(file') = Len(file) + 1 /\ Len(file) \in Nat
        /\ file'[Len(file')].off = op.off
        /\ file'[Len(file')].msg = op.msg
        /\ ~file'[Len(file')].whole
    BY <1>0, <2>1, HeaderEffect DEF TypeInv
  <2>4. Offsets(file') /\ Follows(file', nextOffset)
    BY <2>1, HeaderOffsets
  <2>5. OffInv'
    BY <1>3, <2>4 DEF OffInv, WriteHeader
  <2>6. CallInv'
    <3>1. open' /\ nextOffset' = nextOffset /\ op.off = nextOffset
      BY <1>0, <1>3, <2>1 DEF CallInv, WriteHeader
    <3> QED  BY <2>2, <2>3, <3>1 DEF CallInv
  <2> QED  BY <2>5, <2>6
<1>4. CASE WriteHeaderFails
  <2>1. op # None /\ op.stage = "header" /\ (file' = file \/ file' = Append(file, Fragment))
    BY <1>4 DEF WriteHeaderFails
  <2>2. open /\ open' /\ nextOffset' = nextOffset /\ op' = None
    BY <1>0, <1>4, <2>1 DEF WriteHeaderFails, Fails, CallInv
  <2>3. CASE file' = Append(file, Fragment)
    <3>1. Offsets(file') /\ Follows(file', nextOffset)
      BY <2>1, <2>3, HeaderOffsets
    <3> QED  BY <2>2, <3>1 DEF OffInv, CallInv
  <2>4. CASE file' = file
    BY <1>0, <2>2, <2>4 DEF OffInv, CallInv
  <2> QED  BY <2>1, <2>3, <2>4
<1>5. CASE WritePayload
  <2>1. op # None /\ op' = [op EXCEPT !.stage = "sync"] /\ op.stage = "payload"
    BY <1>5 DEF WritePayload
  <2>2. op'.off = op.off /\ op'.msg = op.msg /\ op'.stage = "sync"
    BY <1>0, <2>1, CallFacts
  <2>3. /\ open /\ op.off = nextOffset
        /\ Len(file) >= 1 /\ file[Len(file)].off = op.off /\ file[Len(file)].msg = op.msg
    BY <1>0, <2>1 DEF CallInv
  <2> DEFINE l == Len(file)
  <2>4. /\ file' \in Seq(Record)
        /\ Len(file') = l
        /\ \A i \in 1..l : i # l => file'[i] = file[i]
        /\ file'[l].off = file[l].off /\ file'[l].msg = file[l].msg
    BY <1>0, <1>5, <2>3, PayloadEffect
  <2>5. open' /\ nextOffset' = nextOffset
    BY <1>5, <2>3 DEF WritePayload
  <2>6. file \in Seq(Record) /\ Offsets(file) /\ Follows(file, nextOffset)
    BY <1>0, <2>3 DEF TypeInv, OffInv
  <2>7. Offsets(file')
    <3>1. \A i \in 1..Len(file') : file'[i].off = file[i].off
      BY <2>4
    <3>2. Len(file') <= Len(file)
      BY <2>4, <2>6
    <3> QED  BY <2>4, <2>6, <3>1, <3>2, OffsetsCut
  <2>8. Follows(file', nextOffset')
    BY <2>3, <2>4, <2>5, <2>6 DEF Follows
  <2> QED  BY <2>2, <2>3, <2>4, <2>5, <2>7, <2>8 DEF OffInv, CallInv
<1>6. CASE WritePayloadFails
  BY <1>0, <1>6 DEF OffInv, CallInv, WritePayloadFails, Fails
<1>7. CASE Sync
  <2>1. op # None /\ op.stage = "sync" /\ nextOffset' = nextOffset + 1 /\ op' = None
        /\ file' = file
    BY <1>7 DEF Sync
  <2>2. Len(file) >= 1 /\ file[Len(file)].off = nextOffset
    BY <1>0, <2>1 DEF CallInv
  <2>3. Follows(file', nextOffset')
    BY <2>1, <2>2 DEF Follows
  <2> QED  BY <1>0, <2>1, <2>3 DEF OffInv, CallInv
<1>8. CASE SyncFails
  BY <1>0, <1>8 DEF OffInv, CallInv, SyncFails, Fails
<1>9. CASE Flush
  BY <1>0, <1>9 DEF OffInv, CallInv, Flush
<1>10. CASE Close
  BY <1>0, <1>10 DEF OffInv, CallInv, Close
<1>11. CASE Crash
  <2>1. /\ file' \in Seq(Record) /\ Len(file') \in synced..Len(file)
        /\ \A i \in 1..Len(file') : file'[i].off = file[i].off
    BY <1>0, <1>11, CrashEffect
  <2>2. file \in Seq(Record) /\ Offsets(file) /\ Len(file') <= Len(file)
    BY <1>0, <2>1 DEF TypeInv, OffInv
  <2>3. Offsets(file')
    BY <2>1, <2>2, OffsetsCut
  <2> QED  BY <1>11, <2>3 DEF OffInv, CallInv, Crash
<1>12. CASE UNCHANGED vars
  BY <1>0, <1>12 DEF OffInv, CallInv, vars
<1> QED  BY <1>1, <1>2, <1>3, <1>4, <1>5, <1>6, <1>7, <1>8, <1>9, <1>10, <1>11, <1>12
         DEF Next, AppendMessage, AppendRecord, AppendStep, FailStep

(* What OpenPartition finds before any failure: at most one fragment, at   *)
(* the end and not synced, which it drops.                                 *)
LEMMA GoodOpen ==
    ASSUME TypeInv, InPlace, OpenPartition
    PROVE  /\ Len(file') = Sound(file) /\ synced <= Len(file') /\ synced' = synced
           /\ Len(file') <= Len(file)
           /\ \A i \in 1..Len(file') : file'[i] = file[i] /\ file[i].whole
<1> DEFINE k == Sound(file)
           n == Len(file)
           l == Len(file')
<1>1. file \in Seq(Record) /\ n \in Nat /\ synced \in 0..n
  BY DEF TypeInv
<1>2. /\ k \in 0..n
      /\ \A i \in 1..k : file'[i] = file[i] /\ file[i].whole
      /\ l = k \/ (l = k + 1 /\ l < n /\ ~file[l].whole)
      /\ synced' = IF synced <= l THEN synced ELSE l
  BY OpenEffect
<1>3. k < n => ~file[k + 1].whole
  BY <1>1, SoundPrefix
<1>4. \A i \in 1..n : i < n \/ i <= synced => file[i].whole
  BY DEF InPlace
<1> HIDE DEF k, n, l
<1>5. l = k
  <2> SUFFICES ASSUME l # k  PROVE FALSE
    OBVIOUS
  <2>1. l \in 1..n /\ l < n /\ ~file[l].whole
    BY <1>1, <1>2
  <2> QED  BY <1>4, <2>1
<1>6. synced <= k
  <2> SUFFICES ASSUME ~(synced <= k)  PROVE FALSE
    OBVIOUS
  <2>1. k + 1 \in 1..n /\ k + 1 <= synced /\ k < n
    BY <1>1, <1>2
  <2> QED  BY <1>3, <1>4, <2>1
<1> QED  BY <1>1, <1>2, <1>5, <1>6 DEF k, l, n

LEMMA GoodStep == StoreInv /\ GoodInv /\ [Next]_vars => GoodInv'
<1> SUFFICES ASSUME StoreInv, GoodInv, [Next]_vars, ~failed'
             PROVE  InPlace' /\ Settled' /\ NextIs' /\ AckedKept'
  BY DEF GoodInv
<1>0. TypeInv /\ OffInv /\ CallInv
  BY DEF StoreInv
<1> DEFINE n == Len(file)
           l == Len(file')
<1>t. file \in Seq(Record) /\ n \in Nat /\ synced \in 0..n /\ acked \subseteq Nat \X Message
  BY <1>0 DEF TypeInv
<1>a. ASSUME NEW a \in acked  PROVE a[1] \in Nat
  BY <1>t, <1>a
<1>g. ASSUME ~failed  PROVE InPlace /\ Settled /\ NextIs /\ AckedKept
  BY <1>g DEF GoodInv
<1>1. CASE OpenPartition
  <2>1. ~failed /\ op' = op /\ acked' = acked /\ ~open
    BY <1>1 DEF OpenPartition
  <2>2. InPlace /\ AckedKept
    BY <1>g, <2>1
  <2>3. /\ synced <= l /\ synced' = synced /\ l <= n
        /\ \A i \in 1..l : file'[i] = file[i] /\ file[i].whole
    BY <1>0, <1>1, <2>2, GoodOpen
  <2>4. file' \in Seq(Record) /\ l \in Nat
    BY <1>0, <1>1, OpenEffect
  <2>5. /\ nextOffset' = IF l = 0 THEN 0 ELSE file'[l].off + 1
    BY <1>0, <1>1, OpenOffsets
  <2>6. op' = None
    BY <1>0, <2>1 DEF CallInv
  <2>7. \A i \in 1..n : file[i].off = i - 1 /\ file[i].msg # Garbage
    BY <2>2 DEF InPlace
  <2>8. \A a \in acked : a[1] + 1 <= synced /\ file[a[1] + 1].msg = a[2]
    BY <2>2 DEF AckedKept
  <2> HIDE DEF n, l
  <2>9. \A i \in 1..l : file'[i].off = i - 1 /\ file'[i].msg # Garbage /\ file'[i].whole
    <3>1. \A i \in 1..l : i \in 1..n
      BY <1>t, <2>3, <2>4
    <3> QED  BY <2>3, <2>7, <3>1
  <2>10. nextOffset' = l
    <3>1. l # 0 => l \in 1..l
      BY <2>4
    <3> QED  BY <2>4, <2>5, <2>9, <3>1
  <2>11. \A a \in acked' : a[1] + 1 <= synced' /\ file'[a[1] + 1].msg = a[2]
    <3> SUFFICES ASSUME NEW a \in acked
                 PROVE  a[1] + 1 <= synced' /\ file'[a[1] + 1].msg = a[2]
      BY <2>1
    <3>1. a[1] + 1 \in 1..l
      BY <1>a, <1>t, <2>3, <2>4, <2>8
    <3> QED  BY <2>3, <2>8, <3>1
  <2> QED  BY <2>6, <2>9, <2>10, <2>11 DEF InPlace, Settled, AllWhole, NextIs, AckedKept, l
<1>2. ASSUME NEW o, NEW m \in Message, Begin(o, m)
      PROVE  InPlace' /\ Settled' /\ NextIs' /\ AckedKept'
  <2>1. ~failed /\ open /\ op = None /\ op'.stage = "header"
    BY <1>2 DEF Begin
  <2>2. InPlace /\ Settled /\ NextIs /\ AckedKept
    BY <1>g, <2>1
  <2> QED  BY <1>2, <2>1, <2>2 DEF Begin, InPlace, Settled, AllWhole, NextIs, AckedKept
<1>3. CASE WriteHeader
  <2>1. /\ op # None /\ op' = [op EXCEPT !.stage = "payload"] /\ op.stage = "header"
        /\ file' = Append(file, Fragment) /\ ~failed
        /\ open' = open /\ synced' = synced /\ nextOffset' = nextOffset /\ acked' = acked
    BY <1>3 DEF WriteHeader
  <2>2. op'.stage = "payload" /\ op' # None /\ op.msg # Garbage
    BY <1>0, <2>1, CallFacts, StoredIsMessage
  <2>3. /\ l = n + 1
        /\ \A i \in 1..n : file'[i] = file[i]
        /\ file'[n + 1].off = op.off /\ file'[n + 1].msg = op.msg
    BY <1>0, <2>1, HeaderEffect
  <2>4. open /\ op.off = nextOffset
    BY <1>0, <2>1 DEF CallInv
  <2>5. /\ \A i \in 1..n : file[i].off = i - 1 /\ file[i].msg # Garbage /\ file[i].whole
        /\ nextOffset = n
        /\ \A a \in acked : a[1] + 1 <= synced /\ file[a[1] + 1].msg = a[2]
    BY <1>g, <2>1, <2>4 DEF InPlace, Settled, AllWhole, NextIs, AckedKept
  <2> HIDE DEF n, l
  <2>6. ASSUME NEW i \in 1..l
        PROVE  /\ file'[i].off = i - 1
               /\ file'[i].msg # Garbage
               /\ i < l \/ i <= synced' => file'[i].whole
    <3>1. CASE i \in 1..n
      BY <2>3, <2>5, <3>1
    <3>2. CASE i = n + 1
      <4>1. ~(i < l) /\ ~(i <= synced') /\ i - 1 = n
        <5>1. synced' = synced /\ l = n + 1
          BY <2>1, <2>3
        <5> QED  BY <1>t, <3>2, <5>1
      <4> QED  BY <2>2, <2>3, <2>4, <2>5, <3>2, <4>1
    <3> QED  BY <1>t, <2>3, <3>1, <3>2
  <2>7. nextOffset' = l - 1
    BY <1>t, <2>1, <2>3, <2>5
  <2>8. \A a \in acked' : a[1] + 1 <= synced' /\ file'[a[1] + 1].msg = a[2]
    <3> SUFFICES ASSUME NEW a \in acked
                 PROVE  a[1] + 1 <= synced' /\ file'[a[1] + 1].msg = a[2]
      BY <2>1
    <3>1. a[1] + 1 \in 1..n
      BY <1>a, <1>t, <2>5
    <3> QED  BY <2>1, <2>3, <2>5, <3>1
  <2> QED  BY <2>2, <2>6, <2>7, <2>8 DEF InPlace, Settled, NextIs, AckedKept, l
<1>4. CASE WriteHeaderFails
  BY <1>4 DEF WriteHeaderFails, Fails
<1>5. CASE WritePayload
  <2>1. /\ op # None /\ op' = [op EXCEPT !.stage = "sync"] /\ op.stage = "payload" /\ ~failed
        /\ open' = open /\ synced' = synced /\ nextOffset' = nextOffset /\ acked' = acked
    BY <1>5 DEF WritePayload
  <2>2. op'.stage = "sync" /\ op' # None
    BY <1>0, <2>1, CallFacts
  <2>3. open /\ n >= 1
    BY <1>0, <2>1 DEF CallInv
  <2>4. /\ l = n
        /\ \A i \in 1..n : i # n => file'[i] = file[i]
        /\ file'[n].off = file[n].off /\ file'[n].msg = file[n].msg /\ file'[n].whole
    BY <1>0, <1>5, <2>3, PayloadEffect
  <2>5. /\ \A i \in 1..n : file[i].off = i - 1 /\ file[i].msg # Garbage
                           /\ (i < n \/ i <= synced => file[i].whole)
        /\ nextOffset = n - 1
        /\ \A a \in acked : a[1] + 1 <= synced /\ file[a[1] + 1].msg = a[2]
    BY <1>g, <2>1, <2>3 DEF InPlace, NextIs, AckedKept
  <2> HIDE DEF n, l
  <2>6. ASSUME NEW i \in 1..l
        PROVE  file'[i].off = i - 1 /\ file'[i].msg # Garbage /\ file'[i].whole
    <3>1. CASE i = n
      BY <2>4, <2>5, <3>1
    <3>2. CASE i # n
      <4>1. i < n /\ i \in 1..n
        BY <1>t, <2>4, <3>2
      <4> QED  BY <2>4, <2>5, <3>2, <4>1
    <3> QED  BY <3>1, <3>2
  <2>8. \A a \in acked' : a[1] + 1 <= synced' /\ file'[a[1] + 1].msg = a[2]
    <3> SUFFICES ASSUME NEW a \in acked
                 PROVE  a[1] + 1 <= synced' /\ file'[a[1] + 1].msg = a[2]
      BY <2>1
    <3>1. a[1] + 1 \in 1..n
      BY <1>a, <1>t, <2>5
    <3> QED  BY <2>1, <2>4, <2>5, <3>1
  <2>9. nextOffset' = l - 1
    BY <2>1, <2>4, <2>5
  <2> QED  BY <2>2, <2>6, <2>8, <2>9 DEF InPlace, Settled, AllWhole, NextIs, AckedKept, l
<1>6. CASE WritePayloadFails
  BY <1>6 DEF WritePayloadFails, Fails
<1>7. CASE Sync
  <2>1. /\ op # None /\ op.stage = "sync" /\ ~failed /\ op' = None
        /\ file' = file /\ open' = open /\ synced' = n /\ nextOffset' = nextOffset + 1
        /\ acked' = acked \union {<<op.off, op.msg>>}
    BY <1>7 DEF Sync
  <2>2. open /\ n >= 1 /\ op.off = nextOffset /\ file[n].msg = op.msg
    BY <1>0, <2>1 DEF CallInv
  <2>3. /\ \A i \in 1..n : file[i].off = i - 1 /\ file[i].msg # Garbage /\ file[i].whole
        /\ nextOffset = n - 1
        /\ \A a \in acked : a[1] + 1 <= synced /\ file[a[1] + 1].msg = a[2]
    BY <1>g, <2>1, <2>2 DEF InPlace, Settled, AllWhole, NextIs, AckedKept
  <2> HIDE DEF n, l
  <2>4. \A a \in acked' : a[1] + 1 <= synced' /\ file'[a[1] + 1].msg = a[2]
    <3> TAKE a \in acked'
    <3>1. CASE a \in acked
      BY <1>a, <1>t, <2>1, <2>3, <3>1
    <3>2. CASE a = <<op.off, op.msg>>
      <4>1. a[1] = n - 1 /\ a[2] = op.msg
        BY <2>2, <2>3, <3>2
      <4>2. (n - 1) + 1 = n /\ n <= n
        BY <1>t
      <4> QED  BY <2>1, <2>2, <4>1, <4>2
    <3> QED  BY <2>1, <3>1, <3>2
  <2>5. nextOffset' = n
    BY <1>t, <2>1, <2>3
  <2> QED  BY <2>1, <2>3, <2>4, <2>5 DEF InPlace, Settled, AllWhole, NextIs, AckedKept, n
<1>8. CASE SyncFails
  BY <1>8 DEF SyncFails, Fails
<1>9. CASE Flush
  <2>1. /\ open /\ op = None /\ ~failed /\ op' = None /\ nextOffset' = nextOffset
        /\ file' = file /\ open' = open /\ synced' = n /\ acked' = acked
    BY <1>9 DEF Flush
  <2>3. /\ \A i \in 1..n : file[i].off = i - 1 /\ file[i].msg # Garbage /\ file[i].whole
        /\ nextOffset = n
        /\ \A a \in acked : a[1] + 1 <= synced /\ file[a[1] + 1].msg = a[2]
    BY <1>g, <2>1 DEF InPlace, Settled, AllWhole, NextIs, AckedKept
  <2> HIDE DEF n, l
  <2>4. \A a \in acked' : a[1] + 1 <= synced' /\ file'[a[1] + 1].msg = a[2]
    BY <1>a, <1>t, <2>1, <2>3
  <2> QED  BY <2>1, <2>3, <2>4 DEF InPlace, Settled, AllWhole, NextIs, AckedKept, n
<1>10. CASE Close
  <2>1. ~failed
    BY <1>10 DEF Close
  <2> QED  BY <1>g, <1>10, <2>1 DEF Close, InPlace, Settled, NextIs, AckedKept
<1>11. CASE Crash
  <2>1. ~failed /\ ~open' /\ synced' = synced /\ acked' = acked
    BY <1>11 DEF Crash
  <2>2. /\ l \in synced..n
        /\ \A i \in 1..l : file'[i].off = file[i].off /\ file'[i].msg = file[i].msg
        /\ \A i \in 1..l : i # l \/ i <= synced => file'[i] = file[i]
    BY <1>0, <1>11, CrashEffect
  <2>3. /\ \A i \in 1..n : file[i].off = i - 1 /\ file[i].msg # Garbage
                           /\ (i < n \/ i <= synced => file[i].whole)
        /\ \A a \in acked : a[1] + 1 <= synced /\ file[a[1] + 1].msg = a[2]
    BY <1>g, <2>1 DEF InPlace, AckedKept
  <2> HIDE DEF n, l
  <2>4. l \in Nat /\ l <= n /\ synced <= l /\ \A i \in 1..l : i \in 1..n
    BY <1>t, <2>2
  <2>5. ASSUME NEW i \in 1..l
        PROVE  /\ file'[i].off = i - 1
               /\ file'[i].msg # Garbage
               /\ i < l \/ i <= synced' => file'[i].whole
    <3>1. i < l \/ i <= synced => file'[i] = file[i] /\ (i < n \/ i <= synced)
      BY <1>t, <2>2, <2>4
    <3> QED  BY <2>1, <2>2, <2>3, <2>4, <3>1
  <2>6. \A a \in acked' : a[1] + 1 <= synced' /\ file'[a[1] + 1].msg = a[2]
    <3> SUFFICES ASSUME NEW a \in acked
                 PROVE  a[1] + 1 <= synced' /\ file'[a[1] + 1].msg = a[2]
      BY <2>1
    <3>1. a[1] + 1 \in 1..l
      BY <1>a, <1>t, <2>3, <2>4
    <3> QED  BY <2>1, <2>2, <2>3, <3>1
  <2> QED  BY <2>1, <2>5, <2>6 DEF InPlace, Settled, NextIs, AckedKept, l
<1>12. CASE UNCHANGED vars
  <2>1. ~failed
    BY <1>12 DEF vars
  <2> QED  BY <1>g, <1>12, <2>1 DEF vars, InPlace, Settled, AllWhole, NextIs, AckedKept
<1> QED  BY <1>1, <1>2, <1>3, <1>4, <1>5, <1>6, <1>7, <1>8, <1>9, <1>10, <1>11, <1>12
         DEF Next, AppendMessage, AppendRecord, AppendStep, FailStep

-----------------------------------------------------------------------------
(* The invariant implies the properties.                                   *)

LEMMA GoodReadsBack == StoreInv /\ GoodInv => CrashSafe
<1> SUFFICES ASSUME StoreInv, GoodInv, ~failed, NEW a \in acked
             PROVE  /\ ReadsBack(a[1], a[2])
                    /\ \E i \in 1..synced : file[i].off = a[1] /\ Decoded(i) = a[2]
  BY DEF CrashSafe, AckedReadable
<1> DEFINE n == Len(file)
           i == a[1] + 1
           k == Sound(file)
<1>1. file \in Seq(Record) /\ n \in Nat /\ synced \in 0..n /\ a[1] \in Nat
  BY DEF StoreInv, TypeInv
<1>2. InPlace /\ AckedKept
  BY DEF GoodInv
<1>3. i <= synced /\ file[i].msg = a[2]
  BY <1>2 DEF AckedKept
<1>4. \A j \in 1..n : file[j].off = j - 1 /\ (j <= synced => file[j].whole)
  BY <1>2 DEF InPlace
<1>5. k \in 0..n /\ (k < n => ~file[k + 1].whole)
  BY <1>1, SoundPrefix
<1>6. Framed = 1..k /\ \A j \in 1..n : Decoded(j) = file[j].msg
  BY <1>1, ReadableIs
<1> HIDE DEF n, k
<1>7. i \in 1..synced /\ i \in 1..n /\ i - 1 = a[1]
  BY <1>1, <1>3
<1>8. i \in 1..k
  <2>1. synced <= k
    <3> SUFFICES ASSUME k < synced  PROVE FALSE
      BY <1>1, <1>5
    <3>1. k + 1 \in 1..n /\ k + 1 <= synced /\ k < n
      BY <1>1, <1>5
    <3> QED  BY <1>4, <1>5, <3>1
  <2> QED  BY <1>1, <1>5, <1>7, <2>1
<1>9. file[i].off = a[1] /\ Decoded(i) = a[2]
  BY <1>3, <1>4, <1>6, <1>7
<1>10. \A j \in 1..(i - 1) : file[j].off # a[1]
  <2> TAKE j \in 1..(i - 1)
  <2>1. j \in 1..n /\ j - 1 # a[1]
    BY <1>1, <1>7
  <2> QED  BY <1>4, <2>1
<1> HIDE DEF i
<1> QED  BY <1>6, <1>7, <1>8, <1>9, <1>10 DEF ReadsBack

LEMMA OffsetsNoHoles == StoreInv => NoHoles
<1> SUFFICES ASSUME StoreInv, NEW i \in Readable
             PROVE  IF i = 1 THEN file[i].off = 0
                    ELSE file[i].off \in {file[i - 1].off, file[i - 1].off + 1}
  BY DEF NoHoles
<1>1. Offsets(file) /\ i \in 1..Len(file)
  BY DEF StoreInv, OffInv, Readable, Framed
<1>2. i = 1 \/ i > 1
  BY <1>1
<1> QED  BY <1>1, <1>2 DEF Offsets

LEMMA StoredRoundTrip == TypeInv => RoundTrip
<1> SUFFICES ASSUME TypeInv, NEW m \in {file[i].msg : i \in 1..Len(file)} \ {Garbage}
             PROVE  /\ Stored[m] = m
                    /\ \A n \in 0..(Len(Encode(m)) - 1) :
                          LET d == Decode(SubSeq(Encode(m), 1, n)) IN
                          d # Failed => d.id = m.id /\ d.topic = m.topic /\ d.key = m.key
  BY DEF RoundTrip
<1>1. m \in Message
  <2>1. PICK i \in 1..Len(file) : m = file[i].msg
    OBVIOUS
  <2>2. file[i].msg \in Message \union {Garbage}
    BY ElementOfSeq, RecordFields DEF TypeInv
  <2> QED  BY <2>1, <2>2
<1>2. /\ m \in [id : Seq(Bytes), topic : Seq(Bytes), key : Seq(Bytes), payload : Seq(Bytes)]
      /\ m.payload # <<>>
  BY <1>1, CodecAssumption DEF Message, Accepts
<1>3. /\ Len(Encode(m)) \in Nat
      /\ \A n \in 0..Len(Encode(m)) :
            LET d == Decode(SubSeq(Encode(m), 1, n)) IN
            d # Failed => d.id = m.id /\ d.topic = m.topic /\ d.key = m.key
  BY <1>2, DecodeCut
<1>4. \A n \in 0..(Len(Encode(m)) - 1) : n \in 0..Len(Encode(m))
  BY <1>3
<1> QED  BY <1>1, <1>3, <1>4, StoredIsMessage

-----------------------------------------------------------------------------
(* Theorems.                                                               *)

(* Every reachable state, whatever fails, has its offsets in order and the *)
(* record of an append in progress at the end of the file, and before the  *)
(* first failure the file is a log.                                        *)
THEOREM Invariance == Spec => [](StoreInv /\ GoodInv)
<1>1. Init => StoreInv /\ GoodInv
  BY StoreInit
<1>2. (StoreInv /\ GoodInv) /\ [Next]_vars => (StoreInv /\ GoodInv)'
  BY TypeStep, OffStep, GoodStep DEF StoreInv
<1> QED  BY <1>1, <1>2, PTL DEF Spec

(* The store's state keeps its types, and before the first failing call a  *)
(* store that is open and idle holds the offsets 0 to nextOffset - 1, each *)
(* in a whole record: Append and Recover agree about the file.             *)
THEOREM TypeCorrect == Spec => []TypeOK
<1>1. StoreInv /\ GoodInv => TypeOK
  BY DEF StoreInv, GoodInv, TypeOK, InPlace, Settled, AllWhole, NextIs
<1> QED  BY <1>1, Invariance, PTL

(* Before the first failing call, no crash, at whatever step of an append  *)
(* or a recovery, costs a record whose append returned nil.                *)
THEOREM NoAckLost == Spec => []CrashSafe
  BY Invariance, GoodReadsBack, PTL

(* Whatever fails, the readable records have offsets without a hole.       *)
THEOREM OffsetsContiguous == Spec => []NoHoles
  BY Invariance, OffsetsNoHoles, PTL

(* Every message in the file decodes to itself, for fields of any length,  *)
(* and no part of its payload decodes to a message of another identity.    *)
THEOREM DecodesBack == Spec => []RoundTrip
<1>1. StoreInv => RoundTrip
  BY StoredRoundTrip DEF StoreInv
<1> QED  BY <1>1, Invariance, PTL

-----------------------------------------------------------------------------
(* Synced records stay.                                                    *)

LEMMA PrefixStays ==
    ASSUME file \in Seq(Record), file' \in Seq(Record), NEW i \in Readable, i <= Len(file'),
           \A j \in 1..i : file'[j] = file[j]
    PROVE  i \in Readable' /\ file'[i] = file[i]
<1>1. /\ Readable = WholePrefix(file) /\ Readable' = WholePrefix(file')
  BY ReadableIs, ReadableNextIs, SoundPrefix
<1>2. i \in 1..Len(file) /\ \A j \in 1..i : file[j].whole
  BY <1>1 DEF WholePrefix
<1>3. i \in 1..Len(file') /\ i \in 1..i
  BY <1>2
<1>4. \A j \in 1..i : file'[j].whole
  BY <1>2
<1> QED  BY <1>1, <1>3, <1>4 DEF WholePrefix

LEMMA SyncedStep ==
    ASSUME StoreInv, Next, NEW i \in Readable, i <= synced
    PROVE  i \in Readable' /\ file'[i] = file[i]
<1>0. TypeInv /\ OffInv /\ CallInv /\ TypeInv'
  BY TypeStep DEF StoreInv
<1>1. file \in Seq(Record) /\ file' \in Seq(Record) /\ synced \in 0..Len(file)
  BY <1>0 DEF TypeInv
<1>2. i \in 1..Sound(file) /\ Sound(file) \in 0..Len(file)
  BY <1>1, ReadableIs, SoundPrefix
<1>3. i \in 1..Len(file) /\ Len(file) \in Nat /\ \A j \in 1..i : j \in 1..Len(file) /\ j \in 1..Sound(file)
  BY <1>1, <1>2
<1> SUFFICES i <= Len(file') /\ \A j \in 1..i : file'[j] = file[j]
  BY <1>1, PrefixStays
<1>4. CASE OpenPartition
  <2>1. /\ \A j \in 1..Sound(file) : file'[j] = file[j]
        /\ Len(file') = Sound(file) \/ Len(file') = Sound(file) + 1
    BY <1>0, <1>4, OpenEffect
  <2>2. i <= Len(file')
    BY <1>2, <2>1
  <2> QED  BY <1>3, <2>1, <2>2
<1>5. CASE file' = Append(file, Fragment) /\ op # None
  <2>1. Len(file') = Len(file) + 1 /\ \A j \in 1..Len(file) : file'[j] = file[j]
    BY <1>0, <1>5, HeaderEffect
  <2>2. i <= Len(file')
    BY <1>3, <2>1
  <2> QED  BY <1>3, <2>1, <2>2
<1>6. CASE WritePayload
  <2>1. Len(file) >= 1
    BY <1>0, <1>6 DEF WritePayload, CallInv
  <2> DEFINE l == Len(file)
  <2>2. /\ Len(file') = l
        /\ \A j \in 1..l : j # l => file'[j] = file[j]
        /\ file[l].whole => file'[l] = file[l]
    BY <1>0, <1>6, <2>1, PayloadEffect
  <2>3. \A j \in 1..i : file[j].whole
    BY <1>1, <1>3, SoundPrefix
  <2>4. \A j \in 1..i : file'[j] = file[j]
    BY <1>3, <2>2, <2>3
  <2>5. i <= Len(file')
    BY <1>3, <2>2
  <2> QED  BY <2>4, <2>5
<1>7. CASE Crash
  <2>1. /\ Len(file') \in synced..Len(file)
        /\ \A j \in 1..Len(file') : j # Len(file') \/ j <= synced => file'[j] = file[j]
    BY <1>0, <1>7, CrashEffect
  <2>2. i <= Len(file') /\ \A j \in 1..i : j <= synced /\ j \in 1..Len(file')
    BY <1>1, <1>3, <2>1
  <2> QED  BY <2>1, <2>2
<1>8. CASE UNCHANGED file
  BY <1>3, <1>8
<1>9. \/ OpenPartition \/ WritePayload \/ Crash \/ UNCHANGED file
      \/ file' = Append(file, Fragment) /\ op # None
  BY DEF Next, AppendMessage, AppendRecord, AppendStep, FailStep, Begin, WriteHeader,
         WriteHeaderFails, WritePayloadFails, Sync, SyncFails, Flush, Close, Fails
<1> QED  BY <1>4, <1>5, <1>6, <1>7, <1>8, <1>9

(* Whatever fails, no step of the store changes a synced record in front   *)
(* of the first fragment or makes it unreadable.                           *)
THEOREM SyncedKept == Spec => SyncedStay
<1>1. StoreInv /\ [Next]_vars =>
         [\A i \in Readable : i <= synced => i \in Readable' /\ file'[i] = file[i]]_vars
  BY SyncedStep
<1> QED  BY <1>1, Invariance, PTL DEF Spec, SyncedStay

-----------------------------------------------------------------------------
(* The store implements DurableLog.                                        *)

LEMMA LogIs ==
    ASSUME file \in Seq(Record), InPlace
    PROVE  /\ logBar \in Seq(Message)
           /\ Len(logBar) = Sound(file)
           /\ \A i \in 1..Sound(file) : logBar[i] = file[i].msg
<1> DEFINE k == Sound(file)
<1>1. k \in 0..Len(file) /\ Cardinality(Readable) = k
  BY SoundPrefix, ReadableIs
<1>2. \A i \in 1..Len(file) : Decoded(i) = file[i].msg
  BY ReadableIs
<1>3. \A i \in 1..Len(file) : file[i].msg \in Message
  <2> TAKE i \in 1..Len(file)
  <2>1. file[i].msg \in Message \union {Garbage}
    BY RecordFields, ElementOfSeq
  <2> QED  BY <2>1 DEF InPlace
<1> HIDE DEF k
<1>4. \A i \in 1..k : i \in 1..Len(file)
  BY <1>1
<1>5. logBar = [i \in 1..k |-> Decoded(i)] /\ k \in Nat
  BY <1>1 DEF logBar
<1>6. \A i \in 1..k : Decoded(i) = file[i].msg /\ Decoded(i) \in Message
  BY <1>2, <1>3, <1>4
<1>7. logBar \in [1..k -> Message]
  BY <1>5, <1>6
<1>8. logBar \in Seq(Message) /\ Len(logBar) = k
  BY <1>5, <1>7
<1> QED  BY <1>5, <1>6, <1>8 DEF k

LEMMA LogNextIs ==
    ASSUME file' \in Seq(Record), InPlace'
    PROVE  /\ logBar' \in Seq(Message)
           /\ Len(logBar') = Sound(file')
           /\ \A i \in 1..Sound(file') : logBar'[i] = file'[i].msg
<1> DEFINE k == Sound(file')
<1>1. k \in 0..Len(file') /\ Cardinality(Readable)' = k
  BY SoundPrefix, ReadableNextIs
<1>2. \A i \in 1..Len(file') : Decoded(i)' = file'[i].msg
  BY ReadableNextIs
<1>3. \A i \in 1..Len(file') : file'[i].msg \in Message
  <2> TAKE i \in 1..Len(file')
  <2>1. file'[i].msg \in Message \union {Garbage}
    BY RecordFields, ElementOfSeq
  <2> QED  BY <2>1 DEF InPlace
<1> HIDE DEF k
<1>4. \A i \in 1..k : i \in 1..Len(file')
  BY <1>1
<1>5. logBar' = [i \in 1..k |-> Decoded(i)'] /\ k \in Nat
  BY <1>1 DEF logBar
<1>6. \A i \in 1..k : Decoded(i)' = file'[i].msg /\ Decoded(i)' \in Message
  BY <1>2, <1>3, <1>4
<1>7. logBar' \in [1..k -> Message]
  BY <1>5, <1>6
<1>8. logBar' \in Seq(Message) /\ Len(logBar') = k
  BY <1>5, <1>7
<1> QED  BY <1>5, <1>6, <1>8 DEF k

LEMMA LogInit == Init => Durable!Init
<1> SUFFICES ASSUME Init  PROVE Durable!Init
  OBVIOUS
<1>1. file \in Seq(Record) /\ Len(file) = 0 /\ acked = {} /\ failed = FALSE
  BY DEF Init
<1>2. Sound(file) = 0
  <2>1. Sound(file) \in 0..Len(file)
    BY <1>1, SoundPrefix
  <2> QED  BY <1>1, <2>1
<1>3. InPlace
  BY <1>1 DEF InPlace
<1>4. logBar \in Seq(Message) /\ Len(logBar) = 0
  BY <1>1, <1>2, <1>3, LogIs
<1>5. logBar = <<>>
  BY <1>4, EmptySeq
<1>6. keptBar = {}
  BY <1>1 DEF keptBar
<1> QED  BY <1>1, <1>5, <1>6 DEF Durable!Init

(* A step without a failure, before any failure, as a step of DurableLog.  *)
LEMMA LogStep ==
    ASSUME StoreInv, GoodInv, StoreInv', GoodInv', [Next]_vars, ~failed, ~failed'
    PROVE  \/ logBar' = logBar /\ keptBar' = keptBar
           \/ \E m \in Message : logBar' = Append(logBar, m) /\ keptBar' = keptBar
           \/ logBar # <<>> /\ keptBar' = keptBar \union {Len(logBar)} /\ logBar' = logBar
           \/ \E k \in 0..Len(logBar) :
                 /\ \A i \in keptBar : i <= k
                 /\ logBar' = SubSeq(logBar, 1, k)
                 /\ keptBar' = keptBar
<1> DEFINE n == Len(file)
           l == Len(file')
           s == Sound(file)
           t == Sound(file')
<1>1. TypeInv /\ CallInv /\ InPlace /\ Settled /\ NextIs /\ AckedKept
  BY DEF StoreInv, GoodInv
<1>2. TypeInv' /\ InPlace' /\ Settled'
  BY DEF StoreInv, GoodInv
<1>3. /\ file \in Seq(Record) /\ file' \in Seq(Record) /\ n \in Nat /\ l \in Nat
      /\ synced \in 0..n /\ acked \subseteq Nat \X Message
  BY <1>1, <1>2 DEF TypeInv
<1>4. /\ logBar \in Seq(Message) /\ Len(logBar) = s
      /\ \A i \in 1..s : logBar[i] = file[i].msg
  BY <1>1, <1>3, LogIs
<1>5. /\ logBar' \in Seq(Message) /\ Len(logBar') = t
      /\ \A i \in 1..t : logBar'[i] = file'[i].msg
  BY <1>2, <1>3, LogNextIs
<1>6. /\ s \in 0..n /\ (\A i \in 1..s : file[i].whole) /\ (s < n => ~file[s + 1].whole)
      /\ t \in 0..l /\ (\A i \in 1..t : file'[i].whole) /\ (t < l => ~file'[t + 1].whole)
  BY <1>3, SoundPrefix
<1>7. ASSUME t = s, \A i \in 1..s : file'[i].msg = file[i].msg
      PROVE  logBar' = logBar
  <2>1. Len(logBar') = Len(logBar) /\ \A i \in 1..Len(logBar') : logBar'[i] = logBar[i]
    BY <1>4, <1>5, <1>7
  <2> QED  BY <1>4, <1>5, <2>1, SeqEqual
<1>8. ASSUME UNCHANGED file  PROVE logBar' = logBar
  BY <1>7, <1>8
<1>9. ASSUME UNCHANGED acked  PROVE keptBar' = keptBar
  BY <1>9 DEF keptBar
<1>10. CASE OpenPartition
  <2>1. l = s /\ \A i \in 1..l : file'[i] = file[i] /\ file[i].whole
    BY <1>1, <1>10, GoodOpen
  <2>2. t = s
    <3>1. l \in 0..Len(file') /\ (\A i \in 1..l : file'[i].whole) /\ ~(l < Len(file'))
      BY <1>3, <2>1
    <3> QED  BY <1>3, <2>1, <3>1, SoundIs
  <2>3. logBar' = logBar
    BY <1>7, <2>1, <2>2
  <2> QED  BY <1>9, <1>10, <2>3 DEF OpenPartition
<1>11. CASE WriteHeader
  <2>1. op # None /\ file' = Append(file, Fragment) /\ op.stage = "header" /\ UNCHANGED acked
    BY <1>11 DEF WriteHeader
  <2>2. l = n + 1 /\ (\A i \in 1..n : file'[i] = file[i]) /\ ~file'[n + 1].whole
    BY <1>1, <2>1, HeaderEffect
  <2>3. \A i \in 1..n : file[i].whole
    BY <1>1, <2>1 DEF CallInv, Settled, AllWhole
  <2>4. s = n
    <3>1. n \in 0..Len(file) /\ (\A i \in 1..n : file[i].whole) /\ ~(n < Len(file))
      BY <1>3, <2>3
    <3> QED  BY <1>3, <3>1, SoundIs
  <2>5. t = n
    <3>1. n \in 0..Len(file') /\ (\A i \in 1..n : file'[i].whole) /\ ~file'[n + 1].whole
      BY <1>3, <2>2, <2>3
    <3> QED  BY <1>3, <3>1, SoundIs
  <2>6. logBar' = logBar
    BY <1>7, <2>2, <2>4, <2>5
  <2> QED  BY <1>9, <2>1, <2>6
<1>12. CASE WritePayload
  <2>1. op # None /\ op.stage = "payload" /\ UNCHANGED acked /\ op.msg \in Message
    BY <1>1, <1>12, CallFacts DEF WritePayload
  <2>2. n >= 1 /\ ~file[n].whole /\ file[n].msg = op.msg
    BY <1>1, <2>1 DEF CallInv
  <2>3. /\ l = n
        /\ \A i \in 1..n : i # n => file'[i] = file[i]
        /\ file'[n].msg = file[n].msg /\ file'[n].whole
    BY <1>1, <1>12, <2>2, PayloadEffect
  <2>4. \A i \in 1..n : i < n => file[i].whole
    BY <1>1 DEF InPlace
  <2>5. s = n - 1
    <3>1. n - 1 \in 0..Len(file) /\ (\A i \in 1..(n - 1) : file[i].whole) /\ ~file[(n - 1) + 1].whole
      BY <1>3, <2>2, <2>4
    <3> QED  BY <1>3, <3>1, SoundIs
  <2>6. t = n
    <3>1. \A i \in 1..n : file'[i].whole
      BY <1>3, <2>3, <2>4
    <3>2. n \in 0..Len(file') /\ ~(n < Len(file'))
      BY <1>3, <2>3
    <3> QED  BY <1>3, <3>1, <3>2, SoundIs
  <2> DEFINE g == Append(logBar, op.msg)
  <2>7. /\ g \in Seq(Message) /\ Len(g) = Len(logBar) + 1
        /\ \A i \in 1..Len(logBar) : g[i] = logBar[i]
        /\ g[Len(logBar) + 1] = op.msg
    BY <1>4, <2>1, AppendProperties
  <2> HIDE DEF g, n, l, s, t
  <2>8. Len(logBar') = n /\ Len(g) = n /\ Len(logBar) = n - 1
    BY <1>3, <1>4, <1>5, <2>5, <2>6, <2>7
  <2>9. ASSUME NEW i \in 1..n  PROVE logBar'[i] = g[i]
    <3>1. CASE i = n
      <4>1. g[n] = op.msg
        BY <1>3, <2>7, <2>8
      <4> QED  BY <1>5, <2>2, <2>3, <2>6, <3>1, <4>1
    <3>2. CASE i # n
      <4>1. i \in 1..(n - 1)
        BY <1>3, <3>2
      <4>2. g[i] = file[i].msg
        BY <1>4, <2>5, <2>7, <2>8, <4>1
      <4> QED  BY <1>5, <2>3, <2>6, <3>2, <4>2
    <3> QED  BY <3>1, <3>2
  <2>10. logBar' = g
    BY <1>5, <2>7, <2>8, <2>9, SeqEqual
  <2> QED  BY <1>9, <2>1, <2>10 DEF g
<1>13. CASE Sync
  <2>1. /\ op # None /\ op.stage = "sync" /\ file' = file
        /\ acked' = acked \union {<<op.off, op.msg>>}
    BY <1>13 DEF Sync
  <2>2. open /\ op.off = nextOffset /\ n >= 1
    BY <1>1, <2>1 DEF CallInv
  <2>3. nextOffset = n - 1 /\ \A i \in 1..n : file[i].whole
    BY <1>1, <2>1, <2>2 DEF NextIs, Settled, AllWhole
  <2>4. s = n
    <3>1. n \in 0..Len(file) /\ (\A i \in 1..n : file[i].whole) /\ ~(n < Len(file))
      BY <1>3, <2>3
    <3> QED  BY <1>3, <3>1, SoundIs
  <2>5. logBar' = logBar
    BY <1>8, <2>1
  <2>6. op.off + 1 = Len(logBar) /\ logBar # <<>>
    BY <1>3, <1>4, <2>2, <2>3, <2>4
  <2>7. keptBar' = keptBar \union {op.off + 1}
    <3> DEFINE e == <<op.off, op.msg>>
    <3>1. e[1] = op.off
      OBVIOUS
    <3>2. keptBar' = {a[1] + 1 : a \in acked \union {e}}
      BY <2>1 DEF keptBar
    <3> HIDE DEF e
    <3>3. {a[1] + 1 : a \in acked \union {e}} = {a[1] + 1 : a \in acked} \union {e[1] + 1}
      OBVIOUS
    <3> QED  BY <3>1, <3>2, <3>3 DEF keptBar
  <2> QED  BY <2>5, <2>6, <2>7
<1>14. CASE Crash
  <2>1. synced' = synced /\ UNCHANGED acked
    BY <1>14 DEF Crash
  <2>2. /\ l \in synced..n
        /\ \A i \in 1..l : file'[i].msg = file[i].msg
        /\ \A i \in 1..l : i # l \/ i <= synced => file'[i] = file[i]
        /\ l >= 1 => file'[l] = file[l] \/ ~file'[l].whole
    BY <1>1, <1>14, CrashEffect
  <2>3. \A i \in 1..l : i <= synced => file'[i].whole
    BY <1>2, <2>1 DEF InPlace
  <2>4. \A a \in acked : a[1] \in Nat /\ a[1] + 1 <= synced
    BY <1>1, <1>3 DEF AckedKept
  <2> DEFINE g == SubSeq(logBar, 1, t)
  <2> HIDE DEF n, l, s, t
  <2>5. synced <= t
    <3> SUFFICES ASSUME t < synced  PROVE FALSE
      BY <1>3, <1>6
    <3>1. t + 1 \in 1..l /\ t + 1 <= synced /\ t < l
      BY <1>3, <1>6, <2>2
    <3> QED  BY <1>6, <2>3, <3>1
  <2>6. t <= s
    <3> SUFFICES ASSUME s < t  PROVE FALSE
      BY <1>3, <1>6
    <3>1. s + 1 \in 1..t /\ s + 1 \in 1..l /\ s < n
      BY <1>3, <1>6, <2>2
    <3>2. file'[s + 1].whole /\ ~file[s + 1].whole
      BY <1>6, <3>1
    <3>3. file'[s + 1] = file[s + 1]
      BY <2>2, <3>1, <3>2
    <3> QED  BY <3>2, <3>3
  <2>7. t \in 0..Len(logBar)
    BY <1>3, <1>4, <1>6, <2>6
  <2>8. \A i \in keptBar : i <= t
    <3> SUFFICES ASSUME NEW a \in acked  PROVE a[1] + 1 <= t
      BY DEF keptBar
    <3> QED  BY <1>3, <1>6, <2>4, <2>5
  <2>9. g \in Seq(Message) /\ Len(g) = t /\ \A i \in 1..t : g[i] = logBar[i]
    <3>1. 1 \in Int /\ t \in Int /\ t \in Nat /\ \A i \in 1..t : logBar[i] \in Message
      BY <1>4, <2>7
    <3>2. /\ g \in Seq(Message)
          /\ Len(g) = IF 1 <= t THEN t - 1 + 1 ELSE 0
          /\ \A i \in 1..(t - 1 + 1) : g[i] = logBar[1 + i - 1]
      BY <3>1, SubSeqProperties
    <3> HIDE DEF g
    <3> QED  BY <3>1, <3>2
  <2> HIDE DEF g
  <2>10. \A i \in 1..t : logBar'[i] = g[i]
    <3> TAKE i \in 1..t
    <3>1. i \in 1..s /\ i \in 1..l
      BY <1>3, <1>6, <2>6
    <3> QED  BY <1>4, <1>5, <2>2, <2>9, <3>1
  <2>11. logBar' = g
    BY <1>5, <2>9, <2>10, SeqEqual
  <2> QED  BY <1>9, <2>1, <2>7, <2>8, <2>11 DEF g
<1>15. CASE UNCHANGED <<file, acked>>
  BY <1>8, <1>9, <1>15
<1>16. \/ OpenPartition \/ WriteHeader \/ WritePayload \/ Sync \/ Crash
       \/ UNCHANGED <<file, acked>>
  BY DEF Next, vars, AppendMessage, AppendRecord, AppendStep, FailStep, Begin,
         WriteHeaderFails, WritePayloadFails, SyncFails, Flush, Close, Fails
<1> QED  BY <1>10, <1>11, <1>12, <1>13, <1>14, <1>15, <1>16

(* The partition store implements the abstract log: until a call to the    *)
(* file fails, every step of an append, a recovery or a crash is a write   *)
(* at the end, an acknowledgement of the last record, a loss of records    *)
(* that were not acknowledged, or nothing.                                 *)
THEOREM StoreImplementsLog == Spec => ImplementsDurableLog
<1>1. Init => Durable!Init
  BY LogInit
<1>2. ASSUME StoreInv, GoodInv, StoreInv', GoodInv', [Next]_vars
      PROVE  [Durable!Next]_<<logBar, keptBar, ~failed>>
  <2>1. failed \in BOOLEAN /\ failed' \in BOOLEAN
    BY <1>2 DEF StoreInv, TypeInv
  <2>2. CASE failed'
    BY <2>1, <2>2 DEF Durable!Next, Durable!Break
  <2>3. CASE ~failed'
    <3>1. ~failed
      BY <1>2, <2>3 DEF Next, vars, OpenPartition, AppendMessage, AppendRecord, AppendStep, FailStep,
            Begin, WriteHeader, WriteHeaderFails, WritePayload, WritePayloadFails, Sync,
            SyncFails, Flush, Close, Crash, Fails
    <3>2. \/ logBar' = logBar /\ keptBar' = keptBar
          \/ \E m \in Message : logBar' = Append(logBar, m) /\ keptBar' = keptBar
          \/ logBar # <<>> /\ keptBar' = keptBar \union {Len(logBar)} /\ logBar' = logBar
          \/ \E k \in 0..Len(logBar) :
                /\ \A i \in keptBar : i <= k
                /\ logBar' = SubSeq(logBar, 1, k)
                /\ keptBar' = keptBar
      BY <1>2, <2>3, <3>1, LogStep
    <3>3. (~failed)' = ~failed
      BY <2>3, <3>1
    <3> QED  BY <3>2, <3>3 DEF Durable!Next, Durable!Write, Durable!Acknowledge, Durable!Lose
  <2> QED  BY <2>1, <2>2, <2>3
<1> QED  BY <1>1, <1>2, Invariance, PTL DEF Spec, ImplementsDurableLog, Durable!Spec
=============================================================================
