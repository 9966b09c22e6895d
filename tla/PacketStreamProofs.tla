-------------------------- MODULE PacketStreamProofs --------------------------
(***************************************************************************)
(* PacketStream for every set of packets, every size of the buffer and any *)
(* faults.  The parser undoes Data (ParsesPacket): that needs arithmetic   *)
(* on bytes, WORDs and DWORDs, and that the sum is a function of the data  *)
(* that is a WORD.  The loops keep the invariant that the bytes before     *)
(* them, in the buffer and then under way, are those of the packets not    *)
(* yet delivered, laid one behind the other (Fits); each action does one   *)
(* thing to that layout, and what is stale in the buffer is never part of  *)
(* it.                                                                     *)
(***************************************************************************)
EXTENDS PacketStream, SequenceTheorems, WellFoundedInduction, TLAPS

-----------------------------------------------------------------------------
(* Bytes, WORDs and DWORDs. *)

LEMMA WordIs ==
  /\ \A x : x \in Byte <=> x \in Nat /\ x < 256
  /\ \A x : x \in Word <=> x \in Nat /\ x < 65536
<1>1. \A n \in Nat : \A x : x \in Under(n) <=> x \in Nat /\ x < n
  BY DEF Under
<1> QED BY <1>1 DEF Byte, Word

LEMMA WordDoes ==
  ASSUME NEW w \in Word
  PROVE  /\ w % 256 \in Byte /\ w \div 256 \in Byte
         /\ (w % 256) + 256 * (w \div 256) = w
<1>1. w \in Nat /\ w < 65536
  BY WordIs
<1>2. /\ w % 256 \in Nat /\ w % 256 < 256 /\ w \div 256 \in Nat /\ w \div 256 < 256
      /\ (w % 256) + 256 * (w \div 256) = w
  BY <1>1
<1> QED BY <1>2, WordIs

LEMMA HalvesOf ==
  ASSUME NEW d \in Nat, d < Huge
  PROVE  /\ d % 65536 \in Word /\ d \div 65536 \in Word /\ d \div 65536 < 16384
         /\ (d % 65536) + 65536 * (d \div 65536) = d
<1>1. /\ d % 65536 \in Nat /\ d % 65536 < 65536 /\ d \div 65536 \in Nat
      /\ (d % 65536) + 65536 * (d \div 65536) = d
  OBVIOUS
<1>2. d \div 65536 < 16384
  BY DEF Huge
<1>3. d \div 65536 < 65536
  BY <1>1, <1>2
<1> QED BY <1>1, <1>2, <1>3, WordIs

LEMMA ConcatAt ==
  ASSUME NEW s \in Seq(Byte), NEW t \in Seq(Byte)
  PROVE  /\ s \o t \in Seq(Byte) /\ Len(s) \in Nat /\ Len(t) \in Nat
         /\ Len(s \o t) = Len(s) + Len(t)
         /\ \A j \in 1..Len(s) : (s \o t)[j] = s[j]
         /\ \A j \in 1..Len(t) : (s \o t)[j + Len(s)] = t[j]
OBVIOUS

LEMMA SetInduction ==
  ASSUME NEW S, 0 \in S, \A n \in Nat : n \in S => n + 1 \in S
  PROVE  Nat \subseteq S
<1> DEFINE T == Nat \ S
<1> SUFFICES ASSUME T # {} PROVE FALSE
  OBVIOUS
<1>1. \A x, y \in Nat : y < x => <<y, x>> \in OpToRel(<, Nat)
  BY DEF OpToRel
<1>2. PICK x \in T : \A y \in T : ~(<<y, x>> \in OpToRel(<, Nat))
  <2> HIDE DEF T
  <2>1. T \subseteq Nat
    BY DEF T
  <2> QED BY <2>1, WFMin, NatLessThanWellFounded
<1>3. x \in Nat /\ x # 0
  OBVIOUS
<1>4. x - 1 \in Nat /\ x - 1 < x /\ (x - 1) + 1 = x
  BY <1>3
<1>5. x - 1 \notin T
  BY <1>1, <1>2, <1>3, <1>4
<1>6. x \in S
  BY <1>4, <1>5
<1> QED BY <1>6

(* The partial sums of the data up to n. *)
SumsTo(f, n, data) ==
    f = [j \in 0..n |-> IF j = 0 THEN 0 ELSE (f[j - 1] + data[j]) % 65536]

LEMMA SumsExist ==
  ASSUME NEW data, NEW len \in Nat
  PROVE  \E f : SumsTo(f, len, data)
<1> DEFINE S == {n \in Nat : \E f : SumsTo(f, n, data)}
<1>1. 0 \in S
  <2>1. SumsTo([j \in 0..0 |-> 0], 0, data)
    BY DEF SumsTo
  <2> QED BY <2>1
<1>2. ASSUME NEW n \in Nat, n \in S PROVE n + 1 \in S
  <2>1. PICK f : SumsTo(f, n, data)
    BY <1>2
  <2> DEFINE g == [j \in 0..(n + 1) |-> IF j = n + 1 THEN (f[n] + data[n + 1]) % 65536 ELSE f[j]]
  <2>2. g[0] = 0
    BY <2>1 DEF SumsTo
  <2>3. ASSUME NEW j \in 0..(n + 1), j # 0 PROVE g[j] = (g[j - 1] + data[j]) % 65536
    <3>1. j - 1 \in 0..n /\ j - 1 \in 0..(n + 1) /\ j - 1 # n + 1
      BY <2>3
    <3>2. g[j - 1] = f[j - 1]
      BY <3>1
    <3>3. CASE j = n + 1
      BY <3>2, <3>3
    <3>4. CASE j # n + 1
      <4>1. j \in 0..n
        BY <3>4
      <4>2. f[j] = (f[j - 1] + data[j]) % 65536
        BY <2>1, <2>3, <4>1 DEF SumsTo
      <4>3. g[j] = f[j]
        BY <3>4
      <4> QED BY <3>2, <4>2, <4>3
    <3> QED BY <3>3, <3>4
  <2>4. g = [j \in 0..(n + 1) |-> g[j]]
    OBVIOUS
  <2> HIDE DEF g
  <2>5. SumsTo(g, n + 1, data)
    <3> DEFINE h == [j \in 0..(n + 1) |-> IF j = 0 THEN 0 ELSE (g[j - 1] + data[j]) % 65536]
    <3>1. ASSUME NEW j \in 0..(n + 1) PROVE g[j] = h[j]
      <4>1. CASE j = 0
        BY <2>2, <4>1
      <4>2. CASE j # 0
        <5>1. h[j] = (g[j - 1] + data[j]) % 65536
          BY <4>2
        <5> QED BY <2>3, <4>2, <5>1
      <4> QED BY <4>1, <4>2
    <3>2. h = [j \in 0..(n + 1) |-> h[j]]
      OBVIOUS
    <3> HIDE DEF h
    <3>3. g = h
      BY <2>4, <3>1, <3>2
    <3> QED BY <3>3 DEF SumsTo, h
  <2> QED BY <2>5
<1>3. Nat \subseteq S
  <2> HIDE DEF S
  <2> QED BY <1>1, <1>2, SetInduction
<1> QED BY <1>3

(* The sum is a WORD. *)
LEMMA SumIsWord ==
  ASSUME NEW data \in Seq(Byte)
  PROVE  Sum(data) \in Word
<1>1. Len(data) \in Nat /\ \A j \in 1..Len(data) : data[j] \in Byte
  BY LenProperties, ElementOfSeq
<1> DEFINE f == CHOOSE f : SumsTo(f, Len(data), data)
<1>2. Sum(data) = f[Len(data)]
  BY DEF Sum, SumsTo
<1>3. SumsTo(f, Len(data), data)
  BY <1>1, SumsExist
<1> HIDE DEF f
<1> DEFINE S == {n \in Nat : n \in 0..Len(data) => f[n] \in Word}
<1>4. 0 \in S
  <2>1. 0 \in 0..Len(data)
    BY <1>1
  <2>2. f[0] = 0
    BY <1>3, <2>1 DEF SumsTo
  <2>3. f[0] \in Word
    BY <2>2, WordIs
  <2> QED BY <2>3
<1>5. ASSUME NEW n \in Nat, n \in S PROVE n + 1 \in S
  <2> SUFFICES ASSUME n + 1 \in 0..Len(data) PROVE f[n + 1] \in Word
    OBVIOUS
  <2>1. n \in 0..Len(data) /\ n + 1 \in 1..Len(data) /\ n + 1 # 0 /\ (n + 1) - 1 = n
    BY <1>1
  <2>2. f[n] \in Word /\ data[n + 1] \in Byte
    BY <1>1, <1>5, <2>1
  <2>3. f[n + 1] = (f[n] + data[n + 1]) % 65536
    BY <1>3, <2>1 DEF SumsTo
  <2>4. \A s \in Word, x \in Byte : (s + x) % 65536 \in Word
    BY WordIs
  <2> QED BY <2>2, <2>3, <2>4
<1>6. Nat \subseteq S
  <2> HIDE DEF S
  <2> QED BY <1>4, <1>5, SetInduction
<1>7. Len(data) \in 0..Len(data)
  BY <1>1
<1> QED BY <1>1, <1>2, <1>6, <1>7

-----------------------------------------------------------------------------
(* The bytes of a packet. *)

LEMMA PacketType ==
  ASSUME NEW p \in Packets
  PROVE  /\ p.sCmd \in Word /\ p.strData \in Seq(Byte) /\ Len(p.strData) \in Nat
         /\ p = [sCmd |-> p.sCmd, strData |-> p.strData]
         /\ Len(p.strData) + 10 <= BUFFER_SIZE
         /\ Len(p.strData) + 4 \in Nat /\ Len(p.strData) + 4 < Huge
<1>1. p \in [sCmd : Word, strData : Seq(Byte)] /\ Len(p.strData) + 10 <= BUFFER_SIZE
      /\ BUFFER_SIZE \in Nat /\ BUFFER_SIZE < Huge
  BY StreamAssumption
<1>2. p.strData \in Seq(Byte) /\ p.sCmd \in Word /\ p = [sCmd |-> p.sCmd, strData |-> p.strData]
  BY <1>1
<1>3. Len(p.strData) \in Nat
  BY <1>2, LenProperties
<1>4. Len(p.strData) + 4 \in Nat /\ Len(p.strData) + 4 < Huge
  <2>1. Huge \in Nat
    BY SMT DEF Huge
  <2> QED BY <1>1, <1>3, <2>1
<1> QED BY <1>1, <1>2, <1>3, <1>4

LEMMA WordBytesAre ==
  ASSUME NEW w \in Word
  PROVE  /\ WordBytes(w) \in Seq(Byte) /\ Len(WordBytes(w)) = 2
         /\ WordBytes(w)[1] = w % 256 /\ WordBytes(w)[2] = w \div 256
BY WordDoes DEF WordBytes

LEMMA DWordBytesAre ==
  ASSUME NEW d \in Nat, d < Huge
  PROVE  /\ DWordBytes(d) \in Seq(Byte) /\ Len(DWordBytes(d)) = 4
         /\ DWordBytes(d)[1] = (d % 65536) % 256 /\ DWordBytes(d)[2] = (d % 65536) \div 256
         /\ DWordBytes(d)[3] = (d \div 65536) % 256 /\ DWordBytes(d)[4] = (d \div 65536) \div 256
<1> DEFINE u == WordBytes(d % 65536)
           v == WordBytes(d \div 65536)
<1>1. /\ u \in Seq(Byte) /\ Len(u) = 2 /\ u[1] = (d % 65536) % 256 /\ u[2] = (d % 65536) \div 256
      /\ v \in Seq(Byte) /\ Len(v) = 2 /\ v[1] = (d \div 65536) % 256 /\ v[2] = (d \div 65536) \div 256
  <2>1. d % 65536 \in Word /\ d \div 65536 \in Word
    BY HalvesOf
  <2> QED BY <2>1, WordBytesAre
<1> HIDE DEF u, v
<1>0. u \in Seq(Byte) /\ v \in Seq(Byte)
  BY <1>1
<1>9. Len(u) = 2 /\ Len(v) = 2
  BY <1>1
<1>2. /\ u \o v \in Seq(Byte) /\ Len(u \o v) = 4
      /\ \A j \in 1..2 : (u \o v)[j] = u[j]
      /\ \A j \in 1..2 : (u \o v)[j + 2] = v[j]
  <2>1. u \o v \in Seq(Byte) /\ Len(u \o v) = Len(u) + Len(v)
    BY <1>0, ConcatAt
  <2>2. \A j \in 1..Len(u) : (u \o v)[j] = u[j]
    BY <1>0, ConcatAt
  <2>3. \A j \in 1..Len(v) : (u \o v)[j + Len(u)] = v[j]
    BY <1>0, ConcatAt
  <2> QED BY <1>0, <1>9, <2>1, <2>2, <2>3
<1>3. /\ (u \o v)[1] = u[1] /\ (u \o v)[2] = u[2]
      /\ (u \o v)[1 + 2] = v[1] /\ (u \o v)[2 + 2] = v[2]
  BY <1>2
<1> QED BY <1>1, <1>2, <1>3 DEF DWordBytes, u, v

LEMMA DataBytes ==
  ASSUME NEW p \in Packets
  PROVE  LET n == Len(p.strData)
             d == Data(p)
         IN /\ d \in Seq(Byte) /\ Len(d) = n + 10 /\ n \in Nat
            /\ d[1] = 255 /\ d[2] = 254
            /\ \A j \in 1..4 : d[j + 2] = DWordBytes(n + 4)[j]
            /\ \A j \in 1..2 : d[j + 6] = WordBytes(p.sCmd)[j]
            /\ \A j \in 1..n : d[j + 8] = p.strData[j]
            /\ \A j \in 1..2 : d[j + 8 + n] = WordBytes(Sum(p.strData))[j]
<1> DEFINE n == Len(p.strData)
           e == DWordBytes(n + 4)
           c == WordBytes(p.sCmd)
           x == p.strData
           s == WordBytes(Sum(p.strData))
           a1 == sHead \o e
           a2 == a1 \o c
           a3 == a2 \o x
           a4 == a3 \o s
<1>1. /\ e \in Seq(Byte) /\ Len(e) = 4 /\ c \in Seq(Byte) /\ Len(c) = 2
      /\ x \in Seq(Byte) /\ n \in Nat /\ s \in Seq(Byte) /\ Len(s) = 2 /\ Len(x) = n
  BY PacketType, WordBytesAre, DWordBytesAre, SumIsWord
<1>2. sHead \in Seq(Byte) /\ Len(sHead) = 2 /\ sHead[1] = 255 /\ sHead[2] = 254
  BY WordIs DEF sHead
<1>3. Data(p) = a4
  BY DEF Data
<1> HIDE DEF n, e, c, x, s
<1>4. /\ a1 \in Seq(Byte) /\ Len(a1) = 6 /\ a1[1] = 255 /\ a1[2] = 254
      /\ \A j \in 1..4 : a1[j + 2] = e[j]
  <2>0. sHead \in Seq(Byte) /\ e \in Seq(Byte)
    BY <1>1, <1>2
  <2>1. a1 \in Seq(Byte) /\ Len(a1) = Len(sHead) + Len(e)
    BY <2>0, ConcatAt
  <2>2. \A j \in 1..Len(sHead) : a1[j] = sHead[j]
    BY <2>0, ConcatAt
  <2>3. \A j \in 1..Len(e) : a1[j + Len(sHead)] = e[j]
    BY <2>0, ConcatAt
  <2>4. Len(sHead) \in Nat /\ Len(e) \in Nat
    BY <2>0, LenProperties
  <2> HIDE DEF a1
  <2> QED BY <1>1, <1>2, <2>1, <2>2, <2>3
<1> HIDE DEF a1
<1>5. /\ a2 \in Seq(Byte) /\ Len(a2) = 8
      /\ \A j \in 1..6 : a2[j] = a1[j]
      /\ \A j \in 1..2 : a2[j + 6] = c[j]
  <2>0. a1 \in Seq(Byte) /\ c \in Seq(Byte)
    BY <1>1, <1>4
  <2>1. a2 \in Seq(Byte) /\ Len(a2) = Len(a1) + Len(c)
    BY <2>0, ConcatAt
  <2>2. \A j \in 1..Len(a1) : a2[j] = a1[j]
    BY <2>0, ConcatAt
  <2>3. \A j \in 1..Len(c) : a2[j + Len(a1)] = c[j]
    BY <2>0, ConcatAt
  <2>4. Len(a1) \in Nat /\ Len(c) \in Nat
    BY <2>0, LenProperties
  <2> HIDE DEF a2
  <2> QED BY <1>1, <1>4, <2>1, <2>2, <2>3
<1> HIDE DEF a2
<1>6. /\ a3 \in Seq(Byte) /\ Len(a3) = n + 8
      /\ \A j \in 1..8 : a3[j] = a2[j]
      /\ \A j \in 1..n : a3[j + 8] = x[j]
  <2>0. a2 \in Seq(Byte) /\ x \in Seq(Byte)
    BY <1>1, <1>5
  <2>1. a3 \in Seq(Byte) /\ Len(a3) = Len(a2) + Len(x)
    BY <2>0, ConcatAt
  <2>2. \A j \in 1..Len(a2) : a3[j] = a2[j]
    BY <2>0, ConcatAt
  <2>3. \A j \in 1..Len(x) : a3[j + Len(a2)] = x[j]
    BY <2>0, ConcatAt
  <2>4. Len(a2) \in Nat /\ Len(x) \in Nat
    BY <2>0, LenProperties
  <2> HIDE DEF a3
  <2> QED BY <1>1, <1>5, <2>1, <2>2, <2>3
<1> HIDE DEF a3
<1>7. /\ a4 \in Seq(Byte) /\ Len(a4) = n + 10
      /\ \A j \in 1..(n + 8) : a4[j] = a3[j]
      /\ \A j \in 1..2 : a4[j + 8 + n] = s[j]
  <2>0. a3 \in Seq(Byte) /\ s \in Seq(Byte)
    BY <1>1, <1>6
  <2>1. a4 \in Seq(Byte) /\ Len(a4) = Len(a3) + Len(s)
    BY <2>0, ConcatAt
  <2>2. \A j \in 1..Len(a3) : a4[j] = a3[j]
    BY <2>0, ConcatAt
  <2>3. \A j \in 1..Len(s) : a4[j + Len(a3)] = s[j]
    BY <2>0, ConcatAt
  <2>4. Len(a3) \in Nat /\ Len(s) \in Nat
    BY <2>0, LenProperties
  <2> HIDE DEF a4
  <2> QED BY <1>1, <1>6, <2>1, <2>2, <2>3
<1> HIDE DEF a4
<1>8. a4[1] = 255 /\ a4[2] = 254
  BY <1>1, <1>4, <1>5, <1>6, <1>7
<1>9. \A j \in 1..4 : a4[j + 2] = e[j]
  <2>1. \A j \in 1..4 : j + 2 \in 1..6 /\ j + 2 \in 1..8 /\ j + 2 \in 1..(n + 8)
    BY <1>1
  <2> QED BY <1>4, <1>5, <1>6, <1>7, <2>1
<1>10. \A j \in 1..2 : a4[j + 6] = c[j]
  <2>1. \A j \in 1..2 : j + 6 \in 1..8 /\ j + 6 \in 1..(n + 8)
    BY <1>1
  <2> QED BY <1>5, <1>6, <1>7, <2>1
<1>11. \A j \in 1..n : a4[j + 8] = x[j]
  <2>1. \A j \in 1..n : j + 8 \in 1..(n + 8)
    BY <1>1
  <2> QED BY <1>6, <1>7, <2>1
<1> QED BY <1>1, <1>3, <1>7, <1>8, <1>9, <1>10, <1>11 DEF n, e, c, x, s

-----------------------------------------------------------------------------
(* What the parser makes of a buffer that begins with a packet. *)

Buffers == [1..BUFFER_SIZE -> Byte]

LEMMA SizeType == BUFFER_SIZE \in Nat /\ BUFFER_SIZE >= 1 /\ BUFFER_SIZE < Huge /\ Huge \in Nat
<1>1. Huge \in Nat
  BY SMT DEF Huge
<1> QED BY <1>1, StreamAssumption

LEMMA AtIsByte ==
  ASSUME NEW b \in Buffers, NEW i \in Nat
  PROVE  /\ At(b, i) \in Byte
         /\ i < BUFFER_SIZE => At(b, i) = b[i + 1]
<1>1. CASE i < BUFFER_SIZE
  <2>1. i + 1 \in 1..BUFFER_SIZE
    BY <1>1, SizeType
  <2> QED BY <1>1, <2>1 DEF At, Buffers
<1>2. CASE ~(i < BUFFER_SIZE)
  <2>1. At(b, i) = 0
    BY <1>2 DEF At
  <2> QED BY <1>2, <2>1, WordIs
<1> QED BY <1>1, <1>2

LEMMA WordAtIs ==
  ASSUME NEW b \in Buffers, NEW i \in Nat
  PROVE  /\ WordAt(b, i) \in Word
         /\ \A w \in Word : i + 2 <= BUFFER_SIZE /\ b[i + 1] = w % 256 /\ b[i + 2] = w \div 256
                               => WordAt(b, i) = w
<1>1. At(b, i) \in Byte /\ At(b, i + 1) \in Byte
  BY AtIsByte
<1>2. \A x, y \in Byte : x + 256 * y \in Word
  BY WordIs
<1>3. WordAt(b, i) \in Word
  BY <1>1, <1>2 DEF WordAt
<1>4. ASSUME NEW w \in Word, i + 2 <= BUFFER_SIZE, b[i + 1] = w % 256, b[i + 2] = w \div 256
      PROVE  WordAt(b, i) = w
  <2>1. At(b, i) = b[i + 1]
    BY <1>4, AtIsByte, SizeType
  <2>2. At(b, i + 1) = b[i + 2]
    <3>1. i + 1 \in Nat /\ i + 1 < BUFFER_SIZE /\ (i + 1) + 1 = i + 2
      BY <1>4, SizeType
    <3>2. At(b, i + 1) = b[(i + 1) + 1]
      BY <3>1, AtIsByte
    <3> QED BY <3>1, <3>2
  <2>3. (w % 256) + 256 * (w \div 256) = w
    BY WordDoes
  <2>4. WordAt(b, i) = (w % 256) + 256 * (w \div 256)
    BY <1>4, <2>1, <2>2 DEF WordAt
  <2> QED BY <2>3, <2>4
<1> QED BY <1>3, <1>4

LEMMA DWordAtIs ==
  ASSUME NEW b \in Buffers, NEW i \in Nat
  PROVE  \A d \in Nat : /\ d < Huge /\ i + 4 <= BUFFER_SIZE
                        /\ \A j \in 1..4 : b[i + j] = DWordBytes(d)[j]
                        => DWordAt(b, i) = d
<1> SUFFICES ASSUME NEW d \in Nat, d < Huge, i + 4 <= BUFFER_SIZE,
                    \A j \in 1..4 : b[i + j] = DWordBytes(d)[j]
             PROVE  DWordAt(b, i) = d
  OBVIOUS
<1> DEFINE lo == d % 65536
           hi == d \div 65536
<1>1. lo \in Word /\ hi \in Word /\ hi < 16384 /\ lo + 65536 * hi = d
  BY HalvesOf
<1>2. /\ b[i + 1] = lo % 256 /\ b[i + 2] = lo \div 256
      /\ b[i + 3] = hi % 256 /\ b[i + 4] = hi \div 256
  <2>1. /\ DWordBytes(d)[1] = lo % 256 /\ DWordBytes(d)[2] = lo \div 256
        /\ DWordBytes(d)[3] = hi % 256 /\ DWordBytes(d)[4] = hi \div 256
    BY DWordBytesAre
  <2> HIDE DEF lo, hi
  <2>2. 1 \in 1..4 /\ 2 \in 1..4 /\ 3 \in 1..4 /\ 4 \in 1..4
    OBVIOUS
  <2> QED BY <2>1, <2>2
<1> HIDE DEF lo, hi
<1>3. WordAt(b, i) = lo
  BY <1>1, <1>2, WordAtIs, SizeType
<1>4. WordAt(b, i + 2) = hi
  <2>1. i + 2 \in Nat /\ (i + 2) + 2 <= BUFFER_SIZE /\ (i + 2) + 1 = i + 3 /\ (i + 2) + 2 = i + 4
    BY SizeType
  <2>2. b[(i + 2) + 1] = hi % 256 /\ b[(i + 2) + 2] = hi \div 256
    BY <1>2, <2>1
  <2> QED BY <1>1, <2>1, <2>2, WordAtIs
<1> QED BY <1>1, <1>3, <1>4 DEF DWordAt

LEMMA LeastOf ==
  ASSUME NEW T, T \subseteq Nat, T # {}
  PROVE  \E x \in T : \A y \in T : x <= y
<1>1. \A x, y \in Nat : y < x => <<y, x>> \in OpToRel(<, Nat)
  BY DEF OpToRel
<1>2. PICK x \in T : \A y \in T : ~(<<y, x>> \in OpToRel(<, Nat))
  BY WFMin, NatLessThanWellFounded
<1>3. ASSUME NEW y \in T PROVE x <= y
  <2>1. ~(y < x)
    BY <1>1, <1>2
  <2> QED BY <2>1
<1> QED BY <1>3

(* The search for a head ends at a natural number: behind the first one. *)
LEMMA AfterHeadIs ==
  ASSUME NEW b \in Buffers, NEW n \in Nat
  PROVE  /\ AfterHead(b, n) \in Nat
         /\ n >= 2 /\ n <= BUFFER_SIZE /\ b[1] = 255 /\ b[2] = 254 => AfterHead(b, n) = 2
<1> DEFINE heads == {i \in 0..(n - 1) : WordAt(b, i) = 65279}
           first == CHOOSE i \in heads : \A k \in heads : i <= k
<1>1. AfterHead(b, n) = IF heads = {} THEN n ELSE 2 + first
  BY DEF AfterHead
<1>2. heads \subseteq Nat
  OBVIOUS
<1>3. heads # {} => first \in heads /\ \A k \in heads : first <= k
  <2> HIDE DEF heads
  <2> SUFFICES ASSUME heads # {} PROVE first \in heads /\ \A k \in heads : first <= k
    OBVIOUS
  <2>1. \E x \in heads : \A y \in heads : x <= y
    BY <1>2, LeastOf
  <2> QED BY <2>1
<1>4. n >= 2 /\ b[1] = 255 /\ b[2] = 254 /\ 2 <= BUFFER_SIZE => 0 \in heads
  <2> SUFFICES ASSUME n >= 2, b[1] = 255, b[2] = 254, 2 <= BUFFER_SIZE PROVE 0 \in heads
    OBVIOUS
  <2>1. 65279 \in Word /\ 65279 % 256 = 255 /\ 65279 \div 256 = 254
    BY WordIs
  <2>2. b[0 + 1] = 65279 % 256 /\ b[0 + 2] = 65279 \div 256 /\ 0 + 2 <= BUFFER_SIZE
    BY <2>1
  <2>3. WordAt(b, 0) = 65279
    BY <2>1, <2>2, WordAtIs
  <2> QED BY <2>3
<1> HIDE DEF heads, first
<1>5. AfterHead(b, n) \in Nat
  <2>1. CASE heads = {}
    BY <1>1, <2>1
  <2>2. CASE heads # {}
    <3>1. first \in Nat
      BY <1>2, <1>3, <2>2
    <3>2. AfterHead(b, n) = 2 + first
      BY <1>1, <2>2
    <3> QED BY <3>1, <3>2
  <2> QED BY <2>1, <2>2
<1>6. ASSUME n >= 2, n <= BUFFER_SIZE, b[1] = 255, b[2] = 254 PROVE AfterHead(b, n) = 2
  <2>1. 0 \in heads
    BY <1>4, <1>6, SizeType
  <2>2. first \in Nat /\ first <= 0
    BY <1>2, <1>3, <2>1
  <2>3. first = 0
    BY <2>2
  <2> QED BY <1>1, <2>1, <2>3
<1> QED BY <1>5, <1>6

LEMMA DWordAtIsNat ==
  ASSUME NEW b \in Buffers, NEW i \in Nat
  PROVE  DWordAt(b, i) \in Nat
<1>1. WordAt(b, i) \in Word /\ WordAt(b, i + 2) \in Word
  <2>1. i + 2 \in Nat
    OBVIOUS
  <2> QED BY <2>1, WordAtIs
<1>2. \A x, y \in Word : x + 65536 * y \in Nat
  <2>1. \A x, y \in Nat : x + 65536 * y \in Nat
    BY SMT
  <2>2. Word \subseteq Nat
    BY WordIs
  <2> QED BY <2>1, <2>2
<1> QED BY <1>1, <1>2, SizeType DEF DWordAt

(* Whatever is in the buffer, the parser takes no more than has been        *)
(* received, and makes a packet of WORDs and bytes.                         *)
LEMMA CPacketType ==
  ASSUME NEW b \in Buffers, NEW i \in Nat, NEW n \in Nat
  PROVE  /\ CPacket(b, i, n).nSize \in 0..n
         /\ CPacket(b, i, n).pack \in [sCmd : Word, strData : Seq(Byte)]
         /\ i + 8 > n => CPacket(b, i, n).nSize = 0
<1> DEFINE size == IF DWordAt(b, i) > 4 THEN DWordAt(b, i) - 4 ELSE 0
           data == [k \in 1..size |-> At(b, i + 5 + k)]
           good == Whole(b, i, n) /\ Sum(data) = WordAt(b, i + 6 + size)
<1>1. DWordAt(b, i) \in Nat
  BY DWordAtIsNat
<1>2. size \in Nat /\ (size = 0 \/ i + 8 + size = i + 4 + DWordAt(b, i))
  BY <1>1
<1>3. data \in Seq(Byte)
  <2>1. \A k \in 1..size : At(b, i + 5 + k) \in Byte
    <3> SUFFICES ASSUME NEW k \in 1..size PROVE At(b, i + 5 + k) \in Byte
      OBVIOUS
    <3>1. i + 5 + k \in Nat
      BY <1>2
    <3> QED BY <3>1, AtIsByte
  <2> HIDE DEF size
  <2> QED BY <1>2, <2>1
<1>4. CPacket(b, i, n) = IF good
        THEN [nSize |-> i + 8 + size, pack |-> [sCmd |-> WordAt(b, i + 4), strData |-> data]]
        ELSE [nSize |-> 0, pack |-> [sCmd |-> 0, strData |-> <<>>]]
  BY DEF CPacket
<1>5. good => i + 8 <= n /\ i + 4 + DWordAt(b, i) <= n
  BY DEF Whole
<1>6. WordAt(b, i + 4) \in Word /\ 0 \in Word /\ <<>> \in Seq(Byte)
  <2>1. i + 4 \in Nat
    OBVIOUS
  <2>2. 0 \in Word
    BY WordIs
  <2>3. <<>> \in Seq(Byte)
    OBVIOUS
  <2>4. WordAt(b, i + 4) \in Word
    BY <2>1, WordAtIs
  <2> QED BY <2>2, <2>3, <2>4
<1> HIDE DEF size, data, good
<1>7. CASE good
  <2>1. i + 8 + size \in 0..n
    BY <1>1, <1>2, <1>5, <1>7
  <2> QED BY <1>3, <1>4, <1>5, <1>6, <1>7, <2>1
<1>8. CASE ~good
  BY <1>4, <1>6, <1>8
<1> QED BY <1>7, <1>8

(* The parser finds a packet at the beginning of the buffer when all of it  *)
(* is there, and exactly that packet, and none before, whatever is behind   *)
(* what has been received.                                                  *)
THEOREM ParsesPacket ==
  ASSUME NEW p \in Packets, NEW b \in Buffers, NEW n \in 0..BUFFER_SIZE,
         \A j \in 1..Len(Data(p)) : j <= n => b[j] = Data(p)[j]
  PROVE  /\ n < Len(Data(p)) => CPacket(b, AfterHead(b, n), n).nSize = 0
         /\ n >= Len(Data(p)) => CPacket(b, AfterHead(b, n), n) =
                                   [nSize |-> Len(Data(p)), pack |-> p]
<1> DEFINE len == Len(p.strData)
           x == p.strData
           d == Data(p)
           got == CPacket(b, AfterHead(b, n), n)
<1>1. /\ d \in Seq(Byte) /\ Len(d) = len + 10 /\ len \in Nat
      /\ d[1] = 255 /\ d[2] = 254
      /\ \A j \in 1..4 : d[j + 2] = DWordBytes(len + 4)[j]
      /\ \A j \in 1..2 : d[j + 6] = WordBytes(p.sCmd)[j]
      /\ \A j \in 1..len : d[j + 8] = x[j]
      /\ \A j \in 1..2 : d[j + 8 + len] = WordBytes(Sum(x))[j]
  BY DataBytes
<1>2. n \in Nat /\ n <= BUFFER_SIZE /\ AfterHead(b, n) \in Nat
  <2>1. n \in Nat /\ n <= BUFFER_SIZE
    BY SizeType
  <2> QED BY <2>1, AfterHeadIs
<1>3. \A j \in 1..(len + 10) : j <= n => b[j] = d[j]
  BY <1>1
<1> HIDE DEF len, d
<1>4. CASE n < 2
  <2>1. AfterHead(b, n) + 8 > n
    BY <1>2, <1>4
  <2>2. got.nSize = 0
    BY <1>2, <2>1, CPacketType
  <2>3. n < len + 10
    BY <1>1, <1>2, <1>4
  <2> QED BY <1>1, <1>2, <2>2, <2>3 DEF d
<1>5. CASE n >= 2
  <2>1. b[1] = 255 /\ b[2] = 254
    <3>1. 1 \in 1..(len + 10) /\ 2 \in 1..(len + 10) /\ 1 <= n /\ 2 <= n
      BY <1>1, <1>2, <1>5
    <3> QED BY <1>1, <1>3, <3>1
  <2>2. AfterHead(b, n) = 2
    <3>1. n >= 2 /\ n <= BUFFER_SIZE /\ b[1] = 255 /\ b[2] = 254 => AfterHead(b, n) = 2
      BY <1>2, AfterHeadIs, SMTT(30)
    <3> QED BY <1>2, <1>5, <2>1, <3>1
  <2>3. got = CPacket(b, 2, n)
    BY <2>2
  <2>4. len + 4 \in Nat /\ len + 4 < Huge /\ len + 10 <= BUFFER_SIZE
    BY PacketType DEF len
  <2>5. CASE n < 10
    <3>1. CPacket(b, 2, n).nSize = 0
      <4>1. 2 \in Nat /\ 2 + 8 > n
        BY <2>5
      <4> QED BY <1>2, <4>1, CPacketType
    <3> QED BY <1>1, <1>2, <2>3, <2>5, <3>1 DEF d
  <2>6. CASE n >= 10
    <3>1. DWordAt(b, 2) = len + 4
      <4>1. ASSUME NEW j \in 1..4 PROVE b[2 + j] = DWordBytes(len + 4)[j]
        <5>1. j + 2 \in 1..(len + 10) /\ j + 2 <= n /\ 2 + j = j + 2
          BY <1>1, <1>2, <2>6
        <5>2. b[j + 2] = d[j + 2]
          BY <1>3, <5>1
        <5>3. d[j + 2] = DWordBytes(len + 4)[j]
          BY <1>1
        <5> QED BY <5>1, <5>2, <5>3
      <4>2. 2 + 4 <= BUFFER_SIZE /\ 2 \in Nat
        BY <1>1, <2>4, SizeType
      <4> QED BY <2>4, <4>1, <4>2, DWordAtIs
    <3> DEFINE data == [k \in 1..len |-> At(b, 2 + 5 + k)]
               good == Whole(b, 2, n) /\ Sum(data) = WordAt(b, 2 + 6 + len)
    <3>2. CPacket(b, 2, n) = IF good
            THEN [nSize |-> 2 + 8 + len, pack |-> [sCmd |-> WordAt(b, 2 + 4), strData |-> data]]
            ELSE [nSize |-> 0, pack |-> [sCmd |-> 0, strData |-> <<>>]]
      <4>1. (IF DWordAt(b, 2) > 4 THEN DWordAt(b, 2) - 4 ELSE 0) = len
        BY <1>1, <3>1
      <4> QED BY <4>1 DEF CPacket
    <3>3. Whole(b, 2, n) <=> len + 10 <= n
      <4>1. Whole(b, 2, n) <=> (2 + 8 <= n /\ 2 + 4 + (len + 4) <= n)
        BY <3>1 DEF Whole
      <4> QED BY <1>1, <1>2, <4>1
    <3>4. CASE n < len + 10
      <4>1. ~good
        BY <1>1, <1>2, <3>3, <3>4
      <4> HIDE DEF good
      <4>2. CPacket(b, 2, n).nSize = 0
        BY <3>2, <4>1
      <4> QED BY <1>1, <1>2, <2>3, <3>4, <4>2 DEF d
    <3>5. CASE n >= len + 10
      <4>1. data = x
        <5>1. ASSUME NEW k \in 1..len PROVE At(b, 2 + 5 + k) = x[k]
          <6>1. 2 + 5 + k \in Nat /\ 2 + 5 + k < BUFFER_SIZE /\ 2 + 5 + k + 1 = k + 8
            BY <1>1, <2>4, SizeType
          <6>2. At(b, 2 + 5 + k) = b[k + 8]
            BY <6>1, AtIsByte
          <6>3. k + 8 \in 1..(len + 10) /\ k + 8 <= n
            BY <1>1, <1>2, <3>5
          <6> QED BY <1>1, <1>3, <6>2, <6>3
        <5>2. x = [k \in 1..len |-> x[k]]
          <6>1. x \in Seq(Byte)
            BY PacketType
          <6> QED BY <6>1 DEF len
        <5> QED BY <5>1, <5>2
      <4>2. WordAt(b, 2 + 6 + len) = Sum(x)
        <5>1. Sum(x) \in Word
          BY PacketType, SumIsWord
        <5>2. /\ 1 + 8 + len \in 1..(len + 10) /\ 1 + 8 + len <= n
              /\ 2 + 8 + len \in 1..(len + 10) /\ 2 + 8 + len <= n
              /\ 2 + 6 + len + 1 = 1 + 8 + len /\ 2 + 6 + len + 2 = 2 + 8 + len
              /\ 2 + 6 + len \in Nat /\ 2 + 6 + len + 2 <= BUFFER_SIZE
          BY <1>1, <1>2, <2>4, <3>5, SizeType
        <5>3. b[2 + 6 + len + 1] = WordBytes(Sum(x))[1] /\ b[2 + 6 + len + 2] = WordBytes(Sum(x))[2]
          <6>1. 1 \in 1..2 /\ 2 \in 1..2
            OBVIOUS
          <6>2. d[1 + 8 + len] = WordBytes(Sum(x))[1] /\ d[2 + 8 + len] = WordBytes(Sum(x))[2]
            BY <1>1, <6>1
          <6> QED BY <1>3, <5>2, <6>2
        <5>4. WordBytes(Sum(x))[1] = Sum(x) % 256 /\ WordBytes(Sum(x))[2] = Sum(x) \div 256
          BY <5>1, WordBytesAre
        <5> QED BY <5>1, <5>2, <5>3, <5>4, WordAtIs
      <4>3. WordAt(b, 2 + 4) = p.sCmd
        <5>1. p.sCmd \in Word
          BY PacketType
        <5>2. 7 \in 1..(len + 10) /\ 7 <= n /\ 8 \in 1..(len + 10) /\ 8 <= n
          BY <1>1, <1>2, <3>5
        <5>3. b[7] = WordBytes(p.sCmd)[1] /\ b[8] = WordBytes(p.sCmd)[2]
          <6>1. 1 \in 1..2 /\ 2 \in 1..2
            OBVIOUS
          <6>2. d[1 + 6] = WordBytes(p.sCmd)[1] /\ d[2 + 6] = WordBytes(p.sCmd)[2]
            BY <1>1, <6>1
          <6> QED BY <1>3, <5>2, <6>2
        <5>4. WordBytes(p.sCmd)[1] = p.sCmd % 256 /\ WordBytes(p.sCmd)[2] = p.sCmd \div 256
          BY <5>1, WordBytesAre
        <5>5. 2 + 4 \in Nat /\ (2 + 4) + 2 <= BUFFER_SIZE /\ (2 + 4) + 1 = 7 /\ (2 + 4) + 2 = 8
          BY <1>1, <2>4, SizeType
        <5>6. b[(2 + 4) + 1] = p.sCmd % 256 /\ b[(2 + 4) + 2] = p.sCmd \div 256
          BY <5>3, <5>4, <5>5
        <5> QED BY <5>1, <5>5, <5>6, WordAtIs
      <4>4. good
        <5>1. Whole(b, 2, n)
          BY <3>3, <3>5
        <5> HIDE DEF data
        <5> QED BY <4>1, <4>2, <5>1
      <4> HIDE DEF good, data
      <4>5. got = [nSize |-> 2 + 8 + len, pack |-> [sCmd |-> p.sCmd, strData |-> x]]
        BY <2>3, <3>2, <4>1, <4>3, <4>4
      <4>6. 2 + 8 + len = Len(Data(p)) /\ p = [sCmd |-> p.sCmd, strData |-> x]
        BY <1>1, PacketType DEF d
      <4>7. ~(n < Len(Data(p)))
        BY <1>1, <1>2, <3>5 DEF d
      <4> QED BY <4>5, <4>6, <4>7
    <3> QED BY <1>1, <1>2, <3>4, <3>5
  <2> QED BY <1>2, <2>5, <2>6
<1> QED BY <1>2, <1>4, <1>5

-----------------------------------------------------------------------------
(* Pieces of a sequence of bytes. *)

LEMMA PieceAt ==
  ASSUME NEW s \in Seq(Byte), NEW m \in Nat, NEW n \in Nat, 1 <= m, n <= Len(s), m <= n + 1
  PROVE  /\ SubSeq(s, m, n) \in Seq(Byte) /\ Len(SubSeq(s, m, n)) = n - m + 1
         /\ \A j \in 1..(n - m + 1) : SubSeq(s, m, n)[j] = s[m + j - 1]
OBVIOUS

LEMMA BufferIsSeq ==
  ASSUME NEW b
  PROVE  b \in Buffers <=> b \in Seq(Byte) /\ Len(b) = BUFFER_SIZE
<1>1. b \in Buffers => b \in Seq(Byte) /\ Len(b) = BUFFER_SIZE
  BY SizeType DEF Buffers
<1>2. b \in Seq(Byte) /\ Len(b) = BUFFER_SIZE => b \in Buffers
  BY SizeType DEF Buffers
<1> QED BY <1>1, <1>2

(* memmove leaves a buffer, and moves what it is asked to. *)
LEMMA MoveDownIs ==
  ASSUME NEW b \in Buffers, NEW size \in Nat, NEW rest \in Nat, size + rest <= BUFFER_SIZE
  PROVE  /\ MoveDown(b, size, rest) \in Buffers
         /\ \A j \in 1..rest : MoveDown(b, size, rest)[j] = b[size + j]
<1> DEFINE s == SubSeq(b, size + 1, size + rest)
           t == SubSeq(b, rest + 1, BUFFER_SIZE)
<1>1. b \in Seq(Byte) /\ Len(b) = BUFFER_SIZE
  BY BufferIsSeq
<1>2. /\ s \in Seq(Byte) /\ Len(s) = rest
      /\ \A j \in 1..rest : s[j] = b[size + j]
  <2>1. /\ size + 1 \in Nat /\ size + rest \in Nat /\ 1 <= size + 1 /\ size + rest <= Len(b)
        /\ size + 1 <= (size + rest) + 1 /\ (size + rest) - (size + 1) + 1 = rest
    BY <1>1
  <2>2. /\ s \in Seq(Byte) /\ Len(s) = (size + rest) - (size + 1) + 1
        /\ \A j \in 1..((size + rest) - (size + 1) + 1) : s[j] = b[size + 1 + j - 1]
    BY <1>1, <2>1, PieceAt
  <2>3. \A j \in 1..rest : size + 1 + j - 1 = size + j
    OBVIOUS
  <2> HIDE DEF s
  <2> QED BY <2>1, <2>2, <2>3
<1>3. t \in Seq(Byte) /\ Len(t) = BUFFER_SIZE - rest
  <2>1. /\ rest + 1 \in Nat /\ BUFFER_SIZE \in Nat /\ 1 <= rest + 1 /\ BUFFER_SIZE <= Len(b)
        /\ rest + 1 <= BUFFER_SIZE + 1 /\ BUFFER_SIZE - (rest + 1) + 1 = BUFFER_SIZE - rest
    BY <1>1, SizeType
  <2>2. t \in Seq(Byte) /\ Len(t) = BUFFER_SIZE - (rest + 1) + 1
    BY <1>1, <2>1, PieceAt
  <2> QED BY <2>1, <2>2
<1>4. MoveDown(b, size, rest) = s \o t
  BY DEF MoveDown
<1> HIDE DEF s, t
<1>5. s \o t \in Seq(Byte) /\ Len(s \o t) = Len(s) + Len(t)
  BY <1>2, <1>3, ConcatAt
<1>6. \A j \in 1..Len(s) : (s \o t)[j] = s[j]
  BY <1>2, <1>3, ConcatAt
<1>7. Len(s \o t) = BUFFER_SIZE
  BY <1>2, <1>3, <1>5, SizeType
<1>8. s \o t \in Buffers
  BY <1>5, <1>7, BufferIsSeq
<1>9. \A j \in 1..rest : (s \o t)[j] = b[size + j]
  BY <1>2, <1>6
<1> QED BY <1>4, <1>8, <1>9

(* recv() writes behind what the buffer has. *)
Received(b, i, f, n) ==
    SubSeq(b, 1, i) \o SubSeq(f, 1, n) \o SubSeq(b, i + n + 1, BUFFER_SIZE)

LEMMA ReceivedIs ==
  ASSUME NEW b \in Buffers, NEW i \in Nat, NEW f \in Seq(Byte), NEW n \in Nat,
         n <= Len(f), i + n <= BUFFER_SIZE
  PROVE  /\ Received(b, i, f, n) \in Buffers
         /\ \A j \in 1..i : Received(b, i, f, n)[j] = b[j]
         /\ \A j \in 1..n : Received(b, i, f, n)[i + j] = f[j]
<1> DEFINE s == SubSeq(b, 1, i)
           t == SubSeq(f, 1, n)
           u == SubSeq(b, i + n + 1, BUFFER_SIZE)
           v == s \o t
<1>1. b \in Seq(Byte) /\ Len(b) = BUFFER_SIZE
  BY BufferIsSeq
<1>2. /\ s \in Seq(Byte) /\ Len(s) = i
      /\ \A j \in 1..i : s[j] = b[j]
  <2>1. 1 \in Nat /\ i <= Len(b) /\ 1 <= i + 1 /\ i - 1 + 1 = i /\ 1 <= 1
    BY <1>1, SizeType
  <2>2. /\ s \in Seq(Byte) /\ Len(s) = i - 1 + 1
        /\ \A j \in 1..(i - 1 + 1) : s[j] = b[1 + j - 1]
    BY <1>1, <2>1, PieceAt
  <2>3. \A j \in 1..i : 1 + j - 1 = j
    OBVIOUS
  <2> HIDE DEF s
  <2> QED BY <2>1, <2>2, <2>3
<1>3. /\ t \in Seq(Byte) /\ Len(t) = n
      /\ \A j \in 1..n : t[j] = f[j]
  <2>1. 1 \in Nat /\ 1 <= n + 1 /\ n - 1 + 1 = n /\ 1 <= 1
    OBVIOUS
  <2>2. /\ t \in Seq(Byte) /\ Len(t) = n - 1 + 1
        /\ \A j \in 1..(n - 1 + 1) : t[j] = f[1 + j - 1]
    BY <2>1, PieceAt
  <2>3. \A j \in 1..n : 1 + j - 1 = j
    OBVIOUS
  <2> HIDE DEF t
  <2> QED BY <2>1, <2>2, <2>3
<1>4. u \in Seq(Byte) /\ Len(u) = BUFFER_SIZE - (i + n)
  <2>1. /\ i + n + 1 \in Nat /\ BUFFER_SIZE \in Nat /\ 1 <= i + n + 1 /\ BUFFER_SIZE <= Len(b)
        /\ i + n + 1 <= BUFFER_SIZE + 1
        /\ BUFFER_SIZE - (i + n + 1) + 1 = BUFFER_SIZE - (i + n)
    BY <1>1, SizeType
  <2>2. u \in Seq(Byte) /\ Len(u) = BUFFER_SIZE - (i + n + 1) + 1
    BY <1>1, <2>1, PieceAt
  <2> QED BY <2>1, <2>2
<1>5. Received(b, i, f, n) = v \o u
  BY DEF Received
<1> HIDE DEF s, t, u
<1>6. v \in Seq(Byte) /\ Len(v) = Len(s) + Len(t)
  BY <1>2, <1>3, ConcatAt
<1>7. \A j \in 1..Len(s) : v[j] = s[j]
  BY <1>2, <1>3, ConcatAt
<1>8. \A j \in 1..Len(t) : v[j + Len(s)] = t[j]
  BY <1>2, <1>3, ConcatAt
<1> HIDE DEF v
<1>9. v \o u \in Seq(Byte) /\ Len(v \o u) = Len(v) + Len(u)
  BY <1>4, <1>6, ConcatAt
<1>10. \A j \in 1..Len(v) : (v \o u)[j] = v[j]
  BY <1>4, <1>6, ConcatAt
<1>11. Len(v \o u) = BUFFER_SIZE
  BY <1>2, <1>3, <1>4, <1>6, <1>9, SizeType
<1>12. v \o u \in Buffers
  BY <1>9, <1>11, BufferIsSeq
<1>13. \A j \in 1..i : (v \o u)[j] = b[j]
  <2> TAKE j \in 1..i
  <2>1. j \in 1..Len(v) /\ j \in 1..Len(s)
    BY <1>2, <1>3, <1>6
  <2> QED BY <1>2, <1>7, <1>10, <2>1
<1>14. \A j \in 1..n : (v \o u)[i + j] = f[j]
  <2> TAKE j \in 1..n
  <2>1. i + j \in 1..Len(v) /\ j \in 1..Len(t) /\ j + Len(s) = i + j
    BY <1>2, <1>3, <1>6
  <2>2. v[i + j] = t[j]
    BY <1>8, <2>1
  <2> QED BY <1>3, <1>10, <2>1, <2>2
<1> QED BY <1>5, <1>12, <1>13, <1>14

-----------------------------------------------------------------------------
(* The stream as it lies between the sender and the loop.  plan is what the *)
(* sender has put into it, with the packet that was cut off; off[k] bytes   *)
(* of what the loop still has before it come before the k-th packet of plan *)
(* (less than 0 for packets that have been taken out).                      *)

Laid(plan, off) ==
    /\ plan \in Seq(Packets) /\ off \in [Nat -> Int]
    /\ \A k \in 1..Len(plan) : off[k + 1] = off[k] + Len(Data(plan[k]))

LEMMA DataLen ==
  ASSUME NEW p \in Packets
  PROVE  /\ Data(p) \in Seq(Byte) /\ Len(Data(p)) \in Nat /\ Len(Data(p)) >= 10
         /\ Len(Data(p)) <= BUFFER_SIZE
<1>1. /\ Data(p) \in Seq(Byte) /\ Len(Data(p)) = Len(p.strData) + 10 /\ Len(p.strData) \in Nat
  BY DataBytes
<1>2. Len(p.strData) + 10 <= BUFFER_SIZE
  BY PacketType
<1> QED BY <1>1, <1>2

LEMMA LaidIn ==
  ASSUME NEW plan, NEW off, Laid(plan, off)
  PROVE  /\ Len(plan) \in Nat
         /\ \A k \in 1..Len(plan) : plan[k] \in Packets
         /\ \A k \in Nat : off[k] \in Int
         /\ \A k \in 1..(Len(plan) + 1), l \in 1..(Len(plan) + 1) : k <= l => off[k] <= off[l]
         /\ \A k \in 1..(Len(plan) + 1), l \in 1..(Len(plan) + 1) : k < l => off[k] < off[l]
<1>1. Len(plan) \in Nat /\ \A k \in 1..Len(plan) : plan[k] \in Packets
  <2>1. plan \in Seq(Packets)
    BY DEF Laid
  <2> QED BY <2>1
<1>2. \A k \in Nat : off[k] \in Int
  BY DEF Laid
<1> DEFINE S == {n \in Nat : \A k \in 1..(Len(plan) + 1) :
                   k + n \in 1..(Len(plan) + 1) =>
                       off[k] <= off[k + n] /\ (n > 0 => off[k] < off[k + n])}
<1>3. 0 \in S
  <2> SUFFICES ASSUME NEW k \in 1..(Len(plan) + 1), k + 0 \in 1..(Len(plan) + 1)
               PROVE  off[k] <= off[k + 0] /\ (0 > 0 => off[k] < off[k + 0])
    OBVIOUS
  <2>1. k + 0 = k /\ k \in Nat
    BY <1>1
  <2>2. off[k] \in Int
    BY <1>2, <2>1
  <2> QED BY <2>1, <2>2
<1>4. ASSUME NEW n \in Nat, n \in S PROVE n + 1 \in S
  <2> SUFFICES ASSUME NEW k \in 1..(Len(plan) + 1), k + (n + 1) \in 1..(Len(plan) + 1)
               PROVE  off[k] <= off[k + (n + 1)] /\ (n + 1 > 0 => off[k] < off[k + (n + 1)])
    OBVIOUS
  <2>1. k + n \in 1..Len(plan) /\ k + n \in 1..(Len(plan) + 1) /\ (k + n) + 1 = k + (n + 1)
        /\ k + n \in Nat /\ k \in Nat /\ k + (n + 1) \in Nat
    BY <1>1
  <2>2. off[k] <= off[k + n]
    BY <1>4, <2>1
  <2>3. off[(k + n) + 1] = off[k + n] + Len(Data(plan[k + n]))
    BY <2>1 DEF Laid
  <2>4. Len(Data(plan[k + n])) \in Nat /\ Len(Data(plan[k + n])) >= 10
    BY <1>1, <2>1, DataLen
  <2>5. off[k] \in Int /\ off[k + n] \in Int /\ off[k + (n + 1)] \in Int
    BY <1>2, <2>1
  <2> QED BY <2>1, <2>2, <2>3, <2>4, <2>5
<1>5. Nat \subseteq S
  <2> HIDE DEF S
  <2> QED BY <1>3, <1>4, SetInduction
<1>6. ASSUME NEW k \in 1..(Len(plan) + 1), NEW l \in 1..(Len(plan) + 1), k <= l
      PROVE  off[k] <= off[l] /\ (k < l => off[k] < off[l])
  <2>1. l - k \in Nat /\ k + (l - k) = l /\ (k < l <=> l - k > 0)
    BY <1>1, <1>6
  <2>2. l - k \in S
    BY <1>5, <2>1
  <2> QED BY <1>6, <2>1, <2>2
<1>7. \A k \in 1..(Len(plan) + 1), l \in 1..(Len(plan) + 1) : k <= l => off[k] <= off[l]
  BY <1>6
<1>8. \A k \in 1..(Len(plan) + 1), l \in 1..(Len(plan) + 1) : k < l => off[k] < off[l]
  <2> TAKE k \in 1..(Len(plan) + 1), l \in 1..(Len(plan) + 1)
  <2> HAVE k < l
  <2>1. k <= l
    BY <1>1
  <2> QED BY <1>6, <2>1
<1> QED BY <1>1, <1>2, <1>7, <1>8

(* The bytes the loop has before it, in its buffer b up to i and then on    *)
(* their way in f, are those of the packets from the (d + 1)-th on.         *)
Holds(plan, off, d, b, i, f) ==
    \A k \in (d + 1)..Len(plan) : \A j \in 1..Len(Data(plan[k])) :
        /\ off[k] + j <= i => b[off[k] + j] = Data(plan[k])[j]
        /\ off[k] + j > i /\ off[k] + j <= i + Len(f) => f[(off[k] + j) - i] = Data(plan[k])[j]

(* del is what the loop has delivered, snt what has been sent as a whole.   *)
Told(plan, off, del, snt, sndr) ==
    /\ del \in Seq([sCmd : Word, strData : Seq(Byte)]) /\ snt \in Seq(Packets)
    /\ Len(del) <= Len(snt) /\ \A k \in 1..Len(del) : del[k] = snt[k]
    /\ off[Len(del) + 1] = 0
    /\ sndr # "cut" => plan = snt
    /\ sndr = "cut" => Len(plan) = Len(snt) + 1 /\ \A k \in 1..Len(snt) : plan[k] = snt[k]

(* How much of the stream is there: all that has been sent, unless the      *)
(* sender was cut off or the connection broke.                              *)
Long(plan, off, snt, sndr, brk, i, f) ==
    /\ f \in Seq(Byte)
    /\ i + Len(f) <= off[Len(plan) + 1]
    /\ sndr = "cut" => i + Len(f) < off[Len(plan) + 1]
    /\ brk = "no" /\ sndr # "cut" => i + Len(f) = off[Len(plan) + 1]
    /\ brk = "no" /\ sndr = "cut" => i + Len(f) >= off[Len(snt) + 1]
    /\ brk = "yes" => f = <<>>

-----------------------------------------------------------------------------
(* What the sender, the network and recv() do to the stream. *)

(* The sender puts e bytes of the packet p into it, behind all the others:  *)
(* what was f becomes g.                                                    *)
Puts(plan, off, d, b, i, f, p, e, g) ==
    /\ Laid(plan, off) /\ Holds(plan, off, d, b, i, f) /\ f \in Seq(Byte) /\ p \in Packets
    /\ e \in 0..Len(Data(p)) /\ g \in Seq(Byte) /\ Len(g) = Len(f) + e
    /\ \A j \in 1..Len(f) : g[j] = f[j]
    /\ \A j \in 1..e : g[Len(f) + j] = Data(p)[j]
    /\ i + Len(f) <= off[Len(plan) + 1]
    /\ e = 0 \/ i + Len(f) = off[Len(plan) + 1]

(* It has put p behind the packets of plan. *)
Put(plan, off, d, b, i, p, g) ==
    \E more :
        /\ Laid(Append(plan, p), more) /\ Holds(Append(plan, p), more, d, b, i, g)
        /\ \A k \in 1..(Len(plan) + 1) : more[k] = off[k]
        /\ more[Len(plan) + 2] = off[Len(plan) + 1] + Len(Data(p))

LEMMA PutsIt ==
  ASSUME NEW plan, NEW off, NEW d \in Nat, NEW b, NEW i \in Nat, NEW f, NEW p, NEW e, NEW g,
         Puts(plan, off, d, b, i, f, p, e, g)
  PROVE  Put(plan, off, d, b, i, p, g)
<1>a. /\ Laid(plan, off) /\ Holds(plan, off, d, b, i, f) /\ f \in Seq(Byte) /\ p \in Packets
      /\ e \in 0..Len(Data(p)) /\ g \in Seq(Byte) /\ Len(g) = Len(f) + e
      /\ \A j \in 1..Len(f) : g[j] = f[j]
      /\ \A j \in 1..e : g[Len(f) + j] = Data(p)[j]
      /\ i + Len(f) <= off[Len(plan) + 1]
      /\ (e = 0 \/ i + Len(f) = off[Len(plan) + 1])
  BY DEF Puts
<1> DEFINE more == [off EXCEPT ![Len(plan) + 2] = off[Len(plan) + 1] + Len(Data(p))]
<1> DEFINE N == Len(plan)
           both == Append(plan, p)
<1>1. /\ N \in Nat /\ \A k \in 1..N : plan[k] \in Packets
      /\ \A k \in Nat : off[k] \in Int
  BY <1>a, LaidIn
<1>2. Len(Data(p)) \in Nat /\ Len(f) \in Nat /\ e \in Nat /\ e <= Len(Data(p))
  <2>1. Len(Data(p)) \in Nat /\ Len(f) \in Nat
    BY <1>a, DataLen, LenProperties
  <2> QED BY <1>a, <2>1
<1>3. /\ both \in Seq(Packets) /\ Len(both) = N + 1 /\ both[N + 1] = p
      /\ \A k \in 1..N : both[k] = plan[k]
  <2>1. plan \in Seq(Packets)
    BY <1>a DEF Laid
  <2> QED BY <1>a, <2>1
<1>4. \A k \in 1..N, l \in 1..(N + 1) : k + 1 <= l => off[k + 1] <= off[l]
  <2> TAKE k \in 1..N, l \in 1..(N + 1)
  <2>1. k + 1 \in 1..(N + 1)
    BY <1>1
  <2> QED BY <1>a, <2>1, LaidIn
<1>5. off \in [Nat -> Int]
  BY <1>a DEF Laid
<1> HIDE DEF both
<1>6. /\ more \in [Nat -> Int]
      /\ \A k \in 1..(N + 1) : more[k] = off[k]
      /\ more[N + 2] = off[N + 1] + Len(Data(p))
  <2>1. N + 1 \in Nat /\ N + 2 \in Nat /\ off[N + 1] + Len(Data(p)) \in Int
    BY <1>1, <1>2
  <2>2. \A k \in 1..(N + 1) : k \in Nat /\ k # N + 2
    BY <1>1
  <2> HIDE DEF N
  <2>3. more = [off EXCEPT ![N + 2] = off[N + 1] + Len(Data(p))]
    BY DEF N
  <2> QED BY <1>5, <2>1, <2>2, <2>3
<1> HIDE DEF more
<1>7. Laid(both, more)
  <2>1. ASSUME NEW k \in 1..Len(both) PROVE more[k + 1] = more[k] + Len(Data(both[k]))
    <3>1. CASE k = N + 1
      <4>1. k + 1 = N + 2 /\ k \in 1..(N + 1)
        BY <1>1, <3>1
      <4> QED BY <1>3, <1>6, <3>1, <4>1
    <3>2. CASE k # N + 1
      <4>1. k \in 1..N /\ k \in 1..(N + 1) /\ k + 1 \in 1..(N + 1)
        BY <1>1, <1>3, <3>2
      <4>2. off[k + 1] = off[k] + Len(Data(plan[k]))
        BY <1>a, <4>1 DEF Laid
      <4> QED BY <1>3, <1>6, <4>1, <4>2
    <3> QED BY <3>1, <3>2
  <2> QED BY <1>3, <1>6, <2>1 DEF Laid
<1>8. Holds(both, more, d, b, i, g)
  <2> SUFFICES ASSUME NEW k \in (d + 1)..Len(both), NEW j \in 1..Len(Data(both[k]))
        PROVE  /\ more[k] + j <= i => b[more[k] + j] = Data(both[k])[j]
               /\ more[k] + j > i /\ more[k] + j <= i + Len(g)
                    => g[(more[k] + j) - i] = Data(both[k])[j]
    BY DEF Holds
  <2>1. k \in 1..(N + 1) /\ k \in Nat
    BY <1>1, <1>3
  <2>2. more[k] = off[k] /\ off[k] \in Int
    BY <1>1, <1>6, <2>1
  <2>3. CASE k = N + 1
    <3>1. both[k] = p /\ j \in 1..Len(Data(p)) /\ j \in Nat /\ j >= 1
      BY <1>2, <1>3, <2>3
    <3>2. ~(off[k] + j <= i)
      BY <1>1, <1>2, <1>a, <2>2, <2>3, <3>1
    <3>3. ASSUME off[k] + j <= i + Len(g) PROVE g[(off[k] + j) - i] = Data(p)[j]
      <4>1. e # 0 /\ off[k] = i + Len(f)
        BY <1>1, <1>2, <1>a, <2>2, <2>3, <3>1, <3>3
      <4>2. j \in 1..e /\ (off[k] + j) - i = Len(f) + j
        <5>1. Len(g) = Len(f) + e
          BY <1>a
        <5> QED BY <1>2, <2>2, <3>1, <3>3, <4>1, <5>1
      <4>3. g[Len(f) + j] = Data(p)[j]
        BY <1>a, <4>2
      <4> QED BY <4>2, <4>3
    <3> QED BY <2>2, <3>1, <3>2, <3>3
  <2>4. CASE k # N + 1
    <3>1. k \in (d + 1)..N /\ k \in 1..N /\ both[k] = plan[k] /\ j \in 1..Len(Data(plan[k]))
      BY <1>1, <1>3, <2>1, <2>4
    <3>2. /\ off[k] + j <= i => b[off[k] + j] = Data(plan[k])[j]
          /\ off[k] + j > i /\ off[k] + j <= i + Len(f) => f[(off[k] + j) - i] = Data(plan[k])[j]
      BY <1>a, <3>1 DEF Holds
    <3>3. off[k] + j <= off[N + 1]
      <4>1. off[k + 1] = off[k] + Len(Data(plan[k]))
        BY <1>a, <3>1 DEF Laid
      <4>2. Len(Data(plan[k])) \in Nat /\ j \in Nat /\ j <= Len(Data(plan[k]))
        <5>1. plan[k] \in Packets
          BY <1>1, <3>1
        <5> QED BY <3>1, <5>1, DataLen
      <4>3. off[k + 1] <= off[N + 1]
        <5>1. N + 1 \in 1..(N + 1) /\ k + 1 <= N + 1
          BY <1>1, <3>1
        <5> QED BY <1>4, <3>1, <5>1
      <4>4. off[N + 1] \in Int
        BY <1>1
      <4> QED BY <2>2, <4>1, <4>2, <4>3, <4>4
    <3>4. off[k] + j <= i + Len(g) => off[k] + j <= i + Len(f)
      BY <1>1, <1>2, <1>a, <2>2, <3>1, <3>3
    <3>5. off[k] + j > i /\ off[k] + j <= i + Len(f) => (off[k] + j) - i \in 1..Len(f)
      <4>1. j \in Int /\ i \in Int
        <5>1. Len(Data(plan[k])) \in Nat
          BY <1>1, <3>1, DataLen
        <5> QED BY <3>1, <5>1
      <4> QED BY <1>2, <2>2, <4>1
    <3> QED BY <1>a, <2>2, <3>1, <3>2, <3>4, <3>5
  <2> QED BY <2>3, <2>4
<1> QED BY <1>6, <1>7, <1>8 DEF both, Put

(* The connection breaks. *)
LEMMA Breaks ==
  ASSUME NEW plan, NEW off, NEW d \in Nat, NEW b, NEW i \in Nat,
         NEW f, Laid(plan, off), Holds(plan, off, d, b, i, f)
  PROVE  Holds(plan, off, d, b, i, <<>>)
<1> SUFFICES ASSUME NEW k \in (d + 1)..Len(plan), NEW j \in 1..Len(Data(plan[k]))
      PROVE  /\ off[k] + j <= i => b[off[k] + j] = Data(plan[k])[j]
             /\ off[k] + j > i /\ off[k] + j <= i + Len(<<>>)
                  => <<>>[(off[k] + j) - i] = Data(plan[k])[j]
  BY DEF Holds
<1>1. off[k] + j <= i => b[off[k] + j] = Data(plan[k])[j]
  BY DEF Holds
<1>2. k \in Nat /\ k \in 1..Len(plan) /\ off[k] \in Int /\ j \in Int
  <2>1. Len(plan) \in Nat
    BY LaidIn
  <2>2. k \in Nat /\ k \in 1..Len(plan)
    BY <2>1
  <2>3. Len(Data(plan[k])) \in Nat
    BY <2>2, LaidIn, DataLen
  <2> QED BY <2>2, <2>3, LaidIn
<1>3. ~(off[k] + j > i /\ off[k] + j <= i + Len(<<>>))
  <2>1. Len(<<>>) = 0
    OBVIOUS
  <2> QED BY <1>2, <2>1
<1> QED BY <1>1, <1>3

(* recv() fails, and the loop takes its last byte back. *)
LEMMA Loses ==
  ASSUME NEW plan, NEW off, NEW d \in Nat, NEW b, NEW i \in Nat, i > 0,
         Laid(plan, off), Holds(plan, off, d, b, i, <<>>)
  PROVE  Holds(plan, off, d, b, i - 1, <<>>)
<1> SUFFICES ASSUME NEW k \in (d + 1)..Len(plan), NEW j \in 1..Len(Data(plan[k]))
      PROVE  /\ off[k] + j <= i - 1 => b[off[k] + j] = Data(plan[k])[j]
             /\ off[k] + j > i - 1 /\ off[k] + j <= i - 1 + Len(<<>>)
                  => <<>>[(off[k] + j) - (i - 1)] = Data(plan[k])[j]
  BY DEF Holds
<1>1. off[k] + j <= i => b[off[k] + j] = Data(plan[k])[j]
  BY DEF Holds
<1>2. k \in Nat /\ k \in 1..Len(plan) /\ off[k] \in Int /\ j \in Int
  <2>1. Len(plan) \in Nat
    BY LaidIn
  <2>2. k \in Nat /\ k \in 1..Len(plan)
    BY <2>1
  <2>3. Len(Data(plan[k])) \in Nat
    BY <2>2, LaidIn, DataLen
  <2> QED BY <2>2, <2>3, LaidIn
<1>3. ~(off[k] + j > i - 1 /\ off[k] + j <= i - 1 + Len(<<>>))
  <2>1. Len(<<>>) = 0
    OBVIOUS
  <2> QED BY <1>2, <2>1
<1>4. off[k] + j <= i - 1 => off[k] + j <= i
  BY <1>2
<1> QED BY <1>1, <1>3, <1>4

(* recv() gets n bytes. *)
LEMMA Gets ==
  ASSUME NEW plan, NEW off, NEW d \in Nat, NEW b \in Buffers, NEW i \in Nat,
         NEW f \in Seq(Byte), Laid(plan, off), Holds(plan, off, d, b, i, f),
         d + 1 \in 1..(Len(plan) + 1), off[d + 1] = 0,
         NEW n \in Nat, n <= Len(f), i + n <= BUFFER_SIZE
  PROVE  /\ SubSeq(f, n + 1, Len(f)) \in Seq(Byte)
         /\ Len(SubSeq(f, n + 1, Len(f))) = Len(f) - n
         /\ Holds(plan, off, d, Received(b, i, f, n), i + n, SubSeq(f, n + 1, Len(f)))
<1> DEFINE g == SubSeq(f, n + 1, Len(f))
           r == Received(b, i, f, n)
<1>0. Len(f) \in Nat
  BY LenProperties
<1>1. /\ g \in Seq(Byte) /\ Len(g) = Len(f) - n
      /\ \A j \in 1..(Len(f) - n) : g[j] = f[n + j]
  <2>1. /\ n + 1 \in Nat /\ 1 <= n + 1 /\ Len(f) <= Len(f) /\ n + 1 <= Len(f) + 1
        /\ Len(f) - (n + 1) + 1 = Len(f) - n
    BY <1>0
  <2>2. /\ g \in Seq(Byte) /\ Len(g) = Len(f) - (n + 1) + 1
        /\ \A j \in 1..(Len(f) - (n + 1) + 1) : g[j] = f[n + 1 + j - 1]
    BY <1>0, <2>1, PieceAt
  <2>3. \A j \in 1..(Len(f) - n) : n + 1 + j - 1 = n + j
    BY <1>0
  <2> HIDE DEF g
  <2> QED BY <2>1, <2>2, <2>3
<1>2. /\ \A j \in 1..i : r[j] = b[j]
      /\ \A j \in 1..n : r[i + j] = f[j]
  BY ReceivedIs
<1> HIDE DEF g, r
<1>3. Holds(plan, off, d, r, i + n, g)
  <2> SUFFICES ASSUME NEW k \in (d + 1)..Len(plan), NEW j \in 1..Len(Data(plan[k]))
        PROVE  /\ off[k] + j <= i + n => r[off[k] + j] = Data(plan[k])[j]
               /\ off[k] + j > i + n /\ off[k] + j <= i + n + Len(g)
                    => g[(off[k] + j) - (i + n)] = Data(plan[k])[j]
    BY DEF Holds
  <2> DEFINE m == off[k] + j
             x == Data(plan[k])[j]
  <2>1. /\ m <= i => b[m] = x
        /\ m > i /\ m <= i + Len(f) => f[m - i] = x
    <3>1. /\ off[k] + j <= i => b[off[k] + j] = Data(plan[k])[j]
          /\ off[k] + j > i /\ off[k] + j <= i + Len(f) => f[(off[k] + j) - i] = Data(plan[k])[j]
      BY DEF Holds
    <3> QED BY <3>1
  <2>2. Len(plan) \in Nat /\ k \in Nat /\ k \in 1..Len(plan) /\ k \in 1..(Len(plan) + 1) /\ d + 1 <= k
    <3>1. Len(plan) \in Nat
      BY LaidIn
    <3> QED BY <3>1
  <2>3. off[k] \in Int /\ off[k] >= 0
    <3>1. off[d + 1] <= off[k]
      BY <2>2, LaidIn
    <3> QED BY <2>2, <3>1, LaidIn
  <2>4. Len(Data(plan[k])) \in Nat
    BY <2>2, LaidIn, DataLen
  <2>5. m \in Nat /\ m >= 1
    BY <2>3, <2>4
  <2> HIDE DEF m, x
  <2>6. CASE m <= i
    <3>1. m \in 1..i /\ ~(m > i + n)
      BY <2>5, <2>6
    <3> QED BY <1>2, <2>1, <2>6, <3>1 DEF m, x
  <2>7. CASE m > i /\ m <= i + n
    <3>1. m - i \in 1..n /\ i + (m - i) = m /\ m <= i + Len(f) /\ ~(m > i + n)
      BY <1>0, <2>5, <2>7
    <3>2. r[i + (m - i)] = f[m - i]
      BY <1>2, <3>1
    <3> QED BY <2>1, <2>7, <3>1, <3>2 DEF m, x
  <2>8. CASE m > i + n /\ m <= i + n + Len(g)
    <3>1. /\ m - (i + n) \in 1..(Len(f) - n) /\ n + (m - (i + n)) = m - i
          /\ m > i /\ m <= i + Len(f) /\ ~(m <= i + n)
      BY <1>0, <1>1, <2>5, <2>8
    <3>2. g[m - (i + n)] = f[n + (m - (i + n))]
      BY <1>1, <3>1
    <3>3. g[m - (i + n)] = x
      BY <2>1, <3>1, <3>2
    <3> QED BY <3>1, <3>3 DEF m, x
  <2>9. CASE m > i + n + Len(g)
    <3>1. ~(m <= i + n) /\ ~(m <= i + n + Len(g))
      BY <1>0, <1>1, <2>5, <2>9
    <3> QED BY <3>1 DEF m
  <2>10. \/ m <= i \/ (m > i /\ m <= i + n)
         \/ (m > i + n /\ m <= i + n + Len(g)) \/ m > i + n + Len(g)
    BY <1>0, <1>1, <2>5
  <2> QED BY <2>6, <2>7, <2>8, <2>9, <2>10
<1> QED BY <1>1, <1>3 DEF g, r

(* The loop has all of the next packet in its buffer. *)
Ready(plan, off, d, b, i, f) ==
    /\ Laid(plan, off) /\ Holds(plan, off, d, b, i, f) /\ f \in Seq(Byte) /\ i <= BUFFER_SIZE
    /\ d + 1 \in 1..Len(plan) /\ off[d + 1] = 0 /\ Len(Data(plan[d + 1])) <= i

(* It has taken that packet, of z bytes, out. *)
Taken(plan, off, d, b, i, f, z) ==
    \E less \in [Nat -> Int] :
        /\ \A k \in Nat : less[k] = off[k] - z
        /\ Laid(plan, less) /\ less[d + 2] = 0
        /\ Holds(plan, less, d + 1, MoveDown(b, z, i - z), i - z, f)

LEMMA Takes ==
  ASSUME NEW plan, NEW off, NEW d \in Nat, NEW b \in Buffers, NEW i \in Nat, NEW f,
         Ready(plan, off, d, b, i, f)
  PROVE  Taken(plan, off, d, b, i, f, Len(Data(plan[d + 1])))
<1>a. /\ Laid(plan, off) /\ Holds(plan, off, d, b, i, f) /\ f \in Seq(Byte) /\ i <= BUFFER_SIZE
      /\ d + 1 \in 1..Len(plan) /\ off[d + 1] = 0 /\ Len(Data(plan[d + 1])) <= i
  BY DEF Ready
<1> DEFINE N == Len(plan)
           z == Len(Data(plan[d + 1]))
           less == [k \in Nat |-> off[k] - z]
           r == MoveDown(b, z, i - z)
<1>0. /\ N \in Nat /\ i \in Nat /\ i <= BUFFER_SIZE /\ z \in Nat /\ z <= i
      /\ \A k \in 1..N : plan[k] \in Packets
      /\ \A k \in Nat : off[k] \in Int
  <2>1. N \in Nat /\ (\A k \in 1..N : plan[k] \in Packets) /\ (\A k \in Nat : off[k] \in Int)
    BY <1>a, LaidIn
  <2>2. z \in Nat /\ z <= i
    BY <1>a, <2>1, DataLen
  <2> QED BY <1>a, <2>1, <2>2, SizeType
<1>1. less \in [Nat -> Int] /\ \A k \in Nat : less[k] = off[k] - z
  <2> HIDE DEF z
  <2> QED BY <1>0
<1> HIDE DEF less
<1>2. Laid(plan, less)
  <2>1. ASSUME NEW k \in 1..N PROVE less[k + 1] = less[k] + Len(Data(plan[k]))
    <3>1. k \in Nat /\ k + 1 \in Nat
      BY <1>0
    <3>2. off[k + 1] = off[k] + Len(Data(plan[k])) /\ Len(Data(plan[k])) \in Nat
      BY <1>0, <1>a, DataLen DEF Laid
    <3>3. less[k + 1] = off[k + 1] - z /\ less[k] = off[k] - z
      BY <1>1, <3>1
    <3>4. off[k] \in Int /\ z \in Int
      BY <1>0, <3>1
    <3> HIDE DEF N
    <3> QED BY <3>2, <3>3, <3>4
  <2> QED BY <1>1, <1>a, <2>1 DEF Laid
<1>3. less[d + 2] = 0
  <2>1. off[(d + 1) + 1] = off[d + 1] + z
    BY <1>a DEF Laid
  <2> HIDE DEF z
  <2>2. (d + 1) + 1 = d + 2 /\ d + 2 \in Nat
    OBVIOUS
  <2> QED BY <1>0, <1>1, <1>a, <2>1, <2>2
<1>4. \A j \in 1..(i - z) : r[j] = b[z + j]
  <2>1. i - z \in Nat /\ z + (i - z) <= BUFFER_SIZE
    BY <1>0
  <2> QED BY <1>0, <2>1, MoveDownIs
<1> HIDE DEF r, z
<1>5. Holds(plan, less, d + 1, r, i - z, f)
  <2> SUFFICES ASSUME NEW k \in ((d + 1) + 1)..Len(plan), NEW j \in 1..Len(Data(plan[k]))
        PROVE  /\ less[k] + j <= i - z => r[less[k] + j] = Data(plan[k])[j]
               /\ less[k] + j > i - z /\ less[k] + j <= i - z + Len(f)
                    => f[(less[k] + j) - (i - z)] = Data(plan[k])[j]
    BY DEF Holds
  <2> DEFINE m == off[k] + j
             x == Data(plan[k])[j]
  <2>1. k \in Nat /\ k \in 1..N /\ k \in (d + 1)..Len(plan) /\ k \in 1..(N + 1) /\ d + 2 <= k
        /\ d + 2 \in 1..(N + 1)
    BY <1>0, <1>a
  <2>2. /\ m <= i => b[m] = x
        /\ m > i /\ m <= i + Len(f) => f[m - i] = x
    <3>1. /\ off[k] + j <= i => b[off[k] + j] = Data(plan[k])[j]
          /\ off[k] + j > i /\ off[k] + j <= i + Len(f) => f[(off[k] + j) - i] = Data(plan[k])[j]
      BY <1>a, <2>1 DEF Holds
    <3> QED BY <3>1
  <2>3. less[k] \in Int /\ less[k] >= 0 /\ less[k] = off[k] - z /\ off[k] \in Int
    <3>1. less[d + 2] <= less[k]
      BY <1>2, <2>1, LaidIn
    <3>2. less[k] = off[k] - z /\ off[k] \in Int
      BY <1>0, <1>1, <2>1
    <3> QED BY <1>0, <1>3, <3>1, <3>2
  <2>4. Len(Data(plan[k])) \in Nat /\ Len(f) \in Nat
    <3>1. plan[k] \in Packets
      BY <1>0, <2>1
    <3> QED BY <1>a, <3>1, DataLen, LenProperties
  <2>5. /\ m \in Nat /\ m > z /\ less[k] + j = m - z
    <3>1. j \in Nat /\ j >= 1
      BY <2>4
    <3>2. z \in Nat
      BY <1>0
    <3>3. \A o, l \in Int, jj, zz \in Nat : l = o - zz /\ l >= 0 /\ jj >= 1
             => o + jj \in Nat /\ o + jj > zz /\ l + jj = (o + jj) - zz
      OBVIOUS
    <3> QED BY <2>3, <3>1, <3>2, <3>3, Zenon
  <2> HIDE DEF m, x
  <2>6. ASSUME m - z <= i - z PROVE r[m - z] = x
    <3>1. m - z \in 1..(i - z) /\ z + (m - z) = m /\ m <= i
      BY <1>0, <2>5, <2>6
    <3>2. r[m - z] = b[z + (m - z)]
      BY <1>4, <3>1
    <3> QED BY <2>2, <3>1, <3>2
  <2>7. ASSUME m - z > i - z, m - z <= i - z + Len(f) PROVE f[m - z - (i - z)] = x
    <3>1. m > i /\ m <= i + Len(f) /\ m - z - (i - z) = m - i
      BY <1>0, <2>4, <2>5, <2>7
    <3> QED BY <2>2, <3>1
  <2>8. less[k] + j <= i - z => r[less[k] + j] = x
    BY <2>5, <2>6
  <2>9. less[k] + j > i - z /\ less[k] + j <= i - z + Len(f)
          => f[(less[k] + j) - (i - z)] = x
    BY <2>5, <2>7
  <2> QED BY <2>8, <2>9 DEF x
<1> QED BY <1>1, <1>2, <1>3, <1>5 DEF r, z, Taken

-----------------------------------------------------------------------------
Packs == [sCmd : Word, strData : Seq(Byte)]

Fits(plan, off, del, snt, sndr, brk, b, i, f) ==
    /\ Laid(plan, off) /\ Told(plan, off, del, snt, sndr)
    /\ Long(plan, off, snt, sndr, brk, i, f)
    /\ Holds(plan, off, Len(del), b, i, f)

LEMMA FitsIn ==
  ASSUME NEW plan, NEW off, NEW del, NEW snt, NEW sndr, NEW brk, NEW b, NEW i \in Nat, NEW f,
         Fits(plan, off, del, snt, sndr, brk, b, i, f)
  PROVE  /\ Len(del) \in Nat /\ Len(snt) \in Nat /\ Len(plan) \in Nat /\ Len(f) \in Nat
         /\ Len(del) <= Len(snt) /\ Len(snt) <= Len(plan)
         /\ Len(del) + 1 \in 1..(Len(plan) + 1)
         /\ off[Len(del) + 1] = 0 /\ off[Len(snt) + 1] \in Int /\ off[Len(plan) + 1] \in Int
         /\ i + Len(f) <= off[Len(plan) + 1]
<1>1. /\ del \in Seq([sCmd : Word, strData : Seq(Byte)]) /\ snt \in Seq(Packets) /\ f \in Seq(Byte)
      /\ Len(del) <= Len(snt) /\ off[Len(del) + 1] = 0
      /\ sndr # "cut" => plan = snt
      /\ sndr = "cut" => Len(plan) = Len(snt) + 1
      /\ i + Len(f) <= off[Len(plan) + 1]
  BY DEF Fits, Told, Long
<1>2. Len(del) \in Nat /\ Len(snt) \in Nat /\ Len(f) \in Nat
  BY <1>1, LenProperties
<1>3. Len(plan) \in Nat /\ \A k \in Nat : off[k] \in Int
  BY LaidIn DEF Fits
<1>4. Len(snt) <= Len(plan)
  BY <1>1, <1>2, <1>3
<1>5. Len(snt) + 1 \in Nat /\ Len(plan) + 1 \in Nat /\ Len(del) + 1 \in 1..(Len(plan) + 1)
  BY <1>1, <1>2, <1>3, <1>4
<1> QED BY <1>1, <1>2, <1>3, <1>4, <1>5

(* The loop looks for a packet in the first i bytes of b: it finds none, or *)
(* the next one that has been sent.                                         *)
LEMMA Parsed ==
  ASSUME NEW plan, NEW off, NEW del, NEW snt, NEW sndr, NEW brk,
         NEW b \in Buffers, NEW i \in 0..BUFFER_SIZE, NEW f,
         Fits(plan, off, del, snt, sndr, brk, b, i, f),
         NEW got, got = CPacket(b, AfterHead(b, i), i), got.nSize # 0
  PROVE  \E less : Fits(plan, less, Append(del, got.pack), snt, sndr, brk,
                        MoveDown(b, got.nSize, i - got.nSize), i - got.nSize, f)
<1> DEFINE d == Len(del)
           N == Len(plan)
           z == Len(Data(plan[d + 1]))
           p == plan[d + 1]
<1>1. /\ Laid(plan, off) /\ Told(plan, off, del, snt, sndr)
      /\ Long(plan, off, snt, sndr, brk, i, f) /\ Holds(plan, off, d, b, i, f)
  BY DEF Fits
<1>2. i \in Nat /\ i <= BUFFER_SIZE
  BY SizeType
<1>3. /\ d \in Nat /\ Len(snt) \in Nat /\ N \in Nat /\ Len(f) \in Nat
      /\ d <= Len(snt) /\ Len(snt) <= N /\ d + 1 \in 1..(N + 1)
      /\ off[d + 1] = 0 /\ off[Len(snt) + 1] \in Int /\ off[N + 1] \in Int
      /\ i + Len(f) <= off[N + 1]
  BY <1>2, FitsIn
<1>4. got.nSize \in 0..i
  <2>1. AfterHead(b, i) \in Nat
    BY <1>2, AfterHeadIs
  <2> QED BY <1>2, <2>1, CPacketType
<1>5. d # N
  <2> SUFFICES ASSUME d = N PROVE FALSE
    OBVIOUS
  <2>1. i = 0
    BY <1>2, <1>3
  <2> QED BY <1>4, <2>1
<1>6. d + 1 \in 1..N /\ p \in Packets
  <2>1. d + 1 \in 1..N
    BY <1>3, <1>5
  <2> QED BY <1>1, <2>1, LaidIn
<1>7. z \in Nat /\ z >= 10
  BY <1>6, DataLen
<1>8. \A j \in 1..Len(Data(p)) : j <= i => b[j] = Data(p)[j]
  <2> TAKE j \in 1..Len(Data(p))
  <2>1. d + 1 \in (d + 1)..N
    BY <1>6, <1>3
  <2>2. off[d + 1] + j <= i => b[off[d + 1] + j] = Data(p)[j]
    BY <1>1, <2>1 DEF Holds
  <2>3. off[d + 1] + j = j
    BY <1>3, <1>7
  <2> QED BY <2>2, <2>3
<1>9. i >= z /\ got.nSize = z /\ got.pack = p
  <2>1. /\ i < z => CPacket(b, AfterHead(b, i), i).nSize = 0
        /\ i >= z => CPacket(b, AfterHead(b, i), i) = [nSize |-> z, pack |-> p]
    BY <1>6, <1>8, ParsesPacket
  <2>2. ~(i < z)
    BY <2>1
  <2>3. i >= z
    BY <1>2, <1>7, <2>2
  <2>4. got = [nSize |-> z, pack |-> p]
    BY <2>1, <2>3
  <2> QED BY <2>3, <2>4
<1>10. \A k \in Nat : off[k] \in Int
  BY <1>1, LaidIn
<1>12. f \in Seq(Byte)
  BY <1>1 DEF Long
<1>13. PICK less \in [Nat -> Int] :
         /\ \A k \in Nat : less[k] = off[k] - z
         /\ Laid(plan, less) /\ less[d + 2] = 0
         /\ Holds(plan, less, d + 1, MoveDown(b, z, i - z), i - z, f)
  <2>1. Ready(plan, off, d, b, i, f)
    BY <1>1, <1>2, <1>3, <1>6, <1>7, <1>9, <1>12 DEF Ready
  <2>2. Taken(plan, off, d, b, i, f, z)
    BY <1>2, <1>3, <2>1, Takes
  <2> QED BY <2>2 DEF Taken
<1>14. d + 1 <= Len(snt) /\ snt[d + 1] = p
  <2>1. CASE sndr # "cut"
    <3>1. plan = snt
      BY <1>1, <2>1 DEF Told
    <3> QED BY <1>6, <3>1
  <2>2. CASE sndr = "cut"
    <3>1. N = Len(snt) + 1 /\ \A k \in 1..Len(snt) : plan[k] = snt[k]
      BY <1>1, <2>2 DEF Told
    <3>2. d # Len(snt)
      <4> SUFFICES ASSUME d = Len(snt) PROVE FALSE
        OBVIOUS
      <4>1. off[(d + 1) + 1] = off[d + 1] + z
        BY <1>1, <1>6 DEF Laid
      <4>2. N = d + 1
        BY <3>1
      <4>3. i + Len(f) < off[N + 1]
        BY <1>1, <2>2 DEF Long
      <4>4. off[N + 1] = z
        BY <1>3, <1>7, <4>1, <4>2
      <4> QED BY <1>2, <1>3, <1>7, <1>9, <4>3, <4>4
    <3>3. d + 1 \in 1..Len(snt)
      BY <1>3, <3>2
    <3> QED BY <3>1, <3>3
  <2> QED BY <2>1, <2>2
<1> DEFINE more == Append(del, p)
<1>15. /\ more \in Seq(Packs) /\ Len(more) = d + 1
       /\ \A k \in 1..d : more[k] = del[k]
       /\ more[d + 1] = p
  <2>1. del \in Seq(Packs)
    BY <1>1 DEF Told, Packs
  <2>2. p \in Packs
    BY <1>6, StreamAssumption DEF Packs
  <2> HIDE DEF p
  <2> QED BY <2>1, <2>2
<1> HIDE DEF more
<1>16. Told(plan, less, more, snt, sndr)
  <2>1. \A k \in 1..Len(more) : more[k] = snt[k]
    <3> TAKE k \in 1..Len(more)
    <3>1. CASE k = d + 1
      BY <1>14, <1>15, <3>1
    <3>2. CASE k # d + 1
      <4>1. k \in 1..d
        BY <1>3, <1>15, <3>2
      <4>2. del[k] = snt[k]
        BY <1>1, <4>1 DEF Told
      <4> QED BY <1>15, <4>1, <4>2
    <3> QED BY <3>1, <3>2
  <2>2. less[Len(more) + 1] = 0
    <3>1. Len(more) + 1 = d + 2
      BY <1>3, <1>15
    <3> QED BY <1>13, <3>1
  <2>3. Len(more) <= Len(snt) /\ more \in Seq([sCmd : Word, strData : Seq(Byte)])
    BY <1>14, <1>15 DEF Packs
  <2>4. /\ snt \in Seq(Packets)
        /\ sndr # "cut" => plan = snt
        /\ sndr = "cut" => Len(plan) = Len(snt) + 1 /\ \A k \in 1..Len(snt) : plan[k] = snt[k]
    BY <1>1 DEF Told
  <2> QED BY <2>1, <2>2, <2>3, <2>4 DEF Told
<1>17. Long(plan, less, snt, sndr, brk, i - z, f)
  <2>1. /\ i + Len(f) <= off[N + 1]
        /\ sndr = "cut" => i + Len(f) < off[N + 1]
        /\ brk = "no" /\ sndr # "cut" => i + Len(f) = off[N + 1]
        /\ brk = "no" /\ sndr = "cut" => i + Len(f) >= off[Len(snt) + 1]
        /\ brk = "yes" => f = <<>>
    BY <1>1 DEF Long
  <2>2. /\ N + 1 \in Nat /\ Len(snt) + 1 \in Nat
    BY <1>3, SMTT(40)
  <2>3. less[N + 1] = off[N + 1] - z /\ less[Len(snt) + 1] = off[Len(snt) + 1] - z
    BY <1>13, <2>2
  <2> DEFINE X == off[N + 1]
             Y == off[Len(snt) + 1]
             l == Len(f)
  <2>4. X \in Int /\ Y \in Int /\ l \in Nat
    BY <1>3
  <2> HIDE DEF X, Y, l
  <2>5. /\ i + l <= X => i - z + l <= X - z
        /\ i + l < X => i - z + l < X - z
        /\ i + l = X => i - z + l = X - z
        /\ i + l >= Y => i - z + l >= Y - z
    BY <1>2, <1>7, <2>4
  <2>6. /\ i - z + l <= less[N + 1]
        /\ sndr = "cut" => i - z + l < less[N + 1]
        /\ brk = "no" /\ sndr # "cut" => i - z + l = less[N + 1]
        /\ brk = "no" /\ sndr = "cut" => i - z + l >= less[Len(snt) + 1]
    BY <2>1, <2>3, <2>5 DEF X, Y, l
  <2> QED BY <1>12, <2>1, <2>6 DEF Long, l
<1>18. Fits(plan, less, more, snt, sndr, brk, MoveDown(b, z, i - z), i - z, f)
  BY <1>13, <1>15, <1>16, <1>17 DEF Fits
<1> HIDE DEF z, p
<1> QED BY <1>9, <1>18 DEF more

(* The sender sends the packet p as a whole, or into the broken connection. *)
LEMMA SendFits ==
  ASSUME NEW plan, NEW off, NEW del, NEW snt, NEW brk \in {"yes", "no"}, NEW b, NEW i \in Nat,
         NEW f, NEW p \in Packets, Fits(plan, off, del, snt, "open", brk, b, i, f)
  PROVE  \E more, o : Fits(more, o, del, Append(snt, p), "open", brk, b, i,
                           IF brk = "no" THEN f \o Data(p) ELSE f)
<1> DEFINE g == IF brk = "no" THEN f \o Data(p) ELSE f
           e == IF brk = "no" THEN Len(Data(p)) ELSE 0
           N == Len(plan)
<1>1. /\ Laid(plan, off) /\ Told(plan, off, del, snt, "open")
      /\ Long(plan, off, snt, "open", brk, i, f) /\ Holds(plan, off, Len(del), b, i, f)
  BY DEF Fits
<1>2. /\ plan = snt /\ snt \in Seq(Packets) /\ del \in Seq([sCmd : Word, strData : Seq(Byte)])
      /\ \A k \in 1..Len(del) : del[k] = snt[k]
  BY <1>1 DEF Told
<1>3. /\ f \in Seq(Byte) /\ (brk = "no" => i + Len(f) = off[N + 1]) /\ (brk = "yes" => f = <<>>)
  BY <1>1 DEF Long
<1>4. /\ Len(del) \in Nat /\ N \in Nat /\ Len(f) \in Nat /\ Len(del) <= N
      /\ off[Len(del) + 1] = 0 /\ off[N + 1] \in Int /\ i + Len(f) <= off[N + 1]
  BY <1>2, FitsIn
<1>5. Data(p) \in Seq(Byte) /\ Len(Data(p)) \in Nat /\ Len(Data(p)) >= 10
  BY DataLen
<1>6. /\ g \in Seq(Byte) /\ Len(g) = Len(f) + e /\ e \in 0..Len(Data(p))
      /\ \A j \in 1..Len(f) : g[j] = f[j]
      /\ \A j \in 1..e : g[Len(f) + j] = Data(p)[j]
  <2>1. CASE brk = "no"
    <3>1. /\ f \o Data(p) \in Seq(Byte) /\ Len(f \o Data(p)) = Len(f) + Len(Data(p))
          /\ \A j \in 1..Len(f) : (f \o Data(p))[j] = f[j]
          /\ \A j \in 1..Len(Data(p)) : (f \o Data(p))[j + Len(f)] = Data(p)[j]
      BY <1>3, <1>5, ConcatAt
    <3>2. \A j \in 1..Len(Data(p)) : Len(f) + j = j + Len(f)
      BY <1>4, <1>5
    <3>3. g = f \o Data(p) /\ e = Len(Data(p))
      BY <2>1
    <3> HIDE DEF g, e
    <3>4. \A j \in 1..e : g[Len(f) + j] = Data(p)[j]
      BY <3>1, <3>2, <3>3
    <3> QED BY <1>5, <3>1, <3>3, <3>4
  <2>2. CASE brk # "no"
    <3>1. g = f /\ e = 0
      BY <2>2
    <3> HIDE DEF g, e
    <3> QED BY <1>3, <1>4, <1>5, <3>1
  <2> QED BY <2>1, <2>2
<1>7. e = 0 \/ i + Len(f) = off[N + 1]
  BY <1>3
<1> HIDE DEF g
<1>8. Puts(plan, off, Len(del), b, i, f, p, e, g)
  <2> HIDE DEF e
  <2> QED BY <1>1, <1>3, <1>4, <1>6, <1>7 DEF Puts
<1>9. Put(plan, off, Len(del), b, i, p, g)
  <2> HIDE DEF e
  <2> QED BY <1>4, <1>8, PutsIt
<1> DEFINE both == Append(plan, p)
<1>10. PICK more :
        /\ Laid(both, more) /\ Holds(both, more, Len(del), b, i, g)
        /\ \A k \in 1..(N + 1) : more[k] = off[k]
        /\ more[N + 2] = off[N + 1] + Len(Data(p))
  BY <1>9 DEF Put
<1>11. /\ both \in Seq(Packets) /\ Len(both) = N + 1 /\ both = Append(snt, p)
       /\ \A k \in 1..N : both[k] = snt[k]
  BY <1>2
<1> HIDE DEF both
<1>12. Told(both, more, del, both, "open")
  <2>1. Len(del) <= Len(both) /\ Len(del) + 1 \in 1..(N + 1)
    BY <1>4, <1>11
  <2>2. more[Len(del) + 1] = 0
    BY <1>4, <1>10, <2>1
  <2>3. \A k \in 1..Len(del) : del[k] = both[k]
    <3> TAKE k \in 1..Len(del)
    <3>1. k \in 1..N
      BY <1>4
    <3> QED BY <1>2, <1>11, <3>1
  <2> QED BY <1>2, <1>11, <2>1, <2>2, <2>3 DEF Told
<1>13. Long(both, more, both, "open", brk, i, g)
  <2>1. Len(both) + 1 = N + 2
    BY <1>4, <1>11
  <2>2. CASE brk = "no"
    <3>1. e = Len(Data(p))
      BY <2>2
    <3>2. Len(g) = Len(f) + Len(Data(p))
      BY <1>6, <3>1
    <3>3. i + Len(g) = more[N + 2]
      BY <1>3, <1>4, <1>5, <1>10, <2>2, <3>2
    <3>4. i + Len(g) <= more[N + 2]
      BY <1>4, <1>5, <3>2, <3>3
    <3> QED BY <1>6, <2>1, <2>2, <3>3, <3>4 DEF Long
  <2>3. CASE brk = "yes"
    <3>1. g = f /\ f = <<>>
      BY <1>3, <2>3 DEF g
    <3>2. i + Len(g) <= more[N + 2]
      BY <1>4, <1>5, <1>10, <3>1
    <3> QED BY <1>6, <2>1, <2>3, <3>1, <3>2 DEF Long
  <2> QED BY <2>2, <2>3
<1>14. Fits(both, more, del, both, "open", brk, b, i, g)
  BY <1>10, <1>12, <1>13 DEF Fits
<1> QED BY <1>11, <1>14 DEF g

(* The sender ends within the packet p. *)
LEMMA CutFits ==
  ASSUME NEW plan, NEW off, NEW del, NEW snt, NEW b, NEW i \in Nat, NEW f,
         NEW p \in Packets, NEW n \in 1..(Len(Data(p)) - 1),
         Fits(plan, off, del, snt, "open", "no", b, i, f)
  PROVE  \E more, o : Fits(more, o, del, snt, "cut", "no", b, i, f \o SubSeq(Data(p), 1, n))
<1> DEFINE q == SubSeq(Data(p), 1, n)
           g == f \o q
           N == Len(plan)
<1>1. /\ Laid(plan, off) /\ Told(plan, off, del, snt, "open")
      /\ Long(plan, off, snt, "open", "no", i, f) /\ Holds(plan, off, Len(del), b, i, f)
  BY DEF Fits
<1>2. /\ plan = snt /\ snt \in Seq(Packets) /\ del \in Seq([sCmd : Word, strData : Seq(Byte)])
      /\ \A k \in 1..Len(del) : del[k] = snt[k]
  BY <1>1 DEF Told
<1>3. f \in Seq(Byte) /\ i + Len(f) = off[N + 1]
  BY <1>1 DEF Long
<1>4. /\ Len(del) \in Nat /\ N \in Nat /\ Len(f) \in Nat /\ Len(del) <= N
      /\ off[Len(del) + 1] = 0 /\ off[N + 1] \in Int /\ i + Len(f) <= off[N + 1]
  BY <1>2, FitsIn
<1>5. /\ Data(p) \in Seq(Byte) /\ Len(Data(p)) \in Nat /\ Len(Data(p)) >= 10
      /\ n \in Nat /\ n >= 1 /\ n < Len(Data(p))
  <2>1. Data(p) \in Seq(Byte) /\ Len(Data(p)) \in Nat /\ Len(Data(p)) >= 10
    BY DataLen
  <2> QED BY <2>1
<1>6. /\ q \in Seq(Byte) /\ Len(q) = n
      /\ \A j \in 1..n : q[j] = Data(p)[j]
  <2>1. 1 \in Nat /\ 1 <= n + 1 /\ n - 1 + 1 = n /\ 1 <= 1 /\ n <= Len(Data(p))
    BY <1>5
  <2>2. /\ q \in Seq(Byte) /\ Len(q) = n - 1 + 1
        /\ \A j \in 1..(n - 1 + 1) : q[j] = Data(p)[1 + j - 1]
    BY <1>5, <2>1, PieceAt
  <2>3. \A j \in 1..n : 1 + j - 1 = j
    OBVIOUS
  <2> HIDE DEF q
  <2> QED BY <2>1, <2>2, <2>3
<1> HIDE DEF q
<1>7. /\ g \in Seq(Byte) /\ Len(g) = Len(f) + n
      /\ \A j \in 1..Len(f) : g[j] = f[j]
      /\ \A j \in 1..n : g[Len(f) + j] = Data(p)[j]
  <2>1. /\ g \in Seq(Byte) /\ Len(g) = Len(f) + Len(q)
        /\ \A j \in 1..Len(f) : g[j] = f[j]
        /\ \A j \in 1..Len(q) : g[j + Len(f)] = q[j]
    BY <1>3, <1>6, ConcatAt
  <2>2. \A j \in 1..n : Len(f) + j = j + Len(f)
    BY <1>4, <1>5
  <2> HIDE DEF g
  <2> QED BY <1>6, <2>1, <2>2
<1> HIDE DEF g
<1>8. Puts(plan, off, Len(del), b, i, f, p, n, g)
  <2>1. n \in 0..Len(Data(p))
    BY <1>5
  <2> QED BY <1>1, <1>3, <1>4, <1>7, <2>1 DEF Puts
<1>9. Put(plan, off, Len(del), b, i, p, g)
  BY <1>4, <1>8, PutsIt
<1> DEFINE both == Append(plan, p)
<1>10. PICK more :
        /\ Laid(both, more) /\ Holds(both, more, Len(del), b, i, g)
        /\ \A k \in 1..(N + 1) : more[k] = off[k]
        /\ more[N + 2] = off[N + 1] + Len(Data(p))
  BY <1>9 DEF Put
<1>11. /\ both \in Seq(Packets) /\ Len(both) = N + 1
       /\ \A k \in 1..N : both[k] = snt[k]
  BY <1>2
<1> HIDE DEF both
<1>12. Told(both, more, del, snt, "cut")
  <2>1. Len(del) <= Len(snt) /\ Len(del) + 1 \in 1..(N + 1)
    BY <1>2, <1>4
  <2>2. more[Len(del) + 1] = 0
    BY <1>4, <1>10, <2>1
  <2> QED BY <1>2, <1>11, <2>1, <2>2 DEF Told
<1>13. Long(both, more, snt, "cut", "no", i, g)
  <2>1. Len(both) + 1 = N + 2 /\ Len(snt) + 1 = N + 1 /\ N + 1 \in 1..(N + 1)
    BY <1>2, <1>4, <1>11
  <2>2. i + Len(g) < more[N + 2]
    BY <1>3, <1>4, <1>5, <1>7, <1>10
  <2>3. i + Len(g) <= more[N + 2]
    BY <1>4, <1>5, <1>7, <1>10, <2>2
  <2>4. i + Len(g) >= more[N + 1]
    <3>1. more[N + 1] = off[N + 1]
      BY <1>10, <2>1
    <3> QED BY <1>3, <1>4, <1>5, <1>7, <3>1
  <2> QED BY <1>7, <2>1, <2>2, <2>3, <2>4 DEF Long
<1>14. Fits(both, more, del, snt, "cut", "no", b, i, g)
  BY <1>10, <1>12, <1>13 DEF Fits
<1> QED BY <1>14 DEF g, q

-----------------------------------------------------------------------------
(* The inductive invariant. *)

(* The stream has what was sent and has not been delivered. *)
InStream ==
    \E plan, off : Fits(plan, off, delivered, sent, sender, broken, buf, index, flow)

(* What the end of SendPack says. *)
AllTaken ==
    loop = "all" /\ receiver = "over" /\ broken = "no" => sender # "open" /\ delivered = sent

IInv == TypeOK /\ InStream /\ AllTaken

LEMMA InitInv == Init => IInv
<1> SUFFICES ASSUME Init PROVE IInv
  OBVIOUS
<1>1. buf \in Buffers
  <2> DEFINE zeros == [k \in 1..BUFFER_SIZE |-> 0]
  <2>1. zeros \in Buffers
    BY WordIs DEF Buffers
  <2>2. zeros \in Seq(Byte) /\ Len(zeros) = BUFFER_SIZE
    BY <2>1, BufferIsSeq
  <2>3. buf = SubSeq(zeros, 1, BUFFER_SIZE)
    BY DEF Init
  <2> HIDE DEF zeros
  <2>4. 1 \in Nat /\ BUFFER_SIZE \in Nat /\ BUFFER_SIZE - 1 + 1 = BUFFER_SIZE
        /\ 1 <= 1 /\ BUFFER_SIZE <= Len(zeros) /\ 1 <= BUFFER_SIZE + 1
    BY <2>2, SizeType
  <2>5. buf \in Seq(Byte) /\ Len(buf) = BUFFER_SIZE - 1 + 1
    BY <2>2, <2>3, <2>4, PieceAt
  <2> QED BY <2>4, <2>5, BufferIsSeq
<1>2. TypeOK
  <2>1. MaxPackets \in Nat /\ 0 \in 0..BUFFER_SIZE
    BY StreamAssumption, SizeType
  <2>2. /\ sent = <<>> /\ flow = <<>> /\ delivered = <<>> /\ index = 0 /\ receiver = "recv"
        /\ loop \in {"all", "auto", "deal"} /\ sender = "open" /\ broken = "no"
    BY DEF Init
  <2>3. /\ sent \in Seq(Packets) /\ Len(sent) <= MaxPackets /\ flow \in Seq(Byte)
        /\ delivered \in Seq([sCmd : Word, strData : Seq(Byte)])
    BY <2>1, <2>2
  <2>4. buf \in [1..BUFFER_SIZE -> Byte]
    BY <1>1 DEF Buffers
  <2> QED BY <2>1, <2>2, <2>3, <2>4 DEF TypeOK
<1>3. InStream
  <2> DEFINE off == [k \in Nat |-> 0]
  <2>1. Laid(<<>>, off)
    BY DEF Laid
  <2>2. off[Len(<<>>) + 1] = 0
    OBVIOUS
  <2> HIDE DEF off
  <2>3. Told(<<>>, off, delivered, sent, sender)
    BY <2>2 DEF Init, Told
  <2>4. Long(<<>>, off, sent, sender, broken, index, flow)
    BY <2>2 DEF Init, Long
  <2>5. Holds(<<>>, off, Len(delivered), buf, index, flow)
    BY DEF Init, Holds
  <2>6. Fits(<<>>, off, delivered, sent, sender, broken, buf, index, flow)
    BY <2>1, <2>3, <2>4, <2>5 DEF Fits
  <2> QED BY <2>6 DEF InStream
<1>4. AllTaken
  BY DEF Init, AllTaken
<1> QED BY <1>2, <1>3, <1>4 DEF IInv

(* What is known of a state in which the invariant holds. *)
LEMMA InvIn ==
  ASSUME IInv
  PROVE  /\ buf \in Buffers /\ index \in Nat /\ index <= BUFFER_SIZE
         /\ flow \in Seq(Byte) /\ Len(flow) \in Nat
         /\ sent \in Seq(Packets) /\ Len(sent) \in Nat /\ MaxPackets \in Nat
         /\ delivered \in Seq(Packs)
         /\ loop \in {"all", "auto", "deal"} /\ sender \in {"open", "closed", "cut"}
         /\ broken \in {"yes", "no"} /\ receiver \in {"recv", "over", "undefined"}
         /\ Len(sent) <= MaxPackets
<1>1. TypeOK
  BY DEF IInv
<1>2. index \in Nat /\ index <= BUFFER_SIZE
  BY <1>1, SizeType DEF TypeOK
<1>3. Len(flow) \in Nat /\ Len(sent) \in Nat
  BY <1>1, LenProperties DEF TypeOK
<1> QED BY <1>1, <1>2, <1>3, StreamAssumption DEF TypeOK, Buffers, Packs

LEMMA SendInv ==
  ASSUME IInv, NEW p \in Packets, Send(p)
  PROVE  IInv'
<1>1. /\ sender = "open" /\ Len(sent) < MaxPackets /\ sent' = Append(sent, p)
      /\ flow' = IF broken = "no" THEN flow \o Data(p) ELSE flow
      /\ loop' = loop /\ sender' = sender /\ broken' = broken /\ buf' = buf /\ index' = index
      /\ delivered' = delivered /\ receiver' = receiver
  BY DEF Send
<1>2. TypeOK'
  <2>1. sent' \in Seq(Packets) /\ Len(sent') <= MaxPackets
    <3>1. sent' \in Seq(Packets) /\ Len(sent') = Len(sent) + 1
      BY <1>1, InvIn
    <3> QED BY <1>1, <3>1, InvIn
  <2>2. flow' \in Seq(Byte)
    <3>1. flow \in Seq(Byte) /\ Data(p) \in Seq(Byte)
      BY InvIn, DataLen
    <3>2. flow \o Data(p) \in Seq(Byte)
      BY <3>1, ConcatAt
    <3> QED BY <1>1, <3>1, <3>2
  <2> QED BY <1>1, <2>1, <2>2 DEF IInv, TypeOK
<1>3. InStream'
  <2>1. PICK plan, off : Fits(plan, off, delivered, sent, "open", broken, buf, index, flow)
    BY <1>1 DEF IInv, InStream
  <2>2. \E more, o : Fits(more, o, delivered, Append(sent, p), "open", broken, buf, index,
                          IF broken = "no" THEN flow \o Data(p) ELSE flow)
    BY <2>1, InvIn, SendFits
  <2>3. PICK more, o : Fits(more, o, delivered', sent', sender', broken', buf', index', flow')
    BY <1>1, <2>2
  <2> QED BY <2>3 DEF InStream
<1>4. AllTaken'
  BY <1>1 DEF IInv, AllTaken
<1> QED BY <1>2, <1>3, <1>4 DEF IInv

LEMMA CutInv ==
  ASSUME IInv, NEW p \in Packets, NEW n \in 1..(Len(Data(p)) - 1), Cut(p, n)
  PROVE  IInv'
<1>1. /\ sender = "open" /\ broken = "no" /\ sender' = "cut"
      /\ flow' = flow \o SubSeq(Data(p), 1, n)
      /\ loop' = loop /\ sent' = sent /\ broken' = broken /\ buf' = buf /\ index' = index
      /\ delivered' = delivered /\ receiver' = receiver
  BY DEF Cut
<1>2. InStream'
  <2>1. PICK plan, off : Fits(plan, off, delivered, sent, "open", "no", buf, index, flow)
    BY <1>1 DEF IInv, InStream
  <2>2. \E more, o : Fits(more, o, delivered, sent, "cut", "no", buf, index,
                          flow \o SubSeq(Data(p), 1, n))
    BY <2>1, InvIn, CutFits
  <2>3. PICK more, o : Fits(more, o, delivered', sent', sender', broken', buf', index', flow')
    BY <1>1, <2>2
  <2> QED BY <2>3 DEF InStream
<1>3. TypeOK'
  <2>1. PICK plan, off : Fits(plan, off, delivered', sent', sender', broken', buf', index', flow')
    BY <1>2 DEF InStream
  <2>2. flow' \in Seq(Byte)
    BY <2>1 DEF Fits, Long
  <2> QED BY <1>1, <2>2 DEF IInv, TypeOK
<1>4. AllTaken'
  BY <1>1 DEF IInv, AllTaken
<1> QED BY <1>2, <1>3, <1>4 DEF IInv

LEMMA CloseInv ==
  ASSUME IInv, Close
  PROVE  IInv'
<1>1. /\ sender = "open" /\ sender' = "closed"
      /\ loop' = loop /\ sent' = sent /\ flow' = flow /\ broken' = broken /\ buf' = buf
      /\ index' = index /\ delivered' = delivered /\ receiver' = receiver
  BY DEF Close
<1>2. InStream'
  <2>1. PICK plan, off : Fits(plan, off, delivered, sent, "open", broken, buf, index, flow)
    BY <1>1 DEF IInv, InStream
  <2>2. Fits(plan, off, delivered, sent, "closed", broken, buf, index, flow)
    BY <2>1 DEF Fits, Told, Long
  <2>3. Fits(plan, off, delivered', sent', sender', broken', buf', index', flow')
    BY <1>1, <2>2
  <2> QED BY <2>3 DEF InStream
<1>3. TypeOK'
  BY <1>1 DEF IInv, TypeOK
<1>4. AllTaken'
  BY <1>1 DEF IInv, AllTaken
<1> QED BY <1>2, <1>3, <1>4 DEF IInv

LEMMA ResetInv ==
  ASSUME IInv, Reset
  PROVE  IInv'
<1>1. /\ broken = "no" /\ broken' = "yes" /\ flow' = <<>>
      /\ loop' = loop /\ sent' = sent /\ sender' = sender /\ buf' = buf
      /\ index' = index /\ delivered' = delivered /\ receiver' = receiver
  BY DEF Reset
<1>2. InStream'
  <2>1. PICK plan, off : Fits(plan, off, delivered, sent, sender, broken, buf, index, flow)
    BY DEF IInv, InStream
  <2>2. /\ Laid(plan, off) /\ Told(plan, off, delivered, sent, sender)
        /\ Long(plan, off, sent, sender, broken, index, flow)
        /\ Holds(plan, off, Len(delivered), buf, index, flow)
    BY <2>1 DEF Fits
  <2>3. Len(delivered) \in Nat /\ index \in Nat /\ Len(flow) \in Nat /\ off[Len(plan) + 1] \in Int
    BY <2>1, InvIn, FitsIn
  <2>4. Holds(plan, off, Len(delivered), buf, index, <<>>)
    BY <2>2, <2>3, Breaks
  <2>5. Long(plan, off, sent, sender, "yes", index, <<>>)
    <3>1. /\ index + Len(flow) <= off[Len(plan) + 1]
          /\ (sender = "cut" => index + Len(flow) < off[Len(plan) + 1])
      BY <2>2 DEF Long
    <3>2. <<>> \in Seq(Byte) /\ Len(<<>>) = 0
      OBVIOUS
    <3>3. /\ index + Len(<<>>) <= off[Len(plan) + 1]
          /\ (sender = "cut" => index + Len(<<>>) < off[Len(plan) + 1])
      BY <2>3, <3>1, <3>2
    <3> QED BY <3>2, <3>3 DEF Long
  <2>6. Fits(plan, off, delivered', sent', sender', broken', buf', index', flow')
    BY <1>1, <2>2, <2>4, <2>5 DEF Fits
  <2> QED BY <2>6 DEF InStream
<1>3. TypeOK'
  <2>1. flow' \in Seq(Byte)
    BY <1>1
  <2> QED BY <1>1, <2>1 DEF IInv, TypeOK
<1>4. AllTaken'
  BY <1>1 DEF AllTaken
<1> QED BY <1>2, <1>3, <1>4 DEF IInv

(* Parse keeps what is in the stream. *)
LEMMA ParseFits ==
  ASSUME IInv, NEW b \in Buffers, NEW n \in 0..BUFFER_SIZE, NEW f, Parse(b, n),
         \E plan, off : Fits(plan, off, delivered, sent, sender, broken, b, n, f)
  PROVE  /\ \E plan, off : Fits(plan, off, delivered', sent, sender, broken, buf', index', f)
         /\ buf' \in Buffers /\ index' \in 0..BUFFER_SIZE /\ delivered' \in Seq(Packs)
         /\ receiver' = receiver \/ receiver' = IF loop = "all" THEN "recv" ELSE "over"
<1> DEFINE got == CPacket(b, AfterHead(b, n), n)
<1>1. n \in Nat /\ n <= BUFFER_SIZE
  BY SizeType
<1>2. got.nSize \in 0..n /\ got.pack \in Packs
  <2>1. AfterHead(b, n) \in Nat
    BY <1>1, AfterHeadIs
  <2> QED BY <1>1, <2>1, CPacketType DEF Packs
<1>3. PICK plan, off : Fits(plan, off, delivered, sent, sender, broken, b, n, f)
  OBVIOUS
<1>4. \/ got.nSize = 0 /\ buf' = b /\ index' = n /\ delivered' = delivered /\ receiver' = receiver
      \/ /\ got.nSize # 0 /\ delivered' = Append(delivered, got.pack) /\ index' = n - got.nSize
         /\ buf' = MoveDown(b, got.nSize, n - got.nSize)
         /\ receiver' = IF loop = "all" THEN "recv" ELSE "over"
  BY DEF Parse
<1>5. delivered \in Seq(Packs)
  BY InvIn
<1>6. got.nSize # 0 =>
        \E less : Fits(plan, less, Append(delivered, got.pack), sent, sender, broken,
                       MoveDown(b, got.nSize, n - got.nSize), n - got.nSize, f)
  BY <1>3, Parsed
<1> HIDE DEF got
<1>7. CASE got.nSize = 0 /\ buf' = b /\ index' = n /\ delivered' = delivered /\ receiver' = receiver
  <2>1. Fits(plan, off, delivered', sent, sender, broken, buf', index', f)
    BY <1>3, <1>7
  <2> QED BY <1>5, <1>7, <2>1
<1>8. CASE /\ got.nSize # 0 /\ delivered' = Append(delivered, got.pack) /\ index' = n - got.nSize
           /\ buf' = MoveDown(b, got.nSize, n - got.nSize)
           /\ receiver' = IF loop = "all" THEN "recv" ELSE "over"
  <2>1. \E less : Fits(plan, less, delivered', sent, sender, broken, buf', index', f)
    BY <1>6, <1>8
  <2>2. got.nSize \in Nat /\ n - got.nSize \in Nat /\ got.nSize + (n - got.nSize) <= BUFFER_SIZE
        /\ n - got.nSize \in 0..BUFFER_SIZE
    BY <1>1, <1>2, SizeType
  <2>3. buf' \in Buffers
    BY <1>8, <2>2, MoveDownIs
  <2>4. delivered' \in Seq(Packs)
    BY <1>2, <1>5, <1>8
  <2> QED BY <1>8, <2>1, <2>2, <2>3, <2>4
<1> QED BY <1>4, <1>7, <1>8

LEMMA TypeAfterParse ==
  ASSUME IInv, buf' \in Buffers, index' \in 0..BUFFER_SIZE, delivered' \in Seq(Packs),
         receiver' \in {"recv", "over", "undefined"}, flow' \in Seq(Byte),
         loop' = loop, sent' = sent, sender' = sender, broken' = broken
  PROVE  TypeOK'
BY DEF IInv, TypeOK, Buffers, Packs

LEMMA RecvInv ==
  ASSUME IInv, NEW n \in 1..Len(flow), Recv(n)
  PROVE  IInv'
<1> DEFINE b == Received(buf, index, flow, n)
           f == SubSeq(flow, n + 1, Len(flow))
<1>1. /\ receiver = "recv" /\ n <= Room /\ flow' = f /\ Parse(b, index + n)
      /\ loop' = loop /\ sent' = sent /\ sender' = sender /\ broken' = broken
  BY DEF Recv, Received
<1>2. /\ buf \in Buffers /\ index \in Nat /\ index <= BUFFER_SIZE /\ flow \in Seq(Byte)
      /\ Len(flow) \in Nat /\ receiver \in {"recv", "over", "undefined"}
  BY InvIn
<1>3. /\ n \in Nat /\ n >= 1 /\ n <= Len(flow) /\ index + n <= BUFFER_SIZE
      /\ index + n \in 0..BUFFER_SIZE /\ index + n \in Nat
  BY <1>1, <1>2, SizeType DEF Room
<1>4. b \in Buffers
  BY <1>2, <1>3, ReceivedIs
<1>5. PICK plan, off : Fits(plan, off, delivered, sent, sender, broken, buf, index, flow)
  BY DEF IInv, InStream
<1>6. /\ Laid(plan, off) /\ Told(plan, off, delivered, sent, sender)
      /\ Long(plan, off, sent, sender, broken, index, flow)
      /\ Holds(plan, off, Len(delivered), buf, index, flow)
  BY <1>5 DEF Fits
<1>7. /\ Len(delivered) \in Nat /\ Len(delivered) + 1 \in 1..(Len(plan) + 1)
      /\ off[Len(delivered) + 1] = 0
  BY <1>2, <1>5, FitsIn
<1>8. f \in Seq(Byte) /\ Len(f) = Len(flow) - n /\ Holds(plan, off, Len(delivered), b, index + n, f)
  <2> DEFINE d == Len(delivered)
  <2>1. d \in Nat /\ d + 1 \in 1..(Len(plan) + 1) /\ off[d + 1] = 0
        /\ Holds(plan, off, d, buf, index, flow)
    BY <1>6, <1>7
  <2> HIDE DEF d
  <2>2. f \in Seq(Byte) /\ Len(f) = Len(flow) - n /\ Holds(plan, off, d, b, index + n, f)
    BY <1>2, <1>3, <1>6, <2>1, Gets
  <2> QED BY <2>2 DEF d
<1> HIDE DEF b, f
<1>9. Long(plan, off, sent, sender, broken, index + n, f)
  <2>1. index + n + Len(f) = index + Len(flow)
    BY <1>2, <1>3, <1>8
  <2>2. broken # "yes"
    <3>1. broken = "yes" => flow = <<>>
      BY <1>6 DEF Long
    <3>2. flow # <<>>
      BY <1>2, <1>3
    <3> QED BY <3>1, <3>2
  <2> QED BY <1>6, <1>8, <2>1, <2>2 DEF Long
<1>10. Fits(plan, off, delivered, sent, sender, broken, b, index + n, f)
  BY <1>6, <1>8, <1>9 DEF Fits
<1>11. /\ \E p, o : Fits(p, o, delivered', sent, sender, broken, buf', index', f)
       /\ buf' \in Buffers /\ index' \in 0..BUFFER_SIZE /\ delivered' \in Seq(Packs)
       /\ (receiver' = receiver \/ receiver' = IF loop = "all" THEN "recv" ELSE "over")
  BY <1>1, <1>3, <1>4, <1>10, ParseFits
<1>12. InStream'
  BY <1>1, <1>11 DEF InStream
<1>13. receiver' \in {"recv", "over", "undefined"} /\ (loop = "all" => receiver' = "recv")
  BY <1>1, <1>11
<1>14. TypeOK'
  BY <1>1, <1>8, <1>11, <1>13, TypeAfterParse
<1>15. AllTaken'
  BY <1>1, <1>13 DEF AllTaken
<1> QED BY <1>12, <1>14, <1>15 DEF IInv

(* When SendPack finds its buffer empty and the stream at its end, it has   *)
(* delivered all that was sent.                                             *)
LEMMA EmptyAtEnd ==
  ASSUME IInv, index = 0, flow = <<>>, sender # "open", broken = "no"
  PROVE  delivered = sent
<1>1. PICK plan, off : Fits(plan, off, delivered, sent, sender, broken, buf, index, flow)
  BY DEF IInv, InStream
<1>2. index \in Nat /\ sent \in Seq(Packets) /\ delivered \in Seq(Packs)
  BY InvIn
<1> DEFINE d == Len(delivered)
           s == Len(sent)
<1>3. /\ d \in Nat /\ s \in Nat /\ Len(plan) \in Nat /\ d <= s /\ s <= Len(plan)
      /\ off[d + 1] = 0 /\ off[s + 1] \in Int
  BY <1>1, <1>2, FitsIn
<1>4. off[s + 1] <= 0
  <2>1. Long(plan, off, sent, sender, broken, index, flow) /\ Told(plan, off, delivered, sent, sender)
    BY <1>1 DEF Fits
  <2>2. Len(flow) = 0
    OBVIOUS
  <2>3. CASE sender = "cut"
    <3>1. index + Len(flow) >= off[s + 1]
      BY <2>1, <2>3 DEF Long
    <3> QED BY <1>3, <2>2, <3>1
  <2>4. CASE sender # "cut"
    <3>1. plan = sent /\ index + Len(flow) = off[Len(plan) + 1]
      BY <2>1, <2>4 DEF Long, Told
    <3> QED BY <1>3, <2>2, <3>1
  <2> QED BY <2>3, <2>4
<1>5. d = s
  <2> SUFFICES ASSUME d # s PROVE FALSE
    OBVIOUS
  <2>1. d + 1 \in 1..(Len(plan) + 1) /\ s + 1 \in 1..(Len(plan) + 1) /\ d + 1 < s + 1
    BY <1>3
  <2>2. Laid(plan, off)
    BY <1>1 DEF Fits
  <2>3. off[d + 1] < off[s + 1]
    BY <2>1, <2>2, LaidIn
  <2> QED BY <1>3, <1>4, <2>3
<1>6. \A k \in 1..d : delivered[k] = sent[k]
  BY <1>1 DEF Fits, Told
<1>7. delivered = [k \in 1..d |-> delivered[k]] /\ sent = [k \in 1..s |-> sent[k]]
  BY <1>2
<1> QED BY <1>5, <1>6, <1>7

LEMMA RecvNothingInv ==
  ASSUME IInv, RecvNothing
  PROVE  IInv'
<1>1. /\ receiver = "recv" /\ broken = "no"
      /\ (flow = <<>> /\ sender # "open") \/ Room = 0
      /\ loop' = loop /\ sent' = sent /\ flow' = flow /\ sender' = sender /\ broken' = broken
  BY DEF RecvNothing
<1>2. /\ buf \in Buffers /\ index \in Nat /\ index <= BUFFER_SIZE /\ flow \in Seq(Byte)
      /\ delivered \in Seq(Packs) /\ index \in 0..BUFFER_SIZE
  <2>1. /\ buf \in Buffers /\ index \in Nat /\ index <= BUFFER_SIZE /\ flow \in Seq(Byte)
        /\ delivered \in Seq(Packs)
    BY InvIn
  <2> QED BY <2>1, SizeType
<1>3. CASE Over
  <2>1. receiver' = "over" /\ buf' = buf /\ index' = index /\ delivered' = delivered
    BY <1>3 DEF RecvNothing
  <2>2. TypeOK'
    BY <1>1, <1>2, <2>1, TypeAfterParse
  <2>3. InStream'
    BY <1>1, <2>1 DEF IInv, InStream
  <2>4. AllTaken'
    <3> SUFFICES ASSUME loop = "all" PROVE sender # "open" /\ delivered = sent
      BY <1>1, <2>1 DEF AllTaken
    <3>1. index = 0
      BY <1>3 DEF Over
    <3>2. flow = <<>> /\ sender # "open"
      BY <1>1, <3>1, SizeType DEF Room
    <3> QED BY <1>1, <3>1, <3>2, EmptyAtEnd
  <2> QED BY <2>2, <2>3, <2>4 DEF IInv
<1>4. CASE ~Over
  <2>1. Parse(buf, index)
    BY <1>4 DEF RecvNothing
  <2>2. \E p, o : Fits(p, o, delivered, sent, sender, broken, buf, index, flow)
    BY DEF IInv, InStream
  <2>3. /\ \E p, o : Fits(p, o, delivered', sent, sender, broken, buf', index', flow)
        /\ buf' \in Buffers /\ index' \in 0..BUFFER_SIZE /\ delivered' \in Seq(Packs)
        /\ (receiver' = receiver \/ receiver' = IF loop = "all" THEN "recv" ELSE "over")
    BY <1>2, <2>1, <2>2, ParseFits
  <2>4. receiver' \in {"recv", "over", "undefined"} /\ (loop = "all" => receiver' = "recv")
    BY <1>1, <2>3
  <2>5. TypeOK'
    BY <1>1, <1>2, <2>3, <2>4, TypeAfterParse
  <2>6. InStream'
    BY <1>1, <2>3 DEF InStream
  <2>7. AllTaken'
    BY <1>1, <2>4 DEF AllTaken
  <2> QED BY <2>5, <2>6, <2>7 DEF IInv
<1> QED BY <1>3, <1>4

LEMMA RecvErrorInv ==
  ASSUME IInv, RecvError
  PROVE  IInv'
<1>1. /\ receiver = "recv" /\ broken = "yes"
      /\ loop' = loop /\ sent' = sent /\ flow' = flow /\ sender' = sender /\ broken' = broken
  BY DEF RecvError
<1>2. /\ buf \in Buffers /\ index \in Nat /\ index <= BUFFER_SIZE /\ flow \in Seq(Byte)
      /\ delivered \in Seq(Packs) /\ index \in 0..BUFFER_SIZE
  <2>1. /\ buf \in Buffers /\ index \in Nat /\ index <= BUFFER_SIZE /\ flow \in Seq(Byte)
        /\ delivered \in Seq(Packs)
    BY InvIn
  <2> QED BY <2>1, SizeType
<1>a. AllTaken'
  BY <1>1 DEF AllTaken
<1>3. CASE ~(index > 0)
  <2>1. /\ buf' = buf /\ index' = index /\ delivered' = delivered
        /\ receiver' = IF loop = "deal" THEN "undefined" ELSE "over"
    BY <1>3 DEF RecvError
  <2>2. TypeOK'
    BY <1>1, <1>2, <2>1, TypeAfterParse
  <2>3. InStream'
    BY <1>1, <2>1 DEF IInv, InStream
  <2> QED BY <1>a, <2>2, <2>3 DEF IInv
<1>4. CASE index > 0
  <2>1. Parse(buf, index - 1)
    BY <1>4 DEF RecvError
  <2>2. index - 1 \in 0..BUFFER_SIZE /\ index - 1 \in Nat
    BY <1>2, <1>4, SizeType
  <2>3. PICK plan, off : Fits(plan, off, delivered, sent, sender, broken, buf, index, flow)
    BY DEF IInv, InStream
  <2>4. /\ Laid(plan, off) /\ Told(plan, off, delivered, sent, sender)
        /\ Long(plan, off, sent, sender, broken, index, flow)
        /\ Holds(plan, off, Len(delivered), buf, index, flow)
    BY <2>3 DEF Fits
  <2>5. Len(delivered) \in Nat /\ off[Len(plan) + 1] \in Int
    BY <1>2, <2>3, FitsIn
  <2>6. flow = <<>>
    BY <1>1, <2>4 DEF Long
  <2>7. Holds(plan, off, Len(delivered), buf, index - 1, flow)
    BY <1>2, <1>4, <2>4, <2>5, <2>6, Loses
  <2>8. Long(plan, off, sent, sender, broken, index - 1, flow)
    <3>1. /\ index + Len(flow) <= off[Len(plan) + 1]
          /\ (sender = "cut" => index + Len(flow) < off[Len(plan) + 1])
      BY <2>4 DEF Long
    <3>2. Len(flow) = 0
      BY <2>6
    <3>3. /\ index - 1 + Len(flow) <= off[Len(plan) + 1]
          /\ (sender = "cut" => index - 1 + Len(flow) < off[Len(plan) + 1])
      BY <1>2, <2>5, <3>1, <3>2
    <3> QED BY <1>1, <1>2, <2>6, <3>3 DEF Long
  <2>9. \E p, o : Fits(p, o, delivered, sent, sender, broken, buf, index - 1, flow)
    BY <2>4, <2>7, <2>8 DEF Fits
  <2>10. /\ \E p, o : Fits(p, o, delivered', sent, sender, broken, buf', index', flow)
         /\ buf' \in Buffers /\ index' \in 0..BUFFER_SIZE /\ delivered' \in Seq(Packs)
         /\ (receiver' = receiver \/ receiver' = IF loop = "all" THEN "recv" ELSE "over")
    BY <1>2, <2>1, <2>2, <2>9, ParseFits
  <2>11. TypeOK'
    BY <1>1, <1>2, <2>10, TypeAfterParse
  <2>12. InStream'
    BY <1>1, <2>10 DEF InStream
  <2> QED BY <1>a, <2>11, <2>12 DEF IInv
<1> QED BY <1>3, <1>4

LEMMA StepInv == IInv /\ [Next]_vars => IInv'
<1> SUFFICES ASSUME IInv, [Next]_vars PROVE IInv'
  OBVIOUS
<1>1. ASSUME NEW p \in Packets, Send(p) PROVE IInv'
  BY <1>1, SendInv
<1>2. ASSUME NEW p \in Packets, NEW n \in 1..(Len(Data(p)) - 1), Cut(p, n) PROVE IInv'
  BY <1>2, CutInv
<1>3. CASE Close
  BY <1>3, CloseInv
<1>4. CASE Reset
  BY <1>4, ResetInv
<1>5. ASSUME NEW n \in 1..Len(flow), Recv(n) PROVE IInv'
  BY <1>5, RecvInv
<1>6. CASE RecvNothing
  BY <1>6, RecvNothingInv
<1>7. CASE RecvError
  BY <1>7, RecvErrorInv
<1>8. CASE UNCHANGED vars
  BY <1>8 DEF vars, IInv, TypeOK, InStream, AllTaken
<1> QED BY <1>1, <1>2, <1>3, <1>4, <1>5, <1>6, <1>7, <1>8 DEF Next, Receiver

(* The bytes before the loop are those of the packets not yet delivered.    *)
THEOREM IInvHolds == Spec => []IInv
BY InitInv, StepInv, PTL DEF Spec

(* The variables of the loop keep their types, for every size of the buffer *)
(* that a DWORD can count and every set of packets that fit into it.        *)
THEOREM StreamTypeCorrect == Spec => []TypeOK
<1>1. IInv => TypeOK
  BY DEF IInv
<1> QED BY <1>1, IInvHolds, PTL

(* Whatever recv() makes of the stream, the packets taken out are those     *)
(* that were put in, in order, and all of them when the sender's closing    *)
(* ends SendPack.                                                           *)
THEOREM InOrderHolds == Spec => []InOrder
<1>1. IInv => InOrder
  <2> SUFFICES ASSUME IInv PROVE InOrder
    OBVIOUS
  <2>1. PICK plan, off : Fits(plan, off, delivered, sent, sender, broken, buf, index, flow)
    BY DEF IInv, InStream
  <2>2. /\ Len(delivered) <= Len(sent) /\ Len(delivered) \in Nat /\ Len(sent) \in Nat
        /\ \A k \in 1..Len(delivered) : delivered[k] = sent[k]
        /\ delivered \in Seq(Packs) /\ sent \in Seq(Packets)
    BY <2>1, InvIn, LenProperties DEF Fits, Told
  <2>3. IsPrefix(delivered, sent)
    BY <2>2 DEF IsPrefix
  <2>4. loop = "all" /\ receiver = "over" /\ broken = "no" => sender # "open" /\ delivered = sent
    BY DEF IInv, AllTaken
  <2> QED BY <2>3, <2>4 DEF InOrder
<1> QED BY <1>1, IInvHolds, PTL
=============================================================================
