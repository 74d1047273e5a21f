------------------------- MODULE FrameParserProofs -------------------------
(***************************************************************************)
(* The frame parser on real bytes, for every size of the buffer, every     *)
(* base of a byte, every stream of frames and every way it arrives.        *)
(*                                                                         *)
(* FrameInv says where the bytes of the stream are: those of the frames    *)
(* not yet delivered begin with the unread cells of the ring, in the order *)
(* of Cell, and go on with what the kernel still has (Content).  With it   *)
(* the three branches of GetCmdDataLength are one function of the stream   *)
(* (ParsedWhole), and what they decide is a fact about the next frame.     *)
(*                                                                         *)
(* The stream and the checksum are recursive functions.  What is proved of *)
(* them is proved by taking the least number for which it fails.           *)
(***************************************************************************)
EXTENDS FrameParser, RecvRingProofs, SequenceTheorems, WellFoundedInduction, TLAPS

-----------------------------------------------------------------------------
(* Numbers and recursive functions. *)

(* A set of natural numbers that is not empty has a least element. *)
LEMMA LeastNat ==
  ASSUME NEW S, S \subseteq Nat, S # {}
  PROVE  \E x \in S : \A y \in S : x <= y
<1>1. PICK x \in S : \A y \in S : ~(<<y, x>> \in OpToRel(<, Nat))
  BY NatLessThanWellFounded, WFMin
<1>2. \A y \in S : ~(y < x)
  BY <1>1 DEF OpToRel
<1>3. \A y \in S : x <= y
  BY <1>2
<1>4. QED
  BY <1>3

(* There are at least two bytes, so that a byte can be wrong. *)
LEMMA BaseIs == ByteBase \in Nat /\ ByteBase > 1 /\ Dword \in Nat
<1>1. ByteBase \in Nat /\ ByteBase > 0
  BY FrameAssumption DEF Byte
<1>2. Dword \in Nat
  BY <1>1 DEF Dword
<1>3. ByteBase # 1
  BY FrameAssumption, RingAssumption DEF Dword
<1>4. QED
  BY <1>1, <1>2, <1>3

(* A remainder is a byte. *)
LEMMA ModIsByte ==
  ASSUME NEW n \in Nat
  PROVE  n % ByteBase \in Byte
BY BaseIs DEF Byte

(* The byte other(b) is a byte, and a different one. *)
LEMMA OtherByte ==
  ASSUME NEW b \in Byte
  PROVE  (b + 1) % ByteBase \in Byte /\ (b + 1) % ByteBase # b
<1>1. b \in Nat /\ b < ByteBase /\ ByteBase \in Nat /\ ByteBase > 1
  BY BaseIs DEF Byte
<1>2. CASE b + 1 < ByteBase
  <2>1. (b + 1) % ByteBase = b + 1
    BY <1>1, <1>2
  <2>2. QED
    BY <1>1, <1>2, <2>1 DEF Byte
<1>3. CASE b + 1 = ByteBase
  <2>1. (b + 1) % ByteBase = 0
    BY <1>1, <1>3
  <2>2. QED
    BY <1>1, <1>3, <2>1 DEF Byte
<1>4. QED
  BY <1>1, <1>2, <1>3

(* Division with remainder. *)
LEMMA Divided ==
  ASSUME NEW n \in Nat
  PROVE  /\ n \div ByteBase \in Nat /\ n % ByteBase \in Nat
         /\ n = ByteBase * (n \div ByteBase) + (n % ByteBase)
BY BaseIs

(* The least digit of a number in this base, and the others. *)
LEMMA Smaller ==
  ASSUME NEW n \in Nat, NEW m \in Nat, n < ByteBase * m
  PROVE  n \div ByteBase < m
<1> DEFINE q == n \div ByteBase
           r == n % ByteBase
<1>1. q \in Nat /\ r \in Nat /\ n = ByteBase * q + r /\ ByteBase \in Nat
  BY Divided, BaseIs
<1> HIDE DEF q, r
<1>2. SUFFICES ASSUME q >= m PROVE FALSE
  BY <1>1 DEF q
<1>3. ByteBase * q >= ByteBase * m
  BY <1>1, <1>2
<1>4. QED
  BY <1>1, <1>3

(* The four length bytes of a DWORD are bytes, and say how long it is. *)
LEMMA LengthRead ==
  ASSUME NEW n \in Nat, n < Dword
  PROVE  LET b == LengthBytes(n) IN
         /\ b \in Seq(Byte) /\ Len(b) = 4
         /\ b[1] + ByteBase * (b[2] + ByteBase * (b[3] + ByteBase * b[4])) = n
<1> DEFINE q1 == n \div ByteBase
           q2 == q1 \div ByteBase
           q3 == q2 \div ByteBase
<1> DEFINE r0 == n % ByteBase
           r1 == q1 % ByteBase
           r2 == q2 % ByteBase
           r3 == q3 % ByteBase
<1>1. LengthBytes(n) = <<r0, r1, r2, r3>>
  BY DEF LengthBytes
<1>2. q1 \in Nat /\ q2 \in Nat /\ q3 \in Nat
  BY Divided
<1>3. r0 \in Byte /\ r1 \in Byte /\ r2 \in Byte /\ r3 \in Byte
  BY <1>2, ModIsByte
<1>4. n = ByteBase * q1 + r0 /\ q1 = ByteBase * q2 + r1 /\ q2 = ByteBase * q3 + r2
  BY <1>2, Divided
<1>5. r3 = q3
  <2>1. ByteBase \in Nat
    BY BaseIs
  <2>2. /\ ByteBase * ByteBase \in Nat /\ ByteBase * (ByteBase * ByteBase) \in Nat
        /\ Dword = ByteBase * (ByteBase * (ByteBase * ByteBase))
    BY <2>1 DEF Dword
  <2>3. q1 < ByteBase * (ByteBase * ByteBase)
    BY <2>2, Smaller
  <2>4. q2 < ByteBase * ByteBase
    BY <1>2, <2>2, <2>3, Smaller
  <2>5. q3 < ByteBase
    BY <1>2, <2>1, <2>4, Smaller
  <2>6. QED
    BY <1>2, <2>1, <2>5
<1> HIDE DEF q1, q2, q3, r0, r1, r2, r3
<1>6. <<r0, r1, r2, r3>> \in Seq(Byte) /\ Len(<<r0, r1, r2, r3>>) = 4
  BY <1>3
<1>7. r0 + ByteBase * (r1 + ByteBase * (r2 + ByteBase * r3)) = n
  <2>1. /\ r0 \in Int /\ r1 \in Int /\ r2 \in Int /\ r3 \in Int /\ ByteBase \in Int
    BY <1>3, BaseIs DEF Byte
  <2>2. r2 + ByteBase * r3 = q2
    BY <1>2, <1>4, <1>5, <2>1
  <2>3. r1 + ByteBase * q2 = q1
    BY <1>2, <1>4, <2>1
  <2>4. r0 + ByteBase * q1 = n
    BY <1>2, <1>4, <2>1
  <2>5. QED
    BY <2>2, <2>3, <2>4
<1>8. QED
  BY <1>1, <1>6, <1>7

(* What defines the function of which SumBytes is the last value. *)
SumFcn(s, r, m) ==
  r = [i \in 0..m |-> IF i = 0 THEN 0 ELSE (r[i - 1] + s[i]) % ByteBase]

(* There is such a function, one longer than any shorter one. *)
LEMMA SumFcnGrows ==
  ASSUME NEW s, NEW m \in Nat, NEW g, SumFcn(s, g, m)
  PROVE  \E h : SumFcn(s, h, m + 1)
<1> DEFINE step(x, i) == (x + s[i]) % ByteBase
<1> DEFINE h == [i \in 0..(m + 1) |-> IF i = m + 1 THEN step(g[m], i) ELSE g[i]]
<1>1. \A i \in 0..m : g[i] = IF i = 0 THEN 0 ELSE step(g[i - 1], i)
  BY Zenon DEF SumFcn
<1> HIDE DEF step
<1>2. \A i \in 0..(m + 1) : h[i] = IF i = 0 THEN 0 ELSE step(h[i - 1], i)
  <2> TAKE i \in 0..(m + 1)
  <2>1. CASE i = m + 1
    <3>1. h[i] = step(g[m], i) /\ h[i - 1] = g[m] /\ i # 0
      BY <2>1
    <3>2. QED
      BY <3>1
  <2>2. CASE i # m + 1
    <3>1. i \in 0..m /\ h[i] = g[i] /\ (i # 0 => h[i - 1] = g[i - 1])
      BY <2>2
    <3>2. QED
      BY <1>1, <3>1
  <2>3. QED
    BY <2>1, <2>2
<1>3. h = [i \in 0..(m + 1) |-> IF i = 0 THEN 0 ELSE step(h[i - 1], i)]
  BY <1>2
<1>4. SumFcn(s, h, m + 1)
  BY <1>3, Zenon DEF SumFcn, step
<1>5. QED
  BY <1>4

(* So SumBytes is defined for every sequence ... *)
LEMMA SumFcnExists ==
  ASSUME NEW s, NEW n \in Nat
  PROVE  \E r : SumFcn(s, r, n)
<1> DEFINE Bad == { m \in Nat : ~ \E r : SumFcn(s, r, m) }
<1>1. SUFFICES ASSUME Bad # {} PROVE FALSE
  OBVIOUS
<1>2. PICK m \in Bad : \A y \in Bad : m <= y
  BY <1>1, LeastNat
<1>3. m # 0
  <2> DEFINE z == [i \in 0..0 |-> 0]
  <2>1. z = [i \in 0..0 |-> IF i = 0 THEN 0 ELSE (z[i - 1] + s[i]) % ByteBase]
    OBVIOUS
  <2>2. SumFcn(s, z, 0)
    BY <2>1 DEF SumFcn
  <2>3. QED
    BY <2>2
<1>4. m - 1 \in Nat /\ m - 1 \notin Bad /\ (m - 1) + 1 = m
  BY <1>2, <1>3
<1>5. PICK r : SumFcn(s, r, m - 1)
  BY <1>4
<1>6. \E h : SumFcn(s, h, (m - 1) + 1)
  BY <1>4, <1>5, SumFcnGrows
<1>7. QED
  BY <1>4, <1>6

(* ... and is a byte. *)
LEMMA SumIsByte ==
  ASSUME NEW s \in Seq(Byte)
  PROVE  SumBytes(s) \in Byte
<1> DEFINE n == Len(s)
<1> DEFINE r == CHOOSE f : SumFcn(s, f, n)
<1>1. n \in Nat
  OBVIOUS
<1>2. SumBytes(s) = r[n]
  BY Zenon DEF SumBytes, SumFcn
<1>3. SumFcn(s, r, n)
  BY <1>1, SumFcnExists, Zenon
<1> HIDE DEF r
<1>4. \A i \in 0..n : r[i] = IF i = 0 THEN 0 ELSE (r[i - 1] + s[i]) % ByteBase
  BY <1>3, Zenon DEF SumFcn
<1> DEFINE Bad == { i \in 0..n : r[i] \notin Byte }
<1>5. SUFFICES ASSUME Bad # {} PROVE FALSE
  BY <1>1, <1>2
<1>6. PICK m \in Bad : \A y \in Bad : m <= y
  <2>1. Bad \subseteq Nat
    BY <1>1
  <2>2. QED
    BY <1>5, <2>1, LeastNat
<1>7. 0 \in Byte
  BY BaseIs DEF Byte
<1>8. m # 0
  BY <1>4, <1>6, <1>7
<1>9. m - 1 \in 0..n /\ m - 1 \notin Bad /\ m \in 1..n
  BY <1>6, <1>8
<1>10. r[m - 1] \in Nat /\ s[m] \in Nat
  <2>1. r[m - 1] \in Byte
    BY <1>9
  <2>2. s[m] \in Byte
    BY <1>9
  <2>3. QED
    BY <2>1, <2>2, BaseIs DEF Byte
<1>11. r[m] = (r[m - 1] + s[m]) % ByteBase
  BY <1>4, <1>8, <1>9
<1>12. r[m - 1] + s[m] \in Nat
  BY <1>10
<1>13. r[m] \in Byte
  BY <1>11, <1>12, ModIsByte
<1>14. QED
  BY <1>6, <1>13

-----------------------------------------------------------------------------
(* The bytes of a frame, and of a stream of frames. *)

(* A sequence is the function of its items. *)
LEMMA ItsItems ==
  ASSUME NEW S, NEW s \in Seq(S), NEW n, n = Len(s)
  PROVE  s = [k \in 1..n |-> s[k]]
OBVIOUS

(* Where the items of two sequences are when one is put behind the other. *)
Join(t, s1, s2) ==
  /\ Len(t) = Len(s1) + Len(s2)
  /\ \A i \in 1..Len(s1) : t[i] = s1[i]
  /\ \A i \in 1..Len(s2) : t[Len(s1) + i] = s2[i]

(* That is what the operator for it does. *)
LEMMA Joined ==
  ASSUME NEW S, NEW s1 \in Seq(S), NEW s2 \in Seq(S)
  PROVE  s1 \o s2 \in Seq(S) /\ Join(s1 \o s2, s1, s2)
<1> DEFINE t == s1 \o s2
<1>1. /\ t \in Seq(S) /\ Len(t) = Len(s1) + Len(s2)
      /\ \A i \in 1..(Len(s1) + Len(s2)) :
           t[i] = IF i <= Len(s1) THEN s1[i] ELSE s2[i - Len(s1)]
  BY ConcatProperties, Zenon
<1>2. Len(s1) \in Nat /\ Len(s2) \in Nat
  OBVIOUS
<1> HIDE DEF t
<1>3. \A i \in 1..Len(s1) : t[i] = s1[i]
  BY <1>1, <1>2
<1>4. \A i \in 1..Len(s2) : t[Len(s1) + i] = s2[i]
  <2> TAKE i \in 1..Len(s2)
  <2>1. Len(s1) + i \in 1..(Len(s1) + Len(s2)) /\ ~(Len(s1) + i <= Len(s1))
        /\ (Len(s1) + i) - Len(s1) = i
    BY <1>2
  <2>2. QED
    BY <1>1, <2>1
<1>5. QED
  BY <1>1, <1>3, <1>4 DEF t, Join

(* A sequence put together from four: how long it is and what is where. *)
FourPartsOf(e, a, b, c, d) ==
  LET n == Len(c) IN
  /\ Len(e) = n + 8
  /\ e[1] = a[1] /\ e[2] = a[2]
  /\ e[3] = b[1] /\ e[4] = b[2] /\ e[5] = b[3] /\ e[6] = b[4]
  /\ \A i \in 1..n : e[6 + i] = c[i]
  /\ e[n + 7] = d[1] /\ e[n + 8] = d[2]

(* That is a frame's layout: marks, length, data, trailer. *)
LEMMA FourParts ==
  ASSUME NEW S, NEW a \in Seq(S), NEW b \in Seq(S), NEW c \in Seq(S), NEW d \in Seq(S),
         Len(a) = 2, Len(b) = 4, Len(d) = 2
  PROVE  a \o b \o c \o d \in Seq(S) /\ FourPartsOf(a \o b \o c \o d, a, b, c, d)
<1> DEFINE n == Len(c)
<1> n \in Nat
  OBVIOUS
<1> DEFINE ab == a \o b
           abc == ab \o c
           e == abc \o d
<1>1. ab \in Seq(S) /\ Join(ab, a, b)
  BY Joined
<1> HIDE DEF ab
<1>2. abc \in Seq(S) /\ Join(abc, ab, c)
  BY <1>1, Joined
<1> HIDE DEF abc
<1>3. e \in Seq(S) /\ Join(e, abc, d)
  BY <1>2, Joined
<1> HIDE DEF e
<1> HIDE DEF n
<1>4. Len(ab) = 6 /\ Len(abc) = n + 6 /\ Len(e) = n + 8
  BY <1>1, <1>2, <1>3 DEF Join, n
<1>5. ab[1] = a[1] /\ ab[2] = a[2] /\ ab[3] = b[1] /\ ab[4] = b[2] /\ ab[5] = b[3] /\ ab[6] = b[4]
  <2>1. \A i \in 1..2 : ab[i] = a[i]
    BY <1>1 DEF Join
  <2>2. \A i \in 1..4 : ab[2 + i] = b[i]
    BY <1>1 DEF Join
  <2>3. QED
    BY <2>1, <2>2
<1>6. \A i \in 1..6 : e[i] = ab[i]
  <2> TAKE i \in 1..6
  <2>1. i \in 1..Len(ab) /\ i \in 1..Len(abc)
    BY <1>4
  <2>2. QED
    BY <1>2, <1>3, <2>1 DEF Join
<1>7. \A i \in 1..n : e[6 + i] = c[i]
  <2> TAKE i \in 1..n
  <2>1. i \in 1..Len(c) /\ Len(ab) + i = 6 + i /\ 6 + i \in 1..Len(abc)
    BY <1>4 DEF n
  <2>2. QED
    BY <1>2, <1>3, <2>1 DEF Join
<1>8. e[n + 7] = d[1] /\ e[n + 8] = d[2]
  <2>1. 1 \in 1..Len(d) /\ 2 \in 1..Len(d) /\ Len(abc) + 1 = n + 7 /\ Len(abc) + 2 = n + 8
    BY <1>4
  <2>2. QED
    BY <1>3, <2>1 DEF Join
<1>9. e[1] = a[1] /\ e[2] = a[2] /\ e[3] = b[1] /\ e[4] = b[2] /\ e[5] = b[3] /\ e[6] = b[4]
  BY <1>5, <1>6
<1>10. QED
  BY <1>3, <1>4, <1>7, <1>8, <1>9 DEF e, abc, ab, n, FourPartsOf

(* What the bytes of a frame are: the mark, the checksum or the end mark is
   not the right one exactly when the sender got it wrong. *)
LEMMA Encoded ==
  ASSUME NEW f \in FrameSet, Len(f.data) < Dword
  PROVE  LET e == Encode(f)
             n == Len(f.data)
         IN  /\ n \in Nat /\ e \in Seq(Byte) /\ Len(e) = n + 8
             /\ e[1] = MarkFB
             /\ e[2] = MarkFC <=> f.wrong # "mark"
             /\ e[3] + ByteBase * (e[4] + ByteBase * (e[5] + ByteBase * e[6])) = n
             /\ \A i \in 1..n : e[6 + i] = f.data[i]
             /\ e[n + 7] = SumBytes(f.data) <=> f.wrong # "sum"
             /\ e[n + 8] = Cr <=> f.wrong # "tail"
<1> DEFINE other(b) == (b + 1) % ByteBase
           n == Len(f.data)
           mark == IF f.wrong = "mark" THEN other(MarkFC) ELSE MarkFC
           sum == IF f.wrong = "sum" THEN other(SumBytes(f.data)) ELSE SumBytes(f.data)
           cr == IF f.wrong = "tail" THEN other(Cr) ELSE Cr
           lb == LengthBytes(n)
<1>1. f.data \in Seq(Byte) /\ n \in Nat /\ f.wrong \in {"none", "mark", "sum", "tail"}
  BY DEF FrameSet
<1>2. MarkFB \in Byte /\ MarkFC \in Byte /\ Cr \in Byte /\ SumBytes(f.data) \in Byte
  BY <1>1, FrameAssumption, SumIsByte
<1>3. /\ mark \in Byte /\ (mark = MarkFC <=> f.wrong # "mark")
      /\ sum \in Byte /\ (sum = SumBytes(f.data) <=> f.wrong # "sum")
      /\ cr \in Byte /\ (cr = Cr <=> f.wrong # "tail")
  <2> HIDE DEF other
  <2>1. \A b \in Byte : other(b) \in Byte /\ other(b) # b
    BY OtherByte DEF other
  <2>2. QED
    BY <1>2, <2>1
<1>4. Encode(f) = <<MarkFB, mark>> \o lb \o f.data \o <<sum, cr>>
  BY DEF Encode
<1>5. /\ lb \in Seq(Byte) /\ Len(lb) = 4
      /\ lb[1] + ByteBase * (lb[2] + ByteBase * (lb[3] + ByteBase * lb[4])) = n
  BY <1>1, LengthRead
<1> HIDE DEF mark, sum, cr, lb, n
<1> DEFINE a == <<MarkFB, mark>>
           d == <<sum, cr>>
<1>6. /\ a \in Seq(Byte) /\ Len(a) = 2 /\ a[1] = MarkFB /\ a[2] = mark
      /\ d \in Seq(Byte) /\ Len(d) = 2 /\ d[1] = sum /\ d[2] = cr
  BY <1>2, <1>3
<1>7. Encode(f) = a \o lb \o f.data \o d
  BY <1>4
<1> HIDE DEF a, d
<1> DEFINE e == Encode(f)
<1>8. /\ e \in Seq(Byte) /\ Len(e) = n + 8
      /\ e[1] = a[1] /\ e[2] = a[2]
      /\ e[3] = lb[1] /\ e[4] = lb[2] /\ e[5] = lb[3] /\ e[6] = lb[4]
      /\ \A i \in 1..n : e[6 + i] = f.data[i]
      /\ e[n + 7] = d[1] /\ e[n + 8] = d[2]
  <2>1. e \in Seq(Byte) /\ FourPartsOf(e, a, lb, f.data, d)
    BY <1>1, <1>5, <1>6, <1>7, FourParts
  <2>2. QED
    BY <2>1 DEF FourPartsOf, n
<1> HIDE DEF e
<1>9. /\ e[1] = MarkFB /\ e[2] = mark /\ e[n + 7] = sum /\ e[n + 8] = cr
  BY <1>6, <1>8
<1>10. e[3] + ByteBase * (e[4] + ByteBase * (e[5] + ByteBase * e[6])) = n
  BY <1>5, <1>8
<1>11. /\ e[2] = MarkFC <=> f.wrong # "mark"
       /\ e[n + 7] = SumBytes(f.data) <=> f.wrong # "sum"
       /\ e[n + 8] = Cr <=> f.wrong # "tail"
  BY <1>3, <1>9
<1>12. e = Encode(f) /\ n = Len(f.data)
  BY DEF e, n
<1>13. QED
  BY <1>1, <1>8, <1>9, <1>10, <1>11, <1>12

(* What defines the function of which StreamFrom is a value, from m on. *)
RestFcn(fs, r, m) ==
  r = [i \in m..(Len(fs) + 1) |-> IF i > Len(fs) THEN <<>> ELSE Encode(fs[i]) \o r[i + 1]]

(* There is such a function, one longer than any shorter one. *)
LEMMA RestFcnGrows ==
  ASSUME NEW fs, Len(fs) \in Nat, NEW m \in 1..Len(fs), NEW g, RestFcn(fs, g, m + 1)
  PROVE  \E h : RestFcn(fs, h, m)
<1> DEFINE n == Len(fs)
           empty == <<>>
           cat(f, s) == Encode(f) \o s
<1> DEFINE h == [i \in m..(n + 1) |-> IF i = m THEN cat(fs[m], g[m + 1]) ELSE g[i]]
<1>1. m \in Int /\ n \in Int /\ 1 <= m /\ m <= n
  OBVIOUS
<1>2. \A i \in (m + 1)..(n + 1) : g[i] = IF i > n THEN empty ELSE cat(fs[i], g[i + 1])
  BY Zenon DEF RestFcn
<1> HIDE DEF n, cat, empty
<1>3. \A i \in m..(n + 1) : h[i] = IF i > n THEN empty ELSE cat(fs[i], h[i + 1])
  <2> TAKE i \in m..(n + 1)
  <2>1. CASE i = m
    <3>1. h[m] = cat(fs[m], g[m + 1]) /\ h[m + 1] = g[m + 1]
      BY <1>1
    <3>2. QED
      BY <1>1, <2>1, <3>1
  <2>2. CASE i # m
    <3>1. h[i] = g[i] /\ i \in (m + 1)..(n + 1) /\ (i <= n => h[i + 1] = g[i + 1])
      BY <1>1, <2>2
    <3>2. QED
      BY <1>1, <1>2, <3>1
  <2>3. QED
    BY <2>1, <2>2
<1>4. h = [i \in m..(n + 1) |-> IF i > n THEN empty ELSE cat(fs[i], h[i + 1])]
  BY <1>3
<1>5. RestFcn(fs, h, m)
  BY <1>4, Zenon DEF RestFcn, n, cat, empty
<1>6. QED
  BY <1>5

(* So StreamFrom is defined for every sequence of frames. *)
LEMMA RestFcnExists ==
  ASSUME NEW fs, Len(fs) \in Nat
  PROVE  \E r : RestFcn(fs, r, 1)
<1> DEFINE n == Len(fs)
           Bad == { m \in 0..n : ~ \E r : RestFcn(fs, r, (n + 1) - m) }
<1>1. SUFFICES ASSUME Bad # {} PROVE FALSE
  <2>1. n \in 0..n /\ (n + 1) - n = 1
    OBVIOUS
  <2>2. QED
    BY <2>1
<1>2. PICK m \in Bad : \A y \in Bad : m <= y
  <2>1. Bad \subseteq Nat
    OBVIOUS
  <2>2. QED
    BY <1>1, <2>1, LeastNat
<1>3. m # 0
  <2> DEFINE z == [i \in (n + 1)..(n + 1) |-> <<>>]
  <2>1. \A i \in (n + 1)..(n + 1) : i > n
    OBVIOUS
  <2>2. RestFcn(fs, z, n + 1)
    BY <2>1, Zenon DEF RestFcn
  <2>3. (n + 1) - 0 = n + 1
    OBVIOUS
  <2>4. QED
    BY <2>2, <2>3
<1>4. m - 1 \in 0..n /\ m - 1 \notin Bad
  BY <1>2, <1>3
<1> DEFINE k == (n + 1) - m
<1>5. k \in 1..n /\ (n + 1) - (m - 1) = k + 1
  BY <1>2, <1>3
<1>6. PICK r : RestFcn(fs, r, k + 1)
  BY <1>4, <1>5
<1>7. \E h : RestFcn(fs, h, k)
  <2> HIDE DEF k
  <2>1. QED
    BY <1>5, <1>6, RestFcnGrows
<1>8. QED
  BY <1>2, <1>7

(* The stream from frame k on is that frame and the stream behind it. *)
LEMMA StreamUnfolds ==
  ASSUME NEW fs, Len(fs) \in Nat, NEW k \in 1..(Len(fs) + 1)
  PROVE  /\ k > Len(fs) => StreamFrom(fs, k) = <<>>
         /\ k <= Len(fs) => StreamFrom(fs, k) = Encode(fs[k]) \o StreamFrom(fs, k + 1)
<1> DEFINE r == CHOOSE f : RestFcn(fs, f, 1)
           cat(f, s) == Encode(f) \o s
           empty == <<>>
<1>1. \A i : StreamFrom(fs, i) = r[i]
  BY Zenon DEF StreamFrom, RestFcn
<1>2. RestFcn(fs, r, 1)
  BY RestFcnExists, Zenon
<1> HIDE DEF r
<1>3. r[k] = IF k > Len(fs) THEN empty ELSE cat(fs[k], r[k + 1])
  BY <1>2, Zenon DEF RestFcn
<1> HIDE DEF cat, empty
<1>4. /\ k > Len(fs) => r[k] = empty
      /\ k <= Len(fs) => r[k] = cat(fs[k], r[k + 1])
  BY <1>3
<1>5. QED
  BY <1>1, <1>4, Zenon DEF cat, empty

(* Frames of bytes that a client can send. *)
FramesOK(fs) == fs \in Seq(FrameSet) /\ \A i \in DOMAIN fs : Len(fs[i].data) < Dword

(* The stream is made of bytes. *)
LEMMA StreamIsBytes ==
  ASSUME NEW fs, FramesOK(fs), NEW k \in 1..(Len(fs) + 1)
  PROVE  StreamFrom(fs, k) \in Seq(Byte)
<1> DEFINE n == Len(fs)
           Bad == { m \in 0..n : StreamFrom(fs, (n + 1) - m) \notin Seq(Byte) }
<1>0. n \in Nat
  BY DEF FramesOK
<1>1. SUFFICES ASSUME Bad # {} PROVE FALSE
  <2>1. (n + 1) - k \in 0..n /\ (n + 1) - ((n + 1) - k) = k
    BY <1>0
  <2>2. QED
    BY <2>1
<1>2. PICK m \in Bad : \A y \in Bad : m <= y
  <2>1. Bad \subseteq Nat
    BY <1>0
  <2>2. QED
    BY <1>1, <2>1, LeastNat
<1> DEFINE j == (n + 1) - m
<1>3. m # 0
  <2>1. (n + 1) - 0 = n + 1 /\ n + 1 > n /\ n + 1 \in 1..(n + 1)
    BY <1>0
  <2>2. StreamFrom(fs, n + 1) = <<>>
    BY <1>0, <2>1, StreamUnfolds
  <2>3. StreamFrom(fs, n + 1) \in Seq(Byte)
    <3>1. <<>> \in Seq(Byte)
      OBVIOUS
    <3>2. QED
      BY <2>2, <3>1, Zenon
  <2>4. QED
    BY <1>2, <2>1, <2>3
<1>4. m - 1 \in 0..n /\ m - 1 \notin Bad /\ j \in 1..n /\ (n + 1) - (m - 1) = j + 1
  BY <1>0, <1>2, <1>3
<1>5. StreamFrom(fs, j + 1) \in Seq(Byte)
  BY <1>4
<1>6. Encode(fs[j]) \in Seq(Byte)
  <2> HIDE DEF j
  <2>1. fs[j] \in FrameSet /\ Len(fs[j].data) < Dword
    BY <1>4 DEF FramesOK
  <2>2. QED
    BY <2>1, Encoded, Zenon
<1>7. StreamFrom(fs, j) = Encode(fs[j]) \o StreamFrom(fs, j + 1)
  <2>1. j \in 1..(n + 1) /\ j <= n
    BY <1>0, <1>4
  <2> HIDE DEF j
  <2>2. QED
    BY <1>0, <2>1, StreamUnfolds
<1> HIDE DEF j
<1>8. StreamFrom(fs, j) \in Seq(Byte)
  BY <1>5, <1>6, <1>7, Joined
<1>9. QED
  BY <1>2, <1>8 DEF j

-----------------------------------------------------------------------------
(* The invariant. *)

(* The cell of the j-th unread byte. *)
Cell(j) ==
  IF dwReadpos + j - 1 < Bufsize THEN dwReadpos + j - 1 ELSE dwReadpos + j - 1 - Bufsize

(* What is still to come after the frames that have been delivered. *)
Rest == StreamFrom(frames, Len(got) + 1)

(* The unread cells hold the first bytes of it, the wire the others. *)
Content ==
  /\ Len(wire) + Unread = Len(Rest)
  /\ \A j \in 1..Unread : buf[Cell(j)] = Rest[j]
  /\ \A i \in 1..Len(wire) : wire[i] = Rest[Unread + i]

(* Bytes are bytes, and the stream is one of frames. *)
FrameTypes ==
  /\ FramesOK(frames)
  /\ buf \in [0..(Bufsize - 1) -> Byte]
  /\ wire \in Seq(Byte)
  /\ got \in Seq(Seq(Byte))

(* A worker that waits has not got the whole of the next frame. *)
NextIncomplete ==
  (io \in {"zero", "recv"} /\ Len(got) < Len(frames))
     => Unread < Len(frames[Len(got) + 1].data) + 8

(* After the first receive the write position is never 0 again. *)
Written == io \in {"loop", "zero", "recv"} => dwWritepos > 0

(* The inductive invariant: the ring's own, the types of the bytes, where the
   bytes of the stream are, and what has been delivered and checked so far. *)
FrameInv ==
  /\ RingInv /\ Written
  /\ FrameTypes
  /\ Content
  /\ FrameIntegrity
  /\ NextIncomplete
  /\ ClosedOnlyAtSeam
  /\ sock = "closed" => io = "ended"

-----------------------------------------------------------------------------
(* What the handlers do to the cells of the unread bytes. *)

(* A frame that is read moves the first unread byte to the one behind it. *)
LEMMA ReadMoves ==
  ASSUME RingTypeOK, FlagsAgree, NEW n \in Nat, n + 8 <= Unread, Read(HeaderEnd, n + 2),
         NEW j \in 1..(Unread - (n + 8))
  PROVE  Cell(j)' = Cell(n + 8 + j)
<1> USE RingAssumption
<1>1. /\ dwWritepos \in Int /\ dwReadpos \in Int /\ Bufsize \in Int
      /\ 0 <= dwWritepos /\ dwWritepos <= Bufsize /\ 0 <= dwReadpos /\ dwReadpos <= Bufsize
  BY DEF RingTypeOK
<1>2. dwReadpos' = ReadEnd(HeaderEnd, n + 2)
  BY DEF Read
<1>3. Unread \in Int /\ j \in Int /\ 1 <= j /\ j <= Unread - (n + 8)
  BY UnreadBound
<1>4. CASE dwWritepos > dwReadpos
  <2>1. Unread = dwWritepos - dwReadpos
    BY <1>3, <1>4 DEF Unread
  <2>2. HeaderEnd = dwReadpos + 6
    BY <1>1, <1>4 DEF HeaderEnd
  <2>3. dwReadpos' = dwReadpos + 8 + n
    BY <1>1, <1>2, <1>3, <2>1, <2>2 DEF ReadEnd
  <2>4. QED
    BY <1>1, <1>3, <2>1, <2>3 DEF Cell
<1>5. CASE dwWritepos <= dwReadpos
  <2>1. Unread = (Bufsize - dwReadpos) + dwWritepos
    BY <1>1, <1>3, <1>5 DEF Unread
  <2>2. CASE dwReadpos + 8 + n < Bufsize
    <3>1. dwReadpos' = dwReadpos + 8 + n
      BY <1>1, <1>2, <1>5, <2>2 DEF ReadEnd, HeaderEnd
    <3>2. QED
      BY <1>1, <1>3, <2>1, <3>1 DEF Cell
  <2>3. CASE dwReadpos + 8 + n >= Bufsize
    <3>1. dwReadpos' = dwReadpos + 8 + n - Bufsize
      BY <1>1, <1>2, <1>3, <1>5, <2>1, <2>3 DEF ReadEnd, HeaderEnd
    <3>2. QED
      BY <1>1, <1>3, <2>1, <2>3, <3>1 DEF Cell
  <2>4. QED
    BY <1>1, <2>2, <2>3
<1>6. QED
  BY <1>1, <1>4, <1>5

(* Read copies the bytes behind the header, whichever way they wrap. *)
LEMMA ReadCopies ==
  ASSUME RingTypeOK, FlagsAgree, NEW n \in Nat, n + 8 <= Unread
  PROVE  CopiedBytes(HeaderEnd, n) = [k \in 1..n |-> buf[Cell(6 + k)]]
<1> USE RingAssumption
<1> DEFINE from(r, k) == IF r < dwWritepos \/ r + k - 1 < Bufsize
                         THEN r + k - 1 ELSE r + k - 1 - Bufsize
<1>1. /\ dwWritepos \in Int /\ dwReadpos \in Int /\ Bufsize \in Int
      /\ 0 <= dwWritepos /\ dwWritepos <= Bufsize /\ 0 <= dwReadpos /\ dwReadpos <= Bufsize
  BY DEF RingTypeOK
<1>2. \A k \in 1..n : from(HeaderEnd, k) = Cell(6 + k)
  <2> TAKE k \in 1..n
  <2>0. k \in Int /\ 1 <= k /\ k <= n
    OBVIOUS
  <2>1. CASE dwWritepos > dwReadpos
    <3>1. HeaderEnd = dwReadpos + 6
      BY <1>1, <2>1 DEF HeaderEnd
    <3>2. n + 8 <= dwWritepos - dwReadpos
      BY <1>1, <2>1 DEF Unread
    <3>3. QED
      BY <1>1, <2>0, <2>1, <3>1, <3>2 DEF Cell
  <2>2. CASE dwWritepos <= dwReadpos
    <3>1. n + 8 <= (Bufsize - dwReadpos) + dwWritepos
      BY <1>1, <2>2 DEF Unread
    <3>2. CASE dwReadpos + 6 > Bufsize
      BY <1>1, <2>0, <2>2, <3>1, <3>2 DEF Cell, HeaderEnd
    <3>3. CASE dwReadpos + 6 <= Bufsize
      BY <1>1, <2>0, <2>2, <3>1, <3>3 DEF Cell, HeaderEnd
    <3>4. QED
      BY <1>1, <3>2, <3>3
  <2>3. QED
    BY <1>1, <2>1, <2>2
<1>3. CopiedBytes(HeaderEnd, n) = [k \in 1..n |-> buf[from(HeaderEnd, k)]]
  BY DEF CopiedBytes
<1> HIDE DEF from
<1>4. QED
  BY <1>2, <1>3, Zenon

(* What the n bytes a completion brings do to the cells: those that were
   unread stay, and the new ones are behind them. *)
Arrived(n) ==
  /\ Unread' = Unread + n
  /\ dwReadpos' = dwReadpos
  /\ \A j \in 1..Unread : buf'[Cell(j)] = buf[Cell(j)]
  /\ \A i \in 1..n : buf'[Cell(Unread + i)] = wire[i]

(* The first bytes of a connection arrive in an empty ring. *)
LEMMA AcceptArrives ==
  ASSUME RingInv, NEW n \in Nat, AcceptData(n), Scatter(n, Bufsize - AddrSpace),
         buf \in [0..(Bufsize - 1) -> Byte]
  PROVE  Arrived(n) /\ dwWritepos' > 0
<1> USE RingAssumption
<1>1. dwWritepos = 0 /\ dwReadpos = 0 /\ dwRightsize = 0 /\ bEmpty /\ ~bFull /\ Unread = 0
  BY DEF RingInv, AcceptClean, AcceptData, Unread
<1>2. n > 0 /\ n <= Bufsize - AddrSpace /\ Bufsize \in Int /\ AddrSpace \in Int
  BY DEF AcceptData
<1>3. InitWRpos(n)
  BY DEF AcceptData
<1>4. ~bEmpty'
  BY <1>1, <1>3, InitWRposFlags
<1>5. dwWritepos' = n /\ dwReadpos' = 0
  BY <1>1, <1>2, <1>3 DEF InitWRpos
<1>6. Unread' = n
  BY <1>2, <1>4, <1>5 DEF Unread
<1>7. \A i \in 1..n : buf'[i - 1] = wire[i]
  <2> TAKE i \in 1..n
  <2>1. i - 1 \in DOMAIN buf /\ 0 <= i - 1 /\ i - 1 < 0 + n /\ i - 1 < 0 + (Bufsize - AddrSpace)
        /\ (1 + (i - 1)) - 0 = i
    BY <1>2
  <2>2. QED
    BY <1>1, <2>1 DEF Scatter
<1>8. \A i \in 1..n : Cell(Unread + i) = i - 1
  BY <1>1, <1>2 DEF Cell
<1>9. QED
  BY <1>1, <1>2, <1>5, <1>6, <1>7, <1>8 DEF Arrived

(* The bytes of a later receive fill the segments of InitRLsize. *)
LEMMA RecvArrives ==
  ASSUME RingInv, NEW n \in Nat, RecvData(n), Scatter(n, dwRightsize),
         buf \in [0..(Bufsize - 1) -> Byte]
  PROVE  Arrived(n) /\ dwWritepos' > 0
<1> USE RingAssumption
<1>1. /\ dwWritepos \in Int /\ dwReadpos \in Int /\ Bufsize \in Int
      /\ 0 <= dwWritepos /\ dwWritepos <= Bufsize /\ 0 <= dwReadpos /\ dwReadpos <= Bufsize
      /\ dwRightsize \in Int /\ dwLeftsize \in Int /\ 0 <= dwRightsize /\ 0 <= dwLeftsize
  BY DEF RingInv, RingTypeOK
<1>2. io = "recv" /\ n > 0 /\ n <= dwRightsize + dwLeftsize /\ InitWRpos(n)
  BY <1>1 DEF RecvData
<1>3. ~bFull
  BY <1>2 DEF RingInv, SegmentsFresh
<1>4. ~bEmpty'
  BY <1>2, <1>3, InitWRposFlags
<1>5. /\ dwWritepos' = IF n > dwRightsize THEN n - dwRightsize ELSE dwWritepos + n
      /\ dwReadpos' = dwReadpos
  BY <1>2, <1>3 DEF InitWRpos
<1>6. \A i \in 0..(Bufsize - 1) :
        buf'[i] = IF dwWritepos <= i /\ i < dwWritepos + n /\ i < dwWritepos + dwRightsize
                  THEN wire[1 + i - dwWritepos]
                  ELSE IF i < n - dwRightsize THEN wire[dwRightsize + 1 + i]
                  ELSE buf[i]
  BY DEF Scatter
<1>7. CASE dwReadpos <= dwWritepos
  <2>1. dwRightsize = Bufsize - dwWritepos /\ dwLeftsize = dwReadpos
    BY <1>2, <1>3, <1>7 DEF RingInv, SegmentsFresh
  <2>2. Unread = dwWritepos - dwReadpos
    BY <1>1, <1>3, <1>7 DEF Unread, RingInv, FlagsAgree
  <2>3. Unread' = Unread + n
    BY <1>1, <1>2, <1>4, <1>5, <1>7, <2>1, <2>2 DEF Unread
  <2>4. ASSUME NEW j \in 1..Unread PROVE buf'[Cell(j)] = buf[Cell(j)]
    <3>1. j \in Int /\ 1 <= j /\ j <= dwWritepos - dwReadpos
      BY <1>1, <2>2
    <3>2. Cell(j) = dwReadpos + j - 1
      BY <1>1, <3>1 DEF Cell
    <3>3. QED
      BY <1>1, <1>2, <1>6, <2>1, <3>1, <3>2
  <2>5. ASSUME NEW i \in 1..n PROVE buf'[Cell(Unread + i)] = wire[i]
    <3>1. CASE i <= dwRightsize
      <4>1. Cell(Unread + i) = dwWritepos + i - 1
        BY <1>1, <2>1, <2>2, <3>1 DEF Cell
      <4>2. PICK c \in 0..(Bufsize - 1) : c = dwWritepos + i - 1
        BY <1>1, <2>1, <3>1
      <4>3. /\ dwWritepos <= c /\ c < dwWritepos + n /\ c < dwWritepos + dwRightsize
            /\ 1 + c - dwWritepos = i
        BY <1>1, <3>1, <4>2
      <4>4. QED
        BY <1>6, <4>1, <4>2, <4>3
    <3>2. CASE i > dwRightsize
      <4>1. Cell(Unread + i) = i - dwRightsize - 1
        BY <1>1, <2>1, <2>2, <3>2 DEF Cell
      <4>2. dwRightsize + 1 + (i - dwRightsize - 1) = i
        BY <1>1
      <4>3. QED
        BY <1>1, <1>2, <1>6, <1>7, <2>1, <3>2, <4>1, <4>2
    <3>3. QED
      BY <1>1, <3>1, <3>2
  <2>6. QED
    BY <1>1, <1>2, <1>5, <2>3, <2>4, <2>5 DEF Arrived
<1>8. CASE dwReadpos > dwWritepos
  <2>1. dwRightsize = dwReadpos - dwWritepos /\ dwLeftsize = 0
    BY <1>2, <1>3, <1>8 DEF RingInv, SegmentsFresh
  <2>2. Unread = (Bufsize - dwReadpos) + dwWritepos
    BY <1>1, <1>3, <1>8 DEF Unread, RingInv, FlagsAgree
  <2>3. Unread' = Unread + n
    BY <1>1, <1>2, <1>4, <1>5, <1>8, <2>1, <2>2 DEF Unread
  <2>4. ASSUME NEW j \in 1..Unread PROVE buf'[Cell(j)] = buf[Cell(j)]
    <3>1. j \in Int /\ 1 <= j /\ j <= (Bufsize - dwReadpos) + dwWritepos
      BY <1>1, <2>2
    <3>2. Cell(j) \in 0..(Bufsize - 1) /\ (Cell(j) >= dwReadpos \/ Cell(j) < dwWritepos)
      BY <1>1, <3>1 DEF Cell
    <3>3. QED
      BY <1>1, <1>2, <1>6, <2>1, <3>2
  <2>5. ASSUME NEW i \in 1..n PROVE buf'[Cell(Unread + i)] = wire[i]
    <3>1. Cell(Unread + i) = dwWritepos + i - 1
      BY <1>1, <1>2, <2>1, <2>2 DEF Cell
    <3>2. (1 + (dwWritepos + i - 1)) - dwWritepos = i
      BY <1>1
    <3>3. QED
      BY <1>1, <1>2, <1>6, <2>1, <3>1, <3>2
  <2>6. QED
    BY <1>1, <1>2, <1>5, <2>1, <2>3, <2>4, <2>5 DEF Arrived
<1>9. QED
  BY <1>1, <1>7, <1>8

-----------------------------------------------------------------------------
(* What GetCmdDataLength decides. *)

(* When the header has arrived, the three branches are one: they check the
   header and what is behind it, cell by cell. *)
LEMMA ParsedWhole ==
  ASSUME RingTypeOK, FlagsAgree, Unread >= 6
  PROVE  GetCmdDataLength = CheckFrame([k \in 0..5 |-> buf[Cell(1 + k)]],
                                       [k \in 0..(Unread - 7) |-> buf[Cell(7 + k)]],
                                       Unread)
<1> USE RingAssumption
<1> DEFINE hd == [k \in 0..5 |-> buf[Cell(1 + k)]]
           bd == [k \in 0..(Unread - 7) |-> buf[Cell(7 + k)]]
<1>1. /\ dwWritepos \in Int /\ dwReadpos \in Int /\ Bufsize \in Int
      /\ 0 <= dwWritepos /\ dwWritepos <= Bufsize /\ 0 <= dwReadpos /\ dwReadpos <= Bufsize
  BY DEF RingTypeOK
<1>2. ~bEmpty /\ Unread \in Int
  BY UnreadBound DEF Unread
<1>3. CASE dwWritepos > dwReadpos
  <2>1. Unread = dwWritepos - dwReadpos
    BY <1>2, <1>3 DEF Unread
  <2>2. GetCmdDataLength = LinearFrame
    BY <1>1, <1>2, <1>3 DEF GetCmdDataLength
  <2>3. \A k \in 0..5 : Cell(1 + k) = dwReadpos + k
    BY <1>1, <2>1 DEF Cell
  <2>4. \A k \in 0..(Unread - 7) : Cell(7 + k) = dwReadpos + 6 + k
    BY <1>1, <1>2, <2>1 DEF Cell
  <2>5. hd = [k \in 0..5 |-> buf[dwReadpos + k]]
    BY <2>3
  <2>6. bd = [k \in 0..(Unread - 7) |-> buf[dwReadpos + 6 + k]]
    BY <2>4
  <2> HIDE DEF hd, bd
  <2>7. LinearFrame = CheckFrame(hd, bd, Unread)
    BY <1>2, <2>1, <2>5, <2>6 DEF LinearFrame
  <2>8. QED
    BY <2>2, <2>7 DEF hd, bd
<1>4. CASE dwWritepos <= dwReadpos /\ Bufsize - dwReadpos < 6
  <2>1. Unread = (Bufsize - dwReadpos) + dwWritepos
    BY <1>1, <1>2, <1>4 DEF Unread
  <2>2. GetCmdDataLength = SplitHeaderFrame
    BY <1>1, <1>2, <1>4 DEF GetCmdDataLength
  <2>3. \A k \in 0..5 : Cell(1 + k) = IF k < Bufsize - dwReadpos THEN dwReadpos + k
                                      ELSE k - (Bufsize - dwReadpos)
    BY <1>1, <1>4 DEF Cell
  <2>4. \A k \in 0..(Unread - 7) : Cell(7 + k) = (dwReadpos + 6 - Bufsize) + k
    BY <1>1, <1>2, <1>4, <2>1 DEF Cell
  <2>5. hd = [k \in 0..5 |-> IF k < Bufsize - dwReadpos THEN buf[dwReadpos + k]
                             ELSE buf[k - (Bufsize - dwReadpos)]]
    BY <2>3
  <2>6. bd = [k \in 0..(Unread - 7) |-> buf[(dwReadpos + 6 - Bufsize) + k]]
    BY <2>4
  <2> HIDE DEF hd, bd
  <2>7. SplitHeaderFrame = CheckFrame(hd, bd, Unread)
    BY <2>1, <2>5, <2>6 DEF SplitHeaderFrame, subchar
  <2>8. QED
    BY <2>2, <2>7 DEF hd, bd
<1>5. CASE dwWritepos <= dwReadpos /\ Bufsize - dwReadpos >= 6
  <2>1. Unread = (Bufsize - dwReadpos) + dwWritepos
    BY <1>1, <1>2, <1>5 DEF Unread
  <2>2. GetCmdDataLength = WrappedFrame
    BY <1>1, <1>2, <1>5 DEF GetCmdDataLength
  <2>3. \A k \in 0..5 : Cell(1 + k) = dwReadpos + k
    BY <1>1, <1>5 DEF Cell
  <2>4. \A k \in 0..(Unread - 7) :
          Cell(7 + k) = IF dwReadpos + 6 + k >= Bufsize THEN dwReadpos + 6 + k - Bufsize
                        ELSE dwReadpos + 6 + k
    BY <1>1, <1>2, <1>5, <2>1 DEF Cell
  <2>5. hd = [k \in 0..5 |-> buf[dwReadpos + k]]
    BY <2>3
  <2>6. bd = [k \in 0..(Unread - 7) |->
                IF dwReadpos + 6 + k >= Bufsize THEN buf[dwReadpos + 6 + k - Bufsize]
                ELSE buf[dwReadpos + 6 + k]]
    BY <2>4
  <2> HIDE DEF hd, bd
  <2>7. WrappedFrame = CheckFrame(hd, bd, Unread)
    BY <2>1, <2>5, <2>6 DEF WrappedFrame
  <2>8. QED
    BY <2>2, <2>7 DEF hd, bd
<1>6. QED
  BY <1>1, <1>3, <1>4, <1>5

(* When it has not, the code waits, unless the header wraps: then it checks
   what the cells of the header happen to hold. *)
LEMMA ParsedPart ==
  ASSUME RingTypeOK, FlagsAgree, Unread < 6
  PROVE  \/ GetCmdDataLength = Wait
         \/ /\ ~bEmpty /\ dwWritepos <= dwReadpos /\ Bufsize - dwReadpos < 6
            /\ \E body : GetCmdDataLength = CheckFrame(subchar, body, Unread)
<1> USE RingAssumption
<1>1. /\ dwWritepos \in Int /\ dwReadpos \in Int /\ Bufsize \in Int
      /\ 0 <= dwWritepos /\ dwWritepos <= Bufsize /\ 0 <= dwReadpos /\ dwReadpos <= Bufsize
      /\ bEmpty \in BOOLEAN
  BY DEF RingTypeOK
<1>2. CASE bEmpty
  BY <1>2 DEF GetCmdDataLength
<1>3. CASE ~bEmpty /\ dwWritepos > dwReadpos
  <2>1. Unread = dwWritepos - dwReadpos
    BY <1>3 DEF Unread
  <2>2. GetCmdDataLength = LinearFrame
    BY <1>1, <1>3 DEF GetCmdDataLength
  <2>3. LinearFrame = Wait
    BY <2>1 DEF LinearFrame
  <2>4. QED
    BY <2>2, <2>3
<1>4. CASE ~bEmpty /\ dwWritepos <= dwReadpos
  <2>1. Unread = (Bufsize - dwReadpos) + dwWritepos
    BY <1>1, <1>4 DEF Unread
  <2>2. Bufsize - dwReadpos < 6
    BY <1>1, <2>1
  <2>3. GetCmdDataLength = SplitHeaderFrame
    BY <1>1, <1>4, <2>2 DEF GetCmdDataLength
  <2>4. \E body : SplitHeaderFrame = CheckFrame(subchar, body, Unread)
    BY <2>1, Zenon DEF SplitHeaderFrame
  <2>5. QED
    BY <1>4, <2>2, <2>3, <2>4
<1>5. QED
  BY <1>1, <1>2, <1>3, <1>4

(* The outcomes of the check of a header, as conditions on what it reads. *)
Outcome(c, head, body, n, avail) ==
  LET marks == head[0] = MarkFB /\ head[1] = MarkFC
      trailer == body[n] = csum(body, n) /\ body[n + 1] = Cr
  IN  /\ c.kind \in {"wait", "close", "frame"}
      /\ c.kind = "frame" => marks /\ n + 8 <= avail /\ trailer /\ c.len = n + 2
      /\ c.kind = "wait" => n + 8 > avail
      /\ c.kind = "close" =>
           \/ ~marks
           \/ bFull /\ n + 8 > avail
           \/ n + 8 >= Dword
           \/ n + 8 <= avail /\ ~trailer

(* These are the outcomes of CheckFrame, the sum that wraps included. *)
LEMMA Checked ==
  ASSUME NEW head, NEW body, NEW avail \in Nat, avail <= Bufsize,
         NEW n \in Nat, n = FrameLen(head), bFull \in BOOLEAN
  PROVE  Outcome(CheckFrame(head, body, avail), head, body, n, avail)
<1> DEFINE c == CheckFrame(head, body, avail)
           marks == head[0] = MarkFB /\ head[1] = MarkFC
           trailer == body[n] = csum(body, n) /\ body[n + 1] = Cr
           late == (n + 8) % Dword > avail
<1>1. c = IF ~marks THEN Close
          ELSE IF late THEN IF bFull THEN Close ELSE Wait
          ELSE IF n + 8 >= Dword THEN Close
          ELSE IF ~trailer THEN Close ELSE Frame(n + 2)
  BY DEF CheckFrame
<1>2. Dword \in Nat /\ Bufsize \in Nat /\ avail < Dword
  BY BaseIs, FrameAssumption, RingAssumption
<1>3. n + 8 < Dword => (late <=> n + 8 > avail)
  BY <1>2
<1>4. n + 8 >= Dword => n + 8 > avail
  BY <1>2
<1>5. /\ Close.kind = "close" /\ Wait.kind = "wait"
      /\ Frame(n + 2).kind = "frame" /\ Frame(n + 2).len = n + 2
  BY DEF Close, Wait, Frame
<1> HIDE DEF c, marks, trailer, late
<1>6. \/ c = Close /\ ~marks
      \/ c = Close /\ late /\ bFull
      \/ c = Wait /\ late
      \/ c = Close /\ n + 8 >= Dword
      \/ c = Close /\ ~late /\ n + 8 < Dword /\ ~trailer
      \/ c = Frame(n + 2) /\ marks /\ ~late /\ n + 8 < Dword /\ trailer
  BY <1>1, <1>2
<1>7. /\ c.kind \in {"wait", "close", "frame"}
      /\ c.kind = "frame" => marks /\ n + 8 <= avail /\ trailer /\ c.len = n + 2
      /\ c.kind = "wait" => n + 8 > avail
      /\ c.kind = "close" => ~marks \/ (bFull /\ n + 8 > avail) \/ n + 8 >= Dword
                             \/ (n + 8 <= avail /\ ~trailer)
  BY <1>2, <1>3, <1>4, <1>5, <1>6
<1>8. QED
  BY <1>7 DEF c, marks, trailer, Outcome

-----------------------------------------------------------------------------
(* What it decides about the bytes of the stream. *)

(* The frame that comes next, and where its bytes are. *)
NextIs(f) ==
  /\ f = frames[Len(got) + 1] /\ f \in FrameSet /\ Len(f.data) < Dword
  /\ Join(Rest, Encode(f), StreamFrom(frames, Len(got) + 2))
  /\ StreamFrom(frames, Len(got) + 2) \in Seq(Byte) /\ Rest \in Seq(Byte)

(* There is one, unless the stream has ended. *)
LEMMA NextFrame ==
  ASSUME FrameTypes, Len(got) < Len(frames)
  PROVE  \E f : NextIs(f)
<1>1. PICK g \in Nat : g = Len(got)
  BY DEF FrameTypes
<1>2. PICK l \in Nat : l = Len(frames)
  BY DEF FrameTypes, FramesOK
<1>3. g + 1 \in 1..l /\ g + 1 \in 1..(l + 1) /\ g + 2 \in 1..(l + 1) /\ (g + 1) + 1 = g + 2
      /\ g + 1 <= l
  BY <1>1, <1>2
<1> DEFINE f == frames[g + 1]
<1>4. f \in FrameSet /\ Len(f.data) < Dword
  <2>1. frames \in Seq(FrameSet) /\ g + 1 \in DOMAIN frames
    BY <1>2, <1>3 DEF FrameTypes, FramesOK
  <2>2. QED
    BY <2>1 DEF FrameTypes, FramesOK
<1>5. StreamFrom(frames, g + 1) \in Seq(Byte) /\ StreamFrom(frames, g + 2) \in Seq(Byte)
  BY <1>2, <1>3, StreamIsBytes DEF FrameTypes
<1>6. StreamFrom(frames, g + 1) = Encode(f) \o StreamFrom(frames, g + 2)
  BY <1>2, <1>3, StreamUnfolds
<1> HIDE DEF f
<1>7. Encode(f) \in Seq(Byte)
  BY <1>4, Encoded, Zenon
<1>8. Join(StreamFrom(frames, g + 1), Encode(f), StreamFrom(frames, g + 2))
  BY <1>5, <1>6, <1>7, Joined
<1>9. NextIs(f)
  BY <1>1, <1>4, <1>5, <1>8 DEF NextIs, Rest, f
<1>10. QED
  BY <1>9

(* What has been received and not read begins with its bytes. *)
LEMMA NextBytes ==
  ASSUME FrameTypes, Content, NEW f, NextIs(f), RingTypeOK, FlagsAgree
  PROVE  LET e == Encode(f)
             n == Len(f.data)
         IN  /\ n \in Nat /\ Len(e) = n + 8
             /\ \A i \in 1..(n + 8) : Rest[i] = e[i]
             /\ \A i \in 1..(n + 8) : i <= Unread => buf[Cell(i)] = e[i]
             /\ Len(Rest) = n + 8 + Len(StreamFrom(frames, Len(got) + 2))
<1> DEFINE e == Encode(f)
           n == Len(f.data)
<1>1. n \in Nat /\ Len(e) = n + 8
  BY Encoded, Zenon DEF NextIs
<1> HIDE DEF e, n
<1>2. \A i \in 1..(n + 8) : Rest[i] = e[i]
  BY <1>1 DEF NextIs, Join, e
<1>3. Len(Rest) = n + 8 + Len(StreamFrom(frames, Len(got) + 2))
  BY <1>1 DEF NextIs, Join, e
<1>4. \A i \in 1..(n + 8) : i <= Unread => buf[Cell(i)] = e[i]
  <2> TAKE i \in 1..(n + 8)
  <2>1. i <= Unread => i \in 1..Unread
    BY <1>1, UnreadBound, RingAssumption
  <2>2. QED
    BY <1>2, <2>1 DEF Content
<1>5. QED
  BY <1>1, <1>2, <1>3, <1>4 DEF e, n

(* With a whole header: a frame is taken only if it is right, complete and
   not too long, waited for only if it is incomplete, and the connection is
   closed only if it is wrong or too long. *)
LEMMA ParseHeader ==
  ASSUME FrameTypes, Content, NEW f, NextIs(f), RingTypeOK, FlagsAgree, Unread >= 6
  PROVE  LET c == GetCmdDataLength
             n == Len(f.data)
         IN  /\ c.kind \in {"wait", "close", "frame"}
             /\ c.kind = "frame" => Deliverable(f) /\ n + 8 <= Unread /\ c.len = n + 2
             /\ c.kind = "wait" => Unread < n + 8
             /\ c.kind = "close" => ~Deliverable(f)
<1> DEFINE n == Len(f.data)
           e == Encode(f)
           head == [k \in 0..5 |-> buf[Cell(1 + k)]]
           body == [k \in 0..(Unread - 7) |-> buf[Cell(7 + k)]]
           c == CheckFrame(head, body, Unread)
<1>1. GetCmdDataLength = c
  BY ParsedWhole
<1>2. /\ n \in Nat /\ Len(e) = n + 8
      /\ \A i \in 1..(n + 8) : i <= Unread => buf[Cell(i)] = e[i]
  BY NextBytes, Zenon
<1>3. /\ e[1] = MarkFB
      /\ e[2] = MarkFC <=> f.wrong # "mark"
      /\ e[3] + ByteBase * (e[4] + ByteBase * (e[5] + ByteBase * e[6])) = n
      /\ \A i \in 1..n : e[6 + i] = f.data[i]
      /\ e[n + 7] = SumBytes(f.data) <=> f.wrong # "sum"
      /\ e[n + 8] = Cr <=> f.wrong # "tail"
  BY Encoded, Zenon DEF NextIs
<1>4. Unread \in Nat /\ Unread <= Bufsize /\ Bufsize \in Nat /\ Bufsize + 8 < Dword /\ Dword \in Nat
  BY UnreadBound, RingAssumption, FrameAssumption, BaseIs
<1>w. f.data \in Seq(Byte) /\ f.wrong \in {"none", "mark", "sum", "tail"}
  BY DEF NextIs, FrameSet
<1>5. \A k \in 0..5 : head[k] = e[1 + k]
  BY <1>2, <1>4
<1>6. \A k \in 0..(Unread - 7) : k <= n + 1 => body[k] = e[7 + k]
  BY <1>2, <1>4
<1>7. n = FrameLen(head)
  <2>1. /\ head[2] = e[3] /\ head[3] = e[4] /\ head[4] = e[5] /\ head[5] = e[6]
    BY <1>5
  <2> HIDE DEF head, e, n
  <2>2. QED
    BY <1>3, <2>1 DEF FrameLen
<1> DEFINE marks == head[0] = MarkFB /\ head[1] = MarkFC
           trailer == body[n] = csum(body, n) /\ body[n + 1] = Cr
<1>8. /\ c.kind \in {"wait", "close", "frame"}
      /\ c.kind = "frame" => marks /\ n + 8 <= Unread /\ trailer /\ c.len = n + 2
      /\ c.kind = "wait" => n + 8 > Unread
      /\ c.kind = "close" =>
           \/ ~marks
           \/ bFull /\ n + 8 > Unread
           \/ n + 8 >= Dword
           \/ n + 8 <= Unread /\ ~trailer
  <2>1. bFull \in BOOLEAN
    BY DEF RingTypeOK
  <2> HIDE DEF head, body, n
  <2>2. Outcome(c, head, body, n, Unread)
    BY <1>2, <1>4, <1>7, <2>1, Checked
  <2> HIDE DEF c
  <2>3. QED
    BY <2>2 DEF Outcome
<1>9. marks <=> f.wrong # "mark"
  <2>1. head[0] = e[1] /\ head[1] = e[2]
    BY <1>5
  <2> HIDE DEF head, e
  <2>2. QED
    BY <1>3, <2>1
<1>10. n + 8 <= Unread => (trailer <=> f.wrong \notin {"sum", "tail"})
  <2> SUFFICES ASSUME n + 8 <= Unread PROVE trailer <=> f.wrong \notin {"sum", "tail"}
    OBVIOUS
  <2>1. n \in 0..(Unread - 7) /\ n + 1 \in 0..(Unread - 7) /\ 7 + n = n + 7 /\ 7 + (n + 1) = n + 8
    BY <1>2, <1>4
  <2>2. body[n] = e[n + 7] /\ body[n + 1] = e[n + 8]
    <3> HIDE DEF body, n, e
    <3>1. QED
      BY <1>2, <1>6, <2>1
  <2>3. [k \in 1..n |-> body[k - 1]] = f.data
    <3>1. \A k \in 1..n : body[k - 1] = f.data[k]
      <4> TAKE k \in 1..n
      <4>1. k - 1 \in 0..(Unread - 7) /\ k - 1 <= n + 1 /\ 7 + (k - 1) = 6 + k
        BY <1>2, <1>4, <2>1
      <4> HIDE DEF body, n, e
      <4>2. QED
        BY <1>3, <1>6, <4>1
    <3>2. f.data = [k \in 1..n |-> f.data[k]]
      BY <1>w, ItsItems, Zenon
    <3> HIDE DEF body, n
    <3>3. QED
      BY <3>1, <3>2
  <2>4. csum(body, n) = SumBytes(f.data)
    BY <2>3 DEF csum
  <2> HIDE DEF body, n, e
  <2>5. QED
    BY <1>3, <2>2, <2>4
<1>11. Deliverable(f) <=> f.wrong = "none" /\ n + 8 <= Bufsize
  BY DEF Deliverable, WellFormed, Fits
<1>12. bFull => Unread = Bufsize
  BY RingAssumption DEF RingTypeOK, FlagsAgree, Unread
<1> HIDE DEF n, c, marks, trailer
<1>13. /\ c.kind \in {"wait", "close", "frame"}
       /\ c.kind = "frame" => Deliverable(f) /\ n + 8 <= Unread /\ c.len = n + 2
       /\ c.kind = "wait" => Unread < n + 8
       /\ c.kind = "close" => ~Deliverable(f)
  <2>1. c.kind = "frame" => Deliverable(f)
    BY <1>2, <1>4, <1>w, <1>8, <1>9, <1>10, <1>11
  <2>2. c.kind = "close" => ~Deliverable(f)
    BY <1>2, <1>4, <1>8, <1>9, <1>10, <1>11, <1>12
  <2>3. QED
    BY <1>2, <1>4, <1>8, <2>1, <2>2
<1>14. QED
  BY <1>1, <1>13 DEF n

(* Without: no frame is taken, and the connection is closed only because of
   cells of the header that nothing has been received into. *)
LEMMA ParsePart ==
  ASSUME FrameTypes, Content, NEW f, NextIs(f), RingTypeOK, FlagsAgree, Unread < 6,
         dwWritepos > 0
  PROVE  LET c == GetCmdDataLength
         IN  /\ c.kind \in {"wait", "close"}
             /\ c.kind = "close" /\ Deliverable(f) =>
                  /\ dwWritepos <= dwReadpos /\ Unread < 6
                  /\ \/ dwReadpos = Bufsize /\ dwWritepos = 1
                     \/ FrameLen(subchar) + 8 >= Dword
<1>1. CASE GetCmdDataLength = Wait
  BY <1>1 DEF Wait
<1>2. CASE /\ ~bEmpty /\ dwWritepos <= dwReadpos /\ Bufsize - dwReadpos < 6
           /\ \E body : GetCmdDataLength = CheckFrame(subchar, body, Unread)
  <2>1. PICK body : GetCmdDataLength = CheckFrame(subchar, body, Unread)
    BY <1>2
  <2>2. /\ dwWritepos \in Int /\ dwReadpos \in Int /\ Bufsize \in Int /\ Bufsize > 6
        /\ 0 <= dwWritepos /\ dwWritepos <= Bufsize /\ 0 <= dwReadpos /\ dwReadpos <= Bufsize
        /\ bFull \in BOOLEAN
    BY RingAssumption DEF RingTypeOK
  <2>3. Unread = (Bufsize - dwReadpos) + dwWritepos /\ Unread \in Nat /\ Unread >= 1
        /\ Unread <= Bufsize
    BY <1>2, <2>2 DEF Unread
  <2>4. \A k \in 0..5 : subchar[k] = buf[Cell(1 + k)] /\ Cell(1 + k) \in 0..(Bufsize - 1)
    BY <1>2, <2>2 DEF subchar, Cell
  <2>5. \A k \in 0..5 : subchar[k] \in Nat
    <3>1. \A b \in Byte : b \in Nat
      BY BaseIs DEF Byte
    <3>2. QED
      BY <2>4, <3>1 DEF FrameTypes
  <2>6. PICK n \in Nat : n = FrameLen(subchar)
    <3>1. subchar[2] \in Nat /\ subchar[3] \in Nat /\ subchar[4] \in Nat /\ subchar[5] \in Nat
      BY <2>5
    <3>2. \A a, b \in Nat : a + ByteBase * b \in Nat
      BY BaseIs
    <3>3. QED
      BY <3>1, <3>2 DEF FrameLen
  <2> DEFINE c == CheckFrame(subchar, body, Unread)
             marks == subchar[0] = MarkFB /\ subchar[1] = MarkFC
             trailer == body[n] = csum(body, n) /\ body[n + 1] = Cr
  <2>7. /\ c.kind \in {"wait", "close", "frame"}
        /\ c.kind = "frame" => marks /\ n + 8 <= Unread /\ trailer /\ c.len = n + 2
        /\ c.kind = "wait" => n + 8 > Unread
        /\ c.kind = "close" =>
             \/ ~marks
             \/ bFull /\ n + 8 > Unread
             \/ n + 8 >= Dword
             \/ n + 8 <= Unread /\ ~trailer
    <3>1. Outcome(c, subchar, body, n, Unread)
      BY <2>2, <2>3, <2>6, Checked
    <3> HIDE DEF c
    <3>2. QED
      BY <3>1 DEF Outcome
  <2>8. bFull => Unread = Bufsize
    BY RingAssumption DEF RingTypeOK, FlagsAgree, Unread
  <2>9. subchar[0] = MarkFB /\ (Unread >= 2 /\ Deliverable(f) => subchar[1] = MarkFC)
    <3> DEFINE e == Encode(f)
               l == Len(f.data)
    <3>1. l \in Nat /\ \A i \in 1..(l + 8) : i <= Unread => buf[Cell(i)] = e[i]
      BY NextBytes, Zenon
    <3>2. e[1] = MarkFB /\ (e[2] = MarkFC <=> f.wrong # "mark")
      BY Encoded, Zenon DEF NextIs
    <3>3. subchar[0] = buf[Cell(1)] /\ subchar[1] = buf[Cell(2)]
      BY <2>4
    <3> HIDE DEF e, l
    <3>4. buf[Cell(1)] = e[1] /\ (Unread >= 2 => buf[Cell(2)] = e[2])
      BY <2>3, <3>1
    <3>5. QED
      BY <3>2, <3>3, <3>4 DEF Deliverable, WellFormed
  <2> HIDE DEF c, marks, trailer
  <2>10. c.kind # "frame"
    BY <2>3, <2>6, <2>7
  <2>11. c.kind = "close" => ~marks \/ n + 8 >= Dword
    BY <2>2, <2>3, <2>6, <2>7, <2>8
  <2>12. ~marks /\ Deliverable(f) => dwReadpos = Bufsize /\ dwWritepos = 1
    BY <2>2, <2>3, <2>9 DEF marks
  <2>13. GetCmdDataLength = c
    BY <2>1 DEF c
  <2>14. QED
    BY <1>2, <2>6, <2>7, <2>10, <2>11, <2>12, <2>13
<1>3. QED
  BY <1>1, <1>2, ParsedPart

(* The same for every state in which the loop asks. *)
LEMMA Parsed ==
  ASSUME FrameInv, io = "loop"
  PROVE  LET c == GetCmdDataLength
         IN  /\ c.kind \in {"wait", "close", "frame"}
             /\ c.kind = "frame" =>
                  /\ Len(got) < Len(frames)
                  /\ \E f : /\ NextIs(f) /\ Deliverable(f)
                            /\ Len(f.data) + 8 <= Unread /\ c.len = Len(f.data) + 2
             /\ c.kind = "wait" /\ Len(got) < Len(frames) =>
                  Unread < Len(frames[Len(got) + 1].data) + 8
             /\ c.kind = "close" /\ Conforming =>
                  /\ dwWritepos <= dwReadpos /\ Unread < 6
                  /\ \/ dwReadpos = Bufsize /\ dwWritepos = 1
                     \/ FrameLen(subchar) + 8 >= Dword
<1>1. RingTypeOK /\ FlagsAgree /\ FrameTypes /\ Content /\ dwWritepos > 0 /\ FrameIntegrity
  BY DEF FrameInv, RingInv, Written
<1>2. Unread \in Nat
  BY <1>1, UnreadBound, RingAssumption
<1>3. PICK g \in Nat : g = Len(got)
  BY <1>1 DEF FrameTypes
<1>4. PICK l \in Nat : l = Len(frames)
  BY <1>1 DEF FrameTypes, FramesOK
<1>5. CASE g = l
  <2>1. Rest = <<>>
    <3>1. g + 1 \in 1..(l + 1) /\ g + 1 > l
      BY <1>5
    <3>2. QED
      BY <1>3, <1>4, <3>1, StreamUnfolds DEF Rest
  <2>2. Len(wire) \in Nat
    BY <1>1 DEF FrameTypes
  <2>3. Unread = 0
    BY <1>1, <1>2, <2>1, <2>2 DEF Content
  <2>4. bEmpty
    BY <1>1, <2>3, RingAssumption DEF RingTypeOK, FlagsAgree, Unread
  <2>5. GetCmdDataLength = Wait
    BY <2>4 DEF GetCmdDataLength
  <2>6. GetCmdDataLength.kind = "wait"
    BY <2>5 DEF Wait
  <2>7. ~(Len(got) < Len(frames))
    BY <1>3, <1>4, <1>5
  <2>8. QED
    BY <2>6, <2>7, Zenon
<1>6. CASE g < l
  <2>1. Len(got) < Len(frames)
    BY <1>3, <1>4, <1>6
  <2>2. PICK f : NextIs(f)
    BY <1>1, <2>1, NextFrame
  <2>3. f = frames[Len(got) + 1] /\ (Conforming => Deliverable(f))
    <3>1. frames \in Seq(FrameSet) /\ g + 1 \in 1..l
      BY <1>1, <1>6 DEF FrameTypes, FramesOK
    <3>2. g + 1 \in DOMAIN frames
      BY <1>4, <3>1
    <3>3. QED
      BY <1>3, <2>2, <3>2 DEF NextIs, Conforming
  <2>4. PICK n \in Nat : n = Len(f.data)
    BY <2>2, Encoded, Zenon DEF NextIs
  <2> DEFINE c == GetCmdDataLength
  <2>5. CASE Unread >= 6
    <3>1. /\ c.kind \in {"wait", "close", "frame"}
          /\ c.kind = "frame" => Deliverable(f) /\ n + 8 <= Unread /\ c.len = n + 2
          /\ c.kind = "wait" => Unread < n + 8
          /\ c.kind = "close" => ~Deliverable(f)
      BY <1>1, <2>2, <2>4, <2>5, ParseHeader, Zenon
    <3>2. QED
      BY <2>1, <2>2, <2>3, <2>4, <3>1, Zenon
  <2>6. CASE Unread < 6
    <3>1. /\ c.kind \in {"wait", "close"}
          /\ c.kind = "close" /\ Deliverable(f) =>
               /\ dwWritepos <= dwReadpos /\ Unread < 6
               /\ \/ dwReadpos = Bufsize /\ dwWritepos = 1
                  \/ FrameLen(subchar) + 8 >= Dword
      BY <1>1, <2>2, <2>6, ParsePart, Zenon
    <3>2. Unread < n + 8
      BY <1>2, <2>6
    <3>3. Unread < Len(frames[Len(got) + 1].data) + 8
      BY <2>3, <2>4, <3>2
    <3>4. c.kind # "frame" /\ c.kind \in {"wait", "close", "frame"}
      BY <3>1
    <3> HIDE DEF c
    <3>5. QED
      BY <2>3, <3>1, <3>3, <3>4 DEF c
  <2>7. QED
    BY <1>2, <2>5, <2>6
<1>7. QED
  BY <1>1, <1>3, <1>4, <1>5, <1>6 DEF FrameIntegrity

-----------------------------------------------------------------------------
(* The inductive steps. *)

(* The streams of the initial states are streams of frames. *)
LEMMA FramesAreOK ==
  ASSUME Init
  PROVE  FramesOK(frames)
<1>1. CASE frames \in GoodScripts
  BY <1>1, ScriptAssumption DEF FramesOK
<1>2. ASSUME NEW g \in GoodScripts, NEW f \in LastFrames, frames = Append(g, f)
      PROVE  FramesOK(frames)
  <2>1. g \in Seq(FrameSet) /\ f \in FrameSet /\ Len(f.data) < Dword
        /\ \A i \in DOMAIN g : Len(g[i].data) < Dword
    BY ScriptAssumption
  <2>2. frames \in Seq(FrameSet) /\ Len(frames) = Len(g) + 1 /\ Len(g) \in Nat
        /\ frames[Len(g) + 1] = f /\ \A i \in 1..Len(g) : frames[i] = g[i]
    BY <1>2, <2>1, AppendProperties
  <2>3. ASSUME NEW i \in DOMAIN frames PROVE Len(frames[i].data) < Dword
    <3>1. i \in 1..(Len(g) + 1)
      BY <2>2
    <3>2. CASE i = Len(g) + 1
      BY <2>1, <2>2, <3>2
    <3>3. CASE i \in 1..Len(g)
      BY <2>1, <2>2, <3>3
    <3>4. QED
      BY <2>2, <3>1, <3>2, <3>3
  <2>4. QED
    BY <2>2, <2>3 DEF FramesOK
<1>3. \/ frames \in GoodScripts
      \/ \E g \in GoodScripts, f \in LastFrames : frames = Append(g, f)
  BY DEF Init
<1>4. QED
  BY <1>1, <1>2, <1>3

(* The invariant holds initially. *)
LEMMA FrameInit == Init => FrameInv
<1> SUFFICES ASSUME Init PROVE FrameInv
  OBVIOUS
<1>1. RingInv
  BY RingInitInv DEF Init
<1>2. FramesOK(frames)
  BY FramesAreOK
<1>3. io = "accept" /\ sock = "open" /\ bEmpty /\ got = <<>> /\ wire = StreamFrom(frames, 1)
  BY Zenon DEF Init, RingInit, Stream
<1>4. Unread = 0
  BY <1>3 DEF Unread
<1>5. Len(got) = 0 /\ got \in Seq(Seq(Byte))
  BY <1>3
<1>6. Rest = wire
  BY <1>3, <1>5 DEF Rest
<1>7. wire \in Seq(Byte) /\ Len(wire) \in Nat /\ Len(frames) \in Nat
  <2>1. Len(frames) \in Nat
    BY <1>2 DEF FramesOK
  <2>2. 1 \in 1..(Len(frames) + 1)
    BY <2>1
  <2>3. wire \in Seq(Byte)
    BY <1>2, <1>3, <2>2, StreamIsBytes
  <2>4. QED
    BY <2>1, <2>3
<1>8. buf \in [0..(Bufsize - 1) -> Byte]
  BY FrameAssumption DEF Init
<1>9. FrameTypes
  BY <1>2, <1>5, <1>7, <1>8 DEF FrameTypes
<1>10. Content
  BY <1>4, <1>6, <1>7 DEF Content
<1>11. FrameIntegrity
  BY <1>3, <1>5, <1>7 DEF FrameIntegrity
<1>12. Written /\ NextIncomplete /\ ClosedOnlyAtSeam
  BY <1>3 DEF Written, NextIncomplete, ClosedOnlyAtSeam
<1>13. QED
  BY <1>1, <1>3, <1>9, <1>10, <1>11, <1>12 DEF FrameInv

(* Bytes that arrive continue what has been received. *)
LEMMA ArrivesKeeps ==
  ASSUME FrameInv, NEW n \in Nat, NEW right \in Nat, Arrived(n), Scatter(n, right),
         UNCHANGED <<frames, got>>
  PROVE  FrameTypes' /\ Content'
<1>1. FrameTypes /\ Content /\ RingTypeOK /\ FlagsAgree
  BY DEF FrameInv, RingInv
<1>2. PICK u \in Nat : u = Unread
  BY <1>1, UnreadBound, RingAssumption
<1>3. PICK l \in Nat : l = Len(wire)
  BY <1>1 DEF FrameTypes
<1>4. n <= l /\ wire \in Seq(Byte) /\ dwWritepos \in Nat /\ Bufsize \in Nat
  BY <1>1, <1>3, RingAssumption DEF Scatter, FrameTypes, RingTypeOK
<1>5. wire' \in Seq(Byte) /\ Len(wire') = l - n /\ \A i \in 1..(l - n) : wire'[i] = wire[n + i]
  <2>1. wire' = SubSeq(wire, n + 1, l)
    BY <1>3 DEF Scatter
  <2>2. QED
    BY <1>3, <1>4, <2>1, SubSeqProperties
<1>6. buf' \in [0..(Bufsize - 1) -> Byte]
  <2>1. buf \in [0..(Bufsize - 1) -> Byte]
    BY <1>1 DEF FrameTypes
  <2> DEFINE val(i) == IF dwWritepos <= i /\ i < dwWritepos + n /\ i < dwWritepos + right
                       THEN wire[1 + i - dwWritepos]
                       ELSE IF i < n - right THEN wire[right + 1 + i]
                       ELSE buf[i]
  <2>2. buf' = [i \in 0..(Bufsize - 1) |-> val(i)]
    BY <2>1 DEF Scatter
  <2>3. ASSUME NEW i \in 0..(Bufsize - 1) PROVE val(i) \in Byte
    <3>1. \A k \in 1..l : wire[k] \in Byte
      BY <1>3, <1>4
    <3>2. dwWritepos <= i /\ i < dwWritepos + n => 1 + i - dwWritepos \in 1..l
      BY <1>4
    <3>3. i < n - right => right + 1 + i \in 1..l
      BY <1>4
    <3>4. buf[i] \in Byte
      BY <2>1
    <3>5. QED
      BY <3>1, <3>2, <3>3, <3>4
  <2> HIDE DEF val
  <2>4. QED
    BY <2>2, <2>3
<1>7. FrameTypes'
  BY <1>1, <1>5, <1>6 DEF FrameTypes, FramesOK
<1>8. Rest' = Rest
  BY DEF Rest
<1>9. \A j : Cell(j)' = Cell(j)
  BY DEF Arrived, Cell
<1>10. Unread' = u + n
  BY <1>2 DEF Arrived
<1>11. /\ l + u = Len(Rest)
       /\ \A j \in 1..u : buf[Cell(j)] = Rest[j]
       /\ \A i \in 1..l : wire[i] = Rest[u + i]
  BY <1>1, <1>2, <1>3 DEF Content
<1>12. /\ \A j \in 1..u : buf'[Cell(j)] = buf[Cell(j)]
       /\ \A i \in 1..n : buf'[Cell(u + i)] = wire[i]
  BY <1>2 DEF Arrived
<1>13. \A j \in 1..(u + n) : buf'[Cell(j)] = Rest[j]
  <2> TAKE j \in 1..(u + n)
  <2>1. CASE j <= u
    BY <1>11, <1>12, <2>1
  <2>2. CASE j > u
    <3>1. PICK i \in 1..n : j = u + i
      <4>1. j - u \in 1..n /\ j = u + (j - u)
        BY <2>2
      <4>2. QED
        BY <4>1
    <3>2. i \in 1..l
      BY <1>4
    <3>3. QED
      BY <1>11, <1>12, <3>1, <3>2
  <2>3. QED
    BY <2>1, <2>2
<1>14. \A i \in 1..(l - n) : wire'[i] = Rest[(u + n) + i]
  <2> TAKE i \in 1..(l - n)
  <2>1. n + i \in 1..l /\ u + (n + i) = (u + n) + i
    BY <1>4
  <2>2. QED
    BY <1>5, <1>11, <2>1
<1>15. (l - n) + (u + n) = Len(Rest)
  BY <1>4, <1>11
<1>16. Content'
  BY <1>5, <1>8, <1>9, <1>10, <1>13, <1>14, <1>15 DEF Content
<1>17. QED
  BY <1>7, <1>16

(* Steps that move no byte and no position keep what is known of them. *)
LEMMA StaysKeeps ==
  ASSUME FrameInv, UNCHANGED <<dwWritepos, dwReadpos, bEmpty, buf, frames, wire, got>>
  PROVE  /\ FrameTypes' /\ Content' /\ FrameIntegrity' /\ Unread' = Unread
         /\ subchar' = subchar /\ (Conforming' <=> Conforming)
<1>1. Unread' = Unread /\ Rest' = Rest /\ \A j : Cell(j)' = Cell(j)
  BY DEF Unread, Rest, Cell
<1>2. FrameTypes' /\ FrameIntegrity'
  BY DEF FrameInv, FrameTypes, FramesOK, FrameIntegrity, Deliverable, WellFormed, Fits
<1>3. Content'
  BY <1>1 DEF FrameInv, Content
<1>4. subchar' = subchar
  BY DEF subchar
<1>5. Conforming' <=> Conforming
  BY DEF Conforming, Deliverable, WellFormed, Fits
<1>6. QED
  BY <1>1, <1>2, <1>3, <1>4, <1>5

(* A delivered frame is the next one of the stream, and what is behind it is
   what the rest of the stream begins with. *)
LEMMA DeliverKeeps ==
  ASSUME FrameInv, DeliverFrame
  PROVE  /\ FrameTypes' /\ Content' /\ FrameIntegrity'
         /\ \E frameLen \in 0..Bufsize : TakeFrame(frameLen)
<1>1. /\ io = "loop" /\ sock = "open"
      /\ GetCmdDataLength.kind = "frame"
      /\ Read(HeaderEnd, GetCmdDataLength.len)
      /\ got' = Append(got, CopiedBytes(HeaderEnd, GetCmdDataLength.len - 2))
      /\ UNCHANGED <<sock, io, buf, frames, wire>>
  BY DEF DeliverFrame
<1>2. FrameTypes /\ Content /\ FrameIntegrity /\ RingTypeOK /\ FlagsAgree
  BY DEF FrameInv, RingInv
<1>3. PICK f : /\ Len(got) < Len(frames)
               /\ NextIs(f) /\ Deliverable(f) /\ Len(f.data) + 8 <= Unread
               /\ GetCmdDataLength.len = Len(f.data) + 2
  BY <1>1, Parsed, Zenon
<1>4. PICK n \in Nat : n = Len(f.data)
  BY <1>3, Encoded, Zenon DEF NextIs
<1>5. PICK u \in Nat : u = Unread /\ u <= Bufsize
  BY <1>2, UnreadBound, RingAssumption
<1>6. PICK g \in Nat : g = Len(got)
  BY <1>2 DEF FrameTypes
<1>7. n + 8 <= u /\ GetCmdDataLength.len = n + 2 /\ (n + 2) - 2 = n /\ Bufsize \in Nat
  BY <1>3, <1>4, <1>5, RingAssumption
<1>8. Read(HeaderEnd, n + 2) /\ got' = Append(got, CopiedBytes(HeaderEnd, n))
  BY <1>1, <1>7
<1>9. n + 8 <= Unread
  BY <1>5, <1>7
<1>10. \E frameLen \in 0..Bufsize : TakeFrame(frameLen)
  <2>1. TakeFrame(n)
    BY <1>1, <1>8, <1>9 DEF TakeFrame
  <2>2. n \in 0..Bufsize
    BY <1>5, <1>7
  <2>3. QED
    BY <2>1, <2>2
<1>11. Unread' = u - (n + 8)
  BY <1>2, <1>5, <1>8, <1>9, ReadFrame
<1>12. \A j \in 1..(u - (n + 8)) : Cell(j)' = Cell(n + 8 + j)
  BY <1>2, <1>5, <1>8, <1>9, ReadMoves
<1> DEFINE e == Encode(f)
           rest == StreamFrom(frames, g + 2)
<1>13. /\ Len(e) = n + 8
       /\ \A i \in 1..(n + 8) : i <= u => buf[Cell(i)] = e[i]
       /\ Len(Rest) = n + 8 + Len(rest)
  BY <1>2, <1>3, <1>4, <1>5, <1>6, NextBytes, Zenon
<1>14. \A i \in 1..n : e[6 + i] = f.data[i]
  BY <1>3, <1>4, Encoded, Zenon DEF NextIs
<1>15. f.data \in Seq(Byte) /\ rest \in Seq(Byte) /\ f = frames[g + 1]
  BY <1>3, <1>6 DEF NextIs, FrameSet
<1> HIDE DEF e, rest
<1>16. CopiedBytes(HeaderEnd, n) = f.data
  <2>1. CopiedBytes(HeaderEnd, n) = [k \in 1..n |-> buf[Cell(6 + k)]]
    BY <1>2, <1>9, ReadCopies
  <2>2. \A k \in 1..n : buf[Cell(6 + k)] = f.data[k]
    <3> TAKE k \in 1..n
    <3>1. 6 + k \in 1..(n + 8) /\ 6 + k <= u
      BY <1>7
    <3>2. QED
      BY <1>13, <1>14, <3>1
  <2>3. f.data = [k \in 1..n |-> f.data[k]]
    BY <1>4, <1>15, ItsItems, Zenon
  <2>4. QED
    BY <2>1, <2>2, <2>3
<1>17. /\ got' \in Seq(Seq(Byte)) /\ Len(got') = g + 1
       /\ got'[g + 1] = f.data /\ \A i \in 1..g : got'[i] = got[i]
  <2>1. got \in Seq(Seq(Byte)) /\ got' = Append(got, f.data)
    BY <1>2, <1>8, <1>16 DEF FrameTypes
  <2>2. QED
    BY <1>6, <1>15, <2>1, AppendProperties
<1>18. FrameTypes'
  BY <1>1, <1>2, <1>17 DEF FrameTypes, FramesOK
<1>19. FrameIntegrity'
  <2>1. g + 1 <= Len(frames)
    <3>1. Len(frames) \in Nat
      BY <1>2 DEF FrameTypes, FramesOK
    <3>2. QED
      BY <1>3, <1>6, <3>1
  <2>2. ASSUME NEW i \in DOMAIN got' PROVE Deliverable(frames[i]) /\ got'[i] = frames[i].data
    <3>1. i \in 1..(g + 1)
      BY <1>17
    <3>2. CASE i = g + 1
      BY <1>3, <1>15, <1>17, <3>2
    <3>3. CASE i \in 1..g
      <4>1. i \in DOMAIN got
        BY <1>2, <1>6, <3>3 DEF FrameTypes
      <4>2. QED
        BY <1>2, <1>17, <3>3, <4>1 DEF FrameIntegrity
    <3>4. QED
      BY <3>1, <3>2, <3>3
  <2>3. \A x : Deliverable(x)' <=> Deliverable(x)
    BY DEF Deliverable, WellFormed, Fits
  <2>4. QED
    BY <1>1, <1>17, <2>1, <2>2 DEF FrameIntegrity, Deliverable, WellFormed, Fits
<1>20. Rest' = rest
  <2>1. (g + 1) + 1 = g + 2
    OBVIOUS
  <2>2. QED
    BY <1>1, <1>17, <2>1 DEF Rest, rest
<1>21. \A i \in 1..Len(rest) : Rest[n + 8 + i] = rest[i]
  BY <1>3, <1>6, <1>13 DEF NextIs, Join, e, rest
<1>22. PICK l \in Nat : l = Len(wire)
  BY <1>2 DEF FrameTypes
<1>23. PICK m \in Nat : m = Len(rest)
  BY <1>15
<1>24. /\ l + u = n + 8 + m
       /\ \A j \in 1..u : buf[Cell(j)] = Rest[j]
       /\ \A i \in 1..l : wire[i] = Rest[u + i]
  BY <1>2, <1>5, <1>13, <1>22, <1>23 DEF Content
<1>25. \A j \in 1..(u - (n + 8)) : buf[Cell(n + 8 + j)] = rest[j]
  <2> TAKE j \in 1..(u - (n + 8))
  <2>1. n + 8 + j \in 1..u /\ j \in 1..m
    BY <1>7, <1>24
  <2>2. QED
    BY <1>21, <1>23, <1>24, <2>1
<1>26. \A i \in 1..l : wire[i] = rest[(u - (n + 8)) + i]
  <2> TAKE i \in 1..l
  <2>1. (u - (n + 8)) + i \in 1..m /\ n + 8 + ((u - (n + 8)) + i) = u + i
    BY <1>7, <1>24
  <2>2. QED
    BY <1>21, <1>23, <1>24, <2>1
<1>27. l + (u - (n + 8)) = m
  BY <1>7, <1>24
<1>28. Content'
  BY <1>1, <1>11, <1>12, <1>20, <1>22, <1>23, <1>25, <1>26, <1>27 DEF Content
<1>29. QED
  BY <1>10, <1>18, <1>19, <1>28

(* Every step is a step of the ring. *)
LEMMA RingStepOf == FrameInv /\ [Next]_vars => [RingNext]_ringVars
<1> SUFFICES ASSUME FrameInv, [Next]_vars PROVE [RingNext]_ringVars
  OBVIOUS
<1>1. ASSUME NEW n \in 1..Bufsize, AcceptSome(n) \/ RecvSome(n) PROVE RingNext
  BY <1>1 DEF AcceptSome, RecvSome, RingNext
<1>2. CASE DeliverFrame
  BY <1>2, DeliverKeeps DEF RingNext
<1>3. CASE LoopDone
  <2>1. (GetCmdDataLength.kind = "close") \in BOOLEAN
    OBVIOUS
  <2>2. QED
    BY <1>3, <2>1, Zenon DEF LoopDone, RingNext
<1>4. CASE ZeroRecv \/ RecvNoRoom \/ ConnectionEnds
  BY <1>4 DEF ZeroRecv, RecvNoRoom, ConnectionEnds, RingNext
<1>5. CASE UNCHANGED vars
  BY <1>5 DEF vars
<1>6. QED
  BY <1>1, <1>2, <1>3, <1>4, <1>5 DEF Next

(* The bytes that arrive are put where they belong. *)
LEMMA ArrivalStep ==
  ASSUME FrameInv, NEW n \in 1..Bufsize, AcceptSome(n) \/ RecvSome(n), RingInv'
  PROVE  FrameInv'
<1>1. n \in Nat
  BY RingAssumption
<1>2. buf \in [0..(Bufsize - 1) -> Byte] /\ RingInv
  BY DEF FrameInv, FrameTypes
<1>3. FrameTypes' /\ Content' /\ dwWritepos' > 0
  <2>1. CASE AcceptSome(n)
    <3>1. AcceptData(n) /\ Scatter(n, Bufsize - AddrSpace) /\ UNCHANGED <<frames, got>>
      BY <2>1 DEF AcceptSome
    <3>2. Arrived(n) /\ dwWritepos' > 0
      BY <1>1, <1>2, <3>1, AcceptArrives
    <3>3. Bufsize - AddrSpace \in Nat
      BY RingAssumption
    <3>4. QED
      BY <1>1, <3>1, <3>2, <3>3, ArrivesKeeps
  <2>2. CASE RecvSome(n)
    <3>1. RecvData(n) /\ Scatter(n, dwRightsize) /\ UNCHANGED <<frames, got>>
      BY <2>2 DEF RecvSome
    <3>2. Arrived(n) /\ dwWritepos' > 0
      BY <1>1, <1>2, <3>1, RecvArrives
    <3>3. dwRightsize \in Nat
      BY <1>2, RingAssumption DEF RingInv, RingTypeOK
    <3>4. QED
      BY <1>1, <3>1, <3>2, <3>3, ArrivesKeeps
  <2>3. QED
    BY <2>1, <2>2
<1>4. io \in {"accept", "recv"} /\ io' = "loop" /\ UNCHANGED <<sock, frames, got>>
  BY DEF AcceptSome, RecvSome, AcceptData, RecvData
<1>5. sock = "open" /\ sock' = "open"
  BY <1>2, <1>4 DEF FrameInv, RingInv, RingTypeOK
<1>6. FrameIntegrity'
  BY <1>4 DEF FrameInv, FrameIntegrity, Deliverable, WellFormed, Fits
<1>7. Written' /\ NextIncomplete' /\ ClosedOnlyAtSeam'
  BY <1>3, <1>4, <1>5 DEF Written, NextIncomplete, ClosedOnlyAtSeam
<1>8. QED
  BY <1>3, <1>5, <1>6, <1>7 DEF FrameInv

(* The inductive step, action by action. *)
LEMMA FrameStep == FrameInv /\ [Next]_vars => FrameInv'
<1> SUFFICES ASSUME FrameInv, [Next]_vars PROVE FrameInv'
  OBVIOUS
<1>1. RingInv'
  BY RingStepOf, RingStep DEF FrameInv
<1>2. RingInv /\ Written /\ NextIncomplete /\ ClosedOnlyAtSeam /\ (sock = "closed" => io = "ended")
      /\ sock \in {"open", "closed"}
  BY DEF FrameInv, RingInv, RingTypeOK
<1>3. ASSUME NEW n \in 1..Bufsize, AcceptSome(n) \/ RecvSome(n) PROVE FrameInv'
  BY <1>1, <1>3, ArrivalStep
<1>4. CASE DeliverFrame
  <2>1. io = "loop" /\ sock = "open" /\ UNCHANGED <<sock, io, dwWritepos>>
    BY <1>4 DEF DeliverFrame, Read
  <2>2. FrameTypes' /\ Content' /\ FrameIntegrity'
    BY <1>4, DeliverKeeps
  <2>3. Written' /\ NextIncomplete' /\ ClosedOnlyAtSeam'
    BY <1>2, <2>1 DEF Written, NextIncomplete, ClosedOnlyAtSeam
  <2>4. QED
    BY <1>1, <2>1, <2>2, <2>3 DEF FrameInv
<1>5. CASE LoopDone
  <2> DEFINE c == GetCmdDataLength
  <2>1. /\ c.kind # "frame" /\ io = "loop" /\ sock = "open"
        /\ sock' = IF c.kind = "close" THEN "closed" ELSE sock
        /\ io' \in (IF c.kind = "close" THEN {"ended"} ELSE {"zero", "ended"})
        /\ UNCHANGED <<ring, buf, frames, wire, got>>
    BY <1>5 DEF LoopDone, LoopEnds
  <2>2. UNCHANGED <<dwWritepos, dwReadpos, bEmpty, buf, frames, wire, got>>
    BY <2>1 DEF ring
  <2>3. /\ FrameTypes' /\ Content' /\ FrameIntegrity' /\ Unread' = Unread
        /\ subchar' = subchar /\ (Conforming' <=> Conforming)
    BY <2>2, StaysKeeps
  <2>4. /\ c.kind \in {"wait", "close", "frame"}
        /\ c.kind = "wait" /\ Len(got) < Len(frames) =>
             Unread < Len(frames[Len(got) + 1].data) + 8
        /\ c.kind = "close" /\ Conforming =>
             /\ dwWritepos <= dwReadpos /\ Unread < 6
             /\ \/ dwReadpos = Bufsize /\ dwWritepos = 1
                \/ FrameLen(subchar) + 8 >= Dword
    BY <2>1, Parsed, Zenon
  <2> HIDE DEF c
  <2>5. Written'
    BY <1>2, <2>1, <2>2 DEF Written
  <2>6. NextIncomplete'
    BY <2>1, <2>2, <2>3, <2>4 DEF NextIncomplete
  <2>7. ClosedOnlyAtSeam'
    <3>1. FrameLen(subchar)' = FrameLen(subchar)
      BY <2>3 DEF FrameLen
    <3>2. sock' = "closed" => c.kind = "close"
      BY <2>1
    <3>3. QED
      BY <2>2, <2>3, <2>4, <3>1, <3>2 DEF ClosedOnlyAtSeam
  <2>8. sock' = "closed" => io' = "ended"
    BY <2>1
  <2>9. QED
    BY <1>1, <2>3, <2>5, <2>6, <2>7, <2>8 DEF FrameInv
<1>6. CASE ZeroRecv \/ RecvNoRoom \/ ConnectionEnds \/ UNCHANGED vars
  <2>1. /\ UNCHANGED <<dwWritepos, dwReadpos, bEmpty, buf, frames, wire, got>>
        /\ sock' = sock
        /\ io' = io \/ (sock = "open" /\ (io' = "ended" \/ (io' = "recv" /\ io = "zero")))
    BY <1>2, <1>6 DEF ZeroRecv, RecvNoRoom, ConnectionEnds, ZeroRecvDone, InitRLsize,
                      CompletionFailed, vars, ringVars, ring
  <2>2. /\ FrameTypes' /\ Content' /\ FrameIntegrity' /\ Unread' = Unread
        /\ subchar' = subchar /\ (Conforming' <=> Conforming)
    BY <2>1, StaysKeeps
  <2>3. Written'
    BY <1>2, <2>1 DEF Written
  <2>4. NextIncomplete'
    BY <1>2, <2>1, <2>2 DEF NextIncomplete
  <2>5. ClosedOnlyAtSeam'
    <3>1. FrameLen(subchar)' = FrameLen(subchar)
      BY <2>2 DEF FrameLen
    <3>2. QED
      BY <1>2, <2>1, <2>2, <3>1 DEF ClosedOnlyAtSeam
  <2>6. sock' = "closed" => io' = "ended"
    BY <1>2, <2>1
  <2>7. QED
    BY <1>1, <2>2, <2>3, <2>4, <2>5, <2>6 DEF FrameInv
<1>7. QED
  BY <1>3, <1>4, <1>5, <1>6 DEF Next

(* FrameInv holds in every reachable state of the parser. *)
LEMMA FrameInvariant == Spec => []FrameInv
BY FrameInit, FrameStep, PTL DEF Spec

-----------------------------------------------------------------------------
(* For every size of the buffer, every stream and every way it is cut into
   receives, the command layer gets the data of the client's frames, whole,
   in order and once. *)
THEOREM ParserFrameIntegrity == Spec => []FrameIntegrity
<1>1. FrameInv => FrameIntegrity
  BY DEF FrameInv
<1>2. QED
  BY <1>1, FrameInvariant, PTL

(* The parser and the ring agree on where the next frame starts. *)
THEOREM ParserPositionsMatch == Spec => []PositionsMatchStream
<1>1. FrameInv => PositionsMatchStream
  <2> SUFFICES ASSUME FrameInv PROVE Unread = BytesFrom(Len(got) + 1) - Len(wire)
    BY DEF PositionsMatchStream
  <2>1. Len(wire) + Unread = BytesFrom(Len(got) + 1)
    BY DEF FrameInv, Content, Rest, BytesFrom
  <2>2. Len(wire) \in Nat /\ Unread \in Nat
    BY UnreadBound, RingAssumption DEF FrameInv, FrameTypes, RingInv
  <2>3. QED
    BY <2>1, <2>2
<1>2. QED
  BY <1>1, FrameInvariant, PTL

(* A worker waits for more bytes only when the next frame is incomplete. *)
THEOREM ParserLeavesNoFrame == Spec => []NoFrameLeftBehind
<1>1. FrameInv => NoFrameLeftBehind
  <2> SUFFICES ASSUME FrameInv, io \in {"zero", "recv"}, Len(got) < Len(frames)
               PROVE  Len(wire) > BytesFrom(Len(got) + 2)
    BY DEF NoFrameLeftBehind
  <2>1. FrameTypes /\ Content /\ RingTypeOK /\ FlagsAgree
    BY DEF FrameInv, RingInv
  <2>2. PICK f : NextIs(f)
    BY <2>1, NextFrame
  <2> DEFINE n == Len(f.data)
  <2>3. n \in Nat /\ Len(Rest) = n + 8 + BytesFrom(Len(got) + 2)
    BY <2>1, <2>2, NextBytes, Zenon DEF BytesFrom
  <2>4. Unread < n + 8
    BY <2>2 DEF FrameInv, NextIncomplete, NextIs
  <2> HIDE DEF n
  <2>5. Len(wire) \in Nat /\ Unread \in Nat /\ BytesFrom(Len(got) + 2) \in Nat
    BY <2>1, <2>2, UnreadBound, RingAssumption DEF FrameTypes, NextIs, BytesFrom
  <2>6. Len(wire) + Unread = Len(Rest)
    BY <2>1 DEF Content
  <2>7. QED
    BY <2>3, <2>4, <2>5, <2>6
<1>2. QED
  BY <1>1, FrameInvariant, PTL

(* A conforming client is cut off only by cells of a header that has not
   arrived: at the end of the buffer, or by a length near the limit. *)
THEOREM ParserClosedOnlyAtSeam == Spec => []ClosedOnlyAtSeam
<1>1. FrameInv => ClosedOnlyAtSeam
  BY DEF FrameInv
<1>2. QED
  BY <1>1, FrameInvariant, PTL

(* The parser on real bytes is an implementation of the ring, so that the
   theorems about RingSpec hold of it. *)
THEOREM ParserImplementsRing == Spec => RingRefined
<1>1. Init => RingInit
  BY DEF Init
<1>2. QED
  BY <1>1, RingStepOf, FrameInvariant, PTL DEF Spec, RingSpec, RingRefined
=============================================================================
