----------------------------- MODULE Sha256Proofs -----------------------------
(***************************************************************************)
(* The padding and the walk of ComputeSha256, for a file of any length:    *)
(* the blocks that are compressed hold the file and nothing but it, and no *)
(* two files are padded to the same blocks.                                *)
(***************************************************************************)
EXTENDS Sha256, TLAPS

(* The padding is exact for every length of a file.                        *)
THEOREM PaddingIsExact == \A length \in Nat : PaddedExactly(length)
  BY DEF PaddedExactly, PaddedLength, PaddingZeros

(* The walk over the blocks never reads behind the end of the buffer,      *)
(* whatever the length of the file.                                        *)
THEOREM WalkStaysInside ==
  \A length \in Nat : \A o \in Offsets(PaddedLength(length)) :
    ReadAt(o) \subseteq 0..(PaddedLength(length) - 1)
<1> SUFFICES ASSUME NEW length \in Nat, NEW o \in Offsets(PaddedLength(length))
             PROVE  ReadAt(o) \subseteq 0..(PaddedLength(length) - 1)
  OBVIOUS
<1> DEFINE p == PaddedLength(length)
<1>1. p \in Nat /\ p % 64 = 0
  BY PaddingIsExact DEF PaddedExactly, PaddedLength, PaddingZeros
<1>2. o \in 0..(p - 1) /\ o % 64 = 0
  BY DEF Offsets
<1> HIDE DEF p
<1>3. o + 63 < p
  BY <1>1, <1>2
<1>4. ASSUME NEW i \in 0..15, NEW j \in 0..3
      PROVE  o + 4 * i + j \in 0..(p - 1)
  BY <1>1, <1>2, <1>3
<1> QED
  BY <1>4 DEF ReadAt, p

-----------------------------------------------------------------------------
(* The numbers that fit the 64 bits of bit_len, and the files whose length *)
(* in bits does.                                                           *)
Fits(b) == b < 65536 * 65536 * 65536 * 65536
Files == {bytes \in Seq(0..255) : Fits(8 * Len(bytes))}

(* What is left of a number after its lowest i bytes, and what has been    *)
(* read of it when its bytes come in again from the highest.               *)
Rest(b) ==
  [i \in 0..7 |->
     CASE i = 0 -> b
       [] i = 1 -> b \div 256
       [] i = 2 -> (b \div 256) \div 256
       [] i = 3 -> ((b \div 256) \div 256) \div 256
       [] i = 4 -> (((b \div 256) \div 256) \div 256) \div 256
       [] i = 5 -> ((((b \div 256) \div 256) \div 256) \div 256) \div 256
       [] i = 6 -> (((((b \div 256) \div 256) \div 256) \div 256) \div 256) \div 256
       [] i = 7 -> ((((((b \div 256) \div 256) \div 256) \div 256) \div 256) \div 256)
                     \div 256]

Reread(b) == [i \in 0..8 |-> IF i = 0 THEN 0 ELSE Rest(b)[8 - i]]

(* A file is shorter than 256 to the eighth, so the highest byte is all    *)
(* that is left after seven.                                               *)
LEMMA RestSteps ==
  ASSUME NEW b \in Nat
  PROVE  /\ Rest(b)[0] = b
         /\ \A i \in 0..7 : Rest(b)[i] \in Nat
         /\ \A i \in 1..7 : Rest(b)[i] = Rest(b)[i - 1] \div 256
<1>1. \A i \in 0..7 : i = 0 \/ i = 1 \/ i = 2 \/ i = 3 \/ i = 4 \/ i = 5 \/ i = 6 \/ i = 7
  OBVIOUS
<1> DEFINE d(n) == n \div 256
<1>2. \A n \in Nat : d(n) \in Nat
  OBVIOUS
<1>3. /\ Rest(b)[0] = b
      /\ Rest(b)[1] = d(b)
      /\ Rest(b)[2] = d(Rest(b)[1])
      /\ Rest(b)[3] = d(Rest(b)[2])
      /\ Rest(b)[4] = d(Rest(b)[3])
      /\ Rest(b)[5] = d(Rest(b)[4])
      /\ Rest(b)[6] = d(Rest(b)[5])
      /\ Rest(b)[7] = d(Rest(b)[6])
  BY DEF Rest
<1>4. \A i \in 1..7 : Rest(b)[i] = d(Rest(b)[i - 1])
  <2> SUFFICES ASSUME NEW i \in 1..7 PROVE Rest(b)[i] = d(Rest(b)[i - 1])
    OBVIOUS
  <2> HIDE DEF d
  <2>1. QED BY <1>3
<1>5. \A i \in 0..7 : Rest(b)[i] \in Nat
  <2> HIDE DEF d
  <2>1. QED BY <1>1, <1>2, <1>3
<1>6. QED BY <1>3, <1>4, <1>5

LEMMA RestShrinks ==
  ASSUME NEW b \in Nat, Fits(b)
  PROVE  Rest(b)[7] \in 0..255
<1> DEFINE r(i) == Rest(b)[i]
<1>1. /\ r(0) = b
      /\ \A i \in 0..7 : r(i) \in Nat
      /\ \A i \in 1..7 : r(i) = r(i - 1) \div 256
  BY RestSteps
<1> HIDE DEF r
<1>2. \A n, m \in Nat : n < 256 * m => n \div 256 < m
  OBVIOUS
<1>3. r(1) < 256 * 65536 * 65536 * 65536
  BY <1>1 DEF Fits
<1>4. r(2) < 65536 * 65536 * 65536
  BY <1>1, <1>3
<1>5. r(3) < 256 * 65536 * 65536
  BY <1>1, <1>4
<1>6. r(4) < 65536 * 65536
  BY <1>1, <1>5
<1>7. r(5) < 256 * 65536
  BY <1>1, <1>6
<1>8. r(6) < 65536
  BY <1>1, <1>7
<1>9. r(7) < 256
  BY <1>1, <1>8
<1>10. QED BY <1>1, <1>9 DEF r

(* Putting the next byte behind what has been read.                        *)
LEMMA RereadSteps ==
  ASSUME NEW b \in Nat, Fits(b), NEW i \in 1..8
  PROVE  Reread(b)[i] = 256 * Reread(b)[i - 1] + (Reread(b)[i] % 256)
<1> DEFINE low == Reread(b)[i]
           high == Reread(b)[i - 1]
<1>1. low = Rest(b)[8 - i] /\ 8 - i \in 0..7
  BY DEF Reread
<1>2. low \in Nat
  BY <1>1, RestSteps
<1>3. low = 256 * high + (low % 256)
  <2>1. CASE i = 1
    <3>1. low \in 0..255 /\ high = 0
      BY <1>1, <2>1, RestShrinks DEF Reread
    <3> HIDE DEF low, high
    <3>2. QED BY <3>1
  <2>2. CASE i # 1
    <3>1. high = Rest(b)[9 - i] /\ 9 - i \in 1..7
      BY <2>2 DEF Reread
    <3>2. Rest(b)[9 - i] = Rest(b)[(9 - i) - 1] \div 256
      <4>1. \A k \in 1..7 : Rest(b)[k] = Rest(b)[k - 1] \div 256
        BY RestSteps
      <4>2. QED BY <3>1, <4>1, Zenon
    <3>3. high = low \div 256
      BY <1>1, <3>1, <3>2
    <3> HIDE DEF low, high
    <3>4. QED BY <1>2, <3>3
  <2>3. QED BY <2>1, <2>2
<1>4. QED BY <1>3

(* The recursive function of LengthByte is Rest: the function the code's   *)
(* shifts describe exists, and there is only one.                          *)
LEMMA LengthByteIs ==
  ASSUME NEW b \in Nat, NEW k \in 0..7
  PROVE  LengthByte(b, k) = Rest(b)[k] % 256
<1> DEFINE Shifts(f) == f = [i \in 0..7 |-> IF i = 0 THEN b ELSE f[i - 1] \div 256]
           shifted == CHOOSE f : Shifts(f)
<1>1. Shifts(Rest(b))
  <2>1. Rest(b) = [i \in 0..7 |-> Rest(b)[i]]
    BY DEF Rest
  <2>2. \A i \in 0..7 : Rest(b)[i] = IF i = 0 THEN b ELSE Rest(b)[i - 1] \div 256
    BY RestSteps
  <2>3. QED BY <2>1, <2>2, Zenon
<1>2. Shifts(shifted)
  BY <1>1, Zenon
<1>3. /\ shifted[0] = b
      /\ \A i \in 1..7 : shifted[i] = shifted[i - 1] \div 256
  <2> HIDE DEF shifted
  <2>1. QED BY <1>2
<1>4. LengthByte(b, k) = shifted[k] % 256
  BY Zenon DEF LengthByte
<1> HIDE DEF shifted
<1>5. \A i \in 0..7 : shifted[i] = Rest(b)[i]
  BY <1>3, RestSteps
<1>6. QED BY <1>4, <1>5

(* The recursion of BigEndian, as an equation and step by step.            *)
Reads(byte, f) == f = [i \in 0..8 |-> IF i = 0 THEN 0 ELSE 256 * f[i - 1] + byte[i]]

Joins(byte, f) == f[0] = 0 /\ \A i \in 1..8 : f[i] = 256 * f[i - 1] + byte[i]

LEMMA BigEndianReads ==
  ASSUME NEW byte, NEW g, Reads(byte, g)
  PROVE  \E f : Reads(byte, f) /\ BigEndian(byte) = f[8]
<1> DEFINE number == CHOOSE f : Reads(byte, f)
<1>1. BigEndian(byte) = number[8]
  BY Zenon DEF BigEndian, Reads
<1>2. Reads(byte, number)
  BY Zenon
<1> HIDE DEF number
<1>3. QED BY <1>1, <1>2, Zenon

LEMMA ReadsJoins ==
  ASSUME NEW byte, NEW f, Reads(byte, f)
  PROVE  Joins(byte, f)
BY DEF Reads, Joins

LEMMA JoinsReads ==
  ASSUME NEW byte, NEW f, NEW h, f = [i \in 0..8 |-> h[i]], Joins(byte, f)
  PROVE  Reads(byte, f)
<1>1. \A i \in 0..8 : h[i] = f[i]
  OBVIOUS
<1>2. \A i \in 0..8 : i = 0 \/ i \in 1..8
  OBVIOUS
<1>3. \A i \in 0..8 : h[i] = IF i = 0 THEN 0 ELSE 256 * f[i - 1] + byte[i]
  BY <1>1, <1>2, Zenon DEF Joins
<1>4. QED BY <1>3 DEF Reads

(* Two numbers read from the same eight bytes are the same.                *)
LEMMA SameBytesSameNumber ==
  ASSUME NEW byte, NEW f, NEW g, Joins(byte, f), Joins(byte, g)
  PROVE  f[8] = g[8]
<1>1. \A i \in 1..8 : f[i - 1] = g[i - 1] => f[i] = g[i]
  BY DEF Joins
<1>2. f[0] = g[0]
  BY DEF Joins
<1>3. f[1] = g[1] /\ f[2] = g[2] /\ f[3] = g[3] /\ f[4] = g[4]
  BY <1>1, <1>2
<1>4. QED BY <1>1, <1>3

(* The bytes of a length, read from the highest, give the length back.     *)
LEMMA RereadJoins ==
  ASSUME NEW b \in Nat, Fits(b), NEW byte,
         \A i \in 1..8 : byte[i] = LengthByte(b, 8 - i)
  PROVE  Joins(byte, Reread(b))
<1>1. ASSUME NEW i \in 1..8
      PROVE  Reread(b)[i] = 256 * Reread(b)[i - 1] + LengthByte(b, 8 - i)
  <2>1. 8 - i \in 0..7 /\ Reread(b)[i] = Rest(b)[8 - i]
    BY DEF Reread
  <2>2. LengthByte(b, 8 - i) = Rest(b)[8 - i] % 256
    BY <2>1, LengthByteIs, Zenon
  <2>3. QED BY <2>1, <2>2, RereadSteps
<1>2. Reread(b)[0] = 0
  BY DEF Reread
<1>3. QED BY <1>1, <1>2, Zenon DEF Joins

LEMMA LengthIsRead ==
  ASSUME NEW b \in Nat, Fits(b), NEW byte,
         \A i \in 1..8 : byte[i] = LengthByte(b, 8 - i)
  PROVE  BigEndian(byte) = b
<1>1. Joins(byte, Reread(b))
  BY RereadJoins, Zenon
<1>2. Reread(b) = [i \in 0..8 |-> Reread(b)[i]]
  BY DEF Reread
<1>3. Reads(byte, Reread(b))
  BY <1>1, <1>2, JoinsReads, Zenon
<1>4. PICK number : Reads(byte, number) /\ BigEndian(byte) = number[8]
  BY <1>3, BigEndianReads, Zenon
<1>5. number[8] = Reread(b)[8]
  BY <1>1, <1>4, ReadsJoins, SameBytesSameNumber, Zenon
<1>6. Reread(b)[8] = b
  BY RestSteps DEF Reread
<1>7. QED BY <1>4, <1>5, <1>6
(* What stands where in the buffer.                                        *)
LEMMA FunctionIsSeq ==
  ASSUME NEW S, NEW k \in Nat, NEW f, f \in [1..k -> S]
  PROVE  f \in Seq(S) /\ Len(f) = k
OBVIOUS

LEMMA WiderSeq ==
  ASSUME NEW S, NEW T, S \subseteq T, NEW s \in Seq(S)
  PROVE  s \in Seq(T)
<1>1. s \in [1..Len(s) -> S] /\ Len(s) \in Nat
  OBVIOUS
<1>2. s \in [1..Len(s) -> T]
  BY <1>1
<1>3. QED BY <1>1, <1>2

LEMMA Joined ==
  ASSUME NEW S, NEW s \in Seq(S), NEW t \in Seq(S)
  PROVE  /\ s \o t \in Seq(S)
         /\ Len(s \o t) = Len(s) + Len(t)
         /\ \A i \in 1..Len(s) : (s \o t)[i] = s[i]
         /\ \A i \in 1..Len(t) : (s \o t)[Len(s) + i] = t[i]
OBVIOUS

LEMMA BufferShape ==
  ASSUME NEW bytes \in Seq(0..255)
  PROVE  /\ Buffer(bytes) \in Seq(Nat)
         /\ Len(Buffer(bytes)) = PaddedLength(Len(bytes))
         /\ \A i \in 1..Len(bytes) : Buffer(bytes)[i] = bytes[i]
         /\ \A i \in 1..8 : Buffer(bytes)[PaddedLength(Len(bytes)) - 8 + i]
                              = LengthByte(8 * Len(bytes), 8 - i)
<1> DEFINE n == Len(bytes)
           zeros == [i \in 1..PaddingZeros(n) |-> 0]
           tail == [i \in 1..8 |-> LengthByte(8 * n, 8 - i)]
           marked == bytes \o <<128>>
           filled == marked \o zeros
<1>1. n \in Nat /\ PaddingZeros(n) \in Nat
  BY DEF PaddingZeros
<1>2. zeros \in Seq(Nat) /\ Len(zeros) = PaddingZeros(n)
  BY <1>1, FunctionIsSeq
<1>3. tail \in Seq(Nat) /\ Len(tail) = 8
  <2>1. \A i \in 1..8 : LengthByte(8 * n, 8 - i) \in Nat
    <3> SUFFICES ASSUME NEW i \in 1..8 PROVE LengthByte(8 * n, 8 - i) \in Nat
      OBVIOUS
    <3>1. 8 * n \in Nat /\ 8 - i \in 0..7
      BY <1>1
    <3>2. Rest(8 * n)[8 - i] \in Nat
      BY <3>1, RestSteps, Zenon
    <3>3. LengthByte(8 * n, 8 - i) = Rest(8 * n)[8 - i] % 256
      BY <3>1, LengthByteIs, Zenon
    <3>4. QED BY <3>2, <3>3
  <2>2. tail \in [1..8 -> Nat]
    BY <2>1
  <2>3. QED BY <2>2, FunctionIsSeq
<1>4. Buffer(bytes) = filled \o tail
  BY Zenon DEF Buffer
<1> HIDE DEF zeros, tail, filled, marked
<1>5. bytes \in Seq(Nat) /\ <<128>> \in Seq(Nat) /\ Len(<<128>>) = 1
  <2>1. 0..255 \subseteq Nat
    OBVIOUS
  <2>2. bytes \in Seq(Nat)
    BY <2>1, WiderSeq, Zenon
  <2>3. <<128>> \in Seq(Nat) /\ Len(<<128>>) = 1
    OBVIOUS
  <2>4. QED BY <2>2, <2>3
<1>6. /\ marked \in Seq(Nat) /\ Len(marked) = n + 1
      /\ \A i \in 1..n : marked[i] = bytes[i]
  BY <1>5, Joined DEF marked
<1> HIDE DEF n
<1>7. /\ filled \in Seq(Nat) /\ Len(filled) = n + 1 + PaddingZeros(n)
      /\ \A i \in 1..(n + 1) : filled[i] = marked[i]
  <2>1. \A i \in 1..Len(marked) : filled[i] = marked[i]
    BY <1>2, <1>6, Joined, Zenon DEF filled
  <2>2. filled \in Seq(Nat) /\ Len(filled) = Len(marked) + Len(zeros)
    BY <1>2, <1>6, Joined, Zenon DEF filled
  <2>3. QED BY <1>1, <1>2, <1>6, <2>1, <2>2
<1>8. /\ filled \o tail \in Seq(Nat)
      /\ Len(filled \o tail) = n + 1 + PaddingZeros(n) + 8
      /\ \A i \in 1..(n + 1 + PaddingZeros(n)) : (filled \o tail)[i] = filled[i]
      /\ \A i \in 1..8 : (filled \o tail)[n + 1 + PaddingZeros(n) + i] = tail[i]
  <2> filled \in Seq(Nat) /\ tail \in Seq(Nat)
    BY <1>3, <1>7
  <2>1. \A i \in 1..Len(filled) : (filled \o tail)[i] = filled[i]
    BY Joined, Zenon
  <2>2. \A i \in 1..Len(tail) : (filled \o tail)[Len(filled) + i] = tail[i]
    OBVIOUS
  <2>3. filled \o tail \in Seq(Nat) /\ Len(filled \o tail) = Len(filled) + Len(tail)
    BY Joined, Zenon
  <2>4. QED BY <1>1, <1>3, <1>7, <2>1, <2>2, <2>3
<1>9. PaddedLength(n) = n + 1 + PaddingZeros(n) + 8
  BY <1>1 DEF PaddedLength
<1>10. \A i \in 1..n : i \in 1..(n + 1) /\ i \in 1..(n + 1 + PaddingZeros(n))
  BY <1>1
<1>11. \A i \in 1..n : (filled \o tail)[i] = bytes[i]
  BY <1>6, <1>7, <1>8, <1>10, Zenon
<1>12. \A i \in 1..8 : tail[i] = LengthByte(8 * n, 8 - i)
  BY Zenon DEF tail
<1>13. \A i \in 1..8 : PaddedLength(n) - 8 + i = n + 1 + PaddingZeros(n) + i
  BY <1>1, <1>9
<1>14. \A i \in 1..8 : Buffer(bytes)[PaddedLength(n) - 8 + i] = LengthByte(8 * n, 8 - i)
  BY <1>4, <1>8, <1>12, <1>13, Zenon
<1>15. QED BY <1>4, <1>8, <1>9, <1>11, <1>14, Zenon DEF n

(* The blocks name the length of the file, and so give the file back.      *)
LEMMA FileIsRead ==
  ASSUME NEW bytes \in Files
  PROVE  SubSeq(Buffer(bytes), 1, NamedLength(Buffer(bytes))) = bytes
<1> DEFINE n == Len(bytes)
           p == PaddedLength(n)
           buffer == Buffer(bytes)
           lastEight == SubSeq(buffer, Len(buffer) - 7, Len(buffer))
<1>1. bytes \in Seq(0..255) /\ n \in Nat /\ 8 * n \in Nat /\ Fits(8 * n)
  BY DEF Files
<1>2. /\ buffer \in Seq(Nat) /\ Len(buffer) = p
      /\ \A i \in 1..n : buffer[i] = bytes[i]
      /\ \A i \in 1..8 : buffer[p - 8 + i] = LengthByte(8 * n, 8 - i)
  BY <1>1, BufferShape
<1>3. p \in Nat /\ n + 9 <= p
  BY <1>1, PaddingIsExact DEF PaddedExactly, PaddedLength, PaddingZeros
<1> HIDE DEF n, p, buffer
<1>4. \A i \in 1..8 : lastEight[i] = buffer[p - 8 + i]
  <2>1. \A i \in 1..8 : lastEight[i] = buffer[(p - 7) + i - 1]
    BY <1>1, <1>2, <1>3
  <2>2. \A i \in 1..8 : (p - 7) + i - 1 = p - 8 + i
    BY <1>3
  <2>3. QED BY <2>1, <2>2
<1> HIDE DEF lastEight
<1>5. BigEndian(lastEight) = 8 * n
  BY <1>1, <1>2, <1>4, LengthIsRead, Zenon
<1>6. NamedLength(buffer) = n
  <2>1. NamedLength(buffer) = (8 * n) \div 8
    BY <1>5, Zenon DEF NamedLength, lastEight
  <2>2. QED BY <1>1, <2>1
<1>7. SubSeq(buffer, 1, n) = bytes
  BY <1>1, <1>2, <1>3 DEF n
<1>8. QED BY <1>6, <1>7 DEF buffer

(* The walk over the blocks reads every byte of the buffer.                *)
LEMMA WalkReadsAll ==
  ASSUME NEW length \in Nat
  PROVE  UNION {ReadAt(o) : o \in Offsets(PaddedLength(length))}
           = 0..(PaddedLength(length) - 1)
<1> DEFINE p == PaddedLength(length)
<1>1. UNION {ReadAt(o) : o \in Offsets(p)} \subseteq 0..(p - 1)
  BY WalkStaysInside
<1>2. p \in Nat
  BY DEF PaddedLength, PaddingZeros
<1> HIDE DEF p
<1>3. ASSUME NEW x \in 0..(p - 1) PROVE \E o \in Offsets(p) : x \in ReadAt(o)
  <2> DEFINE r == x % 64
             i == r \div 4
             j == r % 4
  <2>1. r \in 0..63 /\ x - r \in 0..(p - 1) /\ (x - r) % 64 = 0
    BY <1>2
  <2>2. i \in 0..15 /\ j \in 0..3 /\ r = 4 * i + j
    <3> HIDE DEF r
    <3>1. QED BY <2>1
  <2> HIDE DEF r, i, j
  <2>3. x = (x - r) + 4 * i + j
    BY <1>2, <2>1, <2>2
  <2>4. x - r \in Offsets(p)
    BY <2>1, Zenon DEF Offsets
  <2>5. x \in ReadAt(x - r)
    <3>1. \E k \in 0..15, l \in 0..3 : x = (x - r) + 4 * k + l
      BY <2>2, <2>3
    <3>2. QED BY <3>1 DEF ReadAt
  <2>6. QED BY <2>4, <2>5
<1>4. QED BY <1>1, <1>3 DEF p

(* For every file whose length the 64 bits can hold, the blocks that are   *)
(* compressed hold it whole and name its length.                           *)
THEOREM BlocksAlwaysHoldTheFile == payload \in Files => BlocksHoldTheFile
<1> SUFFICES ASSUME payload \in Files PROVE BlocksHoldTheFile
  OBVIOUS
<1>1. payload \in Seq(0..255) /\ Len(payload) \in Nat
  BY DEF Files
<1>2. PaddedExactly(Len(payload))
  BY <1>1, PaddingIsExact
<1>3. Len(Buffer(payload)) = PaddedLength(Len(payload))
  BY <1>1, BufferShape
<1>4. UNION {ReadAt(o) : o \in Offsets(PaddedLength(Len(payload)))}
        = 0..(Len(Buffer(payload)) - 1)
  BY <1>1, <1>3, WalkReadsAll
<1>5. SubSeq(Buffer(payload), 1, NamedLength(Buffer(payload))) = payload
  BY FileIsRead
<1>6. QED BY <1>2, <1>3, <1>4, <1>5, Zenon DEF BlocksHoldTheFile

(* Two files are padded to the same blocks only if they are the same file: *)
(* whatever the rounds do, the padding never makes two files one.          *)
THEOREM PaddingIsInjective ==
  \A a, b \in Files : Buffer(a) = Buffer(b) => a = b
<1> SUFFICES ASSUME NEW a \in Files, NEW b \in Files, Buffer(a) = Buffer(b)
             PROVE  a = b
  OBVIOUS
<1>1. a = SubSeq(Buffer(a), 1, NamedLength(Buffer(a)))
  BY FileIsRead, Zenon
<1>2. b = SubSeq(Buffer(b), 1, NamedLength(Buffer(b)))
  BY FileIsRead, Zenon
<1>3. QED BY <1>1, <1>2, Zenon
===============================================================================
