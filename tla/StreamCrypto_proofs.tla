------------------------- MODULE StreamCrypto_proofs -------------------------
(***************************************************************************)
(* Theorems of ChunkLayout, StreamCrypto and Download, for every frame,    *)
(* chunk and file size.                                                    *)
(***************************************************************************)
EXTENDS Download, SumLemmas, TLAPS

(***************************************************************************)
(* The geometry: the three parties that compute it on their own agree.     *)
(***************************************************************************)
(* The sizes of the layout are positive numbers.                           *)
LEMMA LayoutTypes ==
  /\ FrameSize \in Nat \ {0}
  /\ FrameOverhead \in Nat
  /\ ChunkSize \in Nat \ {0}
  /\ FrameStride \in Nat \ {0}
<1>1. PICK k \in 1..ChunkSize : ChunkSize = k * FrameSize
  BY LayoutAssumption
<1> QED
  BY <1>1, LayoutAssumption DEF FrameStride

(* CeilDiv is the least number of parts that holds all.                    *)
LEMMA CeilDivBounds ==
  ASSUME NEW a \in Nat, NEW b \in Nat \ {0}
  PROVE  /\ CeilDiv(a, b) \in Nat
         /\ a <= CeilDiv(a, b) * b
         /\ a > 0 => (CeilDiv(a, b) - 1) * b < a
         /\ a > 0 => CeilDiv(a, b) > 0
<1> DEFINE q == (a + b - 1) \div b
           m == (a + b - 1) % b
<1>1. /\ q \in Nat
      /\ m \in 0..(b - 1)
      /\ a + b - 1 = b * q + m
  OBVIOUS
<1>2. CeilDiv(a, b) = q
  BY DEF CeilDiv
<1>3. a <= q * b
  BY <1>1
<1>4. (q - 1) * b = q * b - b
  BY <1>1
<1>5. ASSUME a > 0 PROVE q > 0
  BY <1>3, <1>1, <1>5
<1> HIDE DEF q, m
<1> QED
  BY <1>1, <1>2, <1>3, <1>4, <1>5

(* A chunk is a whole number of frames.                                    *)
LEMMA FramesPerChunkWhole ==
  /\ FramesPerChunk \in Nat \ {0}
  /\ ChunkSize = FramesPerChunk * FrameSize
<1>1. PICK k \in 1..ChunkSize : ChunkSize = k * FrameSize
  BY LayoutAssumption
<1>2. (k * FrameSize) \div FrameSize = k
  BY <1>1, LayoutTypes
<1> QED
  BY <1>1, <1>2, LayoutTypes DEF FramesPerChunk

(* Multiplying by a positive number keeps the order.                       *)
LEMMA Monotone ==
  ASSUME NEW a \in Int, NEW b \in Int, NEW c \in Nat \ {0}
  PROVE  /\ a <= b <=> a * c <= b * c
         /\ a < b <=> a * c < b * c
  OBVIOUS

(***************************************************************************)
(* A full chunk is FramesPerChunk full frames, so that the place a chunk   *)
(* is given and the index of its first frame are those of one grid over    *)
(* the whole file.                                                         *)
(***************************************************************************)
LEMMA FullChunkFrames == CeilDiv(ChunkSize, FrameSize) = FramesPerChunk
<1> DEFINE q == CeilDiv(ChunkSize, FrameSize)
           k == FramesPerChunk
<1>1. /\ q \in Nat
      /\ k * FrameSize <= q * FrameSize
      /\ (q - 1) * FrameSize < k * FrameSize
  BY CeilDivBounds, LayoutTypes, FramesPerChunkWhole
<1>2. k \in Nat /\ FrameSize \in Nat \ {0}
  BY LayoutTypes, FramesPerChunkWhole
<1> HIDE DEF q, k
<1>3. k <= q
  BY <1>1, <1>2, Monotone
<1>4. q - 1 < k
  BY <1>1, <1>2, Monotone
<1> QED
  BY <1>1, <1>2, <1>3, <1>4 DEF q, k

(* Where SaveChunk puts a chunk and how it numbers its frames agree with   *)
(* the one grid a reader of the whole file goes by.                        *)
THEOREM ChunkOnGrid ==
  ASSUME NEW n \in Nat
  PROVE  /\ FirstFrame(n) \in Nat
         /\ FirstFrame(n) * FrameSize = n * ChunkSize
         /\ ChunkOffset(n) = FirstFrame(n) * FrameStride
<1> DEFINE k == FramesPerChunk
<1>1. /\ k \in Nat
      /\ ChunkSize = k * FrameSize
      /\ FrameSize \in Nat \ {0}
      /\ FrameOverhead \in Nat
  BY LayoutTypes, FramesPerChunkWhole
<1>2. EncryptedSize(ChunkSize) = k * FrameSize + k * FrameOverhead
  BY <1>1, FullChunkFrames, LayoutTypes DEF EncryptedSize
<1> HIDE DEF k
<1>3. FirstFrame(n) = n * k
  BY DEF FirstFrame, k
<1>4. n * (k * FrameSize + k * FrameOverhead) = (n * k) * (FrameSize + FrameOverhead)
  BY <1>1
<1> QED
  BY <1>1, <1>2, <1>3, <1>4 DEF ChunkOffset, FrameStride

(***************************************************************************)
(* The chunks of a file tile it: each begins where the one before ends,    *)
(* none is empty, all but the last are full and the last ends with the     *)
(* file.                                                                   *)
(***************************************************************************)
THEOREM ChunksTile ==
  ASSUME NEW total \in Nat \ {0}, NEW n \in 0..(TotalChunks(total) - 1)
  PROVE  /\ MaxChunkBytes(total, n) \in 1..ChunkSize
         /\ n * ChunkSize < total
         /\ n < TotalChunks(total) - 1 => MaxChunkBytes(total, n) = ChunkSize
         /\ n = TotalChunks(total) - 1 => n * ChunkSize + MaxChunkBytes(total, n) = total
<1> DEFINE t == TotalChunks(total)
<1>1. /\ ChunkSize \in Nat \ {0}
      /\ t \in Nat
      /\ total <= t * ChunkSize
      /\ (t - 1) * ChunkSize < total
  BY LayoutTypes, CeilDivBounds DEF TotalChunks
<1>2. n \in Nat /\ n <= t - 1
  BY <1>1
<1> HIDE DEF t
<1>3. n * ChunkSize <= (t - 1) * ChunkSize
  BY <1>1, <1>2, Monotone
<1>4. n * ChunkSize < total
  BY <1>1, <1>2, <1>3
<1>5. ASSUME n < t - 1 PROVE total - n * ChunkSize > ChunkSize
  <2>1. (n + 1) * ChunkSize <= (t - 1) * ChunkSize
    BY <1>1, <1>2, <1>5, Monotone
  <2>2. (n + 1) * ChunkSize = n * ChunkSize + ChunkSize
    BY <1>1, <1>2
  <2> QED
    BY <2>1, <2>2, <1>1, <1>2
<1>6. ASSUME n = t - 1 PROVE total - n * ChunkSize <= ChunkSize
  BY <1>1, <1>2, <1>6
<1>7. n * ChunkSize \in Nat
  BY <1>1, <1>2
<1> DEFINE r == total - n * ChunkSize
<1>8. r \in Nat \ {0}
  BY <1>4, <1>7
<1>9. MaxChunkBytes(total, n) = IF r < 0 THEN 0 ELSE IF r > ChunkSize THEN ChunkSize ELSE r
  BY DEF MaxChunkBytes
<1>10. (n < t - 1 => r > ChunkSize) /\ (n = t - 1 => r <= ChunkSize)
  BY <1>5, <1>6
<1>11. n * ChunkSize + r = total
  BY <1>7
<1> HIDE DEF r
<1>12. /\ MaxChunkBytes(total, n) \in 1..ChunkSize
       /\ n < t - 1 => MaxChunkBytes(total, n) = ChunkSize
       /\ n = t - 1 => MaxChunkBytes(total, n) = r
  BY <1>1, <1>8, <1>9, <1>10
<1> QED
  BY <1>4, <1>11, <1>12 DEF t

(***************************************************************************)
(* The frame a chunk's sealing reader makes next is as long as the one the *)
(* opening reader, which counts from the whole size, expects at its index. *)
(***************************************************************************)
THEOREM FrameLengthsAgree ==
  ASSUME NEW total \in Nat \ {0}, NEW n \in 0..(TotalChunks(total) - 1),
         NEW i \in Nat, i * FrameSize < ChunkEnd(total, n)
  PROVE  /\ i * FrameSize < total
         /\ NextFrameBytes(ChunkEnd(total, n) - i * FrameSize) =
              NextFrameBytes(total - i * FrameSize)
<1> DEFINE e == ChunkEnd(total, n)
           p == i * FrameSize
<1>1. CASE n = TotalChunks(total) - 1
  <2>1. e = total
    BY <1>1, ChunksTile DEF ChunkEnd
  <2> QED
    BY <2>1
<1>2. CASE n # TotalChunks(total) - 1
  <2> DEFINE m == (n + 1) * FramesPerChunk
  <2>1. /\ FrameSize \in Nat \ {0}
        /\ FramesPerChunk \in Nat
        /\ ChunkSize = FramesPerChunk * FrameSize
        /\ ChunkSize \in Nat
        /\ n \in Nat
        /\ TotalChunks(total) \in Nat
    BY LayoutTypes, FramesPerChunkWhole, CeilDivBounds DEF TotalChunks
  <2>2. MaxChunkBytes(total, n) = ChunkSize /\ n < TotalChunks(total) - 1
    <3>1. n < TotalChunks(total) - 1
      BY <1>2, <2>1
    <3> QED
      BY <3>1, ChunksTile
  <2>3. e = n * ChunkSize + ChunkSize
    BY <2>2 DEF ChunkEnd
  <2>4. e = m * FrameSize /\ m \in Nat
    BY <2>1, <2>3
  <2>5. n + 1 \in 0..(TotalChunks(total) - 1)
    BY <2>1, <2>2
  <2>6. (n + 1) * ChunkSize < total
    BY <2>5, ChunksTile
  <2>7. e < total
    BY <2>1, <2>3, <2>6
  <2> HIDE DEF m, e
  <2>8. i < m
    BY <2>1, <2>4, Monotone DEF e
  <2>9. (i + 1) * FrameSize <= m * FrameSize
    BY <2>1, <2>4, <2>8, Monotone
  <2>10. (i + 1) * FrameSize = p + FrameSize /\ p \in Nat
    BY <2>1
  <2> HIDE DEF p
  <2>11. e - p >= FrameSize /\ total - p >= FrameSize /\ e \in Nat
    BY <2>1, <2>4, <2>7, <2>9, <2>10
  <2>12. NextFrameBytes(e - p) = FrameSize /\ NextFrameBytes(total - p) = FrameSize
    BY <2>1, <2>10, <2>11 DEF NextFrameBytes
  <2>13. p < total
    BY <2>1, <2>10, <2>11
  <2> QED
    BY <2>12, <2>13 DEF e, p
<1> QED
  BY <1>1, <1>2

(***************************************************************************)
(* Every frame of the file is sealed with some chunk.                      *)
(***************************************************************************)
THEOREM EveryFrameSealed ==
  ASSUME NEW total \in Nat \ {0}, NEW i \in Nat, i * FrameSize < total
  PROVE  \E n \in 0..(TotalChunks(total) - 1) :
           /\ FirstFrame(n) <= i
           /\ i * FrameSize < ChunkEnd(total, n)
<1> DEFINE k == FramesPerChunk
           n == i \div k
           t == TotalChunks(total)
<1>1. /\ FrameSize \in Nat \ {0}
      /\ k \in Nat \ {0}
      /\ ChunkSize = k * FrameSize
      /\ ChunkSize \in Nat \ {0}
  BY LayoutTypes, FramesPerChunkWhole
<1>2. t \in Nat /\ total <= t * ChunkSize
  BY <1>1, CeilDivBounds DEF TotalChunks
<1>3. n \in Nat /\ n * k <= i /\ i < n * k + k
  BY <1>1
<1> HIDE DEF k, n, t
<1>4. n * k * FrameSize <= i * FrameSize
  BY <1>1, <1>3, Monotone
<1>5. n * k * FrameSize = n * ChunkSize
  BY <1>1, <1>3
<1>6. n * ChunkSize < t * ChunkSize
  BY <1>1, <1>2, <1>3, <1>4, <1>5
<1>7. n < t
  BY <1>1, <1>2, <1>3, <1>6, Monotone
<1>8. n \in 0..(TotalChunks(total) - 1)
  BY <1>2, <1>3, <1>7 DEF t
<1>9. FirstFrame(n) <= i
  BY <1>3 DEF FirstFrame, k
<1>10. i * FrameSize < n * ChunkSize + ChunkSize
  <2>1. i * FrameSize < (n * k + k) * FrameSize
    BY <1>1, <1>3, Monotone
  <2>2. (n * k + k) * FrameSize = n * ChunkSize + ChunkSize
    BY <1>1, <1>3
  <2> QED
    BY <2>1, <2>2
<1>11. i * FrameSize < ChunkEnd(total, n)
  <2>1. CASE n < TotalChunks(total) - 1
    BY <2>1, <1>8, <1>10, ChunksTile DEF ChunkEnd
  <2>2. CASE n = TotalChunks(total) - 1
    BY <2>2, <1>8, ChunksTile DEF ChunkEnd
  <2> QED
    BY <2>1, <2>2, <1>2, <1>3, <1>7 DEF t
<1> QED
  BY <1>8, <1>9, <1>11

(* What whole parts hold can be taken out of a rounded-up division.        *)
LEMMA CeilDivOfSum ==
  ASSUME NEW k \in Nat, NEW b \in Nat \ {0}, NEW d \in Nat \ {0}
  PROVE  CeilDiv(k * d + b, d) = k + CeilDiv(b, d)
<1> DEFINE a == k * d + b
           p == CeilDiv(a, d)
           q == CeilDiv(b, d)
<1>1. a \in Nat \ {0}
  OBVIOUS
<1>2. p \in Nat /\ a <= p * d /\ (p - 1) * d < a
  BY <1>1, CeilDivBounds
<1>3. q \in Nat /\ b <= q * d /\ (q - 1) * d < b
  BY CeilDivBounds
<1> HIDE DEF p, q
<1>4. (k + q) * d = k * d + q * d /\ (k + q - 1) * d = k * d + (q - 1) * d
  BY <1>3
<1>5. (p - 1) * d < (k + q) * d /\ (k + q - 1) * d < p * d
  <2>1. k * d \in Nat /\ q * d \in Nat /\ (q - 1) * d \in Int /\ p * d \in Nat /\ (p - 1) * d \in Int
    BY <1>2, <1>3
  <2> QED
    BY <2>1, <1>2, <1>3, <1>4
<1>6. p - 1 < k + q /\ k + q - 1 < p
  BY <1>2, <1>3, <1>5, Monotone
<1>7. p = k + q
  BY <1>2, <1>3, <1>6
<1> QED
  BY <1>7 DEF p, q

(* What a part of a multipart upload is announced to hold.                 *)
PartLengths(total) ==
  [n \in 0..(TotalChunks(total) - 1) |-> EncryptedSize(MaxChunkBytes(total, n))]

(* Each is a length.                                                       *)
LEMMA PartLengthsType ==
  ASSUME NEW total \in Nat \ {0}, NEW n \in 0..(TotalChunks(total) - 1)
  PROVE  PartLengths(total)[n] \in Nat
<1>1. MaxChunkBytes(total, n) \in Nat \ {0}
  BY ChunksTile, LayoutTypes
<1>2. CeilDiv(MaxChunkBytes(total, n), FrameSize) \in Nat
  BY <1>1, CeilDivBounds, LayoutTypes
<1>3. CeilDiv(MaxChunkBytes(total, n), FrameSize) * FrameOverhead \in Nat
  BY <1>2, LayoutTypes
<1> QED
  BY <1>1, <1>3 DEF PartLengths, EncryptedSize

(* The parts before the last one fill what the filesystem backend would    *)
(* put before its chunk.                                                   *)
LEMMA FullPartsAddUp ==
  ASSUME NEW total \in Nat \ {0}, NEW n \in 0..(TotalChunks(total) - 1)
  PROVE  SumOf(PartLengths(total), 0..(n - 1)) = ChunkOffset(n)
<1> DEFINE f == PartLengths(total)
           Short(k) == 0..(k - 1)
           K == TotalChunks(total) - 1
           T == {t \in SUBSET (0..K) : \E k \in 0..K : t = Short(k) /\ SumOf(f, t) # ChunkOffset(k)}
<1>0. TotalChunks(total) \in Nat /\ K \in Int
  BY CeilDivBounds, LayoutTypes DEF TotalChunks
<1>1. \A k \in 0..K : Short(k) \in SUBSET (0..K)
  BY <1>0
<1> SUFFICES ASSUME T # {} PROVE FALSE
  BY <1>1
<1>2. \E t \in T : t \subseteq 0..K /\ \A q \in T : q \subseteq t => q = t
  <2> DEFINE S == 0..K
  <2>1. T \in SUBSET (SUBSET S)
    OBVIOUS
  <2>2. IsFiniteSet(S)
    BY <1>0, FS_Interval
  <2>3. S = 0..K
    OBVIOUS
  <2> HIDE DEF T, S
  <2>4. \E t \in T : t \subseteq S /\ \A q \in T : q \subseteq t => q = t
    BY <2>1, <2>2, SmallestSubset
  <2> QED
    BY <2>3, <2>4
<1>3. PICK t \in T : \A q \in T : q \subseteq t => q = t
  BY <1>2
<1>4. PICK k \in 0..K : t = Short(k) /\ SumOf(f, t) # ChunkOffset(k)
  BY <1>3
<1>5. IsFiniteSet(Short(k))
  BY <1>0, <1>4, FS_Interval
<1>6. ChunkOffset(0) = 0 /\ EncryptedSize(ChunkSize) \in Nat
  <2>1. EncryptedSize(ChunkSize) \in Nat
    <3>1. CeilDiv(ChunkSize, FrameSize) \in Nat
      BY CeilDivBounds, LayoutTypes
    <3>2. CeilDiv(ChunkSize, FrameSize) * FrameOverhead \in Nat
      BY <3>1, LayoutTypes
    <3> QED
      BY <3>2, LayoutTypes DEF EncryptedSize
  <2> QED
    BY <2>1 DEF ChunkOffset
<1>7. k # 0
  <2> SUFFICES ASSUME k = 0 PROVE FALSE
    OBVIOUS
  <2>1. Short(k) = {}
    OBVIOUS
  <2>2. SumOf(f, {}) = 0
    BY FS_EmptySet, SumEquation
  <2> QED
    BY <1>4, <1>6, <2>1, <2>2
<1> DEFINE j == k - 1
<1>8. j \in 0..K /\ j < K /\ Short(k) = Short(j) \union {j} /\ Short(j) = Short(k) \ {j}
  BY <1>0, <1>4, <1>7
<1>9. SumOf(f, Short(j)) = ChunkOffset(j)
  <2>1. Short(j) # Short(k) /\ Short(j) \subseteq Short(k)
    BY <1>8
  <2>2. Short(j) \notin T
    BY <1>3, <1>4, <2>1
  <2> QED
    BY <1>1, <1>8, <2>2
<1>10. SumOf(f, Short(k)) = f[j] + SumOf(f, Short(j))
  <2>1. \A u \in Short(k) : f[u] \in Nat
    BY <1>0, <1>4, PartLengthsType
  <2>2. j \in Short(k)
    BY <1>8
  <2> DEFINE S == Short(k)
  <2>3. IsFiniteSet(S) /\ j \in S /\ \A u \in S : f[u] \in Nat
    BY <1>5, <2>1, <2>2
  <2> HIDE DEF f, S, j
  <2>4. SumOf(f, S) = f[j] + SumOf(f, S \ {j})
    BY <2>3, SumWithout
  <2> QED
    BY <1>8, <2>4 DEF S
<1>11. f[j] = EncryptedSize(ChunkSize)
  <2>1. MaxChunkBytes(total, j) = ChunkSize
    BY <1>8, ChunksTile
  <2> QED
    BY <1>8, <2>1 DEF PartLengths
<1>12. ChunkOffset(k) = EncryptedSize(ChunkSize) + ChunkOffset(j)
  <2> DEFINE e == EncryptedSize(ChunkSize)
  <2>1. k \in Nat /\ e \in Nat
    BY <1>6, <1>0
  <2> HIDE DEF e
  <2>2. k * e = e + (k - 1) * e
    BY <2>1
  <2> QED
    BY <2>2 DEF ChunkOffset, e
<1> QED
  BY <1>4, <1>9, <1>10, <1>11, <1>12

(***************************************************************************)
(* The lengths that the parts of a multipart upload are announced with add *)
(* up to the length of the file sealed in one piece: what the S3 backend   *)
(* stores by parts is as long as what it stores at once, and as what the   *)
(* download takes it for.                                                  *)
(***************************************************************************)
THEOREM PartsAddUp ==
  ASSUME NEW total \in Nat \ {0}
  PROVE  SumOf(PartLengths(total), 0..(TotalChunks(total) - 1)) = EncryptedSize(total)
<1> DEFINE f == PartLengths(total)
           last == TotalChunks(total) - 1
           rest == MaxChunkBytes(total, last)
           m == last * FramesPerChunk
<1>1. last \in Nat /\ last \in 0..last
  <2>1. TotalChunks(total) \in Nat /\ TotalChunks(total) > 0
    BY CeilDivBounds, LayoutTypes DEF TotalChunks
  <2> QED
    BY <2>1
<1>2. rest \in Nat \ {0} /\ last * ChunkSize + rest = total
  BY <1>1, ChunksTile, LayoutTypes
<1>3. SumOf(f, 0..last) = f[last] + SumOf(f, 0..(last - 1))
  <2>1. \A n \in 0..last : f[n] \in Nat
    BY PartLengthsType
  <2> DEFINE S == 0..last
  <2> HIDE DEF f, last
  <2>2. IsFiniteSet(S)
    BY <1>1, FS_Interval
  <2>3. S \ {last} = 0..(last - 1)
    BY <1>1
  <2>4. last \in S /\ \A n \in S : f[n] \in Nat
    BY <1>1, <2>1
  <2> HIDE DEF S
  <2>5. SumOf(f, S) = f[last] + SumOf(f, S \ {last})
    BY <2>2, <2>4, SumWithout
  <2> QED
    BY <2>3, <2>5 DEF S
<1>4. SumOf(f, 0..(last - 1)) = ChunkOffset(last)
  BY <1>1, FullPartsAddUp
<1>5. f[last] = EncryptedSize(rest)
  BY <1>1 DEF PartLengths
<1>6. ChunkOffset(last) = m * FrameStride /\ m * FrameSize = last * ChunkSize /\ m \in Nat
  BY <1>1, ChunkOnGrid DEF FirstFrame
<1>7. FrameSize \in Nat \ {0} /\ FrameOverhead \in Nat
  BY LayoutTypes
<1> DEFINE c == CeilDiv(rest, FrameSize)
<1>8. c \in Nat /\ EncryptedSize(rest) = rest + c * FrameOverhead
  BY <1>2, <1>7, CeilDivBounds DEF EncryptedSize
<1>9. CeilDiv(total, FrameSize) = m + c
  <2>1. total = m * FrameSize + rest
    BY <1>2, <1>6
  <2> HIDE DEF m, rest
  <2>2. CeilDiv(m * FrameSize + rest, FrameSize) = m + CeilDiv(rest, FrameSize)
    BY <1>2, <1>6, <1>7, CeilDivOfSum
  <2> QED
    BY <2>1, <2>2
<1>10. EncryptedSize(total) = total + (m + c) * FrameOverhead
  BY <1>9 DEF EncryptedSize
<1> HIDE DEF last, rest, m, c
<1>11. m * FrameStride = m * FrameSize + m * FrameOverhead
  BY <1>6, <1>7 DEF FrameStride
<1>12. (m + c) * FrameOverhead = m * FrameOverhead + c * FrameOverhead
  BY <1>6, <1>7, <1>8
<1>13. /\ m * FrameOverhead \in Nat /\ c * FrameOverhead \in Nat
       /\ m * FrameSize \in Nat /\ rest \in Nat /\ total = m * FrameSize + rest
  BY <1>2, <1>6, <1>7, <1>8
<1>14. EncryptedSize(rest) + ChunkOffset(last) = EncryptedSize(total)
  BY <1>6, <1>8, <1>10, <1>11, <1>12, <1>13
<1> QED
  BY <1>3, <1>4, <1>5, <1>14 DEF last

(***************************************************************************)
(* The readers.                                                            *)
(***************************************************************************)
(* The file is not empty.                                                  *)
LEMMA SizeType == ASSUME TypeOK PROVE size \in Nat \ {0}
BY StreamAssumption DEF TypeOK

(* The chunks' numbers, sizes and ends are numbers.                        *)
LEMMA NumbersType ==
  ASSUME TypeOK
  PROVE  /\ TotalChunks(size) \in Nat
         /\ Numbers \subseteq Nat
         /\ \A n \in Numbers : MaxChunkBytes(size, n) \in 1..ChunkSize
         /\ \A n \in Numbers : ChunkEnd(size, n) \in Nat
<1>1. TotalChunks(size) \in Nat
  BY SizeType, LayoutTypes, CeilDivBounds DEF TotalChunks
<1>2. \A n \in Numbers : n \in Nat /\ MaxChunkBytes(size, n) \in 1..ChunkSize
  BY <1>1, SizeType, ChunksTile DEF Numbers
<1>3. \A n \in Numbers : ChunkEnd(size, n) \in Nat
  BY <1>2, LayoutTypes DEF ChunkEnd
<1> QED
  BY <1>1, <1>2, <1>3

(* The frames are those that start within the file.                        *)
LEMMA FrameNumbersAre ==
  ASSUME TypeOK, NEW i \in Nat
  PROVE  i \in FrameNumbers <=> i * FrameSize < size
<1> DEFINE c == CeilDiv(size, FrameSize)
<1>1. /\ c \in Nat
      /\ size <= c * FrameSize
      /\ (c - 1) * FrameSize < size
      /\ FrameSize \in Nat \ {0}
      /\ size \in Nat
  BY SizeType, LayoutTypes, CeilDivBounds
<1>2. i \in FrameNumbers <=> i <= c - 1
  BY <1>1 DEF FrameNumbers
<1> HIDE DEF c
<1>3. i <= c - 1 => i * FrameSize <= (c - 1) * FrameSize
  BY <1>1, Monotone
<1>4. i >= c => c * FrameSize <= i * FrameSize
  BY <1>1, Monotone
<1>5. i * FrameSize \in Nat /\ c * FrameSize \in Nat /\ (c - 1) * FrameSize \in Int
  BY <1>1
<1> QED
  BY <1>1, <1>2, <1>3, <1>4, <1>5

(* A frame takes what is left, up to its size.                             *)
LEMMA NextFrameBounds ==
  ASSUME NEW r \in Nat
  PROVE  /\ NextFrameBytes(r) \in 0..FrameSize
         /\ NextFrameBytes(r) <= r
         /\ r > 0 => NextFrameBytes(r) > 0
         /\ NextFrameBytes(r) < r => NextFrameBytes(r) = FrameSize
BY LayoutTypes DEF NextFrameBytes

(* Frames at different places of the grid do not overlap. *)
LEMMA GridFramesApart ==
  ASSUME NEW f \in Frames, NEW g \in Frames, f.index # g.index,
         f.at = f.index * FrameStride, g.at = g.index * FrameStride,
         f.bytes <= FrameSize, g.bytes <= FrameSize
  PROVE  ~Overlap(f, g)
<1>1. /\ FrameStride \in Nat \ {0}
      /\ FrameStride = FrameSize + FrameOverhead
      /\ FrameSize \in Nat
      /\ FrameOverhead \in Nat
  BY LayoutTypes DEF FrameStride
<1>2. /\ f.index \in Nat /\ g.index \in Nat
      /\ f.at \in Nat /\ g.at \in Nat
      /\ f.bytes \in Nat /\ g.bytes \in Nat
  BY DEF Frames
<1>3. ASSUME NEW i \in Nat, NEW j \in Nat, i < j
      PROVE  i * FrameStride + FrameStride <= j * FrameStride
  <2>1. (i + 1) * FrameStride <= j * FrameStride
    BY <1>1, <1>3, Monotone
  <2>2. (i + 1) * FrameStride = i * FrameStride + FrameStride
    BY <1>1
  <2> QED
    BY <2>1, <2>2
<1>4. \/ f.at + FrameStride <= g.at
      \/ g.at + FrameStride <= f.at
  <2>1. CASE f.index < g.index
    BY <2>1, <1>2, <1>3
  <2>2. CASE g.index < f.index
    BY <2>2, <1>2, <1>3
  <2> QED
    BY <2>1, <2>2, <1>2
<1> QED
  BY <1>1, <1>2, <1>4 DEF Overlap, SealedBytes

(***************************************************************************)
(* The frame a sealing reader makes next.                                  *)
(***************************************************************************)
NextFrame(n) ==
  [at |-> at[n], bytes |-> NextFrameBytes(left[n]), index |-> index[n],
   from |-> Consumed(n), own |-> TRUE]

(* The next frame of a chunk lies in its place in the object.              *)
LEMMA NextFrameOnGrid ==
  ASSUME StreamInv, NEW n \in Numbers, left[n] > 0
  PROVE  /\ NextFrame(n) \in Frames
         /\ index[n] \in FrameNumbers
         /\ Consumed(n) = index[n] * FrameSize
         /\ NextFrameBytes(left[n]) = NextFrameBytes(size - index[n] * FrameSize)
         /\ at[n] = index[n] * FrameStride
<1> USE DEF StreamInv
<1>1. /\ left[n] \in Nat /\ index[n] \in Nat /\ at[n] \in Nat
      /\ ChunkEnd(size, n) \in Nat
      /\ FrameSize \in Nat \ {0}
      /\ index[n] * FrameSize \in Nat
  BY NumbersType, LayoutTypes DEF TypeOK
<1>2. /\ index[n] * FrameSize + left[n] = ChunkEnd(size, n)
      /\ at[n] = index[n] * FrameStride
  BY DEF SealersOnGrid
<1>3. index[n] * FrameSize < ChunkEnd(size, n)
  BY <1>1, <1>2
<1>4. /\ index[n] * FrameSize < size
      /\ NextFrameBytes(ChunkEnd(size, n) - index[n] * FrameSize)
           = NextFrameBytes(size - index[n] * FrameSize)
  BY <1>1, <1>3, SizeType, FrameLengthsAgree DEF Numbers
<1>5. ChunkEnd(size, n) - index[n] * FrameSize = left[n]
  BY <1>1, <1>2
<1>6. Consumed(n) = index[n] * FrameSize
  BY <1>1, <1>2 DEF Consumed
<1>7. index[n] \in FrameNumbers
  BY <1>1, <1>4, FrameNumbersAre
<1>8. NextFrame(n) \in Frames
  BY <1>1, <1>6, NextFrameBounds DEF NextFrame, Frames
<1> QED
  BY <1>2, <1>4, <1>5, <1>6, <1>7, <1>8

(***************************************************************************)
(* The invariant holds at the start, and each of its parts is kept.        *)
(***************************************************************************)
LEMMA InitHolds == Init => StreamInv
<1> SUFFICES ASSUME Init PROVE StreamInv
  OBVIOUS
<1>1. TypeOK
  BY StreamAssumption DEF Init, TypeOK
<1> QED
  BY <1>1 DEF Init, StreamInv, SealersOnGrid, ObjectOnGrid, SealedStays, InOrder,
              ReaderOnGrid, BytesInPlace, StoredFileOpens

(* The file's size, and with it its chunks, stays.                         *)
LEMMA SizeStays == [Next]_vars => size' = size /\ Numbers' = Numbers
BY DEF Next, vars, writeVars, readVars, NewEncryptingReader, SealNextFrame, Finalize,
       Truncated, Tampered, Reordered, Spliced, Suffers, NewDecryptingReader,
       OpenNextFrame, FrameFails, EndOfFile, Numbers

(* What damage leaves is frames still, each with what was sealed in it. *)
LEMMA DamageKeepsSealed ==
  ASSUME StreamInv,
         Truncated \/ Tampered \/ Reordered \/ Spliced
  PROVE  /\ object' \subseteq Frames
         /\ \A f \in object' : \E g \in object :
              f.index = g.index /\ f.from = g.from /\ f.bytes = g.bytes
         /\ outcome = "stored"
         /\ damaged' = TRUE
         /\ UNCHANGED <<size, writeVars, readVars>>
<1> USE DEF StreamInv, TypeOK, Suffers
<1>1. CASE Truncated
  BY <1>1 DEF Truncated
<1>2. CASE Tampered
  BY <1>2 DEF Tampered
<1>3. CASE Reordered
  BY <1>3 DEF Reordered, Frames
<1>4. CASE Spliced
  BY <1>4 DEF Spliced, Frames
<1> QED
  BY <1>1, <1>2, <1>3, <1>4

(* Every step keeps the types.                                             *)
LEMMA TypeStep == StreamInv /\ [Next]_vars => TypeOK'
<1> SUFFICES ASSUME StreamInv, [Next]_vars PROVE TypeOK'
  OBVIOUS
<1> USE DEF StreamInv, TypeOK, writeVars, readVars
<1>0. /\ Numbers' = Numbers
      /\ Numbers \subseteq Nat
      /\ \A n \in Numbers : MaxChunkBytes(size, n) \in Nat
      /\ \A n \in Numbers : FirstFrame(n) \in Nat /\ ChunkOffset(n) \in Nat
  <2>1. FrameStride \in Nat
    BY LayoutTypes
  <2> QED
    BY <2>1, SizeStays, NumbersType, LayoutTypes, ChunkOnGrid
<1>1. ASSUME NEW n \in Numbers, NewEncryptingReader(n) PROVE TypeOK'
  BY <1>0, <1>1 DEF NewEncryptingReader
<1>2. ASSUME NEW n \in Numbers, SealNextFrame(n) PROVE TypeOK'
  <2> DEFINE f == NextFrame(n)
             b == NextFrameBytes(left[n])
  <2>1. f \in Frames /\ left[n] > 0
    BY <1>2, NextFrameOnGrid DEF SealNextFrame
  <2>2. /\ object' \subseteq object \union {f}
        /\ at' = [at EXCEPT ![n] = @ + SealedBytes(f)]
        /\ left' = [left EXCEPT ![n] = @ - b]
        /\ received' \subseteq received \union {n}
        /\ index' = [index EXCEPT ![n] = @ + 1]
        /\ UNCHANGED <<size, damaged, readVars>>
    BY <1>2 DEF SealNextFrame, NextFrame, SealedBytes
  <2>3. left[n] - b \in Nat
    BY NextFrameBounds, LayoutTypes
  <2>4. SealedBytes(f) \in Nat
    BY <2>1, LayoutTypes DEF SealedBytes, Frames
  <2> HIDE DEF f, b
  <2> QED
    BY <1>0, <2>1, <2>2, <2>3, <2>4
<1>3. CASE Finalize
  BY <1>0, <1>3 DEF Finalize
<1>4. CASE Truncated \/ Tampered \/ Reordered \/ Spliced
  BY <1>0, <1>4, DamageKeepsSealed
<1>5. CASE NewDecryptingReader
  BY <1>0, <1>5, SizeType DEF NewDecryptingReader
<1>6. CASE OpenNextFrame
  <2>1. PICK f \in object :
          /\ Opens(f)
          /\ rat' = rat + SealedBytes(f)
          /\ rleft' = rleft - f.bytes
          /\ right' = (right /\ f.own /\ f.from = size - rleft)
    BY <1>6 DEF OpenNextFrame
  <2>2. f.bytes \in Nat /\ rleft - f.bytes \in Nat /\ SealedBytes(f) \in Nat
    BY <2>1, NextFrameBounds, LayoutTypes DEF Opens, Frames, SealedBytes
  <2>3. /\ rindex' = rindex + 1
        /\ UNCHANGED <<size, writeVars, object, damaged, outcome>>
    BY <1>6 DEF OpenNextFrame
  <2>4. right' \in BOOLEAN
    BY <2>1
  <2> QED
    BY <1>0, <2>1, <2>2, <2>3, <2>4
<1>7. CASE FrameFails
  BY <1>0, <1>7 DEF FrameFails
<1>8. CASE EndOfFile
  BY <1>0, <1>8 DEF EndOfFile
<1>9. CASE UNCHANGED vars
  BY <1>0, <1>9 DEF vars
<1> QED
  BY <1>1, <1>2, <1>3, <1>4, <1>5, <1>6, <1>7, <1>8, <1>9 DEF Next

(* Every step keeps the sealing readers on the grid.                       *)
LEMMA SealersStep == StreamInv /\ [Next]_vars => SealersOnGrid'
<1> SUFFICES ASSUME StreamInv, [Next]_vars PROVE SealersOnGrid'
  OBVIOUS
<1> USE DEF StreamInv, TypeOK, writeVars
<1>0. /\ Numbers' = Numbers
      /\ size' = size
      /\ Numbers \subseteq Nat
  BY SizeStays, NumbersType
<1>1. ASSUME NEW n \in Numbers, NewEncryptingReader(n) PROVE SealersOnGrid'
  <2>1. /\ FirstFrame(n) \in Nat
        /\ FirstFrame(n) * FrameSize + MaxChunkBytes(size, n) = ChunkEnd(size, n)
        /\ ChunkOffset(n) = FirstFrame(n) * FrameStride
    BY <1>0, ChunkOnGrid DEF ChunkEnd
  <2> QED
    BY <1>0, <1>1, <2>1 DEF NewEncryptingReader, SealersOnGrid
<1>2. ASSUME NEW n \in Numbers, SealNextFrame(n) PROVE SealersOnGrid'
  <2> DEFINE b == NextFrameBytes(left[n])
             i == index[n]
  <2>1. /\ left[n] > 0
        /\ at' = [at EXCEPT ![n] = @ + (FrameOverhead + b)]
        /\ left' = [left EXCEPT ![n] = @ - b]
        /\ index' = [index EXCEPT ![n] = @ + 1]
    BY <1>2 DEF SealNextFrame, SealedBytes
  <2>2. /\ FirstFrame(n) <= i
        /\ i * FrameSize + left[n] = ChunkEnd(size, n)
        /\ at[n] = i * FrameStride
    BY <2>1 DEF SealersOnGrid
  <2>11. /\ left[n] \in Nat /\ i \in Nat
        /\ FrameSize \in Nat /\ FrameOverhead \in Nat
        /\ FrameStride = FrameSize + FrameOverhead
    BY LayoutTypes DEF FrameStride
  <2>12. b \in 0..FrameSize /\ b <= left[n] /\ (b < left[n] => b = FrameSize)
    BY <2>11, NextFrameBounds
  <2>13. FirstFrame(n) \in Nat /\ ChunkEnd(size, n) \in Nat
    BY <1>0, ChunkOnGrid, NumbersType
  <2> HIDE DEF b
  <2>3. /\ left[n] \in Nat /\ b \in Nat /\ i \in Nat /\ FirstFrame(n) \in Nat
        /\ ChunkEnd(size, n) \in Nat
        /\ left[n] - b > 0 => b = FrameSize
        /\ FrameSize \in Nat /\ FrameOverhead \in Nat
        /\ FrameStride = FrameSize + FrameOverhead
    BY <2>11, <2>12, <2>13
  <2>4. /\ (i + 1) * FrameSize = i * FrameSize + FrameSize
        /\ (i + 1) * FrameStride = i * FrameStride + FrameStride
    BY <2>3
  <2>5. left'[n] > 0 =>
          /\ FirstFrame(n) <= index'[n]
          /\ index'[n] * FrameSize + left'[n] = ChunkEnd(size, n)
          /\ at'[n] = index'[n] * FrameStride
    BY <2>1, <2>2, <2>3, <2>4
  <2>6. \A m \in Numbers \ {n} :
          left'[m] = left[m] /\ index'[m] = index[m] /\ at'[m] = at[m]
    BY <2>1
  <2> QED
    BY <1>0, <2>5, <2>6 DEF SealersOnGrid
<1>3. CASE UNCHANGED writeVars
  BY <1>0, <1>3 DEF SealersOnGrid
<1>4. CASE Truncated \/ Tampered \/ Reordered \/ Spliced
  BY <1>3, <1>4, DamageKeepsSealed
<1> QED
  BY <1>1, <1>2, <1>3, <1>4 DEF Next, vars, Finalize, NewDecryptingReader, OpenNextFrame,
     FrameFails, EndOfFile

(* Every step keeps the object's frames on the grid.                       *)
LEMMA ObjectStep == StreamInv /\ [Next]_vars => ObjectOnGrid'
<1> SUFFICES ASSUME StreamInv, [Next]_vars PROVE ObjectOnGrid'
  OBVIOUS
<1> USE DEF StreamInv
<1>1. size' = size /\ FrameNumbers' = FrameNumbers
  BY SizeStays DEF FrameNumbers
<1>2. ASSUME NEW n \in Numbers, SealNextFrame(n) PROVE ObjectOnGrid'
  <2>1. left[n] > 0 /\ damaged' = damaged /\ object' \subseteq object \union {NextFrame(n)}
    BY <1>2 DEF SealNextFrame, NextFrame
  <2>2. /\ NextFrame(n).index \in FrameNumbers
        /\ NextFrame(n).from = NextFrame(n).index * FrameSize
        /\ NextFrame(n).bytes = NextFrameBytes(size - NextFrame(n).index * FrameSize)
        /\ NextFrame(n).own
        /\ NextFrame(n).at = NextFrame(n).index * FrameStride
    BY <2>1, NextFrameOnGrid DEF NextFrame
  <2> QED
    BY <1>1, <2>1, <2>2 DEF ObjectOnGrid
<1>3. CASE UNCHANGED <<object, damaged>>
  BY <1>1, <1>3 DEF ObjectOnGrid
<1>4. CASE Truncated \/ Tampered \/ Reordered \/ Spliced
  <2>1. damaged' = TRUE
    BY <1>4, DamageKeepsSealed
  <2>2. \A f \in object' : \E g \in object :
          f.index = g.index /\ f.from = g.from /\ f.bytes = g.bytes
    BY <1>4, DamageKeepsSealed
  <2> QED
    BY <1>1, <2>1, <2>2 DEF ObjectOnGrid
<1> QED
  BY <1>2, <1>3, <1>4 DEF Next, vars, NewEncryptingReader, Finalize, NewDecryptingReader,
     OpenNextFrame, FrameFails, EndOfFile

(* A new frame takes the place of none but the one with its index. *)
LEMMA OthersKept ==
  ASSUME StreamInv, ~damaged, NEW n \in Numbers, SealNextFrame(n)
  PROVE  /\ \E g \in object' : g.index = index[n]
         /\ \A i \in Nat : Holds(i) => Holds(i)'
<1> DEFINE f == NextFrame(n)
<1>1. /\ left[n] > 0
      /\ object' = {g \in object : ~Overlap(f, g)} \union {f}
  BY DEF SealNextFrame, NextFrame
<1>2. f \in Frames /\ f.index = index[n] /\ f.at = f.index * FrameStride
  BY <1>1, NextFrameOnGrid DEF NextFrame
<1>3. f.bytes <= FrameSize
  <2>1. left[n] \in Nat
    BY DEF StreamInv, TypeOK
  <2> QED
    BY <2>1, NextFrameBounds, LayoutTypes DEF NextFrame
<1>4. ASSUME NEW g \in object, g.index # f.index PROVE ~Overlap(f, g)
  <2>1. g \in Frames /\ g.at = g.index * FrameStride
    BY DEF StreamInv, TypeOK, ObjectOnGrid
  <2>2. g.bytes <= FrameSize
    <3>1. /\ g.index \in FrameNumbers
          /\ g.bytes = NextFrameBytes(size - g.index * FrameSize)
      BY DEF StreamInv, ObjectOnGrid
    <3>2. g.index \in Nat /\ size \in Nat /\ FrameSize \in Nat
      BY <2>1, SizeType, LayoutTypes DEF Frames, StreamInv
    <3>3. g.index * FrameSize < size
      BY <3>1, <3>2, FrameNumbersAre DEF StreamInv
    <3>4. size - g.index * FrameSize \in Nat
      BY <3>2, <3>3
    <3> QED
      BY <3>1, <3>2, <3>4, NextFrameBounds
  <2> QED
    BY <1>2, <1>3, <1>4, <2>1, <2>2, GridFramesApart
<1> HIDE DEF f
<1> QED
  BY <1>1, <1>2, <1>4 DEF Holds

(* What a chunk has sealed stays in the object.                            *)
LEMMA SealedStep == StreamInv /\ [Next]_vars => SealedStays'
<1> SUFFICES ASSUME StreamInv, [Next]_vars PROVE SealedStays'
  OBVIOUS
<1>0. /\ size' = size
      /\ Numbers' = Numbers
      /\ FrameNumbers' = FrameNumbers
      /\ Numbers \subseteq Nat
      /\ FrameNumbers \subseteq Nat
      /\ \A n \in Numbers : FirstFrame(n) \in Nat
  <2>1. CeilDiv(size, FrameSize) \in Nat
    BY SizeType, LayoutTypes, CeilDivBounds DEF StreamInv
  <2> QED
    BY <2>1, SizeStays, NumbersType, ChunkOnGrid DEF FrameNumbers, StreamInv
<1>10. TypeOK
  BY DEF StreamInv
<1>1. ASSUME NEW n \in Numbers, NewEncryptingReader(n) PROVE SealedStays'
  <2>1. /\ left' = [left EXCEPT ![n] = MaxChunkBytes(size, n)]
        /\ index' = [index EXCEPT ![n] = FirstFrame(n)]
        /\ UNCHANGED <<received, object, damaged>>
    BY <1>1 DEF NewEncryptingReader
  <2>2. \A i : Holds(i)' <=> Holds(i)
    BY <2>1 DEF Holds
  <2>3. FirstFrame(n)..(FirstFrame(n) - 1) = {}
    BY <1>0
  <2> QED
    BY <1>0, <1>10, <2>1, <2>2, <2>3 DEF TypeOK, StreamInv, SealedStays
<1>2. ASSUME NEW n \in Numbers, SealNextFrame(n) PROVE SealedStays'
  <2> SUFFICES ASSUME ~damaged' PROVE SealedStays'
    BY DEF SealedStays
  <2> DEFINE b == NextFrameBytes(left[n])
             i == index[n]
  <2>1. /\ left[n] > 0
        /\ damaged' = damaged
        /\ left' = [left EXCEPT ![n] = @ - b]
        /\ index' = [index EXCEPT ![n] = @ + 1]
        /\ received' = IF left[n] = b THEN received \union {n} ELSE received
    BY <1>2 DEF SealNextFrame
  <2>2. /\ \E g \in object' : g.index = i
        /\ \A j \in Nat : Holds(j) => Holds(j)'
    BY <1>2, <2>1, OthersKept
  <2>3. \A j \in FirstFrame(n)..(i - 1) : Holds(j)
    BY <2>1 DEF StreamInv, SealedStays
  <2>4. i \in Nat /\ left[n] \in Nat
    BY <1>10 DEF TypeOK
  <2>5. \A j \in FirstFrame(n)..i : Holds(j)'
    <3> HIDE DEF i
    <3>1. SUFFICES ASSUME NEW j \in FirstFrame(n)..i PROVE Holds(j)'
      OBVIOUS
    <3>2. CASE j = i
      BY <2>2, <3>2 DEF Holds
    <3>3. CASE j # i
      BY <1>0, <2>2, <2>3, <2>4, <3>3
    <3> QED
      BY <3>2, <3>3
  <2>6. ASSUME NEW m \in Numbers, left'[m] > 0
        PROVE  \A j \in FirstFrame(m)..(index'[m] - 1) : Holds(j)'
    <3>1. CASE m = n
      BY <1>0, <1>10, <2>1, <2>4, <2>5, <3>1 DEF TypeOK
    <3>2. CASE m # n
      <4>1. left'[m] = left[m] /\ index'[m] = index[m]
        BY <1>10, <2>1, <3>2 DEF TypeOK
      <4>2. \A j \in FirstFrame(m)..(index[m] - 1) : Holds(j)
        BY <2>1, <2>6, <4>1 DEF StreamInv, SealedStays
      <4> QED
        BY <1>0, <1>10, <2>2, <4>1, <4>2 DEF TypeOK
    <3> QED
      BY <3>1, <3>2
  <2>7. ASSUME left[n] = b, NEW j \in FrameNumbers, FirstFrame(n) <= j,
               j * FrameSize < ChunkEnd(size, n)
        PROVE  Holds(j)'
    <3>1. i * FrameSize + left[n] = ChunkEnd(size, n)
      BY <2>1 DEF StreamInv, SealersOnGrid
    <3>2. b <= FrameSize /\ FrameSize \in Nat \ {0} /\ j \in Nat
      BY <1>0, <2>4, NextFrameBounds, LayoutTypes
    <3> HIDE DEF b
    <3>3. (i + 1) * FrameSize = i * FrameSize + FrameSize
      BY <2>4, <3>2
    <3>4. j * FrameSize < (i + 1) * FrameSize
      BY <2>4, <2>7, <3>1, <3>2, <3>3
    <3>5. j < i + 1
      BY <2>4, <3>2, <3>4, Monotone
    <3> QED
      BY <1>0, <2>4, <2>5, <2>7, <3>2, <3>5
  <2>8. ASSUME NEW m \in received', NEW j \in FrameNumbers, FirstFrame(m) <= j,
               j * FrameSize < ChunkEnd(size, m)
        PROVE  Holds(j)'
    <3>1. CASE m \in received
      BY <1>0, <2>1, <2>2, <2>8, <3>1 DEF StreamInv, SealedStays
    <3>2. CASE m \notin received
      BY <2>1, <2>7, <2>8, <3>2
    <3> QED
      BY <3>1, <3>2
  <2> QED
    BY <1>0, <2>6, <2>8 DEF SealedStays
<1>3. CASE UNCHANGED <<left, index, received, object, damaged>>
  <2>1. \A i : Holds(i)' <=> Holds(i)
    BY <1>3 DEF Holds
  <2> QED
    BY <1>0, <1>3, <2>1 DEF StreamInv, SealedStays
<1>4. CASE Truncated \/ Tampered \/ Reordered \/ Spliced
  BY <1>4, DamageKeepsSealed DEF SealedStays
<1> QED
  BY <1>1, <1>2, <1>3, <1>4 DEF Next, vars, writeVars, Finalize, NewDecryptingReader,
     OpenNextFrame, FrameFails, EndOfFile

(* Every step keeps the reader's frames in order.                          *)
LEMMA OrderStep == StreamInv /\ [Next]_vars => InOrder'
<1> SUFFICES ASSUME StreamInv, [Next]_vars PROVE InOrder'
  OBVIOUS
<1> USE DEF InOrder
<1>0. /\ Numbers' = Numbers /\ InOrder
  BY SizeStays DEF StreamInv
<1>1. ASSUME NEW n \in Numbers, NewEncryptingReader(n) \/ SealNextFrame(n) PROVE InOrder'
  BY <1>0, <1>1 DEF NewEncryptingReader, SealNextFrame, readVars
<1>2. CASE Truncated \/ Tampered \/ Reordered \/ Spliced
  BY <1>0, <1>2, DamageKeepsSealed DEF readVars, writeVars
<1> QED
  BY <1>0, <1>1, <1>2 DEF Next, vars, writeVars, readVars, Finalize, NewDecryptingReader,
     OpenNextFrame, FrameFails, EndOfFile

(* What the opening reader takes next is the frame its index calls for. *)
LEMMA FrameOpened ==
  ASSUME StreamInv, outcome = "reading", rleft > 0, NEW f \in object, Opens(f)
  PROVE  /\ f.index = rindex
         /\ f.from = size - rleft
         /\ f.bytes \in 0..FrameSize
         /\ f.bytes <= rleft
         /\ f.bytes < rleft => f.bytes = FrameSize
         /\ SealedBytes(f) = FrameOverhead + f.bytes
<1>1. /\ f.index = rindex
      /\ f.from = rindex * FrameSize
      /\ f.bytes = NextFrameBytes(rleft)
  BY DEF Opens, StreamInv, ObjectOnGrid
<1>2. rindex * FrameSize + rleft = size /\ rindex \in Nat /\ rleft \in Nat
  BY DEF StreamInv, ReaderOnGrid, TypeOK
<1>3. FrameSize \in Nat /\ rindex * FrameSize \in Nat /\ size \in Nat
  BY <1>2, LayoutTypes, SizeType DEF StreamInv
<1>4. f.from = size - rleft
  BY <1>1, <1>2, <1>3
<1> QED
  BY <1>1, <1>2, <1>3, <1>4, NextFrameBounds DEF SealedBytes

(* Every step keeps the reader on the grid and its bytes in place.         *)
LEMMA ReaderStep == StreamInv /\ [Next]_vars => ReaderOnGrid' /\ BytesInPlace'
<1> SUFFICES ASSUME StreamInv, [Next]_vars PROVE ReaderOnGrid' /\ BytesInPlace'
  OBVIOUS
<1> USE DEF ReaderOnGrid, BytesInPlace
<1>0. /\ size' = size
      /\ FrameNumbers' = FrameNumbers
      /\ FrameNumbers \subseteq Nat
      /\ size \in Nat \ {0}
      /\ ReaderOnGrid
      /\ BytesInPlace
  <2>1. CeilDiv(size, FrameSize) \in Nat
    BY SizeType, LayoutTypes, CeilDivBounds DEF StreamInv
  <2> QED
    BY <2>1, SizeStays, SizeType DEF FrameNumbers, StreamInv
<1>1. ASSUME NEW n \in Numbers, NewEncryptingReader(n) \/ SealNextFrame(n)
      PROVE  ReaderOnGrid' /\ BytesInPlace'
  <2>1. outcome = "none" /\ UNCHANGED readVars
    BY <1>1 DEF NewEncryptingReader, SealNextFrame
  <2>2. right
    BY <2>1 DEF StreamInv, InOrder
  <2> QED
    BY <1>0, <2>1, <2>2 DEF readVars
<1>2. CASE Truncated \/ Tampered \/ Reordered \/ Spliced
  <2>1. outcome = "stored" /\ UNCHANGED readVars
    BY <1>2, DamageKeepsSealed
  <2>2. right
    BY <2>1 DEF StreamInv, InOrder
  <2> QED
    BY <1>0, <2>1, <2>2 DEF readVars
<1>3. CASE Finalize
  BY <1>0, <1>3 DEF Finalize
<1>4. CASE NewDecryptingReader
  <2>1. /\ outcome = "stored"
        /\ outcome' = "reading"
        /\ rleft' = size
        /\ UNCHANGED <<object, damaged, rindex, rat, right>>
    BY <1>4 DEF NewDecryptingReader
  <2>2. rindex = 0 /\ rat = 0
    BY <2>1 DEF StreamInv, InOrder
  <2>3. 0 * FrameSize = 0 /\ 0 * FrameStride = 0
    BY LayoutTypes
  <2> QED
    BY <1>0, <2>1, <2>2, <2>3
<1>5. CASE OpenNextFrame
  <2>1. PICK f \in object :
          /\ Opens(f)
          /\ rat' = rat + SealedBytes(f)
          /\ rleft' = rleft - f.bytes
          /\ right' = (right /\ f.own /\ f.from = size - rleft)
    BY <1>5 DEF OpenNextFrame
  <2>2. /\ outcome = "reading"
        /\ rleft > 0
        /\ rindex' = rindex + 1
        /\ UNCHANGED <<size, object, damaged, outcome>>
    BY <1>5 DEF OpenNextFrame
  <2>3. /\ f.index = rindex
        /\ f.from = size - rleft
        /\ f.bytes \in 0..FrameSize
        /\ f.bytes <= rleft
        /\ f.bytes < rleft => f.bytes = FrameSize
        /\ SealedBytes(f) = FrameOverhead + f.bytes
    BY <2>1, <2>2, FrameOpened
  <2>4. /\ rindex \in Nat /\ rleft \in Nat /\ rat \in Nat
        /\ FrameSize \in Nat /\ FrameOverhead \in Nat
        /\ FrameStride = FrameSize + FrameOverhead
    BY LayoutTypes DEF StreamInv, TypeOK, FrameStride
  <2>5. /\ (rindex + 1) * FrameSize = rindex * FrameSize + FrameSize
        /\ (rindex + 1) * FrameStride = rindex * FrameStride + FrameStride
    BY <2>4
  <2>6. rleft' > 0 => rindex' * FrameSize + rleft' = size
    BY <1>0, <2>1, <2>2, <2>3, <2>4, <2>5
  <2>7. rleft' = 0 => size <= rindex' * FrameSize
    BY <1>0, <2>1, <2>2, <2>3, <2>4, <2>5
  <2>8. ~damaged /\ rleft' > 0 => rat' = rindex' * FrameStride
    BY <1>0, <2>1, <2>2, <2>3, <2>4, <2>5
  <2>9. ASSUME NEW i \in FrameNumbers, i < rindex' PROVE Holds(i)'
    <3>1. i = rindex \/ i < rindex
      BY <1>0, <2>2, <2>4, <2>9
    <3> QED
      BY <1>0, <2>2, <2>3, <3>1 DEF Holds
  <2>10. BytesInPlace'
    BY <1>0, <2>1, <2>2, <2>3
  <2>11. ReaderOnGrid'
    BY <1>0, <2>1, <2>2, <2>3, <2>6, <2>7, <2>8, <2>9
  <2> QED
    BY <2>10, <2>11
<1>6. CASE FrameFails
  BY <1>0, <1>6 DEF FrameFails, Holds
<1>7. CASE EndOfFile
  BY <1>0, <1>7 DEF EndOfFile, Holds
<1>8. CASE UNCHANGED vars
  BY <1>0, <1>8 DEF vars, readVars, Holds
<1> QED
  BY <1>1, <1>2, <1>3, <1>4, <1>5, <1>6, <1>7, <1>8 DEF Next

(* In an undamaged object the frame a reader is at always opens. *)
LEMMA FrameThere ==
  ASSUME StreamInv, outcome = "reading", rleft > 0, ~damaged
  PROVE  \E f \in object : Opens(f)
<1>1. /\ rindex * FrameSize + rleft = size
      /\ rat = rindex * FrameStride
      /\ rindex \in Nat /\ rleft \in Nat
      /\ received = Numbers
  BY DEF StreamInv, ReaderOnGrid, InOrder, TypeOK
<1>2. FrameSize \in Nat /\ rindex * FrameSize \in Nat /\ size \in Nat \ {0}
  BY <1>1, LayoutTypes, SizeType DEF StreamInv
<1>3. rindex * FrameSize < size /\ size - rindex * FrameSize = rleft
  BY <1>1, <1>2
<1>4. rindex \in FrameNumbers
  BY <1>1, <1>3, FrameNumbersAre DEF StreamInv
<1>5. PICK n \in Numbers : FirstFrame(n) <= rindex /\ rindex * FrameSize < ChunkEnd(size, n)
  BY <1>1, <1>2, <1>3, EveryFrameSealed DEF Numbers
<1>6. Holds(rindex)
  BY <1>1, <1>4, <1>5 DEF StreamInv, SealedStays
<1> QED
  BY <1>1, <1>3, <1>6 DEF Holds, StreamInv, ObjectOnGrid, Opens

(* Every step keeps a stored file openable.                                *)
LEMMA OpensStep == StreamInv /\ [Next]_vars => StoredFileOpens'
<1> SUFFICES ASSUME StreamInv, [Next]_vars PROVE StoredFileOpens'
  OBVIOUS
<1> USE DEF StoredFileOpens
<1>0. StoredFileOpens
  BY DEF StreamInv
<1>1. CASE FrameFails
  BY <1>1, FrameThere DEF FrameFails
<1>2. CASE Truncated \/ Tampered \/ Reordered \/ Spliced
  BY <1>2, DamageKeepsSealed
<1>3. ASSUME NEW n \in Numbers, NewEncryptingReader(n) \/ SealNextFrame(n)
      PROVE  StoredFileOpens'
  BY <1>0, <1>3 DEF NewEncryptingReader, SealNextFrame, readVars
<1>4. CASE Finalize \/ NewDecryptingReader \/ OpenNextFrame \/ EndOfFile
  BY <1>0, <1>4 DEF Finalize, NewDecryptingReader, OpenNextFrame, EndOfFile
<1>5. CASE UNCHANGED vars
  BY <1>0, <1>5 DEF vars, readVars
<1> QED
  BY <1>1, <1>2, <1>3, <1>4, <1>5 DEF Next

(***************************************************************************)
(* The theorems.                                                           *)
(***************************************************************************)

(* One grid for all: the inductive invariant of the module. *)
THEOREM StreamInvariance == Spec => []StreamInv
<1>1. Init => StreamInv
  BY InitHolds
<1>2. StreamInv /\ [Next]_vars => StreamInv'
  BY TypeStep, SealersStep, ObjectStep, SealedStep, OrderStep, ReaderStep, OpensStep
     DEF StreamInv
<1> QED
  BY <1>1, <1>2, PTL DEF Spec

(* The frame that a byte of the file falls in covers it. *)
LEMMA ByteInFrame ==
  ASSUME StreamInv, NEW b \in Nat, b < size
  PROVE  \E i \in FrameNumbers :
           /\ i * FrameSize <= b /\ b < i * FrameSize + FrameSize
           /\ \A f \in object : f.index = i => Covers(f, b)
<1> DEFINE i == b \div FrameSize
<1>1. size \in Nat \ {0} /\ FrameSize \in Nat \ {0}
  BY SizeType, LayoutTypes DEF StreamInv
<1>2. i \in Nat /\ i * FrameSize <= b /\ b < i * FrameSize + FrameSize
  BY <1>1
<1> HIDE DEF i
<1>3. i * FrameSize \in Nat /\ i * FrameSize < size
  BY <1>1, <1>2
<1>4. i \in FrameNumbers
  BY <1>2, <1>3, FrameNumbersAre DEF StreamInv
<1>5. b < i * FrameSize + NextFrameBytes(size - i * FrameSize)
  BY <1>1, <1>2, <1>3 DEF NextFrameBytes
<1>6. ASSUME NEW f \in object, f.index = i PROVE Covers(f, b)
  BY <1>2, <1>5, <1>6 DEF StreamInv, ObjectOnGrid, Covers
<1> QED
  BY <1>2, <1>4, <1>6

(* A received chunk keeps all its bytes, whatever else is stored. *)
THEOREM ReceivedKept == Spec => []ReceivedStays
<1>1. StreamInv => ReceivedStays
  <2> SUFFICES ASSUME StreamInv, ~damaged, NEW n \in received,
                      NEW b \in (n * ChunkSize)..(ChunkEnd(size, n) - 1)
               PROVE  \E f \in object : Covers(f, b)
    BY DEF ReceivedStays
  <2>1. /\ n \in Numbers /\ n \in Nat
        /\ ChunkEnd(size, n) \in Nat
        /\ size \in Nat \ {0}
        /\ FrameSize \in Nat \ {0} /\ ChunkSize \in Nat
        /\ FirstFrame(n) \in Nat
        /\ FirstFrame(n) * FrameSize = n * ChunkSize
    BY NumbersType, SizeType, LayoutTypes, ChunkOnGrid DEF StreamInv, TypeOK
  <2>2. b \in Nat /\ n * ChunkSize <= b /\ b < ChunkEnd(size, n)
    BY <2>1
  <2>3. ChunkEnd(size, n) <= size
    <3>1. /\ n * ChunkSize < size
          /\ MaxChunkBytes(size, n) <= size - n * ChunkSize
      BY <2>1, ChunksTile DEF MaxChunkBytes, Numbers
    <3> QED
      BY <2>1, <3>1 DEF ChunkEnd, MaxChunkBytes
  <2>4. PICK i \in FrameNumbers :
          /\ i * FrameSize <= b /\ b < i * FrameSize + FrameSize
          /\ \A f \in object : f.index = i => Covers(f, b)
    BY <2>1, <2>2, <2>3, ByteInFrame
  <2>5. i \in Nat
    <3>1. CeilDiv(size, FrameSize) \in Nat
      BY <2>1, CeilDivBounds
    <3> QED
      BY <3>1 DEF FrameNumbers
  <2>6. FirstFrame(n) <= i
    <3>1. (i + 1) * FrameSize = i * FrameSize + FrameSize
      BY <2>1, <2>5
    <3>2. FirstFrame(n) * FrameSize < (i + 1) * FrameSize
      BY <2>1, <2>2, <2>4, <2>5, <3>1
    <3>3. FirstFrame(n) < i + 1
      BY <2>1, <2>5, <3>2, Monotone
    <3> QED
      BY <2>1, <2>5, <3>3
  <2>7. i * FrameSize < ChunkEnd(size, n)
    BY <2>1, <2>2, <2>4, <2>5
  <2>8. Holds(i)
    BY <2>6, <2>7 DEF StreamInv, SealedStays
  <2> QED
    BY <2>4, <2>8 DEF Holds
<1> QED
  BY <1>1, StreamInvariance, PTL

(* A stored file opens to its end, whatever its size. *)
THEOREM UndamagedOpens == Spec => []StoredFileOpens
<1>1. StreamInv => StoredFileOpens
  BY DEF StreamInv
<1> QED
  BY <1>1, StreamInvariance, PTL

(* What the reader returns is the file's own and each byte in its place, *)
(* unless a frame of another file has been put in.                       *)
THEOREM InPlace == Spec => []BytesInPlace
<1>1. StreamInv => BytesInPlace
  BY DEF StreamInv
<1> QED
  BY <1>1, StreamInvariance, PTL

(* A truncated object never decodes short. *)
THEOREM NeverDecodesShort == Spec => []NeverShort
<1>1. StreamInv => NeverShort
  <2> SUFFICES ASSUME StreamInv, outcome = "done", NEW b \in 0..(size - 1)
               PROVE  \E f \in object : Covers(f, b)
    BY DEF NeverShort
  <2>1. size \in Nat \ {0} /\ FrameSize \in Nat \ {0} /\ rindex \in Nat
    BY SizeType, LayoutTypes DEF StreamInv, TypeOK
  <2>2. size <= rindex * FrameSize
    BY DEF StreamInv, ReaderOnGrid
  <2>3. PICK i \in FrameNumbers :
          /\ i * FrameSize <= b
          /\ \A f \in object : f.index = i => Covers(f, b)
    BY <2>1, ByteInFrame
  <2>4. i \in Nat
    <3>1. CeilDiv(size, FrameSize) \in Nat
      BY <2>1, CeilDivBounds
    <3> QED
      BY <3>1 DEF FrameNumbers
  <2>5. i < rindex
    <3>1. i * FrameSize < rindex * FrameSize
      BY <2>1, <2>2, <2>3, <2>4
    <3> QED
      BY <2>1, <2>4, <3>1, Monotone
  <2>6. Holds(i)
    BY <2>5 DEF StreamInv, ReaderOnGrid
  <2> QED
    BY <2>3, <2>6 DEF Holds
<1> QED
  BY <1>1, StreamInvariance, PTL

(* The object is exactly as long as EncryptedSize says of the whole file. *)
THEOREM ObjectLength == Spec => []ObjectIsFull
<1>1. StreamInv => ObjectIsFull
  <2> SUFFICES ASSUME StreamInv, outcome = "stored", ~damaged
               PROVE  /\ \E f \in object : f.at + SealedBytes(f) = EncryptedSize(size)
                      /\ \A f \in object : f.at + SealedBytes(f) <= EncryptedSize(size)
    BY DEF ObjectIsFull
  <2> DEFINE c == CeilDiv(size, FrameSize)
             l == c - 1
  <2>1. /\ size \in Nat \ {0}
        /\ FrameSize \in Nat \ {0} /\ FrameOverhead \in Nat
        /\ FrameStride \in Nat \ {0}
        /\ FrameStride = FrameSize + FrameOverhead
        /\ c \in Nat /\ size <= c * FrameSize /\ l * FrameSize < size /\ l \in Nat
    BY SizeType, LayoutTypes, CeilDivBounds DEF StreamInv, FrameStride
  <2>2. EncryptedSize(size) = size + c * FrameOverhead
    BY <2>1 DEF EncryptedSize
  <2>3. l \in FrameNumbers /\ \A i \in FrameNumbers : i \in Nat /\ i <= l
    BY <2>1 DEF FrameNumbers
  <2> HIDE DEF c
  <2>4. NextFrameBytes(size - l * FrameSize) = size - l * FrameSize
    <3>1. c * FrameSize = l * FrameSize + FrameSize
      BY <2>1
    <3> QED
      BY <2>1, <3>1 DEF NextFrameBytes
  <2>5. l * FrameStride + FrameOverhead + (size - l * FrameSize) = EncryptedSize(size)
    <3>1. l * FrameStride = l * FrameSize + l * FrameOverhead
      BY <2>1
    <3>2. c * FrameOverhead = l * FrameOverhead + FrameOverhead
      BY <2>1
    <3> QED
      BY <2>1, <2>2, <3>1, <3>2
  <2>6. ASSUME NEW f \in object
        PROVE  /\ f.index = l => f.at + SealedBytes(f) = EncryptedSize(size)
               /\ f.at + SealedBytes(f) <= EncryptedSize(size)
    <3>1. /\ f.index \in FrameNumbers
          /\ f.at = f.index * FrameStride
          /\ f.bytes = NextFrameBytes(size - f.index * FrameSize)
          /\ f.at \in Nat /\ f.bytes \in Nat
      BY DEF StreamInv, ObjectOnGrid, TypeOK, Frames
    <3>2. f.index \in Nat /\ f.index <= l
      BY <2>3, <3>1
    <3>3. CASE f.index = l
      BY <2>1, <2>4, <2>5, <3>1, <3>3 DEF SealedBytes
    <3>4. CASE f.index < l
      <4>1. (f.index + 1) * FrameStride <= l * FrameStride
        BY <2>1, <3>2, <3>4, Monotone
      <4>2. (f.index + 1) * FrameStride = f.index * FrameStride + FrameStride
        BY <2>1, <3>2
      <4>3. f.bytes <= FrameSize
        BY <2>1, <3>1 DEF NextFrameBytes
      <4>4. l * FrameSize < size /\ l * FrameSize \in Nat /\ l * FrameStride \in Nat
        BY <2>1
      <4>5. f.at + SealedBytes(f) <= l * FrameStride
        BY <2>1, <3>1, <4>1, <4>2, <4>3, <4>4 DEF SealedBytes
      <4>6. l * FrameStride <= EncryptedSize(size)
        BY <2>1, <2>5, <4>4
      <4>7. SealedBytes(f) \in Nat /\ EncryptedSize(size) \in Int
        BY <2>1, <2>2, <3>1 DEF SealedBytes
      <4>8. f.at + SealedBytes(f) <= EncryptedSize(size)
        <5>1. f.at + SealedBytes(f) \in Nat
          BY <3>1, <4>7
        <5> QED
          BY <5>1, <4>4, <4>5, <4>6, <4>7
      <4>9. f.index # l
        BY <2>1, <3>2, <3>4
      <4> QED
        BY <4>8, <4>9
    <3> QED
      BY <3>2, <3>3, <3>4, <2>1
  <2>7. \E f \in object : f.index = l
    <3>1. /\ received = Numbers /\ l * FrameSize < size
      BY <2>1 DEF StreamInv, InOrder
    <3>2. PICK n \in Numbers : FirstFrame(n) <= l /\ l * FrameSize < ChunkEnd(size, n)
      BY <2>1, <3>1, EveryFrameSealed DEF Numbers
    <3> QED
      BY <2>3, <3>1, <3>2 DEF StreamInv, SealedStays, Holds
  <2> QED
    BY <2>6, <2>7
<1> QED
  BY <1>1, StreamInvariance, PTL

(***************************************************************************)
(* Download: what the reader of a stored file is given and what is sent.   *)
(***************************************************************************)
LegacyOK ==
  /\ format \in Formats
  /\ written \in ChunkSizes \union {ChunkSize}
  /\ length \in 0..SealedLength
  /\ spoiled \subseteq 0..(LegacyChunks - 1)
  /\ reader \in Formats \union {"none"}
  /\ turn \in 0..LegacyChunks
  /\ ending \in {"open", "eof", "failed"}
  /\ phase \in {"none", "sniffing", "testing", "sending", "complete", "broken", "error"}

(* Nothing is read before a reader is picked. *)
Unread ==
  /\ phase = "none" => reader = "none"
  /\ reader = "none" => phase = "none" /\ turn = 0 /\ ending = "open" /\ promised = 0

(* A reader of frames or of chunks is picked for such a file only, and what *)
(* is promised stands.                                                      *)
Picked ==
  /\ reader \in {"framed", "chunked"} => reader = format
  /\ reader = "framed" => outcome \in {"reading", "done", "failed"}
  /\ reader # "none" => promised = AdvertisedSize(reader)

(* What a reader has returned are whole pieces of the file. *)
PiecesReturned ==
  /\ reader \in {"none", "framed"} => got = 0
  /\ reader = "chunked" =>
       /\ got = IF turn = LegacyChunks THEN size ELSE turn * written
       /\ ending = "eof" => turn = LegacyChunks \/ length <= BlockStart
  /\ reader = "whole" =>
       /\ got \in {0, size}
       /\ got = size => WholeOpens
       /\ ending = "eof" => got = size

(* Of a file that was sealed whole nothing is sent before all is there. *)
WholeBeforeSent ==
  reader = "whole" /\ phase \in {"sending", "complete"} => got = size

CompleteWhenEnough == phase = "complete" => promised < 0 \/ AllSent

(* The reader's bytes that the handler has taken, in their order: what is  *)
(* sent and then what is to be sent before it reads on.                    *)
Straight ==
  /\ Len(body) + Len(front) = taken
  /\ \A i \in 1..Len(body) : body[i] = i - 1
  /\ \A i \in 1..Len(front) : front[i] = Len(body) + i - 1

(* A byte of the handler's own is sent of a legacy object cut to nothing   *)
(* only.                                                                   *)
InHand ==
  /\ front \in Seq(Int) /\ body \in Seq(Int)
  /\ taken \in Nat /\ taken <= Delivered
  /\ phase \in {"none", "sniffing"} => front = <<>> /\ taken = 0
  /\ phase \in {"none", "sniffing", "testing"} => body = <<>>
  /\ promised >= 0 => Len(body) <= promised
  /\ ~(reader = "chunked" /\ length = 0) => Straight

(* A reader of chunks of the size they were sealed by reads them all. *)
ChunksOpen ==
  Undamaged /\ reader = "chunked" /\ written = ChunkSize =>
    ending # "failed" /\ (ending = "eof" => turn = LegacyChunks)

DownloadInv ==
  /\ StreamInv
  /\ LegacyOK
  /\ Unread
  /\ Picked
  /\ PiecesReturned
  /\ WholeBeforeSent
  /\ CompleteWhenEnough
  /\ InHand
  /\ ChunksOpen
  /\ StoredIsServed

(* Every step of a download is one of the stream, or none to it.           *)
LEMMA DownloadSteps ==
  ASSUME [DownloadNext]_allVars
  PROVE  [Next]_vars
<1>1. CASE Framed
  BY <1>1 DEF Framed, Next
<1>2. CASE LegacyCut
  BY <1>2 DEF LegacyCut
<1>3. CASE LegacySpoiled
  BY <1>3 DEF LegacySpoiled
<1>4. ASSUME NEW row \in Rows, NEW typed \in BOOLEAN, GetFile(row, typed)
      PROVE  [Next]_vars
  BY <1>4 DEF GetFile, Next
<1>5. CASE ReadFrame
  BY <1>5 DEF ReadFrame, Next
<1>6. CASE ReadChunk
  BY <1>6 DEF ReadChunk
<1>7. CASE ChunksEnd
  BY <1>7 DEF ChunksEnd
<1>8. CASE ReadWhole
  BY <1>8 DEF ReadWhole
<1>9. CASE WholeEnds
  BY <1>9 DEF WholeEnds
<1>10. CASE HeaderRead
  BY <1>10 DEF HeaderRead
<1>11. CASE TestRead
  BY <1>11 DEF TestRead
<1>12. CASE EarlyReadFails
  BY <1>12 DEF EarlyReadFails
<1>13. CASE StreamCompletes
  BY <1>13 DEF StreamCompletes
<1>14. CASE StreamBreaks
  BY <1>14 DEF StreamBreaks
<1>15. CASE UNCHANGED allVars
  BY <1>15 DEF allVars, allVars
<1>16. CASE SendByte
  BY <1>16 DEF SendByte
<1> QED BY <1>1, <1>2, <1>3, <1>4, <1>5, <1>6, <1>7, <1>8, <1>9, <1>10, <1>11,
     <1>12, <1>13, <1>14, <1>15, <1>16
     DEF DownloadNext

(* What a file is and how it was sealed stays.                             *)
LEMMA SealedAsItWas ==
  ASSUME [DownloadNext]_allVars
  PROVE  /\ size' = size /\ format' = format /\ written' = written
         /\ LegacyChunks' = LegacyChunks /\ SealedLength' = SealedLength
<1>1. size' = size
  BY DownloadSteps, SizeStays
<1>2. format' = format /\ written' = written
  BY DEF DownloadNext, Framed, LegacyCut, LegacySpoiled, GetFile, ReadFrame, ReadChunk,
         ChunksEnd, ReadWhole, WholeEnds, HeaderRead, TestRead, EarlyReadFails,
         SendByte, StreamCompletes, StreamBreaks, allVars
<1> QED
  BY <1>1, <1>2 DEF LegacyChunks, SealedLength

(* Legacy chunks tile the file, the last perhaps short.                    *)
LEMMA LegacyTypes ==
  ASSUME TypeOK, LegacyOK
  PROVE  /\ size \in Nat \ {0} /\ written \in Nat \ {0} /\ ChunkOverhead \in Nat
         /\ LegacyChunks \in Nat \ {0}
         /\ size <= LegacyChunks * written
         /\ (LegacyChunks - 1) * written < size
<1>1. size \in Nat \ {0} /\ written \in Nat \ {0} /\ ChunkOverhead \in Nat
  BY SizeType, LayoutTypes, DownloadAssumption DEF LegacyOK
<1> QED
  BY <1>1, CeilDivBounds DEF LegacyChunks

(* The chunks before the last hold less than the file.                     *)
LEMMA PiecesBefore ==
  ASSUME TypeOK, LegacyOK, NEW t \in 0..(LegacyChunks - 1)
  PROVE  t * written \in Nat /\ t * written < size
<1> DEFINE n == LegacyChunks  w == written
<1>1. /\ n \in Nat \ {0} /\ w \in Nat \ {0} /\ size \in Nat
      /\ (n - 1) * w < size
  BY LegacyTypes
<1>2. t \in Nat /\ t <= n - 1
  BY <1>1
<1> HIDE DEF n, w
<1>3. t * w <= (n - 1) * w
  BY <1>1, <1>2, Monotone
<1>4. t * w \in Nat /\ (n - 1) * w \in Int
  BY <1>1, <1>2
<1> QED
  BY <1>1, <1>3, <1>4 DEF w

(* The object of a legacy file is longer than the file, by what sealing    *)
(* adds.                                                                   *)
LEMMA SealedLengthIs ==
  ASSUME TypeOK, LegacyOK
  PROVE  SealedLength \in Nat
<1>1. CASE format = "chunked"
  <2> DEFINE n == LegacyChunks
  <2>1. n \in Nat /\ ChunkOverhead \in Nat /\ size \in Nat
    BY LegacyTypes
  <2> HIDE DEF n
  <2>2. n * ChunkOverhead \in Nat
    BY <2>1
  <2> QED
    BY <1>1, <2>1, <2>2 DEF SealedLength, n
<1>2. CASE format = "whole"
  BY <1>2, LegacyTypes, LayoutTypes DEF SealedLength
<1>3. CASE format = "framed"
  <2> DEFINE c == CeilDiv(size, FrameSize)
  <2>1. c \in Nat /\ size \in Nat \ {0} /\ FrameOverhead \in Nat
    BY LegacyTypes, LayoutTypes, CeilDivBounds
  <2> HIDE DEF c
  <2>2. c * FrameOverhead \in Nat
    BY <2>1
  <2> QED
    BY <1>3, <2>1, <2>2 DEF SealedLength, EncryptedSize, c
<1> QED
  BY <1>1, <1>2, <1>3 DEF LegacyOK, Formats

(* What a chunk that opens adds to what has been returned.                 *)
LEMMA ChunkAdds ==
  ASSUME TypeOK, LegacyOK, format = "chunked", turn < LegacyChunks, ChunkOpens,
         got = turn * written
  PROVE  got + BlockEnd - BlockStart - ChunkOverhead =
           IF turn + 1 = LegacyChunks THEN size ELSE (turn + 1) * written
<1> DEFINE n == LegacyChunks  w == written  v == ChunkOverhead
<1>1. /\ n \in Nat \ {0} /\ w \in Nat \ {0} /\ v \in Nat /\ size \in Nat
      /\ turn \in Nat /\ turn < n
  BY LegacyTypes DEF LegacyOK
<1>2. BlockStart = turn * (w + v)
  BY DEF ChunkOpens, PieceStart
<1>3. BlockEnd = IF turn = n - 1 THEN size + n * v ELSE (turn + 1) * (w + v)
  BY DEF ChunkOpens, PieceEnd, PieceStart, SealedLength
<1> HIDE DEF n, w, v
<1>4. turn * (w + v) = turn * w + turn * v
  BY <1>1
<1>5. CASE turn = n - 1
  <2>1. n * v = turn * v + v
    BY <1>1, <1>5
  <2>2. turn * w \in Nat /\ turn * v \in Nat
    BY <1>1
  <2>3. turn * w + (size + n * v) - turn * (w + v) - v = size
    BY <1>1, <1>4, <2>1, <2>2
  <2> QED
    BY <1>1, <1>2, <1>3, <1>5, <2>3 DEF w, v, n
<1>6. CASE turn # n - 1
  <2>1. (turn + 1) * (w + v) = turn * (w + v) + w + v /\ (turn + 1) * w = turn * w + w
    BY <1>1
  <2>2. turn * w \in Nat /\ turn * (w + v) \in Nat
    BY <1>1
  <2>3. turn * w + (turn + 1) * (w + v) - turn * (w + v) - v = (turn + 1) * w
    BY <1>1, <2>1, <2>2
  <2> QED
    BY <1>1, <1>2, <1>3, <1>6, <2>3 DEF w, v, n
<1> QED
  BY <1>5, <1>6

(* A chunk of the size it was sealed by opens where nothing was changed,   *)
(* and the object does not end before it.                                  *)
LEMMA ChunkIsThere ==
  ASSUME TypeOK, LegacyOK, format = "chunked", written = ChunkSize, length = SealedLength,
         spoiled = {}, turn < LegacyChunks
  PROVE  ChunkOpens /\ BlockStart < length
<1> DEFINE n == LegacyChunks  w == written  v == ChunkOverhead
<1>1. /\ n \in Nat \ {0} /\ w \in Nat \ {0} /\ v \in Nat /\ size \in Nat \ {0}
      /\ turn \in Nat /\ turn < n
      /\ size <= n * w /\ (n - 1) * w < size
  BY LegacyTypes DEF LegacyOK
<1>2. /\ BlockStart = turn * (w + v) /\ PieceStart(turn) = turn * (w + v)
      /\ length = size + n * v /\ SealedLength = size + n * v
      /\ PieceEnd(turn) = IF turn = n - 1 THEN size + n * v ELSE (turn + 1) * (w + v)
      /\ BlockEnd = IF size + n * v < turn * (w + v) + w + v THEN size + n * v
                    ELSE turn * (w + v) + w + v
  BY DEF BlockStart, BlockEnd, PieceStart, PieceEnd, SealedLength
<1> HIDE DEF n, w, v
<1>3. /\ (turn + 1) * (w + v) = turn * (w + v) + w + v
      /\ (turn + 1) * (w + v) = (turn + 1) * w + (turn + 1) * v
      /\ turn * (w + v) = turn * w + turn * v
      /\ turn * (w + v) \in Nat /\ n * v \in Nat /\ turn * w \in Nat /\ turn * v \in Nat
      /\ (turn + 1) * w \in Nat /\ (turn + 1) * v \in Nat /\ (n - 1) * w \in Int
      /\ n * w \in Nat
  BY <1>1
<1>4. turn * w <= (n - 1) * w
  BY <1>1, Monotone
<1>5. turn * v <= n * v /\ (turn + 1) * v <= n * v
  <2>1. CASE v = 0
    BY <1>1, <2>1
  <2>2. CASE v > 0
    BY <1>1, <2>2, Monotone
  <2> QED
    BY <1>1, <2>1, <2>2
<1>6. BlockStart < length
  BY <1>1, <1>2, <1>3, <1>4, <1>5
<1>7. BlockEnd = PieceEnd(turn)
  <2>1. CASE turn = n - 1
    <3>1. turn + 1 = n
      BY <1>1, <2>1
    <3>2. (turn + 1) * (w + v) = n * w + n * v
      BY <1>3, <3>1
    <3> QED
      BY <1>1, <1>2, <1>3, <2>1, <3>2
  <2>2. CASE turn # n - 1
    <3>1. (turn + 1) * w <= (n - 1) * w
      BY <1>1, <2>2, Monotone
    <3> QED
      BY <1>1, <1>2, <1>3, <1>5, <2>2, <3>1
  <2> QED
    BY <2>1, <2>2
<1> QED
  BY <1>2, <1>6, <1>7 DEF ChunkOpens

(* Every step keeps what StreamCrypto's invariant says of the object.      *)
LEMMA StreamKept == StreamInv /\ [DownloadNext]_allVars => StreamInv'
BY DownloadSteps, TypeStep, SealersStep, ObjectStep, SealedStep, OrderStep, ReaderStep, OpensStep
   DEF StreamInv

(* The object and its readers are of their types.                          *)
LEMMA KeepsLegacy ==
  ASSUME TypeOK,
         LegacyOK,
         StoredIsServed,
         [DownloadNext]_allVars
  PROVE  LegacyOK'
<1> USE DEF LegacyOK, legacyVars, getVars
<1>1. CASE Framed
  <2>1. LegacyChunks' = LegacyChunks /\ SealedLength' = SealedLength
    BY SealedAsItWas
  <2> QED
    BY <1>1, <2>1, LegacyTypes, SealedLengthIs DEF Framed, Formats
<1>2. CASE LegacyCut
  <2>1. LegacyChunks' = LegacyChunks /\ SealedLength' = SealedLength
    BY SealedAsItWas
  <2> QED
    BY <1>2, <2>1, LegacyTypes, SealedLengthIs DEF LegacyCut, Formats
<1>3. CASE LegacySpoiled
  <2>1. LegacyChunks' = LegacyChunks /\ SealedLength' = SealedLength
    BY SealedAsItWas
  <2> QED
    BY <1>3, <2>1, LegacyTypes, SealedLengthIs DEF LegacySpoiled, Formats
<1>4. ASSUME NEW row \in Rows, NEW typed \in BOOLEAN, GetFile(row, typed)
      PROVE  LegacyOK'
  <2>1. LegacyChunks' = LegacyChunks /\ SealedLength' = SealedLength
    BY SealedAsItWas
  <2> QED
    BY <1>4, <2>1, LegacyTypes, SealedLengthIs DEF GetFile, Selected, Formats
<1>5. CASE ReadFrame
  <2>1. LegacyChunks' = LegacyChunks /\ SealedLength' = SealedLength
    BY SealedAsItWas
  <2> QED
    BY <1>5, <2>1, LegacyTypes, SealedLengthIs DEF ReadFrame, Formats
<1>6. CASE ReadChunk
  <2>1. LegacyChunks' = LegacyChunks /\ SealedLength' = SealedLength
    BY SealedAsItWas
  <2> QED
    BY <1>6, <2>1, LegacyTypes, SealedLengthIs DEF ReadChunk, Formats
<1>7. CASE ChunksEnd
  <2>1. LegacyChunks' = LegacyChunks /\ SealedLength' = SealedLength
    BY SealedAsItWas
  <2> QED
    BY <1>7, <2>1, LegacyTypes, SealedLengthIs DEF ChunksEnd, Formats
<1>8. CASE ReadWhole
  <2>1. LegacyChunks' = LegacyChunks /\ SealedLength' = SealedLength
    BY SealedAsItWas
  <2> QED
    BY <1>8, <2>1, LegacyTypes, SealedLengthIs DEF ReadWhole, Formats
<1>9. CASE WholeEnds
  <2>1. LegacyChunks' = LegacyChunks /\ SealedLength' = SealedLength
    BY SealedAsItWas
  <2> QED
    BY <1>9, <2>1, LegacyTypes, SealedLengthIs DEF WholeEnds, Formats
<1>10. CASE HeaderRead
  <2>1. LegacyChunks' = LegacyChunks /\ SealedLength' = SealedLength
    BY SealedAsItWas
  <2> QED
    BY <1>10, <2>1, LegacyTypes, SealedLengthIs DEF HeaderRead, Formats
<1>11. CASE TestRead
  <2>1. LegacyChunks' = LegacyChunks /\ SealedLength' = SealedLength
    BY SealedAsItWas
  <2> QED
    BY <1>11, <2>1, LegacyTypes, SealedLengthIs DEF TestRead, Formats
<1>12. CASE EarlyReadFails
  <2>1. LegacyChunks' = LegacyChunks /\ SealedLength' = SealedLength
    BY SealedAsItWas
  <2> QED
    BY <1>12, <2>1, LegacyTypes, SealedLengthIs DEF EarlyReadFails, Formats
<1>13. CASE StreamCompletes
  <2>1. LegacyChunks' = LegacyChunks /\ SealedLength' = SealedLength
    BY SealedAsItWas
  <2> QED
    BY <1>13, <2>1, LegacyTypes, SealedLengthIs DEF StreamCompletes, Formats
<1>14. CASE StreamBreaks
  <2>1. LegacyChunks' = LegacyChunks /\ SealedLength' = SealedLength
    BY SealedAsItWas
  <2> QED
    BY <1>14, <2>1, LegacyTypes, SealedLengthIs DEF StreamBreaks, Formats
<1>15. CASE UNCHANGED allVars
  <2>1. LegacyChunks' = LegacyChunks /\ SealedLength' = SealedLength
    BY SealedAsItWas
  <2> QED
    BY <1>15, <2>1, LegacyTypes, SealedLengthIs DEF allVars, Formats
<1>16. CASE SendByte
  <2>1. LegacyChunks' = LegacyChunks /\ SealedLength' = SealedLength
    BY SealedAsItWas
  <2> QED
    BY <1>16, <2>1, LegacyTypes, SealedLengthIs DEF SendByte, Formats
<1> HIDE DEF LegacyOK, legacyVars, getVars
<1> QED BY <1>1, <1>2, <1>3, <1>4, <1>5, <1>6, <1>7, <1>8, <1>9, <1>10, <1>11,
     <1>12, <1>13, <1>14, <1>15, <1>16
     DEF DownloadNext

(* Nothing is read before a reader is picked.                              *)
LEMMA KeepsUnread ==
  ASSUME LegacyOK,
         Unread,
         [DownloadNext]_allVars
  PROVE  Unread'
<1> USE DEF Unread, legacyVars, getVars
<1>1. CASE Framed
  BY <1>1 DEF Framed
<1>2. CASE LegacyCut
  BY <1>2 DEF LegacyCut
<1>3. CASE LegacySpoiled
  BY <1>3 DEF LegacySpoiled
<1>4. ASSUME NEW row \in Rows, NEW typed \in BOOLEAN, GetFile(row, typed)
      PROVE  Unread'
  BY <1>4 DEF GetFile, Selected, Formats, LegacyOK
<1>5. CASE ReadFrame
  BY <1>5 DEF ReadFrame
<1>6. CASE ReadChunk
  BY <1>6 DEF ReadChunk, Reads
<1>7. CASE ChunksEnd
  BY <1>7 DEF ChunksEnd, Reads
<1>8. CASE ReadWhole
  BY <1>8 DEF ReadWhole, Reads
<1>9. CASE WholeEnds
  BY <1>9 DEF WholeEnds, Reads
<1>10. CASE HeaderRead
  BY <1>10 DEF HeaderRead
<1>11. CASE TestRead
  BY <1>11 DEF TestRead
<1>12. CASE EarlyReadFails
  BY <1>12 DEF EarlyReadFails
<1>13. CASE StreamCompletes
  BY <1>13 DEF StreamCompletes
<1>14. CASE StreamBreaks
  BY <1>14 DEF StreamBreaks
<1>15. CASE UNCHANGED allVars
  BY <1>15 DEF allVars, allVars
<1>16. CASE SendByte
  BY <1>16 DEF SendByte
<1> HIDE DEF Unread, legacyVars, getVars
<1> QED BY <1>1, <1>2, <1>3, <1>4, <1>5, <1>6, <1>7, <1>8, <1>9, <1>10, <1>11,
     <1>12, <1>13, <1>14, <1>15, <1>16
     DEF DownloadNext

(* What is promised is worked out from what does not change.               *)
LEMMA AdvertisedStands ==
  ASSUME length' = length, [DownloadNext]_allVars
  PROVE  AdvertisedSize(reader)' = AdvertisedSize(reader')
BY SealedAsItWas DEF AdvertisedSize

(* A reader fits its file and what is promised stands.                     *)
LEMMA KeepsPicked ==
  ASSUME TypeOK,
         LegacyOK,
         Unread,
         Picked,
         [DownloadNext]_allVars
  PROVE  Picked'
<1>1. CASE Framed
  <2>1. reader' = "none"
    BY <1>1 DEF Framed, Unread, legacyVars, getVars
  <2> QED
    BY <2>1 DEF Picked
<1>2. CASE LegacyCut
  <2>1. reader' = "none"
    BY <1>2 DEF LegacyCut, Unread, legacyVars, getVars
  <2> QED
    BY <2>1 DEF Picked
<1>3. CASE LegacySpoiled
  <2>1. reader' = "none"
    BY <1>3 DEF LegacySpoiled, Unread, legacyVars, getVars
  <2> QED
    BY <2>1 DEF Picked
<1>4. ASSUME NEW row \in Rows, NEW typed \in BOOLEAN, GetFile(row, typed)
      PROVE  Picked'
  <2>1. /\ promised' = AdvertisedSize(reader')
        /\ reader' \in {format, "whole"}
        /\ UNCHANGED <<format, length>>
        /\ reader' = "framed" => NewDecryptingReader
    BY <1>4 DEF GetFile, Selected, legacyVars
  <2> QED
    BY <2>1, AdvertisedStands DEF Picked, NewDecryptingReader
<1>5. CASE ReadFrame
  <2>1. /\ UNCHANGED <<format, reader, promised, length>>
        /\ outcome' \in {"reading", "done", "failed"}
    BY <1>5 DEF ReadFrame, OpenNextFrame, FrameFails, EndOfFile, legacyVars, getVars
  <2> QED
    BY <2>1, AdvertisedStands DEF Picked
<1>6. CASE ReadChunk
  <2>1. UNCHANGED <<vars, format, reader, promised, length>>
    BY <1>6 DEF ReadChunk, legacyVars, getVars
  <2> QED
    BY <2>1, AdvertisedStands DEF Picked, vars, readVars
<1>7. CASE ChunksEnd
  <2>1. UNCHANGED <<vars, format, reader, promised, length>>
    BY <1>7 DEF ChunksEnd, legacyVars, getVars
  <2> QED
    BY <2>1, AdvertisedStands DEF Picked, vars, readVars
<1>8. CASE ReadWhole
  <2>1. UNCHANGED <<vars, format, reader, promised, length>>
    BY <1>8 DEF ReadWhole, legacyVars, getVars
  <2> QED
    BY <2>1, AdvertisedStands DEF Picked, vars, readVars
<1>9. CASE WholeEnds
  <2>1. UNCHANGED <<vars, format, reader, promised, length>>
    BY <1>9 DEF WholeEnds, legacyVars, getVars
  <2> QED
    BY <2>1, AdvertisedStands DEF Picked, vars, readVars
<1>10. CASE HeaderRead
  <2>1. UNCHANGED <<vars, format, reader, promised, length>>
    BY <1>10 DEF HeaderRead, legacyVars, getVars
  <2> QED
    BY <2>1, AdvertisedStands DEF Picked, vars, readVars
<1>11. CASE TestRead
  <2>1. UNCHANGED <<vars, format, reader, promised, length>>
    BY <1>11 DEF TestRead, legacyVars, getVars
  <2> QED
    BY <2>1, AdvertisedStands DEF Picked, vars, readVars
<1>12. CASE EarlyReadFails
  <2>1. UNCHANGED <<vars, format, reader, promised, length>>
    BY <1>12 DEF EarlyReadFails, legacyVars, getVars
  <2> QED
    BY <2>1, AdvertisedStands DEF Picked, vars, readVars
<1>13. CASE StreamCompletes
  <2>1. UNCHANGED <<vars, format, reader, promised, length>>
    BY <1>13 DEF StreamCompletes, legacyVars, getVars
  <2> QED
    BY <2>1, AdvertisedStands DEF Picked, vars, readVars
<1>14. CASE StreamBreaks
  <2>1. UNCHANGED <<vars, format, reader, promised, length>>
    BY <1>14 DEF StreamBreaks, legacyVars, getVars
  <2> QED
    BY <2>1, AdvertisedStands DEF Picked, vars, readVars
<1>15. CASE UNCHANGED allVars
  <2>1. UNCHANGED <<vars, format, reader, promised, length>>
    BY <1>15 DEF allVars, legacyVars, getVars
  <2> QED
    BY <2>1, AdvertisedStands DEF Picked, vars, readVars
<1>16. CASE SendByte
  <2>1. UNCHANGED <<vars, format, reader, promised, length>>
    BY <1>16 DEF SendByte, legacyVars
  <2> QED
    BY <2>1, AdvertisedStands DEF Picked, vars, readVars
<1> QED BY <1>1, <1>2, <1>3, <1>4, <1>5, <1>6, <1>7, <1>8, <1>9, <1>10, <1>11,
     <1>12, <1>13, <1>14, <1>15, <1>16
     DEF DownloadNext

(* What a reader has returned are whole pieces of the file.                *)
LEMMA KeepsPieces ==
  ASSUME TypeOK,
         LegacyOK,
         Unread,
         Picked,
         PiecesReturned,
         [DownloadNext]_allVars
  PROVE  PiecesReturned'
<1>1. CASE Framed
  <2>1. reader' = "none" /\ got' = got /\ reader = "none"
    BY <1>1 DEF Framed, Unread, legacyVars, getVars
  <2> QED
    BY <2>1 DEF PiecesReturned
<1>2. CASE LegacyCut
  <2>1. reader' = "none" /\ got' = got /\ reader = "none"
    BY <1>2 DEF LegacyCut, Unread, legacyVars, getVars
  <2> QED
    BY <2>1 DEF PiecesReturned
<1>3. CASE LegacySpoiled
  <2>1. reader' = "none" /\ got' = got /\ reader = "none"
    BY <1>3 DEF LegacySpoiled, Unread, legacyVars, getVars
  <2> QED
    BY <2>1 DEF PiecesReturned
<1>4. ASSUME NEW row \in Rows, NEW typed \in BOOLEAN, GetFile(row, typed)
      PROVE  PiecesReturned'
  <2>1. /\ reader = "none" /\ reader' \in {"framed", "chunked", "whole"}
        /\ UNCHANGED <<got, turn, ending, size, written>>
    BY <1>4, SealedAsItWas DEF GetFile, Selected, legacyVars, LegacyOK, Formats, Unread
  <2>2. turn' = 0 /\ got' = 0 /\ ending' = "open" /\ size > 0 /\ LegacyChunks > 0
    BY <2>1, LegacyTypes DEF Unread, PiecesReturned
  <2>3. LegacyChunks' = LegacyChunks /\ size' = size /\ written \in Nat
    BY SealedAsItWas, LegacyTypes
  <2> QED
    BY <2>1, <2>2, <2>3 DEF PiecesReturned
<1>5. CASE ReadFrame
  <2>1. UNCHANGED <<size, format, written, length, spoiled, reader, got, turn, ending>>
    BY <1>5, SealedAsItWas DEF ReadFrame, legacyVars, getVars, vars
  <2> QED
    BY <2>1, SealedAsItWas DEF PiecesReturned, WholeOpens, BlockStart
<1>6. CASE ReadChunk
  <2>1. /\ reader = "chunked" /\ reader' = "chunked" /\ format = "chunked"
        /\ turn < LegacyChunks
        /\ got = turn * written
        /\ ending' # "eof"
    BY <1>6, LegacyTypes DEF ReadChunk, Reads, AtEnd, getVars, Picked, PiecesReturned, LegacyOK
  <2>2. LegacyChunks' = LegacyChunks /\ size' = size /\ written' = written
    BY SealedAsItWas
  <2>3. CASE ChunkOpens
    <3>1. /\ got' = got + BlockEnd - BlockStart - ChunkOverhead
          /\ turn' = turn + 1
      BY <1>6, <2>3 DEF ReadChunk
    <3> QED
      BY <2>1, <2>2, <2>3, <3>1, ChunkAdds DEF PiecesReturned
  <2>4. CASE ~ChunkOpens
    <3>1. UNCHANGED <<got, turn>>
      BY <1>6, <2>4 DEF ReadChunk
    <3> QED
      BY <2>1, <2>2, <3>1 DEF PiecesReturned
  <2> QED
    BY <2>3, <2>4
<1>7. CASE ChunksEnd
  <2>1. /\ reader = "chunked" /\ reader' = "chunked"
        /\ turn = LegacyChunks \/ length <= BlockStart
        /\ UNCHANGED <<got, turn, length>>
    BY <1>7 DEF ChunksEnd, getVars
  <2> QED
    BY <2>1, SealedAsItWas DEF PiecesReturned, BlockStart
<1>8. CASE ReadWhole
  <2>1. /\ reader = "whole" /\ reader' = "whole" /\ got = 0
        /\ IF WholeOpens THEN got' = size ELSE UNCHANGED got
        /\ UNCHANGED <<length, spoiled, format>>
        /\ ending' # "eof"
    BY <1>8 DEF ReadWhole, getVars, Reads, AtEnd
  <2>2. size' = size /\ SealedLength' = SealedLength /\ size > 0
    BY SealedAsItWas, LegacyTypes
  <2> QED
    BY <2>1, <2>2 DEF PiecesReturned, WholeOpens, BlockStart
<1>9. CASE WholeEnds
  <2>1. /\ reader = "whole" /\ reader' = "whole" /\ got > 0
        /\ UNCHANGED <<length, spoiled, format, got>>
    BY <1>9 DEF WholeEnds, getVars
  <2>2. size' = size /\ SealedLength' = SealedLength /\ size > 0
    BY SealedAsItWas, LegacyTypes
  <2> QED
    BY <2>1, <2>2 DEF PiecesReturned, WholeOpens, BlockStart
<1>10. CASE HeaderRead
  <2>1. UNCHANGED <<size, format, written, length, spoiled, reader, got, turn, ending>>
    BY <1>10, SealedAsItWas DEF HeaderRead, legacyVars, getVars, vars
  <2> QED
    BY <2>1, SealedAsItWas DEF PiecesReturned, WholeOpens, BlockStart
<1>11. CASE TestRead
  <2>1. UNCHANGED <<size, format, written, length, spoiled, reader, got, turn, ending>>
    BY <1>11, SealedAsItWas DEF TestRead, legacyVars, getVars, vars
  <2> QED
    BY <2>1, SealedAsItWas DEF PiecesReturned, WholeOpens, BlockStart
<1>12. CASE EarlyReadFails
  <2>1. UNCHANGED <<size, format, written, length, spoiled, reader, got, turn, ending>>
    BY <1>12, SealedAsItWas DEF EarlyReadFails, legacyVars, getVars, vars
  <2> QED
    BY <2>1, SealedAsItWas DEF PiecesReturned, WholeOpens, BlockStart
<1>13. CASE StreamCompletes
  <2>1. UNCHANGED <<size, format, written, length, spoiled, reader, got, turn, ending>>
    BY <1>13, SealedAsItWas DEF StreamCompletes, legacyVars, getVars, vars
  <2> QED
    BY <2>1, SealedAsItWas DEF PiecesReturned, WholeOpens, BlockStart
<1>14. CASE StreamBreaks
  <2>1. UNCHANGED <<size, format, written, length, spoiled, reader, got, turn, ending>>
    BY <1>14, SealedAsItWas DEF StreamBreaks, legacyVars, getVars, vars
  <2> QED
    BY <2>1, SealedAsItWas DEF PiecesReturned, WholeOpens, BlockStart
<1>15. CASE UNCHANGED allVars
  <2>1. UNCHANGED <<size, format, written, length, spoiled, reader, got, turn, ending>>
    BY <1>15, SealedAsItWas DEF allVars, legacyVars, getVars, vars
  <2> QED
    BY <2>1, SealedAsItWas DEF PiecesReturned, WholeOpens, BlockStart
<1>16. CASE SendByte
  <2>1. UNCHANGED <<size, format, written, length, spoiled, reader, got, turn, ending>>
    BY <1>16, SealedAsItWas DEF SendByte, legacyVars, vars
  <2> QED
    BY <2>1, SealedAsItWas DEF PiecesReturned, WholeOpens, BlockStart
<1> QED BY <1>1, <1>2, <1>3, <1>4, <1>5, <1>6, <1>7, <1>8, <1>9, <1>10, <1>11,
     <1>12, <1>13, <1>14, <1>15, <1>16
     DEF DownloadNext

(* A reader that has not ended reads on only before the answer is complete. *)
LEMMA ReadsBefore ==
  ASSUME Reads
  PROVE  ~AtEnd /\ ~Failed /\ phase \notin {"none", "complete", "broken", "error"}
BY DEF Reads, Enough

(* What a reader has been picked for does not change.                      *)
LEMMA ReadAsItIs ==
  ASSUME [DownloadNext]_allVars, phase # "none"
  PROVE  /\ UNCHANGED <<damaged, length, spoiled, reader, format, written>>
         /\ Undamaged' = Undamaged
<1>1. UNCHANGED <<damaged, length, spoiled, reader>>
  <2> USE DEF vars, legacyVars, getVars
  <2>1. CASE Framed
    BY <2>1 DEF Framed
  <2>2. CASE LegacyCut
    BY <2>2 DEF LegacyCut
  <2>3. CASE LegacySpoiled
    BY <2>3 DEF LegacySpoiled
  <2>4. ASSUME NEW row \in Rows, NEW typed \in BOOLEAN, GetFile(row, typed)
        PROVE  UNCHANGED <<damaged, length, spoiled, reader>>
    BY <2>4 DEF GetFile
  <2>5. CASE ReadFrame
    BY <2>5 DEF ReadFrame, OpenNextFrame, FrameFails, EndOfFile
  <2>6. CASE ReadChunk
    BY <2>6 DEF ReadChunk
  <2>7. CASE ChunksEnd
    BY <2>7 DEF ChunksEnd
  <2>8. CASE ReadWhole
    BY <2>8 DEF ReadWhole
  <2>9. CASE WholeEnds
    BY <2>9 DEF WholeEnds
  <2>10. CASE HeaderRead
    BY <2>10 DEF HeaderRead
  <2>11. CASE TestRead
    BY <2>11 DEF TestRead
  <2>12. CASE EarlyReadFails
    BY <2>12 DEF EarlyReadFails
  <2>13. CASE StreamCompletes
    BY <2>13 DEF StreamCompletes
  <2>14. CASE StreamBreaks
    BY <2>14 DEF StreamBreaks
  <2>15. CASE UNCHANGED allVars
    BY <2>15 DEF allVars, allVars
  <2>16. CASE SendByte
    BY <2>16 DEF SendByte
  <2> HIDE DEF vars, legacyVars, getVars
  <2> QED BY <2>1, <2>2, <2>3, <2>4, <2>5, <2>6, <2>7, <2>8, <2>9, <2>10, <2>11,
       <2>12, <2>13, <2>14, <2>15, <2>16
       DEF DownloadNext
<1> QED
  BY <1>1, SealedAsItWas DEF Undamaged

(* What is promised is a length, perhaps below zero.                       *)
LEMMA PromisedType ==
  ASSUME StreamInv, LegacyOK, Unread, Picked
  PROVE  promised \in Int
<1>0. TypeOK
  BY DEF StreamInv
<1>1. CASE reader = "none"
  BY <1>1 DEF Unread
<1>2. CASE reader # "none"
  <2> DEFINE o == LegacyChunks * ChunkOverhead
  <2>1. length \in Int /\ o \in Int /\ size \in Int
    BY <1>0, LegacyTypes, SealedLengthIs DEF LegacyOK
  <2>2. promised \in {size, length, length - o}
    BY <1>2 DEF Picked, AdvertisedSize, LegacyOK, Formats
  <2> HIDE DEF o
  <2> QED
    BY <2>1, <2>2
<1> QED
  BY <1>1, <1>2

(* A reader returns no more than the file.                                 *)
LEMMA DeliveredWithin ==
  ASSUME StreamInv, LegacyOK, Picked, PiecesReturned
  PROVE  Delivered \in 0..size
<1>1. TypeOK /\ size \in Nat \ {0}
  BY SizeType DEF StreamInv
<1>2. CASE reader = "framed"
  <2>1. rleft \in Nat /\ rindex \in Nat /\ FrameSize \in Nat
    BY <1>1, LayoutTypes DEF TypeOK
  <2>2. rleft > 0 => rindex * FrameSize + rleft = size
    BY <1>2 DEF Picked, StreamInv, ReaderOnGrid
  <2>3. rindex * FrameSize \in Nat
    BY <2>1
  <2>4. rleft <= size
    BY <1>1, <2>1, <2>2, <2>3
  <2> QED
    BY <1>1, <1>2, <2>1, <2>4 DEF Delivered
<1>3. CASE reader # "framed"
  <2>1. Delivered = got
    BY <1>3 DEF Delivered
  <2>2. CASE reader = "chunked" /\ turn # LegacyChunks
    <3>1. turn \in 0..(LegacyChunks - 1)
      BY <1>1, <2>2, LegacyTypes DEF LegacyOK
    <3> QED
      BY <1>1, <2>1, <2>2, <3>1, PiecesBefore DEF PiecesReturned
  <2>3. CASE ~(reader = "chunked" /\ turn # LegacyChunks)
    BY <1>1, <1>3, <2>1, <2>3 DEF PiecesReturned, LegacyOK, Formats
  <2> QED
    BY <2>2, <2>3
<1> QED
  BY <1>2, <1>3

(* What a reader has returned it does not take back.                       *)
LEMMA DeliveredGrows ==
  ASSUME StreamInv, LegacyOK, Unread, Picked, PiecesReturned, phase # "none",
         [DownloadNext]_allVars
  PROVE  Delivered' \in Nat /\ Delivered <= Delivered'
<1>1. TypeOK /\ size \in Nat \ {0} /\ Delivered \in 0..size /\ size' = size /\ reader' = reader
  BY SizeType, DeliveredWithin, SealedAsItWas, ReadAsItIs DEF StreamInv
<1>2. CASE ReadFrame
  <2>1. reader = "framed" /\ rleft \in Nat
    BY <1>1, <1>2 DEF ReadFrame, TypeOK
  <2>2. rleft' \in Nat /\ rleft' <= rleft
    <3>1. CASE OpenNextFrame
      <4>1. PICK f \in object : Opens(f) /\ rleft' = rleft - f.bytes
        BY <3>1 DEF OpenNextFrame
      <4>2. f.bytes \in 0..FrameSize /\ f.bytes <= rleft /\ FrameSize \in Nat
        BY <3>1, <4>1, FrameOpened, LayoutTypes DEF OpenNextFrame
      <4> QED
        BY <2>1, <4>1, <4>2
    <3>2. CASE FrameFails \/ EndOfFile
      BY <2>1, <3>2 DEF FrameFails, EndOfFile
    <3> QED
      BY <1>2, <3>1, <3>2 DEF ReadFrame
  <2>3. Delivered = size - rleft /\ Delivered' = size - rleft'
    BY <1>1, <2>1 DEF Delivered
  <2>4. rleft <= size
    BY <1>1, <2>1, <2>3
  <2> QED
    <3>1. size - rleft' \in Nat /\ size - rleft <= size - rleft'
      <4> DEFINE m == rleft'
      <4>1. m \in Nat /\ m <= rleft
        BY <2>2
      <4> HIDE DEF m
      <4>2. size - m \in Nat /\ size - rleft <= size - m
        BY <1>1, <2>1, <2>4, <4>1
      <4> QED
        BY <4>2 DEF m
    <3> QED
      BY <2>3, <3>1
<1>3. CASE ReadChunk
  <2>1. reader = "chunked" /\ format = "chunked" /\ turn < LegacyChunks /\ got = turn * written
    BY <1>1, <1>3, LegacyTypes DEF ReadChunk, Picked, PiecesReturned, LegacyOK
  <2>2. got \in Nat /\ got <= size
    BY <1>1, <2>1 DEF Delivered
  <2>3. got' \in Nat /\ got <= got'
    <3>1. CASE ChunkOpens
      <4>1. got' = IF turn + 1 = LegacyChunks THEN size ELSE (turn + 1) * written
        BY <1>1, <1>3, <2>1, <3>1, ChunkAdds DEF ReadChunk
      <4>2. turn \in Nat /\ written \in Nat
        BY <1>1, LegacyTypes DEF LegacyOK
      <4>3. (turn + 1) * written = turn * written + written
        BY <4>2
      <4> QED
        BY <1>1, <2>1, <2>2, <4>1, <4>2, <4>3
    <3>2. CASE ~ChunkOpens
      BY <1>3, <2>2, <3>2 DEF ReadChunk
    <3> QED
      BY <3>1, <3>2
  <2> QED
    BY <1>1, <2>1, <2>3 DEF Delivered
<1>4. CASE ReadWhole
  <2>1. reader = "whole" /\ got = 0 /\ got' \in {0, size}
    BY <1>4 DEF ReadWhole
  <2> QED
    BY <1>1, <2>1 DEF Delivered
<1>5. ASSUME UNCHANGED <<rleft, got>> PROVE Delivered' \in Nat /\ Delivered <= Delivered'
  BY <1>1, <1>5 DEF Delivered
<1>6. CASE Framed \/ LegacyCut \/ LegacySpoiled \/ \E row \in Rows, typed \in BOOLEAN : GetFile(row, typed)
  BY <1>6 DEF Framed, LegacyCut, LegacySpoiled, GetFile
<1>7. CASE ChunksEnd \/ WholeEnds
  BY <1>5, <1>7 DEF ChunksEnd, WholeEnds, vars, readVars
<1>8. CASE HeaderRead \/ TestRead \/ EarlyReadFails \/ SendByte \/ StreamCompletes \/ StreamBreaks
  BY <1>5, <1>8 DEF HeaderRead, TestRead, EarlyReadFails, SendByte, StreamCompletes,
     StreamBreaks, vars, readVars, legacyVars
<1>9. CASE UNCHANGED allVars
  BY <1>5, <1>9 DEF allVars, vars, readVars, legacyVars
<1> QED
  BY <1>2, <1>3, <1>4, <1>6, <1>7, <1>8, <1>9 DEF DownloadNext

(* Whoever has a byte to test has been returned one.                       *)
LEMMA ReadyIsThere ==
  ASSUME InHand, phase = "testing", ~(reader = "chunked" /\ length = 0), Ready,
         Delivered \in Int
  PROVE  Delivered > 0
<1>1. CASE front # <<>>
  <2>1. Len(front) > 0 /\ Len(body) = 0
    BY <1>1 DEF InHand
  <2> QED
    BY <2>1 DEF InHand, Straight
<1>2. CASE taken < Delivered
  BY <1>2 DEF InHand
<1> QED
  BY <1>1, <1>2 DEF Ready

(* A reader that ends with nothing left for the test read has returned     *)
(* something all the same, but for a legacy object cut to nothing.         *)
LEMMA EndsWithSomething ==
  ASSUME StreamInv, LegacyOK, Picked, PiecesReturned, AtEnd, reader # "none",
         ~(reader = "chunked" /\ length = 0)
  PROVE  Delivered > 0
<1>1. TypeOK /\ size \in Nat \ {0}
  BY SizeType DEF StreamInv
<1>2. CASE reader = "framed"
  BY <1>1, <1>2 DEF AtEnd, Delivered, StreamInv, ReaderOnGrid
<1>3. CASE reader = "whole"
  BY <1>1, <1>3 DEF AtEnd, Delivered, PiecesReturned
<1>4. CASE reader = "chunked"
  <2>1. /\ turn \in Nat /\ written \in Nat \ {0} /\ LegacyChunks \in Nat \ {0}
        /\ length \in Nat
    BY <1>1, LegacyTypes, SealedLengthIs DEF LegacyOK
  <2>2. turn # 0
    <3> SUFFICES ASSUME turn = 0 PROVE FALSE
      OBVIOUS
    <3>1. BlockStart = 0
      BY LayoutTypes, DownloadAssumption DEF BlockStart
    <3> QED
      BY <1>4, <2>1, <3>1 DEF AtEnd, PiecesReturned
  <2>3. turn * written > 0
    BY <2>1, <2>2
  <2> QED
    BY <1>1, <1>4, <2>3 DEF Delivered, PiecesReturned
<1> QED
  BY <1>2, <1>3, <1>4 DEF LegacyOK, Formats

(* Of a file sealed whole nothing is sent before all is there.             *)
LEMMA KeepsWhole ==
  ASSUME StreamInv,
         TypeOK,
         LegacyOK,
         Picked,
         PiecesReturned,
         InHand,
         WholeBeforeSent,
         [DownloadNext]_allVars
  PROVE  WholeBeforeSent'
<1>1. CASE Framed
  <2>1. phase' = "none"
    BY <1>1 DEF Framed, getVars
  <2> QED
    BY <2>1 DEF WholeBeforeSent
<1>2. CASE LegacyCut
  <2>1. phase' = "none"
    BY <1>2 DEF LegacyCut, getVars
  <2> QED
    BY <2>1 DEF WholeBeforeSent
<1>3. CASE LegacySpoiled
  <2>1. phase' = "none"
    BY <1>3 DEF LegacySpoiled, getVars
  <2> QED
    BY <2>1 DEF WholeBeforeSent
<1>4. ASSUME NEW row \in Rows, NEW typed \in BOOLEAN, GetFile(row, typed)
      PROVE  WholeBeforeSent'
  <2>1. phase' \in {"testing", "sniffing"}
    BY <1>4 DEF GetFile
  <2> QED
    BY <2>1 DEF WholeBeforeSent
<1>5. CASE ReadFrame
  <2>1. UNCHANGED <<size, reader, phase, got>>
    BY <1>5, SealedAsItWas DEF ReadFrame, legacyVars, getVars, vars, readVars
  <2> QED
    BY <2>1 DEF WholeBeforeSent
<1>6. CASE ReadChunk
  <2>1. reader' = "chunked"
    BY <1>6 DEF ReadChunk, getVars
  <2> QED
    BY <2>1 DEF WholeBeforeSent
<1>7. CASE ChunksEnd
  <2>1. UNCHANGED <<size, reader, phase, got>>
    BY <1>7, SealedAsItWas DEF ChunksEnd, legacyVars, getVars, vars, readVars
  <2> QED
    BY <2>1 DEF WholeBeforeSent
<1>8. CASE ReadWhole
  <2>1. got = 0 /\ reader = "whole" /\ size > 0 /\ phase' = phase
    BY <1>8, LegacyTypes DEF ReadWhole, getVars
  <2> QED
    BY <2>1 DEF WholeBeforeSent
<1>9. CASE WholeEnds
  <2>1. UNCHANGED <<size, reader, phase, got>>
    BY <1>9, SealedAsItWas DEF WholeEnds, legacyVars, getVars, vars, readVars
  <2> QED
    BY <2>1 DEF WholeBeforeSent
<1>10. CASE HeaderRead
  <2>1. phase' = "testing"
    BY <1>10 DEF HeaderRead
  <2> QED
    BY <2>1 DEF WholeBeforeSent
<1>11. CASE TestRead
  <2> SUFFICES ASSUME reader' = "whole" PROVE got' = size'
    BY DEF WholeBeforeSent
  <2>1. /\ reader = "whole" /\ phase = "testing" /\ (Ready \/ AtEnd)
        /\ got' = got /\ size' = size /\ size > 0
    BY <1>11, SealedAsItWas, LegacyTypes DEF TestRead, Ready, legacyVars
  <2>3. Delivered = got /\ (AtEnd => got = size)
    BY <2>1 DEF Delivered, AtEnd, PiecesReturned
  <2>4. Ready => got > 0
    BY <2>1, <2>3, ReadyIsThere, DeliveredWithin, LegacyTypes
  <2> QED
    BY <2>1, <2>3, <2>4 DEF PiecesReturned
<1>12. CASE EarlyReadFails
  <2>1. phase' = "error"
    BY <1>12 DEF EarlyReadFails
  <2> QED
    BY <2>1 DEF WholeBeforeSent
<1>13. CASE StreamCompletes
  <2>1. phase = "sending" /\ UNCHANGED <<size, reader, got>>
    BY <1>13, SealedAsItWas DEF StreamCompletes, legacyVars
  <2> QED
    BY <2>1 DEF WholeBeforeSent
<1>14. CASE StreamBreaks
  <2>1. phase' = "broken"
    BY <1>14 DEF StreamBreaks
  <2> QED
    BY <2>1 DEF WholeBeforeSent
<1>15. CASE UNCHANGED allVars
  <2>1. UNCHANGED <<size, reader, phase, got>>
    BY <1>15, SealedAsItWas DEF allVars, legacyVars, getVars, vars, readVars
  <2> QED
    BY <2>1 DEF WholeBeforeSent
<1>16. CASE SendByte
  <2>1. UNCHANGED <<size, reader, phase, got>>
    BY <1>16, SealedAsItWas DEF SendByte, legacyVars
  <2> QED
    BY <2>1 DEF WholeBeforeSent
<1> QED BY <1>1, <1>2, <1>3, <1>4, <1>5, <1>6, <1>7, <1>8, <1>9, <1>10, <1>11,
     <1>12, <1>13, <1>14, <1>15, <1>16
     DEF DownloadNext

(* An answer is complete when what was promised is there.                  *)
LEMMA KeepsEnough ==
  ASSUME CompleteWhenEnough,
         [DownloadNext]_allVars
  PROVE  CompleteWhenEnough'
<1>1. CASE Framed
  <2>1. phase' = "none"
    BY <1>1 DEF Framed, getVars
  <2> QED
    BY <2>1 DEF CompleteWhenEnough
<1>2. CASE LegacyCut
  <2>1. phase' = "none"
    BY <1>2 DEF LegacyCut, getVars
  <2> QED
    BY <2>1 DEF CompleteWhenEnough
<1>3. CASE LegacySpoiled
  <2>1. phase' = "none"
    BY <1>3 DEF LegacySpoiled, getVars
  <2> QED
    BY <2>1 DEF CompleteWhenEnough
<1>4. ASSUME NEW row \in Rows, NEW typed \in BOOLEAN, GetFile(row, typed)
      PROVE  CompleteWhenEnough'
  <2>1. phase' \in {"testing", "sniffing"}
    BY <1>4 DEF GetFile
  <2> QED
    BY <2>1 DEF CompleteWhenEnough
<1>5. CASE ReadFrame
  <2>1. Reads /\ phase' = phase
    BY <1>5 DEF ReadFrame, getVars
  <2> QED
    BY <2>1, ReadsBefore DEF CompleteWhenEnough
<1>6. CASE ReadChunk
  <2>1. Reads /\ phase' = phase
    BY <1>6 DEF ReadChunk, getVars
  <2> QED
    BY <2>1, ReadsBefore DEF CompleteWhenEnough
<1>7. CASE ChunksEnd
  <2>1. Reads /\ phase' = phase
    BY <1>7 DEF ChunksEnd, getVars
  <2> QED
    BY <2>1, ReadsBefore DEF CompleteWhenEnough
<1>8. CASE ReadWhole
  <2>1. Reads /\ phase' = phase
    BY <1>8 DEF ReadWhole, getVars
  <2> QED
    BY <2>1, ReadsBefore DEF CompleteWhenEnough
<1>9. CASE WholeEnds
  <2>1. Reads /\ phase' = phase
    BY <1>9 DEF WholeEnds, getVars
  <2> QED
    BY <2>1, ReadsBefore DEF CompleteWhenEnough
<1>10. CASE HeaderRead
  <2>1. phase' = "testing"
    BY <1>10 DEF HeaderRead
  <2> QED
    BY <2>1 DEF CompleteWhenEnough
<1>11. CASE TestRead
  <2>1. phase' = "sending"
    BY <1>11 DEF TestRead
  <2> QED
    BY <2>1 DEF CompleteWhenEnough
<1>12. CASE EarlyReadFails
  <2>1. phase' = "error"
    BY <1>12 DEF EarlyReadFails
  <2> QED
    BY <2>1 DEF CompleteWhenEnough
<1>13. CASE StreamCompletes
  <2>1. /\ AllSent \/ promised < 0
        /\ UNCHANGED <<promised, body>>
    BY <1>13 DEF StreamCompletes, takenVars
  <2> QED
    BY <2>1 DEF CompleteWhenEnough, AllSent
<1>14. CASE StreamBreaks
  <2>1. phase' = "broken"
    BY <1>14 DEF StreamBreaks
  <2> QED
    BY <2>1 DEF CompleteWhenEnough
<1>15. CASE UNCHANGED allVars
  <2>1. UNCHANGED <<phase, promised, body>>
    BY <1>15 DEF allVars, getVars, takenVars
  <2> QED
    BY <2>1 DEF CompleteWhenEnough, AllSent
<1>16. CASE SendByte
  <2>1. phase' = "sending"
    BY <1>16 DEF SendByte
  <2> QED
    BY <2>1 DEF CompleteWhenEnough
<1> QED BY <1>1, <1>2, <1>3, <1>4, <1>5, <1>6, <1>7, <1>8, <1>9, <1>10, <1>11,
     <1>12, <1>13, <1>14, <1>15, <1>16
     DEF DownloadNext

(* What the handler takes it hands on, each byte once and in its order.    *)
LEMMA KeepsInHand ==
  ASSUME StreamInv,
         LegacyOK,
         Unread,
         Picked,
         PiecesReturned,
         InHand,
         [DownloadNext]_allVars
  PROVE  InHand'
<1>1. ASSUME phase = "none", UNCHANGED takenVars, phase' \in {"none", "sniffing", "testing"},
             taken' <= Delivered'
      PROVE  InHand'
  <2>1. front' = <<>> /\ taken' = 0 /\ body' = <<>>
    BY <1>1 DEF InHand, takenVars
  <2> QED
    BY <1>1, <2>1 DEF InHand, Straight
<1>2. CASE Framed \/ LegacyCut \/ LegacySpoiled
  <2>1. /\ phase = "none" /\ phase' = "none" /\ UNCHANGED takenVars
        /\ reader = "none" /\ reader' = "none" /\ got' = got
    BY <1>2 DEF Framed, LegacyCut, LegacySpoiled, getVars, legacyVars, Unread
  <2>2. taken' <= Delivered'
    BY <2>1 DEF InHand, takenVars, PiecesReturned, Delivered
  <2> QED
    BY <1>1, <2>1, <2>2
<1>3. ASSUME NEW row \in Rows, NEW typed \in BOOLEAN, GetFile(row, typed)
      PROVE  InHand'
  <2>1. /\ phase = "none" /\ phase' \in {"sniffing", "testing"} /\ UNCHANGED takenVars
        /\ reader = "none" /\ got' = got
        /\ reader' = "framed" => rleft' = size
        /\ size' = size /\ size \in Nat
    BY <1>3, SealedAsItWas, SizeType DEF GetFile, legacyVars, Unread, NewDecryptingReader, StreamInv
  <2>2. taken' = 0 /\ got' = 0
    BY <2>1 DEF InHand, takenVars, PiecesReturned
  <2>3. taken' <= Delivered'
    BY <2>1, <2>2 DEF Delivered
  <2> QED
    BY <1>1, <2>1, <2>3
<1> SUFFICES ASSUME phase # "none" PROVE InHand'
  <2>1. ASSUME phase = "none", UNCHANGED allVars PROVE InHand'
    BY <2>1 DEF allVars, getVars, takenVars, legacyVars, vars, readVars, InHand, Straight,
       Delivered
  <2>2. ASSUME phase = "none", DownloadNext PROVE InHand'
    BY <1>2, <1>3, <2>2 DEF DownloadNext, ReadFrame, ReadChunk, ChunksEnd, ReadWhole,
       WholeEnds, Reads, Enough, HeaderRead, TestRead, EarlyReadFails, SendByte,
       StreamCompletes, StreamBreaks
  <2> QED
    BY <2>1, <2>2
<1>4. /\ Delivered' \in Nat /\ Delivered \in Nat /\ Delivered <= Delivered'
      /\ UNCHANGED <<reader, length, format>> /\ size' = size /\ size \in Nat \ {0}
  BY DeliveredGrows, DeliveredWithin, ReadAsItIs, SealedAsItWas, SizeType DEF StreamInv
<1>5. /\ front \in Seq(Int) /\ body \in Seq(Int) /\ taken \in Nat /\ taken <= Delivered
      /\ phase \in {"sniffing", "testing"} => body = <<>>
      /\ phase = "sniffing" => front = <<>> /\ taken = 0
      /\ promised >= 0 => Len(body) <= promised
      /\ ~(reader = "chunked" /\ length = 0) => Straight
  BY DEF InHand
<1>6. ASSUME UNCHANGED <<takenVars, promised>>, phase' = phase \/ phase' \notin {"none", "sniffing", "testing"}
      PROVE  InHand'
  BY <1>4, <1>5, <1>6 DEF takenVars, InHand, Straight
<1>7. CASE ReadFrame \/ ReadChunk \/ ChunksEnd \/ ReadWhole \/ WholeEnds
  BY <1>6, <1>7 DEF ReadFrame, ReadChunk, ChunksEnd, ReadWhole, WholeEnds, getVars
<1>8. CASE EarlyReadFails \/ StreamCompletes \/ StreamBreaks
  BY <1>6, <1>8 DEF EarlyReadFails, StreamCompletes, StreamBreaks
<1>9. CASE UNCHANGED allVars
  BY <1>6, <1>9 DEF allVars, getVars
<1>10. CASE HeaderRead
  <2>1. /\ taken' \in Nat /\ taken' <= Delivered
        /\ front' = FirstBytes(taken') /\ body' = body /\ body = <<>>
        /\ phase' = "testing" /\ promised' = promised
    <3>1. SniffBytes \in Nat
      BY DownloadAssumption
    <3> QED
      BY <1>4, <1>5, <1>10, <3>1 DEF HeaderRead
  <2> DEFINE n == taken'
  <2>2. front' = [i \in 1..n |-> i - 1] /\ n \in Nat
    BY <2>1 DEF FirstBytes
  <2> HIDE DEF n
  <2>3. /\ front' \in Seq(Int) /\ Len(front') = n
        /\ \A i \in 1..n : front'[i] = i - 1
    BY <2>2
  <2>4. Straight'
    <3>1. body' = <<>> /\ taken' = n
      BY <2>1 DEF n
    <3>2. Len(body') = 0 /\ \A i \in 1..n : front'[i] = Len(body') + i - 1
      BY <2>2, <2>3, <3>1
    <3>3. Len(body') + Len(front') = taken'
      BY <2>2, <2>3, <3>1, <3>2
    <3> QED
      BY <2>3, <3>2, <3>3 DEF Straight
  <2> QED
    BY <1>4, <1>5, <2>1, <2>3, <2>4 DEF InHand
<1>11. CASE TestRead
  <2>1. body' = <<>> /\ body = <<>> /\ phase' = "sending" /\ promised' = promised /\ phase = "testing"
    BY <1>5, <1>11 DEF TestRead
  <2> SUFFICES /\ front' \in Seq(Int) /\ taken' \in Nat /\ taken' <= Delivered
               /\ ~(reader = "chunked" /\ length = 0) =>
                    Len(front') = taken' /\ \A i \in 1..Len(front') : front'[i] = i - 1
    BY <1>4, <2>1 DEF InHand, Straight
  <2>2. ~(reader = "chunked" /\ length = 0) =>
          Len(front) = taken /\ \A i \in 1..Len(front) : front[i] = i - 1
    BY <1>5, <2>1 DEF Straight
  <2>3. CASE front # <<>>
    <3>1. front' = <<Head(front)>> \o Tail(front) /\ taken' = taken
      BY <1>11, <2>3 DEF TestRead, Ready
    <3>2. front' = front
      BY <1>5, <2>3, <3>1
    <3> QED
      BY <1>5, <2>2, <3>1, <3>2
  <2>4. CASE front = <<>> /\ taken < Delivered
    <3>1. front' = <<taken>> /\ taken' = taken + 1
      BY <1>11, <2>4 DEF TestRead, Ready
    <3>2. /\ front' \in Seq(Int) /\ Len(front') = 1 /\ front'[1] = taken
      BY <1>5, <3>1
    <3>3. ~(reader = "chunked" /\ length = 0) => taken = 0
      BY <2>2, <2>4
    <3>4. taken' \in Nat /\ taken' <= Delivered
      BY <1>4, <1>5, <2>4, <3>1
    <3>5. ~(reader = "chunked" /\ length = 0) =>
            Len(front') = taken' /\ \A i \in 1..Len(front') : front'[i] = i - 1
      BY <3>1, <3>2, <3>3
    <3> QED
      BY <3>2, <3>4, <3>5
  <2>5. CASE ~Ready
    <3>1. AtEnd /\ front' = <<ZeroByte>> /\ taken' = taken
      BY <1>11, <2>5 DEF TestRead, Ready
    <3>2. front = <<>> /\ taken = Delivered
      BY <1>4, <1>5, <2>5 DEF Ready
    <3>3. reader # "none"
      BY DEF Unread
    <3>4. reader = "chunked" /\ length = 0
      <4> SUFFICES ASSUME ~(reader = "chunked" /\ length = 0) PROVE FALSE
        OBVIOUS
      <4>1. Delivered > 0
        BY <3>1, <3>3, EndsWithSomething
      <4> QED
        BY <2>2, <3>2, <4>1
    <3> QED
      BY <1>5, <3>1, <3>4 DEF ZeroByte
  <2> QED
    BY <1>4, <1>5, <2>3, <2>4, <2>5 DEF Ready
<1>16. CASE SendByte
  <2>1. phase' = "sending" /\ promised' = promised /\ ~AllSent /\ phase = "sending"
    BY <1>16 DEF SendByte
  <2>2. promised >= 0 => Len(body) < promised
    BY <2>1, <1>5, PromisedType DEF AllSent
  <2> SUFFICES /\ front' \in Seq(Int) /\ body' \in Seq(Int) /\ Len(body') = Len(body) + 1
               /\ taken' \in Nat /\ taken' <= Delivered
               /\ ~(reader = "chunked" /\ length = 0) => Straight'
    <3>1. promised' >= 0 => Len(body') <= promised'
      BY <1>5, <2>1, <2>2, PromisedType
    <3> QED
      BY <1>4, <2>1, <3>1 DEF InHand
  <2>3. CASE front # <<>>
    <3>1. body' = Append(body, Head(front)) /\ front' = Tail(front) /\ taken' = taken
      BY <1>16, <2>3 DEF SendByte
    <3>2. /\ Head(front) \in Int /\ Head(front) = front[1] /\ Len(front) > 0
          /\ front' \in Seq(Int) /\ Len(front') = Len(front) - 1
          /\ \A i \in 1..Len(front') : front'[i] = front[i + 1]
      BY <1>5, <2>3, <3>1
    <3>3. /\ body' \in Seq(Int) /\ Len(body') = Len(body) + 1
          /\ body'[Len(body) + 1] = front[1]
          /\ \A i \in 1..Len(body) : body'[i] = body[i]
      BY <1>5, <3>1, <3>2
    <3>4. ASSUME Straight PROVE Straight'
      <4>1. Len(body) + Len(front) = taken
        BY <3>4 DEF Straight
      <4>2. \A i \in 1..Len(body') : body'[i] = i - 1
        <5>1. front[1] = Len(body)
          BY <1>5, <3>2, <3>4 DEF Straight
        <5>2. \A i \in 1..Len(body) : body'[i] = i - 1
          BY <3>3, <3>4 DEF Straight
        <5>3. ASSUME NEW i \in 1..(Len(body) + 1) PROVE body'[i] = i - 1
          <6>1. Len(body) \in Nat
            BY <1>5
          <6>2. i = Len(body) + 1 \/ i \in 1..Len(body)
            BY <6>1
          <6> QED
            BY <3>3, <5>1, <5>2, <6>1, <6>2
        <5> QED
          BY <3>3, <5>3
      <4>3. \A i \in 1..Len(front') : front'[i] = Len(body') + i - 1
        <5> SUFFICES ASSUME NEW i \in 1..Len(front') PROVE front'[i] = Len(body') + i - 1
          OBVIOUS
        <5>1. i + 1 \in 1..Len(front)
          BY <1>5, <3>2
        <5>2. front[i + 1] = Len(body) + (i + 1) - 1
          BY <3>4, <5>1 DEF Straight
        <5> QED
          BY <1>5, <3>2, <3>3, <5>2
      <4>4. Len(body') + Len(front') = taken'
        <5>1. Len(body) \in Nat /\ Len(front) \in Nat
          BY <1>5
        <5> QED
          BY <3>1, <3>2, <3>3, <4>1, <5>1
      <4> QED
        BY <4>2, <4>3, <4>4 DEF Straight
    <3> QED
      BY <1>5, <3>1, <3>2, <3>3, <3>4
  <2>4. CASE front = <<>>
    <3>1. body' = Append(body, taken) /\ taken' = taken + 1 /\ front' = front /\ taken < Delivered
      BY <1>16, <2>4 DEF SendByte
    <3>2. /\ body' \in Seq(Int) /\ Len(body') = Len(body) + 1
          /\ body'[Len(body) + 1] = taken
          /\ \A i \in 1..Len(body) : body'[i] = body[i]
      BY <1>5, <3>1
    <3>3. ASSUME Straight PROVE Straight'
      <4>1. Len(body) = taken /\ Len(front') = 0
        BY <1>5, <2>4, <3>1, <3>3 DEF Straight
      <4>2. \A i \in 1..Len(body') : body'[i] = i - 1
        BY <1>5, <3>2, <3>3, <4>1 DEF Straight
      <4> QED
        BY <1>5, <3>1, <3>2, <4>1, <4>2 DEF Straight
    <3> QED
      BY <1>4, <1>5, <3>1, <3>2, <3>3
  <2> QED
    BY <2>3, <2>4
<1> QED
  BY <1>2, <1>3, <1>7, <1>8, <1>9, <1>10, <1>11, <1>16 DEF DownloadNext

(* Chunks of the size configured now are all read.                         *)
LEMMA KeepsChunksOpen ==
  ASSUME TypeOK,
         LegacyOK,
         Unread,
         Picked,
         ChunksOpen,
         [DownloadNext]_allVars
  PROVE  ChunksOpen'
<1>1. CASE Framed
  <2>1. reader' = "none"
    BY <1>1 DEF Framed, Unread, legacyVars, getVars
  <2> QED
    BY <2>1 DEF ChunksOpen
<1>2. CASE LegacyCut
  <2>1. reader' = "none"
    BY <1>2 DEF LegacyCut, Unread, legacyVars, getVars
  <2> QED
    BY <2>1 DEF ChunksOpen
<1>3. CASE LegacySpoiled
  <2>1. reader' = "none"
    BY <1>3 DEF LegacySpoiled, Unread, legacyVars, getVars
  <2> QED
    BY <2>1 DEF ChunksOpen
<1>4. ASSUME NEW row \in Rows, NEW typed \in BOOLEAN, GetFile(row, typed)
      PROVE  ChunksOpen'
  <2>1. ending' = "open"
    BY <1>4 DEF GetFile, legacyVars, Unread
  <2> QED
    BY <2>1 DEF ChunksOpen
<1>5. CASE ReadFrame
  <2>1. UNCHANGED <<reader, turn, ending>> /\ phase # "none"
    BY <1>5, ReadsBefore DEF ReadFrame, legacyVars, getVars
  <2> QED
    BY <2>1, ReadAsItIs, SealedAsItWas DEF ChunksOpen
<1>6. CASE ReadChunk
  <2> SUFFICES ASSUME Undamaged', reader' = "chunked", written' = ChunkSize
               PROVE  ending' # "failed" /\ (ending' = "eof" => turn' = LegacyChunks')
    BY DEF ChunksOpen
  <2>1. /\ reader = "chunked" /\ turn < LegacyChunks /\ Reads
        /\ ChunkOpens => UNCHANGED ending
    BY <1>6 DEF ReadChunk
  <2>2. /\ format = "chunked" /\ written = ChunkSize
        /\ length = SealedLength /\ spoiled = {}
    BY <2>1, ReadsBefore, ReadAsItIs, SealedAsItWas DEF Undamaged, Picked
  <2>3. ending' = ending
    BY <2>1, <2>2, ChunkIsThere
  <2> QED
    BY <2>1, <2>3, ReadsBefore DEF AtEnd, Failed
<1>7. CASE ChunksEnd
  <2> SUFFICES ASSUME Undamaged', reader' = "chunked", written' = ChunkSize
               PROVE  ending' # "failed" /\ (ending' = "eof" => turn' = LegacyChunks')
    BY DEF ChunksOpen
  <2>1. /\ reader = "chunked" /\ Reads /\ ending' = "eof" /\ turn' = turn
        /\ turn = LegacyChunks \/ length <= BlockStart
    BY <1>7 DEF ChunksEnd
  <2>2. /\ format = "chunked" /\ written = ChunkSize
        /\ length = SealedLength /\ spoiled = {}
    BY <2>1, ReadsBefore, ReadAsItIs, SealedAsItWas DEF Undamaged, Picked
  <2>3. /\ turn \in 0..LegacyChunks /\ LegacyChunks \in Nat
        /\ length \in Nat /\ BlockStart \in Nat
    BY <2>2, SealedLengthIs, LegacyTypes, LayoutTypes DEF LegacyOK, BlockStart
  <2>4. turn < LegacyChunks => BlockStart < length
    BY <2>2, ChunkIsThere
  <2>5. turn = LegacyChunks
    BY <2>1, <2>3, <2>4
  <2> QED
    BY <2>1, <2>5, SealedAsItWas
<1>8. CASE ReadWhole
  <2>1. reader' = "whole"
    BY <1>8 DEF ReadWhole, getVars
  <2> QED
    BY <2>1 DEF ChunksOpen
<1>9. CASE WholeEnds
  <2>1. reader' = "whole"
    BY <1>9 DEF WholeEnds, getVars
  <2> QED
    BY <2>1 DEF ChunksOpen
<1>10. CASE HeaderRead
  <2>1. UNCHANGED <<reader, turn, ending>> /\ phase # "none"
    BY <1>10, ReadsBefore DEF HeaderRead, legacyVars, getVars
  <2> QED
    BY <2>1, ReadAsItIs, SealedAsItWas DEF ChunksOpen
<1>11. CASE TestRead
  <2>1. UNCHANGED <<reader, turn, ending>> /\ phase # "none"
    BY <1>11, ReadsBefore DEF TestRead, legacyVars, getVars
  <2> QED
    BY <2>1, ReadAsItIs, SealedAsItWas DEF ChunksOpen
<1>12. CASE EarlyReadFails
  <2>1. UNCHANGED <<reader, turn, ending>> /\ phase # "none"
    BY <1>12, ReadsBefore DEF EarlyReadFails, legacyVars, getVars
  <2> QED
    BY <2>1, ReadAsItIs, SealedAsItWas DEF ChunksOpen
<1>13. CASE StreamCompletes
  <2>1. UNCHANGED <<reader, turn, ending>> /\ phase # "none"
    BY <1>13, ReadsBefore DEF StreamCompletes, legacyVars, getVars
  <2> QED
    BY <2>1, ReadAsItIs, SealedAsItWas DEF ChunksOpen
<1>14. CASE StreamBreaks
  <2>1. UNCHANGED <<reader, turn, ending>> /\ phase # "none"
    BY <1>14, ReadsBefore DEF StreamBreaks, legacyVars, getVars
  <2> QED
    BY <2>1, ReadAsItIs, SealedAsItWas DEF ChunksOpen
<1>15. CASE UNCHANGED allVars
  <2>1. UNCHANGED <<damaged, format, size, length, spoiled, reader, written, ending, turn>>
    BY <1>15, SealedAsItWas DEF allVars, legacyVars, getVars, vars, readVars
  <2> QED
    BY <2>1, SealedAsItWas DEF ChunksOpen, Undamaged
<1>16. CASE SendByte
  <2>1. UNCHANGED <<reader, turn, ending>> /\ phase # "none"
    BY <1>16 DEF SendByte, legacyVars
  <2> QED
    BY <2>1, ReadAsItIs, SealedAsItWas DEF ChunksOpen
<1> QED BY <1>1, <1>2, <1>3, <1>4, <1>5, <1>6, <1>7, <1>8, <1>9, <1>10, <1>11,
     <1>12, <1>13, <1>14, <1>15, <1>16
     DEF DownloadNext

(* A reader of a file that is as it was stored does not fail, and ends     *)
(* where what was promised is there.                                       *)
LEMMA NothingFails ==
  ASSUME StreamInv, LegacyOK, Unread, Picked, PiecesReturned, ChunksOpen, phase # "none",
         Undamaged, reader = format, format # "whole", written = ChunkSize
  PROVE  ~Failed /\ (AtEnd => Delivered >= promised)
<1>0. TypeOK /\ reader \in {"framed", "chunked"} /\ promised = AdvertisedSize(reader)
  BY DEF StreamInv, LegacyOK, Formats, Picked
<1>1. CASE reader = "framed"
  <2>1. promised = size /\ size \in Nat
    BY <1>0, <1>1, SizeType DEF AdvertisedSize
  <2>2. ~Failed
    BY <1>1 DEF Failed, StreamInv, StoredFileOpens, Undamaged
  <2>3. AtEnd => Delivered = size
    BY <1>1, <2>1 DEF AtEnd, Delivered, StreamInv, ReaderOnGrid
  <2> QED
    BY <2>1, <2>2, <2>3
<1>2. CASE reader = "chunked"
  <2>1. ~Failed /\ (AtEnd => turn = LegacyChunks)
    BY <1>2 DEF Failed, AtEnd, ChunksOpen
  <2>2. AtEnd => Delivered = size
    BY <1>2, <2>1 DEF Delivered, PiecesReturned
  <2>3. promised = size /\ size \in Nat
    <3> DEFINE o == LegacyChunks * ChunkOverhead
    <3>1. o \in Nat /\ size \in Nat
      BY <1>0, LegacyTypes
    <3>2. promised = length - o /\ length = size + o
      BY <1>0, <1>2 DEF AdvertisedSize, Undamaged, SealedLength
    <3> HIDE DEF o
    <3> QED
      BY <3>1, <3>2
  <2> QED
    BY <2>1, <2>2, <2>3
<1> QED
  BY <1>0, <1>1, <1>2

(* A file that is as it was stored is served.                              *)
LEMMA KeepsServed ==
  ASSUME StreamInv,
         TypeOK,
         LegacyOK,
         Unread,
         Picked,
         PiecesReturned,
         InHand,
         ChunksOpen,
         StoredIsServed,
         [DownloadNext]_allVars
  PROVE  StoredIsServed'
<1>1. CASE Framed
  <2>1. phase' = "none"
    BY <1>1 DEF Framed, getVars
  <2> QED
    BY <2>1 DEF StoredIsServed
<1>2. CASE LegacyCut
  <2>1. phase' = "none"
    BY <1>2 DEF LegacyCut, getVars
  <2> QED
    BY <2>1 DEF StoredIsServed
<1>3. CASE LegacySpoiled
  <2>1. phase' = "none"
    BY <1>3 DEF LegacySpoiled, getVars
  <2> QED
    BY <2>1 DEF StoredIsServed
<1>4. ASSUME NEW row \in Rows, NEW typed \in BOOLEAN, GetFile(row, typed)
      PROVE  StoredIsServed'
  <2>1. phase' \in {"testing", "sniffing"}
    BY <1>4 DEF GetFile
  <2> QED
    BY <2>1 DEF StoredIsServed
<1>5. CASE ReadFrame
  <2>1. Reads /\ phase' = phase
    BY <1>5 DEF ReadFrame, getVars
  <2> QED
    BY <2>1, ReadsBefore DEF StoredIsServed
<1>6. CASE ReadChunk
  <2>1. Reads /\ phase' = phase
    BY <1>6 DEF ReadChunk, getVars
  <2> QED
    BY <2>1, ReadsBefore DEF StoredIsServed
<1>7. CASE ChunksEnd
  <2>1. Reads /\ phase' = phase
    BY <1>7 DEF ChunksEnd, getVars
  <2> QED
    BY <2>1, ReadsBefore DEF StoredIsServed
<1>8. CASE ReadWhole
  <2>1. Reads /\ phase' = phase
    BY <1>8 DEF ReadWhole, getVars
  <2> QED
    BY <2>1, ReadsBefore DEF StoredIsServed
<1>9. CASE WholeEnds
  <2>1. Reads /\ phase' = phase
    BY <1>9 DEF WholeEnds, getVars
  <2> QED
    BY <2>1, ReadsBefore DEF StoredIsServed
<1>10. CASE HeaderRead
  <2>1. phase' = "testing"
    BY <1>10 DEF HeaderRead
  <2> QED
    BY <2>1 DEF StoredIsServed
<1>11. CASE TestRead
  <2>1. phase' = "sending"
    BY <1>11 DEF TestRead
  <2> QED
    BY <2>1 DEF StoredIsServed
<1>12. CASE EarlyReadFails
  <2> SUFFICES ASSUME Undamaged', reader' = format', format' # "whole", written' = ChunkSize
               PROVE  phase' \notin {"broken", "error"}
    BY DEF StoredIsServed
  <2>1. Failed /\ phase # "none"
    BY <1>12 DEF EarlyReadFails
  <2> QED
    BY <2>1, NothingFails, ReadAsItIs, SealedAsItWas
<1>13. CASE StreamCompletes
  <2>1. phase' = "complete"
    BY <1>13 DEF StreamCompletes
  <2> QED
    BY <2>1 DEF StoredIsServed
<1>14. CASE StreamBreaks
  <2> SUFFICES ASSUME Undamaged', reader' = format', format' # "whole", written' = ChunkSize
               PROVE  phase' \notin {"broken", "error"}
    BY DEF StoredIsServed
  <2>1. phase = "sending" /\ ~Enough /\ (Failed \/ (promised >= 0 /\ AtEnd))
    BY <1>14 DEF StreamBreaks
  <2>2. /\ Undamaged /\ reader = format /\ format # "whole" /\ written = ChunkSize
        /\ ~Failed /\ (AtEnd => Delivered >= promised)
    BY <2>1, NothingFails, ReadAsItIs, SealedAsItWas
  <2>3. AtEnd /\ front = <<>> /\ ~(taken < Delivered) /\ ~AllSent /\ promised >= 0
    BY <2>1, <2>2 DEF Enough, Ready
  <2>4. /\ promised \in Int /\ Delivered \in Int
        /\ length \in Int /\ length > 0
    <3> DEFINE o == LegacyChunks * ChunkOverhead
               c == CeilDiv(size, FrameSize) * FrameOverhead
    <3>1. size \in Nat \ {0} /\ o \in Nat /\ c \in Nat
      <4>1. CeilDiv(size, FrameSize) \in Nat /\ FrameOverhead \in Nat
        BY SizeType, CeilDivBounds, LayoutTypes
      <4>2. LegacyChunks \in Nat /\ ChunkOverhead \in Nat
        BY LegacyTypes
      <4> HIDE DEF o, c
      <4> QED
        BY <4>1, <4>2, SizeType DEF o, c
    <3>2. length \in {size + o, size + c}
      <4>1. format \in {"chunked", "framed"} /\ length = SealedLength
        BY <2>2 DEF Undamaged, LegacyOK, Formats
      <4> HIDE DEF o, c
      <4>2. format = "chunked" => SealedLength = size + o
        BY DEF SealedLength, o
      <4>3. format = "framed" => SealedLength = size + c
        <5>1. EncryptedSize(size) = size + c
          BY <3>1 DEF EncryptedSize, c
        <5> QED
          BY <5>1 DEF SealedLength
      <4> QED
        BY <4>1, <4>2, <4>3
    <3> HIDE DEF o, c
    <3> QED
      BY <3>1, <3>2, PromisedType, DeliveredWithin
  <2>5. Straight /\ taken \in Nat /\ body \in Seq(Int)
    BY <2>4 DEF InHand
  <2>6. Len(body) = taken
    BY <2>3, <2>5 DEF Straight
  <2> QED
    BY <2>2, <2>3, <2>4, <2>5, <2>6 DEF AllSent
<1>15. CASE UNCHANGED allVars
  <2>1. UNCHANGED <<damaged, format, size, length, spoiled, reader, written, phase>>
    BY <1>15, SealedAsItWas DEF allVars, legacyVars, getVars, vars, readVars
  <2> QED
    BY <2>1, SealedAsItWas DEF StoredIsServed, Undamaged
<1>16. CASE SendByte
  <2>1. phase' = "sending"
    BY <1>16 DEF SendByte
  <2> QED
    BY <2>1 DEF StoredIsServed
<1> QED BY <1>1, <1>2, <1>3, <1>4, <1>5, <1>6, <1>7, <1>8, <1>9, <1>10, <1>11,
     <1>12, <1>13, <1>14, <1>15, <1>16
     DEF DownloadNext

(* The invariant holds at the start.                                       *)
LEMMA InitDownload == DownloadInit => DownloadInv
<1> SUFFICES ASSUME DownloadInit PROVE DownloadInv
  OBVIOUS
<1> USE DEF DownloadInit
<1>1. StreamInv
  BY InitHolds
<1>2. LegacyOK
  <2>1. TypeOK /\ written \in ChunkSizes \union {ChunkSize}
    BY <1>1 DEF StreamInv
  <2>2. size \in Nat \ {0} /\ written \in Nat \ {0}
    BY <2>1, SizeType, LayoutTypes, DownloadAssumption
  <2>3. LegacyChunks \in Nat
    BY <2>2, CeilDivBounds DEF LegacyChunks
  <2>4. SealedLength \in Nat
    <3> DEFINE n == LegacyChunks  c == CeilDiv(size, FrameSize)
    <3>1. /\ n \in Nat /\ c \in Nat /\ ChunkOverhead \in Nat /\ FrameOverhead \in Nat
          /\ size \in Nat \ {0}
      BY <2>2, <2>3, LayoutTypes, DownloadAssumption, CeilDivBounds
    <3>2. /\ format = "chunked" => SealedLength = size + n * ChunkOverhead
          /\ format = "whole" => SealedLength = size + FrameOverhead
          /\ format = "framed" => SealedLength = size + c * FrameOverhead
      BY <3>1 DEF SealedLength, EncryptedSize
    <3> HIDE DEF n, c
    <3>3. n * ChunkOverhead \in Nat /\ c * FrameOverhead \in Nat
      BY <3>1
    <3> QED
      BY <3>1, <3>2, <3>3 DEF Formats
  <2>5. length \in 0..SealedLength /\ turn \in 0..LegacyChunks
    BY <2>3, <2>4
  <2>6. spoiled \subseteq 0..(LegacyChunks - 1)
    OBVIOUS
  <2> QED
    BY <2>1, <2>5, <2>6 DEF LegacyOK
<1>3. Unread /\ Picked /\ PiecesReturned /\ WholeBeforeSent
  BY DEF Unread, Picked, PiecesReturned, WholeBeforeSent
<1>4. CompleteWhenEnough /\ ChunksOpen /\ StoredIsServed
  BY DEF CompleteWhenEnough, ChunksOpen, StoredIsServed
<1>5. InHand
  BY DEF InHand, Straight, Delivered
<1> QED
  BY <1>1, <1>2, <1>3, <1>4, <1>5 DEF DownloadInv

(* Every step keeps the invariant.                                         *)
LEMMA DownloadStep == DownloadInv /\ [DownloadNext]_allVars => DownloadInv'
<1> SUFFICES ASSUME DownloadInv, [DownloadNext]_allVars PROVE DownloadInv'
  OBVIOUS
<1> USE DEF DownloadInv
<1>0. TypeOK
  BY DEF StreamInv
<1>1. StreamInv' /\ LegacyOK' /\ Unread'
  BY <1>0, StreamKept, KeepsLegacy, KeepsUnread
<1>2. Picked' /\ PiecesReturned'
  BY <1>0, KeepsPicked, KeepsPieces
<1>3. WholeBeforeSent' /\ CompleteWhenEnough' /\ InHand'
  BY <1>0, KeepsWhole, KeepsEnough, KeepsInHand
<1>4. ChunksOpen' /\ StoredIsServed'
  BY <1>0, KeepsChunksOpen, KeepsServed
<1> QED
  BY <1>1, <1>2, <1>3, <1>4

(* A download is one of the streams of StreamCrypto: what is proved of     *)
(* those holds of the framed files it serves.                              *)
THEOREM DownloadImplements == DownloadSpec => Spec
<1>1. DownloadInit => Init
  BY DEF DownloadInit
<1> QED
  BY <1>1, DownloadSteps, PTL DEF DownloadSpec, Spec

(* The invariant holds in every state of a download, whatever the format,  *)
(* the chunk size it was sealed by, and the damage.                        *)
THEOREM DownloadInvariance == DownloadSpec => []DownloadInv
BY InitDownload, DownloadStep, PTL DEF DownloadSpec

(* Readers and objects are of their types: in particular a legacy reader   *)
(* never returns more than the file.                                       *)
THEOREM DownloadTypeCorrect == DownloadSpec => []DownloadTypeOK
<1>1. ASSUME DownloadInv PROVE DownloadTypeOK
  <2>0. TypeOK
    BY <1>1 DEF DownloadInv, StreamInv
  <2>1. /\ size \in Nat \ {0} /\ LegacyChunks \in Nat /\ turn \in 0..LegacyChunks
        /\ reader \in {"none", "framed", "chunked", "whole"}
    BY <1>1, <2>0, LegacyTypes DEF DownloadInv, LegacyOK, Formats
  <2>2. turn # LegacyChunks => turn * written \in 0..size
    <3> SUFFICES ASSUME turn # LegacyChunks PROVE turn * written \in 0..size
      OBVIOUS
    <3>1. turn * written \in Nat /\ turn * written < size
      BY <1>1, <2>0, <2>1, PiecesBefore DEF DownloadInv
    <3> QED
      BY <2>1, <3>1
  <2>3. got \in 0..size
    BY <1>1, <2>1, <2>2 DEF DownloadInv, PiecesReturned
  <2>4. promised \in Int
    BY <1>1, PromisedType DEF DownloadInv
  <2>5. front \in Seq(Int) /\ body \in Seq(Int) /\ taken \in 0..size
    <3>1. Delivered \in 0..size
      BY <1>1, DeliveredWithin DEF DownloadInv
    <3> QED
      BY <1>1, <2>1, <3>1 DEF DownloadInv, InHand
  <2> QED
    BY <1>1, <2>0, <2>3, <2>4, <2>5 DEF DownloadInv, LegacyOK, DownloadTypeOK
<1> QED
  BY <1>1, DownloadInvariance, PTL

(* A file that is as it was stored, in frames or by chunks of the size     *)
(* configured now, and whose row says so is served to its end.             *)
THEOREM Served == DownloadSpec => []StoredIsServed
<1>1. DownloadInv => StoredIsServed
  BY DEF DownloadInv
<1> QED
  BY <1>1, DownloadInvariance, PTL

(* A response that was completed is the file from its first byte to its    *)
(* last, each once, in its order and its own, but for a legacy object of   *)
(* chunks that was cut and for a frame put in from another file.           *)
THEOREM CompleteIsWhole == DownloadSpec => []NothingShort
<1>1. ASSUME DownloadInv, phase = "complete", ~(format = "chunked" /\ length < SealedLength)
      PROVE  body = FirstBytes(size)
  <2>0. /\ TypeOK /\ LegacyOK /\ Picked /\ size \in Nat \ {0} /\ FrameOverhead \in Nat
        /\ reader \in {"framed", "chunked", "whole"}
        /\ promised = AdvertisedSize(reader)
        /\ length \in 0..SealedLength /\ SealedLength \in Nat
    BY <1>1, LegacyTypes, LayoutTypes, SealedLengthIs
       DEF DownloadInv, StreamInv, Unread, Picked, LegacyOK, Formats
  <2>1. /\ body \in Seq(Int) /\ front \in Seq(Int) /\ taken \in Nat
        /\ taken <= Delivered /\ Delivered \in 0..size
        /\ promised >= 0 => Len(body) <= promised
        /\ promised < 0 \/ AllSent
    BY <1>1, DeliveredWithin DEF DownloadInv, InHand, CompleteWhenEnough
  <2>2. reader \in {"framed", "chunked"} => promised = size
    <3>1. CASE reader = "framed"
      BY <2>0, <3>1 DEF AdvertisedSize
    <3>2. CASE reader = "chunked"
      <4> DEFINE o == LegacyChunks * ChunkOverhead
      <4>1. o \in Nat
        BY <2>0, LegacyTypes
      <4>2. format = "chunked" /\ promised = length - o /\ SealedLength = size + o
        BY <2>0, <3>2 DEF Picked, AdvertisedSize, SealedLength
      <4> HIDE DEF o
      <4> QED
        BY <1>1, <2>0, <4>1, <4>2
    <3> QED
      BY <3>1, <3>2
  <2>3. reader = "whole" => promised = size + FrameOverhead
    <3> SUFFICES ASSUME reader = "whole" PROVE promised = size + FrameOverhead
      OBVIOUS
    <3>1. got = size
      BY <1>1 DEF DownloadInv, WholeBeforeSent
    <3> QED
      BY <1>1, <2>0, <3>1
         DEF DownloadInv, PiecesReturned, WholeOpens, AdvertisedSize, SealedLength
  <2>4. promised \in Int /\ promised >= size
    BY <2>0, <2>2, <2>3
  <2>5. Len(body) = promised
    BY <2>0, <2>1, <2>4 DEF AllSent
  <2>6. Straight
    <3> SUFFICES ASSUME reader = "chunked", length = 0 PROVE FALSE
      BY <1>1 DEF DownloadInv, InHand
    <3> DEFINE o == LegacyChunks * ChunkOverhead
    <3>1. o \in Nat
      BY <2>0, LegacyTypes
    <3>2. promised = length - o
      BY <2>0 DEF AdvertisedSize
    <3> HIDE DEF o
    <3> QED
      BY <2>0, <2>4, <3>1, <3>2
  <2>7. Len(body) = size /\ \A i \in 1..size : body[i] = i - 1
    <3>1. Len(body) <= size
      <4>1. Len(body) \in Nat /\ Len(front) \in Nat /\ Len(body) + Len(front) = taken
        BY <2>1, <2>6 DEF Straight
      <4> QED
        BY <2>0, <2>1, <4>1
    <3> QED
      BY <2>0, <2>4, <2>5, <2>6, <3>1 DEF Straight
  <2>8. body = [i \in 1..size |-> body[i]]
    BY <2>1, <2>7
  <2> QED
    BY <2>7, <2>8 DEF FirstBytes
<1>2. DownloadInv => NothingShort
  BY <1>1 DEF NothingShort, DownloadInv, StreamInv
<1> QED
  BY <1>2, DownloadInvariance, PTL

=============================================================================
