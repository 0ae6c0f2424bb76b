----------------------- MODULE MatrixPartitionProofs -----------------------
(***************************************************************************)
(* Proofs about MatrixPartition: whatever the size of the matrix and the   *)
(* number of parts, each column is in exactly one part, and the delegate   *)
(* finds the columns of a chunk again from its bytes.                      *)
(***************************************************************************)
EXTENDS MatrixPartition, TLAPS

LEMMA Remainder ==
  ASSUME NEW x \in Nat, NEW n \in Nat \ {0}
  PROVE  /\ x \div n \in Nat /\ x % n \in 0 .. n - 1
         /\ x = n * (x \div n) + (x % n)
  BY SMT

LEMMA ExactQuotient ==
  ASSUME NEW a \in Nat, NEW n \in Nat \ {0}
  PROVE  (a * n) \div n = a
  BY SMT

LEMMA Monotone ==
  ASSUME NEW q \in Nat, NEW a \in Nat, NEW b \in Nat, a <= b
  PROVE  q * a <= q * b
  BY SMT

-----------------------------------------------------------------------------
(* Both divisions of the program give part i of k the columns from q * i up  *)
(* to q * (i + 1), and what is left over to the last.                        *)

PartBegin(n, k, i) == (n \div k) * i
PartEnd(n, k, i) == (n \div k) * (i + 1) + (IF i = k - 1 THEN n % k ELSE 0)
Part(n, k, i) == PartBegin(n, k, i) .. PartEnd(n, k, i) - 1

LEMMA PartBounds ==
  ASSUME NEW n \in Nat, NEW k \in Nat \ {0}, NEW i \in 0 .. k - 1
  PROVE  /\ PartBegin(n, k, i) \in Nat /\ PartEnd(n, k, i) \in Nat
         /\ PartEnd(n, k, i) <= n
  <1>. DEFINE q == n \div k
              r == n % k
  <1>1. q \in Nat /\ r \in 0 .. k - 1 /\ n = k * q + r  BY Remainder
  <1>2. q * (i + 1) <= q * k
    <2>1. i + 1 \in Nat /\ k \in Nat /\ i + 1 <= k  OBVIOUS
    <2>. HIDE DEF q
    <2>. QED  BY <1>1, <2>1, Monotone
  <1>3. q * i \in Nat /\ q * (i + 1) \in Nat /\ q * k = k * q
    <2>. HIDE DEF q
    <2>. QED  BY <1>1
  <1>4. PartBegin(n, k, i) = q * i
        /\ PartEnd(n, k, i) = q * (i + 1) + (IF i = k - 1 THEN r ELSE 0)
    BY DEF PartBegin, PartEnd
  <1>. HIDE DEF q, r
  <1>. QED  BY <1>1, <1>2, <1>3, <1>4

LEMMA PartsDisjoint ==
  ASSUME NEW n \in Nat, NEW k \in Nat \ {0},
         NEW i \in 0 .. k - 1, NEW j \in 0 .. k - 1, i < j
  PROVE  PartEnd(n, k, i) <= PartBegin(n, k, j)
  <1>. DEFINE q == n \div k
  <1>1. q \in Nat  BY Remainder
  <1>2. q * (i + 1) <= q * j
    <2>1. i + 1 \in Nat /\ j \in Nat /\ i + 1 <= j  OBVIOUS
    <2>. HIDE DEF q
    <2>. QED  BY <1>1, <2>1, Monotone
  <1>3. PartEnd(n, k, i) = q * (i + 1) /\ PartBegin(n, k, j) = q * j
    <2>1. i # k - 1  OBVIOUS
    <2>2. q * (i + 1) \in Nat  BY <1>1
    <2>. QED  BY <2>1, <2>2 DEF PartEnd, PartBegin
  <1>. QED  BY <1>2, <1>3

LEMMA PartsCover ==
  ASSUME NEW n \in Nat, NEW k \in Nat \ {0}, NEW x \in 0 .. n - 1
  PROVE  \E i \in 0 .. k - 1 : x \in Part(n, k, i)
  <1>. DEFINE q == n \div k
              r == n % k
              last == k - 1
  <1>1. q \in Nat /\ r \in 0 .. k - 1 /\ n = k * q + r  BY Remainder
  <1>2. last \in 0 .. k - 1 /\ last + 1 = k  OBVIOUS
  <1>3. CASE q * last <= x
    <2>1. PartBegin(n, k, last) = q * last  BY DEF PartBegin
    <2>2. PartEnd(n, k, last) = q * (last + 1) + r  BY DEF PartEnd
    <2>3. q * (last + 1) = k * q
      <3>. HIDE DEF q
      <3>. QED  BY <1>1, <1>2
    <2>4. PartEnd(n, k, last) = n
      <3>. HIDE DEF q, r, last
      <3>. QED  BY <1>1, <2>2, <2>3
    <2>5. x \in Part(n, k, last)
      <3>. HIDE DEF last, q
      <3>. QED  BY <1>1, <1>2, <1>3, <2>1, <2>4 DEF Part
    <2>. QED  BY <1>2, <2>5
  <1>4. CASE x < q * last
    <2>1. q # 0
      <3>1. q = 0 => q * last = 0  BY <1>2
      <3>. QED  BY <1>4, <3>1
    <2>. DEFINE i == x \div q
                rest == x % q
    <2>2. i \in Nat /\ rest \in 0 .. q - 1 /\ x = q * i + rest
      <3>1. x \in Nat /\ q \in Nat \ {0}  BY <1>1, <2>1
      <3>. HIDE DEF q
      <3>. QED  BY <3>1, Remainder
    <2>3. i < last
      <3>. SUFFICES ASSUME last <= i PROVE FALSE  BY <1>2, <2>2
      <3>1. q * last <= q * i
        <4>. HIDE DEF i, q, last
        <4>. QED  BY <1>1, <1>2, <2>2, Monotone
      <3>2. q * last \in Nat /\ q * i \in Nat
        <4>. HIDE DEF i, q, last
        <4>. QED  BY <1>1, <1>2, <2>2
      <3>. HIDE DEF i, q, last, rest
      <3>. QED  BY <1>1, <1>4, <2>2, <3>1, <3>2
    <2>4. PartBegin(n, k, i) = q * i /\ PartEnd(n, k, i) = q * (i + 1)
      <3>1. i # k - 1  BY <2>2, <2>3
      <3>2. q * (i + 1) \in Nat
        <4>. HIDE DEF i, q
        <4>. QED  BY <1>1, <2>2
      <3>. HIDE DEF i
      <3>. QED  BY <3>1, <3>2 DEF PartBegin, PartEnd
    <2>5. q * (i + 1) = q * i + q /\ q * i \in Nat
      <3>. HIDE DEF i, q
      <3>. QED  BY <1>1, <2>2
    <2>6. i \in 0 .. k - 1 /\ x \in Part(n, k, i)
      <3>. HIDE DEF i, q, rest
      <3>. QED  BY <1>1, <1>2, <2>2, <2>3, <2>4, <2>5 DEF Part
    <2>. QED  BY <2>6
  <1>. QED
    <2>1. q * last \in Nat  BY <1>1, <1>2
    <2>. QED  BY <1>3, <1>4, <2>1

(* Every column is in one part and in no other.                             *)
LEMMA PartsPartition ==
  ASSUME NEW n \in Nat, NEW k \in Nat \ {0}
  PROVE  /\ UNION {Part(n, k, i) : i \in 0 .. k - 1} = 0 .. n - 1
         /\ \A i, j \in 0 .. k - 1 : i # j => Part(n, k, i) \cap Part(n, k, j) = {}
  <1>1. ASSUME NEW i \in 0 .. k - 1, NEW x \in Part(n, k, i)
        PROVE  x \in 0 .. n - 1
    BY PartBounds DEF Part
  <1>2. ASSUME NEW i \in 0 .. k - 1, NEW j \in 0 .. k - 1, i < j
        PROVE  Part(n, k, i) \cap Part(n, k, j) = {}
    <2>1. /\ PartEnd(n, k, i) <= PartBegin(n, k, j)
          /\ PartEnd(n, k, i) \in Nat /\ PartBegin(n, k, j) \in Nat
      BY <1>2, PartsDisjoint, PartBounds
    <2>. QED  BY <2>1 DEF Part
  <1>3. UNION {Part(n, k, i) : i \in 0 .. k - 1} = 0 .. n - 1
    BY <1>1, PartsCover
  <1>4. ASSUME NEW i \in 0 .. k - 1, NEW j \in 0 .. k - 1, i # j
        PROVE  Part(n, k, i) \cap Part(n, k, j) = {}
    <2>1. i < j \/ j < i  BY <1>4
    <2>. QED  BY <1>2, <2>1
  <1>. QED  BY <1>3, <1>4

-----------------------------------------------------------------------------
(* Matrix_FillRandomly fills every column, however many threads there are,   *)
(* as long as there is one.                                                  *)
THEOREM EveryColumnIsFilled == FilledColumns = 0 .. NumCols - 1
  <1>. NumCols \in Nat /\ NumConcurrentThreads \in Nat \ {0}  BY MatrixAssumption
  <1>1. \A t \in 0 .. NumConcurrentThreads - 1 :
          FirstColumnIdx(t) .. LastColumnIdx(t) - 1 = Part(NumCols, NumConcurrentThreads, t)
    BY DEF FirstColumnIdx, LastColumnIdx, Part, PartBegin, PartEnd
  <1>2. FilledColumns =
          UNION {Part(NumCols, NumConcurrentThreads, t) : t \in 0 .. NumConcurrentThreads - 1}
    BY <1>1, Zenon DEF FilledColumns
  <1>. QED  BY <1>2, PartsPartition

(* The bytes of chunk i of k: those of the columns of part i.                *)
LEMMA ChunkBytes ==
  ASSUME NEW k \in Nat \ {0}, NEW i \in 0 .. k - 1
  PROVE  LET q == NumCols \div k
             w == q + (IF i = k - 1 THEN NumCols % k ELSE 0)
         IN  /\ q \in Nat /\ w \in Nat /\ q * i \in Nat
             /\ BodyChunk(k, i).BufferOffsetInBytes = ((q * i) * NumRows) * 4
             /\ BodyChunk(k, i).NumBytes = (w * NumRows) * 4
             /\ BodyChunk(k, i).BufferOffsetInBytes \in Nat /\ BodyChunk(k, i).NumBytes \in Nat
  <1>. DEFINE q == NumCols \div k
              r == NumCols % k
              w == q + (IF i = k - 1 THEN r ELSE 0)
              chunk == BodyChunk(k, i)
  <1>1. NumCols \in Nat \ {0} /\ NumRows \in Nat \ {0}
    BY MatrixAssumption DEF NumRows
  <1>2. q \in Nat /\ r \in Nat /\ w \in Nat /\ q * i \in Nat
    <2>1. q \in Nat /\ r \in Nat  BY <1>1, Remainder
    <2>. HIDE DEF q, r
    <2>. QED  BY <2>1
  <1>3. chunk.BufferOffsetInBytes = ((q * i) * NumRows) * 4
    <2>1. chunk.BufferOffsetInBytes = q * NumRows * 4 * i
      BY DEF BodyChunk, BeginInBytes, MatrixElementStride
    <2>. HIDE DEF q, chunk
    <2>. QED  BY <1>1, <1>2, <2>1
  <1>4. chunk.NumBytes = (w * NumRows) * 4
    <2>1. chunk.NumBytes =
            (q * NumRows * 4 * (i + 1) + (IF i = k - 1 THEN r * NumRows * 4 ELSE 0))
              - q * NumRows * 4 * i
      <3>1. chunk.NumBytes = EndInBytes(k, i) - BeginInBytes(k, i)  BY DEF BodyChunk
      <3>2. BeginInBytes(k, i) = q * NumRows * 4 * i
        BY DEF BeginInBytes, MatrixElementStride
      <3>3. EndInBytes(k, i) =
              q * NumRows * 4 * (i + 1) + (IF i = k - 1 THEN r * NumRows * 4 ELSE 0)
        BY DEF EndInBytes, MatrixElementStride
      <3>. QED  BY <3>1, <3>2, <3>3, Zenon
    <2>2. q * NumRows * 4 * (i + 1) = q * NumRows * 4 * i + q * NumRows * 4
      <3>. HIDE DEF q
      <3>. QED  BY <1>1, <1>2
    <2>3. (w * NumRows) * 4 = q * NumRows * 4 + (IF i = k - 1 THEN r * NumRows * 4 ELSE 0)
      <3>. HIDE DEF q, r
      <3>. QED  BY <1>1, <1>2
    <2>4. /\ q * NumRows * 4 * i \in Nat /\ q * NumRows * 4 \in Nat
          /\ r * NumRows * 4 \in Nat
      <3>. HIDE DEF q, r
      <3>. QED  BY <1>1, <1>2
    <2>. HIDE DEF q, r, w, chunk
    <2>. QED  BY <2>1, <2>2, <2>3, <2>4
  <1>5. chunk.BufferOffsetInBytes \in Nat /\ chunk.NumBytes \in Nat
    <2>. HIDE DEF q, w, chunk
    <2>. QED  BY <1>1, <1>2, <1>3, <1>4
  <1>. QED  BY <1>2, <1>3, <1>4, <1>5

(* The columns of part i of k are as many as those bytes hold.               *)
LEMMA PartOfChunk ==
  ASSUME NEW k \in Nat \ {0}, NEW i \in 0 .. k - 1
  PROVE  LET q == NumCols \div k
             w == q + (IF i = k - 1 THEN NumCols % k ELSE 0)
         IN  Part(NumCols, k, i) = q * i .. (q * i + w) - 1
  <1>. DEFINE q == NumCols \div k
              r == NumCols % k
              w == q + (IF i = k - 1 THEN r ELSE 0)
  <1>1. q \in Nat /\ r \in Nat /\ q * i \in Nat
    <2>1. q \in Nat /\ r \in Nat
      BY MatrixAssumption, Remainder
    <2>. HIDE DEF q, r
    <2>. QED  BY <2>1
  <1>2. q * (i + 1) = q * i + q
    <2>. HIDE DEF q
    <2>. QED  BY <1>1
  <1>3. PartBegin(NumCols, k, i) = q * i
        /\ PartEnd(NumCols, k, i) = q * (i + 1) + (IF i = k - 1 THEN r ELSE 0)
    BY DEF PartBegin, PartEnd
  <1>4. PartEnd(NumCols, k, i) = q * i + w
    <2>. HIDE DEF q, r
    <2>. QED  BY <1>1, <1>2, <1>3
  <1>. QED  BY <1>3, <1>4 DEF Part

(* From the bytes of a chunk and the rows of the header the delegate computes*)
(* the columns the client has put into the chunk, without a remainder.       *)
LEMMA DelegateColumns ==
  ASSUME NEW k \in Nat \ {0}, NEW i \in 0 .. k - 1
  PROVE  ChunkColumns(BodyChunk(k, i), NumRows) = Part(NumCols, k, i)
  <1>. DEFINE q == NumCols \div k
              r == NumCols % k
              w == q + (IF i = k - 1 THEN r ELSE 0)
              chunk == BodyChunk(k, i)
  <1>1. NumCols \in Nat \ {0} /\ NumRows \in Nat \ {0}
    BY MatrixAssumption DEF NumRows
  <1>2. /\ q \in Nat /\ w \in Nat /\ q * i \in Nat
        /\ chunk.BufferOffsetInBytes = ((q * i) * NumRows) * 4
        /\ chunk.NumBytes = (w * NumRows) * 4
    BY ChunkBytes
  <1>3. r \in Nat
    BY <1>1, Remainder
  <1>5. TaskColumnOffset(chunk, NumRows) = q * i
    <2>1. (q * i) * NumRows \in Nat  BY <1>1, <1>2
    <2>2. chunk.BufferOffsetInBytes \div 4 = (q * i) * NumRows
      <3>. HIDE DEF q, chunk
      <3>. QED  BY <1>2, <2>1, ExactQuotient
    <2>3. ((q * i) * NumRows) \div NumRows = q * i
      <3>. HIDE DEF q
      <3>. QED  BY <1>1, <1>2, ExactQuotient
    <2>. HIDE DEF chunk
    <2>. QED  BY <2>2, <2>3 DEF TaskColumnOffset, MatrixElementStride
  <1>6. ChunkNumColumns(chunk, NumRows) = w
    <2>1. w * NumRows \in Nat  BY <1>1, <1>2
    <2>2. chunk.NumBytes \div 4 = w * NumRows
      <3>. HIDE DEF w, chunk
      <3>. QED  BY <1>2, <2>1, ExactQuotient
    <2>3. (w * NumRows) \div NumRows = w
      <3>. HIDE DEF w
      <3>. QED  BY <1>1, <1>2, ExactQuotient
    <2>. HIDE DEF chunk
    <2>. QED  BY <2>2, <2>3 DEF ChunkNumColumns, MatrixElementStride
  <1>7. Part(NumCols, k, i) = q * i .. (q * i + w) - 1
    BY PartOfChunk
  <1>8. \A a, b \in Nat : {l + a : l \in 0 .. b - 1} = a .. (a + b) - 1
    <2>. SUFFICES ASSUME NEW a \in Nat, NEW b \in Nat, NEW x
         PROVE  x \in {l + a : l \in 0 .. b - 1} <=> x \in a .. (a + b) - 1
      BY Zenon
    <2>1. ASSUME x \in a .. (a + b) - 1 PROVE x \in {l + a : l \in 0 .. b - 1}
      <3>1. x - a \in 0 .. b - 1 /\ (x - a) + a = x  BY <2>1
      <3>. QED  BY <3>1
    <2>2. ASSUME NEW l \in 0 .. b - 1 PROVE l + a \in a .. (a + b) - 1
      OBVIOUS
    <2>. QED  BY <2>1, <2>2
  <1>9. ChunkColumns(chunk, NumRows) = q * i .. (q * i + w) - 1
    <2>. HIDE DEF q, w, chunk
    <2>. QED  BY <1>2, <1>5, <1>6, <1>8 DEF ChunkColumns
  <1>. QED  BY <1>7, <1>9

(* The result is copied chunk by chunk: the bytes of a chunk are those of its*)
(* columns.                                                                  *)
LEMMA ExtentColumns ==
  ASSUME NEW k \in Nat \ {0}, NEW i \in 0 .. k - 1
  PROVE  ChunkExtent(BodyChunk(k, i)) = Part(NumCols, k, i)
  <1>. DEFINE q == NumCols \div k
              w == q + (IF i = k - 1 THEN NumCols % k ELSE 0)
              chunk == BodyChunk(k, i)
  <1>1. ColumnBytes \in Nat \ {0} /\ NumRows \in Nat /\ ColumnBytes = NumRows * 4
    BY MatrixAssumption DEF NumRows, ColumnBytes, MatrixElementStride
  <1>2. /\ q \in Nat /\ w \in Nat /\ q * i \in Nat
        /\ chunk.BufferOffsetInBytes = ((q * i) * NumRows) * 4
        /\ chunk.NumBytes = (w * NumRows) * 4
    BY ChunkBytes
  <1>3. Part(NumCols, k, i) = q * i .. (q * i + w) - 1
    BY PartOfChunk
  <1>4. chunk.BufferOffsetInBytes = (q * i) * ColumnBytes /\ chunk.NumBytes = w * ColumnBytes
    <2>1. \A x, y \in Nat : (x * y) * 4 = x * (y * 4)
      OBVIOUS
    <2>. HIDE DEF q, w, chunk
    <2>. QED  BY <1>1, <1>2, <2>1
  <1>5. chunk.BufferOffsetInBytes + chunk.NumBytes = (q * i + w) * ColumnBytes
    <2>1. \A x, y, z \in Nat : x * z + y * z = (x + y) * z
      OBVIOUS
    <2>. HIDE DEF q, w, chunk
    <2>. QED  BY <1>1, <1>2, <1>4, <2>1
  <1>6. /\ chunk.BufferOffsetInBytes \div ColumnBytes = q * i
        /\ (chunk.BufferOffsetInBytes + chunk.NumBytes) \div ColumnBytes = q * i + w
    <2>1. q * i + w \in Nat
      <3>. HIDE DEF q, w
      <3>. QED  BY <1>2
    <2>. HIDE DEF q, w, chunk
    <2>. QED  BY <1>1, <1>2, <1>4, <1>5, <2>1, ExactQuotient
  <1>. HIDE DEF q, w, chunk
  <1>. QED  BY <1>3, <1>6 DEF ChunkExtent, chunk

(* The delegates of a task's chunks work on columns of their own, and       *)
(* together on all of them.                                                  *)
THEOREM ChunksPartitionColumns ==
  ASSUME NEW k \in Nat \ {0}
  PROVE  /\ UNION {ChunkColumns(BodyChunk(k, i), NumRows) : i \in 0 .. k - 1}
              = 0 .. NumCols - 1
         /\ \A i, j \in 0 .. k - 1 : i # j =>
              ChunkColumns(BodyChunk(k, i), NumRows)
                \cap ChunkColumns(BodyChunk(k, j), NumRows) = {}
  <1>. NumCols \in Nat  BY MatrixAssumption
  <1>1. \A i \in 0 .. k - 1 :
          ChunkColumns(BodyChunk(k, i), NumRows) = Part(NumCols, k, i)
    BY DelegateColumns
  <1>2. UNION {ChunkColumns(BodyChunk(k, i), NumRows) : i \in 0 .. k - 1}
          = UNION {Part(NumCols, k, i) : i \in 0 .. k - 1}
    BY <1>1, Zenon
  <1>. QED  BY <1>1, <1>2, PartsPartition
=============================================================================
