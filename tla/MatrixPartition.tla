-------------------------- MODULE MatrixPartition --------------------------
(***************************************************************************)
(* How the client program divides its matrix, among the threads that fill  *)
(* it and into the chunks of its task, and how the server's delegate finds *)
(* the columns of a chunk again from numbers of bytes.  Columns, threads   *)
(* and chunks are counted from 0, as in the code.                          *)
(***************************************************************************)
EXTENDS Integers

CONSTANTS
  NumCols,              \* the columns of a client's matrix; 2048 in the program
  NumConcurrentThreads  \* the threads that fill it

(* hardware_concurrency() may also be 0, and the program divides by it.     *)
ASSUME MatrixAssumption == {NumCols, NumConcurrentThreads} \subseteq Nat \ {0}

NumRows == NumCols         \* Matrix(dimensions)
MatrixElementStride == 4   \* sizeof(uint32_t)
ColumnBytes == NumRows * MatrixElementStride

-----------------------------------------------------------------------------
(* WorkloadDistributor: thread t fills the columns from the first up to, and *)
(* without, the last; the last thread also gets what is left over.           *)

FirstColumnIdx(t) == (NumCols \div NumConcurrentThreads) * t

LastColumnIdx(t) ==
  (NumCols \div NumConcurrentThreads) * (t + 1)
    + IF t = NumConcurrentThreads - 1 THEN NumCols % NumConcurrentThreads ELSE 0

NothingLeftOver ==   \* mutant: nobody fills the columns that are left over
  0 .. (NumCols \div NumConcurrentThreads) * NumConcurrentThreads - 1

FilledColumns ==
  UNION {FirstColumnIdx(t) .. LastColumnIdx(t) - 1 : t \in 0 .. NumConcurrentThreads - 1}

-----------------------------------------------------------------------------
(* Communicate: chunk i of numChunks, in bytes.                             *)

BeginInBytes(numChunks, i) == (NumCols \div numChunks) * NumRows * MatrixElementStride * i

EachGetsLeftover(numChunks, i) ==   \* mutant: every chunk takes what is left over
  (NumCols \div numChunks) * NumRows * MatrixElementStride * (i + 1)
    + (NumCols % numChunks) * NumRows * MatrixElementStride

EndInBytes(numChunks, i) ==
  (NumCols \div numChunks) * NumRows * MatrixElementStride * (i + 1)
    + IF i = numChunks - 1 THEN (NumCols % numChunks) * NumRows * MatrixElementStride ELSE 0

BodyChunk(numChunks, i) ==
  [NumBytes |-> EndInBytes(numChunks, i) - BeginInBytes(numChunks, i),
   BufferOffsetInBytes |-> BeginInBytes(numChunks, i)]

-----------------------------------------------------------------------------
(* The delegate: the columns of a chunk, by the rows its task's header names.*)

ChunkNumColumns(chunk, rows) == (chunk.NumBytes \div MatrixElementStride) \div rows
TaskColumnOffset(chunk, rows) == (chunk.BufferOffsetInBytes \div MatrixElementStride) \div rows

ChunkColumns(chunk, rows) ==
  {localColIdx + TaskColumnOffset(chunk, rows) :
     localColIdx \in 0 .. ChunkNumColumns(chunk, rows) - 1}

(* The columns a chunk's bytes lie in.                                      *)
ChunkExtent(chunk) ==
  (chunk.BufferOffsetInBytes \div ColumnBytes) ..
    ((chunk.BufferOffsetInBytes + chunk.NumBytes) \div ColumnBytes) - 1
=============================================================================
