---------------------------- MODULE StreamProofs ----------------------------
(***************************************************************************)
(* What the reader of a client's stream finds, for every number of clients,*)
(* workers, chunks and columns, when requests arrive in one piece: the      *)
(* bytes of the request it is at.  From where it is in the stream follows   *)
(* what the server makes of a task.                                        *)
(***************************************************************************)
EXTENDS TaskProofs

(* No field of a request is cut, and every partition is one the server takes.*)
WholeRequests == RequestCuts = "messages" /\ Partitions \subseteq 1 .. MaxChunks

(* The units of a submission before its body, and with it.                   *)
HeadLen(n) == 7 + 2 * n
TaskLen(n) == HeadLen(n) + NumCols

(* What a client may have sent after its submission that nobody has read.    *)
Questions == {<<>>, Unit("TaskStatus", 0), Unit("TaskResult", 0)}
Sent(n, next) == Submission(n) \o next

(* The server has read r units of what c has sent, sock has the next ones and*)
(* flight those after them.                                                 *)
Arrived(c, n, next, r) ==
  LET a == r + Len(sock[c])
  IN  /\ a <= Len(Sent(n, next)) /\ (a = 0 \/ a >= HeadLen(n))
      /\ \A k \in 1 .. Len(sock[c]) : sock[c][k] = Sent(n, next)[r + k]
      /\ c \in gone => flight[c] = <<>>
      /\ c \notin gone => /\ Len(flight[c]) = Len(Sent(n, next)) - a
                          /\ \A k \in 1 .. Len(flight[c]) : flight[c][k] = Sent(n, next)[a + k]

(* The server's task is the client's, as far as it has been read.            *)
ChunkAsSent(chunk, n, i) ==
  /\ chunk.State \in {"InProgress", "Done"}
  /\ chunk.NumBytes = BodyChunk(n, i - 1).NumBytes
  /\ chunk.BufferOffsetInBytes = BodyChunk(n, i - 1).BufferOffsetInBytes
PartOfTask(c, n) ==
  /\ HasTaskContext(c) /\ m_contextMap[c].Header = NumRows
  /\ Len(ExecutionChunks(c)) <= n
  /\ \A i \in 1 .. Len(ExecutionChunks(c)) : ChunkAsSent(ExecutionChunks(c)[i], n, i)
AllChunks(c, n) == PartOfTask(c, n) /\ Len(ExecutionChunks(c)) = n
WholeTask(c, n) == AllChunks(c, n) /\ Len(m_contextMap[c].Body) = NumCols

(* How much of the stream the handler of c has read, by where it is.         *)
Reading(w, c, n, r) ==
  \/ wpc[w] = "header" /\ r = 1
  \/ wpc[w] = "count" /\ r = 3 /\ loc[w].header = NumRows
  \/ /\ wpc[w] = "chunks" /\ r = 5 + 2 * Len(ExecutionChunks(c))
     /\ PartOfTask(c, n) /\ Len(m_contextMap[c].Body) = 0 /\ loc[w].num = n
  \/ /\ wpc[w] = "size" /\ r = 5 + 2 * n
     /\ AllChunks(c, n) /\ Len(m_contextMap[c].Body) = 0
  \/ /\ wpc[w] = "body" /\ r = HeadLen(n) + Len(m_contextMap[c].Body)
     /\ AllChunks(c, n) /\ Len(m_contextMap[c].Body) <= NumCols /\ loc[w].num = NumCols
  \/ /\ wpc[w] \in {"submit", "scan", "result", "copy", "write"} /\ r = TaskLen(n)
     /\ WholeTask(c, n)
     /\ wpc[w] = "copy" => loc[w].i <= n

Progress(c, n, r) ==
  \/ CommunicatorFree(c) /\ ~HasTaskContext(c) /\ r = 0
  \/ CommunicatorFree(c) /\ WholeTask(c, n) /\ r = TaskLen(n)
  \/ \E w \in Workers : Holds(w, c) /\ Reading(w, c, n, r)

(* A question is in the stream, with a handler, or answered.                 *)
At(c, points) == \E w \in Workers : Holds(w, c) /\ wpc[w] \in points
Answerers == {"scan", "result", "copy", "write"}
Talk(c, next) ==
  CASE cpc[c] = "ask" -> next = <<>> /\ reply[c] = <<>> /\ ~At(c, Answerers)
    [] cpc[c] = "status" ->
         \/ next = Unit("TaskStatus", 0) /\ reply[c] = <<>> /\ ~At(c, Answerers)
         \/ next = <<>> /\ reply[c] = <<>> /\ At(c, {"scan"})
         \/ /\ next = <<>> /\ ~At(c, Answerers)
            /\ \E s \in {"InProgress", "Finished"} : reply[c] = Unit(s, 0)
    [] cpc[c] = "size" ->
         \/ next = Unit("TaskResult", 0) /\ reply[c] = <<>> /\ ~At(c, Answerers)
         \/ next = <<>> /\ reply[c] = <<>> /\ At(c, {"result"})
         \/ /\ next = <<>> /\ reply[c] # <<>> /\ Head(reply[c]).kind = "size"
            /\ ~At(c, {"scan", "result"})
    [] OTHER -> next = <<>> /\ ~At(c, {"scan", "result"})

Stream(c, n) ==
  \E next \in Questions, r \in Nat :
    Arrived(c, n, next, r) /\ Progress(c, n, r) /\ Talk(c, next)

(* A client that has not submitted anything yet.                             *)
Silent(c) ==
  /\ sock[c] = <<>> /\ flight[c] = <<>> /\ reply[c] = <<>>
  /\ CommunicatorFree(c) /\ ~HasTaskContext(c)

ClientStream(c) ==
  IF cpc[c] \in {"start", "failed", "submit"} THEN Silent(c) ELSE \E n \in Partitions : Stream(c, n)
StreamInv == \A c \in Clients : ClientStream(c)

-----------------------------------------------------------------------------
(* What is where in a submission, and in what follows it.                    *)

LEMMA Sizes ==
  ASSUME NEW n \in Nat
  PROVE  /\ NumCols \in Nat \ {0} /\ NumRows \in Nat \ {0}
         /\ HeadLen(n) \in Nat /\ TaskLen(n) \in Nat /\ HeadLen(n) >= 7
         /\ HeadLen(n) = 7 + 2 * n /\ TaskLen(n) = HeadLen(n) + NumCols
  BY MatrixAssumption DEF NumRows, HeadLen, TaskLen

(* The threads that fill the matrix leave no column out.                     *)
LEMMA BodyType ==
  /\ Body \in Seq(DataUnits) /\ Len(Body) = NumCols /\ DOMAIN Body = 1 .. NumCols
  /\ \A k \in 1 .. NumCols : Body[k] = [kind |-> "raw", half |-> 1, val |-> k]
  <1>1. NumCols \in Nat
    BY MatrixAssumption
  <1>2. \A k \in 1 .. NumCols : k - 1 \in FilledColumns
    BY <1>1, EveryColumnIsFilled
  <1>3. \A k \in 1 .. NumCols : Body[k] = [kind |-> "raw", half |-> 1, val |-> k]
    BY <1>2 DEF Body
  <1>4. \A k \in 1 .. NumCols : Body[k] \in DataUnits
    <2>1. \A k \in Nat : [kind |-> "raw", half |-> 1, val |-> k] \in DataUnits
      BY KindsHas DEF DataUnits
    <2>2. 1 .. NumCols \subseteq Nat
      BY <1>1
    <2>. QED  BY <1>3, <2>1, <2>2, Zenon
  <1>5. Body = [k \in 1 .. NumCols |-> Body[k]]
    BY DEF Body
  <1>. HIDE DEF Body
  <1>6. Body \in [1 .. NumCols -> DataUnits] /\ DOMAIN Body = 1 .. NumCols
    BY <1>4, <1>5
  <1>7. Body \in Seq(DataUnits)
    BY <1>1, <1>6, SeqDef
  <1>. QED  BY <1>1, <1>3, <1>6, <1>7, LenProperties

LEMMA FieldsAt ==
  ASSUME NEW n \in Nat \ {0}
  PROVE  /\ ChunkFields(n) \in Seq(DataUnits) /\ Len(ChunkFields(n)) = 2 * n
         /\ \A i \in 0 .. n - 1 :
              /\ ChunkFields(n)[2 * i + 1] =
                   [kind |-> "chunk", half |-> 1, val |-> BodyChunk(n, i).NumBytes]
              /\ ChunkFields(n)[2 * i + 2] =
                   [kind |-> "chunk", half |-> 2, val |-> BodyChunk(n, i).BufferOffsetInBytes]
         /\ \A k \in 1 .. 2 * n : ChunkFields(n)[k].kind = "chunk"
  <1>. DEFINE pair(i) == Struct("chunk", BodyChunk(n, i).NumBytes, BodyChunk(n, i).BufferOffsetInBytes)
  <1>1. \A i \in 0 .. n - 1 :
          /\ pair(i)[1] = [kind |-> "chunk", half |-> 1, val |-> BodyChunk(n, i).NumBytes]
          /\ pair(i)[2] = [kind |-> "chunk", half |-> 2, val |-> BodyChunk(n, i).BufferOffsetInBytes]
    BY DEF Struct, Unit
  <1>2. \A k \in 1 .. 2 * n : ChunkFields(n)[k] = pair((k - 1) \div 2)[((k - 1) % 2) + 1]
    BY DEF ChunkFields
  <1>3. \A i \in 0 .. n - 1 :
          /\ 2 * i + 1 \in 1 .. 2 * n /\ 2 * i + 2 \in 1 .. 2 * n
          /\ (2 * i + 1 - 1) \div 2 = i /\ ((2 * i + 1 - 1) % 2) + 1 = 1
          /\ (2 * i + 2 - 1) \div 2 = i /\ ((2 * i + 2 - 1) % 2) + 1 = 2
    OBVIOUS
  <1>4. \A k \in 1 .. 2 * n : (k - 1) \div 2 \in 0 .. n - 1 /\ ((k - 1) % 2) + 1 \in {1, 2}
    OBVIOUS
  <1>. HIDE DEF pair
  <1>5. ASSUME NEW i \in 0 .. n - 1
        PROVE  /\ ChunkFields(n)[2 * i + 1] =
                    [kind |-> "chunk", half |-> 1, val |-> BodyChunk(n, i).NumBytes]
               /\ ChunkFields(n)[2 * i + 2] =
                    [kind |-> "chunk", half |-> 2, val |-> BodyChunk(n, i).BufferOffsetInBytes]
    <2>1. ChunkFields(n)[2 * i + 1] = pair((2 * i + 1 - 1) \div 2)[((2 * i + 1 - 1) % 2) + 1]
      BY <1>2, <1>3
    <2>2. ChunkFields(n)[2 * i + 2] = pair((2 * i + 2 - 1) \div 2)[((2 * i + 2 - 1) % 2) + 1]
      BY <1>2, <1>3
    <2>3. /\ pair(i)[1] = [kind |-> "chunk", half |-> 1, val |-> BodyChunk(n, i).NumBytes]
          /\ pair(i)[2] = [kind |-> "chunk", half |-> 2, val |-> BodyChunk(n, i).BufferOffsetInBytes]
      BY <1>1
    <2>4. /\ (2 * i + 1 - 1) \div 2 = i /\ ((2 * i + 1 - 1) % 2) + 1 = 1
          /\ (2 * i + 2 - 1) \div 2 = i /\ ((2 * i + 2 - 1) % 2) + 1 = 2
      BY <1>3
    <2>. QED  BY <2>1, <2>2, <2>3, <2>4, Zenon
  <1>6. ASSUME NEW k \in 1 .. 2 * n PROVE ChunkFields(n)[k].kind = "chunk"
    <2>1. ChunkFields(n)[k] = pair((k - 1) \div 2)[((k - 1) % 2) + 1]
      BY <1>2
    <2>. DEFINE i == (k - 1) \div 2
    <2>2. pair(i)[1].kind = "chunk" /\ pair(i)[2].kind = "chunk"
      <3>1. i \in 0 .. n - 1
        BY <1>4
      <3>2. \A u, v : /\ [kind |-> "chunk", half |-> 1, val |-> u].kind = "chunk"
                     /\ [kind |-> "chunk", half |-> 2, val |-> v].kind = "chunk"
        OBVIOUS
      <3>. HIDE DEF i
      <3>. QED  BY <1>1, <3>1, <3>2, Zenon
    <2>3. CASE ((k - 1) % 2) + 1 = 1
      BY <2>1, <2>2, <2>3, Zenon
    <2>4. CASE ((k - 1) % 2) + 1 = 2
      BY <2>1, <2>2, <2>4, Zenon
    <2>5. ((k - 1) % 2) + 1 \in {1, 2}
      BY <1>4
    <2>. QED  BY <2>3, <2>4, <2>5, Zenon
  <1>7. \A k \in 1 .. 2 * n : ChunkFields(n)[k] \in DataUnits
    <2>1. \A i \in 0 .. n - 1 : BodyChunk(n, i).NumBytes \in Nat /\ BodyChunk(n, i).BufferOffsetInBytes \in Nat
      BY ChunkBytes
    <2>2. ASSUME NEW i \in 0 .. n - 1 PROVE pair(i)[1] \in DataUnits /\ pair(i)[2] \in DataUnits
      <3>1. BodyChunk(n, i).NumBytes \in Nat /\ BodyChunk(n, i).BufferOffsetInBytes \in Nat
        BY <2>1
      <3>2. \A half \in {1, 2}, val \in Nat : [kind |-> "chunk", half |-> half, val |-> val] \in DataUnits
        BY KindsHas DEF DataUnits
      <3>3. /\ pair(i)[1] = [kind |-> "chunk", half |-> 1, val |-> BodyChunk(n, i).NumBytes]
            /\ pair(i)[2] = [kind |-> "chunk", half |-> 2, val |-> BodyChunk(n, i).BufferOffsetInBytes]
        BY <1>1
      <3>. QED  BY <3>1, <3>2, <3>3
    <2>. SUFFICES ASSUME NEW k \in 1 .. 2 * n PROVE ChunkFields(n)[k] \in DataUnits
      OBVIOUS
    <2>3. ChunkFields(n)[k] = pair((k - 1) \div 2)[((k - 1) % 2) + 1]
      BY <1>2
    <2>4. pair((k - 1) \div 2)[1] \in DataUnits /\ pair((k - 1) \div 2)[2] \in DataUnits
      BY <1>4, <2>2, Zenon
    <2>5. CASE ((k - 1) % 2) + 1 = 1
      BY <2>3, <2>4, <2>5, Zenon
    <2>6. CASE ((k - 1) % 2) + 1 = 2
      BY <2>3, <2>4, <2>6, Zenon
    <2>. QED  BY <1>4, <2>5, <2>6
  <1>8. ChunkFields(n) = [k \in 1 .. 2 * n |-> ChunkFields(n)[k]]
    BY DEF ChunkFields
  <1>9. ChunkFields(n) \in [1 .. 2 * n -> DataUnits] /\ 2 * n \in Nat
    <2>. HIDE DEF ChunkFields
    <2>. QED  BY <1>7, <1>8
  <1>10. ChunkFields(n) \in Seq(DataUnits) /\ DOMAIN ChunkFields(n) = 1 .. 2 * n
    <2>. HIDE DEF ChunkFields
    <2>. QED  BY <1>9, SeqDef
  <1>. QED  BY <1>5, <1>6, <1>9, <1>10, LenProperties

(* The fields of a message that must not be cut are its head, but for the    *)
(* first unit.                                                              *)
Joined(u) == u.half = 2 \/ u.kind \in {"header", "count", "chunk", "size"}

LEMMA Joining ==
  ASSUME NEW T, NEW s \in Seq(T), NEW u \in Seq(T)
  PROVE  /\ s \o u \in Seq(T) /\ Len(s) \in Nat /\ Len(u) \in Nat /\ Len(s \o u) = Len(s) + Len(u)
         /\ \A k \in 1 .. Len(s) : (s \o u)[k] = s[k]
         /\ \A k \in 1 .. Len(u) : (s \o u)[Len(s) + k] = u[k]
  <1>1. Len(s) \in Nat /\ Len(u) \in Nat
    BY LenProperties
  <1>2. /\ s \o u \in Seq(T) /\ Len(s \o u) = Len(s) + Len(u)
        /\ \A i \in 1 .. Len(s) + Len(u) : (s \o u)[i] = IF i <= Len(s) THEN s[i] ELSE u[i - Len(s)]
    BY ConcatProperties, Zenon
  <1>. DEFINE both == s \o u
              a == Len(s)
              b == Len(u)
  <1>. HIDE DEF both, a, b
  <1>3. \A i \in 1 .. a + b : both[i] = IF i <= a THEN s[i] ELSE u[i - a]
    BY <1>2 DEF both, a, b
  <1>4. a \in Nat /\ b \in Nat
    BY <1>1 DEF a, b
  <1>5. (\A k \in 1 .. a : both[k] = s[k]) /\ \A k \in 1 .. b : both[a + k] = u[k]
    BY <1>3, <1>4
  <1>. QED  BY <1>1, <1>2, <1>5 DEF both, a, b

LEMMA JoiningData ==
  \A s, u \in Seq(DataUnits) :
    /\ s \o u \in Seq(DataUnits) /\ Len(s \o u) = Len(s) + Len(u)
    /\ \A k \in 1 .. Len(s) : (s \o u)[k] = s[k]
    /\ \A k \in 1 .. Len(u) : (s \o u)[Len(s) + k] = u[k]
  <1>. TAKE s, u \in Seq(DataUnits)
  <1>. QED  BY Joining

LEMMA TakingData ==
  \A s \in Seq(DataUnits), m \in Nat :
    m <= Len(s) =>
      /\ Without(s, m) \in Seq(DataUnits) /\ Len(Without(s, m)) = Len(s) - m
      /\ \A k \in 1 .. Len(s) - m : Without(s, m)[k] = s[m + k]
      /\ First(s, m) \in Seq(DataUnits) /\ Len(First(s, m)) = m
      /\ \A k \in 1 .. m : First(s, m)[k] = s[k]
  <1>. TAKE s \in Seq(DataUnits), m \in Nat
  <1>. HAVE m <= Len(s)
  <1>1. Len(s) \in Nat
    BY LenProperties
  <1>2. /\ Without(s, m) \in Seq(DataUnits)
        /\ Len(Without(s, m)) = IF m < Len(s) THEN Len(s) - m ELSE 0
        /\ \A k \in 1 .. Len(s) - m : Without(s, m)[k] = s[m + k]
    BY WithoutType
  <1>3. /\ First(s, m) \in Seq(DataUnits)
        /\ Len(First(s, m)) = IF m > 0 THEN m ELSE 0
        /\ \A k \in 1 .. m : First(s, m)[k] = s[k]
    BY FirstType
  <1>4. Len(Without(s, m)) = Len(s) - m /\ Len(First(s, m)) = m
    BY <1>1, <1>2, <1>3
  <1>. QED  BY <1>2, <1>3, <1>4

LEMMA SubmissionAt ==
  ASSUME NEW n \in Nat \ {0}
  PROVE  /\ Submission(n) \in Seq(DataUnits) /\ Len(Submission(n)) = TaskLen(n)
         /\ Submission(n)[1].kind = "TaskSubmition"
         /\ Submission(n)[2].kind = "header" /\ Submission(n)[2].half = 1
         /\ Submission(n)[2].val = NumCols /\ Submission(n)[3].val = NumRows
         /\ Submission(n)[4].kind = "count" /\ Submission(n)[4].half = 1 /\ Submission(n)[4].val = n
         /\ \A i \in 0 .. n - 1 :
              /\ Submission(n)[5 + 2 * i + 1].kind = "chunk" /\ Submission(n)[5 + 2 * i + 1].half = 1
              /\ Submission(n)[5 + 2 * i + 1].val = BodyChunk(n, i).NumBytes
              /\ Submission(n)[5 + 2 * i + 2].val = BodyChunk(n, i).BufferOffsetInBytes
         /\ Submission(n)[5 + 2 * n + 1].kind = "size" /\ Submission(n)[5 + 2 * n + 1].half = 1
         /\ Submission(n)[5 + 2 * n + 1].val = NumCols
         /\ \A k \in 1 .. NumCols : Submission(n)[HeadLen(n) + k] = Body[k]
         /\ \A k \in 2 .. HeadLen(n) : Joined(Submission(n)[k])
         /\ \A k \in 1 .. TaskLen(n) : Submission(n)[k].kind \notin {"TaskStatus", "TaskResult"}
  <1>. DEFINE U == Unit("TaskSubmition", 0)
              H == Struct("header", NumCols, NumRows)
              C == Field("count", n)
              F == ChunkFields(n)
              Z == Field("size", NumCols)
              B == Body
              S2 == U \o H
              S3 == S2 \o C
              S4 == S3 \o F
              S5 == S4 \o Z
              S == S5 \o B
  <1>0. NumCols \in Nat \ {0} /\ NumRows \in Nat
    BY Sizes
  <1>1. /\ U \in Seq(DataUnits) /\ H \in Seq(DataUnits) /\ C \in Seq(DataUnits) /\ Z \in Seq(DataUnits)
        /\ Len(U) = 1 /\ Len(H) = 2 /\ Len(C) = 2 /\ Len(Z) = 2
    BY <1>0, UnitType, StructType, KindsHas DEF Field, ERequestType
  <1>2. /\ U[1].kind = "TaskSubmition"
        /\ H[1] = [kind |-> "header", half |-> 1, val |-> NumCols]
        /\ H[2] = [kind |-> "header", half |-> 2, val |-> NumRows]
        /\ C[1] = [kind |-> "count", half |-> 1, val |-> n]
        /\ C[2] = [kind |-> "count", half |-> 2, val |-> n]
        /\ Z[1] = [kind |-> "size", half |-> 1, val |-> NumCols]
        /\ Z[2] = [kind |-> "size", half |-> 2, val |-> NumCols]
    BY DEF Field, Struct, Unit
  <1>3. F \in Seq(DataUnits) /\ Len(F) = 2 * n
    BY FieldsAt
  <1>4. B \in Seq(DataUnits) /\ Len(B) = NumCols
    BY BodyType
  <1>5. Submission(n) = S
    BY DEF Submission
  <1>. HIDE DEF U, H, C, F, Z, B
  <1>6. /\ S2 \in Seq(DataUnits) /\ Len(S2) = 3
        /\ S2[1] = U[1] /\ S2[2] = H[1] /\ S2[3] = H[2]
    BY <1>1, ConcatProperties
  <1>. HIDE DEF S2
  <1>7. /\ S3 \in Seq(DataUnits) /\ Len(S3) = 5
        /\ S3[1] = U[1] /\ S3[2] = H[1] /\ S3[3] = H[2] /\ S3[4] = C[1] /\ S3[5] = C[2]
    <2>1. /\ S3 \in Seq(DataUnits) /\ Len(S3) = Len(S2) + Len(C)
          /\ \A k \in 1 .. Len(S2) : S3[k] = S2[k]
          /\ \A k \in 1 .. Len(C) : S3[Len(S2) + k] = C[k]
      BY <1>1, <1>6, JoiningData, Zenon
    <2>. HIDE DEF S3
    <2>. QED  BY <1>1, <1>6, <2>1
  <1>. HIDE DEF S3
  <1>8. /\ S4 \in Seq(DataUnits) /\ Len(S4) = 5 + 2 * n
        /\ \A k \in 1 .. 5 : S4[k] = S3[k]
        /\ \A k \in 1 .. 2 * n : S4[5 + k] = F[k]
    <2>1. /\ S4 \in Seq(DataUnits) /\ Len(S4) = Len(S3) + Len(F)
          /\ \A k \in 1 .. Len(S3) : S4[k] = S3[k]
          /\ \A k \in 1 .. Len(F) : S4[Len(S3) + k] = F[k]
      BY <1>3, <1>7, JoiningData, Zenon
    <2>. HIDE DEF S4
    <2>. QED  BY <1>3, <1>7, <2>1
  <1>. HIDE DEF S4
  <1>9. /\ S5 \in Seq(DataUnits) /\ Len(S5) = 7 + 2 * n
        /\ \A k \in 1 .. 5 + 2 * n : S5[k] = S4[k]
        /\ S5[5 + 2 * n + 1] = Z[1] /\ S5[5 + 2 * n + 2] = Z[2]
    <2>1. /\ S5 \in Seq(DataUnits) /\ Len(S5) = Len(S4) + Len(Z)
          /\ \A k \in 1 .. Len(S4) : S5[k] = S4[k]
          /\ \A k \in 1 .. Len(Z) : S5[Len(S4) + k] = Z[k]
      BY <1>1, <1>8, JoiningData, Zenon
    <2>. HIDE DEF S5
    <2>. QED  BY <1>1, <1>8, <2>1
  <1>. HIDE DEF S5
  <1>10. /\ S \in Seq(DataUnits) /\ Len(S) = TaskLen(n)
         /\ \A k \in 1 .. HeadLen(n) : S[k] = S5[k]
         /\ \A k \in 1 .. NumCols : S[HeadLen(n) + k] = B[k]
    <2>1. HeadLen(n) = 7 + 2 * n /\ TaskLen(n) = HeadLen(n) + NumCols /\ HeadLen(n) \in Nat
      BY Sizes
    <2>2. /\ S \in Seq(DataUnits) /\ Len(S) = Len(S5) + Len(B)
          /\ \A k \in 1 .. Len(S5) : S[k] = S5[k]
          /\ \A k \in 1 .. Len(B) : S[Len(S5) + k] = B[k]
      BY <1>4, <1>9, JoiningData, Zenon
    <2>. HIDE DEF S
    <2>. QED  BY <1>4, <1>9, <2>1, <2>2
  <1>. HIDE DEF S
  <1>11. HeadLen(n) = 7 + 2 * n /\ TaskLen(n) = HeadLen(n) + NumCols
    BY Sizes
  <1>12. /\ S[1] = U[1] /\ S[2] = H[1] /\ S[3] = H[2] /\ S[4] = C[1] /\ S[5] = C[2]
         /\ \A k \in 1 .. 2 * n : S[5 + k] = F[k]
         /\ S[5 + 2 * n + 1] = Z[1] /\ S[5 + 2 * n + 2] = Z[2]
    <2>1. \A k \in 1 .. 5 : k \in 1 .. HeadLen(n) /\ k \in 1 .. 5 + 2 * n
      BY <1>11
    <2>2. \A k \in 1 .. 2 * n : 5 + k \in 1 .. HeadLen(n) /\ 5 + k \in 1 .. 5 + 2 * n
      BY <1>11
    <2>3. 5 + 2 * n + 1 \in 1 .. HeadLen(n) /\ 5 + 2 * n + 2 \in 1 .. HeadLen(n)
      BY <1>11
    <2>4. \A k \in 1 .. 5 : S[k] = S3[k]
      BY <1>8, <1>9, <1>10, <2>1
    <2>5. \A k \in 1 .. 2 * n : S[5 + k] = F[k]
      BY <1>8, <1>9, <1>10, <2>2
    <2>. QED  BY <1>7, <1>9, <1>10, <2>3, <2>4, <2>5
  <1>13. /\ \A i \in 0 .. n - 1 :
              /\ S[5 + 2 * i + 1].kind = "chunk" /\ S[5 + 2 * i + 1].half = 1
              /\ S[5 + 2 * i + 1].val = BodyChunk(n, i).NumBytes
              /\ S[5 + 2 * i + 2].val = BodyChunk(n, i).BufferOffsetInBytes
         /\ \A k \in 1 .. 2 * n : S[5 + k].kind = "chunk"
    <2>1. ASSUME NEW i \in 0 .. n - 1
          PROVE  /\ S[5 + 2 * i + 1].kind = "chunk" /\ S[5 + 2 * i + 1].half = 1
                 /\ S[5 + 2 * i + 1].val = BodyChunk(n, i).NumBytes
                 /\ S[5 + 2 * i + 2].val = BodyChunk(n, i).BufferOffsetInBytes
      <3>1. /\ 2 * i + 1 \in 1 .. 2 * n /\ 5 + (2 * i + 1) = 5 + 2 * i + 1
            /\ 2 * i + 2 \in 1 .. 2 * n /\ 5 + (2 * i + 2) = 5 + 2 * i + 2
        OBVIOUS
      <3>2. S[5 + 2 * i + 1] = F[2 * i + 1] /\ S[5 + 2 * i + 2] = F[2 * i + 2]
        BY <1>12, <3>1
      <3>3. /\ F[2 * i + 1] = [kind |-> "chunk", half |-> 1, val |-> BodyChunk(n, i).NumBytes]
            /\ F[2 * i + 2] = [kind |-> "chunk", half |-> 2, val |-> BodyChunk(n, i).BufferOffsetInBytes]
        BY FieldsAt DEF F
      <3>. QED  BY <3>2, <3>3
    <2>2. \A k \in 1 .. 2 * n : F[k].kind = "chunk"
      BY FieldsAt DEF F
    <2>. QED  BY <1>12, <2>1, <2>2
  <1>14. /\ S[1].kind = "TaskSubmition"
         /\ S[2].kind = "header" /\ S[2].half = 1 /\ S[2].val = NumCols
         /\ S[3].kind = "header" /\ S[3].val = NumRows
         /\ S[4].kind = "count" /\ S[4].half = 1 /\ S[4].val = n /\ S[5].kind = "count"
         /\ S[5 + 2 * n + 1].kind = "size" /\ S[5 + 2 * n + 1].half = 1 /\ S[5 + 2 * n + 1].val = NumCols
         /\ S[5 + 2 * n + 2].kind = "size"
    BY <1>2, <1>12
  <1>15. ASSUME NEW k \in 2 .. HeadLen(n) PROVE S[k].kind \in {"header", "count", "chunk", "size"}
    <2>1. k \in {2, 3, 4, 5, 5 + 2 * n + 1, 5 + 2 * n + 2} \/ (k - 5 \in 1 .. 2 * n /\ 5 + (k - 5) = k)
      BY <1>11
    <2>2. CASE k - 5 \in 1 .. 2 * n /\ 5 + (k - 5) = k
      BY <1>13, <2>2
    <2>. QED  BY <1>14, <2>1, <2>2
  <1>16. ASSUME NEW k \in 1 .. TaskLen(n) PROVE S[k].kind \notin {"TaskStatus", "TaskResult"}
    <2>1. k = 1 \/ k \in 2 .. HeadLen(n) \/ (k - HeadLen(n) \in 1 .. NumCols /\ HeadLen(n) + (k - HeadLen(n)) = k)
      BY <1>0, <1>11
    <2>2. CASE k - HeadLen(n) \in 1 .. NumCols /\ HeadLen(n) + (k - HeadLen(n)) = k
      <3>1. S[k] = B[k - HeadLen(n)]
        BY <1>10, <2>2
      <3>2. B[k - HeadLen(n)].kind = "raw"
        BY <2>2, BodyType DEF B
      <3>. QED  BY <3>1, <3>2
    <2>. QED  BY <1>14, <1>15, <2>1, <2>2
  <1>17. \A k \in 1 .. NumCols : S[HeadLen(n) + k] = Body[k]
    BY <1>10 DEF B
  <1>. QED  BY <1>5, <1>10, <1>13, <1>14, <1>15, <1>16, <1>17 DEF Joined

(* The stream of a client that may have asked one question.                  *)
LEMMA SentAt ==
  ASSUME NEW n \in Nat \ {0}, NEW next \in Questions
  PROVE  /\ Sent(n, next) \in Seq(DataUnits) /\ Len(Sent(n, next)) = TaskLen(n) + Len(next)
         /\ Len(next) \in {0, 1} /\ (Len(next) = 0 <=> next = <<>>)
         /\ \A k \in 1 .. TaskLen(n) : Sent(n, next)[k] = Submission(n)[k]
         /\ next # <<>> => Sent(n, next)[TaskLen(n) + 1] = next[1]
         /\ next # <<>> => next[1].kind \in {"TaskStatus", "TaskResult"}
  <1>1. next \in Seq(DataUnits) /\ Len(next) \in {0, 1} /\ (Len(next) = 0 <=> next = <<>>)
    BY RequestType, UnitType, KindsHas, EmptySeq DEF Questions, ERequestType
  <1>2. Submission(n) \in Seq(DataUnits) /\ Len(Submission(n)) = TaskLen(n) /\ TaskLen(n) \in Nat
    BY SubmissionAt, Sizes
  <1>3. next # <<>> => next[1].kind \in {"TaskStatus", "TaskResult"}
    BY DEF Questions, Unit
  <1>4. /\ Sent(n, next) \in Seq(DataUnits) /\ Len(Sent(n, next)) = Len(Submission(n)) + Len(next)
        /\ \A k \in 1 .. Len(Submission(n)) : Sent(n, next)[k] = Submission(n)[k]
        /\ \A k \in 1 .. Len(next) : Sent(n, next)[Len(Submission(n)) + k] = next[k]
    BY <1>1, <1>2, JoiningData, Zenon DEF Sent
  <1>5. next # <<>> => 1 \in 1 .. Len(next)
    BY <1>1
  <1>. QED  BY <1>1, <1>2, <1>3, <1>4, <1>5, Zenon

-----------------------------------------------------------------------------
(* What a step makes of the bytes that have arrived.                         *)

LEMMA SameBytes ==
  ASSUME NEW c, NEW n, NEW next, NEW r, Arrived(c, n, next, r),
         sock'[c] = sock[c], flight'[c] = flight[c], c \in gone' <=> c \in gone
  PROVE  Arrived(c, n, next, r)'
  BY DEF Arrived

(* Between the first byte of a submission and its body a read is complete.   *)
LEMMA HeadRead ==
  ASSUME SockTypes, NEW c \in Clients, NEW n \in Nat \ {0}, NEW next \in Questions, NEW r \in Nat \ {0},
         Arrived(c, n, next, r), NEW m \in Nat, r + m <= HeadLen(n)
  PROVE  m <= Len(sock[c]) /\ \A k \in 1 .. m : sock[c][k] = Submission(n)[r + k]
  <1>1. Len(sock[c]) \in Nat
    BY SockTypesDef, LenProperties
  <1>2. r + Len(sock[c]) >= HeadLen(n)
    BY <1>1 DEF Arrived
  <1>3. HeadLen(n) \in Nat /\ TaskLen(n) = HeadLen(n) + NumCols /\ NumCols \in Nat
    BY Sizes
  <1>4. m <= Len(sock[c])
    BY <1>1, <1>2, <1>3
  <1>5. ASSUME NEW k \in 1 .. m PROVE sock[c][k] = Submission(n)[r + k]
    <2>1. k \in 1 .. Len(sock[c]) /\ r + k \in 1 .. TaskLen(n)
      BY <1>1, <1>3, <1>4
    <2>. QED  BY <2>1, SentAt DEF Arrived
  <1>. QED  BY <1>4, <1>5

(* The bytes a reader takes are those it has come to.                        *)
LEMMA TakeBytes ==
  ASSUME SockTypes, NEW c \in Clients, NEW n \in Nat \ {0}, NEW next \in Questions, NEW r \in Nat,
         Arrived(c, n, next, r), NEW m \in Nat, m <= Len(sock[c]),
         sock'[c] = Without(sock[c], m), flight'[c] = flight[c], c \in gone' <=> c \in gone
  PROVE  Arrived(c, n, next, r + m)' /\ Len(sock[c]') = Len(sock[c]) - m
  <1>1. sock[c] \in Seq(DataUnits) /\ Len(sock[c]) \in Nat
    BY SockTypesDef, LenProperties
  <1>2. /\ Len(sock'[c]) = Len(sock[c]) - m
        /\ \A k \in 1 .. Len(sock[c]) - m : sock'[c][k] = sock[c][m + k]
    <2>1. /\ Len(Without(sock[c], m)) = Len(sock[c]) - m
          /\ \A k \in 1 .. Len(sock[c]) - m : Without(sock[c], m)[k] = sock[c][m + k]
      BY <1>1, TakingData, Zenon
    <2>. QED  BY <2>1
  <1>3. r + m + Len(sock'[c]) = r + Len(sock[c])
    BY <1>1, <1>2
  <1>4. ASSUME NEW k \in 1 .. Len(sock'[c]) PROVE sock'[c][k] = Sent(n, next)[r + m + k]
    <2>1. m + k \in 1 .. Len(sock[c]) /\ r + (m + k) = r + m + k /\ k \in 1 .. Len(sock[c]) - m
      BY <1>1, <1>2
    <2>. QED  BY <1>2, <2>1 DEF Arrived
  <1>. QED  BY <1>2, <1>3, <1>4 DEF Arrived

(* The byte of a question is the last one, because its client waits for the  *)
(* answer.                                                                  *)
LEMMA TakeQuestion ==
  ASSUME SockTypes, NEW c \in Clients, NEW n \in Nat \ {0}, NEW next \in Questions,
         Arrived(c, n, next, TaskLen(n)), sock[c] # <<>>,
         sock[c][1].kind \in ERequestType => sock'[c] = Without(sock[c], 1),
         flight'[c] = flight[c], c \in gone' <=> c \in gone
  PROVE  /\ next # <<>> /\ sock[c][1] = next[1]
         /\ Arrived(c, n, <<>>, TaskLen(n))'
  <1>1. sock[c] \in Seq(DataUnits) /\ Len(sock[c]) \in Nat \ {0}
    BY SockTypesDef, LenProperties, EmptySeq
  <1>2. TaskLen(n) \in Nat /\ <<>> \in Questions /\ TaskLen(n) >= HeadLen(n) /\ HeadLen(n) \in Nat
    BY Sizes DEF Questions
  <1>3. Len(Sent(n, next)) = TaskLen(n) + Len(next) /\ Len(next) \in {0, 1} /\ (Len(next) = 0 <=> next = <<>>)
    BY SentAt
  <1>4. TaskLen(n) + Len(sock[c]) <= TaskLen(n) + Len(next)
    BY <1>3 DEF Arrived
  <1>5. Len(sock[c]) = 1 /\ Len(next) = 1 /\ next # <<>>
    <2>1. \A x \in Nat \ {0}, y \in {0, 1}, t \in Nat : t + x <= t + y => x = 1 /\ y = 1
      OBVIOUS
    <2>2. Len(sock[c]) = 1 /\ Len(next) = 1
      BY <1>1, <1>2, <1>3, <1>4, <2>1
    <2>3. Len(next) # 0
      BY <2>2
    <2>. QED  BY <1>3, <2>2, <2>3, Zenon
  <1>6. sock[c][1] = next[1]
    <2>1. 1 \in 1 .. Len(sock[c])
      BY <1>5
    <2>2. sock[c][1] = Sent(n, next)[TaskLen(n) + 1]
      BY <2>1 DEF Arrived
    <2>. QED  BY <1>5, <2>2, SentAt
  <1>7. Len(sock'[c]) = 0
    <2>1. 1 \in Nat /\ 1 <= Len(sock[c]) /\ Len(sock[c]) - 1 = 0
      BY <1>5
    <2>2. Len(Without(sock[c], 1)) = Len(sock[c]) - 1
      BY <1>1, <2>1, TakingData, Zenon
    <2>3. sock[c][1].kind \in ERequestType
      BY <1>5, <1>6 DEF Questions, Unit, ERequestType
    <2>. QED  BY <2>1, <2>2, <2>3
  <1>8. Len(Sent(n, <<>>)) = TaskLen(n)
    BY <1>2, SentAt, EmptySeq
  <1>9. c \notin gone => Len(flight[c]) = 0
    BY <1>2, <1>3, <1>5 DEF Arrived
  <1>10. c \in gone => flight[c] = <<>>
    BY DEF Arrived
  <1>11. Arrived(c, n, <<>>, TaskLen(n))'
    <2>1. /\ TaskLen(n) + Len(sock'[c]) = Len(Sent(n, <<>>)) /\ TaskLen(n) + Len(sock'[c]) >= HeadLen(n)
          /\ \A k \in 1 .. Len(sock'[c]) : FALSE
      BY <1>2, <1>7, <1>8
    <2>2. c \notin gone' => Len(flight'[c]) = 0 /\ \A k \in 1 .. Len(flight'[c]) : FALSE
      BY <1>9
    <2>3. c \in gone' => flight'[c] = <<>>
      BY <1>10
    <2>4. Len(Sent(n, <<>>)) \in Nat /\ Len(Sent(n, <<>>)) <= Len(Sent(n, <<>>))
          /\ Len(Sent(n, <<>>)) - Len(Sent(n, <<>>)) = 0
      BY <1>2, <1>8
    <2>. QED  BY <2>1, <2>2, <2>3, <2>4 DEF Arrived
  <1>. QED  BY <1>5, <1>6, <1>11

(* A client asks when all it has sent before was its submission.             *)
LEMMA SendQuestion ==
  ASSUME SockTypes, NEW c \in Clients, NEW n \in Nat \ {0}, NEW next \in Questions, NEW r \in Nat,
         Arrived(c, n, <<>>, r), c \notin gone, Sends(c, next), UNCHANGED <<sock, gone>>
  PROVE  Arrived(c, n, next, r)'
  <1>. DEFINE a == r + Len(sock[c])
  <1>1. /\ Len(sock[c]) \in Nat /\ flight[c] \in Seq(DataUnits) /\ Len(flight[c]) \in Nat
        /\ flight \in [Clients -> Seq(DataUnits)]
    BY SockTypesDef, LenProperties
  <1>2. TaskLen(n) \in Nat /\ <<>> \in Questions /\ Len(<<>>) = 0
    BY Sizes, EmptySeq DEF Questions
  <1>3. /\ Len(Sent(n, next)) = TaskLen(n) + Len(next) /\ Len(next) \in {0, 1}
        /\ Len(Sent(n, <<>>)) = TaskLen(n) + 0
        /\ \A k \in 1 .. TaskLen(n) : Sent(n, next)[k] = Sent(n, <<>>)[k]
    BY <1>2, SentAt
  <1>4. /\ a \in Nat /\ a <= TaskLen(n) /\ (a = 0 \/ a >= HeadLen(n))
        /\ Len(flight[c]) = TaskLen(n) - a
        /\ \A k \in 1 .. Len(flight[c]) : flight[c][k] = Sent(n, <<>>)[a + k]
        /\ \A k \in 1 .. Len(sock[c]) : sock[c][k] = Sent(n, <<>>)[r + k]
    <2>1. a \in Nat /\ Len(Sent(n, <<>>)) = TaskLen(n)
      BY <1>1, <1>2, <1>3
    <2>. QED  BY <2>1 DEF Arrived
  <1>5. next \in Seq(DataUnits) /\ (next # <<>> => Sent(n, next)[TaskLen(n) + 1] = next[1] /\ Len(next) = 1)
    BY RequestType, UnitType, KindsHas, EmptySeq, SentAt DEF Questions, ERequestType
  <1>6. /\ flight'[c] = flight[c] \o next
        /\ Len(flight[c] \o next) = Len(flight[c]) + Len(next)
        /\ \A k \in 1 .. Len(flight[c]) : (flight[c] \o next)[k] = flight[c][k]
        /\ \A k \in 1 .. Len(next) : (flight[c] \o next)[Len(flight[c]) + k] = next[k]
    BY <1>1, <1>5, JoiningData, Zenon DEF Sends
  <1>. HIDE DEF a
  <1>7. ASSUME NEW k \in 1 .. Len(flight'[c]) PROVE flight'[c][k] = Sent(n, next)[a + k]
    <2>1. CASE k \in 1 .. Len(flight[c])
      <3>1. a + k \in 1 .. TaskLen(n)
        BY <1>1, <1>2, <1>4, <2>1
      <3>. QED  BY <1>3, <1>4, <1>6, <2>1, <3>1
    <2>2. CASE k \notin 1 .. Len(flight[c])
      <3>1. k \in 1 .. Len(flight[c]) + Len(next)
        BY <1>6
      <3>2. Len(next) = 1 /\ k = Len(flight[c]) + 1
        <4>1. \A x, y, z \in Nat : y \in {0, 1} /\ z \in 1 .. x + y /\ z \notin 1 .. x => y = 1 /\ z = x + 1
          OBVIOUS
        <4>2. k \in Nat /\ Len(next) \in Nat
          BY <1>1, <1>3, <3>1
        <4>. QED  BY <1>1, <1>3, <2>2, <3>1, <4>1, <4>2, Zenon
      <3>3. a + k = TaskLen(n) + 1 /\ 1 \in 1 .. Len(next)
        BY <1>1, <1>2, <1>4, <3>2
      <3>. QED  BY <1>2, <1>5, <1>6, <3>2, <3>3
    <2>. QED  BY <2>1, <2>2
  <1>8. ASSUME NEW k \in 1 .. Len(sock[c]) PROVE sock[c][k] = Sent(n, next)[r + k]
    <2>1. r + k \in 1 .. TaskLen(n)
      BY <1>1, <1>2, <1>4 DEF a
    <2>. QED  BY <1>3, <1>4, <2>1
  <1>9. Len(flight'[c]) = Len(Sent(n, next)) - a /\ a <= Len(Sent(n, next))
    BY <1>1, <1>2, <1>3, <1>4, <1>6
  <1>. QED  BY <1>4, <1>7, <1>8, <1>9 DEF Arrived, a

(* A piece ends where a message does, or in a body.                          *)
LEMMA BytesArrive ==
  ASSUME SockTypes, RequestCuts = "messages", NEW c \in Clients, NEW n \in Nat \ {0},
         NEW next \in Questions, NEW r \in Nat, Arrived(c, n, next, r), Arrive(c)
  PROVE  Arrived(c, n, next, r)' /\ sock'[c] # <<>> /\ c \notin gone
  <1>. DEFINE a == r + Len(sock[c])
              s == sock[c]
              f == flight[c]
  <1>1. /\ s \in Seq(DataUnits) /\ Len(s) \in Nat /\ f \in Seq(DataUnits) /\ Len(f) \in Nat
        /\ sock \in [Clients -> Seq(DataUnits)] /\ flight \in [Clients -> Seq(DataUnits)]
    BY SockTypesDef, LenProperties
  <1>2. PICK p \in Pieces(f, RequestCuts) :
          /\ sock' = [sock EXCEPT ![c] = @ \o First(f, p)]
          /\ flight' = [flight EXCEPT ![c] = Without(@, p)]
          /\ UNCHANGED <<connVars, reply>>
    BY DEF Arrive
  <1>3. p \in 1 .. Len(f) /\ (p = Len(f) \/ MayBeginPiece(f[p + 1], "messages"))
    BY <1>2 DEF Pieces
  <1>4. HeadLen(n) \in Nat /\ TaskLen(n) = HeadLen(n) + NumCols /\ NumCols \in Nat
    BY Sizes
  <1>5. Len(Sent(n, next)) = TaskLen(n) + Len(next) /\ Len(next) \in Nat
    BY SentAt
  <1>6. c \notin gone
    BY <1>1, <1>3, EmptySeq DEF Arrived
  <1>7. /\ a \in Nat /\ a <= Len(Sent(n, next)) /\ (a = 0 \/ a >= HeadLen(n))
        /\ Len(f) = Len(Sent(n, next)) - a
        /\ \A k \in 1 .. Len(f) : f[k] = Sent(n, next)[a + k]
        /\ \A k \in 1 .. Len(s) : s[k] = Sent(n, next)[r + k]
    BY <1>1, <1>6 DEF Arrived
  <1>8. /\ First(f, p) \in Seq(DataUnits) /\ Len(First(f, p)) = p
        /\ \A k \in 1 .. p : First(f, p)[k] = f[k]
        /\ Len(Without(f, p)) = Len(f) - p
        /\ \A k \in 1 .. Len(f) - p : Without(f, p)[k] = f[p + k]
    <2>1. p \in Nat /\ p <= Len(f)
      BY <1>1, <1>3
    <2>. QED  BY <1>1, <2>1, TakingData, Zenon
  <1>9. sock'[c] = s \o First(f, p) /\ flight'[c] = Without(f, p)
    BY <1>1, <1>2
  <1>10. /\ Len(s \o First(f, p)) = Len(s) + Len(First(f, p))
         /\ \A k \in 1 .. Len(s) : (s \o First(f, p))[k] = s[k]
         /\ \A k \in 1 .. Len(First(f, p)) : (s \o First(f, p))[Len(s) + k] = First(f, p)[k]
    BY <1>1, <1>8, JoiningData, Zenon
  <1>. DEFINE t == sock'[c]
              g == flight'[c]
  <1>11. /\ Len(t) = Len(s) + p /\ Len(g) = Len(f) - p
         /\ \A k \in 1 .. Len(s) : t[k] = s[k]
         /\ \A k \in 1 .. p : t[Len(s) + k] = f[k]
         /\ \A k \in 1 .. Len(f) - p : g[k] = f[p + k]
    BY <1>8, <1>9, <1>10
  <1>12. r + Len(t) = a + p
    BY <1>1, <1>3, <1>11
  <1>13. a = r + Len(s)
    OBVIOUS
  <1>. HIDE DEF a, s, f, t, g
  <1>14. ASSUME NEW k \in 1 .. Len(t) PROVE t[k] = Sent(n, next)[r + k]
    <2>1. CASE k \in 1 .. Len(s)
      BY <1>7, <1>11, <2>1
    <2>2. CASE k \notin 1 .. Len(s)
      <3>1. k - Len(s) \in 1 .. p /\ Len(s) + (k - Len(s)) = k /\ k - Len(s) \in 1 .. Len(f)
        BY <1>1, <1>3, <1>11, <2>2
      <3>2. t[k] = f[k - Len(s)]
        BY <1>11, <3>1
      <3>3. a + (k - Len(s)) = r + k
        BY <1>1, <1>13, <3>1
      <3>. QED  BY <1>7, <3>1, <3>2, <3>3
    <2>. QED  BY <2>1, <2>2
  <1>15. ASSUME NEW k \in 1 .. Len(g) PROVE g[k] = Sent(n, next)[a + p + k]
    <2>1. k \in 1 .. Len(f) - p /\ p + k \in 1 .. Len(f) /\ a + (p + k) = a + p + k
      BY <1>1, <1>3, <1>7, <1>11
    <2>. QED  BY <1>7, <1>11, <2>1
  <1>16. a + p <= Len(Sent(n, next)) /\ Len(g) = Len(Sent(n, next)) - (a + p)
    <2>1. \A x, y, l, q \in Nat : q \in 1 .. l /\ l = x - y => y + q <= x /\ l - q = x - (y + q)
      OBVIOUS
    <2>2. Len(Sent(n, next)) \in Nat /\ p \in Nat /\ p \in 1 .. Len(f)
      BY <1>3, <1>4, <1>5
    <2>. QED  BY <1>1, <1>7, <1>11, <2>1, <2>2
  <1>17. a + p >= HeadLen(n)
    <2>1. CASE p = Len(f)
      BY <1>1, <1>4, <1>5, <1>7, <2>1
    <2>2. CASE p # Len(f)
      <3>. SUFFICES ASSUME a + p < HeadLen(n) PROVE FALSE
        BY <1>3, <1>4, <1>7
      <3>1. p + 1 \in 1 .. Len(f) /\ a + (p + 1) \in 2 .. HeadLen(n) /\ a + (p + 1) \in 1 .. TaskLen(n)
        BY <1>1, <1>3, <1>4, <1>7, <2>2
      <3>2. f[p + 1] = Submission(n)[a + (p + 1)]
        <4>1. f[p + 1] = Sent(n, next)[a + (p + 1)]
          BY <1>7, <3>1, Zenon
        <4>2. Sent(n, next)[a + (p + 1)] = Submission(n)[a + (p + 1)]
          BY <3>1, SentAt
        <4>. QED  BY <4>1, <4>2
      <3>3. Joined(f[p + 1])
        <4>1. \A k \in 2 .. HeadLen(n) : Joined(Submission(n)[k])
          BY SubmissionAt
        <4>. QED  BY <3>1, <3>2, <4>1, Zenon
      <3>4. MayBeginPiece(f[p + 1], "messages")
        BY <1>3, <2>2
      <3>. QED  BY <3>3, <3>4 DEF Joined, MayBeginPiece
    <2>. QED  BY <2>1, <2>2
  <1>18. UNCHANGED gone
    BY <1>2 DEF connVars
  <1>19. Arrived(c, n, next, r)'
    BY <1>6, <1>12, <1>14, <1>15, <1>16, <1>17, <1>18 DEF Arrived, t, g
  <1>20. sock'[c] # <<>>
    BY <1>1, <1>3, <1>11, EmptySeq DEF t
  <1>. QED  BY <1>6, <1>19, <1>20

LEMMA BytesLost ==
  ASSUME SockTypes, NEW c \in Clients, NEW n, NEW next, NEW r, Arrived(c, n, next, r), Disappear(c)
  PROVE  Arrived(c, n, next, r)'
  BY SockTypesDef DEF Arrived, Disappear

-----------------------------------------------------------------------------
(* Steps that have nothing to do with a client's stream: those of the other  *)
(* clients and their handlers, and of the delegates.                         *)

SameTask(c) ==
  /\ c \in DOMAIN m_contextMap' <=> c \in DOMAIN m_contextMap
  /\ c \in DOMAIN m_contextMap =>
       /\ m_contextMap'[c].Header = m_contextMap[c].Header
       /\ Len(m_contextMap'[c].Body) = Len(m_contextMap[c].Body)
       /\ Len(m_contextMap'[c].ExecutionChunks) = Len(m_contextMap[c].ExecutionChunks)
       /\ \A n : \A i \in 1 .. Len(m_contextMap[c].ExecutionChunks) :
            ChunkAsSent(m_contextMap[c].ExecutionChunks[i], n, i) =>
              ChunkAsSent(m_contextMap'[c].ExecutionChunks[i], n, i)

SameHandler(c) ==
  \A v \in Workers :
    /\ Holds(v, c)' <=> Holds(v, c)
    /\ Holds(v, c) => wpc'[v] = wpc[v] /\ loc'[v] = loc[v]

SameStream(c) ==
  /\ sock'[c] = sock[c] /\ flight'[c] = flight[c] /\ reply'[c] = reply[c]
  /\ c \in gone' <=> c \in gone

LEMMA SameProgress ==
  ASSUME NEW c, SameTask(c), SameHandler(c)
  PROVE  /\ \A n, r : Progress(c, n, r) => Progress(c, n, r)'
         /\ \A points : At(c, points)' <=> At(c, points)
         /\ CommunicatorFree(c)' <=> CommunicatorFree(c)
         /\ HasTaskContext(c)' <=> HasTaskContext(c)
  <1>1. CommunicatorFree(c)' <=> CommunicatorFree(c)
    BY DEF SameHandler, CommunicatorFree
  <1>2. HasTaskContext(c)' <=> HasTaskContext(c)
    BY DEF SameTask, HasTaskContext
  <1>3. ASSUME NEW points PROVE At(c, points)' <=> At(c, points)
    BY DEF SameHandler, At
  <1>4. ASSUME NEW n
        PROVE  /\ PartOfTask(c, n) => PartOfTask(c, n)'
               /\ AllChunks(c, n) => AllChunks(c, n)'
               /\ WholeTask(c, n) => WholeTask(c, n)'
    <2>1. PartOfTask(c, n) => PartOfTask(c, n)'
      BY DEF PartOfTask, SameTask, HasTaskContext, ExecutionChunks
    <2>2. /\ PartOfTask(c, n) => Len(ExecutionChunks(c))' = Len(ExecutionChunks(c))
          /\ PartOfTask(c, n) => Len(m_contextMap'[c].Body) = Len(m_contextMap[c].Body)
      BY DEF PartOfTask, SameTask, HasTaskContext, ExecutionChunks
    <2>. QED  BY <2>1, <2>2 DEF AllChunks, WholeTask
  <1>5. ASSUME NEW n, NEW r, NEW w \in Workers, Holds(w, c), Reading(w, c, n, r)
        PROVE  Reading(w, c, n, r)'
    <2>1. wpc'[w] = wpc[w] /\ loc'[w] = loc[w]
      BY <1>5 DEF SameHandler
    <2>2. HasTaskContext(c) =>
            /\ Len(ExecutionChunks(c))' = Len(ExecutionChunks(c))
            /\ Len(m_contextMap'[c].Body) = Len(m_contextMap[c].Body)
      BY DEF SameTask, HasTaskContext, ExecutionChunks
    <2>3. AllChunks(c, n) \/ WholeTask(c, n) \/ PartOfTask(c, n) => HasTaskContext(c)
      BY DEF AllChunks, WholeTask, PartOfTask
    <2>4. CASE wpc[w] \in {"header", "count"}
      BY <1>5, <2>1, <2>4 DEF Reading
    <2>5. CASE wpc[w] \in {"chunks", "size", "body"}
      BY <1>4, <1>5, <2>1, <2>2, <2>3, <2>5 DEF Reading
    <2>6. CASE wpc[w] \in {"submit", "scan", "result", "copy", "write"}
      BY <1>4, <1>5, <2>1, <2>6 DEF Reading
    <2>. QED  BY <1>5, <2>4, <2>5, <2>6 DEF Reading
  <1>6. ASSUME NEW n, NEW r, Progress(c, n, r) PROVE Progress(c, n, r)'
    <2>1. CASE \E w \in Workers : Holds(w, c) /\ Reading(w, c, n, r)
      BY <1>5, <2>1 DEF Progress, SameHandler
    <2>. QED  BY <1>1, <1>2, <1>4, <1>6, <2>1 DEF Progress
  <1>. QED  BY <1>1, <1>2, <1>3, <1>6

LEMMA Undisturbed ==
  ASSUME NEW c, SameTask(c), SameHandler(c), SameStream(c), cpc'[c] = cpc[c]
  PROVE  (Silent(c) => Silent(c)') /\ \A n : Stream(c, n) => Stream(c, n)'
  <1>1. Silent(c) => Silent(c)'
    BY SameProgress DEF Silent, SameStream
  <1>2. ASSUME NEW n, Stream(c, n) PROVE Stream(c, n)'
    <2>1. PICK next \in Questions, r \in Nat : Arrived(c, n, next, r) /\ Progress(c, n, r) /\ Talk(c, next)
      BY <1>2 DEF Stream
    <2>2. Arrived(c, n, next, r)'
      BY <2>1, SameBytes DEF SameStream
    <2>3. Progress(c, n, r)'
      BY <2>1, SameProgress
    <2>4. Talk(c, next)'
      <3>1. \A points : At(c, points)' <=> At(c, points)
        BY SameProgress
      <3>. QED  BY <2>1, <3>1 DEF Talk, SameStream
    <2>. QED  BY <2>2, <2>3, <2>4 DEF Stream
  <1>. QED  BY <1>1, <1>2

(* A worker that is not at a request of c's leaves c's stream and handler    *)
(* alone; only the reading of a submission changes what there is of a task,  *)
(* the states of its chunks apart.                                          *)
Serves(w, c) == wpc[w] \in {"work"} \cup HandlerPoints /\ Client(w) = c

LEMMA TaskKept ==
  ASSUME SockTypes, ServerInv, NEW w \in Workers, WorkerStep(w) \/ ConnectionReset(w),
         NEW c \in Clients, Client(w) = c => wpc[w] \notin {"count", "chunks", "body"}
  PROVE  SameTask(c)
  <1>. DataTypes /\ ServerTypes /\ JobOK /\ HandlerOK /\ StreamTypes /\ ChunksKnown
    BY DataTypesDef DEF ServerInv, SockTypes
  <1>1. CASE UNCHANGED m_contextMap
    BY <1>1 DEF SameTask
  <1>2. wpc[w] \in HandlerPoints \cup ChunkPoints => Client(w) \in Clients
    BY WorkerClient
  <1>3. ASSUME NEW x \in Contexts, SetContext(Client(w), x), Client(w) \in Clients, Client(w) # c
        PROVE  SameTask(c)
    BY <1>3, SetContextType DEF SameTask
  <1>. DEFINE chunks == Context(w).ExecutionChunks
  <1>4. wpc[w] \in ChunkPoints =>
          /\ Client(w) \in Clients /\ Client(w) \in DOMAIN m_contextMap
          /\ Context(w) \in Contexts /\ Context(w) = m_contextMap[Client(w)]
          /\ job[w].chunk \in 1 .. Len(chunks)
    <2>1. wpc[w] \in ChunkPoints => Client(w) \in Clients /\ job[w].what = "chunk"
      BY WorkerClient, ChunkJobFields DEF JobOK
    <2>2. wpc[w] \in ChunkPoints =>
            /\ Client(w) \in DOMAIN m_contextMap
            /\ job[w].chunk \in DOMAIN chunks
      BY <2>1 DEF ChunksKnown, Known, Client, Context, ExecutionChunks
    <2>. QED  BY <2>1, <2>2, ServerTypesDef, ContextType DEF Context
  <1>5. CASE ComputeChunk(w) /\ m_contextMap' # m_contextMap
    <2>. DEFINE body == [k \in DOMAIN Context(w).Body |->
                           IF k \in Columns(w) THEN Execute(Context(w).Body[k]) ELSE Context(w).Body[k]]
                x == [Context(w) EXCEPT !.Body = body]
    <2>1. wpc[w] \in ChunkPoints /\ SetContext(Client(w), x)
      BY <1>5 DEF ComputeChunk, ChunkPoints
    <2>2. Context(w) \in Contexts
      BY <1>4, <2>1
    <2>3. body \in Seq(DataUnits) /\ Len(body) = Len(Context(w).Body)
      BY <2>2, ExecuteBody
    <2>. HIDE DEF body
    <2>4. /\ x \in Contexts /\ x.ExecutionChunks = chunks /\ Len(x.Body) = Len(Context(w).Body)
          /\ x.Header = Context(w).Header
      BY <2>2, <2>3 DEF Contexts
    <2>. HIDE DEF x
    <2>5. CASE Client(w) = c
      <3>1. /\ DOMAIN m_contextMap' = DOMAIN m_contextMap \cup {c} /\ m_contextMap'[c] = x
        BY <2>1, <2>4, <2>5, SetContextType
      <3>. QED  BY <1>4, <2>1, <2>4, <2>5, <3>1 DEF SameTask
    <2>. QED  BY <1>3, <1>4, <2>1, <2>4, <2>5
  <1>6. CASE MarkDone(w)
    <2>. DEFINE i == job[w].chunk
                x == [Context(w) EXCEPT !.ExecutionChunks[i].State = "Done"]
    <2>1. wpc[w] \in ChunkPoints /\ SetContext(Client(w), x)
      BY <1>6 DEF MarkDone, ChunkPoints
    <2>2. Context(w) \in Contexts /\ i \in 1 .. Len(chunks)
      BY <1>4, <2>1
    <2>3. /\ x \in Contexts /\ x.Body = Context(w).Body /\ x.Header = Context(w).Header
          /\ Len(x.ExecutionChunks) = Len(chunks)
          /\ x.ExecutionChunks[i] = [chunks[i] EXCEPT !.State = "Done"]
          /\ \A j \in 1 .. Len(chunks) : j # i => x.ExecutionChunks[j] = chunks[j]
      BY <2>2, MarkChunk
    <2>. HIDE DEF x
    <2>4. ASSUME NEW j \in 1 .. Len(chunks), NEW n, ChunkAsSent(chunks[j], n, j)
          PROVE  ChunkAsSent(x.ExecutionChunks[j], n, j)
      <3>1. chunks[j] \in Chunks
        BY <2>2, ContextType, ElementOfSeq
      <3>. DEFINE one == chunks[j]
                  y == x.ExecutionChunks[j]
      <3>2. y = one \/ y = [one EXCEPT !.State = "Done"]
        BY <2>3
      <3>3. one \in Chunks /\ ChunkAsSent(one, n, j)
        BY <2>4, <3>1
      <3>. HIDE DEF one, y, chunks
      <3>4. ChunkAsSent(y, n, j)
        BY <3>2, <3>3 DEF ChunkAsSent, Chunks
      <3>. QED  BY <3>4 DEF y
    <2>5. CASE Client(w) = c
      <3>1. /\ DOMAIN m_contextMap' = DOMAIN m_contextMap \cup {c} /\ m_contextMap'[c] = x
        BY <2>1, <2>3, <2>5, SetContextType
      <3>. QED  BY <1>4, <2>1, <2>3, <2>4, <2>5, <3>1 DEF SameTask
    <2>. QED  BY <1>3, <1>4, <2>1, <2>3, <2>5
  <1>7. CASE ReadNumChunks(w) \/ ReadChunk(w) \/ ReadBody(w)
    <2>1. wpc[w] \in {"count", "chunks", "body"} /\ wpc[w] \in HandlerPoints
      BY <1>7 DEF ReadNumChunks, ReadChunk, ReadBody, ReadField, HandlerPoints
    <2>2. Client(w) # c
      BY <2>1
    <2>3. PICK x : SetContext(Client(w), x)
      BY <1>7 DEF ReadNumChunks, ReadChunk, ReadBody
    <2>. QED  BY <2>2, <2>3 DEF SetContext, SameTask
  <1>8. \/ UNCHANGED m_contextMap \/ ReadNumChunks(w) \/ ReadChunk(w) \/ ReadBody(w)
        \/ ComputeChunk(w) \/ MarkDone(w)
    BY DEF WorkerStep, PoolStep, RequestStep, ChunkStep, ConnectionReset,
      Take, FindEmpty, Wait, NothingRead, IgnoreRequest, ReadTaskSubmition, ReadTaskStatus, ReadTaskResult,
      ReadRequest, StartRequest, ShortRead, ReadHeader, RejectNumChunks, ReadNumBytes, SubmitChunk,
      ScanChunk, AnswerFinished, WriteNumBytes, CopyChunk, WriteResult, StartChunk
  <1>. QED  BY <1>1, <1>5, <1>6, <1>7, <1>8

LEMMA OthersStep ==
  ASSUME SockTypes, ServerInv, NEW w \in Workers, WorkerStep(w) \/ ConnectionReset(w),
         NEW c \in Clients, ~Serves(w, c)
  PROVE  SameTask(c) /\ SameHandler(c) /\ SameStream(c)
  <1>. ServerTypes /\ JobOK
    BY DEF ServerInv
  <1>1. Control(w) /\ OwnLocals(w) /\ UNCHANGED <<connVars, flight>>
    BY WorkerControl, WorkerLocals, WorkerApart
  <1>2. SameTask(c)
    BY TaskKept DEF Serves, HandlerPoints
  <1>3. SameHandler(c)
    <2>1. ASSUME NEW v \in Workers \ {w}
          PROVE  (Holds(v, c)' <=> Holds(v, c)) /\ (Holds(v, c) => wpc'[v] = wpc[v] /\ loc'[v] = loc[v])
      BY <1>1 DEF Control, Others, OwnLocals, Holds, Client, HandlerPoints
    <2>2. ~Holds(w, c)
      BY DEF Serves, Holds
    <2>3. Takes(w) => wpc'[w] \in {"work", "chunk"}
      <3>1. Takes(w) => Head(queue) \in Jobs \ {Idle}
        BY HeadTailProperties, ServerTypesDef DEF Takes
      <3>. QED  BY <3>1, JobKinds, WorkFields, ChunkJobFields DEF Takes
    <2>4. ~Holds(w, c)'
      BY <1>1, <2>2, <2>3
      DEF Control, Stays, Rests, Ends, Begins, Handles, Executes, Serves, Holds, Client, HandlerPoints, ChunkPoints
    <2>. QED  BY <2>1, <2>2, <2>4 DEF SameHandler
  <1>4. SameStream(c)
    <2>1. wpc[w] \in {"work"} \cup HandlerPoints \/ UNCHANGED <<sock, reply>>
      BY DEF WorkerStep, PoolStep, RequestStep, ChunkStep, ConnectionReset, Take, FindEmpty, Wait,
        NothingRead, IgnoreRequest, ReadTaskSubmition, ReadTaskStatus, ReadTaskResult, ReadRequest,
        StartRequest, ReadField, ShortRead, ReadHeader, RejectNumChunks, ReadNumChunks, ReadChunk,
        ReadNumBytes, ReadBody, SubmitChunk, ScanChunk, AnswerFinished, WriteNumBytes, CopyChunk, WriteResult,
        StartChunk, ComputeChunk, MarkDone, sockVars, HandlerPoints
    <2>2. \/ UNCHANGED sock \/ \E m : Consume(w, m)
          \/ sock' = [sock EXCEPT ![Client(w)] = AfterByte(@)]
      BY DEF WorkerStep, PoolStep, RequestStep, ChunkStep, ConnectionReset, Take, FindEmpty, Wait,
        NothingRead, IgnoreRequest, ReadTaskSubmition, ReadTaskStatus, ReadTaskResult, ReadRequest,
        ReadField, ShortRead, ReadHeader, RejectNumChunks, ReadNumChunks, ReadChunk,
        ReadNumBytes, ReadBody, SubmitChunk, ScanChunk, AnswerFinished, WriteNumBytes, CopyChunk, WriteResult,
        StartChunk, ComputeChunk, MarkDone, sockVars
    <2>3. UNCHANGED reply \/ \E units : Answer(w, units)
      BY DEF WorkerStep, PoolStep, RequestStep, ChunkStep, ConnectionReset, Take, FindEmpty, Wait,
        NothingRead, IgnoreRequest, ReadTaskSubmition, ReadTaskStatus, ReadTaskResult,
        ReadField, ShortRead, ReadHeader, RejectNumChunks, ReadNumChunks, ReadChunk,
        ReadNumBytes, ReadBody, SubmitChunk, ScanChunk, AnswerFinished, WriteNumBytes, CopyChunk, WriteResult,
        StartChunk, ComputeChunk, MarkDone, sockVars
    <2>4. UNCHANGED <<sock, reply>> \/ Client(w) # c
      BY <2>1 DEF Serves
    <2>. QED  BY <1>1, <2>2, <2>3, <2>4, SockTypesDef DEF Consume, Answer, SameStream, connVars
  <1>. QED  BY <1>2, <1>3, <1>4

-----------------------------------------------------------------------------
(* The handler of a client's request: the CommunicatorMutex makes it the only*)
(* one, so that where it is says how much of the stream has been read.       *)

LEMMA Alone ==
  ASSUME SockTypes, ServerInv, NEW w \in Workers, WorkerStep(w) \/ ConnectionReset(w),
         NEW c \in Clients, Serves(w, c)
  PROVE  /\ wpc[w] = "work" => CommunicatorFree(c)
         /\ \A v \in Workers \ {w} : ~Holds(v, c) /\ ~Holds(v, c)'
         /\ wpc'[w] \in HandlerPoints <=> Holds(w, c)'
         /\ wpc'[w] \in HandlerPoints => Client(w)' = c
         /\ wpc'[w] \notin HandlerPoints => CommunicatorFree(c)'
         /\ \A points : points \subseteq HandlerPoints => (At(c, points) <=> wpc[w] \in points)
         /\ \A points : points \subseteq HandlerPoints => (At(c, points)' <=> wpc'[w] \in points)
         /\ \A n, r : wpc[w] # "work" /\ Progress(c, n, r) => Reading(w, c, n, r)
         /\ \A n, r : wpc[w] = "work" /\ Progress(c, n, r) =>
              (~HasTaskContext(c) /\ r = 0) \/ (WholeTask(c, n) /\ r = TaskLen(n))
         /\ \A n, r : Holds(w, c)' /\ Reading(w, c, n, r)' => Progress(c, n, r)'
  <1>. ServerTypes /\ JobOK /\ HandlersApart
    BY DEF ServerInv
  <1>1. Control(w)
    BY WorkerControl
  <1>2. wpc[w] = "work" => CommunicatorFree(c)
    BY DEF Serves, HandlerPoints, WorkerStep, PoolStep, RequestStep, ChunkStep, ConnectionReset, Take, FindEmpty, Wait,
      NothingRead, IgnoreRequest, ReadTaskSubmition, ReadTaskStatus, ReadTaskResult, ReadRequest,
      StartRequest, ReadField, ShortRead, ReadHeader, RejectNumChunks, ReadNumChunks, ReadChunk,
      ReadNumBytes, ReadBody, SubmitChunk, ScanChunk, AnswerFinished, WriteNumBytes, CopyChunk, WriteResult,
      StartChunk, ComputeChunk, MarkDone
  <1>3. ASSUME NEW v \in Workers \ {w} PROVE ~Holds(v, c) /\ ~Holds(v, c)'
    <2>1. ~Holds(v, c)
      BY <1>2 DEF Serves, Holds, HandlersApart, CommunicatorFree
    <2>2. Holds(v, c)' => Holds(v, c)
      BY <1>1 DEF Control, Others, Holds, Client, HandlerPoints
    <2>. QED  BY <2>1, <2>2
  <1>4. wpc'[w] \in HandlerPoints => Client(w)' = c
    BY <1>1 DEF Control, Stays, Takes, Rests, Ends, Begins, Handles, Executes, Serves, Client, HandlerPoints,
      ChunkPoints, PoolPoints
  <1>5. wpc'[w] \in HandlerPoints <=> Holds(w, c)'
    BY <1>4 DEF Holds
  <1>6. wpc'[w] \notin HandlerPoints => CommunicatorFree(c)'
    BY <1>3, <1>5 DEF CommunicatorFree
  <1>7. ASSUME NEW points, points \subseteq HandlerPoints
        PROVE  (At(c, points) <=> wpc[w] \in points) /\ (At(c, points)' <=> wpc'[w] \in points)
    <2>1. wpc[w] \in points => Holds(w, c)
      BY <1>7 DEF Serves, Holds
    <2>. QED  BY <1>3, <1>5, <1>7, <2>1 DEF At
  <1>8. ASSUME NEW n, NEW r, Progress(c, n, r)
        PROVE  /\ wpc[w] # "work" => Reading(w, c, n, r)
               /\ wpc[w] = "work" => (~HasTaskContext(c) /\ r = 0) \/ (WholeTask(c, n) /\ r = TaskLen(n))
    <2>1. wpc[w] # "work" => Holds(w, c)
      BY DEF Serves, Holds
    <2>. QED  BY <1>2, <1>3, <1>8, <2>1 DEF Progress, CommunicatorFree
  <1>9. \A n, r : Holds(w, c)' /\ Reading(w, c, n, r)' => Progress(c, n, r)'
    BY DEF Progress
  <1>. QED  BY <1>2, <1>3, <1>4, <1>5, <1>6, <1>7, <1>8, <1>9

(* What a handler that answers nobody keeps of the talk with its client.     *)
LEMMA SameTalk ==
  ASSUME NEW c, NEW next, Talk(c, next), cpc'[c] = cpc[c], reply'[c] = reply[c],
         ~At(c, Answerers), ~At(c, Answerers)'
  PROVE  Talk(c, next)'
  <1>1. ~At(c, {"scan"})' /\ ~At(c, {"result"})' /\ ~At(c, {"scan", "result"})'
    BY DEF At, Answerers
  <1>2. ~At(c, {"scan"}) /\ ~At(c, {"result"}) /\ ~At(c, {"scan", "result"})
    BY DEF At, Answerers
  <1>. QED  BY <1>1, <1>2 DEF Talk

(* A field of a submission is read in full, and where it begins.             *)
LEMMA FieldRead ==
  ASSUME SockTypes, NEW w \in Workers, NEW c \in Clients, Client(w) = c, NEW n \in Nat \ {0},
         NEW next \in Questions, NEW r \in Nat \ {0}, Arrived(c, n, next, r), r + 2 <= HeadLen(n)
  PROVE  /\ Len(Read(w, 2)) = 2 /\ Read(w, 2) # <<>> /\ Head(Read(w, 2)) = Submission(n)[r + 1]
         /\ Read(w, 2)[1] = Submission(n)[r + 1] /\ Read(w, 2)[2] = Submission(n)[r + 2]
         /\ Consume(w, 2) /\ UNCHANGED <<flight, gone>> => Arrived(c, n, next, r + 2)'
  <1>1. sock[c] \in Seq(DataUnits) /\ Len(sock[c]) \in Nat /\ Sock(w) = sock[c]
    BY SockTypesDef, LenProperties DEF Sock
  <1>2. 2 <= Len(sock[c]) /\ \A k \in 1 .. 2 : sock[c][k] = Submission(n)[r + k]
    BY HeadRead
  <1>3. Read(w, 2) = First(sock[c], 2)
    BY <1>1, <1>2 DEF Read
  <1>4. /\ First(sock[c], 2) \in Seq(DataUnits) /\ Len(First(sock[c], 2)) = 2
        /\ \A k \in 1 .. 2 : First(sock[c], 2)[k] = sock[c][k]
    <2>1. 2 \in Nat
      OBVIOUS
    <2>. QED  BY <1>1, <1>2, <2>1, TakingData, Zenon
  <1>5. Len(Read(w, 2)) = 2 /\ Read(w, 2) # <<>> /\ Head(Read(w, 2)) = Read(w, 2)[1]
    BY <1>3, <1>4, EmptySeq
  <1>6. Read(w, 2)[1] = Submission(n)[r + 1] /\ Read(w, 2)[2] = Submission(n)[r + 2]
    BY <1>2, <1>3, <1>4
  <1>7. ASSUME Consume(w, 2), UNCHANGED <<flight, gone>> PROVE Arrived(c, n, next, r + 2)'
    <2>1. sock'[c] = Without(sock[c], 2)
      BY <1>7, SockTypesDef DEF Consume
    <2>. QED  BY <1>2, <1>7, <2>1, TakeBytes
  <1>. QED  BY <1>5, <1>6, <1>7

(* What is known of a client whose handler takes a step.                     *)
LEMMA ServedClient ==
  ASSUME SockTypes, ServerInv, NEW w \in Workers, NEW c \in Clients, Serves(w, c)
  PROVE  /\ Context(w) = m_contextMap[c] /\ Sock(w) = sock[c] /\ loc \in [Workers -> Locals]
         /\ wpc \in [Workers -> Points] /\ loc[w].i \in Nat /\ loc[w].num \in Nat
         /\ HasTaskContext(c) =>
              /\ m_contextMap[c] \in Contexts /\ ExecutionChunks(c) \in Seq(Chunks)
              /\ Len(ExecutionChunks(c)) \in Nat
              /\ m_contextMap[c].Body \in Seq(DataUnits) /\ Len(m_contextMap[c].Body) \in Nat
  <1>. ServerTypes /\ DataTypes
    BY DataTypesDef DEF ServerInv
  <1>1. HasTaskContext(c) => m_contextMap[c] \in Contexts
    BY ServerTypesDef DEF HasTaskContext
  <1>. QED  BY <1>1, ContextType, ServerTypesDef, GetLocal DEF Serves, Context, Sock, Locals, ExecutionChunks

-----------------------------------------------------------------------------
(* The first read: it finds nothing, or the first byte of what comes next.   *)

LEMMA RequestStream ==
  ASSUME SockTypes, ServerInv, NEW w \in Workers, NEW c \in Clients, Serves(w, c),
         NEW n \in Nat \ {0}, Stream(c, n), cpc'[c] = cpc[c],
         \/ NothingRead(w) \/ IgnoreRequest(w) \/ ReadTaskSubmition(w) \/ ReadTaskStatus(w) \/ ReadTaskResult(w)
  PROVE  Stream(c, n)' /\ UNCHANGED died
  <1>1. WorkerStep(w)
    BY DEF WorkerStep, RequestStep
  <1>2. wpc[w] = "work" /\ UNCHANGED <<flight, gone, m_contextMap>>
    BY DEF NothingRead, IgnoreRequest, ReadTaskSubmition, ReadTaskStatus, ReadTaskResult, ReadRequest,
      StartRequest, Handling, connVars
  <1>3. /\ \A points : points \subseteq HandlerPoints => ~At(c, points) /\ (At(c, points)' <=> wpc'[w] \in points)
        /\ wpc'[w] \notin HandlerPoints => CommunicatorFree(c)'
        /\ wpc'[w] \in HandlerPoints => Holds(w, c)'
        /\ \A m, r : Holds(w, c)' /\ Reading(w, c, m, r)' => Progress(c, m, r)'
    BY <1>1, <1>2, Alone DEF HandlerPoints
  <1>4. PICK next \in Questions, r \in Nat : Arrived(c, n, next, r) /\ Progress(c, n, r) /\ Talk(c, next)
    BY DEF Stream
  <1>5. \/ ~HasTaskContext(c) /\ r = 0
        \/ WholeTask(c, n) /\ r = TaskLen(n)
    BY <1>1, <1>2, <1>4, Alone
  <1>6. Sock(w) = sock[c] /\ Client(w) = c /\ wpc \in [Workers -> Points] /\ loc \in [Workers -> Locals]
    BY ServedClient DEF Serves
  <1>7. (HasTaskContext(c)' <=> HasTaskContext(c)) /\ (WholeTask(c, n) => HasTaskContext(c) /\ WholeTask(c, n)')
    BY <1>2 DEF HasTaskContext, WholeTask, AllChunks, PartOfTask, ExecutionChunks
  <1>8. ~At(c, Answerers)
    BY <1>3 DEF Answerers, HandlerPoints
  <1>9. ASSUME UNCHANGED reply, wpc'[w] \notin Answerers PROVE Talk(c, next)'
    <2>1. ~At(c, Answerers)'
      BY <1>3, <1>9 DEF Answerers, HandlerPoints
    <2>. QED  BY <1>4, <1>8, <1>9, <2>1, SameTalk
  <1>10. CASE NothingRead(w)
    <2>1. UNCHANGED <<sock, reply>> /\ wpc'[w] = "ready"
      BY <1>6, <1>10 DEF NothingRead, Finish
    <2>2. Arrived(c, n, next, r)'
      BY <1>2, <1>4, <2>1, SameBytes
    <2>3. Progress(c, n, r)'
      BY <1>3, <1>5, <1>7, <2>1 DEF Progress, HandlerPoints
    <2>4. Talk(c, next)'
      BY <1>9, <2>1 DEF Answerers
    <2>. QED  BY <1>10, <2>2, <2>3, <2>4 DEF Stream, NothingRead
  <1>11. ASSUME NEW type, ReadRequest(w, type)
         PROVE  /\ sock[c] \in Seq(DataUnits) /\ sock[c] # <<>> /\ type \in Requests(sock[c][1])
                /\ sock[c][1].kind \in ERequestType => sock'[c] = Without(sock[c], 1)
                /\ 1 <= Len(sock[c])
    <2>1. sock[c] \in Seq(DataUnits) /\ sock[c] # <<>> /\ sock'[c] = AfterByte(sock[c])
      BY <1>6, <1>11, SockTypesDef DEF ReadRequest
    <2>2. Head(sock[c]) = sock[c][1] /\ 1 <= Len(sock[c]) /\ Tail(sock[c]) = Without(sock[c], 1)
      BY <2>1, EmptySeq, LenProperties DEF Without
    <2>3. sock[c][1].kind \in ERequestType => sock'[c] = Without(sock[c], 1)
      BY <2>1, <2>2, Zenon DEF AfterByte
    <2>. QED  BY <1>6, <1>11, <2>1, <2>2, <2>3 DEF ReadRequest
  <1>12. ASSUME NEW type, ReadRequest(w, type), ~HasTaskContext(c), r = 0
         PROVE  type = "TaskSubmition" /\ Arrived(c, n, next, 1)'
    <2>1. sock[c][1] = Submission(n)[1]
      <3>1. 1 \in 1 .. Len(sock[c]) /\ 1 \in 1 .. TaskLen(n)
        <4>1. Len(sock[c]) \in Nat /\ 1 <= Len(sock[c])
          BY <1>11, <1>12, LenProperties
        <4>2. TaskLen(n) \in Nat /\ TaskLen(n) >= 1
          BY Sizes
        <4>. QED  BY <4>1, <4>2
      <3>2. sock[c][1] = Sent(n, next)[0 + 1]
        BY <1>4, <1>12, <3>1 DEF Arrived
      <3>. QED  BY <3>1, <3>2, SentAt
    <2>2. sock[c][1].kind = "TaskSubmition"
      BY <2>1, SubmissionAt
    <2>3. type = "TaskSubmition"
      BY <1>11, <1>12, <2>2 DEF Requests, ERequestType
    <2>4. sock'[c] = Without(sock[c], 1)
      BY <1>11, <1>12, <2>2 DEF ERequestType
    <2>5. Arrived(c, n, next, 0 + 1)'
      BY <1>2, <1>4, <1>11, <1>12, <2>4, TakeBytes
    <2>. QED  BY <2>3, <2>5
  <1>13. ASSUME NEW type, ReadRequest(w, type), WholeTask(c, n), r = TaskLen(n)
         PROVE  /\ next # <<>> /\ Arrived(c, n, <<>>, TaskLen(n))'
                /\ \/ type = "TaskStatus" /\ next = Unit("TaskStatus", 0)
                   \/ type = "TaskResult" /\ next = Unit("TaskResult", 0)
    <2>1. next # <<>> /\ sock[c][1] = next[1] /\ Arrived(c, n, <<>>, TaskLen(n))'
      BY <1>2, <1>4, <1>11, <1>13, TakeQuestion
    <2>2. next \in {Unit("TaskStatus", 0), Unit("TaskResult", 0)}
      BY <1>4, <2>1 DEF Questions
    <2>3. Unit("TaskStatus", 0)[1].kind = "TaskStatus" /\ Unit("TaskResult", 0)[1].kind = "TaskResult"
      BY DEF Unit
    <2>4. type \in Requests(next[1])
      BY <1>11, <1>13, <2>1
    <2>. QED  BY <2>1, <2>2, <2>3, <2>4 DEF Requests, ERequestType
  <1>14. CASE IgnoreRequest(w)
    BY <1>5, <1>12, <1>13, <1>14 DEF IgnoreRequest
  <1>15. CASE ReadTaskSubmition(w)
    <2>1. ReadRequest(w, "TaskSubmition") /\ ~HasTaskContext(c) /\ r = 0
      BY <1>5, <1>13, <1>15 DEF ReadTaskSubmition
    <2>2. wpc'[w] = "header" /\ UNCHANGED reply
      BY <1>6, <1>15, <2>1 DEF ReadTaskSubmition, Goto
    <2>3. Progress(c, n, 1)'
      <3>1. Reading(w, c, n, 1)'
        BY <2>2 DEF Reading
      <3>. QED  BY <1>3, <2>2, <3>1 DEF HandlerPoints
    <2>4. Talk(c, next)'
      BY <1>9, <2>2 DEF Answerers
    <2>. QED  BY <1>12, <1>15, <2>1, <2>3, <2>4 DEF Stream, ReadTaskSubmition
  <1>16. ASSUME WholeTask(c, n), wpc'[w] \in {"scan", "result"} PROVE Progress(c, n, TaskLen(n))'
    <2>1. Reading(w, c, n, TaskLen(n))'
      BY <1>7, <1>16 DEF Reading
    <2>. QED  BY <1>3, <1>16, <2>1 DEF HandlerPoints
  <1>17. <<>> \in Questions /\ TaskLen(n) \in Nat
    BY Sizes DEF Questions
  <1>18. CASE ReadTaskStatus(w)
    <2>1. ReadRequest(w, "TaskStatus") /\ WholeTask(c, n) /\ r = TaskLen(n)
      BY <1>5, <1>12, <1>18 DEF ReadTaskStatus
    <2>2. next = Unit("TaskStatus", 0) /\ next # <<>> /\ Arrived(c, n, <<>>, TaskLen(n))'
      BY <1>13, <2>1
    <2>3. wpc'[w] = "scan" /\ UNCHANGED reply
      BY <1>6, <1>7, <1>18, <2>1 DEF ReadTaskStatus, Goto
    <2>4. Talk(c, <<>>)'
      <3>1. cpc[c] = "status" /\ reply[c] = <<>>
        <4>1. Unit("TaskStatus", 0) # Unit("TaskResult", 0)
          BY DEF Unit
        <4>. QED  BY <1>4, <2>2, <4>1 DEF Talk
      <3>2. At(c, {"scan"})'
        BY <1>3, <2>3 DEF HandlerPoints
      <3>. QED  BY <2>3, <3>1, <3>2 DEF Talk
    <2>5. UNCHANGED died
      BY <1>18 DEF ReadTaskStatus
    <2>. QED  BY <1>16, <1>17, <2>1, <2>2, <2>3, <2>4, <2>5 DEF Stream
  <1>19. CASE ReadTaskResult(w)
    <2>1. ReadRequest(w, "TaskResult") /\ WholeTask(c, n) /\ r = TaskLen(n)
      BY <1>5, <1>12, <1>19 DEF ReadTaskResult
    <2>2. next = Unit("TaskResult", 0) /\ next # <<>> /\ Arrived(c, n, <<>>, TaskLen(n))'
      BY <1>13, <2>1
    <2>3. wpc'[w] = "result" /\ UNCHANGED reply
      BY <1>6, <1>7, <1>19, <2>1 DEF ReadTaskResult, Goto
    <2>4. Talk(c, <<>>)'
      <3>1. cpc[c] = "size" /\ reply[c] = <<>>
        <4>1. Unit("TaskStatus", 0) # Unit("TaskResult", 0)
          BY DEF Unit
        <4>. QED  BY <1>4, <2>2, <4>1 DEF Talk
      <3>2. At(c, {"result"})'
        BY <1>3, <2>3 DEF HandlerPoints
      <3>. QED  BY <2>3, <3>1, <3>2 DEF Talk
    <2>5. UNCHANGED died
      BY <1>6, <1>7, <1>19, <2>1 DEF ReadTaskResult
    <2>. QED  BY <1>16, <1>17, <2>1, <2>2, <2>3, <2>4, <2>5 DEF Stream
  <1>. QED  BY <1>10, <1>14, <1>15, <1>18, <1>19

-----------------------------------------------------------------------------
(* The reading of a submission, field by field, and of its body.             *)

LEMMA ReadOn ==
  ASSUME SockTypes, ServerInv, NEW w \in Workers, WorkerStep(w), NEW c \in Clients, Serves(w, c),
         NEW n, NEW next \in Questions, NEW r \in Nat, Talk(c, next),
         cpc'[c] = cpc[c], reply'[c] = reply[c],
         wpc[w] \notin Answerers, wpc'[w] \in HandlerPoints \ Answerers,
         Arrived(c, n, next, r)', Reading(w, c, n, r)'
  PROVE  Stream(c, n)'
  <1>1. Answerers \subseteq HandlerPoints
    BY DEF Answerers, HandlerPoints
  <1>2. ~At(c, Answerers) /\ ~At(c, Answerers)' /\ Progress(c, n, r)'
    BY <1>1, Alone
  <1>3. Talk(c, next)'
    BY <1>2, SameTalk
  <1>. QED  BY <1>2, <1>3 DEF Stream

(* A handler before the body is where its reads say it is.                   *)
LEMMA NextField ==
  ASSUME SockTypes, ServerInv, NEW w \in Workers, WorkerStep(w), NEW c \in Clients, Serves(w, c),
         NEW n \in Nat \ {0}, Stream(c, n), wpc[w] \in {"header", "count", "chunks", "size"}
  PROVE  \E next \in Questions, r \in Nat \ {0} :
           /\ Arrived(c, n, next, r) /\ Reading(w, c, n, r) /\ Talk(c, next)
           /\ r + 2 <= HeadLen(n)
           /\ Len(Read(w, 2)) = 2 /\ Read(w, 2) # <<>> /\ Head(Read(w, 2)) = Submission(n)[r + 1]
           /\ Read(w, 2)[1] = Submission(n)[r + 1] /\ Read(w, 2)[2] = Submission(n)[r + 2]
           /\ Consume(w, 2) /\ UNCHANGED <<flight, gone>> => Arrived(c, n, next, r + 2)'
  <1>1. PICK next \in Questions, r \in Nat : Arrived(c, n, next, r) /\ Progress(c, n, r) /\ Talk(c, next)
    BY DEF Stream
  <1>2. Reading(w, c, n, r)
    BY <1>1, Alone
  <1>3. HeadLen(n) = 7 + 2 * n
    BY Sizes
  <1>4. r \in Nat \ {0} /\ r + 2 <= HeadLen(n)
    <2>1. CASE wpc[w] \in {"header", "count", "size"}
      BY <1>2, <1>3, <2>1 DEF Reading
    <2>2. CASE wpc[w] = "chunks"
      <3>1. r = 5 + 2 * Len(ExecutionChunks(c)) /\ HasTaskContext(c) /\ loc[w].num = n
        BY <1>2, <2>2 DEF Reading, PartOfTask
      <3>2. Len(ExecutionChunks(c)) < n
        BY <2>2, <3>1 DEF ServerInv, HandlerOK, HandlerAt, Serves
      <3>3. Len(ExecutionChunks(c)) \in Nat
        BY <3>1, ServedClient
      <3>. QED  BY <1>3, <3>1, <3>2, <3>3
    <2>. QED  BY <2>1, <2>2
  <1>5. Client(w) = c
    BY DEF Serves
  <1>6. /\ Len(Read(w, 2)) = 2 /\ Read(w, 2) # <<>> /\ Head(Read(w, 2)) = Submission(n)[r + 1]
        /\ Read(w, 2)[1] = Submission(n)[r + 1] /\ Read(w, 2)[2] = Submission(n)[r + 2]
        /\ Consume(w, 2) /\ UNCHANGED <<flight, gone>> => Arrived(c, n, next, r + 2)'
    BY <1>1, <1>4, <1>5, FieldRead
  <1>. QED  BY <1>1, <1>2, <1>4, <1>6

LEMMA HeaderStream ==
  ASSUME SockTypes, ServerInv, NEW w \in Workers, NEW c \in Clients, Serves(w, c),
         NEW n \in Nat \ {0}, Stream(c, n), cpc'[c] = cpc[c], ReadHeader(w)
  PROVE  Stream(c, n)'
  <1>1. WorkerStep(w) /\ wpc[w] = "header" /\ UNCHANGED <<flight, gone, reply, m_contextMap>>
    BY DEF WorkerStep, RequestStep, ReadHeader, ReadField, Handling, connVars
  <1>2. PICK next \in Questions, r \in Nat \ {0} :
           /\ Reading(w, c, n, r) /\ Talk(c, next) /\ Len(Read(w, 2)) = 2
           /\ Read(w, 2)[1] = Submission(n)[r + 1] /\ Read(w, 2)[2] = Submission(n)[r + 2]
           /\ Consume(w, 2) /\ UNCHANGED <<flight, gone>> => Arrived(c, n, next, r + 2)'
    BY <1>1, NextField
  <1>3. r = 1
    BY <1>1, <1>2 DEF Reading
  <1>4. Arrived(c, n, next, 3)'
    <2>1. Consume(w, 2)
      BY <1>2 DEF ReadHeader, ReadField
    <2>. QED  BY <1>1, <1>2, <1>3, <2>1
  <1>5. wpc'[w] = "count" /\ loc'[w].header = NumRows
    <2>1. \A m \in Numbers(Read(w, 2), "header") : m[2] = NumRows
      BY <1>2, <1>3, SubmissionAt DEF Numbers
    <2>2. wpc \in [Workers -> Points] /\ loc \in [Workers -> Locals]
      BY ServedClient
    <2>. QED  BY <2>1, <2>2 DEF ReadHeader, Goto, Locals
  <1>6. Reading(w, c, n, 3)'
    BY <1>5 DEF Reading
  <1>. QED  BY <1>1, <1>2, <1>4, <1>5, <1>6, ReadOn DEF Answerers, HandlerPoints

LEMMA NumChunksStream ==
  ASSUME SockTypes, ServerInv, NEW w \in Workers, NEW c \in Clients, Serves(w, c),
         NEW n \in 1 .. MaxChunks, Stream(c, n), cpc'[c] = cpc[c], ReadNumChunks(w) \/ RejectNumChunks(w)
  PROVE  Stream(c, n)' /\ UNCHANGED died
  <1>. n \in Nat \ {0}
    BY ServerAssumption DEF ServerAssumption
  <1>1. WorkerStep(w) /\ wpc[w] = "count" /\ UNCHANGED <<flight, gone, reply, died>> /\ Client(w) = c
    BY DEF WorkerStep, RequestStep, ReadNumChunks, RejectNumChunks, ReadField, Handling, connVars, Serves
  <1>2. PICK next \in Questions, r \in Nat \ {0} :
           /\ Reading(w, c, n, r) /\ Talk(c, next) /\ Len(Read(w, 2)) = 2 /\ Read(w, 2) # <<>>
           /\ Head(Read(w, 2)) = Submission(n)[r + 1]
           /\ Consume(w, 2) /\ UNCHANGED <<flight, gone>> => Arrived(c, n, next, r + 2)'
    BY <1>1, NextField
  <1>3. r = 3 /\ loc[w].header = NumRows
    BY <1>1, <1>2 DEF Reading
  <1>4. Values(Read(w, 2), "count") = {n}
    <2>1. Head(Read(w, 2)) = Submission(n)[4]
      BY <1>2, <1>3
    <2>2. Submission(n)[4].kind = "count" /\ Submission(n)[4].half = 1 /\ Submission(n)[4].val = n
      BY SubmissionAt
    <2>. QED  BY <1>2, <2>1, <2>2 DEF Values
  <1>5. ReadNumChunks(w)
    BY <1>4 DEF RejectNumChunks, ValidNumChunks
  <1>6. Arrived(c, n, next, 5)'
    <2>1. Consume(w, 2)
      BY <1>2, <1>5 DEF ReadNumChunks, ReadField
    <2>. QED  BY <1>1, <1>2, <1>3, <2>1
  <1>7. wpc'[w] = "chunks" /\ loc'[w].num = n
    <2>1. wpc \in [Workers -> Points] /\ loc \in [Workers -> Locals]
      BY ServedClient
    <2>. QED  BY <1>4, <1>5, <2>1 DEF ReadNumChunks, Goto, Locals
  <1>8. PartOfTask(c, n)' /\ Len(ExecutionChunks(c))' = 0 /\ Len(m_contextMap'[c].Body) = 0
    <2>1. /\ m_contextMap'[c] = TaskContext(NumRows, <<>>, <<>>) /\ c \in DOMAIN m_contextMap'
      BY <1>1, <1>3, <1>5 DEF ReadNumChunks, SetContext
    <2>2. /\ m_contextMap'[c].Header = NumRows /\ m_contextMap'[c].ExecutionChunks = <<>>
          /\ m_contextMap'[c].Body = <<>>
      BY <2>1 DEF TaskContext
    <2>. QED  BY <2>1, <2>2, EmptySeq DEF PartOfTask, HasTaskContext, ExecutionChunks
  <1>9. Reading(w, c, n, 5)'
    BY <1>7, <1>8 DEF Reading
  <1>. QED  BY <1>1, <1>2, <1>6, <1>7, <1>9, ReadOn DEF Answerers, HandlerPoints

LEMMA ChunkStream ==
  ASSUME SockTypes, ServerInv, NEW w \in Workers, NEW c \in Clients, Serves(w, c),
         NEW n \in Nat \ {0}, Stream(c, n), cpc'[c] = cpc[c], ReadChunk(w)
  PROVE  Stream(c, n)'
  <1>1. WorkerStep(w) /\ wpc[w] = "chunks" /\ UNCHANGED <<flight, gone, reply, loc>> /\ Client(w) = c
    BY DEF WorkerStep, RequestStep, ReadChunk, ReadField, Handling, connVars, Serves
  <1>2. PICK next \in Questions, r \in Nat \ {0} :
           /\ Reading(w, c, n, r) /\ Talk(c, next) /\ Len(Read(w, 2)) = 2
           /\ Read(w, 2)[1] = Submission(n)[r + 1] /\ Read(w, 2)[2] = Submission(n)[r + 2]
           /\ Consume(w, 2) /\ UNCHANGED <<flight, gone>> => Arrived(c, n, next, r + 2)'
    BY <1>1, NextField
  <1>0. /\ r = 5 + 2 * Len(ExecutionChunks(c)) /\ PartOfTask(c, n) /\ Len(m_contextMap[c].Body) = 0
        /\ loc[w].num = n /\ HasTaskContext(c)
    BY <1>1, <1>2 DEF Reading, PartOfTask
  <1>. PICK m : m = Len(ExecutionChunks(c))
    OBVIOUS
  <1>3. /\ r = 5 + 2 * m /\ PartOfTask(c, n) /\ Len(m_contextMap[c].Body) = 0 /\ loc[w].num = n
        /\ HasTaskContext(c)
    BY <1>0
  <1>4. m \in 0 .. n - 1
    <2>1. m < n
      BY <1>1, <1>3 DEF ServerInv, HandlerOK, HandlerAt
    <2>2. m \in Nat
      BY <1>3, ServedClient
    <2>. QED  BY <2>1, <2>2
  <1>5. Arrived(c, n, next, 5 + 2 * (m + 1))'
    <2>1. Consume(w, 2)
      BY <1>2 DEF ReadChunk, ReadField
    <2>2. Arrived(c, n, next, r + 2)'
      BY <1>1, <1>2, <2>1
    <2>3. r + 2 = 5 + 2 * (m + 1)
      BY <1>3, <1>4
    <2>. QED  BY <2>2, <2>3
  <1>. DEFINE one == ExecutionChunk(BodyChunk(n, m).NumBytes, BodyChunk(n, m).BufferOffsetInBytes)
              x == [m_contextMap[c] EXCEPT !.ExecutionChunks = Append(@, one)]
  <1>6. SetContext(c, x)
    <2>1. /\ Submission(n)[r + 1].kind = "chunk" /\ Submission(n)[r + 1].half = 1
          /\ Submission(n)[r + 1].val = BodyChunk(n, m).NumBytes
          /\ Submission(n)[r + 2].val = BodyChunk(n, m).BufferOffsetInBytes
      <3>1. \A i \in 0 .. n - 1 :
              /\ Submission(n)[5 + 2 * i + 1].kind = "chunk" /\ Submission(n)[5 + 2 * i + 1].half = 1
              /\ Submission(n)[5 + 2 * i + 1].val = BodyChunk(n, i).NumBytes
              /\ Submission(n)[5 + 2 * i + 2].val = BodyChunk(n, i).BufferOffsetInBytes
        BY SubmissionAt, Zenon
      <3>2. r + 1 = 5 + 2 * m + 1 /\ r + 2 = 5 + 2 * m + 2
        BY <1>3
      <3>. QED  BY <1>4, <3>1, <3>2, Zenon
    <2>2. Numbers(Read(w, 2), "chunk") = {<<BodyChunk(n, m).NumBytes, BodyChunk(n, m).BufferOffsetInBytes>>}
      BY <1>2, <2>1 DEF Numbers
    <2>3. PICK p \in Numbers(Read(w, 2), "chunk") :
            SetContext(Client(w), [Context(w) EXCEPT !.ExecutionChunks = Append(@, ExecutionChunk(p[1], p[2]))])
      BY DEF ReadChunk
    <2>4. p[1] = BodyChunk(n, m).NumBytes /\ p[2] = BodyChunk(n, m).BufferOffsetInBytes
      BY <2>2
    <2>. QED  BY <1>1, <2>3, <2>4 DEF Context
  <1>7. /\ one.State = "InProgress" /\ one.NumBytes = BodyChunk(n, m).NumBytes
        /\ one.BufferOffsetInBytes = BodyChunk(n, m).BufferOffsetInBytes /\ one \in Chunks
    <2>1. BodyChunk(n, m).NumBytes \in Nat /\ BodyChunk(n, m).BufferOffsetInBytes \in Nat
      BY <1>4, ChunkBytes
    <2>. QED  BY <2>1 DEF ExecutionChunk, Chunks, EChunkState
  <1>8. /\ m_contextMap[c] \in Contexts /\ ExecutionChunks(c) \in Seq(Chunks)
    BY <1>3, ServedClient
  <1>. HIDE DEF one
  <1>9. /\ x.ExecutionChunks = Append(ExecutionChunks(c), one) /\ x.Body = m_contextMap[c].Body
        /\ x.Header = m_contextMap[c].Header
    BY <1>8 DEF Contexts, ExecutionChunks
  <1>10. /\ HasTaskContext(c)' /\ ExecutionChunks(c)' = Append(ExecutionChunks(c), one)
         /\ m_contextMap'[c].Body = m_contextMap[c].Body /\ m_contextMap'[c].Header = m_contextMap[c].Header
    BY <1>6, <1>9 DEF SetContext, HasTaskContext, ExecutionChunks
  <1>. HIDE DEF x
  <1>11. /\ Len(Append(ExecutionChunks(c), one)) = m + 1
         /\ \A i \in 1 .. m : Append(ExecutionChunks(c), one)[i] = ExecutionChunks(c)[i]
         /\ Append(ExecutionChunks(c), one)[m + 1] = one
    BY <1>7, <1>8, AppendProperties
  <1>12. PartOfTask(c, n)' /\ Len(ExecutionChunks(c)') = m + 1 /\ Len(m_contextMap'[c].Body) = 0
    <2>1. ASSUME NEW i \in 1 .. m + 1 PROVE ChunkAsSent(ExecutionChunks(c)'[i], n, i)
      <3>1. CASE i \in 1 .. m
        <4>1. ChunkAsSent(ExecutionChunks(c)[i], n, i)
          BY <1>3, <3>1 DEF PartOfTask
        <4>. QED  BY <1>10, <1>11, <3>1, <4>1
      <3>2. CASE i = m + 1
        <4>1. ExecutionChunks(c)'[i] = one /\ i - 1 = m
          BY <1>4, <1>10, <1>11, <3>2
        <4>. QED  BY <1>7, <4>1 DEF ChunkAsSent
      <3>. QED  BY <1>4, <3>1, <3>2
    <2>2. Len(ExecutionChunks(c)') = m + 1 /\ m + 1 <= n
      BY <1>4, <1>10, <1>11
    <2>. QED  BY <1>3, <1>10, <2>1, <2>2 DEF PartOfTask
  <1>13. /\ m + 1 = n => wpc'[w] = "size"
         /\ m + 1 # n => wpc'[w] = "chunks"
    <2>1. wpc \in [Workers -> Points] /\ Context(w).ExecutionChunks = ExecutionChunks(c)
      BY ServedClient DEF ExecutionChunks
    <2>. QED  BY <1>3, <2>1 DEF ReadChunk, Goto
  <1>14. Reading(w, c, n, 5 + 2 * (m + 1))'
    <2>1. Len(ExecutionChunks(c)') = m + 1 /\ loc'[w].num = n
      BY <1>1, <1>3, <1>12
    <2>2. CASE m + 1 = n
      BY <1>12, <1>13, <2>1, <2>2 DEF Reading, AllChunks
    <2>3. CASE m + 1 # n
      BY <1>12, <1>13, <2>1, <2>3 DEF Reading
    <2>. QED  BY <2>2, <2>3
  <1>15. 5 + 2 * (m + 1) \in Nat /\ wpc'[w] \in HandlerPoints \ Answerers /\ wpc[w] \notin Answerers
    BY <1>1, <1>4, <1>13 DEF HandlerPoints, Answerers
  <1>. QED  BY <1>1, <1>2, <1>5, <1>14, <1>15, ReadOn

LEMMA NumBytesStream ==
  ASSUME SockTypes, ServerInv, NEW w \in Workers, NEW c \in Clients, Serves(w, c),
         NEW n \in Nat \ {0}, Stream(c, n), cpc'[c] = cpc[c], ReadNumBytes(w)
  PROVE  Stream(c, n)' /\ UNCHANGED died
  <1>1. WorkerStep(w) /\ wpc[w] = "size" /\ UNCHANGED <<flight, gone, reply, m_contextMap>> /\ Client(w) = c
    BY DEF WorkerStep, RequestStep, ReadNumBytes, ReadField, Handling, connVars, Serves
  <1>2. PICK next \in Questions, r \in Nat \ {0} :
           /\ Reading(w, c, n, r) /\ Talk(c, next) /\ Len(Read(w, 2)) = 2 /\ Read(w, 2) # <<>>
           /\ Head(Read(w, 2)) = Submission(n)[r + 1]
           /\ Consume(w, 2) /\ UNCHANGED <<flight, gone>> => Arrived(c, n, next, r + 2)'
    BY <1>1, NextField
  <1>3. r = 5 + 2 * n /\ AllChunks(c, n) /\ Len(m_contextMap[c].Body) = 0
    BY <1>1, <1>2 DEF Reading
  <1>4. Values(Read(w, 2), "size") = {NumCols}
    <2>1. Head(Read(w, 2)) = Submission(n)[5 + 2 * n + 1]
      BY <1>2, <1>3
    <2>2. /\ Submission(n)[5 + 2 * n + 1].kind = "size" /\ Submission(n)[5 + 2 * n + 1].half = 1
          /\ Submission(n)[5 + 2 * n + 1].val = NumCols
      BY SubmissionAt
    <2>. QED  BY <1>2, <2>1, <2>2 DEF Values
  <1>5. NumCols \in Nat \ {0} /\ HeadLen(n) = 5 + 2 * n + 2 /\ HeadLen(n) \in Nat
    BY Sizes
  <1>6. /\ wpc'[w] = "body" /\ loc'[w].num = NumCols /\ UNCHANGED died
    <2>1. wpc \in [Workers -> Points] /\ loc \in [Workers -> Locals]
      BY ServedClient
    <2>. QED  BY <1>2, <1>4, <1>5, <2>1 DEF ReadNumBytes, Goto, Locals
  <1>7. Arrived(c, n, next, HeadLen(n))'
    <2>1. Consume(w, 2)
      BY <1>2 DEF ReadNumBytes, ReadField
    <2>2. Arrived(c, n, next, r + 2)'
      BY <1>1, <1>2, <2>1
    <2>. QED  BY <1>3, <1>5, <2>2
  <1>8. Reading(w, c, n, HeadLen(n))'
    <2>1. AllChunks(c, n)' /\ Len(m_contextMap'[c].Body) = 0
      BY <1>1, <1>3 DEF AllChunks, PartOfTask, HasTaskContext, ExecutionChunks
    <2>2. HeadLen(n) = HeadLen(n) + 0 /\ 0 <= NumCols
      BY <1>5
    <2>. QED  BY <1>6, <2>1, <2>2 DEF Reading
  <1>. QED  BY <1>1, <1>2, <1>5, <1>6, <1>7, <1>8, ReadOn DEF Answerers, HandlerPoints

LEMMA BodyStream ==
  ASSUME SockTypes, ServerInv, NEW w \in Workers, NEW c \in Clients, Serves(w, c),
         NEW n \in Nat \ {0}, Stream(c, n), cpc'[c] = cpc[c], ReadBody(w)
  PROVE  Stream(c, n)'
  <1>1. WorkerStep(w) /\ wpc[w] = "body" /\ UNCHANGED <<flight, gone, reply>> /\ Client(w) = c
    BY DEF WorkerStep, RequestStep, ReadBody, ReadField, Handling, connVars, Serves
  <1>2. PICK next \in Questions, r \in Nat : Arrived(c, n, next, r) /\ Progress(c, n, r) /\ Talk(c, next)
    BY DEF Stream
  <1>3. Reading(w, c, n, r)
    BY <1>1, <1>2, Alone
  <1>a. PICK m : m = Len(m_contextMap[c].Body)
    OBVIOUS
  <1>4. /\ r = HeadLen(n) + m /\ AllChunks(c, n) /\ m <= NumCols /\ loc[w].num = NumCols /\ HasTaskContext(c)
    BY <1>1, <1>3, <1>a DEF Reading, AllChunks, PartOfTask
  <1>5. /\ Context(w) = m_contextMap[c] /\ Sock(w) = sock[c] /\ m_contextMap[c] \in Contexts
        /\ m_contextMap[c].Body \in Seq(DataUnits) /\ m \in Nat
        /\ wpc \in [Workers -> Points] /\ loc \in [Workers -> Locals]
    BY <1>4, <1>a, ServedClient
  <1>6. /\ NumCols \in Nat /\ HeadLen(n) \in Nat /\ TaskLen(n) = HeadLen(n) + NumCols /\ TaskLen(n) \in Nat
    BY Sizes
  <1>b. PICK got : got = Read(w, NumCols - m)
    OBVIOUS
  <1>7. got \in Seq(DataUnits) /\ Len(got) \in Nat /\ Len(got) <= Len(sock[c]) /\ Len(got) <= NumCols - m
    <2>1. NumCols - m \in Int /\ NumCols - m >= 0 /\ Client(w) \in Clients /\ StreamTypes
      BY <1>1, <1>4, <1>5, <1>6 DEF SockTypes
    <2>. QED  BY <1>5, <1>b, <2>1, ReadType
  <1>8. Consume(w, Len(got)) /\ SetContext(c, [m_contextMap[c] EXCEPT !.Body = m_contextMap[c].Body \o got])
    BY <1>1, <1>4, <1>5, <1>a, <1>b DEF ReadBody, ReadField
  <1>9. Arrived(c, n, next, r + Len(got))'
    <2>1. sock'[c] = Without(sock[c], Len(got))
      BY <1>1, <1>8, SockTypesDef DEF Consume
    <2>. QED  BY <1>1, <1>2, <1>7, <2>1, TakeBytes
  <1>c. PICK k : k = m + Len(got)
    OBVIOUS
  <1>10. k \in Nat /\ k <= NumCols /\ r + Len(got) = HeadLen(n) + k /\ HeadLen(n) + k \in Nat
    <2>1. \A x, y, z, h \in Nat :
            y <= z - x => x + y \in Nat /\ x + y <= z /\ (h + x) + y = h + (x + y) /\ h + (x + y) \in Nat
      OBVIOUS
    <2>2. m \in Nat /\ Len(got) \in Nat /\ NumCols \in Nat /\ HeadLen(n) \in Nat /\ Len(got) <= NumCols - m
      BY <1>5, <1>6, <1>7
    <2>. QED  BY <1>4, <1>c, <2>1, <2>2
  <1>11. Len(m_contextMap[c].Body \o got) = k
    BY <1>5, <1>7, <1>a, <1>c, ConcatProperties
  <1>12. /\ HasTaskContext(c)' /\ m_contextMap'[c].Header = m_contextMap[c].Header
         /\ ExecutionChunks(c)' = ExecutionChunks(c) /\ m_contextMap'[c].Body = m_contextMap[c].Body \o got
    <2>. DEFINE body == m_contextMap[c].Body \o got
                x == [m_contextMap[c] EXCEPT !.Body = body]
    <2>1. HasTaskContext(c)' /\ m_contextMap'[c] = x
      BY <1>8 DEF SetContext, HasTaskContext
    <2>. HIDE DEF body
    <2>2. x.Header = m_contextMap[c].Header /\ x.ExecutionChunks = m_contextMap[c].ExecutionChunks /\ x.Body = body
      BY <1>5 DEF Contexts
    <2>. HIDE DEF x
    <2>. QED  BY <2>1, <2>2 DEF ExecutionChunks, body
  <1>13. AllChunks(c, n)' /\ Len(m_contextMap'[c].Body) = k
    BY <1>4, <1>11, <1>12 DEF AllChunks, PartOfTask
  <1>14. \/ k = NumCols /\ wpc'[w] = "submit"
         \/ k # NumCols /\ wpc'[w] = "body" /\ loc'[w].num = NumCols
    <2>1. AllRead(Context(w).Body \o Read(w, loc[w].num - Len(Context(w).Body)), loc[w].num) <=> k = NumCols
      BY <1>4, <1>5, <1>11, <1>a, <1>b DEF AllRead
    <2>. QED  BY <1>1, <1>4, <1>5, <2>1 DEF ReadBody, Goto
  <1>15. Reading(w, c, n, HeadLen(n) + k)'
    <2>1. CASE k = NumCols
      BY <1>6, <1>13, <1>14, <2>1 DEF Reading, WholeTask
    <2>2. CASE k # NumCols
      BY <1>10, <1>13, <1>14, <2>2 DEF Reading
    <2>. QED  BY <2>1, <2>2
  <1>16. wpc'[w] \in HandlerPoints \ Answerers /\ wpc[w] \notin Answerers
    BY <1>1, <1>14 DEF HandlerPoints, Answerers
  <1>17. Arrived(c, n, next, HeadLen(n) + k)'
    BY <1>9, <1>10
  <1>. QED  BY <1>1, <1>2, <1>10, <1>15, <1>16, <1>17, ReadOn

-----------------------------------------------------------------------------
(* What a handler does once the submission has been read.                    *)

(* The bytes stay where they are, and the task as it is.                     *)
LEMMA AfterSubmission ==
  ASSUME SockTypes, ServerInv, NEW w \in Workers, WorkerStep(w), NEW c \in Clients, Serves(w, c),
         NEW n \in Nat \ {0}, Stream(c, n), UNCHANGED <<sock, flight, gone, m_contextMap>>,
         wpc[w] \in {"submit", "scan", "result", "copy", "write"},
         wpc'[w] \in {"submit", "scan", "result", "copy", "write", "ready"},
         wpc'[w] = "copy" => loc'[w].i <= n
  PROVE  /\ WholeTask(c, n) /\ (wpc[w] = "copy" => loc[w].i <= n)
         /\ \E next \in Questions : Talk(c, next) /\ (Talk(c, next)' => Stream(c, n)')
  <1>1. PICK next \in Questions, r \in Nat : Arrived(c, n, next, r) /\ Progress(c, n, r) /\ Talk(c, next)
    BY DEF Stream
  <1>2. r = TaskLen(n) /\ WholeTask(c, n) /\ (wpc[w] = "copy" => loc[w].i <= n)
    <2>1. Reading(w, c, n, r)
      BY <1>1, Alone
    <2>. QED  BY <2>1 DEF Reading
  <1>3. Arrived(c, n, next, r)'
    BY <1>1, SameBytes
  <1>4. WholeTask(c, n)'
    BY <1>2 DEF WholeTask, AllChunks, PartOfTask, HasTaskContext, ExecutionChunks
  <1>5. Progress(c, n, r)'
    <2>1. CASE wpc'[w] = "ready"
      <3>1. CommunicatorFree(c)'
        BY <2>1, Alone DEF HandlerPoints
      <3>. QED  BY <1>2, <1>4, <3>1 DEF Progress
    <2>2. CASE wpc'[w] # "ready"
      <3>1. Reading(w, c, n, r)'
        BY <1>2, <1>4, <2>2 DEF Reading
      <3>2. Holds(w, c)'
        BY <2>2, Alone DEF HandlerPoints
      <3>. QED  BY <3>1, <3>2 DEF Progress
    <2>. QED  BY <2>1, <2>2
  <1>. QED  BY <1>1, <1>2, <1>3, <1>5 DEF Stream

(* What a client waits for, by where the handler of its request is.          *)
LEMMA WhoWaits ==
  ASSUME NEW c, NEW next, Talk(c, next)
  PROVE  /\ At(c, {"scan"}) /\ ~At(c, {"result"}) => cpc[c] = "status" /\ next = <<>> /\ reply[c] = <<>>
         /\ At(c, {"result"}) /\ ~At(c, {"scan"}) => cpc[c] = "size" /\ next = <<>> /\ reply[c] = <<>>
         /\ At(c, {"copy", "write"}) /\ ~At(c, {"scan", "result"}) =>
              /\ next = <<>> /\ cpc[c] \notin {"ask", "status"}
              /\ cpc[c] = "size" => reply[c] # <<>> /\ Head(reply[c]).kind = "size"
  <1>1. /\ At(c, {"scan"}) => At(c, Answerers) /\ At(c, {"scan", "result"})
        /\ At(c, {"result"}) => At(c, Answerers) /\ At(c, {"scan", "result"})
        /\ At(c, {"copy", "write"}) => At(c, Answerers)
        /\ ~At(c, {"scan", "result"}) => ~At(c, {"scan"}) /\ ~At(c, {"result"})
    BY DEF At, Answerers
  <1>2. CASE cpc[c] \in {"ask", "status"}
    BY <1>1, <1>2 DEF Talk
  <1>3. CASE cpc[c] = "size"
    BY <1>1, <1>3 DEF Talk
  <1>4. CASE cpc[c] \notin {"ask", "status", "size"}
    BY <1>1, <1>4 DEF Talk
  <1>. QED  BY <1>2, <1>3, <1>4

LEMMA SubmitStream ==
  ASSUME SockTypes, ServerInv, NEW w \in Workers, NEW c \in Clients, Serves(w, c),
         NEW n \in Nat \ {0}, Stream(c, n), cpc'[c] = cpc[c], SubmitChunk(w)
  PROVE  Stream(c, n)'
  <1>1. /\ WorkerStep(w) /\ wpc[w] = "submit"
        /\ UNCHANGED <<sock, flight, gone, m_contextMap, reply>>
    BY DEF WorkerStep, RequestStep, SubmitChunk, sockVars, connVars
  <1>2. wpc'[w] \in {"submit", "ready"}
    <2>1. wpc \in [Workers -> Points] /\ "ready" \in Points
      BY ServedClient DEF Points, PoolPoints
    <2>2. CASE Notify(wpc)
      BY <1>1, <2>1, <2>2, NotifyType
    <2>3. CASE Notify([wpc EXCEPT ![w] = "ready"])
      <3>1. [wpc EXCEPT ![w] = "ready"] \in [Workers -> Points] /\ [wpc EXCEPT ![w] = "ready"][w] = "ready"
        BY <2>1
      <3>. QED  BY <2>3, <3>1, NotifyType
    <2>. QED  BY <2>2, <2>3 DEF SubmitChunk
  <1>3. PICK next \in Questions : Talk(c, next) /\ (Talk(c, next)' => Stream(c, n)')
    BY <1>1, <1>2, AfterSubmission
  <1>4. ~At(c, Answerers) /\ ~At(c, Answerers)'
    <2>1. Answerers \subseteq HandlerPoints
      BY DEF Answerers, HandlerPoints
    <2>. QED  BY <1>1, <1>2, <2>1, Alone DEF Answerers
  <1>. QED  BY <1>1, <1>3, <1>4, SameTalk

(* The answer to TaskStatus: a client that waits for it gets one byte.       *)
LEMMA ScanStream ==
  ASSUME SockTypes, ServerInv, NEW w \in Workers, NEW c \in Clients, Serves(w, c),
         NEW n \in Nat \ {0}, Stream(c, n), cpc'[c] = cpc[c], ScanChunk(w) \/ AnswerFinished(w)
  PROVE  Stream(c, n)'
  <1>1. /\ WorkerStep(w) /\ wpc[w] = "scan" /\ Client(w) = c
        /\ UNCHANGED <<sock, flight, gone, m_contextMap>>
    BY DEF WorkerStep, RequestStep, ScanChunk, AnswerFinished, Handling, connVars, Serves
  <1>2. /\ wpc \in [Workers -> Points] /\ reply \in [Clients -> Seq(StreamUnits)]
        /\ Context(w) = m_contextMap[c]
    BY ServedClient, SockTypesDef
  <1>3. wpc'[w] \in {"scan", "ready"}
    BY <1>1, <1>2 DEF ScanChunk, AnswerFinished, Finish
  <1>4. WholeTask(c, n) /\ \E next \in Questions : Talk(c, next) /\ (Talk(c, next)' => Stream(c, n)')
    BY <1>1, <1>3, AfterSubmission
  <1>5. PICK next \in Questions : Talk(c, next) /\ (Talk(c, next)' => Stream(c, n)')
    BY <1>4
  <1>6. /\ Answerers \subseteq HandlerPoints /\ {"scan"} \subseteq HandlerPoints /\ {"result"} \subseteq HandlerPoints
    BY DEF Answerers, HandlerPoints
  <1>7. cpc[c] = "status" /\ next = <<>> /\ reply[c] = <<>>
    <2>1. At(c, {"scan"}) /\ ~At(c, {"result"})
      BY <1>1, <1>6, Alone
    <2>. QED  BY <1>5, <2>1, WhoWaits
  <1>8. CASE wpc'[w] = "scan" /\ UNCHANGED reply
    <2>1. At(c, {"scan"})'
      BY <1>1, <1>6, <1>8, Alone
    <2>. QED  BY <1>5, <1>7, <1>8, <2>1 DEF Talk
  <1>9. ASSUME NEW s \in {"InProgress", "Finished"}, Answer(w, Unit(s, 0)), wpc'[w] = "ready"
        PROVE  Stream(c, n)'
    <2>1. ~At(c, Answerers)'
      BY <1>1, <1>6, <1>9, Alone DEF Answerers
    <2>2. Unit(s, 0) \in Seq(StreamUnits)
      BY UnitType, KindsHas DEF ETaskStatus
    <2>3. reply'[c] = Unit(s, 0)
      BY <1>1, <1>2, <1>7, <1>9, <2>2, ConcatEmptySeq DEF Answer
    <2>. QED  BY <1>5, <1>7, <2>1, <2>3 DEF Talk
  <1>10. CASE AnswerFinished(w)
    BY <1>2, <1>9, <1>10 DEF AnswerFinished, Finish
  <1>11. CASE ScanChunk(w)
    <2>. DEFINE state == Context(w).ExecutionChunks[loc[w].i].State
    <2>1. CASE Passes(state)
      BY <1>1, <1>8, <1>11, <2>1 DEF ScanChunk
    <2>2. CASE ~Passes(state)
      <3>1. loc[w].i \in 1 .. Len(ExecutionChunks(c))
        <4>1. loc[w].i >= 1
          BY <1>1 DEF ServerInv, HandlerOK, HandlerAt
        <4>2. loc[w].i \in Nat /\ loc[w].i <= Len(ExecutionChunks(c))
          BY <1>2, <1>11, ServedClient DEF ScanChunk, ExecutionChunks
        <4>3. Len(ExecutionChunks(c)) \in Nat
          BY <1>4, ServedClient DEF WholeTask, AllChunks, PartOfTask
        <4>. QED  BY <4>1, <4>2, <4>3
      <3>2. state \in {"InProgress", "Done"}
        <4>1. ChunkAsSent(ExecutionChunks(c)[loc[w].i], n, loc[w].i)
          BY <1>4, <3>1 DEF WholeTask, AllChunks, PartOfTask
        <4>. QED  BY <1>2, <4>1 DEF ChunkAsSent, ExecutionChunks
      <3>3. StatusOfChunk[state] = "InProgress"
        BY <2>2, <3>2 DEF Passes, StatusOfChunk
      <3>. HIDE DEF state
      <3>4. Answer(w, Unit(StatusOfChunk[state], 0)) /\ wpc'[w] = "ready"
        BY <1>2, <1>11, <2>2 DEF ScanChunk, Finish, state
      <3>. QED  BY <1>9, <3>3, <3>4
    <2>. QED  BY <2>1, <2>2
  <1>. QED  BY <1>10, <1>11

(* The answer to TaskResult: its number of bytes, and then the bytes.        *)
LEMMA SizeStream ==
  ASSUME SockTypes, ServerInv, NEW w \in Workers, NEW c \in Clients, Serves(w, c),
         NEW n \in Nat \ {0}, Stream(c, n), cpc'[c] = cpc[c], WriteNumBytes(w)
  PROVE  Stream(c, n)'
  <1>1. /\ WorkerStep(w) /\ wpc[w] = "result" /\ Client(w) = c
        /\ UNCHANGED <<sock, flight, gone, m_contextMap>>
    BY DEF WorkerStep, RequestStep, WriteNumBytes, Handling, connVars, Serves
  <1>2. /\ wpc \in [Workers -> Points] /\ reply \in [Clients -> Seq(StreamUnits)]
        /\ loc \in [Workers -> Locals]
    BY ServedClient, SockTypesDef
  <1>3. wpc'[w] = "copy" /\ loc'[w].i = 1 /\ 1 <= n
    BY <1>2 DEF WriteNumBytes, Goto, Locals
  <1>4. PICK next \in Questions : Talk(c, next) /\ (Talk(c, next)' => Stream(c, n)')
    BY <1>1, <1>3, AfterSubmission
  <1>5. WholeTask(c, n)
    BY <1>1, <1>3, AfterSubmission
  <1>6. {"scan"} \subseteq HandlerPoints /\ {"result"} \subseteq HandlerPoints /\ {"scan", "result"} \subseteq HandlerPoints
    BY DEF HandlerPoints
  <1>7. cpc[c] = "size" /\ next = <<>> /\ reply[c] = <<>>
    <2>1. At(c, {"result"}) /\ ~At(c, {"scan"})
      BY <1>1, <1>6, Alone
    <2>. QED  BY <1>4, <2>1, WhoWaits
  <1>8. ~At(c, {"scan", "result"})'
    BY <1>1, <1>3, <1>6, Alone
  <1>9. reply'[c] # <<>> /\ Head(reply'[c]).kind = "size"
    <2>. DEFINE m == Len(Context(w).Body)
    <2>1. m \in Nat /\ Answer(w, Field("size", m))
      BY <1>5, ServedClient DEF WriteNumBytes, WholeTask, AllChunks, PartOfTask
    <2>. HIDE DEF m
    <2>2. /\ Field("size", m) \in Seq(DataUnits) /\ Len(Field("size", m)) = 2
          /\ Field("size", m)[1] = [kind |-> "size", half |-> 1, val |-> m]
      <3>1. Field("size", m) \in Seq(DataUnits) /\ Len(Field("size", m)) = 2
        BY <2>1, StructType, KindsHas DEF Field
      <3>2. Field("size", m)[1] = [kind |-> "size", half |-> 1, val |-> m]
        BY DEF Field, Struct, Unit
      <3>. QED  BY <3>1, <3>2
    <2>3. reply'[c] = Field("size", m)
      BY <1>1, <1>2, <1>7, <2>1, <2>2, ConcatEmptySeq DEF Answer
    <2>. HIDE DEF Field
    <2>4. Field("size", m) # <<>> /\ Head(Field("size", m)) = Field("size", m)[1]
      BY <2>2, EmptySeq
    <2>. QED  BY <2>2, <2>3, <2>4
  <1>10. Talk(c, next)'
    BY <1>7, <1>8, <1>9 DEF Talk
  <1>. QED  BY <1>4, <1>10

(* While it copies and sends, more of the answer at most is there.           *)
LEMMA SendingTalk ==
  ASSUME NEW c, NEW next, Talk(c, next), cpc'[c] = cpc[c],
         At(c, {"copy", "write"}), ~At(c, {"scan", "result"}), ~At(c, {"scan", "result"})',
         reply[c] # <<>> => reply'[c] # <<>> /\ Head(reply'[c]) = Head(reply[c])
  PROVE  Talk(c, next)'
  <1>1. /\ next = <<>> /\ cpc[c] \notin {"ask", "status"}
        /\ cpc[c] = "size" => reply[c] # <<>> /\ Head(reply[c]).kind = "size"
    BY WhoWaits
  <1>2. ~At(c, {"scan"})' /\ ~At(c, {"result"})'
    BY DEF At
  <1>3. CASE cpc[c] = "size"
    BY <1>1, <1>3 DEF Talk
  <1>4. CASE cpc[c] # "size"
    BY <1>1, <1>4 DEF Talk
  <1>. QED  BY <1>3, <1>4

LEMMA CopyStream ==
  ASSUME SockTypes, ServerInv, NEW w \in Workers, NEW c \in Clients, Serves(w, c),
         NEW n \in Nat \ {0}, Stream(c, n), cpc'[c] = cpc[c], CopyChunk(w)
  PROVE  Stream(c, n)'
  <1>1. /\ WorkerStep(w) /\ wpc[w] = "copy" /\ Client(w) = c
        /\ UNCHANGED <<sock, flight, gone, m_contextMap, reply>>
    BY DEF WorkerStep, RequestStep, CopyChunk, Handling, connVars, Serves
  <1>2. /\ wpc \in [Workers -> Points] /\ loc \in [Workers -> Locals] /\ loc[w].i \in Nat
        /\ Context(w).ExecutionChunks = ExecutionChunks(c)
    BY ServedClient DEF ExecutionChunks
  <1>3. /\ loc'[w].i = loc[w].i + 1
        /\ loc[w].i = Len(ExecutionChunks(c)) => wpc'[w] = "write"
        /\ loc[w].i # Len(ExecutionChunks(c)) => wpc'[w] = "copy"
    BY <1>2 DEF CopyChunk, Copied, Goto, Locals
  <1>4. WholeTask(c, n) /\ loc[w].i <= n
    <2>1. PICK next \in Questions, r \in Nat : Progress(c, n, r)
      BY DEF Stream
    <2>2. Reading(w, c, n, r)
      BY <1>1, <2>1, Alone
    <2>. QED  BY <1>1, <2>2 DEF Reading
  <1>5. Len(ExecutionChunks(c)) = n
    BY <1>4 DEF WholeTask, AllChunks
  <1>6. wpc'[w] = "copy" => loc'[w].i <= n
    BY <1>2, <1>3, <1>4, <1>5
  <1>7. wpc'[w] \in {"copy", "write"}
    BY <1>3
  <1>8. PICK next \in Questions : Talk(c, next) /\ (Talk(c, next)' => Stream(c, n)')
    BY <1>1, <1>6, <1>7, AfterSubmission
  <1>9. At(c, {"copy", "write"}) /\ ~At(c, {"scan", "result"}) /\ ~At(c, {"scan", "result"})'
    <2>1. {"copy", "write"} \subseteq HandlerPoints /\ {"scan", "result"} \subseteq HandlerPoints
      BY DEF HandlerPoints
    <2>. QED  BY <1>1, <1>7, <2>1, Alone
  <1>. QED  BY <1>1, <1>8, <1>9, SendingTalk

LEMMA WriteStream ==
  ASSUME SockTypes, ServerInv, NEW w \in Workers, NEW c \in Clients, Serves(w, c),
         NEW n \in Nat \ {0}, Stream(c, n), cpc'[c] = cpc[c], WriteResult(w)
  PROVE  Stream(c, n)'
  <1>1. /\ WorkerStep(w) /\ wpc[w] = "write" /\ Client(w) = c
        /\ UNCHANGED <<sock, flight, gone, m_contextMap>>
    BY DEF WorkerStep, RequestStep, WriteResult, Handling, connVars, Serves
  <1>2. wpc'[w] \in {"write", "ready"}
    BY <1>1, ServedClient DEF WriteResult, Finish
  <1>3. PICK next \in Questions : Talk(c, next) /\ (Talk(c, next)' => Stream(c, n)')
    BY <1>1, <1>2, AfterSubmission
  <1>4. At(c, {"copy", "write"}) /\ ~At(c, {"scan", "result"}) /\ ~At(c, {"scan", "result"})'
    <2>1. {"copy", "write"} \subseteq HandlerPoints /\ {"scan", "result"} \subseteq HandlerPoints
      BY DEF HandlerPoints
    <2>. QED  BY <1>1, <1>2, <2>1, Alone
  <1>5. reply[c] # <<>> => reply'[c] # <<>> /\ Head(reply'[c]) = Head(reply[c])
    <2>1. PICK m \in 0 .. Len(buf[w]) : Answer(w, First(buf[w], m))
      BY DEF WriteResult
    <2>2. buf[w] \in Seq(DataUnits) /\ Len(buf[w]) \in Nat
      BY LenProperties, ServerTypesDef DEF ServerInv
    <2>3. First(buf[w], m) \in Seq(StreamUnits)
      BY <2>2, FirstType, DataUnitsType
    <2>4. reply[c] \in Seq(StreamUnits) /\ reply'[c] = reply[c] \o First(buf[w], m)
      BY <1>1, <2>1, SockTypesDef DEF Answer
    <2>. DEFINE s == reply[c]
                u == First(buf[w], m)
                t == reply'[c]
    <2>. HIDE DEF s, u, t
    <2>5. s \in Seq(StreamUnits) /\ u \in Seq(StreamUnits) /\ t = s \o u
      BY <2>3, <2>4 DEF s, u, t
    <2>6. s # <<>> => t # <<>> /\ Head(t) = Head(s)
      <3>1. s # <<>> => Len(s) \in Nat \ {0} /\ 1 \in 1 .. Len(s) /\ Head(s) = s[1]
        BY <2>5, EmptySeq, LenProperties
      <3>2. /\ t \in Seq(StreamUnits) /\ Len(t) = Len(s) + Len(u) /\ Len(u) \in Nat
            /\ \A k \in 1 .. Len(s) : t[k] = s[k]
        BY <2>5, Joining
      <3>3. s # <<>> => Len(t) # 0 /\ t[1] = s[1]
        BY <3>1, <3>2
      <3>4. t # <<>> => Head(t) = t[1]
        BY <3>2
      <3>. QED  BY <3>1, <3>2, <3>3, <3>4, EmptySeq
    <2>. QED  BY <2>6 DEF s, t
  <1>. QED  BY <1>3, <1>4, <1>5, SendingTalk

-----------------------------------------------------------------------------
(* Every step of a worker keeps every client's stream.                       *)

LEMMA ResetStream ==
  ASSUME NEW w \in Workers, ConnectionReset(w), NEW c
  PROVE  SameTask(c) /\ SameHandler(c) /\ SameStream(c)
  <1>1. UNCHANGED <<wpc, job, loc, m_contextMap, sock, flight, reply, gone>>
    BY DEF ConnectionReset, sockVars, connVars
  <1>. QED  BY <1>1 DEF SameTask, SameHandler, SameStream, Holds, Client

(* No field is cut, so that none is read short.                              *)
LEMMA NoShortRead ==
  ASSUME SockTypes, ServerInv, NEW w \in Workers, NEW c \in Clients, Serves(w, c),
         NEW n \in Nat \ {0}, Stream(c, n)
  PROVE  ~ShortRead(w)
  <1>. SUFFICES ASSUME ShortRead(w) PROVE FALSE
    OBVIOUS
  <1>1. WorkerStep(w) /\ wpc[w] \in {"header", "count", "chunks", "size"}
    BY DEF WorkerStep, RequestStep, ShortRead, ReadField
  <1>2. Len(Read(w, 2)) = 2
    BY <1>1, NextField, Zenon
  <1>3. 2 < 2
    BY <1>2, Zenon DEF ShortRead
  <1>. QED  BY <1>3

LEMMA HandlerStream ==
  ASSUME SockTypes, ServerInv, NEW w \in Workers, WorkerStep(w) \/ ConnectionReset(w),
         NEW c \in Clients, Serves(w, c), NEW n \in 1 .. MaxChunks, Stream(c, n), cpc'[c] = cpc[c]
  PROVE  Stream(c, n)'
  <1>1. n \in Nat \ {0}
    BY ServerAssumption
  <1>2. CASE ConnectionReset(w)
    BY <1>2, ResetStream, Undisturbed
  <1>3. CASE RequestStep(w)
    BY <1>1, <1>3, NoShortRead, RequestStream, HeaderStream, NumChunksStream, ChunkStream, NumBytesStream,
       BodyStream, SubmitStream, ScanStream, SizeStream, CopyStream, WriteStream
    DEF RequestStep
  <1>4. ~PoolStep(w) /\ ~ChunkStep(w)
    BY DEF Serves, HandlerPoints, PoolStep, ChunkStep, Take, FindEmpty, Wait, StartChunk, ComputeChunk, MarkDone
  <1>. QED  BY <1>2, <1>3, <1>4 DEF WorkerStep

LEMMA HandlerSilent ==
  ASSUME SockTypes, ServerInv, NEW w \in Workers, WorkerStep(w) \/ ConnectionReset(w),
         NEW c \in Clients, Serves(w, c), Silent(c), cpc'[c] = cpc[c]
  PROVE  Silent(c)'
  <1>1. wpc[w] = "work" /\ Client(w) = c /\ sock[c] = <<>>
    BY DEF Serves, Silent, CommunicatorFree, Holds
  <1>2. NothingRead(w) \/ ConnectionReset(w)
    BY <1>1 DEF WorkerStep, PoolStep, RequestStep, ChunkStep, Take, FindEmpty, Wait, Sock,
      IgnoreRequest, ReadTaskSubmition, ReadTaskStatus, ReadTaskResult, ReadRequest,
      ReadField, ShortRead, ReadHeader, RejectNumChunks, ReadNumChunks, ReadChunk,
      ReadNumBytes, ReadBody, SubmitChunk, ScanChunk, AnswerFinished, WriteNumBytes, CopyChunk, WriteResult,
      StartChunk, ComputeChunk, MarkDone
  <1>3. CASE ConnectionReset(w)
    BY <1>3, ResetStream, Undisturbed
  <1>4. CASE NothingRead(w)
    <2>1. UNCHANGED <<sock, flight, reply, m_contextMap>> /\ wpc'[w] = "ready"
      BY <1>4, ServedClient DEF NothingRead, StartRequest, Handling, Finish
    <2>2. CommunicatorFree(c)'
      BY <2>1, Alone DEF HandlerPoints
    <2>. QED  BY <2>1, <2>2 DEF Silent, HasTaskContext
  <1>. QED  BY <1>2, <1>3, <1>4

LEMMA WorkerStream ==
  ASSUME SockTypes, ServerInv, NEW w \in Workers, WorkerStep(w) \/ ConnectionReset(w),
         NEW c \in Clients, cpc'[c] = cpc[c]
  PROVE  /\ Silent(c) => Silent(c)'
         /\ \A n \in 1 .. MaxChunks : Stream(c, n) => Stream(c, n)'
  <1>1. CASE Serves(w, c)
    BY <1>1, HandlerStream, HandlerSilent
  <1>2. CASE ~Serves(w, c)
    BY <1>2, OthersStep, Undisturbed
  <1>. QED  BY <1>1, <1>2

-----------------------------------------------------------------------------
(* Every step of a client, and of the network, keeps every client's stream.  *)

LEMMA ServerStill ==
  ASSUME UNCHANGED serverVars, NEW c
  PROVE  SameTask(c) /\ SameHandler(c)
  BY DEF serverVars, SameTask, SameHandler, Holds, Client

LEMMA UndisturbedClient ==
  ASSUME NEW c, SameTask(c), SameHandler(c), SameStream(c), cpc'[c] = cpc[c], ClientStream(c)
  PROVE  ClientStream(c)'
  BY Undisturbed DEF ClientStream

LEMMA PartitionSize ==
  ASSUME WholeRequests
  PROVE  \A n \in Partitions : n \in Nat \ {0} /\ n \in 1 .. MaxChunks
  BY ServerAssumption DEF WholeRequests

(* Nothing of the talk but its end depends on where else the client is.      *)
LEMMA ClientGoesOn ==
  ASSUME NEW c, NEW n, NEW next \in Questions, NEW r \in Nat,
         UNCHANGED serverVars, Arrived(c, n, next, r)', Progress(c, n, r), Talk(c, next)'
  PROVE  Stream(c, n)'
  BY ServerStill, SameProgress DEF Stream

LEMMA SubmitTaskStream ==
  ASSUME WholeRequests, SockTypes, ClientTypes, NEW c \in Clients, Silent(c), SubmitTask(c), UNCHANGED serverVars
  PROVE  ClientStream(c)'
  <1>1. PICK n \in Partitions : Sends(c, Submission(n))
    BY DEF SubmitTask
  <1>2. n \in Nat \ {0}
    BY PartitionSize
  <1>3. /\ Submission(n) \in Seq(DataUnits) /\ Len(Submission(n)) = TaskLen(n) /\ TaskLen(n) \in Nat
    BY <1>2, SubmissionAt, Sizes
  <1>4. /\ flight'[c] = Submission(n) /\ sock'[c] = <<>> /\ reply'[c] = <<>> /\ c \notin gone'
        /\ cpc'[c] = "ask"
    <2>1. flight'[c] = <<>> \o Submission(n)
      BY <1>1, SockTypesDef DEF Sends, Silent
    <2>2. flight'[c] = Submission(n)
      BY <1>3, <2>1, ConcatEmptySeq
    <2>3. cpc'[c] = "ask"
      BY ClientTypesDef DEF SubmitTask, ClientGoto
    <2>. QED  BY <2>2, <2>3 DEF SubmitTask, ClientAt, connVars, Silent
  <1>5. <<>> \in Questions /\ 0 \in Nat /\ Len(<<>>) = 0
    BY EmptySeq DEF Questions
  <1>6. Len(Sent(n, <<>>)) = TaskLen(n) /\ \A k \in 1 .. TaskLen(n) : Sent(n, <<>>)[k] = Submission(n)[k]
    BY <1>2, <1>3, <1>5, SentAt
  <1>7. Arrived(c, n, <<>>, 0)'
    <2>1. 0 + Len(sock'[c]) = 0
      BY <1>4, <1>5
    <2>2. \A k \in 1 .. Len(flight'[c]) : flight'[c][k] = Sent(n, <<>>)[0 + k]
      BY <1>3, <1>4, <1>6
    <2>3. Len(flight'[c]) = Len(Sent(n, <<>>)) - 0 /\ 0 <= Len(Sent(n, <<>>))
      BY <1>3, <1>4, <1>6
    <2>4. \A k \in 1 .. Len(sock'[c]) : FALSE
      BY <1>4, <1>5
    <2>. QED  BY <1>4, <2>1, <2>2, <2>3, <2>4 DEF Arrived
  <1>8. Progress(c, n, 0)
    BY DEF Silent, Progress
  <1>9. Talk(c, <<>>)'
    <2>1. ~At(c, Answerers)'
      <3>1. At(c, Answerers)' <=> At(c, Answerers)
        BY ServerStill, SameProgress
      <3>. QED  BY <3>1 DEF Silent, CommunicatorFree, At
    <2>. QED  BY <1>4, <2>1 DEF Talk
  <1>10. Stream(c, n)'
    BY <1>5, <1>7, <1>8, <1>9, ClientGoesOn
  <1>. QED  BY <1>4, <1>10 DEF ClientStream

LEMMA AskStream ==
  ASSUME WholeRequests, SockTypes, ClientTypes, NEW c \in Clients, NEW n \in Partitions, Stream(c, n),
         AskStatus(c) \/ ReadStatus(c), UNCHANGED serverVars
  PROVE  ClientStream(c)'
  <1>1. PICK next \in Questions, r \in Nat : Arrived(c, n, next, r) /\ Progress(c, n, r) /\ Talk(c, next)
    BY DEF Stream
  <1>2. n \in Nat \ {0} /\ cpc \in [Clients -> ClientPoints] /\ reply \in [Clients -> Seq(StreamUnits)]
    BY PartitionSize, ClientTypesDef, SockTypesDef
  <1>3. \A points : At(c, points)' <=> At(c, points)
    BY ServerStill, SameProgress
  <1>4. /\ <<>> \in Questions /\ Unit("TaskStatus", 0) \in Questions /\ Unit("TaskResult", 0) \in Questions
    BY DEF Questions
  <1>5. CASE AskStatus(c)
    <2>1. /\ next = <<>> /\ reply[c] = <<>> /\ ~At(c, Answerers) /\ c \notin gone /\ cpc'[c] = "status"
          /\ Sends(c, Unit("TaskStatus", 0)) /\ UNCHANGED <<sock, reply, gone>>
      BY <1>1, <1>2, <1>5 DEF AskStatus, ClientAt, ClientGoto, Talk, connVars
    <2>2. Arrived(c, n, Unit("TaskStatus", 0), r)'
      BY <1>1, <1>2, <1>4, <2>1, SendQuestion
    <2>3. Talk(c, Unit("TaskStatus", 0))'
      BY <1>3, <2>1 DEF Talk
    <2>4. Stream(c, n)'
      BY <1>1, <1>4, <2>2, <2>3, ClientGoesOn
    <2>. QED  BY <2>1, <2>4 DEF ClientStream
  <1>6. CASE ReadStatus(c)
    <2>1. /\ cpc[c] = "status" /\ reply[c] # <<>> /\ c \notin gone /\ UNCHANGED <<sock, gone>>
          /\ reply'[c] = AfterByte(reply[c])
      BY <1>2, <1>6 DEF ReadStatus, ClientAt, connVars
    <2>2. next = <<>> /\ ~At(c, Answerers) /\ \E s \in {"InProgress", "Finished"} : reply[c] = Unit(s, 0)
      BY <1>1, <2>1 DEF Talk
    <2>3. PICK s \in {"InProgress", "Finished"} : reply[c] = Unit(s, 0)
      BY <2>2
    <2>4. StatusOf(Head(reply[c])) = {s} /\ reply'[c] = <<>>
      BY <2>1, <2>3 DEF Unit, StatusOf, ETaskStatus, AfterByte
    <2>5. AfterStatus(c, s)
      BY <1>6, <2>4 DEF ReadStatus
    <2>6. CASE s = "Finished"
      <3>1. Sends(c, Unit("TaskResult", 0)) /\ cpc'[c] = "size"
        BY <1>2, <2>5, <2>6 DEF AfterStatus, ClientGoto
      <3>2. Arrived(c, n, Unit("TaskResult", 0), r)'
        BY <1>1, <1>2, <1>4, <2>1, <2>2, <3>1, SendQuestion
      <3>3. Talk(c, Unit("TaskResult", 0))'
        BY <1>3, <2>2, <2>4, <3>1 DEF Talk
      <3>4. Stream(c, n)'
        BY <1>1, <1>4, <3>2, <3>3, ClientGoesOn
      <3>. QED  BY <3>1, <3>4 DEF ClientStream
    <2>7. CASE s = "InProgress"
      <3>1. UNCHANGED flight /\ cpc'[c] = "ask"
        BY <1>2, <2>5, <2>7 DEF AfterStatus, ClientGoto
      <3>2. Arrived(c, n, <<>>, r)'
        BY <1>1, <2>1, <2>2, <3>1, SameBytes
      <3>3. Talk(c, <<>>)'
        BY <1>3, <2>2, <2>4, <3>1 DEF Talk
      <3>4. Stream(c, n)'
        BY <1>1, <1>4, <3>2, <3>3, ClientGoesOn
      <3>. QED  BY <3>1, <3>4 DEF ClientStream
    <2>. QED  BY <2>6, <2>7
  <1>. QED  BY <1>5, <1>6

LEMMA EndStream ==
  ASSUME SockTypes, ClientTypes, NEW c \in Clients, NEW n \in Partitions, Stream(c, n),
         ReadResultSize(c) \/ ReadResult(c) \/ Leave(c), UNCHANGED serverVars
  PROVE  ClientStream(c)'
  <1>1. PICK next \in Questions, r \in Nat : Arrived(c, n, next, r) /\ Progress(c, n, r) /\ Talk(c, next)
    BY DEF Stream
  <1>2. cpc \in [Clients -> ClientPoints]
    BY ClientTypesDef
  <1>3. UNCHANGED <<sock, flight, gone>>
    BY DEF ReadResultSize, ReadResult, Leave, Closes, connVars
  <1>4. next = <<>> /\ ~At(c, {"scan", "result"})
    <2>1. ~At(c, Answerers) => ~At(c, {"scan", "result"})
      BY DEF At, Answerers
    <2>2. CASE ReadResultSize(c)
      <3>1. cpc[c] = "size" /\ reply[c] # <<>>
        BY <2>2 DEF ReadResultSize, ClientAt
      <3>. QED  BY <1>1, <3>1 DEF Talk
    <2>3. CASE ReadResult(c) \/ Leave(c)
      <3>1. cpc[c] \in {"body", "ended"}
        BY <2>3 DEF ReadResult, Leave, ClientAt
      <3>. QED  BY <1>1, <3>1 DEF Talk
    <2>. QED  BY <2>2, <2>3
  <1>5. cpc'[c] \in {"body", "threw", "ended", "left"}
    BY <1>2 DEF ReadResultSize, ReadResult, Leave, ClientGoto
  <1>6. Arrived(c, n, next, r)'
    BY <1>1, <1>3, SameBytes
  <1>7. Talk(c, next)'
    <2>1. At(c, {"scan", "result"})' <=> At(c, {"scan", "result"})
      BY ServerStill, SameProgress
    <2>. QED  BY <1>4, <1>5, <2>1 DEF Talk
  <1>8. Stream(c, n)'
    BY <1>1, <1>6, <1>7, ClientGoesOn
  <1>. QED  BY <1>5, <1>8 DEF ClientStream

(* A client whose bytes stop arriving.                                       *)
LEMMA LostStream ==
  ASSUME SockTypes, NEW c \in Clients, ClientStream(c), Disappear(c), cpc'[c] = cpc[c], UNCHANGED serverVars
  PROVE  ClientStream(c)'
  <1>1. UNCHANGED <<sock, reply>> /\ flight'[c] = <<>>
    BY SockTypesDef DEF Disappear
  <1>2. SameTask(c) /\ SameHandler(c)
    BY ServerStill
  <1>3. Silent(c) => Silent(c)'
    BY <1>1, <1>2, SameProgress DEF Silent
  <1>4. ASSUME NEW n \in Partitions, Stream(c, n) PROVE Stream(c, n)'
    <2>1. PICK next \in Questions, r \in Nat : Arrived(c, n, next, r) /\ Progress(c, n, r) /\ Talk(c, next)
      BY <1>4 DEF Stream
    <2>2. Arrived(c, n, next, r)'
      BY <2>1, BytesLost
    <2>3. Talk(c, next)'
      <3>1. \A points : At(c, points)' <=> At(c, points)
        BY <1>2, SameProgress
      <3>. QED  BY <1>1, <2>1, <3>1 DEF Talk
    <2>. QED  BY <2>1, <2>2, <2>3, ClientGoesOn
  <1>. QED  BY <1>3, <1>4 DEF ClientStream

LEMMA ArriveStream ==
  ASSUME WholeRequests, SockTypes, NEW c \in Clients, ClientStream(c), Arrive(c),
         cpc'[c] = cpc[c], UNCHANGED serverVars
  PROVE  ClientStream(c)'
  <1>1. ~Silent(c)
    BY EmptySeq DEF Arrive, Pieces, Silent
  <1>2. PICK n \in Partitions : Stream(c, n)
    BY <1>1 DEF ClientStream
  <1>3. PICK next \in Questions, r \in Nat : Arrived(c, n, next, r) /\ Progress(c, n, r) /\ Talk(c, next)
    BY <1>2 DEF Stream
  <1>4. Arrived(c, n, next, r)'
    BY <1>3, BytesArrive, PartitionSize DEF WholeRequests
  <1>5. Talk(c, next)'
    <2>1. \A points : At(c, points)' <=> At(c, points)
      BY ServerStill, SameProgress
    <2>2. UNCHANGED reply
      BY DEF Arrive
    <2>. QED  BY <1>3, <2>1, <2>2 DEF Talk
  <1>6. Stream(c, n)'
    BY <1>3, <1>4, <1>5, ClientGoesOn
  <1>. QED  BY <1>1, <1>6 DEF ClientStream

LEMMA OtherClients ==
  ASSUME SockTypes, ClientTypes, NEW c \in Clients, NEW d \in Clients, c # d,
         \/ ClientStep(c) \/ Leave(c) \/ Quit(c)
         \/ (Arrive(c) \/ ResetByPeer(c)) /\ UNCHANGED clientVars
  PROVE  SameStream(d) /\ cpc'[d] = cpc[d]
  <1>1. SameStream(d)
    BY SockTypesDef
    DEF ClientStep, Connect, ConnectFails, GiveUp, SubmitTask, AskStatus, ReadStatus, AfterStatus, ReadResultSize,
      ReadResult, Leave, Quit, Arrive, ResetByPeer, Disappear, Connects, Closes, Sends, SameStream, sockVars, connVars
  <1>2. cpc'[d] = cpc[d]
    BY ClientTypesDef
    DEF ClientStep, Connect, ConnectFails, GiveUp, SubmitTask, AskStatus, ReadStatus, AfterStatus, ReadResultSize,
      ReadResult, Leave, Quit, ClientGoto, clientVars
  <1>. QED  BY <1>1, <1>2

(* The steps before a client has submitted anything.                         *)
LEMMA ConnectStream ==
  ASSUME SockTypes, ClientTypes, NEW c \in Clients, ClientStream(c), Connect(c) \/ ConnectFails(c) \/ GiveUp(c),
         UNCHANGED serverVars
  PROVE  ClientStream(c)'
  <1>1. cpc[c] = "start" /\ UNCHANGED <<flight, sock, reply>>
    BY DEF Connect, ConnectFails, GiveUp, ClientAt, sockVars
  <1>2. cpc'[c] \in {"start", "submit", "failed"}
    BY <1>1, ClientTypesDef DEF Connect, ConnectFails, GiveUp, ClientGoto
  <1>3. Silent(c)'
    BY <1>1, ServerStill, SameProgress DEF ClientStream, Silent
  <1>. QED  BY <1>2, <1>3 DEF ClientStream

LEMMA OwnStream ==
  ASSUME WholeRequests, SockTypes, ClientTypes, NEW c \in Clients, ClientStream(c),
         ClientSide(c) \/ Network(c)
  PROVE  ClientStream(c)'
  <1>0. UNCHANGED serverVars
    BY DEF ClientSide, Network
  <1>1. CASE Connect(c) \/ ConnectFails(c) \/ GiveUp(c)
    BY <1>0, <1>1, ConnectStream
  <1>2. CASE SubmitTask(c)
    <2>1. Silent(c)
      BY <1>2 DEF SubmitTask, ClientAt, ClientStream
    <2>. QED  BY <1>0, <1>2, <2>1, SubmitTaskStream
  <1>3. CASE AskStatus(c) \/ ReadStatus(c)
    <2>1. PICK n \in Partitions : Stream(c, n)
      BY <1>3 DEF AskStatus, ReadStatus, ClientAt, ClientStream
    <2>. QED  BY <1>0, <1>3, <2>1, AskStream
  <1>4. CASE ReadResultSize(c) \/ ReadResult(c) \/ Leave(c)
    <2>1. PICK n \in Partitions : Stream(c, n)
      BY <1>4 DEF ReadResultSize, ReadResult, Leave, ClientAt, ClientStream
    <2>. QED  BY <1>0, <1>4, <2>1, EndStream
  <1>5. CASE Quit(c) \/ (ResetByPeer(c) /\ UNCHANGED clientVars)
    <2>1. Disappear(c) /\ cpc'[c] = cpc[c]
      BY <1>5 DEF Quit, ResetByPeer, clientVars
    <2>. QED  BY <1>0, <2>1, LostStream
  <1>6. CASE Arrive(c) /\ UNCHANGED clientVars
    BY <1>0, <1>6, ArriveStream DEF clientVars
  <1>. QED  BY <1>1, <1>2, <1>3, <1>4, <1>5, <1>6 DEF ClientSide, ClientStep, Network

(* The steps of Init() and of the poll thread.                               *)
LEMMA PollStream ==
  ASSUME SockTypes, ServerInv, InitStep \/ PollStep \/ AcceptFails, NEW c \in Clients
  PROVE  SameTask(c) /\ SameHandler(c) /\ SameStream(c)
  <1>. ServerTypes /\ PoolUnborn
    BY DEF ServerInv
  <1>1. UNCHANGED <<job, loc, m_contextMap, sock, flight, reply, gone>>
    BY DEF InitStep, PollStep, StartListening, StartClientThread, MakePool, PollRwClients, SubmitWork,
      AcceptFails, sockVars, connVars
  <1>2. \A w \in Workers : wpc'[w] = wpc[w] \/ (wpc[w] \in PoolPoints /\ wpc'[w] \in PoolPoints)
    <2>1. CASE SubmitWork
      <3>1. wpc \in [Workers -> Points]
        BY ServerTypesDef
      <3>2. \A w \in Workers : wpc'[w] = wpc[w] \/ (wpc[w] = "waiting" /\ wpc'[w] = "ready")
        BY <2>1, <3>1, NotifyType DEF SubmitWork
      <3>. QED  BY <3>2 DEF PoolPoints
    <2>2. CASE MakePool
      BY <2>2 DEF MakePool, PoolUnborn, PoolPoints
    <2>. QED
      BY <2>1, <2>2 DEF InitStep, PollStep, StartListening, StartClientThread, PollRwClients, AcceptFails
  <1>. QED  BY <1>1, <1>2 DEF SameTask, SameHandler, SameStream, Holds, Client, PoolPoints, HandlerPoints

LEMMA NextStream ==
  ASSUME WholeRequests, TypeInv, StreamInv, [Next]_vars
  PROVE  StreamInv'
  <1>. SockTypes /\ ClientTypes /\ ServerInv
    BY DEF TypeInv
  <1>. SUFFICES ASSUME NEW d \in Clients PROVE ClientStream(d)'
    BY DEF StreamInv
  <1>0. ClientStream(d)
    BY DEF StreamInv
  <1>1. CASE ServerSide
    <2>1. cpc'[d] = cpc[d]
      BY <1>1 DEF ServerSide, clientVars
    <2>2. CASE InitStep \/ PollStep \/ AcceptFails
      BY <1>0, <2>1, <2>2, PollStream, UndisturbedClient
    <2>3. ASSUME NEW w \in Workers, WorkerStep(w) \/ ConnectionReset(w) PROVE ClientStream(d)'
      BY <1>0, <2>1, <2>3, WorkerStream, PartitionSize DEF ClientStream
    <2>. QED  BY <1>1, <2>2, <2>3 DEF ServerSide, ServerStep
  <1>2. ASSUME NEW c \in Clients, ClientSide(c) \/ Network(c)
        PROVE  ClientStream(d)'
    <2>1. CASE c = d
      BY <1>0, <1>2, <2>1, OwnStream
    <2>2. CASE c # d
      <3>1. SameStream(d) /\ cpc'[d] = cpc[d]
        BY <1>2, <2>2, OtherClients DEF ClientSide, Network
      <3>2. SameTask(d) /\ SameHandler(d)
        BY <1>2, ServerStill DEF ClientSide, Network
      <3>. QED  BY <1>0, <3>1, <3>2, UndisturbedClient
    <2>. QED  BY <2>1, <2>2
  <1>3. CASE UNCHANGED vars
    <2>1. SameTask(d) /\ SameHandler(d)
      BY <1>3, ServerStill DEF vars
    <2>2. SameStream(d) /\ cpc'[d] = cpc[d]
      BY <1>3 DEF vars, sockVars, connVars, clientVars, SameStream
    <2>. QED  BY <1>0, <2>1, <2>2, UndisturbedClient
  <1>. QED  BY <1>1, <1>2, <1>3 DEF Next, Over

LEMMA InitStream == Init => StreamInv
  BY DEF Init, SockInit, ClientInit, ServerInit, StreamInv, ClientStream, Silent, CommunicatorFree, Holds,
    HandlerPoints, HasTaskContext

LEMMA StreamInvariant == ASSUME WholeRequests PROVE Spec => [](TypeInv /\ StreamInv)
  <1>1. TypeInv /\ StreamInv /\ [Next]_vars => StreamInv'
    BY NextStream
  <1>. QED  BY <1>1, InitStream, TypeInvariant, PTL DEF Spec

-----------------------------------------------------------------------------
(* What follows from where the readers are.                                  *)

(* The poll thread queues a client's job as often as it finds bytes unread,  *)
(* and the workers take such jobs at any time.  Yet none that gets hold of   *)
(* the CommunicatorMutex finds the middle of a submission: its first byte is *)
(* a request, as UpdateClients assumes.                                      *)
THEOREM ReadersKeepStep == ASSUME WholeRequests PROVE Spec => []RequestsInStep
  <1>1. ASSUME TypeInv, StreamInv, NEW w \in Workers,
               wpc[w] = "work", CommunicatorFree(Client(w)), Sock(w) # <<>>
        PROVE  Head(Sock(w)).kind \in ERequestType
    <2>1. PICK c \in Clients : c = Client(w)
      BY <1>1, WorkerClient DEF TypeInv, ServerInv
    <2>2. sock[c] # <<>> /\ sock[c] \in Seq(DataUnits) /\ Sock(w) = sock[c] /\ CommunicatorFree(c)
      BY <1>1, <2>1, SockTypesDef DEF Sock, TypeInv
    <2>3. PICK n \in Partitions : Stream(c, n)
      BY <1>1, <2>2 DEF StreamInv, ClientStream, Silent
    <2>4. n \in Nat \ {0}
      BY PartitionSize
    <2>5. PICK next \in Questions, r \in Nat : Arrived(c, n, next, r) /\ Progress(c, n, r)
      BY <2>3 DEF Stream
    <2>6. r = 0 \/ r = TaskLen(n)
      BY <2>2, <2>5 DEF Progress, CommunicatorFree
    <2>7. Len(sock[c]) \in Nat /\ 1 \in 1 .. Len(sock[c]) /\ Head(sock[c]) = sock[c][1]
      BY <2>2, EmptySeq, LenProperties
    <2>8. /\ Len(Sent(n, next)) = TaskLen(n) + Len(next) /\ Len(next) \in {0, 1}
          /\ (Len(next) = 0 <=> next = <<>>) /\ TaskLen(n) \in Nat /\ 1 \in 1 .. TaskLen(n)
      <3>1. TaskLen(n) \in Nat /\ 1 \in 1 .. TaskLen(n)
        BY <2>4, Sizes
      <3>. QED  BY <2>4, <3>1, SentAt
    <2>9. sock[c][1] = Sent(n, next)[r + 1] /\ r + 1 <= Len(Sent(n, next))
      BY <2>5, <2>7, <2>8 DEF Arrived
    <2>10. CASE r = 0
      <3>1. Sent(n, next)[1] = Submission(n)[1]
        BY <2>4, <2>8, SentAt
      <3>2. Submission(n)[1].kind = "TaskSubmition"
        BY <2>4, SubmissionAt
      <3>3. r + 1 = 1
        BY <2>10
      <3>. QED  BY <2>2, <2>7, <2>9, <3>1, <3>2, <3>3 DEF ERequestType
    <2>11. CASE r = TaskLen(n)
      <3>1. next # <<>>
        BY <2>8, <2>9, <2>11
      <3>2. Sent(n, next)[TaskLen(n) + 1] = next[1] /\ next[1].kind \in {"TaskStatus", "TaskResult"}
        BY <2>4, <3>1, SentAt
      <3>. QED  BY <2>2, <2>7, <2>9, <2>11, <3>2 DEF ERequestType
    <2>. QED  BY <2>6, <2>10, <2>11
  <1>2. TypeInv /\ StreamInv => RequestsInStep
    BY <1>1 DEF RequestsInStep
  <1>. QED  BY <1>2, StreamInvariant, PTL

(* A delegate that has a job for a chunk finds the whole task of its client, *)
(* as the client has divided it.                                             *)
LEMMA DelegateTask ==
  ASSUME WholeRequests, TypeInv, ChunkInv, StreamInv, NEW w \in Workers, wpc[w] \in ChunkPoints
  PROVE  /\ Client(w) \in Clients /\ job[w] = Chunk(Client(w), job[w].chunk)
         /\ \E n \in Partitions : WholeTask(Client(w), n) /\ job[w].chunk \in 1 .. n
  <1>. SockTypes /\ ServerInv /\ ServerTypes /\ JobOK /\ ChunksKnown /\ HandlerOK
    BY DEF TypeInv, ServerInv
  <1>1. PICK c \in Clients, i \in 1 .. MaxChunks : job[w] = Chunk(c, i)
    BY DEF JobOK
  <1>2. Client(w) = c /\ job[w].chunk = i /\ job[w].what = "chunk" /\ job[w].client = c
    BY <1>1, ChunkJobFields DEF Client
  <1>3. HasTaskContext(c) /\ i \in DOMAIN ExecutionChunks(c)
    BY <1>2 DEF ChunksKnown, Known, HasTaskContext
  <1>4. ~NotYet(c, i)
    BY <1>1, <1>3 DEF ChunkInv, PresentUntilDone, Present, HasTaskContext
  <1>5. PICK n \in Partitions : Stream(c, n)
    BY <1>3 DEF StreamInv, ClientStream, Silent
  <1>6. PICK r : Progress(c, n, r)
    BY <1>5 DEF Stream
  <1>7. WholeTask(c, n)
    <2>1. CASE \E v \in Workers : Holds(v, c) /\ Reading(v, c, n, r)
      <3>1. PICK v \in Workers : Holds(v, c) /\ Reading(v, c, n, r)
        BY <2>1
      <3>2. wpc[v] \notin {"header", "count"}
        BY <1>3, <3>1 DEF HandlerOK, HandlerAt, Holds
      <3>3. wpc[v] \notin {"chunks", "size", "body"}
        BY <1>4, <3>1 DEF NotYet, Submitting
      <3>. QED  BY <3>1, <3>2, <3>3 DEF Reading
    <2>. QED  BY <1>3, <1>6, <2>1 DEF Progress
  <1>8. i \in 1 .. n
    <2>1. ExecutionChunks(c) \in Seq(Chunks)
      BY <1>3, ContextType, ServerTypesDef DEF HasTaskContext, ExecutionChunks
    <2>. QED  BY <1>3, <1>7, <2>1 DEF WholeTask, AllChunks
  <1>. QED  BY <1>1, <1>2, <1>7, <1>8

(* The columns it works on are those of the client's part.                   *)
LEMMA DelegatePart ==
  ASSUME WholeRequests, TypeInv, NEW w \in Workers, NEW n \in Partitions,
         WholeTask(Client(w), n), job[w].chunk \in 1 .. n
  PROVE  /\ Columns(w) = Units(Part(NumCols, n, job[w].chunk - 1))
         /\ Context(w).Header = NumRows /\ DOMAIN Context(w).Body = 1 .. NumCols
         /\ job[w].chunk - 1 \in 0 .. n - 1 /\ n \in Nat \ {0}
  <1>. DEFINE c == Client(w)
              i == job[w].chunk
              chunk == Context(w).ExecutionChunks[i]
  <1>1. n \in Nat \ {0} /\ i - 1 \in 0 .. n - 1
    BY PartitionSize
  <1>2. ChunkAsSent(chunk, n, i)
    BY DEF WholeTask, AllChunks, PartOfTask, ExecutionChunks, Context
  <1>3. ChunkColumns(chunk, NumRows) = ChunkColumns(BodyChunk(n, i - 1), NumRows)
    BY <1>2 DEF ChunkAsSent, ChunkColumns, ChunkNumColumns, TaskColumnOffset
  <1>4. ChunkColumns(BodyChunk(n, i - 1), NumRows) = Part(NumCols, n, i - 1)
    BY <1>1, DelegateColumns
  <1>5. Context(w).Header = NumRows
    BY DEF WholeTask, AllChunks, PartOfTask, Context
  <1>6. DOMAIN Context(w).Body = 1 .. NumCols
    <2>1. m_contextMap[c] \in Contexts /\ Len(m_contextMap[c].Body) = NumCols
      BY ServerTypesDef DEF TypeInv, ServerInv, WholeTask, AllChunks, PartOfTask, HasTaskContext
    <2>2. m_contextMap[c].Body \in Seq(DataUnits)
      BY <2>1, ContextType
    <2>. QED  BY <2>1, <2>2, LenProperties DEF Context
  <1>. QED  BY <1>1, <1>3, <1>4, <1>5, <1>6 DEF Columns

LEMMA UnitsInside ==
  ASSUME NEW n \in Nat \ {0}, NEW i \in 0 .. n - 1
  PROVE  Units(Part(NumCols, n, i)) \subseteq 1 .. NumCols
  <1>1. NumCols \in Nat
    BY MatrixAssumption
  <1>2. UNION {Part(NumCols, n, j) : j \in 0 .. n - 1} = 0 .. NumCols - 1
    BY <1>1, PartsPartition
  <1>3. Part(NumCols, n, i) \subseteq 0 .. NumCols - 1
    BY <1>2, Zenon
  <1>4. \A col \in 0 .. NumCols - 1 : col + 1 \in 1 .. NumCols
    BY <1>1
  <1>. QED  BY <1>3, <1>4, Zenon DEF Units

(* A delegate works inside the body it has been given, whatever other jobs   *)
(* and requests of its client are under way.                                 *)
THEOREM DelegatesStayInside == ASSUME WholeRequests PROVE Spec => []ChunksInsideBody
  <1>1. ASSUME TypeInv, ChunkInv, StreamInv, NEW w \in Workers, wpc[w] = "compute"
        PROVE  Columns(w) \subseteq DOMAIN Context(w).Body
    <2>1. PICK n \in Partitions : WholeTask(Client(w), n) /\ job[w].chunk \in 1 .. n
      BY <1>1, DelegateTask DEF ChunkPoints
    <2>2. /\ Columns(w) = Units(Part(NumCols, n, job[w].chunk - 1))
          /\ DOMAIN Context(w).Body = 1 .. NumCols
          /\ job[w].chunk - 1 \in 0 .. n - 1 /\ n \in Nat \ {0}
      BY <1>1, <2>1, DelegatePart
    <2>. QED  BY <2>2, UnitsInside
  <1>2. TypeInv /\ ChunkInv /\ StreamInv => ChunksInsideBody
    BY <1>1 DEF ChunksInsideBody
  <1>. QED  BY <1>2, ChunkInvariant, StreamInvariant, PTL

(* Delegates that run at the same time for one client never write to the     *)
(* same column, although each holds the mutex of its own chunk only.         *)
THEOREM DelegatesWorkApart == ASSUME WholeRequests PROVE Spec => []DelegatesApart
  <1>1. ASSUME TypeInv, ChunkInv, StreamInv, NEW v \in Workers, NEW w \in Workers, v # w,
               wpc[v] = "compute", wpc[w] = "compute", Client(v) = Client(w)
        PROVE  Columns(v) \cap Columns(w) = {}
    <2>. DEFINE i == job[v].chunk - 1
                j == job[w].chunk - 1
    <2>1. PICK n \in Partitions : WholeTask(Client(w), n) /\ job[w].chunk \in 1 .. n
      BY <1>1, DelegateTask DEF ChunkPoints
    <2>2. PICK m \in Partitions : WholeTask(Client(v), m) /\ job[v].chunk \in 1 .. m
      BY <1>1, DelegateTask DEF ChunkPoints
    <2>3. m = n
      BY <1>1, <2>1, <2>2 DEF WholeTask, AllChunks
    <2>4. /\ Columns(v) = Units(Part(NumCols, n, i)) /\ Columns(w) = Units(Part(NumCols, n, j))
          /\ i \in 0 .. n - 1 /\ j \in 0 .. n - 1 /\ n \in Nat \ {0}
      BY <1>1, <2>1, <2>2, <2>3, DelegatePart
    <2>5. job[v].chunk # job[w].chunk
      <3>1. job[v] = Chunk(Client(v), job[v].chunk) /\ job[w] = Chunk(Client(w), job[w].chunk)
        BY <1>1, DelegateTask DEF ChunkPoints
      <3>2. job[v].what = "chunk"
        BY <3>1, ChunkJobFields
      <3>. QED  BY <1>1, <3>1, <3>2 DEF ChunkInv, TakenApart
    <2>6. i # j
      BY <2>1, <2>2, <2>5
    <2>. HIDE DEF i, j
    <2>7. NumCols \in Nat
      BY MatrixAssumption
    <2>8. Part(NumCols, n, i) \cap Part(NumCols, n, j) = {}
      BY <2>4, <2>6, <2>7, PartsPartition
    <2>9. Part(NumCols, n, i) \subseteq Nat /\ Part(NumCols, n, j) \subseteq Nat
      <3>1. UNION {Part(NumCols, n, k) : k \in 0 .. n - 1} = 0 .. NumCols - 1
        BY <2>4, <2>7, PartsPartition
      <3>2. Part(NumCols, n, i) \subseteq 0 .. NumCols - 1 /\ Part(NumCols, n, j) \subseteq 0 .. NumCols - 1
        BY <2>4, <3>1, Zenon
      <3>. QED  BY <2>7, <3>2
    <2>10. \A S, T \in SUBSET Nat : S \cap T = {} => Units(S) \cap Units(T) = {}
      BY DEF Units
    <2>. QED  BY <2>4, <2>8, <2>9, <2>10
  <1>2. TypeInv /\ ChunkInv /\ StreamInv => DelegatesApart
    BY <1>1 DEF DelegatesApart
  <1>. QED  BY <1>2, ChunkInvariant, StreamInvariant, PTL

(* What the server copies of a chunk lies in the body.                       *)
LEMMA CopiesInside ==
  ASSUME TypeInv, NEW w \in Workers, NEW n \in Nat \ {0}, WholeTask(Client(w), n), loc[w].i \in 1 .. n
  PROVE  Units(ChunkExtent(Context(w).ExecutionChunks[loc[w].i])) \subseteq DOMAIN Context(w).Body
  <1>. DEFINE c == Client(w)
              i == loc[w].i
              chunk == Context(w).ExecutionChunks[i]
  <1>1. i - 1 \in 0 .. n - 1
    OBVIOUS
  <1>2. ChunkAsSent(chunk, n, i)
    BY DEF WholeTask, AllChunks, PartOfTask, ExecutionChunks, Context
  <1>3. ChunkExtent(chunk) = ChunkExtent(BodyChunk(n, i - 1))
    BY <1>2 DEF ChunkAsSent, ChunkExtent
  <1>4. ChunkExtent(BodyChunk(n, i - 1)) = Part(NumCols, n, i - 1)
    BY <1>1, ExtentColumns
  <1>5. DOMAIN Context(w).Body = 1 .. NumCols
    <2>1. m_contextMap[c] \in Contexts /\ Len(m_contextMap[c].Body) = NumCols
      BY ServerTypesDef DEF TypeInv, ServerInv, WholeTask, AllChunks, PartOfTask, HasTaskContext
    <2>2. m_contextMap[c].Body \in Seq(DataUnits)
      BY <2>1, ContextType
    <2>. QED  BY <2>1, <2>2, LenProperties DEF Context
  <1>6. Units(Part(NumCols, n, i - 1)) \subseteq 1 .. NumCols
    BY <1>1, UnitsInside
  <1>. QED  BY <1>3, <1>4, <1>5, <1>6

(* A worker does not end the process: it reads no field short, no number of  *)
(* bytes that is 0, and nothing behind the end of a body.                    *)
LEMMA WorkerSurvives ==
  ASSUME WholeRequests, TypeInv, ChunkInv, StreamInv, NEW w \in Workers, WorkerStep(w), UNCHANGED cpc
  PROVE  UNCHANGED died
  <1>. SockTypes /\ ServerInv /\ ServerTypes /\ JobOK /\ HandlerOK
    BY DEF TypeInv, ServerInv
  <1>1. CASE ReadTaskResult(w) \/ ShortRead(w) \/ ReadNumBytes(w) \/ CopyChunk(w)
    <2>1. /\ wpc[w] \in {"work"} \cup HandlerPoints
          /\ wpc[w] = "work" => ReadTaskResult(w) /\ Sock(w) # <<>>
      BY <1>1 DEF ReadTaskResult, ReadRequest, StartRequest, ShortRead, ReadNumBytes, ReadField, CopyChunk, HandlerPoints
    <2>2. PICK c \in Clients : c = Client(w)
      BY <2>1, WorkerClient
    <2>3. Serves(w, c)
      BY <2>1, <2>2 DEF Serves
    <2>4. ~Silent(c)
      BY <2>1, <2>2 DEF Silent, CommunicatorFree, Holds, Sock
    <2>5. PICK n \in Partitions : Stream(c, n)
      BY <2>4 DEF StreamInv, ClientStream
    <2>6. n \in Nat \ {0} /\ cpc'[c] = cpc[c]
      BY PartitionSize
    <2>7. ~ShortRead(w)
      BY <2>3, <2>5, <2>6, NoShortRead
    <2>8. CASE ReadTaskResult(w)
      BY <2>3, <2>5, <2>6, <2>8, RequestStream
    <2>9. CASE ReadNumBytes(w)
      BY <2>3, <2>5, <2>6, <2>9, NumBytesStream
    <2>10. CASE CopyChunk(w)
      <3>1. wpc[w] = "copy"
        BY <2>10 DEF CopyChunk
      <3>2. PICK r : Progress(c, n, r)
        BY <2>5 DEF Stream
      <3>3. Reading(w, c, n, r)
        BY <2>3, <3>1, <3>2, Alone
      <3>4. WholeTask(c, n) /\ loc[w].i <= n
        BY <3>1, <3>3 DEF Reading
      <3>5. loc[w].i \in 1 .. n
        <4>1. loc[w].i >= 1
          BY <3>1 DEF HandlerOK, HandlerAt
        <4>2. loc[w].i \in Nat
          BY <2>3, ServedClient
        <4>. QED  BY <2>6, <3>4, <4>1, <4>2
      <3>6. Units(ChunkExtent(Context(w).ExecutionChunks[loc[w].i])) \subseteq DOMAIN Context(w).Body
        BY <2>2, <2>6, <3>4, <3>5, CopiesInside
      <3>. QED  BY <2>10, <3>6 DEF CopyChunk
    <2>. QED  BY <1>1, <2>7, <2>8, <2>9, <2>10
  <1>2. CASE ComputeChunk(w)
    <2>1. wpc[w] \in ChunkPoints
      BY <1>2 DEF ComputeChunk, ChunkPoints
    <2>2. PICK n \in Partitions : WholeTask(Client(w), n) /\ job[w].chunk \in 1 .. n
      BY <2>1, DelegateTask
    <2>3. /\ Context(w).Header = NumRows /\ DOMAIN Context(w).Body = 1 .. NumCols
          /\ Columns(w) = Units(Part(NumCols, n, job[w].chunk - 1))
          /\ job[w].chunk - 1 \in 0 .. n - 1 /\ n \in Nat \ {0}
      BY <2>2, DelegatePart
    <2>5. Columns(w) \subseteq DOMAIN Context(w).Body
      BY <2>3, UnitsInside
    <2>4. NumRows # 0
      BY MatrixAssumption DEF NumRows
    <2>. QED  BY <1>2, <2>3, <2>4, <2>5 DEF ComputeChunk
  <1>3. CASE \/ PoolStep(w) \/ NothingRead(w) \/ IgnoreRequest(w) \/ ReadTaskSubmition(w) \/ ReadTaskStatus(w)
             \/ ReadHeader(w) \/ RejectNumChunks(w) \/ ReadNumChunks(w) \/ ReadChunk(w) \/ ReadBody(w)
             \/ SubmitChunk(w) \/ ScanChunk(w) \/ AnswerFinished(w) \/ WriteNumBytes(w) \/ WriteResult(w)
             \/ StartChunk(w) \/ MarkDone(w)
    BY <1>3 DEF PoolStep, Take, FindEmpty, Wait, NothingRead, IgnoreRequest, ReadTaskSubmition, ReadTaskStatus,
      ReadHeader, RejectNumChunks, ReadNumChunks, ReadChunk, ReadBody, SubmitChunk, ScanChunk, AnswerFinished,
      WriteNumBytes, WriteResult, StartChunk, MarkDone
  <1>. QED  BY <1>1, <1>2, <1>3 DEF WorkerStep, RequestStep, ChunkStep

(* If requests arrive in one piece, the server ends only because the poll     *)
(* thread has no pool yet or a connection was reset: no throwing read, no     *)
(* at() without a task, no division by zero and no access behind a body,     *)
(* in any order of its workers' steps.                                       *)
THEOREM ServerSurvivesRequests == ASSUME WholeRequests PROVE Spec => []DiesOnlyOfPoolOrReset
  <1>1. Init => DiesOnlyOfPoolOrReset
    BY DEF Init, ServerInit, DiesOnlyOfPoolOrReset
  <1>2. ASSUME TypeInv, ChunkInv, StreamInv, DiesOnlyOfPoolOrReset, [Next]_vars
        PROVE  DiesOnlyOfPoolOrReset'
    <2>1. CASE UNCHANGED <<died, gone>>
      BY <1>2, <2>1 DEF DiesOnlyOfPoolOrReset
    <2>2. CASE died = "no" /\ ServerSide
      <3>1. UNCHANGED cpc
        BY <2>2 DEF ServerSide, clientVars
      <3>2. CASE InitStep \/ PollRwClients
        BY <2>2, <3>2 DEF InitStep, StartListening, StartClientThread, MakePool, PollRwClients, DiesOnlyOfPoolOrReset
      <3>3. CASE SubmitWork
        BY <2>2, <3>3 DEF SubmitWork, DiesOnlyOfPoolOrReset
      <3>4. CASE AcceptFails
        BY <3>4 DEF AcceptFails, Throw, sockVars, connVars, DiesOnlyOfPoolOrReset
      <3>5. ASSUME NEW w \in Workers, ConnectionReset(w) PROVE DiesOnlyOfPoolOrReset'
        BY <3>5 DEF ConnectionReset, Throw, sockVars, connVars, DiesOnlyOfPoolOrReset
      <3>6. ASSUME NEW w \in Workers, WorkerStep(w) PROVE DiesOnlyOfPoolOrReset'
        <4>1. UNCHANGED died
          BY <1>2, <3>1, <3>6, WorkerSurvives
        <4>. QED  BY <2>2, <4>1 DEF DiesOnlyOfPoolOrReset
      <3>. QED  BY <2>2, <3>2, <3>3, <3>4, <3>5, <3>6 DEF ServerSide, ServerStep, PollStep
    <2>3. ASSUME NEW c \in Clients, died = "no", ClientSide(c) \/ Network(c) PROVE DiesOnlyOfPoolOrReset'
      BY <2>3 DEF ClientSide, Network, serverVars, DiesOnlyOfPoolOrReset
    <2>. QED  BY <1>2, <2>1, <2>2, <2>3 DEF Next, Over, vars, sockVars, connVars, serverVars
  <1>. QED  BY <1>1, <1>2, ChunkInvariant, StreamInvariant, PTL DEF Spec
=============================================================================
