-------------------------- MODULE ClientTaskHandler --------------------------
(***************************************************************************)
(* The client program: ClientTaskHandler over AsyncSock::Client, driven by *)
(* Communicate() of AClient/src/Main.cpp: fill a matrix, connect, submit it*)
(* as one task, ask for the result until there is an answer.  Its socket   *)
(* blocks, so a call that reads waits for the first unit; it takes no more *)
(* than what has arrived.                                                  *)
(***************************************************************************)
EXTENDS Winsock, MatrixPartition

CONSTANTS
  MaxConnectionAttempts, \* 5 in the program
  NumChunks,   \* the chunks a task is divided into; 4 in the program
  Partitions,  \* the sizes ExecutionChunks may have: NumChunks, or a size the
               \* server rejects
  Leavers,     \* the clients that may close their connection at the end,
  Quitters     \* and those that may disappear at any moment

ASSUME ClientAssumption ==
  /\ {MaxConnectionAttempts, NumChunks} \subseteq Nat \ {0}
  /\ Partitions \subseteq Nat /\ {Leavers, Quitters} \subseteq SUBSET Clients

VARIABLES
  cpc,      \* where each client is
  attempts, \* its connectionAttempts
  m_socket, \* its m_socket: "open", or InvalidSocket
  want,     \* the numBytes of GetTaskResult
  bytes,    \* the result it was given
  status    \* what its last GetTaskResult returned

connectVars == <<attempts, m_socket>>
clientVars == <<cpc, connectVars, want, bytes, status>>

ClientPoints ==
  {"start", "failed", "submit", "ask", "status", "size", "body", "ended", "threw", "left"}

(* Client's constructor makes the socket.                                   *)
ClientInit ==
  /\ cpc = [c \in Clients |-> "start"]
  /\ attempts = [c \in Clients |-> 0]
  /\ m_socket = [c \in Clients |-> "open"]
  /\ want = [c \in Clients |-> 0]
  /\ bytes = [c \in Clients |-> <<>>]
  /\ status = [c \in Clients |-> "Unknown"]

ClientAt(c, point) == cpc[c] = point /\ c \notin gone
ClientGoto(c, point) == cpc' = [cpc EXCEPT ![c] = point]

-----------------------------------------------------------------------------
(* Connect(connectionInfo) and the attempts of InternalConnect.             *)

IsConnected(c) == m_socket[c] = "open"

Connect(c) ==
  /\ ClientAt(c, "start") /\ attempts[c] < MaxConnectionAttempts /\ IsConnected(c)
  /\ Connects(c) /\ ClientGoto(c, "submit")
  /\ UNCHANGED <<flight, sock, reply, connectVars, want, bytes, status>>

(* Disconnect(), which forgets the socket for good.                         *)
Disconnect(c) == m_socket' = [m_socket EXCEPT ![c] = "InvalidSocket"]

ConnectFails(c) ==
  /\ ClientAt(c, "start") /\ attempts[c] < MaxConnectionAttempts
  /\ IsConnected(c) => Refused
  /\ Disconnect(c)
  /\ attempts' = [attempts EXCEPT ![c] = @ + 1]
  /\ UNCHANGED <<sockVars, cpc, want, bytes, status>>

(* Connect returns Failed, and so does Communicate().                       *)
GiveUp(c) ==
  /\ ClientAt(c, "start") /\ attempts[c] = MaxConnectionAttempts
  /\ ClientGoto(c, "failed")
  /\ UNCHANGED <<sockVars, connectVars, want, bytes, status>>

-----------------------------------------------------------------------------
(* SubmitTask(header, bodyPartition).  It sends each field on its own; a     *)
(* cut between them is the network's.                                        *)

ChunkFields(numChunks) ==
  [k \in 1 .. 2 * numChunks |->
     LET chunk == BodyChunk(numChunks, (k - 1) \div 2)
     IN  Struct("chunk", chunk.NumBytes, chunk.BufferOffsetInBytes)[((k - 1) % 2) + 1]]

(* The body's columns, as the threads that fill the matrix have left them.   *)
Body ==
  [k \in 1 .. NumCols |->
     [kind |-> IF k - 1 \in FilledColumns THEN "raw" ELSE "zero", half |-> 1, val |-> k]]

(* The number of bytes is counted in columns.                               *)
Submission(numChunks) ==
  Unit("TaskSubmition", 0) \o Struct("header", NumCols, NumRows)
    \o Field("count", numChunks) \o ChunkFields(numChunks)
    \o Field("size", NumCols) \o Body

SubmitTask(c) ==
  /\ ClientAt(c, "submit")
  /\ \E n \in Partitions : Sends(c, Submission(n))
  /\ ClientGoto(c, "ask")
  /\ UNCHANGED <<connVars, sock, reply, connectVars, want, bytes, status>>

-----------------------------------------------------------------------------
(* GetTaskResult(bytes), which Communicate() calls until the task is neither *)
(* in progress nor unknown.                                                  *)

(* GetTaskStatus: the request ...                                            *)
AskStatus(c) ==
  /\ ClientAt(c, "ask") /\ ClientGoto(c, "status")
  /\ Sends(c, Unit("TaskStatus", 0))
  /\ UNCHANGED <<connVars, sock, reply, connectVars, want, bytes, status>>

(* ... and the byte that answers it.  A byte that is no status could be any. *)
StatusOf(u) == IF u.kind \in ETaskStatus THEN {u.kind} ELSE ETaskStatus

AfterStatus(c, s) ==
  \/ /\ s = "Finished"
     /\ Sends(c, Unit("TaskResult", 0)) /\ ClientGoto(c, "size")
     /\ UNCHANGED status
  \/ /\ s # "Finished"
     /\ status' = [status EXCEPT ![c] = s]
     /\ ClientGoto(c, IF s \in {"InProgress", "Unknown"} THEN "ask" ELSE "ended")
     /\ UNCHANGED flight

ReadStatus(c) ==
  /\ ClientAt(c, "status") /\ reply[c] # <<>>
  /\ \E s \in StatusOf(Head(reply[c])) : AfterStatus(c, s)
  /\ reply' = [reply EXCEPT ![c] = AfterByte(@)]
  /\ UNCHANGED <<connVars, sock, connectVars, want, bytes>>

(* What one recv of at most n units can take from the stream s.             *)
Recv(s, n) == {IF m < n THEN m ELSE n : m \in Pieces(s, ReplyCuts)}

(* Reading numBytes: the low bytes that came are kept, and the test of the   *)
(* macro, read == 8 && (numBytes > 0) == FALSE, lets a short read pass.      *)
ReadResultSize(c) ==
  /\ ClientAt(c, "size") /\ reply[c] # <<>>
  /\ \E k \in Recv(reply[c], 2) :
       /\ reply' = [reply EXCEPT ![c] = Without(@, k)]
       /\ \/ /\ k = 2 /\ Head(reply[c]).val = 0
             /\ ClientGoto(c, "threw") /\ UNCHANGED want
          \/ /\ k = 2 /\ Head(reply[c]).val > 0
             /\ want' = [want EXCEPT ![c] = Head(reply[c]).val]
             /\ ClientGoto(c, "body")
          \/ /\ k < 2
             /\ \E v \in 0 .. Head(reply[c]).val : want' = [want EXCEPT ![c] = v]
             /\ ClientGoto(c, "body")
  /\ UNCHANGED <<connVars, flight, sock, connectVars, bytes, status>>

ReadResultUnchecked(c) ==   \* mutant: the number of bytes read is not compared
  /\ ClientAt(c, "body") /\ ClientGoto(c, "ended")
  /\ \E k \in IF want[c] = 0 THEN {0} ELSE Recv(reply[c], want[c]) :
       /\ reply' = [reply EXCEPT ![c] = Without(@, k)]
       /\ bytes' = [bytes EXCEPT ![c] = First(reply[c], k)]
       /\ status' = [status EXCEPT ![c] = "Finished"]
  /\ UNCHANGED <<connVars, flight, sock, connectVars, want>>

(* The body is read with a single recv.                                     *)
ReadResult(c) ==
  /\ ClientAt(c, "body") /\ ClientGoto(c, "ended")
  /\ \E k \in IF want[c] = 0 THEN {0} ELSE Recv(reply[c], want[c]) :
       /\ reply' = [reply EXCEPT ![c] = Without(@, k)]
       /\ \/ /\ k = want[c]
             /\ bytes' = [bytes EXCEPT ![c] = First(reply[c], k)]
             /\ status' = [status EXCEPT ![c] = "Finished"]
          \/ /\ k # want[c]
             /\ bytes' = [bytes EXCEPT ![c] = <<>>]
             /\ status' = [status EXCEPT ![c] = "Failed"]
  /\ UNCHANGED <<connVars, flight, sock, connectVars, want>>

-----------------------------------------------------------------------------

ClientStep(c) ==
  Connect(c) \/ ConnectFails(c) \/ GiveUp(c) \/ SubmitTask(c)
  \/ AskStatus(c) \/ ReadStatus(c) \/ ReadResultSize(c) \/ ReadResult(c)

(* Somebody presses a button: Communicate() returns and destroys the handler.*)
Leave(c) ==
  /\ c \in Leavers /\ ClientAt(c, "ended") /\ ClientGoto(c, "left")
  /\ Disconnect(c) /\ Closes(c)
  /\ UNCHANGED <<flight, sock, reply, attempts, want, bytes, status>>

Quit(c) ==
  /\ c \in Quitters \ gone /\ cpc[c] \notin {"start", "failed", "left"}
  /\ Disappear(c)
  /\ UNCHANGED clientVars

ClientTypeOK(Units) ==
  /\ cpc \in [Clients -> ClientPoints]
  /\ attempts \in [Clients -> 0 .. MaxConnectionAttempts]
  /\ m_socket \in [Clients -> {"open", "InvalidSocket"}]
  /\ want \in [Clients -> Nat]
  /\ bytes \in [Clients -> Seq(Units)]
  /\ status \in [Clients -> ETaskStatus]
=============================================================================
