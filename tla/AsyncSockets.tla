---------------------------- MODULE AsyncSockets ----------------------------
(***************************************************************************)
(* The two programs together: the server of ServerTaskHandler and the      *)
(* clients of ClientTaskHandler, over the sockets of Winsock.              *)
(***************************************************************************)
EXTENDS ClientTaskHandler, ServerTaskHandler

vars == <<sockVars, clientVars, serverVars>>

Init == SockInit /\ ClientInit /\ ServerInit

ClientSide(c) ==
  /\ ClientStep(c) \/ Leave(c) \/ Quit(c)
  /\ UNCHANGED serverVars

ServerSide == ServerStep /\ UNCHANGED clientVars

Network(c) == (Arrive(c) \/ ResetByPeer(c)) /\ UNCHANGED <<clientVars, serverVars>>

(* The server's process has ended, or every client has what it came for; the *)
(* server would poll for ever.                                               *)
Over ==
  /\ died # "no" \/ \A c \in Clients :
                      cpc[c] \in {"failed", "ended", "threw", "left"} \/ c \in gone
  /\ UNCHANGED vars

Next ==
  \/ /\ died = "no"
     /\ \/ ServerSide
        \/ \E c \in Clients : ClientSide(c) \/ Network(c)
  \/ Over

Spec == Init /\ [][Next]_vars

(* The threads of both programs run, a contended CommunicatorMutex is not    *)
(* denied to one worker for ever, and what was sent arrives.  No client has  *)
(* to leave or disappear, no connection to be reset.                         *)
Fairness ==
  /\ WF_vars(died = "no" /\ InitStep /\ UNCHANGED clientVars)
  /\ WF_vars(died = "no" /\ PollStep /\ UNCHANGED clientVars)
  /\ \A w \in Workers : SF_vars(died = "no" /\ WorkerStep(w) /\ UNCHANGED clientVars)
  /\ \A c \in Clients : /\ WF_vars(died = "no" /\ Arrive(c) /\ UNCHANGED <<clientVars, serverVars>>)
                        /\ WF_vars(died = "no" /\ ClientStep(c) /\ UNCHANGED serverVars)

FairSpec == Spec /\ Fairness

-----------------------------------------------------------------------------
(* Properties.                                                              *)

Kinds == ERequestType \cup ETaskStatus
           \cup {"header", "count", "chunk", "size", "raw", "final", "zero"}
StreamUnits == [kind : Kinds, half : {1, 2}, val : Nat]

(* Sockets, client and server variables hold what their C++ types can.      *)
TypeOK == SockTypeOK(StreamUnits) /\ ClientTypeOK(StreamUnits) /\ ServerTypeOK(StreamUnits)

(* A worker that takes the CommunicatorMutex to read a request finds nothing *)
(* or the first byte of one: "we assume that first unread packet is an       *)
(* ERequestType type" (UpdateClients).  The poll thread queues several jobs  *)
(* for one client; they must not see the middle of its submission.           *)
RequestsInStep ==
  \A w \in Workers :
    wpc[w] = "work" /\ CommunicatorFree(Client(w)) /\ Sock(w) # <<>>
      => Head(Sock(w)).kind \in ERequestType

(* What a client is waiting for is in one place: its request is in the       *)
(* stream, or one worker is answering it, or the answer has been sent; and   *)
(* nothing is left over when it has been read.  Duplicate jobs neither       *)
(* answer twice nor swallow a request.                                       *)
Unread(c, kinds) ==
  Cardinality({k \in DOMAIN flight[c] : flight[c][k].kind \in kinds})
    + Cardinality({k \in DOMAIN sock[c] : sock[c][k].kind \in kinds})
Answering(c, points) ==
  Cardinality({w \in Workers : wpc[w] \in points /\ Client(w) = c})

OneAnswerPerRequest ==
  \A c \in Clients \ gone :
    CASE cpc[c] = "status" ->
           Unread(c, {"TaskStatus"}) + Answering(c, {"scan"}) + Len(reply[c]) = 1
      [] cpc[c] = "size" ->
           \/ /\ Unread(c, {"TaskResult"}) + Answering(c, {"result"}) = 1
              /\ reply[c] = <<>>
           \/ /\ Unread(c, {"TaskResult"}) + Answering(c, {"result"}) = 0
              /\ Head(reply[c]).kind = "size"
      [] cpc[c] = "ended" /\ status[c] # "Failed" ->
           reply[c] = <<>> /\ Answering(c, HandlerPoints) = 0
      [] OTHER -> TRUE

(* A task's chunks: the delegate gets each of them exactly once, whatever    *)
(* the number of jobs of its client, and only when the whole body is there.  *)
Uses(j) == Cardinality({k \in DOMAIN queue : queue[k] = j})
             + Cardinality({w \in Workers : job[w] = j})
Submitting(c) == \E w \in Workers : Holds(w, c) /\ wpc[w] \in {"chunks", "size", "body"}
NotYet(c, i) ==
  \/ Submitting(c)
  \/ \E w \in Workers : Holds(w, c) /\ wpc[w] = "submit" /\ loc[w].i <= i

EachChunkOnce ==
  \A c \in DOMAIN m_contextMap : \A i \in DOMAIN m_contextMap[c].ExecutionChunks :
    LET done == m_contextMap[c].ExecutionChunks[i].State = "Done"
    IN  Uses(Chunk(c, i)) = IF done \/ NotYet(c, i) THEN 0 ELSE 1

(* The delegate runs on a body that is there in full: chunks lie inside it.  *)
ChunksInsideBody ==
  \A w \in Workers : wpc[w] = "compute" => Columns(w) \subseteq DOMAIN Context(w).Body

(* Delegates that run at the same time for one client work on columns of     *)
(* their own: each holds the ChunkMutex of its chunk only, so it is the      *)
(* client's partition that keeps them apart.                                 *)
DelegatesApart ==
  \A v, w \in Workers :
    v # w /\ wpc[v] = "compute" /\ wpc[w] = "compute" /\ Client(v) = Client(w)
      => Columns(v) \cap Columns(w) = {}

(* A Finished that has been sent is true: every chunk of the task is done,   *)
(* although the handler looks at them one by one while workers mark them.    *)
FinishedMeansAllDone ==
  \A c \in Clients :
    (\E k \in DOMAIN reply[c] : reply[c][k].kind = "Finished") =>
      /\ HasTaskContext(c)
      /\ \A i \in DOMAIN m_contextMap[c].ExecutionChunks :
           m_contextMap[c].ExecutionChunks[i].State = "Done"

(* A client that is told Finished has been given its whole matrix with every *)
(* column executed: the one result there is, whoever filled the columns,     *)
(* however they were divided into chunks and wherever the streams were cut.  *)
ExecutedMatrix == [k \in 1 .. NumCols |-> [kind |-> "final", half |-> 1, val |-> k]]

ResultIsComplete ==
  \A c \in Clients : status[c] = "Finished" => bytes[c] = ExecutedMatrix

(* If requests arrive in one piece, the server's process ends only because    *)
(* the poll thread found no pool, or because a connection was reset: not of a *)
(* short or misplaced read, a result asked too early, or a chunk outside the  *)
(* body.                                                                     *)
DiesOnlyOfPoolOrReset ==
  \/ died \in {"no", "null pool"}
  \/ died = "exception" /\ gone # {}

(* Every client gets an answer to every question it asks, although a         *)
(* notify_one can be lost: the poll thread goes on submitting jobs for a     *)
(* client whose bytes are unread.                                            *)
EveryQuestionAnswered ==
  \A c \in Clients : cpc[c] \in {"status", "size"} ~>
    (cpc[c] \notin {"status", "size"} \/ died # "no")

(* Every client comes to an end, with an answer or after its attempts to     *)
(* connect.                                                                  *)
EveryClientEnds ==
  \A c \in Clients : cpc[c] = "start" ~>
    (cpc[c] \in {"failed", "ended"} \/ died # "no")

(* "Failed to connect to {}:{}. Retrying {} time" (AClient/src/AsyncTask.cpp): *)
(* an attempt that fails, the first or a later one, fails because the server  *)
(* refuses it; once the server listens and has room, a retry can connect.     *)
FailsOnlyIfRefused ==
  [][\A c \in Clients : attempts'[c] # attempts[c] => Refused]_vars

(* Init logs that the server was initialised before the poll thread has a    *)
(* pool to submit to; a client that is quick must be served all the same.    *)
InitializedServerServes == died # "null pool"

(* "If data partitioning is not desired, array should be left empty, thus the *)
(* body will be submitted as a whole" (AClient/src/AsyncTask.h): a client     *)
(* that does so is not told that the server knows of no task.                *)
SubmittedTaskIsFound == \A c \in Clients : status[c] # "NotFound"

(* PollRwClients returns clients "that are ready to be Read and Written at   *)
(* the same time": the reads of a request's fields come up to their size.    *)
FieldsAreReadInFull == died # "exception"

(* A client that stays gets its answers, whatever becomes of the others:     *)
(* communication with a client does not block.                               *)
OthersAreServed ==
  \A c \in Clients \ Quitters : cpc[c] = "ask" ~> (cpc[c] = "ended" \/ died # "no")

(* The system as the users of ClientTaskHandler see it.                      *)
Promise == INSTANCE RemoteTask WITH
  accepted <- DOMAIN m_contextMap,
  executed <- [c \in Clients |->
                 IF c \notin DOMAIN m_contextMap THEN {}
                 ELSE {i \in DOMAIN m_contextMap[c].ExecutionChunks :
                         m_contextMap[c].ExecutionChunks[i].State = "Done"}],
  answer   <- status,
  given    <- {c \in Clients : bytes[c] = ExecutedMatrix}
ImplementsRemoteTask == Promise!Spec
=============================================================================
