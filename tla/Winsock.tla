------------------------------ MODULE Winsock ------------------------------
(***************************************************************************)
(* What the two programs use of Winsock: stream sockets between the clients*)
(* and the server.  Bytes arrive in order and none is lost while both ends *)
(* are there, but a stream has no message boundaries: how much of it has   *)
(* arrived when somebody reads is up to the network.                       *)
(*                                                                         *)
(* A byte stream is a sequence of units.  Everything of one byte (a request*)
(* type, a task status) and every column of a body is one unit; a number,  *)
(* and a struct of two numbers, is two units, so that a reader can see half*)
(* of it.                                                                  *)
(***************************************************************************)
EXTENDS Naturals, Sequences, FiniteSets

CONSTANTS
  Clients,     \* the client programs, each with its one connection
  NumMaxConnections, \* the server's backlog
  RequestCuts, \* where the network may cut what a client sends,
  ReplyCuts    \* and what the server sends (see MayBeginPiece)

ASSUME WinsockAssumption ==
  /\ IsFiniteSet(Clients) /\ NumMaxConnections \in Nat \ {0}
  /\ {RequestCuts, ReplyCuts} \subseteq {"messages", "fields", "bytes"}

VARIABLES
  listening, \* the server's listener accepts connections
  backlog, \* the connections made that the server has not accepted
  closed,  \* the clients that have closed their connection
  gone,    \* the clients that have stopped, or whose connection was reset: no
           \* byte of theirs arrives any more
  flight,  \* what each client has sent and has not arrived
  sock,    \* what has arrived at the server and was not read
  reply    \* what the server has sent and the client has not read

connVars == <<listening, backlog, closed, gone>>
sockVars == <<connVars, flight, sock, reply>>

ERequestType == {"TaskSubmition", "TaskStatus", "TaskResult"}
ETaskStatus  == {"Unknown", "InProgress", "Finished", "Failed", "NotFound"}

Unit(kind, val)  == <<[kind |-> kind, half |-> 1, val |-> val]>>
Struct(kind, u, v) == Unit(kind, u) \o <<[kind |-> kind, half |-> 2, val |-> v]>>
Field(kind, val) == Struct(kind, val, val)

(* A piece may end before u.  "messages" keeps the fields of a message in    *)
(* one piece, "fields" separates them, "bytes" cuts them in two as well; the *)
(* body is cut anywhere in all three.                                        *)
MayBeginPiece(u, cuts) ==
  \/ u.half = 1 /\ u.kind \notin {"header", "count", "chunk", "size"}
  \/ u.half = 1 /\ cuts = "fields"
  \/ cuts = "bytes"

(* The lengths of the prefixes of s that can have arrived.                  *)
Pieces(s, cuts) == {n \in 1 .. Len(s) : n = Len(s) \/ MayBeginPiece(s[n + 1], cuts)}

First(s, n)   == SubSeq(s, 1, n)
Without(s, n) == SubSeq(s, n + 1, Len(s))

(* What one byte read off s leaves: of a unit of several bytes the rest,     *)
(* which is not the beginning of anything.  (Bound: a second byte takes all  *)
(* of such a rest, or of the second half of a number.)                       *)
Rest(u) == [u EXCEPT !.half = 2]

AfterByte(s) ==
  IF Head(s).kind \in ERequestType \cup ETaskStatus \/ Head(s).half = 2 THEN Tail(s)
  ELSE <<Rest(Head(s))>> \o Tail(s)

SockInit ==
  /\ listening = FALSE /\ backlog = {} /\ closed = {} /\ gone = {}
  /\ flight = [c \in Clients |-> <<>>]
  /\ sock = [c \in Clients |-> <<>>]
  /\ reply = [c \in Clients |-> <<>>]

(* connect() completes without the server's doing: the connection waits to be*)
(* accepted.  It is refused when nobody listens or too many wait already.    *)
Refused == ~listening \/ Cardinality(backlog) >= NumMaxConnections

Connects(c) ==
  /\ ~Refused /\ backlog' = backlog \cup {c}
  /\ UNCHANGED <<listening, closed, gone>>

Sends(c, units) == flight' = [flight EXCEPT ![c] = @ \o units]

(* Some of what c sent reaches the server.                                  *)
Arrive(c) ==
  \E n \in Pieces(flight[c], RequestCuts) :
    /\ sock' = [sock EXCEPT ![c] = @ \o First(flight[c], n)]
    /\ flight' = [flight EXCEPT ![c] = Without(@, n)]
    /\ UNCHANGED <<connVars, reply>>

(* c's machine, process or network stops; what is under way is lost.        *)
Disappear(c) ==
  /\ gone' = gone \cup {c}
  /\ flight' = [flight EXCEPT ![c] = <<>>]
  /\ UNCHANGED <<listening, backlog, closed, sock, reply>>

(* shutdown and closesocket: what was sent still arrives, and the end of the *)
(* stream after it.                                                         *)
Closes(c) == closed' = closed \cup {c} /\ UNCHANGED <<listening, backlog, gone>>

(* Bytes that nobody will read any more reset a closed connection.          *)
ResetByPeer(c) == c \in closed \ gone /\ reply[c] # <<>> /\ Disappear(c)

SockTypeOK(Units) ==
  /\ listening \in BOOLEAN
  /\ {backlog, closed, gone} \subseteq SUBSET Clients
  /\ flight \in [Clients -> Seq(Units)]
  /\ sock \in [Clients -> Seq(Units)]
  /\ reply \in [Clients -> Seq(Units)]
=============================================================================
