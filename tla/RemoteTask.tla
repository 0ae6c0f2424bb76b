----------------------------- MODULE RemoteTask -----------------------------
(***************************************************************************)
(* What the two programs promise the user of ClientTaskHandler, without    *)
(* sockets, polling, workers or locks: a client's task is taken in once,   *)
(* each of its chunks is executed exactly once, and the client is told     *)
(* Finished only when all of them are, together with the executed body.    *)
(***************************************************************************)
EXTENDS Naturals

CONSTANTS
  Clients,   \* those that may submit a task
  NumChunks  \* the chunks of a task

VARIABLES
  accepted, \* the clients whose task the server has taken in
  executed, \* the chunks of each that are executed
  answer,   \* what each client was told last
  given     \* the clients that were given their executed body

vars == <<accepted, executed, answer, given>>

Init ==
  /\ accepted = {}
  /\ executed = [c \in Clients |-> {}]
  /\ answer = [c \in Clients |-> "Unknown"]
  /\ given = {}

Accept(c) ==
  /\ c \notin accepted
  /\ accepted' = accepted \cup {c}
  /\ UNCHANGED <<executed, answer, given>>

Execute(c, i) ==
  /\ c \in accepted /\ i \notin executed[c]
  /\ executed' = [executed EXCEPT ![c] = @ \cup {i}]
  /\ UNCHANGED <<accepted, answer, given>>

(* In progress is the answer of an accepted task only, Finished that of an   *)
(* executed one, and it comes with the result.  Reading may fail.            *)
TellInProgress(c) ==
  /\ c \in accepted /\ answer[c] \in {"Unknown", "InProgress"}
  /\ answer' = [answer EXCEPT ![c] = "InProgress"]
  /\ UNCHANGED <<accepted, executed, given>>

TellFinished(c) ==
  /\ executed[c] = 1 .. NumChunks /\ answer[c] \in {"Unknown", "InProgress"}
  /\ answer' = [answer EXCEPT ![c] = "Finished"]
  /\ given' = given \cup {c}
  /\ UNCHANGED <<accepted, executed>>

TellFailed(c) ==
  /\ c \in accepted /\ answer[c] \in {"Unknown", "InProgress"}
  /\ answer' = [answer EXCEPT ![c] = "Failed"]
  /\ UNCHANGED <<accepted, executed, given>>

Next ==
  \E c \in Clients :
    \/ Accept(c) \/ TellInProgress(c) \/ TellFinished(c) \/ TellFailed(c)
    \/ \E i \in 1 .. NumChunks : Execute(c, i)

Spec == Init /\ [][Next]_vars
=============================================================================
