------------------------------- MODULE Ledger -------------------------------
(***************************************************************************)
(* What the meter promises about the life of tunnels, with no bytes and no *)
(* transports: records are created once and in order, a record gets one    *)
(* final status and keeps it, and the budget trips at most once, closing   *)
(* in the same step every tunnel that is open (contract section 3.7).      *)
(***************************************************************************)
EXTENDS Naturals

CONSTANT Ids          \* the record ids, 1 .. n

VARIABLES
  status,             \* status[i]: "none", "open", or a final status
  created,            \* how many records exist
  tripped             \* the budget was reached

vars == <<status, created, tripped>>

IsFinal(s) == s \notin {"none", "open"}

Open == {i \in Ids : status[i] = "open"}

\* Exactly the open records of S close, with whatever final statuses.
Closes(S) ==
  /\ \A i \in S : status[i] = "open" /\ IsFinal(status'[i])
  /\ status' = [i \in Ids |-> IF i \in S THEN status'[i] ELSE status[i]]

Init ==
  /\ status = [i \in Ids |-> "none"]
  /\ created = 0
  /\ tripped = FALSE

\* A new record: an open tunnel, or a denied request, closed from the start.
Create ==
  /\ created + 1 \in Ids
  /\ created' = created + 1
  /\ status' \in {[status EXCEPT ![created + 1] = s] : s \in {"open", "denied"}}
  /\ UNCHANGED tripped

\* One tunnel closes.
Close(i) == Closes({i}) /\ UNCHANGED <<created, tripped>>

\* A new tunnel takes over an open one's upstream connection, which closes.
HandOver(i) ==
  /\ created + 1 \in Ids
  /\ created' = created + 1
  /\ status[i] = "open"
  /\ IsFinal(status'[i])
  /\ status' = [status EXCEPT ![i] = status'[i], ![created + 1] = "open"]
  /\ UNCHANGED tripped

\* The forwarder stops.
CloseOpen == Closes(Open) /\ UNCHANGED <<created, tripped>>

\* The budget is reached.
Trip ==
  /\ ~tripped
  /\ tripped' = TRUE
  /\ Closes(Open)
  /\ \A i \in Open : status'[i] = "budget"
  /\ UNCHANGED created

Next ==
  \/ Create
  \/ \E i \in Ids : Close(i) \/ HandOver(i)
  \/ CloseOpen
  \/ Trip

Spec == Init /\ [][Next]_vars

=============================================================================
