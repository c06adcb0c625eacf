------------------------------ MODULE SqsQueue ------------------------------
(***************************************************************************)
(* An SQS queue as app/services/sqs_service.py uses it, a set of messages  *)
(* that were posted and not deleted yet.  send_message names the message   *)
(* group and the deduplication id only when the URL holds "fifo", and      *)
(* passes None for them otherwise, which the client library refuses: only  *)
(* a FIFO queue ever holds a message.  All its messages are of one group   *)
(* and of distinct deduplication ids.                                      *)
(*                                                                         *)
(* Messages are received for the first time in the order of posting; one   *)
(* stays in the queue while a worker handles it, so a worker that dies, a  *)
(* deletion that fails or a visibility timeout that expires makes it       *)
(* receivable again.  `receives` is SQS's ApproximateReceiveCount, the     *)
(* basis of the redrive policy.                                            *)
(***************************************************************************)
EXTENDS Naturals

CONSTANT Fifo   \* do the queue URLs name FIFO queues?

ASSUME QueueKind == Fifo \in BOOLEAN

MessageAbout(Subjects) == [id : Nat, subject : Subjects, receives : Nat]

Posted(queue, id, subject) ==
    queue \cup {[id |-> id, subject |-> subject, receives |-> 0]}

(* May m be handed out: no message before it waits for its first receipt.  *)
InTurn(queue, m) == \A o \in queue : o.id < m.id => o.receives > 0

Received(queue, m) == (queue \ {m}) \cup {[m EXCEPT !.receives = @ + 1]}

Deleted(queue, id) == {m \in queue : m.id # id}

(* A message about x that no worker has received yet.                      *)
Waiting(queue, x) == \E m \in queue : m.subject = x /\ m.receives = 0
=============================================================================
