------------------------------ MODULE SQSQueue ------------------------------
(***************************************************************************)
(* The queues of internal/sqsqueue/sqsqueue.go: one SQS queue per priority *)
(* tier and a dead-letter queue.  A message is identified by its position  *)
(* in msgs and never leaves it; st says which queue it is in and whether   *)
(* it can be received.  What the SQS service itself does (receive counts,  *)
(* visibility, the redrive policy, stale receipts) is external code,       *)
(* modelled from how sqsqueue.go and RunSQSWorker rely on it.              *)
(***************************************************************************)
EXTENDS Integers, Sequences

CONSTANTS Jobs, Priority, MaxTier, MaxReceive

ASSUME SQSAssumption == /\ Priority \in [Jobs -> Int]
                        /\ MaxTier \in Nat \ {0}
                        /\ MaxReceive \in Nat \ {0}

VARIABLE msgs

Injections == {"none", "oom", "corrupt", "other", "hang", "poison"}
Message == [job    : Jobs,
            tried  : Nat,         \* job.Attempt in the body
            inject : Injections,  \* job.InjectFailure in the body
            rc     : Nat,         \* ApproximateReceiveCount
            st     : {"visible", "inflight", "deleted", "dlq"},
            lapsed : BOOLEAN]     \* last became visible by a timeout

\* Tier: a priority outside the tiers goes to the nearest one.
Tier(p) == IF p < 1 THEN 1 ELSE IF p > MaxTier THEN MaxTier ELSE p

NewMessage(j, tried, inject) ==
  [job |-> j, tried |-> tried, inject |-> inject, rc |-> 0,
   st |-> "visible", lapsed |-> FALSE]

Send(j, tried, inject) == msgs' = Append(msgs, NewMessage(j, tried, inject))

\* The messages a poll of the queue of tier t finds.
Visible(t) == {i \in DOMAIN msgs : msgs[i].st = "visible" /\ Tier(Priority[msgs[i].job]) = t}

\* Delivering hides the message and counts the receive ...
Deliver(i) ==
  /\ msgs[i].rc < MaxReceive
  /\ msgs' = [msgs EXCEPT ![i].st = "inflight", ![i].rc = @ + 1]

\* ... unless it was received MaxReceive times: then the poll redrives it.
Redrive(i) ==
  /\ msgs[i].st = "visible" /\ msgs[i].rc >= MaxReceive
  /\ msgs' = [msgs EXCEPT ![i].st = "dlq"]

\* The visibility timeout of a delivery ends.
Expire(i) ==
  /\ msgs[i].st = "inflight"
  /\ msgs' = [msgs EXCEPT ![i].st = "visible", ![i].lapsed = TRUE]

\* Ack with the receipt of delivery d = [m, rc].  The receipt of an earlier
\* delivery may or may not delete; the DLQ's messages are out of its reach.
Ack(d) ==
  \/ /\ msgs[d.m].st \in {"visible", "inflight"}
     /\ msgs' = [msgs EXCEPT ![d.m].st = "deleted"]
  \/ /\ msgs[d.m].st \in {"deleted", "dlq"} \/ msgs[d.m].rc # d.rc
     /\ UNCHANGED msgs

\* Release with the receipt of d makes the message visible at once.  With a
\* stale receipt SQS may also do nothing or answer with an error.
Release(d) ==
  /\ msgs[d.m].st = "inflight"
  /\ msgs' = [msgs EXCEPT ![d.m].st = "visible", ![d.m].lapsed = FALSE]

StaleReceipt(d) == msgs[d.m].st # "inflight" \/ msgs[d.m].rc # d.rc

=============================================================================
