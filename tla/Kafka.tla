------------------------------- MODULE Kafka -------------------------------
(***************************************************************************)
(* A Kafka topic as the services use it through internal/queue/kafka.go:   *)
(* synchronous writers with the LeastBytes balancer and RequireAll, and    *)
(* consumer-group readers with explicit, batched commits (CommitInterval). *)
(*                                                                         *)
(* A topic is a function from partitions to records with                   *)
(*   log        the messages of the partition, oldest first                *)
(*   fetched    how many of them the group's reader has handed out         *)
(*   acked      the offset of the last CommitMessages call, which only     *)
(*              queues the offset inside the reader                        *)
(*   committed  the offset the broker stores; a reader that joins the      *)
(*              group starts there                                         *)
(***************************************************************************)
EXTENDS Integers, Sequences

Partition(Msg) == [log : Seq(Msg), fetched : Nat, acked : Nat, committed : Nat]

EmptyPartition == [log |-> <<>>, fetched |-> 0, acked |-> 0, committed |-> 0]

(***************************************************************************)
(* The balancer looks at bytes written, not at the message key, so the     *)
(* caller chooses any partition p.                                         *)
(***************************************************************************)
WriteMessages(topic, p, msg) == [topic EXCEPT ![p].log = Append(@, msg)]

HasNext(part) == part.fetched < Len(part.log)

FetchMessage(topic, p) == [topic EXCEPT ![p].fetched = @ + 1]

\* The message the reader of the partition handed out last.
InFlight(part) == part.log[part.fetched]

(***************************************************************************)
(* CommitMessages of the in-flight message.  An offset stands for all      *)
(* messages before it, the ones never committed themselves included.       *)
(***************************************************************************)
CommitMessages(topic, p) == [topic EXCEPT ![p].acked = topic[p].fetched]

\* Every CommitInterval, and when the reader is closed.
FlushCommits(topic, p) == [topic EXCEPT ![p].committed = topic[p].acked]

\* A new reader of the group takes the partition over: acked offsets that were
\* not flushed are forgotten.
Rejoin(topic, p) ==
  [topic EXCEPT ![p].fetched = topic[p].committed, ![p].acked = topic[p].committed]

\* Reader.Close followed by the start of the next reader.
CloseAndRejoin(topic, p) == Rejoin(FlushCommits(topic, p), p)

\* The messages ever written to the partitions of a topic.
Written(topic) ==
  UNION {{topic[p].log[i] : i \in DOMAIN topic[p].log} : p \in DOMAIN topic}

\* The offsets of a partition are ordered and stay inside the log.
Ordered(part) ==
  /\ part.committed <= part.acked
  /\ part.acked <= part.fetched
  /\ part.fetched <= Len(part.log)

\* Topics with messages in M on partitions P, and those whose offsets are ordered.
Topics(P, M) == [P -> Partition(M)]
OrderedTopics(P, M) == {t \in Topics(P, M) : \A p \in P : Ordered(t[p])}
=============================================================================
