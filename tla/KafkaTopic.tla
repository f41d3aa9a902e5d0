----------------------------- MODULE KafkaTopic -----------------------------
(***************************************************************************)
(* internal/queue/kafka.go: a topic, its producer and the subscription of  *)
(* one consumer group.  Only the number of messages of a partition is      *)
(* kept; a message is known by its position.  The producer balances by     *)
(* bytes, not by key, so any message may go to any partition.              *)
(*                                                                         *)
(* ReadMessage commits the offset of a message before it returns it: when  *)
(* the commit fails the reader has moved on and the message is not handed  *)
(* out, when the handler fails or the process dies nothing remembers it    *)
(* (the dead letter queue is a TODO, lines 248 to 250).  The five          *)
(* functions Subscribe... are the same loop over five topics.              *)
(***************************************************************************)
EXTENDS Naturals

CONSTANTS Partitions,
          MaxSent   \* bound on the messages of the topic

ASSUME KafkaAssumption == MaxSent \in Nat

VARIABLES sent,       \* number of messages in each partition
          position,   \* last message the reader fetched, by partition
          committed,  \* last offset committed by the group, by partition
          known,      \* partitions with a committed offset
          reading,    \* a member of the group is connected
          inHand,     \* the message whose handler runs, or NoMessage
          done,       \* ghost: positions given to the handler
          deliveries  \* ghost: how often the handler was called

kvars == <<sent, position, committed, known, reading, inHand, done, deliveries>>

NoMessage == <<"none", 0>>

KInit ==
    /\ sent = [p \in Partitions |-> 0]
    /\ position = [p \in Partitions |-> 0]
    /\ committed = [p \in Partitions |-> 0]
    /\ known = {}
    /\ reading = FALSE
    /\ inHand = NoMessage
    /\ done = [p \in Partitions |-> {}]
    /\ deliveries = 0

(* SendMessage and the functions for blocks, transactions and events.  The *)
(* writer repeats a request whose answer it did not get: the message may   *)
(* be there twice.  One that was never written is an error of the caller.  *)
SendMessage(p, n) ==
    /\ sent[p] + n <= MaxSent
    /\ sent' = [sent EXCEPT ![p] = @ + n]
    /\ UNCHANGED <<position, committed, known, reading, inHand, done, deliveries>>

(* Where the group goes on: after the committed offset, or, in a partition *)
(* without one, after the last message (StartOffset is LastOffset).        *)
StartOffset(p) == IF p \in known THEN committed[p] ELSE sent[p]

(* Subscribe creates a reader; a rebalance of the group moves a connected  *)
(* one in the same way.                                                    *)
Subscribe ==
    /\ reading' = TRUE
    /\ position' = [p \in Partitions |-> StartOffset(p)]
    /\ UNCHANGED <<sent, committed, known, inHand, done, deliveries>>

(* The handler is called with message k of partition p.                    *)
Hand(p, k) ==
    /\ inHand' = <<p, k>>
    /\ done' = [done EXCEPT ![p] = @ \cup {k}]
    /\ deliveries' = deliveries + 1

(* Mutant of CommitOffset: the offset before the message is committed.     *)
CommitOffsetBefore(p) ==
    /\ committed' = [committed EXCEPT ![p] = position[p]]
    /\ known' = known \cup {p}

CommitOffset(p) ==
    /\ committed' = [committed EXCEPT ![p] = position[p] + 1]
    /\ known' = known \cup {p}

Fetch(p) ==
    /\ reading
    /\ inHand = NoMessage
    /\ position[p] < sent[p]
    /\ position' = [position EXCEPT ![p] = @ + 1]

ReadMessage(p) ==
    /\ Fetch(p)
    /\ CommitOffset(p)
    /\ Hand(p, position[p] + 1)
    /\ UNCHANGED <<sent, reading>>

(* The commit fails, or the message cannot be unmarshalled: the loop goes  *)
(* on with the next one.                                                   *)
SkipMessage(p) ==
    /\ Fetch(p)
    /\ CommitOffset(p) \/ UNCHANGED <<committed, known>>
    /\ UNCHANGED <<sent, reading, inHand, done, deliveries>>

(* The handler returns; its error is logged.                               *)
Handled ==
    /\ inHand # NoMessage
    /\ inHand' = NoMessage
    /\ UNCHANGED <<sent, position, committed, known, reading, done, deliveries>>

(* The context is cancelled or the process dies, connected or not.         *)
Leave ==
    /\ reading' = FALSE
    /\ inHand' = NoMessage
    /\ UNCHANGED <<sent, position, committed, known, done, deliveries>>

KNext ==
    \/ \E p \in Partitions : \/ \E n \in {1, 2} : SendMessage(p, n)
                             \/ ReadMessage(p)
                             \/ SkipMessage(p)
    \/ Subscribe \/ Handled \/ Leave

KSpec == KInit /\ [][KNext]_kvars

-----------------------------------------------------------------------------
(* "精确一次语义" (README.md, line 23): a message whose offset is committed  *)
(* has been given to the handler.                                          *)
CommittedWasHandled ==
    \A p \in known : \A k \in 1..committed[p] : k \in done[p]

(* The group delivers every message at most once and in the order of its   *)
(* partition, through crashes, rebalances, lost commits and messages that  *)
(* cannot be parsed.                                                       *)
Channel == INSTANCE AtMostOnce

ImplementsAtMostOnce == Channel!Spec
=============================================================================
