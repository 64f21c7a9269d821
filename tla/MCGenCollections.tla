-------------------------- MODULE MCGenCollections --------------------------
(* Small instances of GenCollections for TLC. *)
EXTENDS GenCollections

(* Queues stay within their first buffer of two, vectors outgrow it. *)
QueuesFit == [vec |-> 3, queue |-> 2]

(* Three queues, one vector and one map; or one of each kind. *)
ThreeQueues == [vec |-> 1, queue |-> 3, map |-> 1]
OneEach     == [k \in Kinds |-> 1]

(* Two keys of one bucket, one of them negative. *)
Colliding == {-1, 1}

(* One element more than the first buffer of a queue. *)
QueuesGrow == [vec |-> 0, queue |-> 3]
=============================================================================
