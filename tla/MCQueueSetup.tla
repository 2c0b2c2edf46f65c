--------------------------- MODULE MCQueueSetup ---------------------------
(* Instance of QueueSetup: an old and a new build of the worker, a durable *)
(* and a stream an earlier build left, the stream possibly of the wrong    *)
(* retention.  The earlier durable shares one setting with the old build.  *)
EXTENDS QueueSetup, TLC

CONSTANTS w1, w2, q1, q2, ack, pending, v0, v1, v2, old, new

MCQueues == <<q1, q2>>
MCDeclared ==
  old :> (ack :> v1 @@ pending :> v1) @@ new :> (ack :> v2 @@ pending :> v2)
MCStream(kind, covers) == [kind |-> kind, covers |-> covers]
MCStreamOf == [b \in {old, new} |-> MCStream("work_queue", {q1, q2})]
MCOldStreams == {MCStream("work_queue", {q1}), MCStream("limits", {q1, q2})}
MCDefaults == ack :> v0 @@ pending :> v0
MCOldSettings == {ack :> v1 @@ pending :> v0}
=============================================================================
