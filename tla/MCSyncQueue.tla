------------------------------ MODULE MCSyncQueue ------------------------------
(***************************************************************************)
(* Instances of SyncQueue for TLC.  Threads p1, p2 produce and c1, c2      *)
(* consume; each configuration gives them the calls its question needs.    *)
(***************************************************************************)
EXTENDS SyncQueue, TLC

CONSTANTS p1, p2, c1, c2

\* Every operation, from two producers and two consumers.
AllThreads == {p1, p2, c1, c2}
AllCalls ==
    p1 :> {"Push", "TryPush"} @@ p2 :> {"Push"}
        @@ c1 :> {"Pop", "Size"} @@ c2 :> {"Pop", "Clear"}

\* The way the client uses stream_queue and annotation_response_queue_:
\* producers that block or give up, one consumer that polls.
ClientThreads == {p1, p2, c1}
ClientCalls ==
    p1 :> {"Push"} @@ p2 :> {"Push", "TryPush"} @@ c1 :> {"Size", "Pop"}

NoPollers == {}
SolePoller == {c1}

\* Values are only compared and moved.
ValueSymmetry == Permutations(Values)
===============================================================================
