----------------------------- MODULE AnnotateVideo -----------------------------
(***************************************************************************)
(* What a client of StreamingAnnotateVideo promises, to the service (the   *)
(* comments of StreamingAnnotateVideoRequest in                            *)
(* proto/video_intelligence_streaming.proto) and to who runs it: the first *)
(* message is the configuration, all others carry the video, in order and  *)
(* each byte once; and the client reports success only when the service    *)
(* has taken everything that the source of the video had to give.          *)
(***************************************************************************)
EXTENDS Naturals, Sequences

CONSTANTS
    StreamLength,   \* bytes of the video
    Config          \* what the first message carries: no byte of the video

VARIABLES
    read,       \* how many bytes the client has got from the source
    cut,        \* the source has failed and may pretend to have ended
    received,   \* what the service has taken, in order
    outcome     \* "none", "true", "false", or "died": no report at all

vars == <<read, cut, received, outcome>>

Stream(n) == <<Config>> \o [i \in 1..n |-> i]

Init ==
    /\ read = 0
    /\ cut = FALSE
    /\ received = <<>>
    /\ outcome = "none"

Read ==
    /\ outcome = "none"
    /\ read' \in read + 1..StreamLength
    /\ UNCHANGED <<cut, received, outcome>>

SourceFails ==
    /\ cut' = TRUE
    /\ UNCHANGED <<read, received, outcome>>

\* A message may be under way when the client dies.
Receive ==
    /\ outcome \in {"none", "died"}
    /\ \E n \in Len(received) + 1..read + 1 :
          /\ received = <<>> => n = 1
          /\ received' = SubSeq(Stream(read), 1, n)
    /\ UNCHANGED <<read, cut, outcome>>

Succeed ==
    /\ outcome = "none"
    /\ received = Stream(read)
    /\ cut \/ read = StreamLength
    /\ outcome' = "true"
    /\ UNCHANGED <<read, cut, received>>

Fail ==
    /\ outcome = "none"
    /\ outcome' \in {"false", "died"}
    /\ UNCHANGED <<read, cut, received>>

Next == Read \/ SourceFails \/ Receive \/ Succeed \/ Fail

Spec == Init /\ [][Next]_vars
===============================================================================
