------------------------------ MODULE PythonClient ------------------------------
(***************************************************************************)
(* The scripts of ingestion/client/python, which differ only in the        *)
(* configuration they send and in what they print: each loads the whole    *)
(* video in chunks and starts the call with a generator of requests, which *)
(* a thread of the gRPC library consumes while the script iterates over    *)
(* the responses.  AnnotationRpc is the call.                              *)
(*                                                                         *)
(* A response is an "error"; or a "result" with all that the script reads  *)
(* in it, a "frameless" one whose first annotation has no frame, or a      *)
(* "bare" one without annotations.                                         *)
(***************************************************************************)
EXTENDS AnnotationRpc, Chains

CONSTANTS
    StreamLength,   \* bytes of the file
    chunk_size

ASSUME PythonClientAssumption ==
    /\ StreamLength \in Nat
    /\ chunk_size \in Nat \ {0}
    /\ Responses \subseteq {"error", "result", "frameless", "bare"}

VARIABLES
    script,     \* which one is run
    main,       \* "load", "call", "iterate"; and how the script ended: "exhausted"
                \* (no more responses), "broke" (an error) or "raised" (an exception)
    stream,     \* the chunks loaded
    loaded,     \* the bytes in them
    yielded,    \* how many requests the generator has given
    printed     \* the responses printed

script_state == <<script, main, stream, loaded, printed>>
vars == <<script_state, yielded, wire, service>>

Scripts == {"label", "object", "shot", "explicit", "storage"}

Init ==
    /\ script \in Scripts
    /\ main = "load"
    /\ stream = <<>> /\ loaded = 0 /\ yielded = 0
    /\ printed = <<>>
    /\ RpcInit

-------------------------------------------------------------------------------
\* What a script can print; label_annotations[0].frames[0] and frames[0] of each
\* object raise an IndexError when there is none.
LabelDetection(r) == r = "result"
ObjectTracking(r) == r # "frameless"
ShotDetection(r) == r # "error"
ExplicitContentDetection(r) == r # "error"
Storage(r) == r # "error"

Prints(r) ==
    CASE script = "label" -> LabelDetection(r)
      [] script = "object" -> ObjectTracking(r)
      [] script = "shot" -> ShotDetection(r)
      [] script = "explicit" -> ExplicitContentDetection(r)
      [] script = "storage" -> Storage(r)

\* Mutant of data: the file is read by whole chunks only.
data_whole == IF loaded < StreamLength THEN [i \in 1..chunk_size |-> loaded + i] ELSE <<>>

\* video_file.read(chunk_size)
data == [i \in 1..(IF StreamLength - loaded < chunk_size
                   THEN StreamLength - loaded ELSE chunk_size) |-> loaded + i]

\* One turn of the loop that loads the file.
LoadChunk ==
    /\ main = "load"
    /\ IF data = <<>>
       THEN main' = "call" /\ UNCHANGED <<stream, loaded>>
       ELSE /\ stream' = Append(stream, data)
            /\ loaded' = loaded + Len(data)
            /\ UNCHANGED main
    /\ UNCHANGED <<script, printed, yielded, wire, service>>

\* io.open() or read() raises.
LoadFails ==
    /\ main = "load"
    /\ main' = "raised"
    /\ UNCHANGED <<script, stream, loaded, printed, yielded, wire, service>>

\* streaming_annotate_video: a call that cannot be started shows at the first response.
Call ==
    /\ main = "call"
    /\ main' = "iterate"
    /\ rpc' \in {"running", "failed"}
    /\ UNCHANGED <<script, stream, loaded, printed, yielded, out, in, half_closed, service>>

-------------------------------------------------------------------------------
\* The thread of the library that consumes stream_generator().

\* Mutant of request: the generator ends with config_request.
request_content == IF yielded < Len(stream) THEN stream[yielded + 1] ELSE <<Config>>

request == IF yielded = 0 THEN <<Config>> ELSE stream[yielded]

YieldRequest ==
    /\ yielded <= Len(stream)
    /\ Send(request)
    /\ yielded' = yielded + 1
    /\ UNCHANGED <<script_state, service>>

GeneratorEnds ==
    /\ yielded > Len(stream)
    /\ ~half_closed
    /\ HalfClose
    /\ UNCHANGED <<script_state, yielded, service>>

-------------------------------------------------------------------------------
\* The loop over the responses.

\* streaming_annotate has returned or raised: the call is cancelled with it.
DropCall ==
    /\ rpc' = IF rpc = "running" THEN "failed" ELSE rpc
    /\ out' = <<>> /\ in' = <<>>
    /\ UNCHANGED half_closed

\* Mutant of NextResponse: the loop begins when all the video has been sent.
NextResponseLate ==
    /\ main = "iterate"
    /\ half_closed
    /\ \E r \in Responses : Receive(r) /\ printed' = Append(printed, r)
    /\ UNCHANGED <<script, main, stream, loaded, yielded, service>>

\* Mutant of NextResponse: the loop goes on after an error.
NextResponseAnyway ==
    /\ main = "iterate"
    /\ \E r \in Responses : Receive(r) /\ printed' = Append(printed, r)
    /\ UNCHANGED <<script, main, stream, loaded, yielded, service>>

NextResponse ==
    /\ main = "iterate"
    /\ in # <<>>
    /\ LET r == Head(in)
       IN IF r # "error" /\ Prints(r)
          THEN Receive(r) /\ printed' = Append(printed, r) /\ UNCHANGED main
          ELSE /\ DropCall
               /\ IF r = "error"
                  THEN main' = "broke" /\ printed' = Append(printed, r)
                  ELSE main' = "raised" /\ UNCHANGED printed
    /\ UNCHANGED <<script, stream, loaded, yielded, service>>

\* The iterator ends with the call: by an exception if it has failed.
ResponsesEnd ==
    /\ main = "iterate"
    /\ StreamEnded
    /\ in = <<>>
    /\ main' = IF rpc = "ok" THEN "exhausted" ELSE "raised"
    /\ UNCHANGED <<script, stream, loaded, printed, yielded, wire, service>>

Script == LoadChunk \/ LoadFails \/ Call \/ NextResponse \/ ResponsesEnd
Consumer == YieldRequest \/ GeneratorEnds

Next ==
    \/ Script
    \/ Consumer
    \/ Server /\ UNCHANGED <<script_state, yielded>>
    \/ RpcFails /\ UNCHANGED <<script_state, yielded>>

Spec == Init /\ [][Next]_vars

\* The two threads run on, and either the service does its part or the call meets
\* its timeout.
Fairness ==
    /\ WF_vars(Script)
    /\ WF_vars(Consumer)
    /\ \/ WF_vars(Server /\ UNCHANGED <<script_state, yielded>>)
       \/ WF_vars(RpcFails /\ UNCHANGED <<script_state, yielded>>)

FairSpec == Spec /\ Fairness
-------------------------------------------------------------------------------
Over == main \in {"exhausted", "broke", "raised"}

\* Types; no chunk is empty or too large, and the generator is not asked for more than
\* it has.
TypeOK ==
    /\ script \in Scripts
    /\ main \in {"load", "call", "iterate", "exhausted", "broke", "raised"}
    /\ stream \in Seq(Seq(1..StreamLength))
    /\ \A k \in 1..Len(stream) : Len(stream[k]) \in 1..chunk_size
    /\ loaded \in 0..StreamLength
    /\ yielded \in 0..Len(stream) + 1
    /\ printed \in Seq(Responses)
    /\ RpcTypeOK(0..StreamLength)

\* A script that ends without an exception has printed what the service has answered,
\* in order and from the first response on: all of it, or up to the first error, which
\* is the last line.
PrintedInOrder ==
    /\ Len(printed) <= Len(answers)
    /\ \A i \in 1..Len(printed) : printed[i] = answers[i]
    /\ main = "exhausted" => printed = answers
    /\ \A i \in 1..Len(printed) :
          printed[i] = "error" => main = "broke" /\ i = Len(printed)

Abstract ==
    INSTANCE AnnotateVideo
    WITH read <- loaded, cut <- FALSE,
         outcome <- IF main = "exhausted" THEN "true"
                    ELSE IF Over THEN "false" ELSE "none"

\* The promises of AnnotateVideo; success is a loop that has run out of responses.
Implements == Abstract!Spec

\* Every script ends, although it sends and receives through bounded windows.
Terminates == <>Over
===============================================================================
