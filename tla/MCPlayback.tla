------------------------------- MODULE MCPlayback -------------------------------
(* Instances of Playback for TLC: what the responses of the server carry. *)
EXTENDS Playback

Label(t) == [kind |-> "label", time |-> t, frames |-> 1]
Object(t, n) == [kind |-> "object", time |-> t, frames |-> n]
Error == [kind |-> "error", time |-> 0, frames |-> 0]
Shot == [kind |-> "shot", time |-> 0, frames |-> 0]

\* Each annotation has its frame (video_intelligence_streaming.proto:165).
WithFrames == {Label(0), Label(2), Object(1, 1), Error, Shot}

\* An object annotation may come without a frame (proto_processor.cc:106).
WithoutFrames == {Label(0), Object(1, 1), Object(1, 0)}

\* One feature of each kind, of AutoML where there is one.
SomeFeatures ==
    {"STREAMING_FEATURE_UNSPECIFIED", "STREAMING_AUTOML_CLASSIFICATION",
     "STREAMING_SHOT_CHANGE_DETECTION", "STREAMING_AUTOML_OBJECT_TRACKING"}
===============================================================================
