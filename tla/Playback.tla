-------------------------------- MODULE Playback --------------------------------
(***************************************************************************)
(* MediaPlayer::PlayMedia (ingestion/client/cpp/media_player.cc) with the  *)
(* helpers of visualizer_util.cc: over each decoded frame of the video it  *)
(* draws the annotation that is due, taken from                            *)
(* annotation_response_queue_, which the reader thread fills while the     *)
(* video plays, after ProtoProcessor::Process (proto_processor.cc) has     *)
(* logged what it has received.                                            *)
(*                                                                         *)
(* Times are in milliseconds.  The code keeps them in uint32_t: Word is    *)
(* 2^32.  position is the true time since the first frame; the horizon     *)
(* Duration stands for all the time that comes after it.  The drawing      *)
(* itself and the pacing of the frames by SDL_Delay are left out.          *)
(* SyncQueue (Implements, PollerNeverBlocks) is why Size() and Pop() of    *)
(* the only consumer are one step here.                                    *)
(***************************************************************************)
EXTENDS Integers, Sequences

CONSTANTS
    Word,                           \* 2^32
    Duration,                       \* the horizon
    Features,                       \* the features the configuration may ask for
    Contents,                       \* what the responses of the server may carry
    MaxResponses,                   \* how many of them arrive, at most
    kRendererClearThresholdLabel,
    kRendererClearThresholdTracking

\* What a response carries; "error": no annotation_results.
Kinds == {"error", "label", "object", "shot", "explicit"}

StreamingFeature ==
    {"STREAMING_FEATURE_UNSPECIFIED",
     "STREAMING_LABEL_DETECTION", "STREAMING_AUTOML_CLASSIFICATION",
     "STREAMING_SHOT_CHANGE_DETECTION", "STREAMING_EXPLICIT_CONTENT_DETECTION",
     "STREAMING_OBJECT_TRACKING", "STREAMING_AUTOML_OBJECT_TRACKING"}

ASSUME PlaybackAssumption ==
    /\ Word \in Nat /\ Duration \in Nat /\ Duration < Word
    /\ Features \subseteq StreamingFeature
    /\ Contents \subseteq [kind : Kinds, time : 0..Duration, frames : 0..1]
    /\ MaxResponses \in Nat
    /\ kRendererClearThresholdLabel \in Nat \ {0}
    /\ kRendererClearThresholdTracking \in Nat \ {0}

VARIABLES
    state,                      \* "playing", "ended" or "undefined"
    feature_,                   \* what the configuration asks for
    resp,                       \* the response the reader thread has read
    logged,                     \* the responses logged, in order
    inserted,                   \* all the responses inserted, in order
    annotation_response_queue_,
    position,                   \* the time of the last frame, -1 before the first
    video_start_time,
    cur_resp, future_resp, future_read, last_updated_resp_offset,
    screen,                     \* the response drawn over the last frame
    shown                       \* the responses drawn: each with the position of
                                \* the frame it was first drawn over

local == <<video_start_time, cur_resp, future_resp, future_read,
           last_updated_resp_offset>>
reading == <<feature_, resp, logged>>
vars == <<state, reading, inserted, annotation_response_queue_, position, local, screen,
          shown>>

\* A response is known by its number; 0 is a message as its default constructor
\* makes it.
Response(id, c) == [id |-> id, kind |-> c.kind, time |-> c.time, frames |-> c.frames]
Empty == [id |-> 0, kind |-> "error", time |-> 0, frames |-> 0]

has_annotation_results(r) == r.kind # "error"

GetAnnotationResponseTimestamp(r) ==
    IF r.kind \in {"label", "object"} /\ r.frames > 0 THEN r.time ELSE 0

GetRendererClearThreshold(r) ==
    CASE r.kind = "label" -> kRendererClearThresholdLabel
      [] r.kind = "object" -> kRendererClearThresholdTracking
      [] OTHER -> 0

Init ==
    /\ state = "playing"
    /\ feature_ \in Features /\ resp = Empty /\ logged = <<>>
    /\ inserted = <<>>
    /\ annotation_response_queue_ = <<>>
    /\ position = -1
    /\ video_start_time = 0
    /\ cur_resp = Empty /\ future_resp = Empty
    /\ future_read = TRUE
    /\ last_updated_resp_offset = 0
    /\ screen = Empty
    /\ shown = <<>>

-------------------------------------------------------------------------------
\* The reader thread.

Labelling == {"STREAMING_LABEL_DETECTION", "STREAMING_AUTOML_CLASSIFICATION"}
Tracking == {"STREAMING_OBJECT_TRACKING", "STREAMING_AUTOML_OBJECT_TRACKING"}

\* Mutant of Processed: the features of AutoML are not known.
ProcessedBuiltin(feature) ==
    CASE feature = "STREAMING_LABEL_DETECTION" -> "label"
      [] feature = "STREAMING_OBJECT_TRACKING" -> "object"
      [] feature = "STREAMING_SHOT_CHANGE_DETECTION" -> "shot"
      [] feature = "STREAMING_EXPLICIT_CONTENT_DETECTION" -> "explicit"
      [] OTHER -> "none"

\* The annotations that Process looks at.
Processed(feature) ==
    CASE feature \in Labelling -> "label"
      [] feature \in Tracking -> "object"
      [] feature = "STREAMING_SHOT_CHANGE_DETECTION" -> "shot"
      [] feature = "STREAMING_EXPLICIT_CONTENT_DETECTION" -> "explicit"
      [] OTHER -> "none"

\* An object without a frame is left out; frames(0) of a label is read anyway.
Logs(r) == r.kind = Processed(feature_) /\ (r.kind = "object" => r.frames > 0)

\* A response that carries c is read and goes through ProtoProcessor.
Process(c) ==
    /\ resp = Empty
    /\ Len(inserted) < MaxResponses
    /\ resp' = Response(Len(inserted) + 1, c)
    /\ logged' = IF Logs(resp') THEN Append(logged, resp') ELSE logged
    /\ state' = IF Logs(resp') /\ c.kind = "label" /\ c.frames = 0 THEN "undefined" ELSE state
    /\ UNCHANGED <<feature_, inserted, annotation_response_queue_, position, local, screen,
                   shown>>

\* Then it goes to the player.
InsertAnnotationResponse ==
    /\ resp # Empty
    /\ inserted' = Append(inserted, resp)
    /\ annotation_response_queue_' = Append(annotation_response_queue_, resp)
    /\ resp' = Empty
    /\ UNCHANGED <<state, feature_, logged, position, local, screen, shown>>

-------------------------------------------------------------------------------
\* Mutant of VideoOffset: the operands are swapped.
VideoOffsetSwapped(time, start) == (start - time) % Word

\* video_current_time - video_start_time, in uint32_t.
VideoOffset(time, start) == (time - start) % Word

\* Mutant of TakeFuture: a response is fetched for every frame.
TakeFutureAlways ==
    /\ annotation_response_queue_ # <<>>
    /\ future_resp' = Head(annotation_response_queue_)
    /\ annotation_response_queue_' = Tail(annotation_response_queue_)

\* future_resp is fetched when the last one has been used.
TakeFuture ==
    /\ annotation_response_queue_ # <<>>
    /\ IF future_read
       THEN /\ future_resp' = Head(annotation_response_queue_)
            /\ annotation_response_queue_' = Tail(annotation_response_queue_)
       ELSE UNCHANGED <<future_resp, annotation_response_queue_>>

\* Mutant of Due: whatever the timestamp, a response with results is shown.
DueAtOnce(r, offset) == has_annotation_results(r)

Due(r, offset) ==
    has_annotation_results(r) /\ GetAnnotationResponseTimestamp(r) <= offset

\* Mutant of UseFuture: future_read is not set again.
UseFutureOnce(offset) ==
    IF Due(future_resp', offset)
    THEN /\ cur_resp' = future_resp'
         /\ future_read' = FALSE
         /\ last_updated_resp_offset' = offset
    ELSE /\ future_read' = FALSE
         /\ UNCHANGED <<cur_resp, last_updated_resp_offset>>

\* future_resp becomes cur_resp when its time has come.
UseFuture(offset) ==
    IF Due(future_resp', offset)
    THEN /\ cur_resp' = future_resp'
         /\ future_read' = TRUE
         /\ last_updated_resp_offset' = offset
    ELSE /\ future_read' = FALSE
         /\ UNCHANGED <<cur_resp, last_updated_resp_offset>>

UpdateResponse(offset) ==
    \/ TakeFuture /\ UseFuture(offset)
    \/ /\ annotation_response_queue_ = <<>>
       /\ UNCHANGED <<annotation_response_queue_, future_resp, future_read, cur_resp,
                      last_updated_resp_offset>>

\* Mutant of Fresh: cur_resp stays on the screen until there is another one.
FreshForEver(offset) ==
    has_annotation_results(cur_resp') /\ GetRendererClearThreshold(cur_resp') > 0

\* cur_resp has not been on the screen for too long.
Fresh(offset) ==
    /\ has_annotation_results(cur_resp')
    /\ (offset - last_updated_resp_offset') % Word < GetRendererClearThreshold(cur_resp')

LastShown == IF shown = <<>> THEN [resp |-> Empty, at |-> 0] ELSE shown[Len(shown)]

\* UpdateSDLRendererContent reads frames(0) of what it draws.
Draw(offset) ==
    /\ screen' = IF Fresh(offset) THEN cur_resp' ELSE Empty
    /\ shown' = IF screen' # Empty /\ screen' # LastShown.resp
                THEN Append(shown, [resp |-> screen', at |-> position']) ELSE shown
    /\ state' = IF Fresh(offset) /\ cur_resp'.frames = 0 THEN "undefined" ELSE state

\* One frame is decoded and presented.  Its time, a double, is taken to wrap when it is
\* cast to uint32_t, as the code compiled for x86-64 does by way of a 64-bit integer;
\* ISO C++ leaves the cast of a larger value undefined.
PresentFrame ==
    /\ state = "playing"
    /\ \/ /\ position = -1
          /\ position' = 0
          /\ video_start_time' \in 0..Word - 1
       \/ /\ position >= 0
          /\ position' \in position..Duration
          /\ UNCHANGED video_start_time
    /\ LET video_current_time == (video_start_time' + position') % Word
           offset == VideoOffset(video_current_time, video_start_time')
       IN UpdateResponse(offset) /\ Draw(offset)
    /\ UNCHANGED <<reading, inserted>>

\* av_read_frame() reports the end of the stream.
PlayMediaReturns ==
    /\ state = "playing"
    /\ state' = "ended"
    /\ UNCHANGED <<reading, inserted, annotation_response_queue_, position, local, screen,
                   shown>>

Next ==
    \/ \E c \in Contents : Process(c)
    \/ InsertAnnotationResponse
    \/ PresentFrame
    \/ PlayMediaReturns

Spec == Init /\ [][Next]_vars

\* The video goes on, and its time with it.
Fairness ==
    /\ WF_vars(PresentFrame)
    /\ WF_vars(PresentFrame /\ position' > position)

FairSpec == Spec /\ Fairness
-------------------------------------------------------------------------------
ResponseType == [id : 0..MaxResponses, kind : Kinds, time : 0..Duration, frames : 0..1]

\* Types; the offset that is kept is one that the video has reached.
TypeOK ==
    /\ state \in {"playing", "ended", "undefined"}
    /\ feature_ \in Features
    /\ resp \in ResponseType /\ logged \in Seq(ResponseType)
    /\ inserted \in Seq(ResponseType) /\ Len(inserted) <= MaxResponses
    /\ annotation_response_queue_ \in Seq(ResponseType)
    /\ position \in -1..Duration
    /\ video_start_time \in 0..Word - 1
    /\ cur_resp \in ResponseType /\ future_resp \in ResponseType
    /\ future_read \in BOOLEAN
    /\ last_updated_resp_offset \in {0} \cup 0..position
    /\ screen \in ResponseType
    /\ shown \in Seq([resp : ResponseType, at : 0..Duration])

\* No annotation is drawn over a frame that comes before it in the video, wherever
\* the timestamps of the video start and although they may wrap around uint32_t.
NeverEarly ==
    \A i \in 1..Len(shown) : GetAnnotationResponseTimestamp(shown[i].resp) <= shown[i].at

\* Only the annotations of labels and of objects can be drawn.
Drawable(r) == r.kind \in {"label", "object"}

\* What is drawn is what was received, in the order in which it was received, each
\* response once and none left out, apart from those that cannot be drawn.
ShownInOrder ==
    \A j \in 1..Len(shown) :
        LET r == shown[j].resp
        IN /\ r.id \in 1..Len(inserted) /\ r = inserted[r.id] /\ Drawable(r)
           /\ \A k \in 1..j - 1 : shown[k].resp.id < r.id
           /\ \A i \in 1..r.id - 1 :
                 Drawable(inserted[i]) => \E k \in 1..j - 1 : shown[k].resp = inserted[i]

\* "clear renderer" (media_player.cc:335): an annotation leaves the screen when its
\* threshold has passed since it first appeared there, although no other arrives.
ClearedInTime ==
    screen # Empty =>
        /\ screen = LastShown.resp
        /\ position - LastShown.at < GetRendererClearThreshold(screen)

Asked(r) ==
    \/ feature_ \in Labelling /\ r.kind = "label"
    \/ feature_ \in Tracking /\ r.kind = "object"

\* What the feature asks for and the player draws is in the log, in the same order: the
\* player never shows what ProtoProcessor has not reported yet, and has shown before it
\* all that was reported before.  (An object without a frame is not logged.)
DrawnIsLogged ==
    \A j \in 1..Len(shown) :
        Asked(shown[j].resp) /\ shown[j].resp.frames > 0 =>
            \E k \in 1..Len(logged) :
                /\ logged[k] = shown[j].resp
                /\ \A l \in 1..k - 1 : \E i \in 1..j - 1 : shown[i].resp = logged[l]

\* UpdateSDLRendererContent never reads frames(0) of an annotation without frames,
\* which an object annotation may be (proto_processor.cc:106).
DrawsTrackletsOnly == state # "undefined"

\* The responses that the player is done with.
Used == Len(inserted) - Len(annotation_response_queue_) - (IF future_read THEN 0 ELSE 1)

\* As long as the video plays, a response is not held up for ever: it is used in the
\* end if another one comes after it and each one before it carried results.
DueIsUsed ==
    \A i \in 1..MaxResponses :
        (Len(inserted) > i /\ \A j \in 1..i : has_annotation_results(inserted[j]))
            ~> (Used >= i \/ state # "playing")
===============================================================================
