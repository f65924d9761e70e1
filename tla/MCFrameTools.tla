------------------------------ MODULE MCFrameTools ------------------------------
(* Instances of FrameTools for TLC. *)
EXTENDS FrameTools

\* Times in microseconds are beyond the numbers of the frames.
ShortVideos == [a |-> <<0, 10, 13>>, b |-> <<5, 8>>, c |-> <<7>>]

\* Before, at, between and after the frames, nearer to the one and to the other.
Annotations == [a |-> {1, 9, 12}, b |-> {3, 6, 20}, c |-> {7}]

\* What a run that failed leaves: an empty directory; the first frames, under their
\* numbers; frames that are renamed, in part or all of them, and as many as there are
\* times; more frames than the video has by now.
OldFrames(names) == [n \in names |-> <<"old", n>>]
FailedRuns ==
    { <<>>,
      [a |-> OldFrames({1, 2})],
      [a |-> OldFrames({0, 2, 3}), b |-> <<>>],
      [a |-> OldFrames({0, 10, 13}), c |-> OldFrames({1})],
      [b |-> OldFrames({5, 8}), c |-> OldFrames({1, 2})] }

\* A video of so many frames that their numbers reach its times: at 30 frames per
\* second, one of 33333 frames, or 19 minutes, does.
LongVideo == [a |-> <<0, 3, 6>>]
NoAnnotations == [a |-> {}]
NoLeftovers == {}
===============================================================================
