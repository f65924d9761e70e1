------------------------------- MODULE FrameTools -------------------------------
(***************************************************************************)
(* The tools of src/vfp that cut videos into frames: extract_frame.py and  *)
(* visualize_annotation.py, both on top of frame_lib.py.  A pool of        *)
(* processes works on one video each.  For a video, ffmpeg writes its      *)
(* frames to files that are numbered from 1 on, and these are renamed, in  *)
(* place, to the time of the frame in microseconds.  visualize_annotation  *)
(* does so below a temporary directory that all the processes share, then  *)
(* draws each annotation over a frame and removes the others.              *)
(*                                                                         *)
(* The name of a file is a number, and a frame is a pair of the video and  *)
(* its position there.  The base names of the videos are distinct, so that *)
(* the directory of video v is called v.  visualize_annotation may find a  *)
(* temporary directory that an earlier run has left: without --force the   *)
(* output directory is used as it is.  extract_frame takes no output       *)
(* directory that is there already.                                        *)
(*                                                                         *)
(* ffprobe and ffmpeg fail, or write the same frames in the same order.    *)
(* Timestamps holds the names that float(ts) * 1e6 gives, which truncates  *)
(* to microseconds.  What OpenCV reads and draws is left out, and so is    *)
(* the test of extract_frames for the frame it has just chosen from the    *)
(* list of the directory.                                                  *)
(***************************************************************************)
EXTENDS Naturals, Sequences, FiniteSets, Functions

CONSTANTS
    Videos,         \* the videos of the list
    Timestamps,     \* Timestamps[v]: the times of the frames of v
    Annotated,      \* Annotated[v]: the times of the annotations of v
    Leftovers,      \* what earlier runs may have left: tree[v] are the files for v
    Tmp,            \* tmp_all_frames
    Workers,        \* the processes of the pool
    None            \* no video

ASSUME FrameToolsAssumption ==
    /\ IsFiniteSet(Videos) /\ IsFiniteSet(Workers) /\ None \notin Videos
    /\ DOMAIN Timestamps = Videos /\ DOMAIN Annotated = Videos
    /\ \A v \in Videos :
          /\ Timestamps[v] \in Seq(Nat) \ {<<>>}
          /\ \A k \in 2..Len(Timestamps[v]) : Timestamps[v][k - 1] < Timestamps[v][k]
          /\ Annotated[v] \in SUBSET Nat /\ IsFiniteSet(Annotated[v])
    /\ \A tree \in Leftovers :
          /\ DOMAIN tree \subseteq Videos
          /\ \A v \in DOMAIN tree : DOMAIN tree[v] \subseteq Nat /\ IsFiniteSet(DOMAIN tree[v])
    /\ Tmp \notin Videos

VARIABLES
    tool,       \* "extract" or "visualize"
    main,       \* "maps", "returned" or "raised"
    todo,       \* the videos that no process has taken
    failed,     \* whether an exception has left a process
    pc, video,  \* where each process is, and the video it works on
    renames,    \* renames[w]: what is left to rename, pairs of names
    dirs,       \* the directories that are there
    files,      \* files[d][n]: the frame in file n of directory d
    extracted,  \* the videos that extract_video_frame is done with
    undrawn,    \* undrawn[w]: the annotations that w has still to draw
    drawn       \* drawn[v][n]: the annotation that file n of the output shows

pool == <<tool, main, todo, failed>>
vars == <<pool, pc, video, renames, dirs, files, extracted, undrawn, drawn>>

Directories == Videos \cup {Tmp}
Frames(v) == 1..Len(Timestamps[v])

\* The output directory is new, or visualize_annotation finds what an earlier run left.
InitDirectories ==
    \/ /\ dirs = {}
       /\ files = [d \in Directories |-> <<>>]
    \/ /\ tool = "visualize"
       /\ \E tree \in Leftovers :
             /\ dirs = {Tmp} \cup DOMAIN tree
             /\ files = [d \in Directories |-> IF d \in DOMAIN tree THEN tree[d] ELSE <<>>]

Init ==
    /\ tool \in {"extract", "visualize"}
    /\ main = "maps"
    /\ todo = Videos
    /\ failed = FALSE
    /\ pc = [w \in Workers |-> "idle"]
    /\ video = [w \in Workers |-> None]
    /\ renames = [w \in Workers |-> <<>>]
    /\ InitDirectories
    /\ extracted = {}
    /\ undrawn = [w \in Workers |-> {}]
    /\ drawn = [v \in Videos |-> <<>>]

-------------------------------------------------------------------------------
\* Functions on a set of names.
Put(f, n, x) == [m \in DOMAIN f \cup {n} |-> IF m = n THEN x ELSE f[m]]
Without(f, n) == [m \in DOMAIN f \ {n} |-> f[m]]

Increasing(s) == \A i, j \in DOMAIN s : i < j => s[i] < s[j]

sorted(names) == CHOOSE s \in [1..Cardinality(names) -> names] : Increasing(s)

At(w, l) == main = "maps" /\ pc[w] = l
Goto(w, l) == pc' = [pc EXCEPT ![w] = l]

\* The process is done with its video, with or without an exception.
Leave(w) ==
    /\ Goto(w, "idle")
    /\ video' = [video EXCEPT ![w] = None]

Fail(w) ==
    /\ Leave(w)
    /\ failed' = TRUE
    /\ renames' = [renames EXCEPT ![w] = <<>>]

TakeVideo(w) ==
    /\ At(w, "idle")
    /\ \E v \in todo :
          /\ todo' = todo \ {v}
          /\ video' = [video EXCEPT ![w] = v]
    /\ Goto(w, IF tool = "visualize" THEN "tmp?" ELSE "dir?")
    /\ UNCHANGED <<tool, main, failed, renames, dirs, files, extracted, undrawn, drawn>>

\* os.path.exists(d)
Exists(w, here, d, there, missing) ==
    /\ At(w, here)
    /\ Goto(w, IF d \in dirs THEN there ELSE missing)
    /\ UNCHANGED <<pool, video, renames, dirs, files, extracted, undrawn, drawn>>

\* os.makedirs(d), which fails if d is there by now.
Makedirs(w, here, d, next) ==
    /\ At(w, here)
    /\ IF d \in dirs
       THEN Fail(w) /\ UNCHANGED dirs
       ELSE /\ dirs' = dirs \cup {d}
            /\ Goto(w, next)
            /\ UNCHANGED <<failed, video, renames>>
    /\ UNCHANGED <<tool, main, todo, files, extracted, undrawn, drawn>>

extract_all_frames(w) ==
    \/ Exists(w, "tmp?", Tmp, "dir?", "tmp")
    \/ Makedirs(w, "tmp", Tmp, "dir?")

frame_output_dir(w) == video[w]

\* The video is not there, or ffprobe fails: before the test for the directory.
ProbeFails(w) ==
    /\ At(w, "dir?")
    /\ Fail(w)
    /\ UNCHANGED <<tool, main, todo, dirs, files, extracted, undrawn, drawn>>

MakeOutputDir(w) ==
    \/ Exists(w, "dir?", frame_output_dir(w), "ffmpeg", "dir")
    \/ Makedirs(w, "dir", frame_output_dir(w), "ffmpeg")

\* The files of a directory after ffmpeg has written the first k frames of v to it.
Numbered(f, v, k) ==
    [n \in DOMAIN f \cup 1..k |-> IF n \in 1..k THEN <<v, n>> ELSE f[n]]

RunFFmpeg(w) ==
    /\ At(w, "ffmpeg")
    /\ files' = [files EXCEPT ![frame_output_dir(w)] =
                    Numbered(@, video[w], Len(Timestamps[video[w]]))]
    /\ Goto(w, "list")
    /\ UNCHANGED <<pool, video, renames, dirs, extracted, undrawn, drawn>>

\* ffmpeg fails after some of the frames, or the position of a frame is not known.
FFmpegFails(w) ==
    /\ At(w, "ffmpeg")
    /\ \E k \in 0..Len(Timestamps[video[w]]) :
          files' = [files EXCEPT ![frame_output_dir(w)] = Numbered(@, video[w], k)]
    /\ Fail(w)
    /\ UNCHANGED <<tool, main, todo, dirs, extracted, undrawn, drawn>>

\* Mutant of ListFrames: zip() alone, which drops what one list has more than the other.
ListMoreFrames(w) ==
    /\ At(w, "list")
    /\ LET image_files == DOMAIN files[frame_output_dir(w)]
           ts_list == Timestamps[video[w]]
       IN renames' = [renames EXCEPT ![w] =
              [k \in 1..Len(ts_list) |-> <<sorted(image_files)[k], ts_list[k]>>]]
    /\ Goto(w, "rename")
    /\ UNCHANGED <<pool, video, dirs, files, extracted, undrawn, drawn>>

\* The files of the directory, sorted, are paired with the times of the frames.
ListFrames(w) ==
    /\ At(w, "list")
    /\ LET image_files == DOMAIN files[frame_output_dir(w)]
           ts_list == Timestamps[video[w]]
       IN IF Cardinality(image_files) # Len(ts_list)
          THEN Fail(w)
          ELSE /\ renames' = [renames EXCEPT ![w] =
                      [k \in 1..Len(ts_list) |-> <<sorted(image_files)[k], ts_list[k]>>]]
               /\ Goto(w, "rename")
               /\ UNCHANGED <<failed, video>>
    /\ UNCHANGED <<tool, main, todo, dirs, files, extracted, undrawn, drawn>>

\* os.rename(image_name, new_image_name): a file of the new name is replaced.
RenameTo(f, image_name, new_image_name) ==
    IF image_name = new_image_name THEN f
    ELSE Put(Without(f, image_name), new_image_name, f[image_name])

RenameFrame(w) ==
    /\ At(w, "rename") /\ renames[w] # <<>>
    /\ LET d == frame_output_dir(w)
           image_name == Head(renames[w])[1]
           new_image_name == Head(renames[w])[2]
       IN files' = [files EXCEPT ![d] = RenameTo(@, image_name, new_image_name)]
    /\ renames' = [renames EXCEPT ![w] = Tail(@)]
    /\ UNCHANGED <<pool, pc, video, dirs, extracted, undrawn, drawn>>

\* extract_video_frame returns.
FramesExtracted(w) ==
    /\ At(w, "rename") /\ renames[w] = <<>>
    /\ extracted' = extracted \cup {video[w]}
    /\ IF tool = "visualize"
       THEN /\ Goto(w, "draw")
            /\ undrawn' = [undrawn EXCEPT ![w] = Annotated[video[w]]]
            /\ UNCHANGED video
       ELSE Leave(w) /\ UNCHANGED undrawn
    /\ UNCHANGED <<pool, renames, dirs, files, drawn>>

extract_video_frame(w) ==
    \/ ProbeFails(w)
    \/ MakeOutputDir(w)
    \/ RunFFmpeg(w)
    \/ FFmpegFails(w)
    \/ ListFrames(w)
    \/ RenameFrame(w)
    \/ FramesExtracted(w)

\* bisect.bisect(s, t): how many elements of the sorted sequence s are <= t.
bisect(s, t) == Cardinality({k \in 1..Len(s) : s[k] <= t})

\* Mutant of NearestFrame: the frame before the annotation, however far.
FrameBefore(s, t) == IF bisect(s, t) = 0 THEN s[1] ELSE s[bisect(s, t)]

\* The time of the frame that the annotation at time t is drawn over.
NearestFrame(s, t) ==
    LET index == bisect(s, t)
    IN IF index = 0 THEN s[1]
       ELSE IF index = Len(s) THEN s[Len(s)]
       ELSE IF t - s[index] < s[index + 1] - t THEN s[index] ELSE s[index + 1]

\* extract_frames: an annotation is drawn over a frame, which is written to the
\* output; a file that is there already is replaced.
DrawAnnotation(w) ==
    /\ At(w, "draw")
    /\ LET v == video[w]
           timestamp_sequence == sorted(DOMAIN files[v])
       IN \E t \in undrawn[w] :
             /\ undrawn' = [undrawn EXCEPT ![w] = @ \ {t}]
             /\ drawn' = [drawn EXCEPT ![v] = Put(@, NearestFrame(timestamp_sequence, t), t)]
    /\ UNCHANGED <<pool, pc, video, renames, dirs, files, extracted>>

\* Mutant of RemoveFrames: rmtree() has slipped into the loop over the annotations.
RemoveFramesEarly(w) ==
    /\ At(w, "draw")
    /\ dirs' = dirs \ {frame_output_dir(w)}
    /\ files' = [files EXCEPT ![frame_output_dir(w)] = <<>>]
    /\ Leave(w)
    /\ UNCHANGED <<pool, renames, extracted, undrawn, drawn>>

\* Mutant of RemoveFrames: rmtree() is forgotten.
LeaveFrames(w) ==
    /\ At(w, "draw") /\ undrawn[w] = {}
    /\ Leave(w)
    /\ UNCHANGED <<pool, renames, dirs, files, extracted, undrawn, drawn>>

\* The frames of the video are removed.
RemoveFrames(w) ==
    /\ At(w, "draw") /\ undrawn[w] = {}
    /\ dirs' = dirs \ {frame_output_dir(w)}
    /\ files' = [files EXCEPT ![frame_output_dir(w)] = <<>>]
    /\ Leave(w)
    /\ UNCHANGED <<pool, renames, extracted, undrawn, drawn>>

visualize_annotation_per_video(w) ==
    \/ extract_all_frames(w)
    \/ DrawAnnotation(w)
    \/ RemoveFrames(w)

\* Mutant of MapReturns: the temporary directory is forgotten.
MapReturnsOnly ==
    /\ main = "maps" /\ ~failed
    /\ todo = {} /\ \A w \in Workers : pc[w] = "idle"
    /\ main' = "returned"
    /\ UNCHANGED <<tool, todo, failed, pc, video, renames, dirs, files, extracted,
                   undrawn, drawn>>

\* Pool.map() returns when all the videos are done, and raises as soon as it learns
\* of an exception; the processes end with the program.  visualize_annotation then
\* removes the temporary directory with all that is in it.
MapReturns ==
    /\ main = "maps" /\ ~failed
    /\ todo = {} /\ \A w \in Workers : pc[w] = "idle"
    /\ main' = "returned"
    /\ IF tool = "visualize"
       THEN dirs' = {} /\ files' = [d \in Directories |-> <<>>]
       ELSE UNCHANGED <<dirs, files>>
    /\ UNCHANGED <<tool, todo, failed, pc, video, renames, extracted, undrawn, drawn>>

MapRaises ==
    /\ main = "maps" /\ failed
    /\ main' = "raised"
    /\ UNCHANGED <<tool, todo, failed, pc, video, renames, dirs, files, extracted,
                   undrawn, drawn>>

Worker(w) ==
    \/ TakeVideo(w)
    \/ extract_video_frame(w)
    \/ visualize_annotation_per_video(w)

Next == (\E w \in Workers : Worker(w)) \/ MapReturns \/ MapRaises

Spec == Init /\ [][Next]_vars

\* Every process is scheduled.
FairSpec ==
    /\ Spec
    /\ WF_vars(MapReturns \/ MapRaises)
    /\ \A w \in Workers : WF_vars(Worker(w))

-------------------------------------------------------------------------------
\* Types; at most one video is with each process, and none with two.
TypeOK ==
    /\ tool \in {"extract", "visualize"}
    /\ main \in {"maps", "returned", "raised"}
    /\ failed \in BOOLEAN /\ todo \subseteq Videos
    /\ pc \in [Workers -> {"idle", "tmp?", "tmp", "dir?", "dir", "ffmpeg", "list",
                          "rename", "draw"}]
    /\ video \in [Workers -> (Videos \ todo) \cup {None}]
    /\ \A w \in Workers : (pc[w] = "idle") <=> (video[w] = None)
    /\ \A v, w \in Workers : v # w /\ video[v] # None => video[v] # video[w]
    /\ dirs \subseteq Directories /\ DOMAIN files = Directories
    /\ \A d \in Directories : DOMAIN files[d] \subseteq Nat /\ IsFiniteSet(DOMAIN files[d])
    /\ \A d \in Directories \ dirs : files[d] = <<>>
    /\ extracted \subseteq Videos \ todo
    /\ DOMAIN renames = Workers /\ DOMAIN undrawn = Workers /\ DOMAIN drawn = Videos
    /\ \A w \in Workers : undrawn[w] # {} => pc[w] = "draw"

\* "The frame will be named with it's timestamp" (vfp/README.md:53): a frame that was
\* extracted stays under its own time, and none is lost, whatever the other processes
\* do, although the names of the frames change under each other, and although an earlier
\* run may have left frames in the same directory: none of these is taken for a new one.
NamedByTime ==
    \A v \in extracted :
        v \in dirs =>
            /\ DOMAIN files[v] = Range(Timestamps[v])
            /\ \A k \in Frames(v) : files[v][Timestamps[v][k]] = <<v, k>>

Distance(s, t) == IF s < t THEN t - s ELSE s - t

Nearest(v, n, t) == \A k \in Frames(v) : Distance(n, t) <= Distance(Timestamps[v][k], t)

\* An annotation is drawn over a frame of its video that no other is nearer to, and
\* if visualize_annotation ends without an exception each annotation has been drawn,
\* unless another one with the same frame replaced it.
DrawnOverNearest ==
    /\ \A v \in Videos : \A n \in DOMAIN drawn[v] : Nearest(v, n, drawn[v][n])
    /\ tool = "visualize" /\ main = "returned" =>
          \A v \in Videos : \A t \in Annotated[v] : \E n \in DOMAIN drawn[v] : Nearest(v, n, t)

\* Of the videos it has begun with, visualize_annotation keeps the frames of those only
\* that its processes are at, whether it has made their directory or found it, as long
\* as no exception comes in its way.
NothingLeftBehind ==
    tool = "visualize" /\ ~failed =>
        \A v \in dirs \ ({Tmp} \cup todo) : \E w \in Workers : video[w] = v

\* The pool is never left waiting: the program ends, and without an exception nothing
\* of the temporary directory stays behind.
Terminates == <>(main = "raised" \/ (main = "returned" /\ (tool = "visualize" => dirs = {})))
===============================================================================
