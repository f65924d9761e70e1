---------------------------- MODULE FrameToolsProofs ----------------------------
(***************************************************************************)
(* Theorems about FrameTools for any videos, times, annotations and        *)
(* numbers of processes.  That the frames are named and the annotations    *)
(* drawn as they should be holds where no frame has a time that is the     *)
(* number of a later frame of its video.                                   *)
(***************************************************************************)
EXTENDS FrameTools, FiniteSetTheorems, SequenceTheorems, TLAPS

NoTimeIsNumber ==
    \A v \in Videos : \A k \in Frames(v) : Timestamps[v][k] \notin k + 1..Len(Timestamps[v])

\* What is left to rename are the frames of video v after the first k.
RenamesAfter(r, v, k) ==
    /\ k \in 0..Len(Timestamps[v])
    /\ r = [i \in 1..Len(Timestamps[v]) - k |-> <<k + i, Timestamps[v][k + i]>>]

\* The frames of video v have their numbers, next to what was in the directory before.
HasNumbered(f, v) ==
    /\ Frames(v) \subseteq DOMAIN f
    /\ \A n \in Frames(v) : f[n] = <<v, n>>

\* Where process w is, and what it has made of the directory of its video by then.
WorkerControl(w) ==
    LET v == video[w] IN
    /\ pc[w] \in {"ffmpeg", "list", "rename", "draw"} => v \in dirs
    /\ pc[w] = "list" => HasNumbered(files[v], v)
    /\ pc[w] = "rename" => \E k \in Nat : RenamesAfter(renames[w], v, k)
    /\ pc[w] = "draw" => v \in extracted /\ undrawn[w] \subseteq Annotated[v]
    /\ pc[w] # "draw" => v \notin extracted

\* The temporary directory has no files but those in the directories of the videos.
Control ==
    /\ \A w \in Workers : WorkerControl(w)
    /\ files[Tmp] = <<>>
    /\ main = "returned" => ~failed /\ todo = {} /\ \A w \in Workers : pc[w] = "idle"

\* The first k frames of video v have their times as names, and the others their numbers.
Renamed(f, v, k) ==
    LET times == Timestamps[v] IN
    /\ DOMAIN f = {times[i] : i \in 1..k} \cup (k + 1..Len(times))
    /\ \A i \in 1..k : f[times[i]] = <<v, i>>
    /\ \A i \in k + 1..Len(times) : f[i] = <<v, i>>

WorkerRenaming(w) ==
    pc[w] = "rename" =>
        \E k \in Nat : /\ RenamesAfter(renames[w], video[w], k)
                       /\ Renamed(files[video[w]], video[w], k)

Renaming == \A w \in Workers : WorkerRenaming(w)

\* The annotation at time t has been drawn, or the one that replaced it.
HasDrawn(v, t) == \E n \in DOMAIN drawn[v] : Nearest(v, n, t)

WorkerDrawing(w) ==
    pc[w] = "draw" => \A t \in Annotated[video[w]] \ undrawn[w] : HasDrawn(video[w], t)

Drawing ==
    /\ \A v \in Videos : \A n \in DOMAIN drawn[v] : Nearest(v, n, drawn[v][n])
    /\ \A w \in Workers : WorkerDrawing(w)
    /\ tool = "visualize" /\ ~failed =>
          \A v \in Videos \ todo :
              (\E w \in Workers : video[w] = v) \/ \A t \in Annotated[v] : HasDrawn(v, t)

IndInv == TypeOK /\ Control /\ Renaming /\ NamedByTime /\ Drawing

-------------------------------------------------------------------------------
\* Lemmas on the operators of the model.

\* The times of a video.
LEMMA TimesProperties ==
  ASSUME NEW v \in Videos
  PROVE  /\ Timestamps[v] \in Seq(Nat) /\ Len(Timestamps[v]) \in Nat \ {0}
         /\ Timestamps[v] \in [Frames(v) -> Nat] /\ Frames(v) = 1..Len(Timestamps[v])
         /\ Annotated[v] \subseteq Nat /\ v # Tmp /\ v # None
<1>1. Timestamps[v] \in Seq(Nat) /\ Timestamps[v] # <<>>
  BY FrameToolsAssumption
<1>2. Len(Timestamps[v]) \in Nat \ {0}
  BY <1>1, EmptySeq
<1>. QED BY <1>1, <1>2, FrameToolsAssumption DEF Frames

LEMMA Least ==
  ASSUME NEW S \in SUBSET Nat, S # {}
  PROVE  \E x \in S : \A y \in S : x <= y
<1>1. PICK x \in S : \A y \in S : <<y, x>> \notin OpToRel(<, Nat)
  BY NatLessThanWellFounded, WFMin
<1>2. \A y \in S : ~(y < x)
  BY <1>1 DEF OpToRel
<1>. QED BY <1>2

\* Each time is later than the one before: the times increase.
LEMMA TimesIncrease == ASSUME NEW v \in Videos PROVE Increasing(Timestamps[v])
<1>. DEFINE n == Len(Timestamps[v])
            T == Timestamps[v]
<1>1. n \in Nat /\ DOMAIN T = 1..n /\ \A k \in 1..n : T[k] \in Nat
  BY TimesProperties
<1>2. \A k \in 2..n : T[k - 1] < T[k]
  BY FrameToolsAssumption
<1>. HIDE DEF n, T
<1>3. SUFFICES ASSUME NEW i \in 1..n, NEW j \in 1..n, i < j, ~(T[i] < T[j])
               PROVE  FALSE
  BY <1>1 DEF Increasing, T
<1>. DEFINE S == {k \in 1..n : i < k /\ ~(T[i] < T[k])}
<1>4. j \in S /\ S \in SUBSET Nat
  BY <1>1, <1>3
<1>5. PICK k \in S : \A l \in S : k <= l
  BY <1>4, Least
<1>6. k \in 1..n /\ i < k /\ ~(T[i] < T[k])
  OBVIOUS
<1>7. k \in 2..n /\ k - 1 \in 1..n /\ ~(k <= k - 1)
  BY <1>1, <1>6
<1>8. k - 1 \notin S
  BY <1>5, <1>7
<1>9. k - 1 = i \/ T[i] < T[k - 1]
  BY <1>6, <1>7, <1>8
<1>10. T[k - 1] < T[k] /\ T[k - 1] \in Nat /\ T[k] \in Nat /\ T[i] \in Nat
  BY <1>1, <1>2, <1>6, <1>7
<1>. QED BY <1>6, <1>9, <1>10

\* Two increasing sequences of the same names are the same.
LEMMA IncreasingUnique ==
  ASSUME NEW names \in SUBSET Nat, NEW n \in Nat,
         NEW s \in Surjection(1..n, names), NEW u \in Surjection(1..n, names),
         Increasing(s), Increasing(u)
  PROVE  s = u
<1>1. /\ s \in [1..n -> names] /\ u \in [1..n -> names]
      /\ \A x \in names : \E i \in 1..n : s[i] = x
      /\ \A x \in names : \E i \in 1..n : u[i] = x
  BY DEF Surjection
<1>2. /\ \A i, j \in 1..n : i < j => s[i] < s[j]
      /\ \A i, j \in 1..n : i < j => u[i] < u[j]
  BY <1>1 DEF Increasing
<1>3. \A i \in 1..n : s[i] \in Nat /\ u[i] \in Nat
  BY <1>1
<1>. DEFINE S == {i \in 1..n : s[i] # u[i]}
<1>4. SUFFICES ASSUME S # {} PROVE FALSE
  BY <1>1
<1>5. S \in SUBSET Nat
  OBVIOUS
<1>6. PICK k \in S : \A i \in S : k <= i
  BY <1>4, <1>5, Least
<1>7. k \in 1..n /\ s[k] # u[k] /\ \A i \in 1..n : i < k => s[i] = u[i]
  BY <1>6
<1>8. PICK i \in 1..n : u[i] = s[k]
  BY <1>1, <1>7
<1>9. PICK j \in 1..n : s[j] = u[k]
  BY <1>1, <1>7
<1>10. k < i
  <2>1. i < k => s[i] = s[k] /\ s[i] < s[k]
    BY <1>2, <1>7, <1>8
  <2>. QED BY <2>1, <1>3, <1>7, <1>8
<1>11. k < j
  <2>1. j < k => u[j] = u[k] /\ u[j] < u[k]
    BY <1>2, <1>7, <1>9
  <2>. QED BY <2>1, <1>3, <1>7, <1>9
<1>12. u[k] < s[k] /\ s[k] < u[k]
  BY <1>2, <1>7, <1>8, <1>9, <1>10, <1>11
<1>. QED BY <1>3, <1>7, <1>12

\* An increasing sequence is what sorted() makes of its elements.
LEMMA SortedProperties ==
  ASSUME NEW names \in SUBSET Nat, NEW n \in Nat,
         NEW s \in Surjection(1..n, names), Increasing(s)
  PROVE  sorted(names) = s
<1>1. s \in [1..n -> names] /\ \A i, j \in 1..n : i < j => s[i] < s[j]
  BY DEF Surjection, Increasing
<1>2. \A i \in 1..n : s[i] \in Nat
  BY <1>1
<1>3. IsFiniteSet(1..n) /\ Cardinality(1..n) = n
  BY FS_Interval
<1>4. s \in Injection(1..n, names)
  <2>1. ASSUME NEW i \in 1..n, NEW j \in 1..n, s[i] = s[j] PROVE i = j
    <3>1. ~(i < j) /\ ~(j < i)
      BY <1>1, <1>2, <2>1
    <3>. QED BY <3>1
  <2>. QED BY <1>1, <2>1 DEF Injection, IsInjective
<1>5. IsFiniteSet(names) /\ Cardinality(names) = n
  <2>1. IsFiniteSet(names) /\ (Cardinality(names) = Cardinality(1..n) <=> s \in Injection(1..n, names))
    BY <1>3, FS_Surjection
  <2>. QED BY <2>1, <1>3, <1>4
<1>. DEFINE u == sorted(names)
<1>6. u \in [1..n -> names] /\ Increasing(u)
  BY <1>1, <1>5 DEF sorted
<1>. HIDE DEF u
<1>7. u \in Injection(1..n, names)
  <2>1. \A i, j \in 1..n : i < j => u[i] < u[j]
    BY <1>6 DEF Increasing
  <2>2. \A i \in 1..n : u[i] \in Nat
    BY <1>6
  <2>3. ASSUME NEW i \in 1..n, NEW j \in 1..n, u[i] = u[j] PROVE i = j
    <3>1. ~(i < j) /\ ~(j < i)
      BY <2>1, <2>2, <2>3
    <3>. QED BY <3>1
  <2>. QED BY <1>6, <2>3 DEF Injection, IsInjective
<1>8. u \in Surjection(1..n, names)
  <2>1. Cardinality(1..n) = Cardinality(names) <=> u \in Surjection(1..n, names)
    BY <1>5, <1>7, FS_Injection
  <2>. QED BY <2>1, <1>3, <1>5
<1>9. u = s
  BY <1>6, <1>8, IncreasingUnique
<1>. QED BY <1>9 DEF u

LEMMA SortedNumbers ==
  ASSUME NEW n \in Nat
  PROVE  sorted(1..n) = [k \in 1..n |-> k]
<1>. DEFINE s == [k \in 1..n |-> k]
<1>1. s \in Surjection(1..n, 1..n)
  BY DEF Surjection
<1>2. Increasing(s)
  BY DEF Increasing
<1>3. 1..n \in SUBSET Nat
  OBVIOUS
<1>. HIDE DEF s
<1>4. sorted(1..n) = s
  BY <1>1, <1>2, <1>3, SortedProperties
<1>. QED BY <1>4 DEF s

LEMMA SortedTimes ==
  ASSUME NEW v \in Videos
  PROVE  sorted(Range(Timestamps[v])) = Timestamps[v]
<1>. DEFINE T == Timestamps[v]
            n == Len(T)
<1>1. n \in Nat /\ T \in [1..n -> Nat] /\ Increasing(T)
  BY TimesProperties, TimesIncrease
<1>. HIDE DEF T, n
<1>2. T \in Surjection(1..n, Range(T)) /\ Range(T) \in SUBSET Nat
  BY <1>1 DEF Surjection, Range
<1>3. sorted(Range(T)) = T
  BY <1>1, <1>2, SortedProperties
<1>. QED BY <1>3 DEF T

\* bisect() splits the times into those up to t and those after it.
LEMMA BisectProperties ==
  ASSUME NEW s \in Seq(Nat), Increasing(s), NEW t \in Nat
  PROVE  /\ bisect(s, t) \in 0..Len(s)
         /\ \A k \in 1..Len(s) : k <= bisect(s, t) <=> s[k] <= t
<1>. DEFINE n == Len(s)
            Before == {k \in 1..n : s[k] <= t}
            After == {k \in 1..n : t < s[k]}
<1>1. n \in Nat /\ \A k \in 1..n : s[k] \in Nat
  OBVIOUS
<1>2. \A i, j \in 1..n : i < j => s[i] < s[j]
  BY DEF Increasing
<1>3. bisect(s, t) = Cardinality(Before)
  BY DEF bisect
<1>4. ASSUME NEW m \in 0..n, Before = 1..m
      PROVE  bisect(s, t) = m /\ \A k \in 1..n : k <= m <=> s[k] <= t
  <2>1. m \in Nat /\ Cardinality(1..m) = m
    BY <1>1, FS_Interval
  <2>2. \A k \in 1..n : k <= m <=> k \in Before
    BY <1>1, <1>4
  <2>. QED BY <1>3, <1>4, <2>1, <2>2
<1>5. \E m \in 0..n : Before = 1..m
  <2>1. CASE After = {}
    <3>1. \A k \in 1..n : s[k] <= t
      BY <1>1, <2>1
    <3>2. Before = 1..n /\ n \in 0..n
      BY <1>1, <3>1
    <3>. QED BY <3>2
  <2>2. CASE After # {}
    <3>1. After \in SUBSET Nat
      OBVIOUS
    <3>2. PICK a \in After : \A k \in After : a <= k
      BY <2>2, <3>1, Least
    <3>3. a \in 1..n /\ t < s[a] /\ a - 1 \in 0..n
      BY <1>1
    <3>4. ASSUME NEW k \in 1..n PROVE s[k] <= t <=> k \in 1..a - 1
      <4>1. CASE k < a
        <5>1. k \notin After
          BY <3>2, <3>3, <4>1
        <5>. QED BY <1>1, <3>3, <4>1, <5>1
      <4>2. CASE a <= k
        <5>1. s[a] <= s[k]
          BY <1>1, <1>2, <3>3, <4>2
        <5>. QED BY <1>1, <3>3, <4>2, <5>1
      <4>. QED BY <3>3, <4>1, <4>2
    <3>5. Before = 1..a - 1
      BY <1>1, <3>3, <3>4
    <3>. QED BY <3>3, <3>5
  <2>. QED BY <2>1, <2>2
<1>6. PICK m \in 0..n : Before = 1..m
  BY <1>5
<1>7. bisect(s, t) = m /\ \A k \in 1..n : k <= m <=> s[k] <= t
  BY <1>4, <1>6
<1>. QED BY <1>7

\* No frame is nearer to an annotation than the one it is drawn over.
LEMMA NearestFrameProperties ==
  ASSUME NEW v \in Videos, NEW t \in Nat
  PROVE  Nearest(v, NearestFrame(Timestamps[v], t), t)
<1>. DEFINE s == Timestamps[v]
            n == Len(s)
<1>1. s \in Seq(Nat) /\ n \in Nat \ {0} /\ Frames(v) = 1..n /\ Increasing(s)
  BY TimesProperties, TimesIncrease
<1>2. \A k \in 1..n : s[k] \in Nat
  BY <1>1
<1>3. PICK b \in 0..n : b = bisect(s, t) /\ \A k \in 1..n : k <= b <=> s[k] <= t
  BY <1>1, BisectProperties
<1>. HIDE DEF s, n
<1>4. \A i, j \in 1..n : i < j => s[i] < s[j]
  BY <1>1 DEF Increasing, n
<1>5. \A i, j \in 1..n : i <= j => s[i] <= s[j]
  BY <1>2, <1>4
<1>6. /\ b = 0 => NearestFrame(s, t) = s[1]
      /\ b # 0 /\ b = n => NearestFrame(s, t) = s[n]
      /\ b # 0 /\ b # n =>
            NearestFrame(s, t) = IF t - s[b] < s[b + 1] - t THEN s[b] ELSE s[b + 1]
  BY <1>3 DEF NearestFrame, n
<1>7. ASSUME NEW k \in 1..n PROVE Distance(NearestFrame(s, t), t) <= Distance(s[k], t)
  <2>1. CASE b = 0
    <3>1. 1 \in 1..n /\ s[1] <= s[k] /\ ~(s[1] <= t) /\ s[1] \in Nat /\ s[k] \in Nat
      BY <1>1, <1>2, <1>3, <1>5, <2>1 DEF n
    <3>. QED BY <1>6, <2>1, <3>1 DEF Distance
  <2>2. CASE b # 0 /\ b = n
    <3>1. n \in 1..n /\ s[k] <= s[n] /\ s[n] <= t /\ s[n] \in Nat /\ s[k] \in Nat
      BY <1>1, <1>2, <1>3, <1>5, <2>2 DEF n
    <3>. QED BY <1>6, <2>2, <3>1 DEF Distance
  <2>3. CASE b # 0 /\ b # n
    <3>1. /\ b \in 1..n /\ b + 1 \in 1..n /\ s[b] <= t /\ ~(s[b + 1] <= t)
          /\ s[b] \in Nat /\ s[b + 1] \in Nat /\ s[k] \in Nat
      BY <1>1, <1>2, <1>3, <2>3 DEF n
    <3>2. s[k] <= s[b] \/ s[b + 1] <= s[k]
      BY <1>5, <3>1
    <3>. QED BY <1>6, <2>3, <3>1, <3>2 DEF Distance
  <2>. QED BY <2>1, <2>2, <2>3
<1>. QED BY <1>1, <1>7 DEF Nearest, s, n

-------------------------------------------------------------------------------
\* A step of process w leaves alone what belongs to another.

OnlyOwn(w) ==
    /\ main = "maps" /\ UNCHANGED <<tool, main>>
    /\ todo' \subseteq todo /\ (failed => failed') /\ files'[Tmp] = files[Tmp]
    /\ extracted' \subseteq Videos
    /\ \A u \in Workers \ {w} : /\ pc'[u] = pc[u] /\ video'[u] = video[u]
                                /\ renames'[u] = renames[u] /\ undrawn'[u] = undrawn[u]
    /\ \A d \in Directories \ {video[w]} : files'[d] = files[d]
    /\ \A v \in Videos \ {video[w]} : /\ v \in dirs' <=> v \in dirs
                                      /\ v \in extracted' <=> v \in extracted
                                      /\ drawn'[v] = drawn[v]

LEMMA StepOnlyOwn ==
  ASSUME TypeOK, NEW w \in Workers, Worker(w)
  PROVE  OnlyOwn(w)
<1>1. /\ DOMAIN files = Directories /\ DOMAIN pc = Workers /\ DOMAIN video = Workers
      /\ DOMAIN renames = Workers /\ DOMAIN undrawn = Workers /\ DOMAIN drawn = Videos
      /\ Tmp \notin Videos /\ extracted \subseteq Videos
      /\ pc[w] # "idle" => video[w] \in Videos
  BY FrameToolsAssumption DEF TypeOK
<1>2. CASE TakeVideo(w)
  BY <1>1, <1>2 DEF TakeVideo, At, Goto, OnlyOwn
<1>3. ASSUME NEW here, NEW d, NEW there, NEW missing, Exists(w, here, d, there, missing)
      PROVE  OnlyOwn(w)
  BY <1>1, <1>3 DEF Exists, At, Goto, OnlyOwn, pool
<1>4. ASSUME NEW here, NEW d, NEW next, d = video[w] \/ d = Tmp, Makedirs(w, here, d, next)
      PROVE  OnlyOwn(w)
  BY <1>1, <1>4 DEF Makedirs, At, Fail, Leave, Goto, OnlyOwn
<1>5. CASE RunFFmpeg(w)
  BY <1>1, <1>5 DEF RunFFmpeg, At, frame_output_dir, Goto, OnlyOwn, pool
<1>6. CASE ListFrames(w)
  BY <1>1, <1>6 DEF ListFrames, At, Fail, Leave, Goto, OnlyOwn, pool
<1>7. CASE RenameFrame(w)
  BY <1>1, <1>7 DEF RenameFrame, At, frame_output_dir, Goto, OnlyOwn, pool
<1>8. CASE FramesExtracted(w)
  BY <1>1, <1>8 DEF FramesExtracted, At, Leave, Goto, OnlyOwn, pool
<1>9. CASE DrawAnnotation(w)
  BY <1>1, <1>9 DEF DrawAnnotation, At, OnlyOwn, pool
<1>10. CASE RemoveFrames(w)
  BY <1>1, <1>10 DEF RemoveFrames, At, frame_output_dir, Leave, Goto, OnlyOwn, pool
<1>11. CASE MakeOutputDir(w)
  BY <1>3, <1>4, <1>11 DEF MakeOutputDir, frame_output_dir
<1>12. CASE extract_all_frames(w)
  BY <1>3, <1>4, <1>12 DEF extract_all_frames
<1>13. CASE ProbeFails(w)
  BY <1>1, <1>13 DEF ProbeFails, At, Fail, Leave, Goto, OnlyOwn
<1>14. CASE FFmpegFails(w)
  BY <1>1, <1>14 DEF FFmpegFails, At, Fail, Leave, Goto, frame_output_dir, OnlyOwn
<1>. QED BY <1>2, <1>5, <1>6, <1>7, <1>8, <1>9, <1>10, <1>11, <1>12, <1>13, <1>14
     DEF Worker, extract_video_frame, visualize_annotation_per_video

\* What holds for another process goes on to hold.
LEMMA OtherWorkers ==
  ASSUME TypeOK, NEW w \in Workers, OnlyOwn(w), NEW u \in Workers \ {w}
  PROVE  /\ WorkerControl(u) => WorkerControl(u)'
         /\ WorkerRenaming(u) => WorkerRenaming(u)'
         /\ WorkerDrawing(u) => WorkerDrawing(u)'
<1>1. /\ pc'[u] = pc[u] /\ video'[u] = video[u]
      /\ renames'[u] = renames[u] /\ undrawn'[u] = undrawn[u]
  BY DEF OnlyOwn
<1>2. CASE pc[u] = "idle"
  <2>1. video[u] = None /\ video[u] \notin extracted
    BY <1>2, FrameToolsAssumption DEF TypeOK
  <2>2. video[u] \notin extracted'
    BY <2>1, FrameToolsAssumption DEF OnlyOwn
  <2>. QED BY <1>1, <1>2, <2>1, <2>2 DEF WorkerControl, WorkerRenaming, WorkerDrawing
<1>3. CASE pc[u] # "idle"
  <2>1. video[u] \in Videos /\ video[u] # video[w]
    BY <1>3 DEF TypeOK
  <2>2. /\ files'[video[u]] = files[video[u]] /\ drawn'[video[u]] = drawn[video[u]]
        /\ video[u] \in dirs' <=> video[u] \in dirs
        /\ video[u] \in extracted' <=> video[u] \in extracted
    BY <2>1 DEF OnlyOwn, Directories
  <2>3. WorkerControl(u) => WorkerControl(u)'
    BY <1>1, <2>2 DEF WorkerControl
  <2>4. WorkerRenaming(u) => WorkerRenaming(u)'
    BY <1>1, <2>2 DEF WorkerRenaming
  <2>5. WorkerDrawing(u) => WorkerDrawing(u)'
    BY <1>1, <2>2 DEF WorkerDrawing, HasDrawn
  <2>. QED BY <2>3, <2>4, <2>5
<1>. QED BY <1>2, <1>3

-------------------------------------------------------------------------------
\* The files of a directory get new names.

\* ffmpeg has numbered the frames, and the list of the files is that of the frames.
FramesListed(w) ==
    LET v == video[w] IN
    /\ v \in Videos /\ v \in dirs /\ v \notin extracted
    /\ DOMAIN files[v] = Frames(v) /\ \A k \in Frames(v) : files[v][k] = <<v, k>>
    /\ RenamesAfter(renames'[w], v, 0)
    /\ pc' = [pc EXCEPT ![w] = "rename"]
    /\ UNCHANGED <<failed, video>>

\* As many files as frames: they are the frames, and nothing was there before.
LEMMA NothingElse ==
  ASSUME NEW v \in Videos, NEW f, IsFiniteSet(DOMAIN f), HasNumbered(f, v),
         Cardinality(DOMAIN f) = Len(Timestamps[v])
  PROVE  DOMAIN f = Frames(v) /\ \A k \in Frames(v) : f[k] = <<v, k>>
<1>1. PICK n \in Nat : n = Len(Timestamps[v]) /\ Frames(v) = 1..n
  BY TimesProperties
<1>2. Cardinality(1..n) = n
  BY FS_Interval
<1>3. 1..n \subseteq DOMAIN f /\ Cardinality(DOMAIN f) = Cardinality(1..n)
  BY <1>1, <1>2 DEF HasNumbered
<1>4. DOMAIN f = 1..n
  BY <1>3, FS_Subset
<1>. QED BY <1>1, <1>4 DEF HasNumbered

LEMMA ListFramesProperties ==
  ASSUME TypeOK, Control, NEW w \in Workers, ListFrames(w), pc'[w] # "idle"
  PROVE  FramesListed(w)
<1>0. PICK v : v = video[w]
  OBVIOUS
<1>1. pc[w] = "list" /\ v \in Videos /\ DOMAIN renames = Workers
  BY <1>0, FrameToolsAssumption DEF ListFrames, At, TypeOK
<1>2. v \in dirs /\ v \notin extracted /\ HasNumbered(files[v], v)
  BY <1>0, <1>1 DEF Control, WorkerControl
<1>3. PICK n \in Nat : n = Len(Timestamps[v]) /\ Frames(v) = 1..n
  BY <1>1, TimesProperties
<1>12. Cardinality(DOMAIN files[v]) = n
  <2>1. ~Fail(w)
    BY DEF Fail, Leave, Goto, TypeOK
  <2>. QED BY <2>1, <1>0, <1>3 DEF ListFrames, frame_output_dir
<1>13. DOMAIN files[v] = Frames(v) /\ \A k \in Frames(v) : files[v][k] = <<v, k>>
  <2>1. IsFiniteSet(DOMAIN files[v])
    BY <1>1 DEF TypeOK, Directories
  <2>. QED BY <2>1, <1>1, <1>2, <1>3, <1>12, NothingElse
<1>4. DOMAIN files[v] = 1..n
  BY <1>3, <1>13
<1>5. PICK s : s = sorted(1..n) /\ s = [k \in 1..n |-> k]
  BY <1>3, SortedNumbers
<1>6. Len(s) = n /\ \A k \in 1..n : s[k] = k
  <2>1. s \in [1..n -> Nat]
    BY <1>5
  <2>. QED BY <1>3, <1>5, <2>1
<1>7. /\ renames' = [renames EXCEPT ![w] = [k \in 1..n |-> <<s[k], Timestamps[v][k]>>]]
      /\ pc' = [pc EXCEPT ![w] = "rename"]
      /\ UNCHANGED <<failed, video>>
  BY <1>0, <1>3, <1>4, <1>5, <1>12 DEF ListFrames, frame_output_dir, Goto
<1>8. renames'[w] = [k \in 1..n |-> <<s[k], Timestamps[v][k]>>]
  BY <1>1, <1>7
<1>9. n - 0 = n /\ 0 \in 0..n /\ \A k \in 1..n : 0 + k = k
  OBVIOUS
<1>10. [k \in 1..n |-> <<s[k], Timestamps[v][k]>>]
          = [k \in 1..n |-> <<0 + k, Timestamps[v][0 + k]>>]
  BY <1>6, <1>9
<1>11. RenamesAfter(renames'[w], v, 0)
  BY <1>3, <1>8, <1>9, <1>10 DEF RenamesAfter
<1>. QED BY <1>0, <1>1, <1>2, <1>7, <1>11, <1>13 DEF FramesListed

\* The frame that is renamed is the first of those that have their numbers.
FrameRenamed(w, v, k) ==
    /\ k + 1 \in Frames(v) /\ RenamesAfter(renames'[w], v, k + 1)
    /\ files' = [files EXCEPT ![v] = RenameTo(@, k + 1, Timestamps[v][k + 1])]

LEMMA RenameFrameProperties ==
  ASSUME TypeOK, NEW w \in Workers, RenameFrame(w),
         NEW v \in Videos, v = video[w], NEW k \in Nat, RenamesAfter(renames[w], v, k)
  PROVE  FrameRenamed(w, v, k)
<1>1. PICK n \in Nat : n = Len(Timestamps[v]) /\ Frames(v) = 1..n
  BY TimesProperties
<1>2. PICK T : T = Timestamps[v]
  OBVIOUS
<1>3. k <= n /\ n - k \in Nat
  BY <1>1 DEF RenamesAfter
<1>4. PICK m \in Nat : m = n - k
  BY <1>3
<1>5. PICK r : r = renames[w]
  OBVIOUS
<1>6. r = [i \in 1..m |-> <<k + i, T[k + i]>>]
  BY <1>1, <1>2, <1>4, <1>5 DEF RenamesAfter
<1>7. DOMAIN renames = Workers /\ r # <<>>
  BY <1>5 DEF TypeOK, RenameFrame
<1>8. m # 0
  <2>1. m = 0 => r = <<>>
    BY <1>6
  <2>. QED BY <1>7, <2>1
<1>9. k + 1 \in 1..n /\ k + 1 \in 0..n /\ 1 \in 1..m /\ n - (k + 1) = m - 1 /\ m - 1 \in Nat
  BY <1>3, <1>4, <1>8
<1>10. Len(r) = m
  BY <1>6
<1>11. Head(r) = <<k + 1, T[k + 1]>>
  BY <1>6, <1>9
<1>12. files' = [files EXCEPT ![v] = RenameTo(@, k + 1, T[k + 1])]
  <2>1. Head(renames[w])[1] = k + 1 /\ Head(renames[w])[2] = T[k + 1]
    BY <1>5, <1>11
  <2>. QED BY <2>1 DEF RenameFrame, frame_output_dir
<1>13. renames'[w] = Tail(r)
  BY <1>5, <1>7 DEF RenameFrame
<1>14. Tail(r) = [i \in 1..m - 1 |-> r[i + 1]]
  <2>1. \A i \in 1..m : k + i \in 1..n /\ k + i \in Nat /\ T[k + i] \in Nat
    BY <1>1, <1>2, <1>4, TimesProperties
  <2>2. r \in [1..m -> Nat \X Nat]
    BY <1>6, <2>1
  <2>3. r \in Seq(Nat \X Nat)
    BY <2>2
  <2>4. /\ Tail(r) \in Seq(Nat \X Nat) /\ Len(Tail(r)) = m - 1
        /\ \A i \in 1..m - 1 : Tail(r)[i] = r[i + 1]
    BY <2>3, <1>7, <1>10, HeadTailProperties
  <2>5. ASSUME NEW q \in Seq(Nat \X Nat), Len(q) = m - 1, \A i \in 1..m - 1 : q[i] = r[i + 1]
        PROVE  q = [i \in 1..m - 1 |-> r[i + 1]]
    BY <2>5
  <2>. QED BY <2>4, <2>5
<1>15. ASSUME NEW i \in 1..m - 1 PROVE r[i + 1] = <<k + 1 + i, T[k + 1 + i]>>
  <2>1. i + 1 \in 1..m /\ k + (i + 1) = k + 1 + i
    BY <1>4
  <2>. QED BY <2>1, <1>6
<1>16. Tail(r) = [i \in 1..m - 1 |-> <<k + 1 + i, T[k + 1 + i]>>]
  BY <1>14, <1>15
<1>17. RenamesAfter(renames'[w], v, k + 1)
  BY <1>1, <1>2, <1>9, <1>13, <1>16 DEF RenamesAfter
<1>. QED BY <1>1, <1>2, <1>9, <1>12, <1>17 DEF FrameRenamed

-------------------------------------------------------------------------------
\* Types.

\* The part of TypeOK that is about the files.
FilesTypeOK ==
    /\ DOMAIN files = Directories
    /\ \A d \in Directories : DOMAIN files[d] \subseteq Nat /\ IsFiniteSet(DOMAIN files[d])
    /\ \A d \in Directories \ dirs : files[d] = <<>>

LEMMA InitTypeOK == Init => TypeOK /\ Control
<1>. SUFFICES ASSUME Init PROVE TypeOK /\ Control
  OBVIOUS
<1>1. failed \in BOOLEAN
  BY DEF Init
<1>2. DOMAIN <<>> \subseteq Nat /\ IsFiniteSet(DOMAIN <<>>)
  <2>1. DOMAIN <<>> = {}
    OBVIOUS
  <2>. QED BY <2>1, FS_EmptySet
<1>3. dirs \subseteq Directories /\ FilesTypeOK /\ files[Tmp] = <<>>
  <2>1. CASE dirs = {} /\ files = [d \in Directories |-> <<>>]
    BY <1>2, <2>1 DEF Directories, FilesTypeOK
  <2>2. ASSUME NEW tree \in Leftovers, dirs = {Tmp} \cup DOMAIN tree,
               files = [d \in Directories |-> IF d \in DOMAIN tree THEN tree[d] ELSE <<>>]
        PROVE  dirs \subseteq Directories /\ FilesTypeOK /\ files[Tmp] = <<>>
    <3>1. /\ DOMAIN tree \subseteq Videos /\ Tmp \notin Videos
          /\ \A v \in DOMAIN tree : DOMAIN tree[v] \subseteq Nat /\ IsFiniteSet(DOMAIN tree[v])
      BY FrameToolsAssumption
    <3>. QED BY <1>2, <2>2, <3>1 DEF Directories, FilesTypeOK
  <2>. QED BY <2>1, <2>2 DEF Init, InitDirectories
<1>4. TypeOK
  BY <1>1, <1>3, FrameToolsAssumption DEF Init, TypeOK, FilesTypeOK
<1>5. Control
  BY <1>3 DEF Init, Control, WorkerControl
<1>. QED BY <1>4, <1>5

\* The files of a directory after one of them has got a new name.
LEMMA RenameToDomain ==
  ASSUME NEW f, DOMAIN f \subseteq Nat, IsFiniteSet(DOMAIN f), NEW a, NEW b \in Nat
  PROVE  DOMAIN RenameTo(f, a, b) \subseteq Nat /\ IsFiniteSet(DOMAIN RenameTo(f, a, b))
<1>1. IsFiniteSet((DOMAIN f \ {a}) \cup {b})
  BY FS_RemoveElement, FS_AddElement
<1>2. DOMAIN RenameTo(f, a, b) \in {DOMAIN f, (DOMAIN f \ {a}) \cup {b}}
  BY DEF RenameTo, Put, Without
<1>. QED BY <1>1, <1>2

\* The files of a directory after ffmpeg has written to it.
LEMMA NumberedDomain ==
  ASSUME NEW f, DOMAIN f \subseteq Nat, IsFiniteSet(DOMAIN f), NEW v, NEW k \in Nat
  PROVE  DOMAIN Numbered(f, v, k) \subseteq Nat /\ IsFiniteSet(DOMAIN Numbered(f, v, k))
<1>1. DOMAIN Numbered(f, v, k) = DOMAIN f \cup 1..k
  BY DEF Numbered
<1>2. IsFiniteSet(1..k)
  BY FS_Interval
<1>3. IsFiniteSet(DOMAIN f \cup 1..k)
  BY <1>2, FS_Union
<1>4. DOMAIN f \cup 1..k \subseteq Nat
  OBVIOUS
<1>. QED BY <1>1, <1>3, <1>4

LEMMA FilesOfOneChanged ==
  ASSUME TypeOK, NEW d \in dirs, NEW f, DOMAIN f \subseteq Nat, IsFiniteSet(DOMAIN f),
         files' = [files EXCEPT ![d] = f], UNCHANGED dirs
  PROVE  FilesTypeOK'
BY DEF TypeOK, FilesTypeOK

LEMMA StepTypeOK ==
  ASSUME TypeOK, Control, NEW w \in Workers, Worker(w)
  PROVE  TypeOK'
<1>0. None \notin Videos /\ Tmp \notin Videos
  BY FrameToolsAssumption
<1>. USE <1>0 DEF TypeOK
<1>1. pc[w] # "idle" => video[w] \in Videos
  OBVIOUS
<1>2. WorkerControl(w)
  BY DEF Control
<1>3. CASE TakeVideo(w)
  <2>1. PICK v \in todo : todo' = todo \ {v} /\ video' = [video EXCEPT ![w] = v]
    BY <1>3 DEF TakeVideo
  <2>2. \A u \in Workers : video[u] # v
    OBVIOUS
  <2>. QED BY <1>3, <2>1, <2>2 DEF TakeVideo, At, Goto
<1>4. ASSUME NEW here, NEW d, NEW there, NEW missing, Exists(w, here, d, there, missing),
             {here, there, missing} \subseteq {"tmp?", "tmp", "dir?", "dir", "ffmpeg"}
      PROVE  TypeOK'
  <2>1. pc[w] = here /\ here # "idle" /\ here # "draw"
    BY <1>4 DEF Exists, At
  <2>. QED BY <1>4, <2>1 DEF Exists, Goto, pool
<1>5. ASSUME NEW here, NEW d \in Directories, NEW next, Makedirs(w, here, d, next),
             {here, next} \subseteq {"tmp", "dir?", "dir", "ffmpeg"}
      PROVE  TypeOK'
  <2>1. pc[w] = here /\ here # "idle" /\ here # "draw" /\ next # "idle" /\ next # "draw"
    BY <1>5 DEF Makedirs, At
  <2>2. CASE d \in dirs
    BY <1>5, <2>1, <2>2 DEF Makedirs, Fail, Leave, Goto
  <2>3. CASE d \notin dirs
    BY <1>5, <2>1, <2>3 DEF Makedirs, Goto
  <2>. QED BY <2>2, <2>3
<1>6. ASSUME pc[w] = "ffmpeg", NEW k \in 0..Len(Timestamps[video[w]]), UNCHANGED dirs,
             files' = [files EXCEPT ![video[w]] = Numbered(@, video[w], k)]
      PROVE  FilesTypeOK'
  <2>1. PICK v \in Videos : v = video[w] /\ v \in dirs /\ v \in Directories
    BY <1>1, <1>2, <1>6 DEF WorkerControl, Directories
  <2>2. k \in Nat
    BY <1>6, <2>1, TimesProperties
  <2>3. PICK f : f = Numbered(files[v], v, k) /\ DOMAIN f \subseteq Nat /\ IsFiniteSet(DOMAIN f)
    BY <2>1, <2>2, NumberedDomain
  <2>4. files' = [files EXCEPT ![v] = f]
    BY <1>6, <2>1, <2>3
  <2>. QED BY <1>6, <2>1, <2>3, <2>4, FilesOfOneChanged
<1>14. CASE RunFFmpeg(w)
  <2>1. pc[w] = "ffmpeg" /\ Len(Timestamps[video[w]]) \in 0..Len(Timestamps[video[w]])
    BY <1>1, <1>14, TimesProperties DEF RunFFmpeg, At
  <2>2. FilesTypeOK'
    BY <1>6, <1>14, <2>1 DEF RunFFmpeg, frame_output_dir
  <2>. QED BY <1>14, <2>1, <2>2 DEF RunFFmpeg, Goto, pool, FilesTypeOK
<1>15. CASE FFmpegFails(w)
  <2>1. pc[w] = "ffmpeg"
    BY <1>15 DEF FFmpegFails, At
  <2>2. FilesTypeOK'
    BY <1>6, <1>15, <2>1 DEF FFmpegFails, frame_output_dir
  <2>. QED BY <1>15, <2>1, <2>2 DEF FFmpegFails, Fail, Leave, Goto, FilesTypeOK
<1>16. CASE ProbeFails(w)
  BY <1>16 DEF ProbeFails, At, Fail, Leave, Goto
<1>7. CASE ListFrames(w)
  BY <1>7 DEF ListFrames, Fail, Leave, At, Goto, pool
<1>8. CASE RenameFrame(w)
  <2>1. PICK v \in Videos : v = video[w]
    BY <1>1, <1>8 DEF RenameFrame, At
  <2>2. v \in dirs /\ v \in Directories /\ \E k \in Nat : RenamesAfter(renames[w], v, k)
    BY <1>2, <1>8, <2>1 DEF RenameFrame, At, WorkerControl, Directories
  <2>3. PICK k \in Nat : RenamesAfter(renames[w], v, k)
    BY <2>2
  <2>4. FrameRenamed(w, v, k)
    BY <1>8, <2>1, <2>3, RenameFrameProperties
  <2>5. k + 1 \in Frames(v)
    BY <2>4 DEF FrameRenamed
  <2>6. Timestamps[v][k + 1] \in Nat
    BY <2>5, TimesProperties
  <2>7. PICK f : /\ f = RenameTo(files[v], k + 1, Timestamps[v][k + 1])
                 /\ DOMAIN f \subseteq Nat /\ IsFiniteSet(DOMAIN f)
    BY <2>2, <2>6, RenameToDomain
  <2>8. files' = [files EXCEPT ![v] = f]
    BY <2>4, <2>7 DEF FrameRenamed
  <2>9. FilesTypeOK'
    BY <1>8, <2>2, <2>7, <2>8, FilesOfOneChanged DEF RenameFrame
  <2>. QED BY <1>8, <2>9 DEF RenameFrame, pool, FilesTypeOK
<1>9. CASE FramesExtracted(w)
  BY <1>1, <1>9 DEF FramesExtracted, Leave, At, Goto, pool
<1>10. CASE DrawAnnotation(w)
  BY <1>10 DEF DrawAnnotation, At, pool
<1>11. CASE RemoveFrames(w)
  <2>1. FilesTypeOK'
    <3>1. DOMAIN <<>> = {} /\ IsFiniteSet({})
      BY FS_EmptySet
    <3>. QED BY <1>11, <3>1 DEF RemoveFrames, frame_output_dir, FilesTypeOK
  <2>. QED BY <1>11, <2>1 DEF RemoveFrames, Leave, At, Goto, frame_output_dir, pool, FilesTypeOK
<1>12. CASE MakeOutputDir(w)
  <2>1. CASE Exists(w, "dir?", frame_output_dir(w), "ffmpeg", "dir")
    BY <1>4, <2>1
  <2>2. CASE Makedirs(w, "dir", frame_output_dir(w), "ffmpeg")
    <3>1. frame_output_dir(w) \in Directories
      BY <1>1, <2>2 DEF Makedirs, At, frame_output_dir, Directories
    <3>. QED BY <1>5, <2>2, <3>1
  <2>. QED BY <1>12, <2>1, <2>2 DEF MakeOutputDir
<1>13. CASE extract_all_frames(w)
  <2>1. CASE Exists(w, "tmp?", Tmp, "dir?", "tmp")
    BY <1>4, <2>1
  <2>2. CASE Makedirs(w, "tmp", Tmp, "dir?")
    BY <1>5, <2>2 DEF Directories
  <2>. QED BY <1>13, <2>1, <2>2 DEF extract_all_frames
<1>. QED BY <1>3, <1>7, <1>8, <1>9, <1>10, <1>11, <1>12, <1>13, <1>14, <1>15, <1>16
     DEF Worker, extract_video_frame, visualize_annotation_per_video

-------------------------------------------------------------------------------
\* Control.

\* A process that has left its video has nothing in a directory.
LEMMA IdleControl ==
  ASSUME TypeOK', NEW w \in Workers, pc'[w] = "idle"
  PROVE  WorkerControl(w)' /\ WorkerRenaming(w)' /\ WorkerDrawing(w)'
<1>1. video'[w] = None /\ None \notin extracted'
  BY FrameToolsAssumption DEF TypeOK
<1>. QED BY <1>1 DEF WorkerControl, WorkerRenaming, WorkerDrawing

LEMMA StepWorkerControl ==
  ASSUME TypeOK, TypeOK', Control, NEW w \in Workers, Worker(w)
  PROVE  WorkerControl(w)'
<1>1. /\ DOMAIN files = Directories /\ DOMAIN pc = Workers /\ DOMAIN video = Workers
      /\ DOMAIN renames = Workers /\ DOMAIN undrawn = Workers
      /\ pc[w] # "idle" => video[w] \in Videos
      /\ \A d \in Directories \ dirs : files[d] = <<>>
  BY DEF TypeOK
<1>2. WorkerControl(w)
  BY DEF Control
<1>3. CASE TakeVideo(w)
  <2>1. PICK v \in todo : video' = [video EXCEPT ![w] = v]
    BY <1>3 DEF TakeVideo
  <2>2. v \notin extracted
    BY DEF TypeOK
  <2>3. pc'[w] \in {"tmp?", "dir?"} /\ UNCHANGED <<dirs, extracted>>
    BY <1>1, <1>3 DEF TakeVideo, Goto
  <2>. QED BY <1>1, <2>1, <2>2, <2>3 DEF WorkerControl
<1>4. CASE extract_all_frames(w)
  <2>1. CASE Exists(w, "tmp?", Tmp, "dir?", "tmp")
    BY <1>1, <1>2, <2>1 DEF Exists, At, Goto, pool, WorkerControl
  <2>2. CASE Makedirs(w, "tmp", Tmp, "dir?")
    <3>1. CASE Tmp \in dirs
      <4>1. pc'[w] = "idle"
        BY <1>1, <2>2, <3>1 DEF Makedirs, Fail, Leave, Goto
      <4>. QED BY <4>1, IdleControl
    <3>2. CASE Tmp \notin dirs
      <4>1. /\ pc[w] = "tmp" /\ pc'[w] = "dir?" /\ video' = video /\ extracted' = extracted
            /\ dirs' = dirs \cup {Tmp}
        BY <1>1, <2>2, <3>2 DEF Makedirs, At, Goto
      <4>2. video[w] # Tmp
        BY <1>1, <4>1, FrameToolsAssumption
      <4>. QED BY <1>2, <4>1, <4>2 DEF WorkerControl
    <3>. QED BY <3>1, <3>2
  <2>. QED BY <1>4, <2>1, <2>2 DEF extract_all_frames
<1>5. CASE MakeOutputDir(w)
  <2>1. CASE Exists(w, "dir?", video[w], "ffmpeg", "dir")
    BY <1>1, <1>2, <2>1 DEF Exists, At, Goto, pool, WorkerControl
  <2>2. CASE Makedirs(w, "dir", video[w], "ffmpeg")
    <3>1. CASE video[w] \in dirs
      <4>1. pc'[w] = "idle"
        BY <1>1, <2>2, <3>1 DEF Makedirs, Fail, Leave, Goto
      <4>. QED BY <4>1, IdleControl
    <3>2. CASE video[w] \notin dirs
      BY <1>1, <1>2, <2>2, <3>2 DEF Makedirs, At, Goto, WorkerControl
    <3>. QED BY <3>1, <3>2
  <2>. QED BY <1>5, <2>1, <2>2 DEF MakeOutputDir, frame_output_dir
<1>6. CASE RunFFmpeg(w)
  <2>1. PICK v : v = video[w]
    OBVIOUS
  <2>2. pc[w] = "ffmpeg" /\ v \in Videos /\ v \in dirs /\ v \notin extracted
    BY <1>1, <1>2, <1>6, <2>1 DEF RunFFmpeg, At, WorkerControl
  <2>3. files'[v] = Numbered(files[v], v, Len(Timestamps[v]))
    BY <1>1, <1>6, <2>1, <2>2 DEF RunFFmpeg, frame_output_dir, Directories
  <2>4. HasNumbered(files'[v], v)
    BY <2>3 DEF HasNumbered, Numbered, Frames
  <2>5. pc'[w] = "list" /\ UNCHANGED <<video, dirs, extracted>>
    BY <1>1, <1>6 DEF RunFFmpeg, Goto
  <2>. QED BY <2>1, <2>2, <2>4, <2>5 DEF WorkerControl
<1>7. CASE ListFrames(w) /\ pc'[w] # "idle"
  <2>1. FramesListed(w)
    BY <1>7, ListFramesProperties
  <2>2. pc'[w] = "rename" /\ UNCHANGED <<video, dirs, extracted>>
    BY <1>1, <1>7, <2>1 DEF ListFrames, FramesListed
  <2>. QED BY <2>1, <2>2 DEF FramesListed, WorkerControl
<1>12. CASE pc'[w] = "idle"
  BY <1>12, IdleControl
<1>13. CASE ProbeFails(w) \/ FFmpegFails(w)
  <2>1. pc'[w] = "idle"
    BY <1>1, <1>13 DEF ProbeFails, FFmpegFails, Fail, Leave, Goto
  <2>. QED BY <2>1, IdleControl
<1>8. CASE RenameFrame(w)
  <2>1. PICK v \in Videos : v = video[w]
    BY <1>1, <1>8 DEF RenameFrame, At
  <2>2. pc[w] = "rename" /\ pc' = pc /\ UNCHANGED <<video, dirs, extracted>>
    BY <1>8 DEF RenameFrame, At
  <2>3. PICK k \in Nat : RenamesAfter(renames[w], v, k)
    BY <1>2, <2>1, <2>2 DEF WorkerControl
  <2>4. FrameRenamed(w, v, k)
    BY <1>8, <2>1, <2>3, RenameFrameProperties
  <2>5. k + 1 \in Nat /\ RenamesAfter(renames'[w], v, k + 1)
    BY <2>4 DEF FrameRenamed
  <2>. QED BY <1>2, <2>1, <2>2, <2>5 DEF WorkerControl
<1>9. CASE FramesExtracted(w)
  <2>1. CASE tool = "visualize"
    <3>1. /\ pc[w] = "rename" /\ pc'[w] = "draw" /\ UNCHANGED <<video, dirs>>
          /\ extracted' = extracted \cup {video[w]} /\ undrawn'[w] = Annotated[video[w]]
      BY <1>1, <1>9, <2>1 DEF FramesExtracted, At, Goto
    <3>. QED BY <1>2, <3>1 DEF WorkerControl
  <2>2. CASE tool # "visualize"
    <3>1. pc'[w] = "idle"
      BY <1>1, <1>9, <2>2 DEF FramesExtracted, Leave, Goto
    <3>. QED BY <3>1, IdleControl
  <2>. QED BY <2>1, <2>2
<1>10. CASE DrawAnnotation(w)
  BY <1>1, <1>2, <1>10 DEF DrawAnnotation, At, pool, WorkerControl
<1>11. CASE RemoveFrames(w)
  <2>1. pc'[w] = "idle"
    BY <1>1, <1>11 DEF RemoveFrames, Leave, Goto
  <2>. QED BY <2>1, IdleControl
<1>. QED BY <1>3, <1>4, <1>5, <1>6, <1>7, <1>8, <1>9, <1>10, <1>11, <1>12, <1>13
     DEF Worker, extract_video_frame, visualize_annotation_per_video

LEMMA StepControl ==
  ASSUME TypeOK, TypeOK', Control, NEW w \in Workers, Worker(w)
  PROVE  Control'
<1>1. OnlyOwn(w)
  BY StepOnlyOwn
<1>2. ASSUME NEW u \in Workers PROVE WorkerControl(u)'
  <2>1. CASE u = w
    BY <2>1, StepWorkerControl
  <2>2. CASE u # w
    <3>1. WorkerControl(u) /\ u \in Workers \ {w}
      BY <2>2 DEF Control
    <3>. QED BY <3>1, <1>1, OtherWorkers
  <2>. QED BY <2>1, <2>2
<1>4. files'[Tmp] = <<>>
  BY <1>1 DEF OnlyOwn, Control
<1>5. main' # "returned"
  BY <1>1 DEF OnlyOwn
<1>. QED BY <1>2, <1>4, <1>5 DEF Control

LEMMA MapControl ==
  ASSUME TypeOK, Control, MapReturns \/ MapRaises
  PROVE  TypeOK' /\ Control'
<1>1. CASE MapReturns
  <2>1. FilesTypeOK' /\ dirs' \subseteq Directories /\ files'[Tmp] = <<>>
    <3>1. DOMAIN <<>> = {} /\ IsFiniteSet({})
      BY FS_EmptySet
    <3>2. CASE tool = "visualize"
      BY <1>1, <3>1, <3>2 DEF MapReturns, Directories, FilesTypeOK
    <3>3. CASE tool # "visualize"
      BY <1>1, <3>3 DEF MapReturns, TypeOK, Control, FilesTypeOK
    <3>. QED BY <3>2, <3>3
  <2>2. TypeOK'
    BY <1>1, <2>1 DEF MapReturns, TypeOK, FilesTypeOK
  <2>3. ASSUME NEW w \in Workers PROVE WorkerControl(w)'
    BY <1>1, <2>2, IdleControl DEF MapReturns
  <2>. QED BY <1>1, <2>1, <2>3, <2>2 DEF MapReturns, Control
<1>2. CASE MapRaises
  BY <1>2 DEF MapRaises, TypeOK, Control, WorkerControl
<1>. QED BY <1>1, <1>2

LEMMA NextTypeOK ==
  ASSUME TypeOK, Control, [Next]_vars
  PROVE  TypeOK' /\ Control'
<1>1. ASSUME NEW w \in Workers, Worker(w) PROVE TypeOK' /\ Control'
  BY <1>1, StepTypeOK, StepControl
<1>2. CASE UNCHANGED vars
  BY <1>2 DEF vars, pool, TypeOK, Control, WorkerControl
<1>. QED BY <1>1, <1>2, MapControl DEF Next

\* Types hold and no two processes work on the same video, whatever the times of the
\* frames: it takes what each process has made of the directory of its video (Control).
THEOREM TypeCorrectness == Spec => []TypeOK
<1>1. Init => TypeOK /\ Control
  BY InitTypeOK
<1>2. TypeOK /\ Control /\ [Next]_vars => (TypeOK /\ Control)'
  BY NextTypeOK
<1>. QED BY <1>1, <1>2, PTL DEF Spec

-------------------------------------------------------------------------------
\* The directories.

\* A step of process w, not to fail, makes no directory but the temporary one and that
\* of its video, and does not leave its video while the frames are there.
LEMMA StepDirectories ==
  ASSUME TypeOK, NEW w \in Workers, Worker(w), tool = "visualize", ~failed'
  PROVE  /\ dirs' \subseteq dirs \cup {Tmp, video[w]}
         /\ todo' = todo \/ \E v \in todo : todo' = todo \ {v} /\ video'[w] = v
         /\ video[w] # None => video'[w] = video[w] \/ video[w] \notin dirs'
<1>. USE DEF At, Goto, pool
<1>1. DOMAIN pc = Workers /\ DOMAIN video = Workers
  BY DEF TypeOK
<1>2. CASE TakeVideo(w)
  BY <1>1, <1>2 DEF TakeVideo, TypeOK
<1>3. ASSUME NEW here, NEW d, NEW there, NEW missing, Exists(w, here, d, there, missing)
      PROVE  UNCHANGED <<dirs, video, todo>>
  BY <1>3 DEF Exists
<1>4. ASSUME NEW here, NEW d, NEW next, Makedirs(w, here, d, next)
      PROVE  dirs' = dirs \cup {d} /\ UNCHANGED <<video, todo>>
  BY <1>4 DEF Makedirs, Fail
<1>5. CASE MakeOutputDir(w)
  BY <1>3, <1>4, <1>5 DEF MakeOutputDir, frame_output_dir
<1>6. CASE extract_all_frames(w)
  BY <1>3, <1>4, <1>6 DEF extract_all_frames
<1>7. CASE RunFFmpeg(w) \/ RenameFrame(w) \/ DrawAnnotation(w)
  BY <1>7 DEF RunFFmpeg, RenameFrame, DrawAnnotation
<1>8. CASE ListFrames(w)
  BY <1>8 DEF ListFrames, Fail
<1>9. CASE FramesExtracted(w)
  BY <1>9 DEF FramesExtracted
<1>10. CASE RemoveFrames(w)
  BY <1>10 DEF RemoveFrames, frame_output_dir
<1>11. ~ProbeFails(w) /\ ~FFmpegFails(w)
  BY DEF ProbeFails, FFmpegFails, Fail
<1>. QED BY <1>2, <1>5, <1>6, <1>7, <1>8, <1>9, <1>10, <1>11
     DEF Worker, extract_video_frame, visualize_annotation_per_video

LEMMA NextNothingLeftBehind ==
  ASSUME TypeOK, TypeOK', NothingLeftBehind, [Next]_vars
  PROVE  NothingLeftBehind'
<1>. SUFFICES ASSUME tool' = "visualize", ~failed', NEW v \in dirs' \ ({Tmp} \cup todo')
              PROVE  \E u \in Workers : video'[u] = v
  BY DEF NothingLeftBehind
<1>1. CASE \E w \in Workers : Worker(w)
  <2>1. PICK w \in Workers : Worker(w) /\ OnlyOwn(w)
    BY <1>1, StepOnlyOwn
  <2>2. tool = "visualize" /\ ~failed
    BY <2>1 DEF OnlyOwn
  <2>3. /\ dirs' \subseteq dirs \cup {Tmp, video[w]}
        /\ todo' = todo \/ \E u \in todo : todo' = todo \ {u} /\ video'[w] = u
        /\ video[w] # None => video'[w] = video[w] \/ video[w] \notin dirs'
    BY <2>1, <2>2, StepDirectories
  <2>4. v # None
    BY FrameToolsAssumption DEF TypeOK, Directories
  <2>5. CASE v = video[w]
    BY <2>3, <2>4, <2>5
  <2>6. CASE v \in todo
    BY <2>3, <2>6
  <2>7. CASE v # video[w] /\ v \notin todo
    <3>1. PICK u \in Workers : video[u] = v
      BY <2>2, <2>3, <2>7 DEF NothingLeftBehind
    <3>2. u # w /\ video'[u] = video[u]
      BY <2>1, <2>7, <3>1 DEF OnlyOwn
    <3>. QED BY <3>1, <3>2
  <2>. QED BY <2>5, <2>6, <2>7
<1>2. CASE MapReturns
  BY <1>2 DEF MapReturns
<1>3. CASE MapRaises
  BY <1>3 DEF MapRaises, NothingLeftBehind
<1>4. CASE UNCHANGED vars
  BY <1>4 DEF vars, pool, NothingLeftBehind
<1>. QED BY <1>1, <1>2, <1>3, <1>4 DEF Next

\* Of the videos that visualize_annotation has begun with, only those at work have a
\* directory, whatever an earlier run has left, as long as there is no exception.
THEOREM NothingLeftBehindAlways == Spec => []NothingLeftBehind
<1>. DEFINE I == TypeOK /\ Control /\ NothingLeftBehind
<1>1. Init => I
  <2>1. Init => NothingLeftBehind
    BY FrameToolsAssumption DEF Init, InitDirectories, NothingLeftBehind
  <2>. QED BY <2>1, InitTypeOK
<1>2. I /\ [Next]_vars => I'
  BY NextTypeOK, NextNothingLeftBehind
<1>. QED BY <1>1, <1>2, PTL DEF Spec

-------------------------------------------------------------------------------
\* The names of the frames.

\* One more frame has its time as its name, and no other frame is lost.
LEMMA RenamedNext ==
  ASSUME NoTimeIsNumber, NEW v \in Videos, NEW f, NEW k \in Nat, k + 1 \in Frames(v),
         Renamed(f, v, k)
  PROVE  Renamed(RenameTo(f, k + 1, Timestamps[v][k + 1]), v, k + 1)
<1>1. PICK n \in Nat : n = Len(Timestamps[v]) /\ Frames(v) = 1..n
  BY TimesProperties
<1>2. PICK T \in [1..n -> Nat] : T = Timestamps[v]
  BY <1>1, TimesProperties
<1>3. /\ \A i, j \in 1..n : i < j => T[i] < T[j]
      /\ \A i \in 1..n : T[i] \notin i + 1..n
  BY <1>1, <1>2, TimesIncrease DEF Increasing, NoTimeIsNumber
<1>4. /\ DOMAIN f = {T[i] : i \in 1..k} \cup (k + 1..n)
      /\ \A i \in 1..k : f[T[i]] = <<v, i>>
      /\ \A i \in k + 1..n : f[i] = <<v, i>>
  BY <1>1, <1>2 DEF Renamed
<1>5. PICK m \in 1..n : m = k + 1
  BY <1>1
<1>6. PICK x \in Nat : x = T[m]
  OBVIOUS
<1>7. \A i \in 1..k : T[i] # m /\ T[i] # x
  <2>1. \A i \in 1..k : i \in 1..n /\ m \in i + 1..n /\ i < m
    BY <1>5
  <2>2. \A i \in 1..k : T[i] < x /\ T[i] \in Nat
    BY <2>1, <1>3, <1>6
  <2>3. ASSUME NEW i \in 1..k PROVE T[i] # m /\ T[i] # x
    <3>1. T[i] # m
      BY <1>3, <2>1
    <3>2. T[i] < x /\ T[i] \in Nat
      BY <2>2
    <3>. QED BY <3>1, <3>2
  <2>. QED BY <2>3
<1>8. x \notin m + 1..n
  BY <1>3, <1>6
<1>9. k + 1..n = {m} \cup (m + 1..n) /\ 1..m = 1..k \cup {m} /\ m \notin m + 1..n
  BY <1>5
<1>10. /\ DOMAIN f = {T[i] : i \in 1..k} \cup {m} \cup (m + 1..n)
       /\ f[m] = <<v, m>> /\ \A i \in m + 1..n : f[i] = <<v, i>>
  BY <1>4, <1>9
<1>11. {T[i] : i \in 1..m} = {T[i] : i \in 1..k} \cup {x}
  BY <1>6, <1>9
<1>. DEFINE g == RenameTo(f, m, x)
<1>12. CASE m = x
  <2>1. g = f
    BY <1>12 DEF RenameTo
  <2>2. DOMAIN g = {T[i] : i \in 1..m} \cup (m + 1..n)
    BY <2>1, <1>10, <1>11, <1>12
  <2>3. \A i \in 1..m : g[T[i]] = <<v, i>>
    BY <2>1, <1>4, <1>6, <1>9, <1>10, <1>12
  <2>. QED BY <2>1, <2>2, <2>3, <1>1, <1>2, <1>5, <1>6, <1>10 DEF Renamed
<1>13. CASE m # x
  <2>1. g = [y \in (DOMAIN f \ {m}) \cup {x} |-> IF y = x THEN f[m] ELSE f[y]]
    BY <1>13 DEF RenameTo, Put, Without
  <2>2. (DOMAIN f \ {m}) \cup {x} = {T[i] : i \in 1..m} \cup (m + 1..n)
    <3>1. PICK K : K = {T[i] : i \in 1..k}
      OBVIOUS
    <3>2. m \notin K
      BY <3>1, <1>7
    <3>3. PICK M : M = m + 1..n
      OBVIOUS
    <3>4. m \notin M /\ DOMAIN f = K \cup {m} \cup M
      BY <3>1, <3>3, <1>9, <1>10
    <3>5. (DOMAIN f \ {m}) \cup {x} = (K \cup {x}) \cup M
      BY <3>2, <3>4
    <3>. QED BY <3>1, <3>3, <3>5, <1>11
  <2>3. DOMAIN g = {T[i] : i \in 1..m} \cup (m + 1..n)
    BY <2>1, <2>2
  <2>4. \A i \in 1..m : g[T[i]] = <<v, i>>
    <3>1. g[x] = <<v, m>>
      BY <2>1, <1>10
    <3>2. ASSUME NEW i \in 1..k PROVE g[T[i]] = <<v, i>>
      <4>1. T[i] # x /\ T[i] # m /\ f[T[i]] = <<v, i>>
        BY <1>4, <1>7
      <4>2. T[i] \in DOMAIN f
        BY <1>4
      <4>. QED BY <2>1, <4>1, <4>2
    <3>. QED BY <3>1, <3>2, <1>6, <1>9
  <2>5. \A i \in m + 1..n : g[i] = <<v, i>>
    <3>1. \A i \in m + 1..n : i # x /\ i # m /\ i \in DOMAIN f
      BY <1>8, <1>9, <1>10
    <3>. QED BY <2>1, <3>1, <1>10
  <2>. QED BY <2>3, <2>4, <2>5, <1>1, <1>2, <1>5, <1>6 DEF Renamed
<1>. QED BY <1>12, <1>13, <1>2, <1>5, <1>6

LEMMA StepRenaming ==
  ASSUME TypeOK, TypeOK', Control, Renaming, NoTimeIsNumber, NEW w \in Workers, Worker(w)
  PROVE  Renaming'
<1>1. OnlyOwn(w)
  BY StepOnlyOwn
<1>2. WorkerRenaming(w)'
  <2>1. DOMAIN pc = Workers /\ DOMAIN files = Directories
        /\ (pc[w] # "idle" => video[w] \in Videos)
    BY DEF TypeOK
  <2>11. CASE pc'[w] = "idle"
    BY <2>11 DEF WorkerRenaming
  <2>12. CASE ProbeFails(w) \/ FFmpegFails(w)
    BY <2>1, <2>12 DEF ProbeFails, FFmpegFails, Fail, Leave, Goto, WorkerRenaming
  <2>2. CASE ListFrames(w) /\ pc'[w] # "idle"
    <3>1. FramesListed(w)
      BY <2>2, ListFramesProperties
    <3>2. PICK v \in Videos : v = video[w]
      BY <3>1 DEF FramesListed
    <3>3. DOMAIN files'[v] = Frames(v) /\ (\A k \in Frames(v) : files'[v][k] = <<v, k>>)
          /\ video'[w] = v /\ RenamesAfter(renames'[w], v, 0)
      BY <2>2, <3>1, <3>2 DEF ListFrames, FramesListed
    <3>4. Renamed(files'[v], v, 0)
      <4>1. PICK n \in Nat : n = Len(Timestamps[v]) /\ Frames(v) = 1..n
        BY TimesProperties
      <4>2. DOMAIN files'[v] = 1..n /\ \A k \in 1..n : files'[v][k] = <<v, k>>
        BY <3>3, <4>1
      <4>3. 1..0 = {} /\ 0 + 1..n = 1..n
        OBVIOUS
      <4>. QED BY <4>1, <4>2, <4>3 DEF Renamed
    <3>. QED BY <3>3, <3>4 DEF WorkerRenaming
  <2>3. CASE RenameFrame(w)
    <3>1. PICK v \in Videos : v = video[w]
      BY <2>1, <2>3 DEF RenameFrame, At
    <3>2. pc[w] = "rename" /\ video'[w] = v
      BY <2>3, <3>1 DEF RenameFrame, At
    <3>3. PICK k \in Nat : RenamesAfter(renames[w], v, k) /\ Renamed(files[v], v, k)
      BY <3>1, <3>2 DEF Renaming, WorkerRenaming
    <3>4. FrameRenamed(w, v, k)
      BY <2>3, <3>1, <3>3, RenameFrameProperties
    <3>5. /\ k + 1 \in Frames(v) /\ RenamesAfter(renames'[w], v, k + 1)
          /\ files'[v] = RenameTo(files[v], k + 1, Timestamps[v][k + 1])
      BY <2>1, <3>4 DEF FrameRenamed, Directories
    <3>6. k + 1 \in Nat /\ Renamed(files'[v], v, k + 1)
      BY <3>3, <3>5, RenamedNext
    <3>. QED BY <3>2, <3>5, <3>6 DEF WorkerRenaming
  <2>4. CASE TakeVideo(w)
    BY <2>1, <2>4 DEF TakeVideo, Goto, WorkerRenaming
  <2>5. CASE MakeOutputDir(w)
    BY <2>1, <2>5 DEF MakeOutputDir, Exists, Makedirs, Fail, Leave, Goto, WorkerRenaming
  <2>6. CASE extract_all_frames(w)
    BY <2>1, <2>6 DEF extract_all_frames, Exists, Makedirs, Fail, Leave, Goto, WorkerRenaming
  <2>7. CASE RunFFmpeg(w)
    BY <2>1, <2>7 DEF RunFFmpeg, Goto, WorkerRenaming
  <2>8. CASE FramesExtracted(w)
    BY <2>1, <2>8 DEF FramesExtracted, Leave, Goto, WorkerRenaming
  <2>9. CASE DrawAnnotation(w)
    BY <2>9 DEF DrawAnnotation, At, pool, WorkerRenaming
  <2>10. CASE RemoveFrames(w)
    BY <2>1, <2>10 DEF RemoveFrames, Leave, Goto, WorkerRenaming
  <2>. QED BY <2>2, <2>3, <2>4, <2>5, <2>6, <2>7, <2>8, <2>9, <2>10, <2>11, <2>12
       DEF Worker, extract_video_frame, visualize_annotation_per_video
<1>3. ASSUME NEW u \in Workers PROVE WorkerRenaming(u)'
  <2>1. CASE u # w
    <3>1. WorkerRenaming(u) /\ u \in Workers \ {w}
      BY <2>1 DEF Renaming
    <3>. QED BY <3>1, <1>1, OtherWorkers
  <2>. QED BY <1>2, <2>1
<1>. QED BY <1>3 DEF Renaming

\* The frames of a video have their times as names, and none is lost.
Named(f, v) ==
    /\ DOMAIN f = Range(Timestamps[v])
    /\ \A k \in Frames(v) : f[Timestamps[v][k]] = <<v, k>>

LEMMA RenamedAll ==
  ASSUME NEW v \in Videos, NEW f, NEW k \in Nat, RenamesAfter(<<>>, v, k), Renamed(f, v, k)
  PROVE  Named(f, v)
<1>1. PICK n \in Nat : n = Len(Timestamps[v]) /\ Frames(v) = 1..n
  BY TimesProperties
<1>2. PICK T \in [1..n -> Nat] : T = Timestamps[v]
  BY <1>1, TimesProperties
<1>3. k = n
  <2>1. k \in 0..n /\ <<>> = [i \in 1..n - k |-> <<k + i, T[k + i]>>]
    BY <1>1, <1>2 DEF RenamesAfter
  <2>2. 1..n - k = {}
    BY <2>1
  <2>3. PICK m \in Nat : m = n - k
    BY <2>1
  <2>4. ~(1 <= m)
    BY <2>2, <2>3
  <2>. QED BY <2>1, <2>3, <2>4
<1>4. n + 1..n = {}
  OBVIOUS
<1>5. DOMAIN f = {T[i] : i \in 1..n} /\ \A i \in 1..n : f[T[i]] = <<v, i>>
  BY <1>1, <1>2, <1>3, <1>4 DEF Renamed
<1>. QED BY <1>1, <1>2, <1>5 DEF Named, Range

LEMMA StepNamedByTime ==
  ASSUME TypeOK, Control, Renaming, NamedByTime, NEW w \in Workers, Worker(w)
  PROVE  NamedByTime'
<1>1. OnlyOwn(w)
  BY StepOnlyOwn
<1>. SUFFICES ASSUME NEW v \in extracted', v \in dirs' PROVE Named(files'[v], v)
  BY DEF NamedByTime, Named
<1>2. v \in Videos
  BY <1>1 DEF OnlyOwn
<1>3. v \in extracted /\ v \in dirs => Named(files[v], v)
  BY DEF NamedByTime, Named
<1>4. CASE v # video[w]
  <2>1. v \in extracted /\ v \in dirs /\ files'[v] = files[v]
    BY <1>1, <1>2, <1>4 DEF OnlyOwn, Directories
  <2>. QED BY <2>1, <1>3
<1>5. CASE v = video[w] /\ FramesExtracted(w)
  <2>1. pc[w] = "rename" /\ renames[w] = <<>> /\ files' = files
    BY <1>5 DEF FramesExtracted, At
  <2>2. PICK k \in Nat : RenamesAfter(<<>>, v, k) /\ Renamed(files[v], v, k)
    BY <1>5, <2>1 DEF Renaming, WorkerRenaming
  <2>. QED BY <1>2, <2>1, <2>2, RenamedAll
<1>6. CASE v = video[w] /\ DrawAnnotation(w)
  BY <1>3, <1>6 DEF DrawAnnotation
<1>7. CASE v = video[w] /\ RemoveFrames(w)
  BY <1>7 DEF RemoveFrames, frame_output_dir
<1>8. CASE v = video[w] /\ extracted' = extracted /\ pc[w] # "draw"
  BY <1>8 DEF Control, WorkerControl
<1>9. (extracted' = extracted /\ pc[w] # "draw") \/ FramesExtracted(w)
       \/ DrawAnnotation(w) \/ RemoveFrames(w)
  BY DEF Worker, extract_video_frame, visualize_annotation_per_video, TakeVideo, MakeOutputDir,
         extract_all_frames, RunFFmpeg, ListFrames, RenameFrame, Exists, Makedirs, At,
         ProbeFails, FFmpegFails
<1>. QED BY <1>4, <1>5, <1>6, <1>7, <1>8, <1>9

-------------------------------------------------------------------------------
\* Drawing.

\* An annotation is drawn over a frame of its video that no other is nearer to.
Drew(w, v, n, t) ==
    /\ t \in undrawn[w] /\ t \in Nat /\ Nearest(v, n, t)
    /\ undrawn'[w] = undrawn[w] \ {t}
    /\ DOMAIN drawn'[v] = DOMAIN drawn[v] \cup {n}
    /\ drawn'[v][n] = t
    /\ \A m \in DOMAIN drawn[v] \ {n} : drawn'[v][m] = drawn[v][m]

LEMMA DrawAnnotationProperties ==
  ASSUME TypeOK, Control, NamedByTime, NEW w \in Workers, DrawAnnotation(w),
         NEW v \in Videos, v = video[w]
  PROVE  \E n, t : Drew(w, v, n, t)
<1>1. pc[w] = "draw" /\ DOMAIN undrawn = Workers /\ DOMAIN drawn = Videos
  BY DEF DrawAnnotation, At, TypeOK
<1>2. v \in extracted /\ v \in dirs /\ undrawn[w] \subseteq Nat
  BY <1>1, TimesProperties DEF Control, WorkerControl
<1>3. DOMAIN files[v] = Range(Timestamps[v])
  BY <1>2 DEF NamedByTime
<1>4. sorted(DOMAIN files[v]) = Timestamps[v]
  BY <1>3, SortedTimes
<1>5. PICK t \in undrawn[w] :
        /\ undrawn' = [undrawn EXCEPT ![w] = @ \ {t}]
        /\ drawn' = [drawn EXCEPT ![v] = Put(@, NearestFrame(Timestamps[v], t), t)]
  BY <1>4 DEF DrawAnnotation
<1>6. t \in Nat
  BY <1>2
<1>7. PICK n : n = NearestFrame(Timestamps[v], t) /\ Nearest(v, n, t)
  BY <1>6, NearestFrameProperties
<1>8. drawn'[v] = [m \in DOMAIN drawn[v] \cup {n} |-> IF m = n THEN t ELSE drawn[v][m]]
  BY <1>1, <1>5, <1>7 DEF Put
<1>9. undrawn'[w] = undrawn[w] \ {t}
  BY <1>1, <1>5
<1>10. Drew(w, v, n, t)
  BY <1>6, <1>7, <1>8, <1>9 DEF Drew
<1>. QED BY <1>10

\* The steps of a process that is not drawing, and takes or leaves no video unless it fails.
Quiet(w) ==
    /\ UNCHANGED <<todo, extracted, undrawn, drawn>>
    /\ pc[w] # "draw" /\ pc'[w] # "draw"
    /\ failed' = TRUE \/ video' = video

LEMMA StepKinds ==
  ASSUME TypeOK, NEW w \in Workers, Worker(w)
  PROVE  TakeVideo(w) \/ FramesExtracted(w) \/ DrawAnnotation(w) \/ RemoveFrames(w) \/ Quiet(w)
<1>. USE DEF At, Goto, Leave, Fail, pool, Quiet
<1>1. DOMAIN pc = Workers
  BY DEF TypeOK
<1>2. CASE extract_all_frames(w)
  BY <1>1, <1>2 DEF extract_all_frames, Exists, Makedirs
<1>3. CASE MakeOutputDir(w)
  BY <1>1, <1>3 DEF MakeOutputDir, Exists, Makedirs
<1>4. CASE RunFFmpeg(w)
  BY <1>1, <1>4 DEF RunFFmpeg
<1>5. CASE ListFrames(w)
  BY <1>1, <1>5 DEF ListFrames
<1>6. CASE RenameFrame(w)
  BY <1>6 DEF RenameFrame
<1>7. CASE ProbeFails(w) \/ FFmpegFails(w)
  BY <1>1, <1>7 DEF ProbeFails, FFmpegFails
<1>. QED BY <1>2, <1>3, <1>4, <1>5, <1>6, <1>7
     DEF Worker, extract_video_frame, visualize_annotation_per_video

LEMMA StepDrawing ==
  ASSUME TypeOK, TypeOK', Control, NamedByTime, Drawing, NEW w \in Workers, Worker(w)
  PROVE  Drawing'
<1>1. OnlyOwn(w)
  BY StepOnlyOwn
<1>2. /\ DOMAIN pc = Workers /\ DOMAIN video = Workers /\ DOMAIN undrawn = Workers
      /\ pc[w] # "idle" => video[w] \in Videos
  BY DEF TypeOK
<1>3. CASE DrawAnnotation(w)
  <2>1. PICK v \in Videos : v = video[w]
    BY <1>2, <1>3 DEF DrawAnnotation, At
  <2>2. PICK n, t : Drew(w, v, n, t)
    BY <1>3, <2>1, DrawAnnotationProperties
  <2>3. pc' = pc /\ video' = video /\ pc[w] = "draw" /\ UNCHANGED <<tool, todo, failed>>
    BY <1>3 DEF DrawAnnotation, At, pool
  <2>4. ASSUME NEW u \in Videos, NEW m \in DOMAIN drawn'[u] PROVE Nearest(u, m, drawn'[u][m])
    <3>1. CASE u = v /\ m = n
      BY <2>2, <3>1 DEF Drew
    <3>2. CASE u = v /\ m # n
      <4>1. m \in DOMAIN drawn[v] /\ drawn'[v][m] = drawn[v][m]
        BY <2>2, <2>4, <3>2 DEF Drew
      <4>. QED BY <3>2, <4>1 DEF Drawing
    <3>3. CASE u # v
      <4>1. drawn'[u] = drawn[u]
        BY <1>1, <2>1, <3>3 DEF OnlyOwn
      <4>. QED BY <2>4, <4>1 DEF Drawing
    <3>. QED BY <3>1, <3>2, <3>3
  <2>5. ASSUME NEW u \in Videos PROVE DOMAIN drawn[u] \subseteq DOMAIN drawn'[u]
    BY <1>1, <2>1, <2>2 DEF OnlyOwn, Drew
  <2>6. \A u \in Videos : \A s : HasDrawn(u, s) => HasDrawn(u, s)'
    BY <2>5 DEF HasDrawn
  <2>7. WorkerDrawing(w)'
    <3>1. ASSUME NEW s \in Annotated[v] \ undrawn'[w] PROVE HasDrawn(v, s)'
      <4>1. CASE s = t
        BY <2>2, <4>1 DEF HasDrawn, Drew
      <4>2. CASE s # t
        <5>1. s \in Annotated[v] \ undrawn[w]
          BY <2>2, <4>2 DEF Drew
        <5>2. HasDrawn(v, s)
          BY <2>1, <2>3, <5>1 DEF Drawing, WorkerDrawing
        <5>. QED BY <2>6, <5>2
      <4>. QED BY <4>1, <4>2
    <3>. QED BY <2>1, <2>3, <3>1 DEF WorkerDrawing
  <2>8. ASSUME NEW u \in Workers PROVE WorkerDrawing(u)'
    <3>1. CASE u # w
      <4>1. WorkerDrawing(u) /\ u \in Workers \ {w}
        BY <3>1 DEF Drawing
      <4>. QED BY <4>1, <1>1, OtherWorkers
    <3>. QED BY <2>7, <3>1
  <2>9. (tool = "visualize" /\ ~failed =>
           \A u \in Videos \ todo :
              (\E x \in Workers : video[x] = u) \/ \A s \in Annotated[u] : HasDrawn(u, s))'
    BY <2>3, <2>6 DEF Drawing
  <2>. QED BY <2>4, <2>8, <2>9 DEF Drawing
<1>4. CASE ~DrawAnnotation(w)
  <2>1. drawn' = drawn
    BY <1>4, StepKinds DEF Quiet, TakeVideo, FramesExtracted, RemoveFrames
  <2>2. \A u \in Videos : \A s : HasDrawn(u, s)' <=> HasDrawn(u, s)
    BY <2>1 DEF HasDrawn
  <2>3. WorkerDrawing(w)'
    <3>1. CASE FramesExtracted(w) /\ pc'[w] = "draw"
      <4>1. video' = video /\ undrawn'[w] = Annotated[video[w]]
        BY <1>2, <3>1 DEF FramesExtracted, Leave, Goto
      <4>. QED BY <4>1 DEF WorkerDrawing
    <3>2. CASE pc'[w] # "draw"
      BY <3>2 DEF WorkerDrawing
    <3>3. FramesExtracted(w) \/ pc'[w] # "draw"
      BY <1>2, <1>4, StepKinds DEF Quiet, TakeVideo, RemoveFrames, Leave, Goto
    <3>. QED BY <3>1, <3>2, <3>3
  <2>4. ASSUME NEW u \in Workers PROVE WorkerDrawing(u)'
    <3>1. CASE u # w
      <4>1. WorkerDrawing(u) /\ u \in Workers \ {w}
        BY <3>1 DEF Drawing
      <4>. QED BY <4>1, <1>1, OtherWorkers
    <3>. QED BY <2>3, <3>1
  <2>5. ASSUME tool' = "visualize", ~failed', NEW u \in Videos \ todo',
               \A x \in Workers : video'[x] # u, NEW s \in Annotated[u]
        PROVE  HasDrawn(u, s)
    <3>1. tool = "visualize" /\ ~failed
      BY <1>1, <2>5 DEF OnlyOwn
    <3>2. u \notin todo => (\E x \in Workers : video[x] = u) \/ HasDrawn(u, s)
      BY <2>5, <3>1 DEF Drawing
    <3>3. CASE TakeVideo(w)
      <4>1. PICK v \in todo : todo' = todo \ {v} /\ video' = [video EXCEPT ![w] = v]
        BY <3>3 DEF TakeVideo
      <4>2. u # v /\ u \notin todo
        BY <1>2, <2>5, <4>1
      <4>3. video[w] = None /\ None \notin Videos
        BY <3>3, FrameToolsAssumption DEF TakeVideo, At, TypeOK
      <4>4. \A x \in Workers : video[x] # u
        BY <1>2, <2>5, <4>1, <4>3
      <4>. QED BY <3>2, <4>2, <4>4
    <3>4. CASE RemoveFrames(w)
      <4>1. todo' = todo /\ pc[w] = "draw" /\ undrawn[w] = {}
            /\ \A x \in Workers \ {w} : video'[x] = video[x]
        BY <3>4, <1>1 DEF RemoveFrames, At, pool, OnlyOwn
      <4>2. CASE video[w] = u
        BY <4>1, <4>2 DEF Drawing, WorkerDrawing
      <4>3. CASE video[w] # u
        <5>1. \A x \in Workers : video[x] # u
          BY <2>5, <4>1, <4>3
        <5>. QED BY <2>5, <3>2, <4>1, <5>1
      <4>. QED BY <4>2, <4>3
    <3>5. CASE FramesExtracted(w)
      <4>1. video' = video /\ todo' = todo
        BY <3>1, <3>5 DEF FramesExtracted, pool
      <4>. QED BY <2>5, <3>2, <4>1
    <3>6. CASE Quiet(w)
      <4>1. video' = video /\ todo' = todo
        BY <2>5, <3>6 DEF Quiet
      <4>. QED BY <2>5, <3>2, <4>1
    <3>. QED BY <1>4, <3>3, <3>4, <3>5, <3>6, StepKinds
  <2>6. \A u \in Videos : \A n \in DOMAIN drawn'[u] : Nearest(u, n, drawn'[u][n])
    BY <2>1 DEF Drawing
  <2>7. (tool = "visualize" /\ ~failed =>
           \A u \in Videos \ todo :
              (\E x \in Workers : video[x] = u) \/ \A s \in Annotated[u] : HasDrawn(u, s))'
    BY <2>2, <2>5
  <2>. QED BY <2>4, <2>6, <2>7 DEF Drawing
<1>. QED BY <1>3, <1>4

-------------------------------------------------------------------------------
\* The theorems.

LEMMA InitIndInv == Init => IndInv
<1>. SUFFICES ASSUME Init PROVE IndInv
  OBVIOUS
<1>1. Renaming /\ NamedByTime
  BY DEF Init, Renaming, WorkerRenaming, NamedByTime
<1>2. Drawing
  BY DEF Init, Drawing, WorkerDrawing
<1>. QED BY <1>1, <1>2, InitTypeOK DEF IndInv

LEMMA NextIndInv ==
  ASSUME IndInv, [Next]_vars, NoTimeIsNumber
  PROVE  IndInv'
<1>. USE DEF IndInv
<1>1. TypeOK' /\ Control'
  BY NextTypeOK
<1>2. ASSUME NEW w \in Workers, Worker(w) PROVE IndInv'
  BY <1>1, <1>2, StepRenaming, StepNamedByTime, StepDrawing
<1>3. ASSUME UNCHANGED <<tool, todo, failed, pc, video, renames, extracted, undrawn, drawn>>,
             dirs' = {} \/ UNCHANGED <<dirs, files>>,
             (\A w \in Workers : pc[w] = "idle") \/ UNCHANGED files
      PROVE  IndInv'
  <2>1. Renaming'
    BY <1>3 DEF Renaming, WorkerRenaming
  <2>2. NamedByTime'
    BY <1>3 DEF NamedByTime
  <2>3. Drawing'
    BY <1>3 DEF Drawing, WorkerDrawing, HasDrawn
  <2>. QED BY <1>1, <2>1, <2>2, <2>3
<1>4. CASE MapReturns
  BY <1>3, <1>4 DEF MapReturns
<1>5. CASE MapRaises
  BY <1>3, <1>5 DEF MapRaises
<1>6. CASE UNCHANGED vars
  BY <1>3, <1>6 DEF vars, pool
<1>. QED BY <1>2, <1>4, <1>5, <1>6 DEF Next

\* Where no time is the number of a later frame, the inductive invariant holds.
THEOREM Invariance == NoTimeIsNumber => (Spec => []IndInv)
<1>. SUFFICES ASSUME NoTimeIsNumber PROVE Spec => []IndInv
  OBVIOUS
<1>1. Init => IndInv
  BY InitIndInv
<1>2. IndInv /\ [Next]_vars => IndInv'
  BY NextIndInv
<1>. QED BY <1>1, <1>2, PTL DEF Spec

\* The frames that were extracted are named by their times, and none is lost, however
\* many processes work and although the new names of the frames go to the directory
\* that still holds the numbered ones, as long as no time is the number of a later frame.
THEOREM NamedByTimeAlways == NoTimeIsNumber => (Spec => []NamedByTime)
<1>1. IndInv => NamedByTime
  BY DEF IndInv
<1>. QED BY <1>1, Invariance, PTL

\* extract_frames draws over a frame that no other is nearer to, and a run of
\* visualize_annotation that ends without an exception has drawn every annotation, or
\* another one over the same frame.
THEOREM DrawnOverNearestAlways == NoTimeIsNumber => (Spec => []DrawnOverNearest)
<1>1. ASSUME IndInv PROVE DrawnOverNearest
  <2>1. ASSUME tool = "visualize", main = "returned",
               NEW v \in Videos, NEW t \in Annotated[v]
        PROVE  \E n \in DOMAIN drawn[v] : Nearest(v, n, t)
    <3>1. ~failed /\ todo = {} /\ \A w \in Workers : pc[w] = "idle"
      BY <1>1, <2>1 DEF IndInv, Control
    <3>2. \A w \in Workers : video[w] # v
      BY <1>1, <3>1, FrameToolsAssumption DEF IndInv, TypeOK
    <3>3. HasDrawn(v, t)
      BY <1>1, <2>1, <3>1, <3>2 DEF IndInv, Drawing
    <3>. QED BY <3>3 DEF HasDrawn
  <2>. QED BY <1>1, <2>1 DEF DrawnOverNearest, IndInv, Drawing
<1>2. IndInv => DrawnOverNearest
  BY <1>1
<1>. QED BY <1>2, Invariance, PTL
===============================================================================
