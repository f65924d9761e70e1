----------------------------- MODULE PlaybackProofs -----------------------------
(***************************************************************************)
(* Theorems about Playback for every horizon, any word that holds it, any  *)
(* thresholds and whatever the responses carry.                            *)
(***************************************************************************)
EXTENDS Playback, SequenceTheorems, TLAPS

\* All the responses that the reader thread has read.
Received == IF resp = Empty THEN inserted ELSE Append(inserted, resp)

Numbered == \A i \in 1..Len(Received) : Received[i].id = i

\* The responses used, then future_resp when it has been fetched and not used, then the
\* queue, are the responses inserted; cur_resp is the last one used.
Pending ==
    /\ Used \in Nat
    /\ \A i \in 1..Len(annotation_response_queue_) :
          annotation_response_queue_[i] =
              inserted[Len(inserted) - Len(annotation_response_queue_) + i]
    /\ ~future_read => future_resp = inserted[Used + 1]
    /\ cur_resp = IF Used = 0 THEN Empty ELSE inserted[Used]

\* Each response used that can be drawn has been drawn, over the frame at which it was
\* used, and it is no other that the screen shows.
Drawn ==
    /\ ShownInOrder
    /\ \A j \in 1..Len(shown) : shown[j].resp.id <= Used
    /\ \A i \in 1..Used :
          Drawable(inserted[i]) => \E j \in 1..Len(shown) : shown[j].resp = inserted[i]
    /\ Drawable(cur_resp) =>
          shown # <<>> /\ LastShown = [resp |-> cur_resp, at |-> last_updated_resp_offset]
    /\ screen # Empty =>
          /\ screen = cur_resp /\ Drawable(screen)
          /\ position - last_updated_resp_offset < GetRendererClearThreshold(screen)

\* The log is what was received and is to be logged, in order.
Log ==
    /\ \A k \in 1..Len(logged) :
          /\ logged[k].id \in 1..Len(Received) /\ logged[k] = Received[logged[k].id]
          /\ Logs(logged[k])
          /\ \A l \in 1..k - 1 : logged[l].id < logged[k].id
    /\ \A i \in 1..Len(Received) :
          Logs(Received[i]) => \E k \in 1..Len(logged) : logged[k] = Received[i]

IndInv == TypeOK /\ Numbered /\ Pending /\ Drawn /\ NeverEarly /\ Log

-------------------------------------------------------------------------------
\* Lemmas on the operators of the model.

LEMMA Constants ==
  /\ Word \in Nat /\ Duration \in Nat /\ Duration < Word /\ MaxResponses \in Nat
  /\ kRendererClearThresholdLabel \in Nat \ {0}
  /\ kRendererClearThresholdTracking \in Nat \ {0}
BY PlaybackAssumption

\* Arithmetic in uint32_t.
LEMMA ModSmall == ASSUME NEW w \in Nat, NEW a \in 0..w - 1 PROVE a % w = a
OBVIOUS

LEMMA ModAbove == ASSUME NEW w \in Nat, NEW a \in 0..w - 1 PROVE (a + w) % w = a
OBVIOUS

LEMMA ModBelow == ASSUME NEW w \in Nat, NEW a \in 0..w - 1 PROVE (a - w) % w = a
OBVIOUS

\* The offset is the position, wherever the timestamps start and although they may wrap
\* around.
LEMMA OffsetIsPosition ==
  ASSUME NEW start \in 0..Word - 1, NEW at \in 0..Duration
  PROVE  VideoOffset((start + at) % Word, start) = at
<1>1. Word \in Nat /\ at \in 0..Word - 1
  BY Constants
<1>2. CASE start + at < Word
  <2>1. start + at \in 0..Word - 1
    BY <1>1, <1>2
  <2>2. (start + at) % Word = start + at
    BY <1>1, <2>1, ModSmall
  <2>3. start + at - start = at
    BY <1>1
  <2>. QED BY <1>1, <2>2, <2>3, ModSmall DEF VideoOffset
<1>3. CASE start + at >= Word
  <2>1. PICK a \in 0..Word - 1 : a + Word = start + at
    BY <1>1, <1>3
  <2>2. (start + at) % Word = a
    BY <1>1, <2>1, ModAbove
  <2>3. a - start = at - Word
    BY <1>1, <2>1
  <2>. QED BY <1>1, <2>2, <2>3, ModBelow DEF VideoOffset
<1>. QED BY <1>1, <1>2, <1>3

LEMMA EmptyType == Empty \in ResponseType /\ Empty.id = 0 /\ ~Drawable(Empty)
BY Constants DEF Empty, ResponseType, Kinds, Drawable

\* Nothing but what can be drawn has a threshold.
LEMMA ThresholdProperties ==
  ASSUME NEW r \in ResponseType
  PROVE  /\ GetRendererClearThreshold(r) \in Nat
         /\ GetRendererClearThreshold(r) > 0 <=> Drawable(r)
BY Constants DEF GetRendererClearThreshold, Drawable, ResponseType, Kinds

\* A response that is read has the next number.
LEMMA ResponseProperties ==
  ASSUME TypeOK, NEW c \in Contents, Len(inserted) < MaxResponses
  PROVE  /\ Response(Len(inserted) + 1, c) \in ResponseType
         /\ Response(Len(inserted) + 1, c).id = Len(inserted) + 1
         /\ Response(Len(inserted) + 1, c) # Empty
<1>1. c \in [kind : Kinds, time : 0..Duration, frames : 0..1]
  BY PlaybackAssumption
<1>2. Len(inserted) + 1 \in 0..MaxResponses /\ Len(inserted) + 1 # 0
  BY Constants DEF TypeOK
<1>. QED BY <1>1, <1>2, EmptyType DEF Response, ResponseType

LEMMA ReceivedProperties ==
  ASSUME TypeOK
  PROVE  /\ Received \in Seq(ResponseType)
         /\ Len(Received) = IF resp = Empty THEN Len(inserted) ELSE Len(inserted) + 1
         /\ \A i \in 1..Len(inserted) : Received[i] = inserted[i]
         /\ resp # Empty => Received[Len(inserted) + 1] = resp
<1>1. inserted \in Seq(ResponseType) /\ resp \in ResponseType
  BY DEF TypeOK
<1>2. CASE resp = Empty
  BY <1>1, <1>2 DEF Received
<1>3. CASE resp # Empty
  BY <1>1, <1>3, AppendProperties DEF Received
<1>. QED BY <1>2, <1>3

\* Every frame looks at the next response, and uses it if it is due.
LEMMA PresentFrameProperties ==
  ASSUME TypeOK, Pending, PresentFrame
  PROVE  /\ state = "playing" /\ UNCHANGED <<reading, inserted>>
         /\ position' \in 0..Duration /\ position <= position'
         /\ video_start_time' \in 0..Word - 1
         /\ Draw(position')
         /\ future_read' \in BOOLEAN
         /\ future_resp' \in ResponseType
         /\ annotation_response_queue_' \in Seq(ResponseType)
         /\ Pending'
         /\ \/ /\ Used' = Used
               /\ UNCHANGED <<cur_resp, last_updated_resp_offset>>
            \/ /\ Used' = Used + 1 /\ Used + 1 \in 1..Len(inserted)
               /\ cur_resp' = inserted[Used + 1]
               /\ last_updated_resp_offset' = position'
               /\ Due(cur_resp', position')
<1>1. /\ state = "playing" /\ UNCHANGED <<reading, inserted>>
      /\ position' \in 0..Duration /\ position <= position'
      /\ video_start_time' \in 0..Word - 1
  <2>1. position \in -1..Duration /\ video_start_time \in 0..Word - 1
    BY DEF TypeOK
  <2>. QED BY <2>1, Constants DEF PresentFrame
<1>2. VideoOffset((video_start_time' + position') % Word, video_start_time') = position'
  BY <1>1, OffsetIsPosition
<1>3. UpdateResponse(position') /\ Draw(position')
  BY <1>2 DEF PresentFrame
<1>. DEFINE q == annotation_response_queue_
            len == Len(inserted)
<1>4. /\ q \in Seq(ResponseType) /\ Len(q) \in Nat /\ inserted \in Seq(ResponseType)
      /\ len \in Nat /\ future_resp \in ResponseType /\ future_read \in BOOLEAN
      /\ Used \in Nat /\ Used = len - Len(q) - (IF future_read THEN 0 ELSE 1)
  BY DEF TypeOK, Pending, Used
<1>5. CASE q = <<>>
  <2>1. UNCHANGED <<q, future_resp, future_read, cur_resp, last_updated_resp_offset>>
    BY <1>3, <1>5 DEF UpdateResponse, TakeFuture
  <2>2. Used' = Used
    BY <1>1, <2>1 DEF Used
  <2>3. Pending'
    BY <1>1, <2>1, <2>2 DEF Pending
  <2>. QED BY <1>1, <1>3, <1>4, <2>1, <2>2, <2>3
<1>6. CASE q # <<>>
  <2>1. TakeFuture /\ UseFuture(position')
    BY <1>3, <1>6 DEF UpdateResponse
  <2>. DEFINE next == Used + 1
  <2>2. /\ q' \in Seq(ResponseType) /\ future_resp' \in ResponseType
        /\ future_resp' = inserted[next] /\ next = len - Len(q') /\ Len(q') \in Nat
        /\ \A i \in 1..Len(q') : q'[i] = inserted[len - Len(q') + i]
        /\ next \in 1..len
    <3>1. CASE future_read
      <4>1. future_resp' = Head(q) /\ q' = Tail(q)
        BY <2>1, <3>1 DEF TakeFuture
      <4>2. /\ Head(q) \in ResponseType /\ Head(q) = q[1]
            /\ q' \in Seq(ResponseType) /\ Len(q') = Len(q) - 1
            /\ \A i \in 1..Len(q') : q'[i] = q[i + 1]
        BY <1>4, <1>6, <4>1, HeadTailProperties
      <4>3. Len(q) \in Nat \ {0}
        BY <1>4, <1>6, EmptySeq
      <4>4. next = len - Len(q) + 1 /\ next = len - Len(q') /\ Len(q') \in Nat
            /\ next \in 1..len
        BY <1>4, <3>1, <4>2, <4>3
      <4>5. future_resp' = inserted[next]
        <5>1. 1 \in 1..Len(q)
          BY <4>3
        <5>. QED BY <4>1, <4>2, <4>4, <5>1 DEF Pending
      <4>6. ASSUME NEW i \in 1..Len(q') PROVE q'[i] = inserted[len - Len(q') + i]
        <5>1. i + 1 \in 1..Len(q) /\ len - Len(q) + (i + 1) = len - Len(q') + i
          BY <1>4, <4>2, <4>3
        <5>. QED BY <4>2, <5>1 DEF Pending
      <4>. QED BY <4>1, <4>2, <4>4, <4>5, <4>6
    <3>2. CASE ~future_read
      <4>1. UNCHANGED <<future_resp, q>>
        BY <2>1, <3>2 DEF TakeFuture
      <4>2. Len(q) \in Nat \ {0}
        BY <1>4, <1>6, EmptySeq
      <4>3. next = len - Len(q) /\ next \in 1..len
        BY <1>4, <3>2, <4>2
      <4>. QED BY <1>4, <3>2, <4>1, <4>2, <4>3 DEF Pending
    <3>. QED BY <3>1, <3>2
  <2>. HIDE DEF next
  <2>3. CASE Due(future_resp', position')
    <3>1. cur_resp' = inserted[next] /\ future_read' = TRUE
          /\ last_updated_resp_offset' = position'
      BY <2>1, <2>2, <2>3 DEF UseFuture
    <3>2. Used' = next
      BY <1>1, <1>4, <2>2, <3>1 DEF Used
    <3>3. Pending'
      BY <1>1, <1>4, <2>2, <3>1, <3>2 DEF Pending
    <3>4. Due(cur_resp', position')
      BY <2>2, <2>3, <3>1
    <3>. QED BY <1>1, <1>3, <2>2, <3>1, <3>2, <3>3, <3>4 DEF next
  <2>4. CASE ~Due(future_resp', position')
    <3>1. future_read' = FALSE /\ UNCHANGED <<cur_resp, last_updated_resp_offset>>
      BY <2>1, <2>4 DEF UseFuture
    <3>2. Used' = Used
      BY <1>1, <1>4, <2>2, <3>1 DEF Used, next
    <3>3. future_resp' = inserted'[Used' + 1]
      BY <1>1, <2>2, <3>2 DEF next
    <3>4. Pending'
      BY <1>1, <2>2, <3>1, <3>2, <3>3 DEF Pending
    <3>. QED BY <1>1, <1>3, <2>2, <3>1, <3>2, <3>4
  <2>. QED BY <2>3, <2>4
<1>. QED BY <1>5, <1>6

-------------------------------------------------------------------------------
\* The invariant is inductive.

LEMMA InitIndInv == Init => IndInv
<1>. SUFFICES ASSUME Init PROVE IndInv
  OBVIOUS
<1>1. TypeOK
  <2>1. future_read \in BOOLEAN
    BY DEF Init
  <2>. QED BY <2>1, Constants, EmptyType DEF Init, TypeOK
<1>2. Received = <<>> /\ Numbered /\ Log
  BY DEF Init, Received, Numbered, Log
<1>3. Used = 0
  <2>1. Len(inserted) = 0 /\ Len(annotation_response_queue_) = 0
    BY DEF Init
  <2>2. future_read = TRUE
    BY DEF Init
  <2>3. Used = 0 - 0 - 0
    BY <2>1, <2>2, Zenon DEF Used
  <2>. QED BY <2>3
<1>4. Pending
  BY <1>3 DEF Init, Pending
<1>5. Drawn /\ NeverEarly
  BY <1>3, EmptyType DEF Init, Drawn, ShownInOrder, NeverEarly
<1>. QED BY <1>1, <1>2, <1>4, <1>5 DEF IndInv

\* What a frame draws is a response that can be drawn, for the first time over the frame
\* at which it is used.
LEMMA DrawProperties ==
  ASSUME IndInv, PresentFrame
  PROVE  /\ cur_resp' \in ResponseType
         /\ last_updated_resp_offset' \in 0..position'
         /\ screen' = IF /\ Drawable(cur_resp')
                         /\ position' - last_updated_resp_offset'
                                < GetRendererClearThreshold(cur_resp')
                      THEN cur_resp' ELSE Empty
         /\ state' \in {"playing", "undefined"}
         /\ \/ /\ Used' = Used + 1 /\ Used + 1 \in 1..Len(inserted)
               /\ cur_resp' = inserted[Used + 1] /\ Drawable(cur_resp')
               /\ last_updated_resp_offset' = position'
               /\ GetAnnotationResponseTimestamp(cur_resp') <= position'
               /\ shown' = Append(shown, [resp |-> cur_resp', at |-> position'])
            \/ /\ Used' = Used + 1 /\ Used + 1 \in 1..Len(inserted)
               /\ cur_resp' = inserted[Used + 1] /\ ~Drawable(cur_resp')
               /\ UNCHANGED shown
            \/ /\ Used' = Used /\ UNCHANGED <<cur_resp, last_updated_resp_offset>>
               /\ UNCHANGED shown
<1>. DEFINE off == position'
            cur == cur_resp'
            last == last_updated_resp_offset'
<1>1. TypeOK /\ Pending /\ Drawn /\ Numbered
  BY DEF IndInv
<1>2. /\ state = "playing" /\ UNCHANGED inserted
      /\ off \in 0..Duration /\ position <= off
      /\ Draw(off)
      /\ \/ /\ Used' = Used
            /\ UNCHANGED <<cur_resp, last_updated_resp_offset>>
         \/ /\ Used' = Used + 1 /\ Used + 1 \in 1..Len(inserted)
            /\ cur = inserted[Used + 1]
            /\ last = off
            /\ Due(cur, off)
  BY <1>1, PresentFrameProperties
<1>3. cur \in ResponseType /\ last \in 0..off
  <2>1. inserted \in Seq(ResponseType) /\ cur_resp \in ResponseType
        /\ last_updated_resp_offset \in {0} \cup 0..position /\ position \in -1..Duration
    BY <1>1 DEF TypeOK
  <2>2. Used + 1 \in 1..Len(inserted) => inserted[Used + 1] \in ResponseType
    BY <2>1, ElementOfSeq
  <2>. QED BY <1>2, <2>1, <2>2, Constants
<1>. HIDE DEF off, last, cur
<1>0. /\ off \in Nat /\ last \in Nat /\ last <= off
      /\ off - last \in Nat /\ off - last \in 0..Word - 1
  <2>1. off \in 0..Duration
    BY <1>2 DEF off
  <2>2. last \in 0..off
    BY <1>3 DEF last, off
  <2>. QED BY <2>1, <2>2, Constants
<1>4. (off - last) % Word = off - last
  BY <1>0, Constants, ModSmall
<1>5. Fresh(off) <=> Drawable(cur) /\ off - last < GetRendererClearThreshold(cur)
  <2>1. /\ GetRendererClearThreshold(cur) \in Nat
        /\ GetRendererClearThreshold(cur) > 0 <=> Drawable(cur)
    BY <1>3, ThresholdProperties
  <2>2. off - last \in Nat
    BY <1>0
  <2>3. Drawable(cur) => has_annotation_results(cur)
    BY DEF Drawable, has_annotation_results
  <2>. QED BY <1>4, <2>1, <2>2, <2>3 DEF Fresh, off, last, cur
<1>6. /\ screen' = IF Fresh(off) THEN cur ELSE Empty
      /\ shown' = IF screen' # Empty /\ screen' # LastShown.resp
                  THEN Append(shown, [resp |-> screen', at |-> off]) ELSE shown
      /\ state' \in {"playing", "undefined"}
  BY <1>2 DEF Draw, off, cur
<1>7. CASE Used' = Used /\ UNCHANGED <<cur_resp, last_updated_resp_offset>>
  <2>1. CASE Fresh(off)
    <3>1. LastShown.resp = cur_resp
      BY <1>1, <1>5, <1>7, <2>1 DEF Drawn, cur
    <3>. QED BY <1>3, <1>5, <1>6, <1>7, <2>1, <3>1 DEF off, last, cur
  <2>2. CASE ~Fresh(off)
    BY <1>3, <1>5, <1>6, <1>7, <2>2 DEF off, last, cur
  <2>. QED BY <2>1, <2>2
<1>8. CASE /\ Used' = Used + 1 /\ Used + 1 \in 1..Len(inserted)
           /\ cur = inserted[Used + 1] /\ last = off /\ Due(cur, off)
  <2>1. CASE ~Drawable(cur)
    BY <1>3, <1>5, <1>6, <1>8, <2>1 DEF off, last, cur
  <2>2. CASE Drawable(cur)
    <3>1. Fresh(off)
      <4>1. GetRendererClearThreshold(cur) \in Nat /\ GetRendererClearThreshold(cur) > 0
        BY <1>3, <2>2, ThresholdProperties
      <4>2. off - last = 0
        BY <1>0, <1>8
      <4>. QED BY <1>5, <2>2, <4>1, <4>2
    <3>2. cur.id = Used + 1 /\ Used \in Nat
      <4>1. Received[Used + 1] = inserted[Used + 1] /\ Used + 1 \in 1..Len(Received)
        BY <1>1, <1>8, ReceivedProperties DEF TypeOK
      <4>. QED BY <1>1, <1>8, <4>1 DEF Numbered, Pending
    <3>3. cur # Empty
      BY <3>2, EmptyType
    <3>4. cur # LastShown.resp
      <4>1. CASE shown = <<>>
        BY <3>3, <4>1 DEF LastShown
      <4>2. CASE shown # <<>>
        <5>1. Len(shown) \in 1..Len(shown)
          BY <1>1, <4>2, EmptySeq DEF TypeOK
        <5>2. shown[Len(shown)].resp.id <= Used
          BY <1>1, <5>1 DEF Drawn
        <5>. QED BY <3>2, <4>2, <5>2 DEF LastShown
      <4>. QED BY <4>1, <4>2
    <3>5. GetAnnotationResponseTimestamp(cur) <= off
      BY <1>8 DEF Due
    <3>. QED BY <1>3, <1>5, <1>6, <1>8, <2>2, <3>1, <3>3, <3>4, <3>5 DEF off, last, cur
  <2>. QED BY <2>1, <2>2
<1>. QED BY <1>2, <1>7, <1>8 DEF off, last, cur

LEMMA NextTypeOK == IndInv /\ [Next]_vars => TypeOK'
<1>. SUFFICES ASSUME IndInv, [Next]_vars PROVE TypeOK'
  OBVIOUS
<1>0. TypeOK
  BY DEF IndInv
<1>. USE DEF reading, local
<1>1. ASSUME NEW c \in Contents, Process(c) PROVE TypeOK'
  <2>1. /\ Len(inserted) < MaxResponses /\ resp' = Response(Len(inserted) + 1, c)
        /\ logged' = logged \/ logged' = Append(logged, resp')
        /\ state' \in {state, "undefined"}
        /\ UNCHANGED <<feature_, inserted, annotation_response_queue_, position, local,
                       screen, shown>>
    BY <1>1 DEF Process
  <2>2. resp' \in ResponseType
    BY <1>0, <2>1, ResponseProperties
  <2>3. logged' \in Seq(ResponseType)
    <3>1. logged \in Seq(ResponseType)
      BY <1>0 DEF TypeOK
    <3>. QED BY <2>1, <2>2, <3>1, AppendProperties
  <2>. QED BY <1>0, <2>1, <2>2, <2>3 DEF TypeOK
<1>2. CASE InsertAnnotationResponse
  <2>1. /\ resp # Empty /\ inserted' = Append(inserted, resp)
        /\ annotation_response_queue_' = Append(annotation_response_queue_, resp)
        /\ resp' = Empty
        /\ UNCHANGED <<state, feature_, logged, position, local, screen, shown>>
    BY <1>2 DEF InsertAnnotationResponse
  <2>2. /\ inserted' \in Seq(ResponseType) /\ Len(inserted') = Len(inserted) + 1
        /\ annotation_response_queue_' \in Seq(ResponseType)
    <3>1. /\ inserted \in Seq(ResponseType) /\ resp \in ResponseType
          /\ annotation_response_queue_ \in Seq(ResponseType)
      BY <1>0 DEF TypeOK
    <3>. QED BY <2>1, <3>1, AppendProperties
  <2>3. Len(inserted) + 1 <= MaxResponses
    <3>1. Len(Received) = Len(inserted) + 1 /\ Received[Len(inserted) + 1] = resp
          /\ Len(inserted) \in Nat
      BY <1>0, <2>1, ReceivedProperties DEF TypeOK
    <3>2. resp.id = Len(inserted) + 1
      BY <3>1 DEF IndInv, Numbered
    <3>3. resp.id \in 0..MaxResponses
      BY <1>0 DEF TypeOK, ResponseType
    <3>. QED BY <3>1, <3>2, <3>3, Constants
  <2>. QED BY <1>0, <2>1, <2>2, <2>3, EmptyType DEF TypeOK
<1>3. CASE PresentFrame
  <2>1. /\ UNCHANGED <<reading, inserted>>
        /\ position' \in 0..Duration /\ video_start_time' \in 0..Word - 1
        /\ future_read' \in BOOLEAN /\ future_resp' \in ResponseType
        /\ annotation_response_queue_' \in Seq(ResponseType)
    BY <1>3, PresentFrameProperties DEF IndInv
  <2>2. /\ cur_resp' \in ResponseType /\ last_updated_resp_offset' \in 0..position'
        /\ screen' \in {cur_resp', Empty} /\ state' \in {"playing", "undefined"}
        /\ \/ UNCHANGED shown
           \/ shown' = Append(shown, [resp |-> cur_resp', at |-> position'])
    BY <1>3, DrawProperties
  <2>3. shown' \in Seq([resp : ResponseType, at : 0..Duration])
    <3>1. shown \in Seq([resp : ResponseType, at : 0..Duration])
      BY <1>0 DEF TypeOK
    <3>2. [resp |-> cur_resp', at |-> position'] \in [resp : ResponseType, at : 0..Duration]
      BY <2>1, <2>2
    <3>. DEFINE T == [resp : ResponseType, at : 0..Duration]
                e == [resp |-> cur_resp', at |-> position']
    <3>3. shown \in Seq(T) /\ e \in T /\ (shown' = shown \/ shown' = Append(shown, e))
      BY <2>2, <3>1, <3>2
    <3>. HIDE DEF T, e
    <3>4. shown' \in Seq(T)
      BY <3>3, AppendProperties
    <3>. QED BY <3>4 DEF T
  <2>. QED BY <1>0, <2>1, <2>2, <2>3, EmptyType, Constants DEF TypeOK
<1>4. CASE PlayMediaReturns
  BY <1>0, <1>4 DEF PlayMediaReturns, TypeOK
<1>5. CASE UNCHANGED vars
  BY <1>0, <1>5 DEF vars, TypeOK
<1>. QED BY <1>1, <1>2, <1>3, <1>4, <1>5 DEF Next

\* Reading a response and handing it to the player leave what has been received as it is.
LEMMA ReceivedSteps ==
  ASSUME IndInv
  PROVE  /\ \A c \in Contents :
               Process(c) => /\ resp = Empty /\ UNCHANGED inserted
                             /\ resp' # Empty /\ resp'.id = Len(inserted) + 1
                             /\ Received' = Append(inserted, resp')
         /\ InsertAnnotationResponse => Received' = Received
         /\ PresentFrame \/ PlayMediaReturns \/ UNCHANGED vars =>
               Received' = Received /\ UNCHANGED <<reading, inserted>>
<1>1. ASSUME NEW c \in Contents, Process(c)
      PROVE  /\ resp = Empty /\ UNCHANGED inserted
             /\ resp' # Empty /\ resp'.id = Len(inserted) + 1
             /\ Received' = Append(inserted, resp')
  <2>1. resp = Empty /\ UNCHANGED inserted /\ resp' = Response(Len(inserted) + 1, c)
        /\ Len(inserted) < MaxResponses
    BY <1>1 DEF Process
  <2>. QED BY <2>1, ResponseProperties DEF Received, IndInv
<1>2. ASSUME InsertAnnotationResponse PROVE Received' = Received
  BY <1>2 DEF InsertAnnotationResponse, Received
<1>3. ASSUME PresentFrame \/ PlayMediaReturns \/ UNCHANGED vars
      PROVE  Received' = Received /\ UNCHANGED <<reading, inserted>>
  BY <1>3 DEF PresentFrame, PlayMediaReturns, vars, Received, reading
<1>. QED BY <1>1, <1>2, <1>3

LEMMA NextNumbered == IndInv /\ [Next]_vars => Numbered'
<1>. SUFFICES ASSUME IndInv, [Next]_vars PROVE Numbered'
  OBVIOUS
<1>1. ASSUME NEW c \in Contents, Process(c) PROVE Numbered'
  <2>1. /\ resp = Empty /\ resp'.id = Len(inserted) + 1
        /\ Received' = Append(inserted, resp')
    BY <1>1, ReceivedSteps
  <2>2. inserted \in Seq(ResponseType) /\ Received = inserted
    BY <2>1 DEF IndInv, TypeOK, Received
  <2>3. \A i \in 1..Len(inserted) : inserted[i].id = i
    BY <2>2 DEF IndInv, Numbered
  <2>4. \A i \in 1..Len(inserted) + 1 :
            Received'[i] = IF i = Len(inserted) + 1 THEN resp' ELSE inserted[i]
    BY <2>1, <2>2
  <2>5. Len(Received') = Len(inserted) + 1 /\ Len(inserted) \in Nat
    BY <2>1, <2>2
  <2>6. ASSUME NEW i \in 1..Len(inserted) + 1 PROVE Received'[i].id = i
    <3>1. i = Len(inserted) + 1 \/ i \in 1..Len(inserted)
      BY <2>5
    <3>. QED BY <2>1, <2>3, <2>4, <3>1
  <2>. QED BY <2>5, <2>6 DEF Numbered
<1>2. CASE InsertAnnotationResponse
  BY <1>2, ReceivedSteps DEF IndInv, Numbered
<1>3. CASE PresentFrame \/ PlayMediaReturns \/ UNCHANGED vars
  BY <1>3, ReceivedSteps DEF IndInv, Numbered
<1>. QED BY <1>1, <1>2, <1>3 DEF Next

LEMMA NextPending == IndInv /\ [Next]_vars => Pending'
<1>. SUFFICES ASSUME IndInv, [Next]_vars PROVE Pending'
  OBVIOUS
<1>0. TypeOK /\ Pending
  BY DEF IndInv
<1>. USE DEF reading, local
<1>1. ASSUME NEW c \in Contents, Process(c) PROVE Pending'
  BY <1>0, <1>1 DEF Process, Pending, Used
<1>2. CASE InsertAnnotationResponse
  <2>. DEFINE q == annotation_response_queue_
  <2>1. /\ inserted' = Append(inserted, resp) /\ q' = Append(q, resp) /\ UNCHANGED local
    BY <1>2 DEF InsertAnnotationResponse
  <2>2. /\ inserted \in Seq(ResponseType) /\ q \in Seq(ResponseType) /\ resp \in ResponseType
        /\ Len(inserted) \in Nat /\ Len(q) \in Nat /\ future_read \in BOOLEAN
    BY <1>0 DEF TypeOK
  <2>3. /\ Len(inserted') = Len(inserted) + 1 /\ Len(q') = Len(q) + 1
        /\ \A i \in 1..Len(inserted) : inserted'[i] = inserted[i]
        /\ inserted'[Len(inserted) + 1] = resp
        /\ \A i \in 1..Len(q) : q'[i] = q[i]
        /\ q'[Len(q) + 1] = resp
    BY <2>1, <2>2, AppendProperties
  <2>4. Used' = Used /\ Used \in Nat /\ Used = Len(inserted) - Len(q) - (IF future_read THEN 0 ELSE 1)
    BY <1>0, <2>1, <2>2, <2>3 DEF Used, Pending
  <2>5. ASSUME NEW i \in 1..Len(q') PROVE q'[i] = inserted'[Len(inserted') - Len(q') + i]
    <3>1. Len(inserted') - Len(q') = Len(inserted) - Len(q)
      BY <2>2, <2>3
    <3>2. CASE i \in 1..Len(q)
      <4>1. Len(inserted) - Len(q) + i \in 1..Len(inserted)
        BY <2>2, <2>4, <3>2
      <4>. QED BY <1>0, <2>3, <3>1, <3>2, <4>1 DEF Pending
    <3>3. CASE i = Len(q) + 1
      <4>1. Len(inserted) - Len(q) + i = Len(inserted) + 1
        BY <2>2, <3>3
      <4>. QED BY <2>3, <3>1, <3>3, <4>1
    <3>. QED BY <2>2, <2>3, <3>2, <3>3
  <2>6. ASSUME ~future_read PROVE future_resp' = inserted'[Used' + 1]
    <3>1. Used + 1 \in 1..Len(inserted)
      BY <2>2, <2>4, <2>6
    <3>. QED BY <1>0, <2>1, <2>3, <2>4, <2>6, <3>1 DEF Pending
  <2>7. cur_resp' = IF Used' = 0 THEN Empty ELSE inserted'[Used']
    <3>1. Used # 0 => Used \in 1..Len(inserted)
      BY <2>2, <2>4
    <3>. QED BY <1>0, <2>1, <2>3, <2>4, <3>1 DEF Pending
  <2>. QED BY <2>1, <2>4, <2>5, <2>6, <2>7 DEF Pending
<1>3. CASE PresentFrame
  BY <1>0, <1>3, PresentFrameProperties
<1>4. CASE PlayMediaReturns
  BY <1>0, <1>4 DEF PlayMediaReturns, Pending, Used
<1>5. CASE UNCHANGED vars
  BY <1>0, <1>5 DEF vars, Pending, Used
<1>. QED BY <1>1, <1>2, <1>3, <1>4, <1>5 DEF Next

LEMMA NextLog == IndInv /\ [Next]_vars => Log'
<1>. SUFFICES ASSUME IndInv, [Next]_vars PROVE Log'
  OBVIOUS
<1>0. TypeOK /\ Log
  BY DEF IndInv
<1>1. ASSUME NEW c \in Contents, Process(c) PROVE Log'
  <2>1. /\ resp = Empty /\ resp'.id = Len(inserted) + 1
        /\ Received' = Append(inserted, resp')
    BY <1>1, ReceivedSteps
  <2>2. /\ UNCHANGED feature_
        /\ logged' = IF Logs(resp') THEN Append(logged, resp') ELSE logged
    BY <1>1 DEF Process
  <2>3. /\ inserted \in Seq(ResponseType) /\ Received = inserted /\ Len(inserted) \in Nat
        /\ logged \in Seq(ResponseType) /\ Len(logged) \in Nat
    BY <1>0, <2>1 DEF TypeOK, Received
  <2>. DEFINE next == Len(inserted) + 1
              n == Len(logged)
              r == resp'
  <2>4. /\ Len(Received') = next /\ Received'[next] = r
        /\ \A i \in 1..Len(inserted) : Received'[i] = Received[i]
    BY <2>1, <2>3
  <2>5. \A s : Logs(s)' <=> Logs(s)
    BY <2>2 DEF Logs
  <2>. HIDE DEF r
  <2>6. ASSUME NEW k \in 1..n
        PROVE  /\ logged[k].id \in 1..Len(inserted) /\ logged[k] = Received'[logged[k].id]
               /\ Logs(logged[k])' /\ \A l \in 1..k - 1 : logged[l].id < logged[k].id
    BY <1>0, <2>2, <2>3, <2>4, <2>6 DEF Log, Logs
  <2>7. ASSUME NEW i \in 1..Len(inserted), Logs(Received'[i])
        PROVE  \E k \in 1..n : logged[k] = Received'[i]
    BY <1>0, <2>3, <2>4, <2>7 DEF Log
  <2>8. CASE ~Logs(r)
    <3>1. logged' = logged
      BY <2>2, <2>8 DEF r
    <3>2. ASSUME NEW i \in 1..next, Logs(Received'[i])
          PROVE  \E k \in 1..n : logged[k] = Received'[i]
      BY <2>3, <2>4, <2>7, <2>8, <3>2
    <3>3. \A k \in 1..n : logged[k].id \in 1..next
      BY <2>3, <2>6
    <3>. QED BY <2>4, <2>5, <2>6, <3>1, <3>2, <3>3 DEF Log
  <2>9. CASE Logs(r)
    <3>1. logged' = Append(logged, r)
      BY <2>2, <2>9 DEF r
    <3>2. /\ Len(logged') = n + 1 /\ logged'[n + 1] = r
          /\ \A k \in 1..n : logged'[k] = logged[k]
      <4>1. r \in ResponseType
        <5>1. TypeOK'
          BY NextTypeOK
        <5>. QED BY <5>1 DEF TypeOK, r
      <4>. QED BY <2>3, <3>1, <4>1, AppendProperties
    <3>3. ASSUME NEW k \in 1..n + 1
          PROVE  /\ logged'[k].id \in 1..next /\ logged'[k] = Received'[logged'[k].id]
                 /\ Logs(logged'[k])
                 /\ \A l \in 1..k - 1 : logged'[l].id < logged'[k].id
      <4>1. CASE k \in 1..n
        <5>1. logged'[k] = logged[k] /\ logged[k].id \in 1..next
          BY <2>3, <2>6, <3>2, <4>1
        <5>2. \A l \in 1..k - 1 : logged'[l] = logged[l]
          BY <2>3, <3>2, <4>1
        <5>. QED BY <2>5, <2>6, <4>1, <5>1, <5>2
      <4>2. CASE k = n + 1
        <5>1. logged'[k] = r /\ r.id = next /\ r = Received'[next] /\ next \in 1..next
          BY <2>1, <2>3, <2>4, <3>2, <4>2 DEF r
        <5>2. \A l \in 1..k - 1 : logged'[l].id < next
          <6>1. \A l \in 1..n : logged[l].id \in 1..Len(inserted)
            BY <2>6
          <6>. QED BY <2>3, <3>2, <4>2, <6>1
        <5>. QED BY <2>9, <5>1, <5>2
      <4>. QED BY <2>3, <4>1, <4>2
    <3>4. ASSUME NEW i \in 1..next, Logs(Received'[i])
          PROVE  \E k \in 1..n + 1 : logged'[k] = Received'[i]
      <4>1. CASE i \in 1..Len(inserted)
        <5>1. PICK k \in 1..n : logged[k] = Received'[i]
          BY <2>7, <3>4, <4>1
        <5>2. k \in 1..n + 1 /\ logged'[k] = logged[k]
          BY <2>3, <3>2
        <5>. QED BY <5>1, <5>2
      <4>2. CASE i = next
        <5>1. n + 1 \in 1..n + 1
          BY <2>3
        <5>. QED BY <2>4, <3>2, <4>2, <5>1
      <4>. QED BY <2>3, <4>1, <4>2
    <3>. QED BY <2>4, <2>5, <3>2, <3>3, <3>4 DEF Log
  <2>. QED BY <2>8, <2>9
<1>2. CASE InsertAnnotationResponse
  <2>1. UNCHANGED <<Received, feature_, logged>>
    BY <1>2, ReceivedSteps DEF InsertAnnotationResponse
  <2>. QED BY <1>0, <2>1 DEF Log, Logs
<1>3. CASE PresentFrame \/ PlayMediaReturns \/ UNCHANGED vars
  <2>1. UNCHANGED <<Received, feature_, logged>>
    BY <1>3, ReceivedSteps DEF reading
  <2>. QED BY <1>0, <2>1 DEF Log, Logs
<1>. QED BY <1>1, <1>2, <1>3 DEF Next

LEMMA NextDrawn == IndInv /\ [Next]_vars => Drawn' /\ NeverEarly'
<1>. SUFFICES ASSUME IndInv, [Next]_vars PROVE Drawn' /\ NeverEarly'
  OBVIOUS
<1>0. /\ TypeOK /\ Pending /\ Drawn /\ ShownInOrder /\ NeverEarly
      /\ inserted \in Seq(ResponseType) /\ Len(inserted) \in Nat
      /\ shown \in Seq([resp : ResponseType, at : 0..Duration]) /\ Len(shown) \in Nat
      /\ Used \in Nat
  BY DEF IndInv, Drawn, TypeOK, Pending
<1>. USE DEF reading, local
\* Nothing but a frame changes what is drawn.
<1>a. ASSUME UNCHANGED <<shown, screen, position, cur_resp, last_updated_resp_offset, Used>>,
             Len(inserted') \in Nat, Len(inserted) <= Len(inserted'),
             \A i \in 1..Len(inserted) : inserted'[i] = inserted[i]
      PROVE  Drawn' /\ NeverEarly'
  <2>1. Used <= Len(inserted)
    BY <1>0 DEF TypeOK, Used
  <2>2. ShownInOrder'
    <3>. SUFFICES ASSUME NEW j \in 1..Len(shown)
                  PROVE  LET r == shown[j].resp
                         IN /\ r.id \in 1..Len(inserted') /\ r = inserted'[r.id] /\ Drawable(r)
                            /\ \A k \in 1..j - 1 : shown[k].resp.id < r.id
                            /\ \A i \in 1..r.id - 1 : Drawable(inserted'[i]) =>
                                  \E k \in 1..j - 1 : shown[k].resp = inserted'[i]
      BY <1>a DEF ShownInOrder, Drawable
    <3>. DEFINE r == shown[j].resp
    <3>1. /\ r.id \in 1..Len(inserted) /\ r = inserted[r.id] /\ Drawable(r)
          /\ \A k \in 1..j - 1 : shown[k].resp.id < r.id
          /\ \A i \in 1..r.id - 1 :
                Drawable(inserted[i]) => \E k \in 1..j - 1 : shown[k].resp = inserted[i]
      BY <1>0 DEF ShownInOrder
    <3>. HIDE DEF r
    <3>2. r.id \in 1..Len(inserted') /\ \A i \in 1..r.id : inserted'[i] = inserted[i]
      BY <1>0, <1>a, <3>1
    <3>3. r.id \in 1..r.id /\ \A i \in 1..r.id - 1 : i \in 1..r.id
      BY <3>1
    <3>. QED BY <3>1, <3>2, <3>3 DEF r
  <2>3. \A i \in 1..Used : inserted'[i] = inserted[i]
    BY <1>0, <1>a, <2>1
  <2>4. NeverEarly'
    BY <1>0, <1>a DEF NeverEarly, GetAnnotationResponseTimestamp
  <2>. QED BY <1>0, <1>a, <2>2, <2>3, <2>4 DEF Drawn, Drawable, LastShown,
           GetRendererClearThreshold
<1>1. ASSUME NEW c \in Contents, Process(c) PROVE Drawn' /\ NeverEarly'
  BY <1>0, <1>1, <1>a DEF Process, Used
<1>2. CASE InsertAnnotationResponse
  <2>1. /\ inserted' = Append(inserted, resp)
        /\ annotation_response_queue_' = Append(annotation_response_queue_, resp)
        /\ UNCHANGED <<shown, screen, position, local>>
    BY <1>2 DEF InsertAnnotationResponse
  <2>2. resp \in ResponseType /\ annotation_response_queue_ \in Seq(ResponseType)
    BY <1>0 DEF TypeOK
  <2>3. /\ Len(inserted') = Len(inserted) + 1
        /\ \A i \in 1..Len(inserted) : inserted'[i] = inserted[i]
        /\ Len(annotation_response_queue_') = Len(annotation_response_queue_) + 1
    BY <1>0, <2>1, <2>2, AppendProperties
  <2>4. Used' = Used
    BY <1>0, <2>1, <2>2, <2>3 DEF Used
  <2>. QED BY <1>0, <1>a, <2>1, <2>3, <2>4
<1>3. CASE PlayMediaReturns \/ UNCHANGED vars
  BY <1>0, <1>3, <1>a DEF PlayMediaReturns, vars, Used
<1>4. CASE PresentFrame
  <2>. DEFINE cur == cur_resp'
              last == last_updated_resp_offset'
              n == Len(shown)
              e == [resp |-> cur, at |-> position']
  <2>1. /\ UNCHANGED <<inserted>> /\ position' \in 0..Duration /\ position <= position'
    BY <1>0, <1>4, PresentFrameProperties
  <2>2. /\ cur \in ResponseType /\ last \in 0..position'
        /\ screen' = IF /\ Drawable(cur)
                        /\ position' - last < GetRendererClearThreshold(cur)
                     THEN cur ELSE Empty
        /\ \/ /\ Used' = Used + 1 /\ Used + 1 \in 1..Len(inserted)
              /\ cur = inserted[Used + 1] /\ Drawable(cur)
              /\ last = position'
              /\ GetAnnotationResponseTimestamp(cur) <= position'
              /\ shown' = Append(shown, e)
           \/ /\ Used' = Used + 1 /\ Used + 1 \in 1..Len(inserted)
              /\ cur = inserted[Used + 1] /\ ~Drawable(cur)
              /\ UNCHANGED shown
           \/ /\ Used' = Used /\ UNCHANGED <<cur_resp, last_updated_resp_offset>>
              /\ UNCHANGED shown
    BY <1>4, DrawProperties
  <2>. HIDE DEF cur, last, e
  <2>3. screen' # Empty => /\ screen' = cur /\ Drawable(screen')
                           /\ position' - last < GetRendererClearThreshold(screen')
    BY <2>2
  <2>4. CASE UNCHANGED shown /\ Used' = Used + 1 /\ cur = inserted[Used + 1] /\ ~Drawable(cur)
    <3>1. ShownInOrder' /\ NeverEarly'
      BY <1>0, <2>1, <2>4 DEF ShownInOrder, NeverEarly, Drawable,
         GetAnnotationResponseTimestamp
    <3>2. \A j \in 1..n : shown[j].resp.id <= Used + 1
      <4>1. \A j \in 1..n : shown[j].resp.id \in 1..Len(inserted) /\ shown[j].resp.id <= Used
        BY <1>0 DEF Drawn, ShownInOrder
      <4>. QED BY <1>0, <4>1
    <3>3. ASSUME NEW i \in 1..Used + 1, Drawable(inserted[i])
          PROVE  \E j \in 1..n : shown[j].resp = inserted[i]
      <4>1. i # Used + 1
        BY <2>4, <3>3
      <4>2. i \in 1..Used
        BY <1>0, <4>1
      <4>. QED BY <1>0, <3>3, <4>2 DEF Drawn
    <3>4. ~Drawable(cur_resp')
      BY <2>4 DEF cur
    <3>. QED BY <2>1, <2>3, <2>4, <3>1, <3>2, <3>3, <3>4 DEF Drawn, Drawable, cur, last
  <2>5. CASE UNCHANGED shown /\ Used' = Used /\ UNCHANGED <<cur_resp, last_updated_resp_offset>>
    <3>1. ShownInOrder' /\ NeverEarly'
      BY <1>0, <2>1, <2>5 DEF ShownInOrder, NeverEarly, Drawable,
         GetAnnotationResponseTimestamp
    <3>. QED BY <1>0, <2>1, <2>3, <2>5, <3>1 DEF Drawn, Drawable, LastShown, cur, last
  <2>6. CASE /\ Used' = Used + 1 /\ Used + 1 \in 1..Len(inserted)
             /\ cur = inserted[Used + 1] /\ Drawable(cur)
             /\ last = position'
             /\ GetAnnotationResponseTimestamp(cur) <= position'
             /\ shown' = Append(shown, e)
    <3>1. /\ e.resp = cur /\ e.at = position'
          /\ e \in [resp : ResponseType, at : 0..Duration]
      BY <2>1, <2>2 DEF e
    <3>2. /\ Len(shown') = n + 1 /\ shown'[n + 1] = e
          /\ \A j \in 1..n : shown'[j] = shown[j]
      BY <1>0, <2>6, <3>1, AppendProperties
    <3>3. cur.id = Used + 1
      <4>1. Received[Used + 1] = inserted[Used + 1] /\ Used + 1 \in 1..Len(Received)
        BY <1>0, <2>6, ReceivedProperties
      <4>. QED BY <2>6, <4>1 DEF IndInv, Numbered
    <3>4. \A j \in 1..n : shown[j].resp.id \in 1..Len(inserted) /\ shown[j].resp.id <= Used
      BY <1>0 DEF Drawn, ShownInOrder
    <3>5. \A i \in 1..Used : Drawable(inserted[i]) => \E j \in 1..n : shown[j].resp = inserted[i]
      BY <1>0 DEF Drawn
    <3>6. ASSUME NEW j \in 1..n + 1
          PROVE  LET r == shown'[j].resp
                 IN /\ r.id \in 1..Len(inserted) /\ r = inserted[r.id] /\ Drawable(r)
                    /\ \A k \in 1..j - 1 : shown'[k].resp.id < r.id
                    /\ \A i \in 1..r.id - 1 : Drawable(inserted[i]) =>
                          \E k \in 1..j - 1 : shown'[k].resp = inserted[i]
      <4>1. CASE j \in 1..n
        <5>1. shown'[j] = shown[j] /\ \A k \in 1..j - 1 : shown'[k] = shown[k]
          BY <1>0, <3>2, <4>1
        <5>2. LET r == shown[j].resp
              IN /\ r.id \in 1..Len(inserted) /\ r = inserted[r.id] /\ Drawable(r)
                 /\ \A k \in 1..j - 1 : shown[k].resp.id < r.id
                 /\ \A i \in 1..r.id - 1 : Drawable(inserted[i]) =>
                       \E k \in 1..j - 1 : shown[k].resp = inserted[i]
          BY <1>0, <4>1 DEF ShownInOrder
        <5>. QED BY <5>1, <5>2
      <4>2. CASE j = n + 1
        <5>1. shown'[j].resp = cur /\ j - 1 = n
          BY <1>0, <3>1, <3>2, <4>2
        <5>2. cur.id \in 1..Len(inserted) /\ cur = inserted[cur.id] /\ Drawable(cur)
              /\ cur.id - 1 = Used
          BY <1>0, <2>6, <3>3
        <5>3. \A k \in 1..n : shown'[k].resp.id < cur.id
          BY <1>0, <3>2, <3>3, <3>4
        <5>4. \A i \in 1..Used : Drawable(inserted[i]) =>
                  \E k \in 1..n : shown'[k].resp = inserted[i]
          BY <3>2, <3>5
        <5>. QED BY <5>1, <5>2, <5>3, <5>4
      <4>. QED BY <1>0, <4>1, <4>2
    <3>7. ShownInOrder'
      BY <2>1, <3>2, <3>6 DEF ShownInOrder, Drawable
    <3>8. NeverEarly'
      <4>1. \A j \in 1..n : GetAnnotationResponseTimestamp(shown[j].resp) <= shown[j].at
        BY <1>0 DEF NeverEarly
      <4>2. ASSUME NEW j \in 1..n + 1
            PROVE  GetAnnotationResponseTimestamp(shown'[j].resp) <= shown'[j].at
        <5>1. j \in 1..n \/ j = n + 1
          BY <1>0
        <5>. QED BY <2>6, <3>1, <3>2, <4>1, <5>1
      <4>. QED BY <3>2, <4>2 DEF NeverEarly, GetAnnotationResponseTimestamp
    <3>9. \A j \in 1..n + 1 : shown'[j].resp.id <= Used + 1
      <4>1. ASSUME NEW j \in 1..n + 1 PROVE shown'[j].resp.id <= Used + 1
        <5>1. j \in 1..n \/ j = n + 1
          BY <1>0
        <5>. QED BY <1>0, <3>1, <3>2, <3>3, <3>4, <5>1
      <4>. QED BY <4>1
    <3>10. ASSUME NEW i \in 1..Used + 1, Drawable(inserted[i])
           PROVE  \E j \in 1..n + 1 : shown'[j].resp = inserted[i]
      <4>1. CASE i \in 1..Used
        <5>1. PICK j \in 1..n : shown[j].resp = inserted[i]
          BY <3>5, <3>10, <4>1
        <5>. QED BY <1>0, <3>2, <5>1
      <4>2. CASE i = Used + 1
        <5>1. n + 1 \in 1..n + 1
          BY <1>0
        <5>. QED BY <2>6, <3>1, <3>2, <4>2, <5>1
      <4>. QED BY <1>0, <4>1, <4>2
    <3>11. shown' # <<>> /\ LastShown' = [resp |-> cur, at |-> last]
      <4>1. Len(shown') # 0
        BY <1>0, <3>2
      <4>2. shown' # <<>>
        BY <4>1
      <4>. QED BY <2>6, <3>2, <4>2 DEF LastShown, e
    <3>. QED BY <2>1, <2>3, <2>6, <3>2, <3>7, <3>8, <3>9, <3>10, <3>11
             DEF Drawn, Drawable, cur, last
  <2>. QED BY <2>2, <2>4, <2>5, <2>6
<1>. QED BY <1>1, <1>2, <1>3, <1>4 DEF Next

LEMMA NextIndInv == IndInv /\ [Next]_vars => IndInv'
BY NextTypeOK, NextNumbered, NextPending, NextDrawn, NextLog DEF IndInv

-------------------------------------------------------------------------------
\* The theorems.

\* The invariant that the others follow from.
THEOREM Invariance == Spec => []IndInv
<1>1. Init => IndInv
  BY InitIndInv
<1>2. IndInv /\ [Next]_vars => IndInv'
  BY NextIndInv
<1>. QED BY <1>1, <1>2, PTL DEF Spec

\* Types; the offset that is kept is one that the video has reached.
THEOREM TypeCorrectness == Spec => []TypeOK
<1>1. IndInv => TypeOK
  BY DEF IndInv
<1>. QED BY <1>1, Invariance, PTL

\* No annotation is drawn before its time, although the timestamps may wrap around.
THEOREM NeverEarlyAlways == Spec => []NeverEarly
<1>1. IndInv => NeverEarly
  BY DEF IndInv
<1>. QED BY <1>1, Invariance, PTL

\* What is drawn is what was received, in order, each response once and none left out.
THEOREM ShownInOrderAlways == Spec => []ShownInOrder
<1>1. IndInv => ShownInOrder
  BY DEF IndInv, Drawn
<1>. QED BY <1>1, Invariance, PTL

\* An annotation leaves the screen in time.
THEOREM ClearedInTimeAlways == Spec => []ClearedInTime
<1>1. IndInv => ClearedInTime
  <2>. SUFFICES ASSUME IndInv, screen # Empty
                PROVE  /\ screen = LastShown.resp
                       /\ position - LastShown.at < GetRendererClearThreshold(screen)
    BY DEF ClearedInTime
  <2>. QED BY DEF IndInv, Drawn
<1>. QED BY <1>1, Invariance, PTL

\* What is asked for and drawn is logged before, in the same order.
THEOREM DrawnIsLoggedAlways == Spec => []DrawnIsLogged
<1>1. IndInv => DrawnIsLogged
  <2>. SUFFICES ASSUME IndInv, NEW j \in 1..Len(shown),
                       Asked(shown[j].resp), shown[j].resp.frames > 0
                PROVE  \E k \in 1..Len(logged) :
                          /\ logged[k] = shown[j].resp
                          /\ \A l \in 1..k - 1 :
                                \E i \in 1..j - 1 : shown[i].resp = logged[l]
    BY DEF DrawnIsLogged
  <2>. DEFINE r == shown[j].resp
  <2>1. /\ r.id \in 1..Len(inserted) /\ r = inserted[r.id]
        /\ \A i \in 1..r.id - 1 :
              Drawable(inserted[i]) => \E k \in 1..j - 1 : shown[k].resp = inserted[i]
    BY DEF IndInv, Drawn, ShownInOrder
  <2>2. /\ Len(inserted) \in Nat /\ Len(Received) \in Nat /\ Len(inserted) <= Len(Received)
        /\ \A i \in 1..Len(inserted) : Received[i] = inserted[i]
        /\ Len(logged) \in Nat
    BY ReceivedProperties DEF IndInv, TypeOK
  <2>3. Logs(r) /\ Drawable(r)
    BY DEF Asked, Logs, Processed, Labelling, Tracking, Drawable
  <2>. HIDE DEF r
  <2>4. PICK k \in 1..Len(logged) : logged[k] = r
    <3>1. r.id \in 1..Len(Received) /\ r = Received[r.id]
      BY <2>1, <2>2
    <3>2. Logs(Received[r.id])
      BY <2>3, <3>1
    <3>3. \E k \in 1..Len(logged) : logged[k] = Received[r.id]
      BY <3>1, <3>2 DEF IndInv, Log
    <3>. QED BY <3>1, <3>3
  <2>5. ASSUME NEW l \in 1..k - 1 PROVE \E i \in 1..j - 1 : shown[i].resp = logged[l]
    <3>1. l \in 1..Len(logged)
      BY <2>2
    <3>2. /\ logged[l].id \in 1..Len(Received) /\ logged[l] = Received[logged[l].id]
          /\ Logs(logged[l]) /\ logged[l].id < r.id
      BY <2>4, <3>1 DEF IndInv, Log
    <3>3. logged[l].id \in 1..r.id - 1 /\ logged[l] = inserted[logged[l].id]
      BY <2>1, <2>2, <3>2
    <3>4. logged[l].kind = r.kind
      BY <2>3, <3>2 DEF Logs
    <3>5. Drawable(logged[l])
      BY <2>3, <3>4 DEF Drawable
    <3>. QED BY <2>1, <3>3, <3>5
  <2>. QED BY <2>4, <2>5 DEF r
<1>. QED BY <1>1, Invariance, PTL
===============================================================================
