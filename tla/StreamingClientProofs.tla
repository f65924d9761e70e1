------------------------- MODULE StreamingClientProofs -------------------------
(***************************************************************************)
(* Theorems about StreamingClient for every length of the video, every     *)
(* size of the chunks, of the buffer of ffmpeg and of the windows of the   *)
(* call, any responses and any combinations of flags.                      *)
(***************************************************************************)
EXTENDS StreamingClient, AnnotationRpcProofs

\* The part of the content in the buffer that is not sent, and that is not stored.
Unsent == IF main = "write" \/ ended = "gaveup" THEN Len(data) ELSE 0
Unstored == IF main \in {"write", "store"} \/ ended = "gaveup" THEN Len(data) ELSE 0

\* The last byte sent: see Carried.
Sent == IF reader = "none" THEN -1 ELSE Len(delivered) - Unsent

\* Where the main thread is, and what the call, the source and the reader thread have
\* come to by then.
MainControl ==
    /\ rpc = "none" <=> main = "init"
    /\ main \in {"init", "config"} => reader = "none"
    /\ reader = "none" => main \in {"init", "config", "ended"} /\ result # "true"
    /\ main \in {"init", "config", "open"} \/ reader = "none" =>
           delivered = <<>> /\ ended = "no"
    /\ main \in {"read", "write", "store"} => ended = "no"
    /\ main \in {"done", "join", "finish"} => ended # "no"
    /\ main = "finish" => reader = "ended"
    /\ result = "none" <=> main # "ended"
    /\ main = "ended" => reader \in {"none", "ended"} /\ StreamEnded
    /\ result = "true" => rpc = "ok"
    /\ ended = "gaveup" => StreamEnded
    /\ ended = "eof" => failed \/ delivered = Video
    /\ half_closed => ended = "eof" /\ main \in {"join", "finish", "ended"}
    /\ main \in {"join", "finish"} => half_closed \/ StreamEnded

\* Where the reader thread is, and what the call and the player have come to by then.
ReaderControl ==
    /\ reader = "process" => resp \in Responses
    /\ reader \in {"join", "ended"} => StreamEnded /\ in = <<>>
    /\ reader \in {"none", "open"} => player = "none"
    /\ reader = "ended" => player \in {"none", "ended"}
    /\ player # "none" => "enable_player" \in flags
    /\ player \in {"none", "open"} => played = <<>>

\* What has been read is the video up to some byte, the buffer holds the end of it, and
\* the call carries all but what is still to be sent.
Content ==
    /\ ComesAfter(delivered, 0) /\ Len(delivered) <= StreamLength
    /\ main \in {"write", "store"} \/ ended = "gaveup" =>
           /\ Len(data) \in 1..Len(delivered)
           /\ ComesAfter(data, Len(delivered) - Len(data))
    /\ Carried(Sent)

\* The local copy is what has been read but for what is still to be stored.
LocalCopy ==
    "local_storage_video" \in flags =>
        ComesAfter(video_file, 0) /\ Len(video_file) = Len(delivered) - Unstored

\* How many responses the reader thread has read, and processed.
Taken == Len(answers) - Len(in)
Processed == IF reader = "process" THEN Taken - 1 ELSE Taken

\* Until the call fails, the responses are processed in order and none is left out.
Annotations ==
    rpc # "failed" =>
        /\ Taken \in Nat /\ InFlight(Taken)
        /\ reader = "process" => Taken > 0 /\ resp = answers[Taken]
        /\ "local_storage_annotation_result" \in flags =>
               WithoutErrors(annotation_file, answers, Processed)

IndInv ==
    /\ TypeOK /\ MainControl /\ ReaderControl
    /\ Content /\ LocalCopy /\ FedInOrder /\ Annotations

-------------------------------------------------------------------------------
\* Lemmas on the operators of the model.

LEMMA Sizes ==
  /\ StreamLength \in Nat /\ kDataChunk \in Nat \ {0} /\ kMaxStreamBufferSize \in Nat \ {0}
  /\ Bytes \subseteq 0..StreamLength
  /\ Bytes \in SUBSET Int /\ 0..StreamLength \in SUBSET Int
<1>1. StreamLength \in Nat /\ kDataChunk \in Nat \ {0} /\ kMaxStreamBufferSize \in Nat \ {0}
  BY StreamingClientAssumption
<1>. QED BY <1>1 DEF Bytes

LEMMA VideoProperties ==
  Video \in Seq(Bytes) /\ Len(Video) = StreamLength /\ ComesAfter(Video, 0)
BY Sizes DEF Video, Bytes, ComesAfter

\* ReadBytes gives the next bytes of the video, one at least and no more than fit; or it
\* gives nothing, and not before the end of the video unless the source has failed.
LEMMA ReadBytesProperties ==
  ASSUME TypeOK, ReadBytes
  PROVE  /\ failed' = failed /\ ended = "no"
         /\ \/ /\ ended' = "no"
               /\ delivered' \in Seq(Bytes) /\ ComesAfter(delivered', 0)
               /\ Len(delivered') <= StreamLength
               /\ Chunk \in Seq(Bytes) /\ Len(Chunk) \in 1..kDataChunk
               /\ Len(delivered') = Len(delivered) + Len(Chunk)
               /\ ComesAfter(Chunk, Len(delivered))
            \/ /\ ended' = "eof" /\ delivered' = delivered
               /\ failed \/ delivered = Video
<1>1. Len(delivered) \in Nat
  BY DEF TypeOK
<1>2. CASE Source!Deliver
  <2>1. PICK n \in 1..kDataChunk :
           /\ Len(delivered) + n <= Len(Video)
           /\ delivered' = SubSeq(Video, 1, Len(delivered) + n)
    BY <1>2 DEF Source!Deliver
  <2>. DEFINE m == Len(delivered) + n
  <2>2. m \in Nat /\ n \in Nat /\ Len(delivered) <= m /\ m <= Len(Video)
        /\ n \in 1..kDataChunk /\ m = Len(delivered) + n
    BY <1>1, <2>1, Sizes
  <2>. HIDE DEF m
  <2>3. /\ delivered' \in Seq(Bytes) /\ Len(delivered') = m
        /\ ComesAfter(delivered', 0)
    BY <2>1, <2>2, VideoProperties, ComesAfterSubSeq DEF m
  <2>4. /\ Chunk \in Seq(Bytes) /\ Len(Chunk) = n
        /\ ComesAfter(Chunk, Len(delivered))
    BY <1>1, <2>2, <2>3, ComesAfterSubSeq DEF Chunk
  <2>. QED BY <1>2, <2>2, <2>3, <2>4, VideoProperties DEF Source!Deliver
<1>3. CASE Source!End
  BY <1>3 DEF Source!End
<1>. QED BY <1>2, <1>3 DEF ReadBytes

\* The pieces of a chunk: n of them, of b bytes each but for the last one.
LEMMA CeilingProperties ==
  ASSUME NEW l \in Nat \ {0}, NEW b \in Nat \ {0}, NEW n, n = (l + b - 1) \div b
  PROVE  /\ n \in Nat \ {0}
         /\ (n - 1) * b < l /\ l <= n * b
OBVIOUS

LEMMA MultipleMonotone ==
  ASSUME NEW i \in Nat, NEW j \in Nat, NEW b \in Nat, i <= j
  PROVE  i * b \in Nat /\ j * b \in Nat /\ i * b <= j * b
OBVIOUS

\* InsertStreamData cuts a chunk into pieces that fit the buffer of ffmpeg, none of them
\* empty, and that are the chunk when they are put together.
LEMMA PiecesProperties ==
  ASSUME NEW S \in SUBSET Int, NEW chunk \in Seq(S), NEW m \in Int,
         Len(chunk) > 0, ComesAfter(chunk, m),
         NEW p, p = [i \in 1..num_chunks(chunk) |-> Piece(chunk, i - 1)]
  PROVE  /\ p \in Seq(Seq(S))
         /\ \A k \in 1..Len(p) : Len(p[k]) \in 1..kMaxStreamBufferSize
         /\ Chain(p, m, m + Len(chunk))
<1>. DEFINE n == num_chunks(chunk)
            b == kMaxStreamBufferSize
            l == Len(chunk)
<1>1. b \in Nat \ {0} /\ l \in Nat \ {0}
  BY Sizes
<1>2. n \in Nat \ {0} /\ (n - 1) * b < l /\ l <= n * b
  <2>1. n = (l + b - 1) \div b
    BY DEF num_chunks
  <2>. HIDE DEF n, b, l
  <2>. QED BY <1>1, <2>1, CeilingProperties
<1>3. p = [i \in 1..n |-> Piece(chunk, i - 1)]
  OBVIOUS
\* The end of the kth piece in the chunk.
<1>. DEFINE end(k) == IF k = n THEN l ELSE k * b
<1>. HIDE DEF n
<1>4. ASSUME NEW k \in 1..n
      PROVE  /\ (k - 1) * b \in Nat /\ (k - 1) * b < l
             /\ end(k) \in Nat /\ end(k) <= l
             /\ end(k) - (k - 1) * b \in 1..b
             /\ Piece(chunk, k - 1) = SubSeq(chunk, (k - 1) * b + 1, end(k))
  <2>1. k - 1 \in Nat /\ n - 1 \in Nat /\ k - 1 <= n - 1 /\ k \in Nat
    BY <1>2
  <2>2. (k - 1) * b \in Nat /\ (n - 1) * b \in Nat /\ (k - 1) * b <= (n - 1) * b
    BY <1>1, <2>1, MultipleMonotone
  <2>3. k * b = (k - 1) * b + b /\ n * b = (n - 1) * b + b
    BY <1>1, <2>1, <1>2
  <2>4. (k - 1) * b < l
    BY <1>1, <1>2, <2>2
  <2>5. k # n => k * b < l
    <3>1. SUFFICES ASSUME k # n PROVE k * b < l
      OBVIOUS
    <3>2. k <= n - 1
      BY <1>2, <3>1
    <3>3. k * b \in Nat /\ k * b <= (n - 1) * b
      BY <1>1, <2>1, <3>2, MultipleMonotone
    <3>. QED BY <1>1, <1>2, <2>2, <3>3
  <2>. DEFINE x == (k - 1) * b
              y == k * b
              z == (n - 1) * b
  <2>a. x \in Nat /\ z \in Nat /\ x <= z /\ y = x + b /\ x < l /\ z < l
        /\ (k # n => y < l) /\ (k = n => l <= x + b)
    BY <1>2, <2>2, <2>3, <2>4, <2>5
  <2>b. end(k) = IF k = n THEN l ELSE y
    OBVIOUS
  <2>. HIDE DEF x, y, z, b, l, end
  <2>6. end(k) \in Nat /\ end(k) <= l /\ end(k) - x \in 1..b
    BY <1>1, <2>a, <2>b
  <2>7. Piece(chunk, k - 1) = SubSeq(chunk, x + 1, end(k))
    <3>. DEFINE rest == l - x
                size == IF b > rest THEN rest ELSE b
    <3>1. Piece(chunk, k - 1) = SubSeq(chunk, x + 1, x + size)
      BY DEF Piece, x, b, l
    <3>2. x + size = end(k)
      BY <1>1, <2>a, <2>b
    <3>. QED BY <3>1, <3>2
  <2>. QED BY <2>a, <2>6, <2>7 DEF x
<1>5. ASSUME NEW k \in 1..n
      PROVE  /\ p[k] \in Seq(S) /\ Len(p[k]) = end(k) - (k - 1) * b
             /\ Len(p[k]) \in 1..b
             /\ ComesAfter(p[k], m + (k - 1) * b)
             /\ p[k][Len(p[k])] = m + end(k)
  <2>. DEFINE i == (k - 1) * b
  <2>1. /\ i \in Nat /\ i < l /\ end(k) \in Nat /\ end(k) <= l /\ end(k) - i \in 1..b
        /\ p[k] = SubSeq(chunk, i + 1, end(k))
    BY <1>3, <1>4
  <2>. HIDE DEF i, end
  <2>2. /\ p[k] \in Seq(S) /\ Len(p[k]) = end(k) + 1 - (i + 1)
        /\ ComesAfter(p[k], m + (i + 1) - 1)
    <3>. DEFINE j == end(k)
    <3>1. i + 1 \in Nat \ {0} /\ i + 1 <= j + 1 /\ j \in Nat /\ j <= Len(chunk)
      BY <2>1, <1>1
    <3>2. p[k] = SubSeq(chunk, i + 1, j)
      BY <2>1
    <3>. HIDE DEF j
    <3>3. /\ SubSeq(chunk, i + 1, j) \in Seq(S)
          /\ Len(SubSeq(chunk, i + 1, j)) = j + 1 - (i + 1)
          /\ ComesAfter(SubSeq(chunk, i + 1, j), m + (i + 1) - 1)
      BY <3>1, ComesAfterSubSeq
    <3>. QED BY <3>2, <3>3 DEF j
  <2>3. end(k) + 1 - (i + 1) = end(k) - i /\ m + (i + 1) - 1 = m + i
    BY <2>1
  <2>4. Len(p[k]) = end(k) - i /\ Len(p[k]) \in 1..b /\ ComesAfter(p[k], m + i)
    BY <2>1, <2>2, <2>3
  <2>5. p[k][Len(p[k])] = m + end(k)
    <3>1. Len(p[k]) \in 1..Len(p[k])
      BY <2>4, <1>1
    <3>2. p[k][Len(p[k])] = m + i + (end(k) - i)
      BY <2>4, <3>1 DEF ComesAfter
    <3>. QED BY <2>1, <3>2
  <2>. QED BY <2>2, <2>4, <2>5 DEF i
<1>6. Len(p) = n /\ p \in Seq(Seq(S))
  <2>1. \A k \in 1..n : Piece(chunk, k - 1) \in Seq(S)
    BY <1>3, <1>5
  <2>. DEFINE T == Seq(S)
  <2>. HIDE DEF T
  <2>2. p \in [1..n -> T]
    BY <1>3, <2>1 DEF T
  <2>0. n \in Nat
    BY <1>2
  <2>. HIDE DEF b, l
  <2>3. p \in Seq(T) /\ Len(p) = n
    BY <2>0, <2>2, FunctionIsSeq
  <2>. QED BY <2>3 DEF T
<1>7. \A k \in 0..n : LastOf(p, m, k) = IF k = n THEN m + l ELSE m + k * b
  <2>1. ASSUME NEW k \in 0..n
        PROVE  LastOf(p, m, k) = IF k = n THEN m + l ELSE m + k * b
    <3>1. CASE k = 0
      <4>1. k # n /\ k * b = 0
        BY <1>1, <1>2, <3>1
      <4>. QED BY <3>1, <4>1 DEF LastOf
    <3>2. CASE k # 0
      <4>1. k \in 1..n
        BY <1>2, <3>2
      <4>. QED BY <1>5, <3>2, <4>1 DEF LastOf
    <3>. QED BY <3>1, <3>2
  <2>. QED BY <2>1
<1>8. ASSUME NEW k \in 1..n
      PROVE  Len(p[k]) > 0 /\ ComesAfter(p[k], LastOf(p, m, k - 1))
  <2>1. k - 1 \in 0..n /\ k - 1 # n
    BY <1>2
  <2>2. LastOf(p, m, k - 1) = m + (k - 1) * b
    BY <1>7, <2>1
  <2>3. Len(p[k]) \in 1..b /\ ComesAfter(p[k], m + (k - 1) * b)
    BY <1>5
  <2>4. Len(p[k]) > 0
    BY <1>1, <2>3
  <2>. QED BY <2>2, <2>3, <2>4
<1>9. ASSUME NEW k \in 0..n PROVE LastOf(p, m, k) <= m + l
  <2>1. CASE k = n
    BY <1>1, <1>7, <2>1
  <2>2. CASE k # n
    <3>1. k \in Nat /\ n - 1 \in Nat /\ k <= n - 1
      BY <1>2, <2>2
    <3>2. k * b \in Nat /\ (n - 1) * b \in Nat /\ k * b <= (n - 1) * b
      BY <1>1, <3>1, MultipleMonotone
    <3>. QED BY <1>1, <1>2, <1>7, <2>2, <3>2
  <2>. QED BY <2>1, <2>2
<1>10. LastOf(p, m, n) = m + l
  BY <1>2, <1>7
<1>. QED BY <1>5, <1>6, <1>8, <1>9, <1>10 DEF Chain

LEMMA WithoutErrorsNone ==
  ASSUME NEW s
  PROVE  WithoutErrors(<<>>, s, 0)
<1>. DEFINE f == [j \in 1..0 |-> j]
<1>1. f \in [1..Len(<<>>) -> 1..0] /\ Len(<<>>) = 0
  OBVIOUS
<1>2. Places(f, <<>>, s, 0)
  BY <1>1 DEF Places
<1>. QED BY <1>1, <1>2 DEF WithoutErrors

\* The next element is an error: it is left out.
LEMMA WithoutErrorsSkip ==
  ASSUME NEW t, Len(t) \in Nat, NEW s, NEW n \in Nat, WithoutErrors(t, s, n),
         s[n + 1] = "error"
  PROVE  WithoutErrors(t, s, n + 1)
<1>1. PICK f \in [1..Len(t) -> 1..n] : Places(f, t, s, n)
  BY DEF WithoutErrors
<1>2. f \in [1..Len(t) -> 1..n + 1]
  BY <1>1
<1>3. \A i \in 1..n + 1 : s[i] # "error" => i \in 1..n
  OBVIOUS
<1>4. \A i \in 1..n + 1 : s[i] # "error" => \E j \in 1..Len(t) : f[j] = i
  BY <1>1, <1>3 DEF Places
<1>5. Places(f, t, s, n + 1)
  BY <1>1, <1>4 DEF Places
<1>. QED BY <1>2, <1>5 DEF WithoutErrors

\* The next element is not an error: it comes last.
LEMMA WithoutErrorsAppend ==
  ASSUME NEW S, NEW t \in Seq(S), NEW s, NEW n \in Nat, WithoutErrors(t, s, n),
         NEW r \in S, s[n + 1] = r, r # "error"
  PROVE  WithoutErrors(Append(t, r), s, n + 1)
<1>1. PICK f \in [1..Len(t) -> 1..n] : Places(f, t, s, n)
  BY DEF WithoutErrors
<1>. DEFINE u == Append(t, r)
            l == Len(t)
            g == [j \in 1..l + 1 |-> IF j = l + 1 THEN n + 1 ELSE f[j]]
<1>2. /\ l \in Nat /\ Len(u) = l + 1
      /\ u[l + 1] = r /\ \A j \in 1..l : u[j] = t[j]
  OBVIOUS
<1>3. g[l + 1] = n + 1 /\ \A j \in 1..l : g[j] = f[j] /\ f[j] \in 1..n
  BY <1>1, <1>2
<1>4. g \in [1..l + 1 -> 1..n + 1]
  BY <1>1, <1>2
<1>. HIDE DEF u, l, g
<1>5. ASSUME NEW j \in 1..l + 1 PROVE u[j] = s[g[j]] /\ u[j] # "error"
  <2>1. CASE j = l + 1
    BY <1>2, <1>3, <2>1
  <2>2. CASE j # l + 1
    <3>1. j \in 1..l
      BY <1>2, <2>2
    <3>. QED BY <1>1, <1>2, <1>3, <3>1 DEF Places, l
  <2>. QED BY <2>1, <2>2
<1>6. ASSUME NEW j \in 1..l + 1, NEW k \in 1..l + 1, j < k PROVE g[j] < g[k]
  <2>1. j \in 1..l
    BY <1>2, <1>6
  <2>2. CASE k = l + 1
    BY <1>3, <2>1, <2>2
  <2>3. CASE k # l + 1
    <3>1. k \in 1..l
      BY <1>2, <2>3
    <3>. QED BY <1>1, <1>3, <1>6, <2>1, <3>1 DEF Places, l
  <2>. QED BY <2>2, <2>3
<1>7. ASSUME NEW i \in 1..n + 1, s[i] # "error" PROVE \E j \in 1..l + 1 : g[j] = i
  <2>1. CASE i = n + 1
    <3>1. l + 1 \in 1..l + 1
      BY <1>2
    <3>. QED BY <1>3, <2>1, <3>1
  <2>2. CASE i # n + 1
    <3>1. i \in 1..n
      BY <2>2
    <3>2. PICK j \in 1..l : f[j] = i
      BY <1>1, <1>7, <3>1 DEF Places, l
    <3>3. j \in 1..l + 1
      BY <1>2
    <3>. QED BY <1>3, <3>2, <3>3
  <2>. QED BY <2>1, <2>2
<1>8. Places(g, u, s, n + 1)
  BY <1>2, <1>5, <1>6, <1>7 DEF Places
<1>. QED BY <1>2, <1>4, <1>8 DEF WithoutErrors, u

\* Only the first n elements count.
LEMMA WithoutErrorsPrefix ==
  ASSUME NEW t, NEW s, NEW u, NEW n \in Nat, WithoutErrors(t, s, n),
         Len(t) \in Nat, \A i \in 1..n : u[i] = s[i]
  PROVE  WithoutErrors(t, u, n)
<1>1. PICK f \in [1..Len(t) -> 1..n] : Places(f, t, s, n)
  BY DEF WithoutErrors
<1>2. \A j \in 1..Len(t) : f[j] \in 1..n
  BY <1>1
<1>3. Places(f, t, u, n)
  BY <1>1, <1>2 DEF Places
<1>. QED BY <1>3 DEF WithoutErrors

-------------------------------------------------------------------------------
\* The inductive invariant, part by part.

LEMMA InitIndInv == Init => IndInv
<1>. SUFFICES ASSUME Init PROVE IndInv
  OBVIOUS
<1>. USE DEF Init
<1>1. TypeOK
  <2>1. RpcTypeOK(0..StreamLength)
    BY RpcInitTypes
  <2>2. status \in BOOLEAN /\ aborted \in BOOLEAN /\ failed \in BOOLEAN
    OBVIOUS
  <2>. QED BY <2>1, <2>2, Sizes DEF TypeOK
<1>2. MainControl /\ ReaderControl
  BY DEF MainControl, ReaderControl, RpcInit
<1>3. Content
  <2>1. Sent = -1 /\ ComesAfter(<<>>, -1) /\ ComesAfter(<<>>, 0)
    BY DEF Sent, ComesAfter
  <2>2. Chain(<<>>, -1, -1)
    BY ChainEmpty
  <2>3. Carried(-1)
    BY <2>1, <2>2 DEF Carried, RpcInit
  <2>. QED BY <2>1, <2>3, Sizes DEF Content
<1>4. LocalCopy /\ FedInOrder
  <2>1. Chain(<<>>, 0, 0)
    BY ChainEmpty
  <2>. QED BY <2>1 DEF LocalCopy, FedInOrder, Unstored, ComesAfter
<1>5. Annotations
  <2>1. Taken = 0 /\ Processed = 0
    BY DEF Taken, Processed, RpcInit
  <2>2. InFlight(0)
    BY DEF InFlight, RpcInit
  <2>. QED BY <2>1, <2>2, WithoutErrorsNone DEF Annotations
<1>. QED BY <1>1, <1>2, <1>3, <1>4, <1>5 DEF IndInv

LEMMA NextTypeOK ==
  ASSUME TypeOK, ReaderControl, [Next]_vars
  PROVE  TypeOK'
<1>. USE DEF TypeOK, source, sender, receiver, playing, queues, files, client
<1>. DEFINE Content0 == 0..StreamLength
<1>0. RpcTypeOK(Content0)
  OBVIOUS
<1>. HIDE DEF Content0
<1>1. CASE Connect
  <2>1. aborted' \in BOOLEAN
    BY <1>1 DEF Connect, Abort
  <2>. QED BY <1>0, <1>1, <2>1 DEF Connect, Return, GoTo, RpcTypeOK, service, Content0
<1>2. CASE SendConfig
  <2>1. <<Config>> \in Seq(Content0)
    BY Sizes DEF Config, Content0
  <2>2. RpcTypeOK(Content0)'
    <3>1. CASE Send(<<Config>>)
      BY <1>0, <1>2, <2>1, <3>1, SendTypes DEF SendConfig
    <3>2. CASE UNCHANGED wire
      BY <1>0, <1>2, <3>2 DEF SendConfig, wire, service, RpcTypeOK
    <3>. QED BY <1>2, <3>1, <3>2 DEF SendConfig
  <2>. QED BY <1>2, <2>2 DEF SendConfig, Return, GoTo, Content0
<1>3. CASE OpenContent
  <2>1. main' \in {main, "read"} /\ aborted' \in {aborted, TRUE}
    BY <1>3 DEF OpenContent, GoTo, Abort
  <2>2. aborted' \in BOOLEAN
    BY <2>1
  <2>3. UNCHANGED <<flags, source, data, status, result, receiver, playing, queues, files,
                    wire, service>>
    BY <1>3 DEF OpenContent
  <2>. QED BY <2>1, <2>2, <2>3 DEF wire, service, RpcTypeOK
<1>4. CASE WriteChunk
  <2>1. data \in Seq(Content0)
    BY Sizes, SeqMonotonic DEF Content0
  <2>2. RpcTypeOK(Content0)'
    <3>1. CASE Send(data)
      BY <1>0, <1>4, <2>1, <3>1, SendTypes DEF WriteChunk
    <3>2. CASE UNCHANGED wire
      BY <1>0, <1>4, <3>2 DEF WriteChunk, wire, service, RpcTypeOK
    <3>. QED BY <1>4, <3>1, <3>2 DEF WriteChunk
  <2>. QED BY <1>4, <2>2 DEF WriteChunk, GoTo, Content0, Source!GiveUp
<1>5. CASE StoreChunk
  <2>1. video_file' \in Seq(Bytes)
    BY <1>5, ConcatProperties DEF StoreChunk
  <2>. QED BY <1>5, <2>1 DEF StoreChunk, GoTo, wire, service, RpcTypeOK
<1>6. CASE WritesDone
  <2>1. /\ status' \in {status, FALSE} /\ half_closed' \in {half_closed, TRUE}
        /\ main' = "join" /\ UNCHANGED <<rpc, out, in>>
    BY <1>6 DEF WritesDone, HalfClose, GoTo, wire
  <2>2. status' \in BOOLEAN /\ half_closed' \in BOOLEAN
    BY <2>1 DEF RpcTypeOK
  <2>3. UNCHANGED <<flags, source, data, result, receiver, playing, queues, files, aborted,
                    service>>
    BY <1>6 DEF WritesDone
  <2>. QED BY <2>1, <2>2, <2>3 DEF service, RpcTypeOK
<1>7. CASE JoinReader
  BY <1>7 DEF JoinReader, GoTo, wire, service, RpcTypeOK
<1>8. CASE Finish
  BY <1>8 DEF Finish, Return, wire, service, RpcTypeOK
<1>9. CASE ReadChunk
  <2>1. ReadBytes
    BY <1>9 DEF ReadChunk
  <2>2. CASE ended' = "no"
    <3>1. /\ delivered' \in Seq(Bytes) /\ failed' = failed
          /\ Chunk \in Seq(Bytes) /\ Len(Chunk) \in 1..kDataChunk
      BY <2>1, <2>2, ReadBytesProperties
    <3>2. Len(Chunk) <= kDataChunk
      BY <3>1, Sizes
    <3>3. data' = Chunk /\ main' = "write"
      BY <1>9, <2>2 DEF ReadChunk, GoTo
    <3>4. stream_queue' \in Seq(Seq(Bytes))
      <4>1. CASE InsertStreamData(data')
        <5>. DEFINE p == [i \in 1..num_chunks(Chunk) |-> Piece(Chunk, i - 1)]
        <5>1. /\ Len(Chunk) > 0 /\ ComesAfter(Chunk, Len(delivered))
              /\ Len(delivered) \in Int
          BY <2>1, <2>2, Sizes, ReadBytesProperties
        <5>2. p \in Seq(Seq(Bytes))
          BY <3>1, <5>1, Sizes, PiecesProperties
        <5>3. stream_queue' = stream_queue \o p
          BY <3>3, <4>1 DEF InsertStreamData
        <5>. HIDE DEF p
        <5>. QED BY <5>2, <5>3, ConcatProperties
      <4>. QED BY <1>9, <2>2, <4>1 DEF ReadChunk
    <3>. QED BY <1>9, <2>2, <3>1, <3>2, <3>3, <3>4
         DEF ReadChunk, wire, service, RpcTypeOK
  <2>3. CASE ended' # "no"
    <3>1. ended' = "eof" /\ delivered' = delivered /\ failed' = failed
      BY <2>1, <2>3, ReadBytesProperties
    <3>. QED BY <1>9, <2>3, <3>1 DEF ReadChunk, GoTo, wire, service, RpcTypeOK
  <2>. QED BY <2>2, <2>3
<1>10. CASE SourceFails
  BY <1>10 DEF SourceFails, Source!Fail, wire, service, RpcTypeOK
<1>11. CASE OpenAnnotations
  <2>1. reader' \in {reader, "read"} /\ aborted' \in {aborted, TRUE}
    BY <1>11 DEF OpenAnnotations, Abort
  <2>2. aborted' \in BOOLEAN
    BY <2>1
  <2>3. UNCHANGED <<flags, source, sender, resp, playing, queues, files, wire, service>>
    BY <1>11 DEF OpenAnnotations
  <2>. QED BY <2>1, <2>2, <2>3 DEF wire, service, RpcTypeOK
<1>12. CASE ReadResponse
  <2>1. PICK r \in Responses : Receive(r) /\ resp' = r
    BY <1>12 DEF ReadResponse
  <2>2. RpcTypeOK(Content0)'
    BY <1>0, <1>12, <2>1, ReceiveTypes DEF ReadResponse
  <2>. QED BY <1>12, <2>1, <2>2 DEF ReadResponse, Content0
<1>13. CASE ProcessResponse
  <2>1. resp \in Responses
    BY <1>13 DEF ProcessResponse, Reader, ReaderControl
  <2>2. /\ annotation_response_queue_' \in Seq(Responses)
        /\ annotation_file' \in Seq(Responses)
    BY <1>13, <2>1, AppendProperties DEF ProcessResponse
  <2>. QED BY <1>13, <2>2 DEF ProcessResponse, wire, service, RpcTypeOK
<1>14. CASE ReadEnds
  BY <1>14 DEF ReadEnds, wire, service, RpcTypeOK
<1>15. CASE JoinPlayer
  BY <1>15 DEF JoinPlayer, wire, service, RpcTypeOK
<1>16. CASE OpenPlayer
  <2>1. player' \in {player, "play"} /\ aborted' \in {aborted, TRUE}
    BY <1>16 DEF OpenPlayer, Abort
  <2>2. aborted' \in BOOLEAN
    BY <2>1
  <2>3. UNCHANGED <<flags, source, sender, receiver, played, queues, files, wire, service>>
    BY <1>16 DEF OpenPlayer
  <2>. QED BY <2>1, <2>2, <2>3 DEF wire, service, RpcTypeOK
<1>17. CASE stream_callback
  <2>1. /\ stream_queue' \in Seq(Seq(Bytes))
        /\ Head(stream_queue) \in Seq(Bytes)
    BY <1>17, EmptySeq, HeadTailProperties DEF stream_callback
  <2>2. played' \in Seq(Bytes)
    BY <1>17, <2>1, ConcatProperties DEF stream_callback
  <2>3. annotation_response_queue_' \in Seq(Responses)
    BY <1>17, EmptySeq, HeadTailProperties DEF stream_callback
  <2>4. aborted' \in BOOLEAN
    <3>1. UNCHANGED aborted \/ aborted' = TRUE
      BY <1>17 DEF stream_callback, Abort
    <3>. QED BY <3>1
  <2>5. UNCHANGED <<flags, source, sender, receiver, player, files, wire, service>>
    BY <1>17 DEF stream_callback
  <2>. QED BY <2>1, <2>2, <2>3, <2>4, <2>5 DEF wire, service, RpcTypeOK
<1>18. CASE PlayerEnds
  BY <1>18 DEF PlayerEnds, wire, service, RpcTypeOK
<1>19. CASE (Server \/ RpcFails) /\ UNCHANGED client
  <2>1. RpcTypeOK(Content0)'
    BY <1>0, <1>19, ServiceTypes
  <2>. QED BY <1>19, <2>1 DEF Content0
<1>20. CASE UNCHANGED vars
  BY <1>20 DEF vars, wire, service, RpcTypeOK
<1>. QED
  BY <1>1, <1>2, <1>3, <1>4, <1>5, <1>6, <1>7, <1>8, <1>9, <1>10, <1>11, <1>12, <1>13,
     <1>14, <1>15, <1>16, <1>17, <1>18, <1>19, <1>20
  DEF Next, MainThread, ReaderThread, PlayerThread

LEMMA NextMainControl ==
  ASSUME TypeOK, MainControl, [Next]_vars
  PROVE  MainControl'
<1>. USE DEF MainControl, source, sender, receiver, playing, queues, files, client, wire, service
<1>1. CASE Connect
  BY <1>1 DEF Connect, Main, Return, GoTo, StreamEnded
<1>2. CASE SendConfig
  BY <1>2 DEF SendConfig, Main, Return, GoTo, Send, StreamEnded
<1>3. CASE OpenContent
  BY <1>3 DEF OpenContent, Main, GoTo, Abort, StreamEnded
<1>4. CASE WriteChunk
  BY <1>4 DEF WriteChunk, Main, GoTo, Send, StreamEnded, Source!GiveUp
<1>5. CASE StoreChunk
  BY <1>5 DEF StoreChunk, Main, GoTo, StreamEnded
<1>6. CASE WritesDone
  <2>1. /\ main = "done" /\ main' = "join" /\ UNCHANGED rpc
        /\ \/ rpc = "running" /\ half_closed'
           \/ StreamEnded /\ UNCHANGED half_closed
        /\ UNCHANGED <<flags, source, data, result, receiver, playing, queues, files, aborted,
                       service>>
    BY <1>6 DEF WritesDone, Main, GoTo, HalfClose
  <2>2. half_closed' => ended = "eof"
    <3>1. CASE UNCHANGED half_closed
      BY <3>1
    <3>2. CASE rpc = "running"
      <4>1. ended # "no" /\ ended # "gaveup"
        BY <2>1, <3>2 DEF StreamEnded
      <4>. QED BY <4>1 DEF TypeOK
    <3>. QED BY <2>1, <3>1, <3>2
  <2>. QED BY <2>1, <2>2 DEF StreamEnded
<1>7. CASE JoinReader
  BY <1>7 DEF JoinReader, Main, GoTo, StreamEnded
<1>8. CASE Finish
  BY <1>8 DEF Finish, Main, Return, StreamEnded
<1>9. CASE ReadChunk
  <2>1. ReadBytes /\ main = "read"
    BY <1>9 DEF ReadChunk, Main
  <2>2. /\ failed' = failed /\ ended = "no" /\ ended' \in {"no", "eof"}
        /\ ended' = "eof" => delivered' = delivered /\ (failed \/ delivered = Video)
    BY <2>1, ReadBytesProperties
  <2>3. /\ main' = IF ended' = "no" THEN "write" ELSE "done"
        /\ UNCHANGED <<flags, status, result, receiver, playing, files, aborted, wire, service>>
    BY <1>9, <2>2 DEF ReadChunk, GoTo
  <2>. QED BY <2>1, <2>2, <2>3 DEF StreamEnded
<1>10. CASE SourceFails
  BY <1>10 DEF SourceFails, Main, Source!Fail, StreamEnded
<1>11. CASE OpenAnnotations
  BY <1>11 DEF OpenAnnotations, Reader, Abort, StreamEnded
<1>12. CASE ReadResponse
  BY <1>12 DEF ReadResponse, Reader, Receive, StreamEnded
<1>13. CASE ProcessResponse
  BY <1>13 DEF ProcessResponse, Reader, StreamEnded
<1>14. CASE ReadEnds
  BY <1>14 DEF ReadEnds, Reader, StreamEnded
<1>15. CASE JoinPlayer
  BY <1>15 DEF JoinPlayer, Reader, StreamEnded
<1>16. CASE OpenPlayer
  BY <1>16 DEF OpenPlayer, Player, Abort, StreamEnded
<1>17. CASE stream_callback
  BY <1>17 DEF stream_callback, Player, Abort, StreamEnded
<1>18. CASE PlayerEnds
  BY <1>18 DEF PlayerEnds, Player, StreamEnded
<1>19. CASE (Server \/ RpcFails) /\ UNCHANGED client
  <2>1. /\ rpc = "running" /\ rpc' \in {"running", "ok", "failed"}
        /\ UNCHANGED half_closed
    BY <1>19 DEF Server, ServerReceives, ServerAnswers, ServerEnds, RpcFails
  <2>. QED BY <1>19, <2>1 DEF StreamEnded
<1>20. CASE UNCHANGED vars
  BY <1>20 DEF vars, StreamEnded
<1>. QED
  BY <1>1, <1>2, <1>3, <1>4, <1>5, <1>6, <1>7, <1>8, <1>9, <1>10, <1>11, <1>12, <1>13,
     <1>14, <1>15, <1>16, <1>17, <1>18, <1>19, <1>20
  DEF Next, MainThread, ReaderThread, PlayerThread

LEMMA NextReaderControl ==
  ASSUME TypeOK, MainControl, ReaderControl, [Next]_vars
  PROVE  ReaderControl'
<1>. USE DEF ReaderControl, source, sender, receiver, playing, queues, files, client, wire, service
<1>1. CASE Connect
  BY <1>1 DEF MainControl, Connect, Main, Return, GoTo, StreamEnded
<1>2. CASE SendConfig
  BY <1>2 DEF MainControl, SendConfig, Main, Return, GoTo, Send, StreamEnded
<1>3. CASE OpenContent
  BY <1>3 DEF OpenContent, Main, GoTo, Abort, StreamEnded
<1>4. CASE WriteChunk
  BY <1>4 DEF WriteChunk, Main, GoTo, Send, StreamEnded, Source!GiveUp
<1>5. CASE StoreChunk
  BY <1>5 DEF StoreChunk, Main, GoTo, StreamEnded
<1>6. CASE WritesDone
  BY <1>6 DEF WritesDone, Main, GoTo, HalfClose, StreamEnded
<1>7. CASE JoinReader
  BY <1>7 DEF JoinReader, Main, GoTo, StreamEnded
<1>8. CASE Finish
  BY <1>8 DEF Finish, Main, Return, StreamEnded
<1>9. CASE ReadChunk
  <2>1. ReadBytes /\ main = "read"
    BY <1>9 DEF ReadChunk, Main
  <2>2. /\ failed' = failed /\ ended = "no" /\ ended' \in {"no", "eof"}
        /\ ended' = "eof" => delivered' = delivered /\ (failed \/ delivered = Video)
    BY <2>1, ReadBytesProperties
  <2>3. /\ main' = IF ended' = "no" THEN "write" ELSE "done"
        /\ UNCHANGED <<flags, status, result, receiver, playing, files, aborted, wire, service>>
    BY <1>9, <2>2 DEF ReadChunk, GoTo
  <2>. QED BY <2>1, <2>2, <2>3 DEF StreamEnded
<1>10. CASE SourceFails
  BY <1>10 DEF SourceFails, Main, Source!Fail, StreamEnded
<1>11. CASE OpenAnnotations
  BY <1>11 DEF OpenAnnotations, Reader, Abort, StreamEnded
<1>12. CASE ReadResponse
  BY <1>12 DEF ReadResponse, Reader, Receive, StreamEnded
<1>13. CASE ProcessResponse
  BY <1>13 DEF ProcessResponse, Reader, StreamEnded
<1>14. CASE ReadEnds
  BY <1>14 DEF ReadEnds, Reader, StreamEnded
<1>15. CASE JoinPlayer
  BY <1>15 DEF JoinPlayer, Reader, StreamEnded
<1>16. CASE OpenPlayer
  BY <1>16 DEF OpenPlayer, Player, Abort, StreamEnded
<1>17. CASE stream_callback
  BY <1>17 DEF stream_callback, Player, Abort, StreamEnded
<1>18. CASE PlayerEnds
  BY <1>18 DEF PlayerEnds, Player, StreamEnded
<1>19. CASE (Server \/ RpcFails) /\ UNCHANGED client
  <2>1. rpc = "running"
    BY <1>19 DEF Server, ServerReceives, ServerAnswers, ServerEnds, RpcFails
  <2>2. reader \notin {"join", "ended"}
    BY <2>1 DEF StreamEnded
  <2>. QED BY <1>19, <2>2
<1>20. CASE UNCHANGED vars
  BY <1>20 DEF vars, StreamEnded
<1>. QED
  BY <1>1, <1>2, <1>3, <1>4, <1>5, <1>6, <1>7, <1>8, <1>9, <1>10, <1>11, <1>12, <1>13,
     <1>14, <1>15, <1>16, <1>17, <1>18, <1>19, <1>20
  DEF Next, MainThread, ReaderThread, PlayerThread


LEMMA SentInt == TypeOK => Sent \in Int /\ Unsent \in Int /\ Unstored \in Int
BY DEF TypeOK, Sent, Unsent, Unstored

\* The steps that send nothing leave what the call carries as it is.
LEMMA NothingSent ==
  ASSUME TypeOK, Content, UNCHANGED <<rpc, out, received, answers>>,
         half_closed => half_closed', Sent' = Sent
  PROVE  Carried(Sent)'
<1>1. PICK sent \in Int : sent = Sent
  BY SentInt
<1>2. Carried(sent)
  BY <1>1 DEF Content
<1>3. Carried(sent)'
  BY <1>2, SameCarried
<1>. QED BY <1>1, <1>3 DEF Carried

LEMMA NextContent ==
  ASSUME TypeOK, MainControl, Content, [Next]_vars
  PROVE  Content'
<1>. DEFINE Same == UNCHANGED <<delivered, ended, data, received, answers>>
            Quiet == UNCHANGED <<rpc, out>> /\ (half_closed => half_closed')
<1>a. ASSUME Same, Sent' = Sent, Carried(Sent)',
             main' \in {"write", "store"} => main \in {"write", "store"}
      PROVE  Content'
  BY <1>a DEF Content
<1>b. ASSUME Same, Quiet, UNCHANGED <<main, reader>>
      PROVE  Content'
  <2>1. Sent' = Sent
    BY <1>b DEF Sent, Unsent
  <2>2. Carried(Sent)'
    BY <1>b, <2>1, NothingSent
  <2>. QED BY <1>a, <1>b, <2>1, <2>2
<1>c. ASSUME Same, Quiet, UNCHANGED main, reader # "none", reader' # "none"
      PROVE  Content'
  <2>1. Sent' = Sent
    BY <1>c DEF Sent, Unsent
  <2>2. Carried(Sent)'
    BY <1>c, <2>1, NothingSent
  <2>. QED BY <1>a, <1>c, <2>1, <2>2
<1>d. ASSUME Same, Quiet, UNCHANGED reader, main # "write", main' # "write", main' # "store"
      PROVE  Content'
  <2>1. Sent' = Sent
    BY <1>d DEF Sent, Unsent
  <2>2. Carried(Sent)'
    BY <1>d, <2>1, NothingSent
  <2>. QED BY <1>a, <1>d, <2>1, <2>2
<1>. USE DEF source, sender, receiver, playing, queues, files, client, wire, service
<1>1. CASE Connect
  <2>1. /\ reader = "none" /\ reader' = "none" /\ rpc = "none"
        /\ rpc' \in {"running", "failed"}
        /\ UNCHANGED <<out, received, answers>> /\ Same
        /\ main' \in {"config", "ended"}
    BY <1>1 DEF Connect, Main, MainControl, GoTo, Return
  <2>2. Sent = -1 /\ Sent' = -1
    BY <2>1 DEF Sent
  <2>3. Carried(-1)
    BY <2>2 DEF Content
  <2>4. Carried(-1)'
    BY <2>1, <2>3 DEF Carried
  <2>5. Carried(Sent)'
    BY <2>2, <2>4 DEF Carried
  <2>. QED BY <1>a, <2>1, <2>2, <2>5
<1>2. CASE SendConfig
  <2>1. /\ reader = "none" /\ delivered = <<>> /\ ended = "no" /\ main = "config"
        /\ UNCHANGED service /\ Same
    BY <1>2 DEF SendConfig, Main, MainControl
  <2>2. CASE Send(<<Config>>) /\ main' = "open" /\ reader' = "open"
    <3>1. Sent = -1 /\ Sent' = 0
      BY <2>1, <2>2 DEF Sent, Unsent
    <3>2. /\ <<Config>> \in Seq(0..StreamLength) /\ Len(<<Config>>) = 1
          /\ ComesAfter(<<Config>>, -1)
      BY Sizes DEF Config, ComesAfter
    <3>3. RpcTypeOK(0..StreamLength) /\ Carried(-1)
      BY <3>1 DEF TypeOK, Content
    <3>4. 0 = -1 + Len(<<Config>>) /\ Len(<<Config>>) > 0 /\ -1 \in Int
      BY <3>2
    <3>5. Carried(0)'
      BY <2>1, <2>2, <3>2, <3>3, <3>4, Sizes, SendCarried
    <3>6. Carried(Sent)'
      BY <3>1, <3>5 DEF Carried
    <3>. QED BY <2>1, <2>2, <3>6 DEF Content
  <2>3. CASE UNCHANGED <<reader, wire>> /\ main' = "ended"
    BY <1>d, <2>1, <2>3
  <2>. QED BY <1>2, <2>2, <2>3 DEF SendConfig, GoTo, Return
<1>3. CASE OpenContent
  <2>1. Same /\ Quiet /\ UNCHANGED reader /\ main = "open" /\ main' \in {"open", "read"}
    BY <1>3 DEF OpenContent, Main, GoTo, Abort
  <2>. QED BY <1>d, <2>1
<1>4. CASE WriteChunk
  <2>1. /\ main = "write" /\ ended = "no" /\ reader # "none"
        /\ UNCHANGED <<reader, service, delivered, data>>
    BY <1>4 DEF WriteChunk, Main, MainControl, Source!GiveUp
  <2>2. /\ Len(data) \in 1..Len(delivered) /\ data \in Seq(Bytes)
        /\ ComesAfter(data, Len(delivered) - Len(data))
        /\ Len(delivered) \in Nat
    BY <2>1 DEF Content, TypeOK
  <2>3. Sent = Len(delivered) - Len(data)
    BY <2>1 DEF Sent, Unsent
  <2>4. CASE Send(data) /\ main' = "store" /\ UNCHANGED <<status, source>>
    <3>1. Sent' = Len(delivered)
      BY <2>1, <2>2, <2>4 DEF Sent, Unsent
    <3>2. PICK sent \in Int : sent = Len(delivered) - Len(data)
      BY <2>2
    <3>3. PICK upto \in Int : upto = Len(delivered)
      BY <2>2
    <3>4. /\ Len(data) > 0 /\ sent # -1
          /\ upto = sent + Len(data) /\ ComesAfter(data, sent)
      BY <2>2, <3>2, <3>3
    <3>5. data \in Seq(0..StreamLength)
      BY <2>2, Sizes, SeqMonotonic
    <3>6. Carried(sent) /\ RpcTypeOK(0..StreamLength)
      BY <2>3, <3>2 DEF Content, TypeOK
    <3>7. Carried(upto)'
      BY <2>1, <2>4, <3>4, <3>5, <3>6, Sizes, SendCarried
    <3>8. Carried(Sent)'
      BY <2>1, <3>1, <3>3, <3>7 DEF Carried
    <3>. QED BY <2>1, <2>4, <3>8 DEF Content
  <2>5. CASE main' = "done" /\ ended' = "gaveup" /\ UNCHANGED wire
    <3>1. Sent' = Sent
      BY <2>1, <2>3, <2>5 DEF Sent, Unsent
    <3>2. Carried(Sent)'
      BY <2>1, <2>5, <3>1, NothingSent
    <3>. QED BY <2>1, <2>5, <3>2 DEF Content
  <2>. QED BY <1>4, <2>4, <2>5 DEF WriteChunk, GoTo, Source!GiveUp
<1>5. CASE StoreChunk
  BY <1>5, <1>d DEF StoreChunk, Main, GoTo
<1>6. CASE WritesDone
  <2>1. /\ Same /\ Quiet /\ UNCHANGED reader /\ main = "done" /\ main' = "join"
    BY <1>6 DEF WritesDone, Main, GoTo, HalfClose
  <2>. QED BY <1>d, <2>1
<1>7. CASE JoinReader
  BY <1>7, <1>d DEF JoinReader, Main, GoTo
<1>8. CASE Finish
  BY <1>8, <1>d DEF Finish, Main, Return
<1>9. CASE ReadChunk
  <2>1. /\ main = "read" /\ reader # "none" /\ ReadBytes /\ ended = "no"
        /\ UNCHANGED <<reader, wire, service>>
    BY <1>9, ReadBytesProperties DEF ReadChunk, Main, MainControl
  <2>2. Sent = Len(delivered)
    BY <2>1 DEF Sent, Unsent, TypeOK
  <2>3. CASE ended' = "no"
    <3>1. main' = "write" /\ data' = Chunk
      BY <1>9, <2>3 DEF ReadChunk, GoTo
    <3>2. /\ ComesAfter(delivered', 0) /\ Len(delivered') <= StreamLength
          /\ Len(Chunk) \in 1..kDataChunk /\ Len(delivered) \in Nat
          /\ Len(delivered') = Len(delivered) + Len(Chunk)
          /\ ComesAfter(Chunk, Len(delivered))
      BY <2>1, <2>3, ReadBytesProperties DEF TypeOK
    <3>3. /\ Len(data') \in 1..Len(delivered') /\ Len(delivered') - Len(data') = Len(delivered)
      BY <3>1, <3>2, Sizes
    <3>4. Sent' = Sent
      BY <2>1, <2>2, <3>1, <3>3 DEF Sent, Unsent
    <3>5. Carried(Sent)'
      BY <2>1, <3>4, NothingSent
    <3>. QED BY <3>1, <3>2, <3>3, <3>5 DEF Content
  <2>4. CASE ended' # "no"
    <3>1. ended' = "eof" /\ delivered' = delivered
      BY <2>1, <2>4, ReadBytesProperties
    <3>2. main' = "done" /\ data' = data
      BY <1>9, <2>4 DEF ReadChunk, GoTo
    <3>3. Sent' = Sent
      BY <2>1, <2>2, <3>1, <3>2 DEF Sent, Unsent, TypeOK
    <3>4. Carried(Sent)'
      BY <2>1, <3>3, NothingSent
    <3>. QED BY <3>1, <3>2, <3>4 DEF Content
  <2>. QED BY <2>3, <2>4
<1>10. CASE SourceFails
  BY <1>10, <1>b DEF SourceFails, Source!Fail
<1>11. CASE OpenAnnotations
  <2>1. Same /\ Quiet /\ UNCHANGED main /\ reader = "open" /\ reader' \in {"open", "read"}
    BY <1>11 DEF OpenAnnotations, Reader, Abort
  <2>. QED BY <1>c, <2>1
<1>12. CASE ReadResponse
  <2>1. Same /\ Quiet /\ UNCHANGED main /\ reader = "read" /\ reader' = "process"
    BY <1>12 DEF ReadResponse, Reader, Receive
  <2>. QED BY <1>c, <2>1
<1>13. CASE ProcessResponse
  BY <1>13, <1>c DEF ProcessResponse, Reader
<1>14. CASE ReadEnds
  BY <1>14, <1>c DEF ReadEnds, Reader
<1>15. CASE JoinPlayer
  BY <1>15, <1>c DEF JoinPlayer, Reader
<1>16. CASE OpenPlayer
  BY <1>16, <1>b DEF OpenPlayer
<1>17. CASE stream_callback
  BY <1>17, <1>b DEF stream_callback
<1>18. CASE PlayerEnds
  BY <1>18, <1>b DEF PlayerEnds
<1>19. CASE (Server \/ RpcFails) /\ UNCHANGED client
  <2>1. PICK sent \in Int : sent = Sent
    BY SentInt
  <2>2. Carried(sent) /\ RpcTypeOK(0..StreamLength)
    BY <2>1 DEF Content, TypeOK
  <2>3. Carried(sent)'
    BY <1>19, <2>2, Sizes, ServiceCarried
  <2>4. Sent' = Sent
    BY <1>19 DEF Sent, Unsent
  <2>5. Carried(Sent)'
    BY <2>1, <2>3, <2>4 DEF Carried
  <2>. QED BY <1>19, <2>5 DEF Content
<1>20. CASE UNCHANGED vars
  BY <1>20, <1>b DEF vars
<1>. QED
  BY <1>1, <1>2, <1>3, <1>4, <1>5, <1>6, <1>7, <1>8, <1>9, <1>10, <1>11, <1>12, <1>13,
     <1>14, <1>15, <1>16, <1>17, <1>18, <1>19, <1>20
  DEF Next, MainThread, ReaderThread, PlayerThread

LEMMA NextLocalCopy ==
  ASSUME TypeOK, MainControl, Content, LocalCopy, [Next]_vars
  PROVE  LocalCopy'
<1>. SUFFICES ASSUME "local_storage_video" \in flags, "local_storage_video" \in flags'
              PROVE  ComesAfter(video_file, 0)' /\ (Len(video_file) = Len(delivered) - Unstored)'
  <2>1. UNCHANGED flags
    BY DEF Next, MainThread, ReaderThread, PlayerThread, Connect, SendConfig, OpenContent,
       WriteChunk, StoreChunk, WritesDone, JoinReader, Finish, ReadChunk, SourceFails,
       OpenAnnotations, ReadResponse, ProcessResponse, ReadEnds, JoinPlayer, OpenPlayer,
       stream_callback, PlayerEnds, client, vars
  <2>. QED BY <2>1 DEF LocalCopy
<1>. USE DEF source, sender, receiver, playing, queues, files, client
<1>0. ComesAfter(video_file, 0) /\ Len(video_file) = Len(delivered) - Unstored
  BY DEF LocalCopy
<1>a. ASSUME UNCHANGED <<video_file, delivered, data, ended, main>>
      PROVE  ComesAfter(video_file, 0)' /\ (Len(video_file) = Len(delivered) - Unstored)'
  BY <1>0, <1>a DEF Unstored, ComesAfter
<1>b. ASSUME UNCHANGED <<video_file, delivered, data, ended>>,
             main \in {"write", "store"} <=> main' \in {"write", "store"}
      PROVE  ComesAfter(video_file, 0)' /\ (Len(video_file) = Len(delivered) - Unstored)'
  BY <1>0, <1>b DEF Unstored, ComesAfter
<1>1. CASE Connect
  BY <1>1, <1>b DEF Connect, Main, GoTo, Return
<1>2. CASE SendConfig
  BY <1>2, <1>b DEF SendConfig, Main, GoTo, Return
<1>3. CASE OpenContent
  BY <1>3, <1>b DEF OpenContent, Main, GoTo
<1>4. CASE WriteChunk
  <2>1. /\ main = "write" /\ UNCHANGED <<video_file, delivered, data>>
        /\ main' \in {"write", "store"} \/ ended' = "gaveup"
    BY <1>4 DEF WriteChunk, Main, GoTo, Source!GiveUp
  <2>. QED BY <1>0, <2>1 DEF Unstored, ComesAfter
<1>5. CASE StoreChunk
  <2>1. /\ main = "store" /\ main' = "read" /\ ended = "no" /\ ended' = "no"
        /\ video_file' = video_file \o data /\ UNCHANGED <<delivered, data>>
    BY <1>5 DEF StoreChunk, Main, GoTo, MainControl
  <2>2. /\ Len(video_file) = Len(delivered) - Len(data)
        /\ ComesAfter(data, Len(delivered) - Len(data))
        /\ video_file \in Seq(Bytes) /\ data \in Seq(Bytes)
        /\ Len(delivered) \in Nat /\ Len(data) \in Nat /\ Len(video_file) \in Nat
    BY <1>0, <2>1 DEF Unstored, Content, TypeOK
  <2>3. /\ Len(video_file') = Len(video_file) + Len(data)
        /\ ComesAfter(video_file', 0)
    <3>1. /\ video_file \in Seq(Bytes) /\ data \in Seq(Bytes) /\ Len(video_file) \in Int
          /\ ComesAfter(video_file, 0) /\ ComesAfter(data, Len(video_file))
      BY <1>0, <2>2
    <3>2. Len(video_file) = 0 + Len(video_file)
      BY <3>1
    <3>3. /\ Len(video_file \o data) = Len(video_file) + Len(data)
          /\ ComesAfter(video_file \o data, 0)
      BY <3>1, <3>2, ComesAfterConcat
    <3>. QED BY <2>1, <3>3
  <2>. QED BY <2>1, <2>2, <2>3 DEF Unstored
<1>6. CASE WritesDone
  BY <1>6, <1>b DEF WritesDone, Main, GoTo
<1>7. CASE JoinReader
  BY <1>7, <1>b DEF JoinReader, Main, GoTo
<1>8. CASE Finish
  BY <1>8, <1>b DEF Finish, Main, Return
<1>9. CASE ReadChunk
  <2>1. /\ main = "read" /\ ReadBytes /\ UNCHANGED files
        /\ main' = IF ended' = "no" THEN "write" ELSE "done"
        /\ data' = IF ended' = "no" THEN Chunk ELSE data
    BY <1>9 DEF ReadChunk, Main, GoTo
  <2>2. ended = "no" /\ Len(video_file) = Len(delivered) /\ Len(delivered) \in Nat
    BY <1>0, <2>1, ReadBytesProperties DEF Unstored, TypeOK
  <2>3. CASE ended' = "no"
    <3>1. Len(Chunk) \in Nat /\ Len(delivered') = Len(delivered) + Len(Chunk)
      BY <2>1, <2>3, Sizes, ReadBytesProperties
    <3>2. Unstored' = Len(Chunk)
      BY <2>1, <2>3 DEF Unstored
    <3>. QED BY <1>0, <2>1, <2>2, <3>1, <3>2 DEF ComesAfter
  <2>4. CASE ended' # "no"
    <3>1. delivered' = delivered /\ ended' = "eof"
      BY <2>1, <2>4, ReadBytesProperties
    <3>2. Unstored' = 0
      BY <2>1, <3>1 DEF Unstored
    <3>. QED BY <1>0, <2>1, <2>2, <3>1, <3>2 DEF ComesAfter
  <2>. QED BY <2>3, <2>4
<1>10. CASE SourceFails
  BY <1>10, <1>a DEF SourceFails, Source!Fail
<1>11. CASE OpenAnnotations
  BY <1>11, <1>a DEF OpenAnnotations
<1>12. CASE ReadResponse
  BY <1>12, <1>a DEF ReadResponse
<1>13. CASE ProcessResponse
  BY <1>13, <1>a DEF ProcessResponse
<1>14. CASE ReadEnds
  BY <1>14, <1>a DEF ReadEnds
<1>15. CASE JoinPlayer
  BY <1>15, <1>a DEF JoinPlayer
<1>16. CASE OpenPlayer
  BY <1>16, <1>a DEF OpenPlayer
<1>17. CASE stream_callback
  BY <1>17, <1>a DEF stream_callback
<1>18. CASE PlayerEnds
  BY <1>18, <1>a DEF PlayerEnds
<1>19. CASE (Server \/ RpcFails) /\ UNCHANGED client
  BY <1>19, <1>a
<1>20. CASE UNCHANGED vars
  BY <1>20, <1>a DEF vars
<1>. QED
  BY <1>1, <1>2, <1>3, <1>4, <1>5, <1>6, <1>7, <1>8, <1>9, <1>10, <1>11, <1>12, <1>13,
     <1>14, <1>15, <1>16, <1>17, <1>18, <1>19, <1>20
  DEF Next, MainThread, ReaderThread, PlayerThread

LEMMA NextFedInOrder ==
  ASSUME TypeOK, FedInOrder, [Next]_vars
  PROVE  FedInOrder'
<1>. USE DEF source, sender, receiver, playing, queues, files, client
<1>a. ASSUME UNCHANGED <<flags, stream_queue, played, delivered>>
      PROVE  FedInOrder'
  BY <1>a DEF FedInOrder
<1>1. CASE ReadChunk
  <2>1. ReadBytes /\ UNCHANGED <<flags, played>>
    BY <1>1 DEF ReadChunk
  <2>2. CASE ended' = "no" /\ "enable_player" \in flags
    <3>. DEFINE p == [i \in 1..num_chunks(Chunk) |-> Piece(Chunk, i - 1)]
    <3>1. stream_queue' = stream_queue \o p
      BY <1>1, <2>2 DEF ReadChunk, InsertStreamData
    <3>2. /\ Chunk \in Seq(Bytes) /\ Len(Chunk) > 0 /\ Len(Chunk) \in Nat
          /\ ComesAfter(Chunk, Len(delivered))
          /\ Len(delivered') = Len(delivered) + Len(Chunk)
      BY <2>1, <2>2, Sizes, ReadBytesProperties
    <3>3. Len(delivered) \in Int /\ Len(played) \in Int /\ stream_queue \in Seq(Seq(Bytes))
          /\ Len(delivered) + Len(Chunk) \in Int
      BY <3>2 DEF TypeOK
    <3>4. /\ p \in Seq(Seq(Bytes))
          /\ \A k \in 1..Len(p) : Len(p[k]) \in 1..kMaxStreamBufferSize
          /\ Chain(p, Len(delivered), Len(delivered) + Len(Chunk))
      BY <3>2, <3>3, Sizes, PiecesProperties
    <3>. HIDE DEF p
    <3>5. Chain(stream_queue, Len(played), Len(delivered)) /\ ComesAfter(played, 0)
      BY <2>2 DEF FedInOrder
    <3>6. Chain(stream_queue \o p, Len(played), Len(delivered) + Len(Chunk))
      BY <3>3, <3>4, <3>5, Sizes, ChainConcat
    <3>7. Chain(stream_queue', Len(played'), Len(delivered')) /\ ComesAfter(played', 0)
      BY <2>1, <3>1, <3>2, <3>5, <3>6
    <3>8. \A k \in 1..Len(stream_queue') : Len(stream_queue'[k]) \in 1..kMaxStreamBufferSize
      <4>1. /\ Len(stream_queue') = Len(stream_queue) + Len(p)
            /\ \A k \in 1..Len(stream_queue) + Len(p) :
                  stream_queue'[k] = IF k <= Len(stream_queue) THEN stream_queue[k]
                                     ELSE p[k - Len(stream_queue)]
        BY <3>1, <3>3, <3>4, ConcatProperties
      <4>2. ASSUME NEW k \in 1..Len(stream_queue')
            PROVE  Len(stream_queue'[k]) \in 1..kMaxStreamBufferSize
        <5>1. CASE k <= Len(stream_queue)
          <6>1. k \in 1..Len(stream_queue)
            BY <3>3, <5>1
          <6>. QED BY <2>2, <4>1, <5>1, <6>1 DEF FedInOrder
        <5>2. CASE ~(k <= Len(stream_queue))
          <6>1. k - Len(stream_queue) \in 1..Len(p)
            BY <3>3, <3>4, <4>1, <5>2
          <6>. QED BY <3>4, <4>1, <5>2, <6>1
        <5>. QED BY <5>1, <5>2
      <4>. QED BY <4>2
    <3>. QED BY <3>7, <3>8 DEF FedInOrder
  <2>3. CASE "enable_player" \notin flags
    BY <2>1, <2>3 DEF FedInOrder
  <2>4. CASE ended' # "no"
    <3>1. UNCHANGED <<stream_queue, delivered>>
      BY <1>1, <2>1, <2>4, ReadBytesProperties DEF ReadChunk
    <3>. QED BY <1>a, <2>1, <3>1
  <2>. QED BY <2>2, <2>3, <2>4
<1>2. CASE stream_callback
  <2>. SUFFICES ASSUME "enable_player" \in flags PROVE FedInOrder'
    BY <1>2 DEF stream_callback, FedInOrder
  <2>1. /\ stream_queue # <<>> /\ stream_queue' = Tail(stream_queue)
        /\ UNCHANGED <<flags, delivered>>
    BY <1>2 DEF stream_callback
  <2>2. /\ Len(delivered) \in Int /\ Len(played) \in Int /\ stream_queue \in Seq(Seq(Bytes))
        /\ played \in Seq(Bytes)
    BY DEF TypeOK
  <2>3. /\ Head(stream_queue) \in Seq(Bytes)
        /\ ComesAfter(Head(stream_queue), Len(played))
        /\ stream_queue' \in Seq(Seq(Bytes)) /\ Len(stream_queue') = Len(stream_queue) - 1
        /\ Chain(stream_queue', Len(played) + Len(Head(stream_queue)), Len(delivered))
    BY <2>1, <2>2, Sizes, ChainTail DEF FedInOrder
  <2>4. \A k \in 1..Len(stream_queue) : Len(stream_queue[k]) \in 1..kMaxStreamBufferSize
    BY DEF FedInOrder
  <2>5. played' = played \o Head(stream_queue)
    <3>1. 1 \in 1..Len(stream_queue) /\ Head(stream_queue) = stream_queue[1]
      BY <2>1, <2>2, EmptySeq
    <3>2. ~(Len(Head(stream_queue)) > kMaxStreamBufferSize)
      BY <2>4, <3>1, Sizes
    <3>. QED BY <1>2, <3>2 DEF stream_callback
  <2>6. /\ Len(played') = Len(played) + Len(Head(stream_queue))
        /\ ComesAfter(played', 0)
    <3>1. 0 + Len(played) = Len(played) /\ ComesAfter(played, 0)
      BY <2>2 DEF FedInOrder
    <3>. QED BY <2>2, <2>3, <2>5, <3>1, ComesAfterConcat
  <2>7. ASSUME NEW k \in 1..Len(stream_queue')
        PROVE  Len(stream_queue'[k]) \in 1..kMaxStreamBufferSize
    <3>1. k + 1 \in 1..Len(stream_queue)
      BY <2>2, <2>3
    <3>2. stream_queue'[k] = stream_queue[k + 1]
      BY <2>1, <2>2, <2>3, EmptySeq, HeadTailProperties
    <3>. QED BY <2>4, <3>1, <3>2
  <2>. QED BY <2>1, <2>3, <2>6, <2>7 DEF FedInOrder
<1>3. CASE MainThread
  BY <1>3, <1>a DEF MainThread, Connect, SendConfig, OpenContent, WriteChunk, StoreChunk,
     WritesDone, JoinReader, Finish, Source!GiveUp
<1>4. CASE ReaderThread
  BY <1>4, <1>a DEF ReaderThread, OpenAnnotations, ReadResponse, ProcessResponse, ReadEnds,
     JoinPlayer
<1>5. CASE OpenPlayer \/ PlayerEnds
  BY <1>5, <1>a DEF OpenPlayer, PlayerEnds
<1>6. CASE SourceFails
  BY <1>6, <1>a DEF SourceFails, Source!Fail
<1>7. CASE (Server \/ RpcFails) /\ UNCHANGED client
  BY <1>7, <1>a
<1>8. CASE UNCHANGED vars
  BY <1>8, <1>a DEF vars
<1>. QED
  BY <1>1, <1>2, <1>3, <1>4, <1>5, <1>6, <1>7, <1>8 DEF Next, PlayerThread

LEMMA NextAnnotations ==
  ASSUME TypeOK, MainControl, ReaderControl, Annotations, [Next]_vars
  PROVE  Annotations'
<1>. USE DEF source, sender, receiver, playing, queues, files, client
<1>. DEFINE File == "local_storage_annotation_result" \in flags
<1>0. /\ Len(in) \in Nat /\ Len(answers) \in Nat
      /\ annotation_file \in Seq(Responses) /\ RpcTypeOK(0..StreamLength)
  BY DEF TypeOK, RpcTypeOK
<1>a. ASSUME UNCHANGED <<flags, reader, resp, annotation_file, rpc, in, answers>>
      PROVE  Annotations'
  BY <1>a DEF Annotations, Taken, Processed, InFlight
\* The reader thread goes on and processes nothing.
<1>b. ASSUME UNCHANGED <<flags, annotation_file, rpc, in, answers>>,
             reader # "process", reader' # "process"
      PROVE  Annotations'
  <2>1. Taken' = Taken /\ Processed' = Processed /\ (InFlight(Taken)' <=> InFlight(Taken))
    BY <1>b DEF Taken, Processed, InFlight
  <2>. QED BY <1>b, <2>1 DEF Annotations
<1>1. CASE Connect
  <2>1. /\ reader = "none" /\ rpc = "none" /\ rpc' \in {"running", "failed"}
        /\ UNCHANGED <<flags, receiver, files, in, answers>>
    BY <1>1 DEF Connect, Main, MainControl, service
  <2>2. CASE rpc' = "failed"
    BY <2>2 DEF Annotations
  <2>3. CASE rpc' = "running"
    <3>1. Taken' = Taken /\ Processed' = Processed /\ Taken + Len(in) = Len(answers)
      BY <1>0, <2>1 DEF Taken, Processed
    <3>2. InFlight(Taken)' <=> InFlight(Taken)
      BY <1>0, <2>1, <2>3, <3>1 DEF InFlight
    <3>. QED BY <2>1, <3>1, <3>2 DEF Annotations
  <2>. QED BY <2>1, <2>2, <2>3
<1>2. CASE SendConfig
  <2>1. /\ reader = "none" /\ reader' \in {"none", "open"}
        /\ UNCHANGED <<flags, files, rpc, in, answers>>
    BY <1>2 DEF SendConfig, Main, MainControl, Send, wire, service
  <2>. QED BY <1>b, <2>1
<1>3. CASE OpenContent \/ StoreChunk \/ JoinReader \/ Finish \/ ReadChunk \/ SourceFails
  BY <1>3, <1>a DEF OpenContent, StoreChunk, JoinReader, Finish, ReadChunk, SourceFails,
     wire, service
<1>4. CASE WriteChunk \/ WritesDone
  BY <1>4, <1>a DEF WriteChunk, WritesDone, Send, HalfClose, wire, service
<1>5. CASE OpenAnnotations
  BY <1>5, <1>b DEF OpenAnnotations, Reader, wire, service
<1>6. CASE ReadResponse
  <2>. SUFFICES ASSUME rpc # "failed", rpc' = rpc PROVE Annotations'
    BY <1>6 DEF ReadResponse, Receive, Annotations
  <2>1. PICK r \in Responses : Receive(r) /\ resp' = r
    BY <1>6 DEF ReadResponse
  <2>2. /\ reader = "read" /\ reader' = "process"
        /\ UNCHANGED <<flags, files, answers>>
    BY <1>6 DEF ReadResponse, Reader, service
  <2>3. PICK n \in Nat : n = Taken /\ InFlight(n)
    BY DEF Annotations
  <2>4. /\ InFlight(n + 1)' /\ n + 1 \in 1..Len(answers) /\ r = answers[n + 1]
        /\ Len(in') = Len(in) - 1
    BY <1>0, <2>1, <2>2, <2>3, ReceiveInFlight
  <2>5. Taken' = n + 1 /\ n + 1 \in Nat /\ n + 1 > 0
    BY <1>0, <2>2, <2>3, <2>4 DEF Taken
  <2>6. Processed' = n /\ Processed = n
    BY <2>2, <2>3, <2>5 DEF Processed
  <2>7. InFlight(Taken)'
    BY <2>4, <2>5 DEF InFlight
  <2>8. resp' = answers'[Taken']
    BY <2>1, <2>2, <2>4, <2>5
  <2>9. File => WithoutErrors(annotation_file, answers, n)
    BY <2>6 DEF Annotations
  <2>10. File' => WithoutErrors(annotation_file, answers, Processed)'
    BY <2>2, <2>6, <2>9
  <2>. QED BY <2>5, <2>7, <2>8, <2>10 DEF Annotations
<1>7. CASE ProcessResponse
  <2>. SUFFICES ASSUME rpc # "failed" PROVE Annotations'
    BY <1>7 DEF ProcessResponse, wire, Annotations
  <2>1. /\ reader = "process" /\ reader' = "read"
        /\ UNCHANGED <<flags, rpc, in, answers>>
        /\ annotation_file' = IF resp # "error" /\ File
                              THEN Append(annotation_file, resp) ELSE annotation_file
    BY <1>7 DEF ProcessResponse, Reader, wire, service
  <2>2. /\ Taken \in Nat /\ Taken > 0 /\ resp = answers[Taken] /\ resp \in Responses
        /\ InFlight(Taken)
        /\ File => WithoutErrors(annotation_file, answers, Processed)
    BY <2>1 DEF Annotations, ReaderControl
  <2>3. Taken' = Taken /\ Processed = Taken - 1 /\ Processed' = Taken
    BY <2>1 DEF Taken, Processed
  <2>4. InFlight(Taken)'
    BY <2>1, <2>2, <2>3 DEF InFlight
  <2>5. ASSUME File PROVE WithoutErrors(annotation_file', answers, Taken)
    <3>. DEFINE n == Taken - 1
    <3>1. n \in Nat /\ n + 1 = Taken /\ WithoutErrors(annotation_file, answers, n)
      BY <2>2, <2>3, <2>5
    <3>. HIDE DEF n
    <3>2. CASE resp = "error"
      <4>1. Len(annotation_file) \in Nat
        BY <1>0
      <4>2. answers[n + 1] = "error"
        BY <2>2, <3>1, <3>2
      <4>3. WithoutErrors(annotation_file, answers, n + 1)
        BY <3>1, <4>1, <4>2, WithoutErrorsSkip
      <4>. QED BY <2>1, <3>1, <3>2, <4>3
    <3>3. CASE resp # "error"
      <4>1. WithoutErrors(Append(annotation_file, resp), answers, n + 1)
        BY <1>0, <2>2, <3>1, <3>3, WithoutErrorsAppend
      <4>. QED BY <2>1, <2>5, <3>1, <3>3, <4>1
    <3>. QED BY <3>2, <3>3
  <2>6. File' => WithoutErrors(annotation_file, answers, Processed)'
    BY <2>1, <2>3, <2>5
  <2>. QED BY <2>1, <2>2, <2>3, <2>4, <2>6 DEF Annotations
<1>8. CASE ReadEnds
  BY <1>8, <1>b DEF ReadEnds, Reader, wire, service
<1>9. CASE JoinPlayer
  BY <1>9, <1>b DEF JoinPlayer, Reader, wire, service
<1>10. CASE PlayerThread
  BY <1>10, <1>a DEF PlayerThread, OpenPlayer, stream_callback, PlayerEnds, wire, service
<1>11. CASE Server /\ UNCHANGED client
  <2>. SUFFICES ASSUME rpc # "failed" PROVE Annotations'
    BY <1>11 DEF Server, ServerReceives, ServerAnswers, ServerEnds
  <2>1. PICK n \in Nat : n = Taken /\ InFlight(n)
    BY DEF Annotations
  <2>2. /\ InFlight(n)'
        /\ Len(answers') - Len(in') = Len(answers) - Len(in)
        /\ Len(answers) <= Len(answers')
        /\ \A i \in 1..Len(answers) : answers'[i] = answers[i]
    BY <1>0, <1>11, <2>1, ServiceInFlight
  <2>3. Taken' = n /\ Processed' = Processed /\ UNCHANGED <<flags, reader, resp, annotation_file>>
    BY <1>11, <2>1, <2>2 DEF Taken, Processed
  <2>4. InFlight(Taken)'
    BY <2>2, <2>3 DEF InFlight
  <2>5. n <= Len(answers)
    BY <1>0, <2>1 DEF Taken
  <2>6. reader' = "process" => Taken' > 0 /\ resp' = answers'[Taken']
    <3>1. SUFFICES ASSUME reader = "process" PROVE n > 0 /\ resp = answers'[n]
      BY <2>3
    <3>2. n > 0 /\ resp = answers[n]
      BY <2>1, <3>1 DEF Annotations
    <3>. QED BY <1>0, <2>2, <2>5, <3>2
  <2>7. ASSUME File PROVE WithoutErrors(annotation_file, answers', Processed)
    <3>1. Processed \in Nat /\ Processed <= Len(answers)
      BY <1>0, <2>1, <2>5 DEF Processed, Annotations
    <3>2. \A i \in 1..Processed : answers'[i] = answers[i]
      BY <1>0, <2>2, <3>1
    <3>3. WithoutErrors(annotation_file, answers, Processed)
      BY <2>7 DEF Annotations
    <3>. QED BY <1>0, <3>1, <3>2, <3>3, WithoutErrorsPrefix
  <2>8. File' => WithoutErrors(annotation_file, answers, Processed)'
    BY <2>3, <2>7
  <2>. QED BY <2>3, <2>4, <2>6, <2>8 DEF Annotations
<1>12. CASE RpcFails /\ UNCHANGED client
  BY <1>12 DEF RpcFails, Annotations
<1>13. CASE UNCHANGED vars
  BY <1>13, <1>a DEF vars, wire, service
<1>. QED
  BY <1>1, <1>2, <1>3, <1>4, <1>5, <1>6, <1>7, <1>8, <1>9, <1>10, <1>11, <1>12, <1>13
  DEF Next, MainThread, ReaderThread

LEMMA NextIndInv == IndInv /\ [Next]_vars => IndInv'
BY NextTypeOK, NextMainControl, NextReaderControl, NextContent, NextLocalCopy,
   NextFedInOrder, NextAnnotations DEF IndInv

\* The invariant that the others follow from.
THEOREM Invariance == Spec => []IndInv
<1>1. Init => IndInv
  BY InitIndInv
<1>2. IndInv /\ [Next]_vars => IndInv'
  BY NextIndInv
<1>. QED BY <1>1, <1>2, PTL DEF Spec

\* Types, and the windows of the call.
THEOREM TypeCorrectness == Spec => []TypeOK
<1>1. IndInv => TypeOK
  BY DEF IndInv
<1>. QED BY <1>1, Invariance, PTL

LEMMA SentBySuccess == IndInv => TrueMeansSent
<1>. SUFFICES ASSUME IndInv, result = "true"
              PROVE  received = <<Config>> \o delivered /\ (failed \/ delivered = Video)
  BY DEF TrueMeansSent
<1>1. rpc = "ok" /\ main = "ended" /\ reader = "ended"
  BY DEF IndInv, MainControl
<1>2. half_closed /\ Len(received) - 1 = Sent /\ ComesAfter(received, -1)
  BY <1>1 DEF IndInv, Content, Carried
<1>3. ended = "eof" /\ (failed \/ delivered = Video)
  BY <1>2 DEF IndInv, MainControl
<1>4. Sent = Len(delivered)
  BY <1>1, <1>3 DEF Sent, Unsent, IndInv, TypeOK
<1>5. /\ received \in Seq(0..StreamLength) /\ delivered \in Seq(Bytes)
      /\ Len(received) \in Nat /\ Len(delivered) \in Nat
  BY DEF IndInv, TypeOK, RpcTypeOK
<1>6. delivered \in Seq(0..StreamLength) /\ ComesAfter(delivered, 0)
  <2>1. Seq(Bytes) \subseteq Seq(0..StreamLength)
    BY Sizes, SeqMonotonic
  <2>. QED BY <1>5, <2>1 DEF IndInv, Content
<1>. DEFINE s == <<Config>> \o delivered
<1>7. s \in Seq(0..StreamLength) /\ Len(s) = Len(delivered) + 1 /\ ComesAfter(s, -1)
  BY <1>6, Sizes, ConfigFirst
<1>. HIDE DEF s
<1>8. Len(received) = Len(s)
  BY <1>2, <1>4, <1>5, <1>7
<1>9. PICK n \in Int : n = -1
  OBVIOUS
<1>10. received = s
  BY <1>2, <1>5, <1>7, <1>8, <1>9, ComesAfterUnique
<1>. QED BY <1>3, <1>10 DEF s

\* Run returns true only when the service has taken the configuration and all that was
\* read, which is the whole video unless the source failed.
THEOREM TrueMeansSentAlways == Spec => []TrueMeansSent
<1>1. IndInv => TrueMeansSent
  BY SentBySuccess
<1>. QED BY <1>1, Invariance, PTL

\* The local copy has all the content that has reached the service, but for the chunk
\* that is about to be stored.
THEOREM LocalCopyIsFaithfulAlways == Spec => []LocalCopyIsFaithful
<1>1. IndInv => LocalCopyIsFaithful
  <2>. SUFFICES ASSUME IndInv, "local_storage_video" \in flags
                PROVE  /\ IsPrefix(video_file, delivered)
                       /\ Len(delivered) > Len(video_file) =>
                              main \in {"write", "store"} \/ ended = "gaveup"
                       /\ main # "store" => Len(received) <= Len(video_file) + 1
                       /\ result = "true" => video_file = delivered
    BY DEF LocalCopyIsFaithful
  <2>1. /\ ComesAfter(video_file, 0) /\ Len(video_file) = Len(delivered) - Unstored
        /\ ComesAfter(delivered, 0)
        /\ main \in {"write", "store"} \/ ended = "gaveup" => Len(data) \in 1..Len(delivered)
        /\ Len(received) - 1 <= Sent
    BY DEF IndInv, LocalCopy, Content, Carried
  <2>2. /\ video_file \in Seq(Bytes) /\ delivered \in Seq(Bytes)
        /\ Len(video_file) \in Nat /\ Len(delivered) \in Nat /\ Len(data) \in Nat
        /\ Len(received) \in Nat
    BY DEF IndInv, TypeOK, RpcTypeOK
  <2>3. Len(video_file) <= Len(delivered)
    BY <2>1, <2>2 DEF Unstored
  <2>4. IsPrefix(video_file, delivered)
    BY <2>1, <2>2, <2>3 DEF IsPrefix, ComesAfter
  <2>5. Len(delivered) > Len(video_file) => main \in {"write", "store"} \/ ended = "gaveup"
    BY <2>1, <2>2 DEF Unstored
  <2>6. main # "store" => Len(received) <= Len(video_file) + 1
    BY <2>1, <2>2 DEF Unstored, Sent, Unsent
  <2>7. ASSUME result = "true" PROVE video_file = delivered
    <3>1. rpc = "ok" /\ main = "ended"
      BY <2>7 DEF IndInv, MainControl
    <3>2. half_closed
      BY <3>1 DEF IndInv, Content, Carried
    <3>3. ended = "eof"
      BY <3>2 DEF IndInv, MainControl
    <3>4. Len(video_file) = Len(delivered)
      BY <2>1, <2>2, <3>1, <3>3 DEF Unstored
    <3>. QED BY <2>1, <2>2, <3>4, ComesAfterUnique
  <2>. QED BY <2>4, <2>5, <2>6, <2>7
<1>. QED BY <1>1, Invariance, PTL

\* Run returns true only when every response but the errors has been stored, in order.
THEOREM AnnotationsAreCompleteAlways == Spec => []AnnotationsAreComplete
<1>1. IndInv => AnnotationsAreComplete
  <2>. SUFFICES ASSUME IndInv, result = "true", "local_storage_annotation_result" \in flags
                PROVE  WithoutErrors(annotation_file, answers, Len(answers))
    BY DEF AnnotationsAreComplete
  <2>1. rpc = "ok" /\ reader = "ended"
    BY DEF IndInv, MainControl
  <2>2. in = <<>> /\ Len(in) = 0
    BY <2>1 DEF IndInv, ReaderControl
  <2>3. Processed = Len(answers)
    BY <2>1, <2>2 DEF Processed, Taken, IndInv, TypeOK, RpcTypeOK
  <2>. QED BY <2>1, <2>3 DEF IndInv, Annotations
<1>. QED BY <1>1, Invariance, PTL

\* The player that the client deletes when Run returns is in nobody's hands.
THEOREM PlayerOutlivedAlways == Spec => []PlayerOutlived
<1>1. IndInv => PlayerOutlived
  BY DEF IndInv, MainControl, ReaderControl, PlayerOutlived
<1>. QED BY <1>1, Invariance, PTL

\* An annotation of some content finds the player with something to open.
THEOREM PlayerFindsVideoAlways == Spec => []PlayerFindsVideo
<1>1. IndInv => PlayerFindsVideo
  <2>. SUFFICES ASSUME IndInv, player = "open", stream_queue = <<>>,
                       NEW i \in 1..Len(answers)
                PROVE  answers[i] # "result"
    BY DEF PlayerFindsVideo, Player
  <2>1. "enable_player" \in flags /\ played = <<>>
    BY DEF IndInv, ReaderControl
  <2>2. Chain(<<>>, 0, Len(delivered)) /\ Len(delivered) \in Int
    BY <2>1 DEF IndInv, FedInOrder, TypeOK
  <2>3. Len(delivered) = 0
    BY <2>2, ChainEmpty
  <2>4. Len(received) - 1 <= Sent /\ Len(received) \in Nat /\ Len(data) \in Nat
    BY DEF IndInv, Content, Carried, TypeOK, RpcTypeOK
  <2>5. Len(received) <= 1
    BY <2>3, <2>4 DEF Sent, Unsent
  <2>6. answers[i] = "error"
    BY <2>5 DEF IndInv, Content, Carried
  <2>. QED BY <2>6
<1>. QED BY <1>1, Invariance, PTL

\* Nothing is in flight before the configuration is sent.
LEMMA NothingBeforeConfig == IndInv /\ main = "config" => StreamEnded \/ out = <<>>
<1>. SUFFICES ASSUME IndInv, main = "config", ~StreamEnded
              PROVE  out = <<>>
  OBVIOUS
<1>1. Sent = -1 /\ rpc = "running"
  BY DEF IndInv, TypeOK, RpcTypeOK, MainControl, Sent, StreamEnded
<1>2. /\ out \in Seq(Seq(0..StreamLength)) /\ Len(out) \in Nat
      /\ Len(received) - 1 \in Int /\ Len(received) - 1 >= -1
  BY DEF IndInv, TypeOK, RpcTypeOK
<1>3. Chain(out, Len(received) - 1, -1)
  BY <1>1 DEF IndInv, Content, Carried
<1>4. SUFFICES ASSUME Len(out) >= 1 PROVE FALSE
  BY <1>2, EmptySeq
<1>5. 1 \in 1..Len(out) /\ 1 \in 0..Len(out)
  BY <1>2, <1>4
<1>6. /\ Len(out[1]) > 0 /\ ComesAfter(out[1], Len(received) - 1)
      /\ out[1][Len(out[1])] <= -1
  BY <1>3, <1>5 DEF Chain, LastOf
<1>7. Len(out[1]) \in Nat
  BY <1>2, <1>5
<1>8. out[1][Len(out[1])] = Len(received) - 1 + Len(out[1])
  BY <1>6, <1>7 DEF ComesAfter
<1>. QED BY <1>2, <1>6, <1>7, <1>8

\* The client and the service are never all waiting for each other: a full window is
\* followed back to a thread, or to the service, that can go on.
THEOREM NeverStuckAlways == Spec => []NeverStuck
<1>1. IndInv => NeverStuck
  <2>. SUFFICES ASSUME IndInv, main \notin {"read", "ended"},
                       ~MainCanMove, ~ReaderCanMove, ~PlayerCanMove, ~ServerCanMove
                PROVE  FALSE
    BY DEF NeverStuck
  <2>1. main \in {"config", "write", "join", "finish"}
    BY DEF IndInv, TypeOK, MainCanMove
  <2>2. reader \in {"none", "ended"} \/ (reader = "read" /\ in = <<>>)
    BY DEF IndInv, TypeOK, ReaderCanMove, PlayerCanMove
  <2>3. rpc = "running" \/ StreamEnded
    BY <2>1 DEF IndInv, TypeOK, RpcTypeOK, MainControl, StreamEnded
  <2>4. CASE StreamEnded
    BY <2>1, <2>2, <2>4 DEF IndInv, MainControl, MainCanMove, ReaderCanMove
  <2>5. CASE rpc = "running" /\ main = "config"
    <3>1. out = <<>>
      BY <2>5, NothingBeforeConfig DEF StreamEnded
    <3>2. Len(out) < WindowOut
      BY <3>1, Windows
    <3>. QED BY <2>5, <3>2 DEF MainCanMove
  <2>6. CASE rpc = "running" /\ main # "config"
    <3>1. reader = "read" /\ in = <<>>
      BY <2>1, <2>2, <2>6 DEF IndInv, MainControl, ReaderControl, StreamEnded
    <3>2. Len(in) < WindowIn
      BY <3>1, Windows
    <3>3. out = <<>> /\ ~half_closed
      BY <2>6, <3>2 DEF ServerCanMove
    <3>4. main = "write"
      BY <2>1, <2>6, <3>1, <3>3 DEF IndInv, MainControl, StreamEnded
    <3>5. Len(out) < WindowOut
      BY <3>3, Windows
    <3>. QED BY <3>4, <3>5 DEF MainCanMove
  <2>. QED BY <2>3, <2>4, <2>5, <2>6
<1>. QED BY <1>1, Invariance, PTL

\* ffmpeg gets the video without a gap, in pieces that fit its buffer.
THEOREM FedInOrderAlways == Spec => []FedInOrder
<1>1. IndInv => FedInOrder
  BY DEF IndInv
<1>. QED BY <1>1, Invariance, PTL

-------------------------------------------------------------------------------
\* The client implements AnnotateVideo.

LEMMA AbstractInit == Init => Abstract!Init
BY DEF Init, RpcInit, Abstract!Init

\* The service takes a part of the stream that is longer than before.
LEMMA ServerReceivesIsReceive ==
  ASSUME IndInv, IndInv', ServerReceives, UNCHANGED client
  PROVE  Abstract!Receive
<1>1. /\ rpc = "running" /\ out # <<>> /\ received' = received \o Head(out)
      /\ UNCHANGED <<delivered, failed, aborted, result>>
  BY DEF ServerReceives, client, source, sender
<1>2. result = "none"
  BY <1>1 DEF IndInv, MainControl, StreamEnded
<1>3. /\ received \in Seq(0..StreamLength) /\ received' \in Seq(0..StreamLength)
      /\ out \in Seq(Seq(0..StreamLength))
      /\ Len(received) \in Nat /\ Len(received') \in Nat /\ Len(received) - 1 \in Int
      /\ Len(delivered) \in Nat /\ Len(delivered) <= StreamLength
  <2>1. /\ received \in Seq(0..StreamLength) /\ out \in Seq(Seq(0..StreamLength))
        /\ delivered \in Seq(Bytes) /\ received' \in Seq(0..StreamLength)
    BY DEF IndInv, TypeOK, RpcTypeOK
  <2>2. Len(delivered) <= StreamLength
    BY DEF IndInv, Content
  <2>. QED BY <2>1, <2>2, LenProperties
<1>4. Chain(out, Len(received) - 1, Sent) /\ Sent \in Int
  BY <1>1, SentInt DEF IndInv, Content, Carried
<1>5. Head(out) \in Seq(0..StreamLength) /\ Len(Head(out)) > 0
  BY <1>1, <1>3, <1>4, Sizes, ChainTail
<1>6. Len(received') = Len(received) + Len(Head(out))
  BY <1>1, <1>3, <1>5, ConcatProperties
<1>7. /\ ComesAfter(received', -1)
      /\ Len(received') - 1 <= Len(delivered)
  <2>1. ComesAfter(received', -1) /\ Len(received') - 1 <= Sent'
    BY DEF IndInv, Content, Carried
  <2>2. Sent' <= Len(delivered') /\ Sent' \in Int
    <3>1. (Len(data) \in Nat /\ Len(delivered) \in Nat)'
      BY DEF IndInv, TypeOK
    <3>. QED BY <3>1 DEF Sent, Unsent
  <2>. QED BY <1>1, <1>3, <2>1, <2>2
<1>. DEFINE n == Len(received')
            m == Len(delivered)
<1>8. n \in Len(received) + 1..m + 1 /\ m \in 0..StreamLength
  <2>1. Len(Head(out)) \in Nat
    BY <1>5
  <2>. QED BY <1>3, <1>5, <1>6, <1>7, <2>1, Sizes
<1>9. received' = SubSeq(Abstract!Stream(m), 1, n)
  <2>1. n <= m + 1 /\ m \in 0..StreamLength
    BY <1>3, <1>8
  <2>2. received' = SubSeq(Stream(m), 1, n)
    BY <1>3, <1>7, <2>1, Sizes, StreamPrefix
  <2>. QED BY <2>2 DEF Stream, Abstract!Stream
<1>10. received = <<>> => n = 1
  <2>1. SUFFICES ASSUME received = <<>> PROVE n = 1
    OBVIOUS
  <2>2. Len(out[1]) = 1 /\ Len(received) = 0
    BY <1>1, <2>1 DEF IndInv, Content, Carried
  <2>3. Head(out) = out[1]
    BY <1>1, <1>3, EmptySeq, HeadTailProperties
  <2>. QED BY <1>6, <2>2, <2>3
<1>. QED BY <1>1, <1>2, <1>8, <1>9, <1>10 DEF Abstract!Receive

LEMMA AbstractNext == IndInv /\ IndInv' /\ [Next]_vars => [Abstract!Next]_(Abstract!vars)
<1>. SUFFICES ASSUME IndInv, IndInv', [Next]_vars PROVE [Abstract!Next]_(Abstract!vars)
  OBVIOUS
<1>. USE DEF source, sender, receiver, playing, queues, files, client
<1>a. ASSUME UNCHANGED <<delivered, failed, received, result, aborted>>
      PROVE  UNCHANGED Abstract!vars
  BY <1>a DEF Abstract!vars
\* The main thread returns, or the process dies.
<1>b. ASSUME UNCHANGED <<delivered, failed, received>>, result = "none", ~aborted,
             \/ result' = "false" /\ UNCHANGED aborted
             \/ UNCHANGED result /\ aborted' = TRUE
      PROVE  Abstract!Fail
  BY <1>b DEF Abstract!Fail
<1>1. CASE Connect
  <2>1. UNCHANGED <<delivered, failed, received>> /\ result = "none" /\ ~aborted
    BY <1>1 DEF Connect, Main, service, IndInv, MainControl
  <2>2. \/ UNCHANGED <<result, aborted>>
        \/ result' = "false" /\ UNCHANGED aborted
        \/ UNCHANGED result /\ aborted' = TRUE
    BY <1>1 DEF Connect, Return, Abort
  <2>. QED BY <2>1, <2>2, <1>a, <1>b DEF Abstract!Next
<1>2. CASE SendConfig
  BY <1>2, <1>a, <1>b DEF SendConfig, Main, Return, GoTo, service, IndInv, MainControl,
     Abstract!Next
<1>3. CASE OpenContent
  BY <1>3, <1>a, <1>b DEF OpenContent, Main, Abort, service, IndInv, MainControl,
     Abstract!Next
<1>4. CASE WriteChunk
  BY <1>4, <1>a DEF WriteChunk, Source!GiveUp, service
<1>5. CASE StoreChunk \/ WritesDone \/ JoinReader
  BY <1>5, <1>a DEF StoreChunk, WritesDone, JoinReader, service
<1>6. CASE Finish
  <2>1. /\ result = "none" /\ ~aborted /\ result' \in {"true", "false"}
        /\ UNCHANGED <<delivered, failed, received, aborted>>
    BY <1>6 DEF Finish, Main, Return, service, IndInv, MainControl
  <2>2. CASE result' = "false"
    BY <1>b, <2>1, <2>2 DEF Abstract!Next
  <2>3. CASE result' = "true"
    <3>1. TrueMeansSent'
      BY SentBySuccess, PTL
    <3>2. received = <<Config>> \o delivered /\ (failed \/ delivered = Video)
      BY <2>1, <2>3, <3>1 DEF TrueMeansSent
    <3>3. received = Abstract!Stream(Len(delivered))
      <4>. DEFINE m == Len(delivered)
      <4>1. m \in 0..StreamLength /\ m + 1 <= m + 1
        BY Sizes DEF IndInv, TypeOK, Content
      <4>2. delivered \in Seq(0..StreamLength) /\ ComesAfter(delivered, 0)
        <5>1. Seq(Bytes) \subseteq Seq(0..StreamLength)
          BY Sizes, SeqMonotonic
        <5>. QED BY <5>1 DEF IndInv, Content, TypeOK
      <4>3. /\ received \in Seq(0..StreamLength) /\ Len(received) = m + 1
            /\ ComesAfter(received, -1)
        BY <3>2, <4>2, Sizes, ConfigFirst
      <4>4. received = Stream(m)
        BY <4>1, <4>3, Sizes, StreamPrefix
      <4>. QED BY <4>4 DEF Stream, Abstract!Stream
    <3>4. failed \/ Len(delivered) = StreamLength
      BY <3>2, VideoProperties
    <3>. QED BY <2>1, <2>3, <3>3, <3>4 DEF Abstract!Succeed, Abstract!Next
  <2>. QED BY <2>1, <2>2, <2>3
<1>7. CASE ReadChunk
  <2>1. /\ main = "read" /\ ~aborted /\ ReadBytes
        /\ UNCHANGED <<received, result, aborted>>
    BY <1>7 DEF ReadChunk, Main, service
  <2>2. /\ failed' = failed
        /\ \/ delivered' = delivered
           \/ Len(delivered') <= StreamLength /\ Len(delivered') > Len(delivered)
    BY <2>1, ReadBytesProperties, Sizes DEF IndInv, TypeOK
  <2>3. Len(delivered) \in Nat /\ Len(delivered') \in Nat /\ result = "none"
    BY <2>1 DEF IndInv, TypeOK, MainControl
  <2>. QED BY <2>1, <2>2, <2>3, Sizes DEF Abstract!Read, Abstract!Next, Abstract!vars
<1>8. CASE SourceFails
  BY <1>8 DEF SourceFails, Source!Fail, service, Abstract!SourceFails, Abstract!Next
<1>9. CASE OpenAnnotations
  <2>1. result = "none"
    BY <1>9 DEF OpenAnnotations, Reader, IndInv, MainControl
  <2>. QED BY <1>9, <2>1, <1>a, <1>b DEF OpenAnnotations, Reader, Abort, service,
           Abstract!Next
<1>10. CASE ReadResponse \/ ProcessResponse \/ ReadEnds \/ JoinPlayer
  BY <1>10, <1>a DEF ReadResponse, ProcessResponse, ReadEnds, JoinPlayer, service
\* A player at work keeps the reader thread, and that one the main thread.
<1>11. CASE OpenPlayer \/ stream_callback
  <2>1. result = "none" /\ ~aborted
    BY <1>11 DEF OpenPlayer, stream_callback, Player, IndInv, MainControl, ReaderControl
  <2>2. /\ UNCHANGED <<delivered, failed, received, result>>
        /\ UNCHANGED aborted \/ aborted' = TRUE
    BY <1>11 DEF OpenPlayer, stream_callback, Abort, service
  <2>. QED BY <2>1, <2>2, <1>a, <1>b DEF Abstract!Next
<1>12. CASE PlayerEnds
  BY <1>12, <1>a DEF PlayerEnds, service
<1>13. CASE ServerReceives /\ UNCHANGED client
  BY <1>13, ServerReceivesIsReceive DEF Abstract!Next
<1>14. CASE (ServerAnswers \/ ServerEnds \/ RpcFails) /\ UNCHANGED client
  BY <1>14, <1>a DEF ServerAnswers, ServerEnds, RpcFails, service
<1>15. CASE UNCHANGED vars
  BY <1>15, <1>a DEF vars, service
<1>. QED BY <1>1, <1>2, <1>3, <1>4, <1>5, <1>6, <1>7, <1>8, <1>9, <1>10, <1>11, <1>12,
         <1>13, <1>14, <1>15 DEF Next, MainThread, ReaderThread, PlayerThread, Server

\* Whatever breaks, the client keeps its promises to the service and to its caller.
THEOREM Implementation == Spec => Implements
<1>1. Init => Abstract!Init
  BY AbstractInit
<1>2. IndInv /\ IndInv' /\ [Next]_vars => [Abstract!Next]_(Abstract!vars)
  BY AbstractNext
<1>. QED BY <1>1, <1>2, Invariance, PTL DEF Spec, Implements, Abstract!Spec
===============================================================================
