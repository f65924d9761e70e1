---------------------------- MODULE StreamingClient ----------------------------
(***************************************************************************)
(* One run of streaming_client_main (ingestion/client/cpp): the main       *)
(* thread connects, sends the configuration and then the video, chunk      *)
(* after chunk; the reader thread of ReadResponse drains the responses,    *)
(* starts the player thread on the first one and stores the annotations.   *)
(* AnnotationRpc is the call between them and the service, ContentStream   *)
(* the source of the video: what PipeReader, and a FileReader all the      *)
(* more, gives to SendContent.                                             *)
(*                                                                         *)
(* Byte i of the video is the number i.  LOG(FATAL) and a failed CHECK end *)
(* the process: aborted, after which nothing moves.                        *)
(***************************************************************************)
EXTENDS AnnotationRpc, Chains

CONSTANTS
    StreamLength,           \* bytes of the video
    kDataChunk,             \* what ReadBytes returns, at most
    kMaxStreamBufferSize,   \* the buffer of ffmpeg
    FlagSets                \* the combinations of command line flags considered

Flags ==
    {"use_pipe", "enable_player", "local_storage_video", "local_storage_annotation_result"}

ASSUME StreamingClientAssumption ==
    /\ StreamLength \in Nat
    /\ kDataChunk \in Nat \ {0}
    /\ kMaxStreamBufferSize \in Nat \ {0}
    /\ FlagSets \subseteq SUBSET Flags

VARIABLES
    flags,          \* the command line
    main,           \* where the main thread is
    delivered,      \* the bytes ReadBytes has returned
    failed,         \* the source has failed
    ended,          \* "no", "eof" (ReadBytes returned 0) or "gaveup"
    data,           \* the chunk in the buffer
    status,         \* status of SendContent, then of Run
    result,         \* "none", then what Init && Run gave: "true" or "false"
    reader,         \* where the thread of ReadResponse is
    resp,           \* the response it has just read
    player,         \* where the thread of MediaPlayer::Init is
    played,         \* the bytes ffmpeg has been given
    stream_queue, annotation_response_queue_,   \* the queues of the player
    video_file, annotation_file,                \* what local storage holds
    aborted         \* the process has died of a CHECK or a LOG(FATAL)

source == <<delivered, failed, ended>>
sender == <<main, data, status, result>>
receiver == <<reader, resp>>
playing == <<player, played>>
queues == <<stream_queue, annotation_response_queue_>>
files == <<video_file, annotation_file>>

client == <<flags, source, sender, receiver, playing, queues, files, aborted>>
vars == <<client, wire, service>>

Video == [i \in 1..StreamLength |-> i]
NoResponse == "none"

\* The writer of the video has its time: whether it takes long, or for ever, to give
\* more is up to the fairness of ReadChunk.
Source == INSTANCE ContentStream
    WITH MaxRead <- kDataChunk, written <- Video, writer <- "closed"

IsPrefix(s, t) == Len(s) <= Len(t) /\ \A i \in 1..Len(s) : s[i] = t[i]

Init ==
    /\ flags \in FlagSets
    /\ delivered = <<>> /\ failed = FALSE /\ ended = "no"
    /\ main = "init" /\ data = <<>> /\ status = TRUE /\ result = "none"
    /\ reader = "none" /\ resp = NoResponse
    /\ player = "none" /\ played = <<>>
    /\ stream_queue = <<>> /\ annotation_response_queue_ = <<>>
    /\ video_file = <<>> /\ annotation_file = <<>>
    /\ aborted = FALSE
    /\ RpcInit

-------------------------------------------------------------------------------
\* The main thread: main(), StreamingClient::Init and Run.

Main(here) == main = here /\ ~aborted
GoTo(there) == main' = there

\* The result of Init or Run.  main() does not look at it, and exits with 0.
Return(value) == main' = "ended" /\ result' = value

\* CHECK fails or LOG(FATAL) is reached.
Abort == aborted' = TRUE

\* The RPC has started and the channel is ready, or Init returns false.  The player is
\* made last, which may be fatal.
Connect ==
    /\ Main("init")
    /\ \/ /\ rpc' = "running"
          /\ GoTo("config")
          /\ UNCHANGED aborted \/ ("enable_player" \in flags /\ Abort)
          /\ UNCHANGED result
       \/ /\ rpc' = "failed"
          /\ Return("false")
          /\ UNCHANGED aborted
    /\ UNCHANGED <<flags, source, data, status, receiver, playing, queues, files,
                   out, in, half_closed, service>>

\* Mutant of SendConfig: the content is sent without it.
SendConfigNot ==
    /\ Main("config")
    /\ GoTo("open")
    /\ reader' = "open"
    /\ UNCHANGED <<flags, source, data, status, result, resp, playing, queues, files,
                   aborted, wire, service>>

\* SendConfig, then the reader thread is started.  When the configuration cannot
\* be sent Run returns at once, without a Finish().
SendConfig ==
    /\ Main("config")
    /\ \/ /\ Send(<<Config>>)
          /\ GoTo("open")
          /\ reader' = "open"
          /\ UNCHANGED result
       \/ /\ StreamEnded
          /\ Return("false")
          /\ UNCHANGED <<reader, wire>>
    /\ UNCHANGED <<flags, source, data, status, resp, playing, queues, files, aborted,
                   service>>

\* SendContent opens the video and the local copy, or dies of a CHECK.
OpenContent ==
    /\ Main("open")
    /\ \/ GoTo("read") /\ UNCHANGED aborted
       \/ Abort /\ UNCHANGED main
    /\ UNCHANGED <<flags, source, data, status, result, receiver, playing, queues, files,
                   wire, service>>

\* read() on the pipe or the file reports an error.
SourceFails ==
    /\ Main("read")
    /\ ~failed /\ Source!Fail
    /\ UNCHANGED <<flags, sender, receiver, playing, queues, files, aborted, wire, service>>

\* A pipe gives what it has; a file gives all that fits, or all that is left, unless
\* it fails on the way, and nothing after it has given less than it was asked for.
ReadBytes ==
    /\ Source!Deliver \/ Source!End
    /\ "use_pipe" \notin flags /\ ended' = "no" =>
           /\ Len(delivered) % kDataChunk = 0
           /\ failed \/ Len(delivered') = Len(delivered) + kDataChunk \/ delivered' = Video

\* Mutant of Chunk: the string of the last turn is still there.
ChunkAppended == data \o SubSeq(delivered', Len(delivered) + 1, Len(delivered'))

\* std::string data(buffer.data(), num_bytes_read)
Chunk == SubSeq(delivered', Len(delivered) + 1, Len(delivered'))

\* Mutant of num_chunks: the quotient is rounded down.
num_chunks_down(chunk) == Len(chunk) \div kMaxStreamBufferSize

\* std::ceil(data.size() / kMaxStreamBufferSize)
num_chunks(chunk) == (Len(chunk) + kMaxStreamBufferSize - 1) \div kMaxStreamBufferSize

\* The piece of turn i of the loop; it is never empty.
Piece(chunk, i) ==
    LET start == i * kMaxStreamBufferSize
        rest == Len(chunk) - start
        size == IF kMaxStreamBufferSize > rest THEN rest ELSE kMaxStreamBufferSize
    IN SubSeq(chunk, start + 1, start + size)

InsertStreamData(chunk) ==
    stream_queue' = stream_queue \o [i \in 1..num_chunks(chunk) |-> Piece(chunk, i - 1)]

\* Mutant of ReadChunk: InsertStreamData is not called.
ReadChunkOnly ==
    /\ Main("read")
    /\ ReadBytes
    /\ IF ended' = "no"
       THEN data' = Chunk /\ GoTo("write")
       ELSE GoTo("done") /\ UNCHANGED data
    /\ UNCHANGED <<flags, status, result, receiver, playing, queues, files, aborted, wire,
                   service>>

\* ReadBytes, and InsertStreamData when there is a player.  0 bytes end the loop.
ReadChunk ==
    /\ Main("read")
    /\ ReadBytes
    /\ IF ended' = "no"
       THEN /\ data' = Chunk
            /\ GoTo("write")
            /\ IF "enable_player" \in flags
               THEN InsertStreamData(data') ELSE UNCHANGED stream_queue
       ELSE GoTo("done") /\ UNCHANGED <<data, stream_queue>>
    /\ UNCHANGED <<flags, status, result, receiver, playing, annotation_response_queue_,
                   files, aborted, wire, service>>

\* stream_->Write(req): on success the chunk goes to the local copy next.
WriteChunk ==
    /\ Main("write")
    /\ \/ /\ Send(data)
          /\ GoTo("store")
          /\ UNCHANGED <<status, source>>
       \/ /\ StreamEnded
          /\ GoTo("done")
          /\ status' = FALSE
          /\ Source!GiveUp
          /\ UNCHANGED wire
    /\ UNCHANGED <<flags, data, result, receiver, playing, queues, files, aborted, service>>

\* Mutant of StoreChunk: the last byte of the buffer is taken for its end.
StoreChunkButLast ==
    /\ Main("store")
    /\ GoTo("read")
    /\ video_file' = IF "local_storage_video" \in flags
                     THEN video_file \o SubSeq(data, 1, Len(data) - 1) ELSE video_file
    /\ UNCHANGED <<flags, source, data, status, result, receiver, playing, queues,
                   annotation_file, aborted, wire, service>>

\* FileWriter::WriteBytes
StoreChunk ==
    /\ Main("store")
    /\ GoTo("read")
    /\ video_file' = IF "local_storage_video" \in flags
                     THEN video_file \o data ELSE video_file
    /\ UNCHANGED <<flags, source, data, status, result, receiver, playing, queues,
                   annotation_file, aborted, wire, service>>

\* Mutant of WritesDone: it is not called.
WritesNotDone ==
    /\ Main("done")
    /\ GoTo("join")
    /\ UNCHANGED <<flags, source, data, status, result, receiver, playing, queues, files,
                   aborted, wire, service>>

\* WritesDone(), and the two files are closed.
WritesDone ==
    /\ Main("done")
    /\ GoTo("join")
    /\ \/ HalfClose /\ UNCHANGED status
       \/ StreamEnded /\ status' = FALSE /\ UNCHANGED wire
    /\ UNCHANGED <<flags, source, data, result, receiver, playing, queues, files, aborted,
                   service>>

\* Mutant of JoinReader: Finish() is called without waiting for the reader.
JoinNobody ==
    /\ Main("join")
    /\ GoTo("finish")
    /\ UNCHANGED <<flags, source, data, status, result, receiver, playing, queues, files,
                   aborted, wire, service>>

\* reader.join()
JoinReader ==
    /\ Main("join")
    /\ reader = "ended"
    /\ GoTo("finish")
    /\ UNCHANGED <<flags, source, data, status, result, receiver, playing, queues, files,
                   aborted, wire, service>>

\* Mutant of Finish: the status of the RPC is not looked at.
FinishBlindly ==
    /\ Main("finish")
    /\ StreamEnded
    /\ Return(IF status THEN "true" ELSE "false")
    /\ UNCHANGED <<flags, source, data, status, receiver, playing, queues, files, aborted,
                   wire, service>>

\* Finish() waits for the status of the RPC; Run returns.
Finish ==
    /\ Main("finish")
    /\ StreamEnded
    /\ Return(IF status /\ rpc = "ok" THEN "true" ELSE "false")
    /\ UNCHANGED <<flags, source, data, status, receiver, playing, queues, files, aborted,
                   wire, service>>

-------------------------------------------------------------------------------
\* The reader thread: ReadResponse.

Reader(here) == reader = here /\ ~aborted

\* Mutant of OpenAnnotations: responses are read when all the video is sent, as if
\* one thread did both.
OpenAnnotationsLate ==
    /\ Reader("open")
    /\ main = "join"
    /\ reader' = "read"
    /\ UNCHANGED <<flags, source, sender, resp, playing, queues, files, aborted, wire,
                   service>>

\* The annotation file is opened, or a CHECK fails.
OpenAnnotations ==
    /\ Reader("open")
    /\ \/ reader' = "read" /\ UNCHANGED aborted
       \/ /\ "local_storage_annotation_result" \in flags
          /\ Abort
          /\ UNCHANGED reader
    /\ UNCHANGED <<flags, source, sender, resp, playing, queues, files, wire, service>>

\* stream_->Read() returns a response; the first one starts the player.
ReadResponse ==
    /\ Reader("read")
    /\ \E r \in Responses : Receive(r) /\ resp' = r
    /\ reader' = "process"
    /\ player' = IF player = "none" /\ "enable_player" \in flags THEN "open" ELSE player
    /\ UNCHANGED <<flags, source, sender, played, queues, files, aborted, service>>

\* The response goes to the player, and to the file unless it carries an error.
ProcessResponse ==
    /\ Reader("process")
    /\ reader' = "read"
    /\ resp' = NoResponse
    /\ annotation_response_queue_' =
           IF "enable_player" \in flags
           THEN Append(annotation_response_queue_, resp) ELSE annotation_response_queue_
    /\ annotation_file' =
           IF resp # "error" /\ "local_storage_annotation_result" \in flags
           THEN Append(annotation_file, resp) ELSE annotation_file
    /\ UNCHANGED <<flags, source, sender, playing, stream_queue, video_file, aborted, wire,
                   service>>

\* Read() returns false: the RPC has ended and nothing is left to read.
ReadEnds ==
    /\ Reader("read")
    /\ StreamEnded
    /\ in = <<>>
    /\ reader' = "join"
    /\ UNCHANGED <<flags, source, sender, resp, playing, queues, files, aborted, wire,
                   service>>

\* Mutant of JoinPlayer: the player thread is left to itself.
LeavePlayer ==
    /\ Reader("join")
    /\ reader' = "ended"
    /\ UNCHANGED <<flags, source, sender, resp, playing, queues, files, aborted, wire,
                   service>>

\* The player thread is joined, if there is one, and the file closed.
JoinPlayer ==
    /\ Reader("join")
    /\ player \in {"none", "ended"}
    /\ reader' = "ended"
    /\ UNCHANGED <<flags, source, sender, resp, playing, queues, files, aborted, wire,
                   service>>

-------------------------------------------------------------------------------
\* The player thread: MediaPlayer::Init.  ffmpeg pulls the video through
\* stream_callback, which reports the end of the stream when stream_queue is
\* empty: at avformat_open_input() that is fatal, later it ends PlayMedia, and so
\* does an error in the video.

Player(here) == player = here /\ ~aborted

OpenPlayer ==
    /\ Player("open")
    /\ \/ stream_queue # <<>> /\ player' = "play" /\ UNCHANGED aborted
       \/ Abort /\ UNCHANGED player
    /\ UNCHANGED <<flags, source, sender, receiver, played, queues, files, wire, service>>

\* ffmpeg gets a piece, or the process dies of its size; a response may be fetched
\* for the frames on the way.
stream_callback ==
    /\ Player("play")
    /\ stream_queue # <<>>
    /\ stream_queue' = Tail(stream_queue)
    /\ IF Len(Head(stream_queue)) > kMaxStreamBufferSize
       THEN Abort /\ UNCHANGED played
       ELSE played' = played \o Head(stream_queue) /\ UNCHANGED aborted
    /\ annotation_response_queue_' \in
           {annotation_response_queue_} \cup
           (IF annotation_response_queue_ = <<>> THEN {}
            ELSE {Tail(annotation_response_queue_)})
    /\ UNCHANGED <<flags, source, sender, receiver, player, files, wire, service>>

\* av_read_frame() meets the end of what it is given, or an error before it.
PlayerEnds ==
    /\ Player("play")
    /\ player' = "ended"
    /\ UNCHANGED <<flags, source, sender, receiver, played, queues, files, aborted, wire,
                   service>>

-------------------------------------------------------------------------------
MainThread ==
    \/ Connect
    \/ SendConfig
    \/ OpenContent
    \/ WriteChunk
    \/ StoreChunk
    \/ WritesDone
    \/ JoinReader
    \/ Finish

ReaderThread == OpenAnnotations \/ ReadResponse \/ ProcessResponse \/ ReadEnds \/ JoinPlayer
PlayerThread == OpenPlayer \/ stream_callback \/ PlayerEnds

Next ==
    \/ MainThread
    \/ ReadChunk
    \/ SourceFails
    \/ ReaderThread
    \/ PlayerThread
    \/ Server /\ UNCHANGED client
    \/ RpcFails /\ UNCHANGED client

Spec == Init /\ [][Next]_vars

\* The threads run on, and either the server does its part or the deadline of
\* context_ expires.  A file is always there to be read; the writer of a pipe may
\* keep it open and give nothing.
Fairness ==
    /\ WF_vars(MainThread)
    /\ WF_vars(ReadChunk /\ "use_pipe" \notin flags)
    /\ WF_vars(ReaderThread)
    /\ WF_vars(PlayerThread)
    /\ WF_vars(Server /\ UNCHANGED client) \/ WF_vars(RpcFails /\ UNCHANGED client)

FairSpec == Spec /\ Fairness

-------------------------------------------------------------------------------
Bytes == 1..StreamLength

\* Types, and the windows.
TypeOK ==
    /\ flags \in FlagSets
    /\ main \in {"init", "config", "open", "read", "write", "store", "done", "join",
                 "finish", "ended"}
    /\ delivered \in Seq(Bytes) /\ failed \in BOOLEAN
    /\ ended \in {"no", "eof", "gaveup"}
    /\ data \in Seq(Bytes) /\ Len(data) <= kDataChunk
    /\ status \in BOOLEAN
    /\ result \in {"none", "true", "false"}
    /\ reader \in {"none", "open", "read", "process", "join", "ended"}
    /\ resp \in Responses \cup {NoResponse}
    /\ player \in {"none", "open", "play", "ended"}
    /\ played \in Seq(Bytes)
    /\ stream_queue \in Seq(Seq(Bytes))
    /\ annotation_response_queue_ \in Seq(Responses)
    /\ video_file \in Seq(Bytes)
    /\ annotation_file \in Seq(Responses)
    /\ aborted \in BOOLEAN
    /\ RpcTypeOK(0..StreamLength)

\* When Run returns true the server has received the configuration first and then
\* the whole video, in order: an RPC that ends early, in whatever state of the two
\* threads, is not mistaken for success.  Only an error of the source is: what could
\* be read was sent, and is taken for the whole video.
TrueMeansSent ==
    result = "true" =>
        /\ received = <<Config>> \o delivered
        /\ failed \/ delivered = Video

\* Whenever the RPC breaks, the local copy holds, in order, all the content that
\* has reached the server, except for the chunk that the main thread is about to
\* store, and nothing that Write() has refused.
LocalCopyIsFaithful ==
    "local_storage_video" \in flags =>
        /\ IsPrefix(video_file, delivered)
        /\ Len(delivered) > Len(video_file) => main \in {"write", "store"} \/ ended = "gaveup"
        /\ main # "store" => Len(received) <= Len(video_file) + 1
        /\ result = "true" => video_file = delivered

\* The places, among the first n elements of s, of those that are not errors; they are t.
Places(f, t, s, n) ==
    /\ \A j \in 1..Len(t) : t[j] = s[f[j]] /\ t[j] # "error"
    /\ \A j, k \in 1..Len(t) : j < k => f[j] < f[k]
    /\ \A i \in 1..n : s[i] # "error" => \E j \in 1..Len(t) : f[j] = i

WithoutErrors(t, s, n) == \E f \in [1..Len(t) -> 1..n] : Places(f, t, s, n)

\* When Run returns true the annotation file holds every response without an error
\* that the server has sent, in order: the responses that arrive after the last
\* Write() are not lost.
AnnotationsAreComplete ==
    result = "true" /\ "local_storage_annotation_result" \in flags =>
        WithoutErrors(annotation_file, answers, Len(answers))

\* The player thread has ended, or never existed, when Run returns and the client
\* deletes the MediaPlayer that it uses.
PlayerOutlived == result # "none" => player \in {"none", "ended"}

\* A player that was started by an annotation finds video to open: only after an
\* error that comes before any content does ReadAvCodec meet an empty stream_queue,
\* which ends the process.
PlayerFindsVideo ==
    Player("open") /\ stream_queue = <<>> => "result" \notin {answers[i] : i \in 1..Len(answers)}

\* ffmpeg gets the video as it is: what it has got and the pieces in the queue follow
\* one another without a gap up to the last byte that was read, and no piece is empty,
\* which ffmpeg would take for the end, or too large for its buffer.
FedInOrder ==
    "enable_player" \in flags =>
        /\ \A k \in 1..Len(stream_queue) :
              Len(stream_queue[k]) \in 1..kMaxStreamBufferSize
        /\ ComesAfter(played, 0)
        /\ Chain(stream_queue, Len(played), Len(delivered))

\* What each thread waits for.
MainCanMove ==
    \/ main \in {"init", "open", "store", "done"}
    \/ main \in {"config", "write"} /\ (StreamEnded \/ Len(out) < WindowOut)
    \/ main = "join" /\ reader = "ended"
    \/ main = "finish" /\ StreamEnded
ReaderCanMove ==
    \/ reader \in {"open", "process"}
    \/ reader = "read" /\ (StreamEnded \/ in # <<>>)
    \/ reader = "join" /\ player \in {"none", "ended"}
PlayerCanMove == player \in {"open", "play"}

\* The client and the service never all wait for each other, full as the windows of the
\* call may be in both directions: until Run returns one of them can go on, unless the
\* main thread is reading the video.  No deadline is needed to get out of it.
NeverStuck ==
    main \in {"read", "ended"} \/ aborted
    \/ MainCanMove \/ ReaderCanMove \/ PlayerCanMove \/ ServerCanMove

Abstract ==
    INSTANCE AnnotateVideo
    WITH read <- Len(delivered), cut <- failed,
         outcome <- IF aborted THEN "died" ELSE result

\* Whatever breaks, the client keeps its promises to the service and to its caller.
Implements == Abstract!Spec

\* Every run comes to an end, however the windows, the two threads and the player
\* wait for one another, and whatever the state of the RPC: nothing but a pipe whose
\* writer neither writes nor goes can keep the client, and that only in ReadBytes,
\* where it does not notice that the RPC has ended.
Terminates ==
    \/ <>(result # "none" \/ aborted)
    \/ <>[](main = "read" /\ "use_pipe" \in flags)
===============================================================================
