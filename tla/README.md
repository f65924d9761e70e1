# A TLA+ model of AIStreamer

AIStreamer sends a video, from a file or live from a named pipe, to the Cloud
Video Intelligence Streaming API and receives annotations while it sends. This
directory holds TLA+ models of its C++ ingestion client
(`src/ingestion/client/cpp`), of the Python scripts beside it
(`src/ingestion/client/python`) and of its frame tools (`src/vfp`), the
configurations that TLC checks, and proofs checked by TLAPS. Paths below are
relative to `src/ingestion/client/cpp` unless they say otherwise.

## The system

```
 gStreamer --> named pipe --> ReadPipe thread --> data_ --> ReadBytes
                                                              |
   main thread:  SendConfig, SendContent  <-------------------+
      | InsertStreamData          | Write                | local copy
      v                           v
   stream_queue              gRPC stream <--> annotation service
      |                           | Read
      v                           v
   player thread <--start/join-- reader thread (ReadResponse) --> annotation file
      ^                           | InsertAnnotationResponse
      +---- annotation_response_queue_
```

| Component | State | Operations | What is hard | What makes it correct |
|---|---|---|---|---|
| `SyncQueue` | `q_`, `m_`, two condition variables, `max_size_` | Push, TryPush, Pop, Clear, Size | interleavings, lost and spurious wakeups, two critical sections for test and pop | atomic bounded FIFO; no wakeup lost; a value has one owner; a polling consumer never sleeps |
| `PipeReader` | `pipe_fd_`, `data_`, `mtx_`, `status_`, a detached thread | Open, ReadBytes, ReadPipe, Close | data shared by two threads, an unlocked tail, hang-up with data left, uninitialized `status_`, object destroyed under a detached thread | bytes in order and complete; 0 only at the end; the end is noticed; no access after destruction |
| `StreamingClient`, `main` | gRPC context and stream, `player_`, three threads | Init, Run, SendConfig, SendContent, ReadResponse | two directions of flow control, an RPC that breaks at any step, joins | success means everything was sent and stored; the player does not outlive its owner; every run ends |
| `MediaPlayer` | `annotation_response_queue_`, the global `stream_queue`, ffmpeg and SDL objects; in PlayMedia `cur_resp`, `future_resp`, offsets | Init, InsertStreamData, InsertAnnotationResponse, the callback of ffmpeg | empty queue taken for the end, matching annotations with frames, unsigned offsets | every chunk played once in order; an annotation shown at its time and for a bounded time |
| `ProtoReader`, `ProtoWriter` | a file | Open, ReadBytes / WriteBytes, ReadProto / WriteProto, Close | decoding of the length with `char`, limits, the empty record | what is written is read |
| `FileReader`, `FileWriter` | a file | Open, ReadBytes / WriteBytes, Close | errors of the disk that nobody reports | bytes pass unchanged |
| `ProtoProcessor` | none | Process | features it must know, annotations without frames | what is drawn has been logged |
| `visualizer_util` | none | timestamp and threshold of a response, drawing | a response without frames | timestamps in milliseconds |
| Python clients (`../python`) | the chunks of the file, a generator of requests, a loop over responses | load, yield, iterate | the generator runs in a thread of the gRPC library while the loop iterates; an error or an exception drops the call | one configuration first, then the content; all is printed up to the first error; no deadlock |
| Frame tools (`src/vfp`) | directories of frames, a pool of processes | extract, rename, find the nearest frame, draw | check-then-create, renaming in place, a rerun over what a failed run left | each frame gets its timestamp as name, none is lost |

## Modules

`SyncQueue` and `PipeReader` each come with the abstract specification they
implement, and the C++ client and the Python scripts share one. The theorems
about a module are in the module of its name with `Proofs` at the end, which
extends it.

| Module | Models | How |
|---|---|---|
| `BoundedQueue` | what the comments of `sync_queue.h` promise | a queue whose operations are atomic; `val[t]` is the value thread `t` owns; `Pollers` are threads that pop only after `Size()` was not 0 |
| `SyncQueue` | `sync_queue.h` | a thread goes through `idle`, `lock`, `crit` and, in a `wait()`, `wait`. `Lock` is the acquisition of `m_`; the body of an operation is one action, since it owns `m_`; `notify_one` picks any sleeper; `SpuriousWakeup` is the freedom C++ gives to `wait()` |
| `MCSyncQueue` | | the threads and calls of the two instances |
| `SyncQueueProofs` | | seven theorems |
| `ContentStream` | what `SendContent` needs of an `IOReader` | pieces in order, 0 only at the end or after a failure |
| `PipeReader` | `pipe_reader.cc` | byte `i` is the number `i`. `rp` is the program counter of `ReadPipe`, `rb` that of `SendContent` inside `Open`, `ReadBytes`, `Close` and the destruction; `LockAppend`/`AppendData` and `LockData`/`ReadLocked` are the two critical sections; `ReadTail` is the part without a lock |
| `PipeReaderProofs` | | six theorems |
| `Chains` | | the words with which the properties of the clients speak of a stream cut into pieces: `ComesAfter`, `Chain` |
| `AnnotationRpc` | the gRPC stream and the service, for all clients | `out` and `in` are the messages in flight, in windows of bounded size; a request is the sequence of what it carries; `Server` takes a request, answers it, and takes the next; `RpcFails` at any moment |
| `AnnotationRpcProofs` | | lemmas for every client of the call: what it carries (`Carried`) and what is in flight (`InFlight`), kept by every action |
| `AnnotateVideo` | what a client promises: the comments of `StreamingAnnotateVideoRequest` (`../../proto/video_intelligence_streaming.proto`) and of `streaming_client.h` | the configuration first, then the video in order and each byte once; success only when the service has taken everything |
| `StreamingClient` | `streaming_client.cc`, `streaming_client_main.cc`, `file_reader.cc`, `file_writer.cc`, and of `media_player.cc` the life cycle, `InsertStreamData` and `stream_callback` | `main`, `reader` and `player` are the program counters of the three threads; one action per call that can block or that shares state. It extends `AnnotationRpc`, takes the video from an instance of `ContentStream` and implements `AnnotateVideo` |
| `MCStreamingClient` | | the combinations of the flags |
| `StreamingClientProofs` | | ten theorems |
| `PythonClient` | the five scripts of `../python` | `script` says which; `main` is the script, `yielded` how far the generator has been consumed. It extends `AnnotationRpc` and implements `AnnotateVideo` |
| `PythonClientProofs` | | five theorems |
| `Playback` | `PlayMedia` of `media_player.cc`, with the timestamps and thresholds of `visualizer_util.cc` and the reader thread with `proto_processor.cc` | one action presents one frame: `TakeFuture`, `UseFuture` and `Draw` are its parts; a response is read and logged (`Process`) and then inserted, at any time |
| `MCPlayback` | | what the responses carry |
| `PlaybackProofs` | | six theorems |
| `ProtoIO` | `proto_writer.cc`, `proto_reader.cc` | the file is a sequence of bytes; a record is written by one action and read by one; a crash keeps any prefix of the file |
| `MCProtoIO` | | the messages, by their lengths |
| `ProtoIOProofs` | | five theorems |
| `FrameTools` | `src/vfp`: `frame_lib.py`, `extract_frame.py`, `visualize_annotation.py` | `pc[w]` is where a process of the pool is; the test for a directory and its creation are two actions, so is each renaming; the directory tree is `dirs` and `files` |
| `MCFrameTools` | | the videos and their annotations |
| `FrameToolsProofs` | | five theorems |

Definitions called mutants stand before the definition they vary. No
specification uses them: each is a plausible mistake in the code that one
property must catch.

External to the repository, and modelled from the way the code uses it: the
writer of the pipe, `poll(2)` and `read(2)` on a FIFO, `std::condition_variable`
and `std::mutex`, the gRPC stream and the annotation service, the file streams
of C++, and `multiprocessing.Pool`, `os` and `bisect` of Python.

### What the models abstract

* `SyncQueue`: an element is a model value; a moved-from object is `NoValue`.
  The release of `m_` and the return are one step, since nothing lies between.
* `PipeReader`: a `poll()` that times out or is interrupted, and a `read()` that
  is interrupted, only come round again and are stutters. `POLLERR` cannot occur
  at the reading end of a FIFO. After the destruction of the object nothing is
  said about the detached thread.
* `AnnotationRpc`: the service takes the next request when it has answered the
  last, annotates content only, and may answer anything with an error.
* `StreamingClient`: byte `i` of the video is the number `i`, a response is a
  result or an error, the configuration is the number 0. The source is what
  `PipeReader` implements, with everything written and the writer gone: how long
  the next chunk takes is up to fairness. A file gives full chunks but for the
  last; where it fails, `FileReader` returns what it has got. `InsertStreamData` and
  `InsertAnnotationResponse` push to queues of `INT_MAX` places and never block
  here, so that all the pieces of a chunk are pushed in one step.
  `LOG(FATAL)` and a failed `CHECK` set `aborted`, after which nothing moves; this
  may happen when the player is made (the constructor of `MediaPlayer`, part of
  `Connect`) and when it opens the video, if `ffmpeg` cannot make it out from what
  is in the queue. The player may fetch responses while it consumes the video, and
  may end at any moment: at an empty queue or at an error of the video. `result` is
  what `Run` returns; `main()` does not look at it and exits with 0. `WriteBytes`
  is taken to write.
* `PythonClient`: a response is an error, a result, a result without
  annotations or one whose first annotation has no frame: that is all the
  scripts tell apart. A call that is dropped is cancelled by the library.
* `Playback`: times are integers in milliseconds, `Word` is 2^32 and `Duration`
  the horizon; a response is its number with what it carries: labels, objects,
  shots, explicit content, or none, and one annotation in it with its time and the
  number of its frames. `Size()` and `Pop()` are one step, as `PollerNeverBlocks`
  justifies; the pacing of the frames is left out, and so is which of
  the labels of a response are drawn (the eight most confident of those that
  consist of letters). `last_updated_resp_offset` and `video_start_time` have values at the
  start that nothing reads. The time of a frame is a `double` that is cast to
  `uint32_t` (`media_player.cc:308`): the model takes it to wrap, as the code
  compiled for x86-64 does; ISO C++ leaves it undefined where it does not fit.
* `ProtoIO`: a byte has `Base` values instead of 256; `kMaxDataRead` is scaled
  with it. The reader runs after the writer has closed the file or died. A crash
  stands for a full disk too: the stream has failed from some byte on, and
  `WriteProto` does not look. A message that cannot be serialized is not written.
* `FrameTools`: a frame is its video and its number, a file name is a number.
  `ffprobe` and `ffmpeg` fail, the latter after any number of frames, or `ffmpeg`
  writes exactly the frames that `ffprobe` lists. `Timestamps` are the names of the
  files, that is the times as `float(ts) * 1e6` truncates them to microseconds. The
  base names of the videos are distinct. `Leftovers` are the trees below
  `tmp_all_frames` that an earlier run of `visualize_annotation` may have left for
  the same videos; nothing else is there in the output directory. Boxes and images
  are left out; a file of the output remembers the annotation drawn last.

## Runs

| Run | Bounds | Shows |
|---|---|---|
| `sync_queue` | 2 producers, 2 consumers, capacity 2, 5 values, values symmetric | `TypeOK`, `SingleOwner`, `NoLostPopSignal`, and `Implements`: every behaviour is one of `BoundedQueue` |
| `sync_queue_use` | 2 producers that block or give up, 1 consumer that polls, capacity 2 | `NoLostPushSignal`, `PollerNeverBlocks`, and `FlowNeverStops` under fairness |
| `pipe_reader` | 5 bytes, 3 in the pipe, 2 per `read()`, 2 per `ReadBytes`; failures possible; `status_` true from the start | `TypeOK`, `Conserved`, `NoDataRace`, `ThreadEndsFirst`, `Implements`, and `EndIsNoticed` under fairness |
| `pipe_reader_status` | 3 bytes, `status_` true or false at the start | `EofComplete` is **violated**, see below |
| `playback` | 3 responses out of 5, 4 features, 5 points in time, words of 5 values, thresholds 2 and 1 | `TypeOK`, `NeverEarly`, `ShownInOrder`, `ClearedInTime`, `DrawnIsLogged`, and `DueIsUsed` under fairness |
| `playback_frames` | 2 responses, object annotations with and without a frame | `DrawsTrackletsOnly` is **violated** |
| `python_client` | 5 scripts, 5 bytes in chunks of 2, windows of 1, at most 2 answers to a request out of 4 kinds | `TypeOK`, `PrintedInOrder`, `Implements` (of `AnnotateVideo`), and `Terminates` under fairness |
| `proto_io` | 3 records, lengths of 0, 1, 2, 3, 11 and 12 bytes with 3 values of a byte, buffer of 12, char unsigned | `TypeOK`, `ReadsWhatWasWritten` |
| `proto_io_signed` | 2 records, 4 values of a byte, char signed | `ReadsWhatWasWritten` is **violated** |
| `frame_tools` | 2 processes, 3 videos of 3, 2 and 1 frames, 7 annotations, both tools, 5 trees that an earlier run may have left | `TypeOK`, `NamedByTime`, `DrawnOverNearest`, `NothingLeftBehind`, and `Terminates` under fairness |
| `frame_tools_long` | 1 video whose times are below the number of its frames | `NamedByTime` is **violated** |
| `streaming_client` | 4 bytes in chunks of up to 3 and pieces of up to 2, windows of 1, at most 1 answer to a request, all 8 combinations of the other flags with a file, a pipe with all of them and with none | `TypeOK`, `TrueMeansSent`, `LocalCopyIsFaithful`, `AnnotationsAreComplete`, `PlayerOutlived`, `PlayerFindsVideo`, `FedInOrder`, `NeverStuck`, `Implements` (of `AnnotateVideo`), and `Terminates` under fairness |

Why these bounds are enough for the cases that matter. A capacity of 2 has an
empty, a partly filled and a full queue, and two threads on each side let one
overtake the other between a notification and the wakeup; five values suffice
because at most that many can exist (two in the queue, one in each of three
hands). In `pipe_reader` the stream is longer than the pipe, the pipe longer
than a buffer, and the last piece shorter than the others. In
`streaming_client` there are up to five requests and as many responses, more
than both windows and the two threads hold, so that both directions can be
blocked at once; a file yields two chunks, one cut into two pieces and one
smaller than a piece, a pipe any number from one to four. In `python_client`
a request may be answered by more responses than fit into the window; three
chunks have a first, a last that is shorter, and one between them. In
`playback` the video may start at any
time of the word, so that its timestamps wrap at every point; an annotation may
come before, at and after its time, and be followed by one, by two or by none;
both thresholds pass before the horizon; each kind of feature is asked for, with
responses that have what it asks for and others. In `proto_io` lengths have
none, one, two and three digits, and lie on both sides of the limit of the
reader; a crash tears the file at every byte. In `frame_tools` the
annotations lie before, at, between, nearer to either of, and after the frames,
and there are more videos than processes; what an earlier run has left is fewer,
as many and more files than the video has frames, under numbers, under times and
under both, and an empty directory.

The check for deadlock says little about the queue: a thread that sleeps may
always wake for no reason, so that a state in which all sleep has a successor.
`NoLostPopSignal` and `NoLostPushSignal`, with `NeverAllAsleep` which is proved
from them, and `FlowNeverStops` say that nobody has to wait for such luck. In the
other runs the check is off, since the program is meant to come to an end; `EndIsNoticed` and `Terminates` say that it
does. In `streaming_client`, `NeverStuck` says in place of the check that nobody
stops before the end; it is written with predicates of its own since `ENABLED`
is beyond the prover, and on the states of this run each of the four is true
exactly where the steps of its thread, or of the service, are enabled. The
same goes for the three of `PythonClientProofs` on the states of `python_client`.

### The violations

`PipeReader::status_` (`pipe_reader.h:69`) has no initial value, and `Open`
returns as soon as the thread that assigns it has been created. If the memory
happens to hold false, `ReadBytes` may find it so before the thread has run,
return 0, and `SendContent` takes that for the end of the video: it half-closes
the RPC without having sent anything. All theorems about `PipeReader`, and the
run `pipe_reader`, assume `status_` true at the start (`StatusIsTrueAtStart`);
the initial value is a parameter, `StatusAtStart`, of the model.

`UpdateObjectTrackingSDLRenderer` (`visualizer_util.cc:128`) reads `frames(0)`
of an object annotation without looking at `frames_size()`, although
`proto_processor.cc:106` says that it may be 0. Such a response has the time 0,
is due at once and is drawn: undefined behaviour. The run `playback` assumes a
frame in each annotation, as `video_intelligence_streaming.proto:165` has it.

`ProtoReader::ReadBytes` (`proto_reader.cc:51`) decodes the length of a record
from `char`. Where that is signed, as on x86, a byte of 128 or more counts as
negative: a record of 200 bytes has the length -56, and a `CHECK` ends the
process. The run `proto_io` has `CharIsSigned = FALSE`.

`extract_video_frame` (`src/vfp/frame_lib.py:77`) renames the files of a video in
place. With 33333 frames at 30 frames per second the time of the second frame,
33333 microseconds, is the number of a frame that has not been renamed: its
file is replaced, and the second frame ends under its time. The run
`frame_tools` has times beyond the number of frames.

### Fairness

* `SyncQueue`: weak fairness of the body of an operation (a thread that owns
  `m_` runs on) and of the next call (producers and the poller keep calling);
  strong fairness of `Lock`, because a mutex is free and taken again and again
  and every contender is meant to get it some time.
* `PipeReader`: weak fairness of both threads, strong fairness of the two lock
  acquisitions, since `ReadBytes` takes and releases `mtx_` in a busy loop.
  Nothing is assumed of the writer of the pipe.
* `StreamingClient`: weak fairness of each thread, and weak fairness of the
  server *or* of the failure of the RPC: a server that stalls is ended by the
  deadline that `Init` sets. Reading is fair for a file only: a pipe may be kept
  open by a writer that gives nothing, and no deadline interrupts `ReadBytes`
  (`streaming_client.cc:219`). `Terminates` says that this is the only place
  where the client can stay.
* `PythonClient`: weak fairness of the script and of the thread that consumes
  the generator, and again of the service or of the failure of the call, which
  has a timeout.
* `Playback`: weak fairness of `PresentFrame` and of a frame that is later than
  the one before: as long as the video plays its time advances to the horizon.
  `DueIsUsed` says nothing about a video that ends. Its hypothesis is what the
  code needs: a response is looked at only while another is queued behind it,
  and one without results holds up all those behind it for ever.
* `FrameTools`: weak fairness of each process of the pool and of `Pool.map`.

## Proofs

TLAPS proves the following for every value of the constants.

`SyncQueueProofs`, from `SyncQueueAssumption` (a finite set of threads, a
capacity of at least 1): the inductive invariant `IndInv` is the type invariant
with the control: who owns `m_`, and that the sleepers of each condition
variable are exactly the threads that wait in `Pop` or in `Push`. `NoLostPopSignal`
is inductive relative to it: it counts the threads that are awake, so each
action is shown to change the length of the queue and the number of awake
threads together (`PushWakes`, `PopWakes`). `NoLostPushSignal` needs that no
thread calls `Clear` (`NoClear`), which does not notify. `PollerNeverBlocks`
needs that the poller alone removes elements (`SolePopper`). From the two
properties of the signals follows `NeverAllAsleep`: threads that all sleep, sleep
at one end of the queue. `Refinement` maps
each step to one of `BoundedQueue` or to a stutter.

`PipeReaderProofs`, from `PipeReaderAssumption` and `StatusIsTrueAtStart`: the
inductive invariant adds to the types that no byte is lost (`Conserved`), who
holds `mtx_`, that `status_` is true exactly until the thread ends, and that
the thread ends with an empty chunk and, unless the channel failed, an empty
pipe of a writer that has gone. `EofComplete`, `NoDataRace`, `ThreadEndsFirst`
and the refinement of `ContentStream` follow from it.

`StreamingClientProofs`, from `StreamingClientAssumption`: every safety property
of the run, and the refinement of `AnnotateVideo`. None of them is inductive. The
inductive invariant `IndInv` adds to the types

* `MainControl` and `ReaderControl`: for each place of a thread, what the call,
  the source and the other threads have come to by then. `PlayerOutlived` follows
  from it, by way of the join of the reader thread.
* `Content`: what was read is the video up to some byte, and the call carries
  all of it but what is still to be sent. The second half, `Carried`, is a
  statement about the call alone: what the service has taken, followed by the
  requests in flight, is the stream up to the last byte sent. Each action of
  `AnnotationRpc` is shown to preserve it once, in `AnnotationRpcProofs`, for both
  clients. `TrueMeansSent` and `PlayerFindsVideo` follow.
* `LocalCopy`: the file is what was read but for what is still to be stored.
* `FedInOrder`, which is inductive with these. That `InsertStreamData` cuts a
  chunk into pieces that chain up and fit the buffer (`PiecesProperties`) is
  arithmetic of the ceiling.
* `Annotations`: until the call fails, the reader has taken the responses in
  order, and the file holds those processed but for the errors. "But for the
  errors" is said with a function that gives the place of each (`Places`), since
  the filter of the standard module is recursive.

`NeverStuck` needs no more than this invariant. If the call has ended, every thread
that waits for it can go on. If it is running, a full window leads to somebody
else: a main thread in `Write()` to the service that has requests to take, the
service to the reader thread that has responses to read. The only case that is not
control is the configuration, before which nothing can be in flight
(`NothingBeforeConfig`); and what ends an idle call is that the main thread has
half-closed it before it waits for the reader thread, the last clause of
`MainControl`. The deadline plays no part: `Terminates` needs it only for a service
that does not do its part.

`PythonClientProofs`, from `PythonClientAssumption`: the same along the same
lines, with the chunks that the generator has given in the place of what was
sent, and `Unprinted`, which says that the responses in flight are the next to
print. `NeverStuck` is about the script, the generator and the service here.

`PlaybackProofs`, from `PlaybackAssumption`: the inductive invariant follows each
response through its life. `Numbered` and `Log` are about the reader thread;
`Pending` says that the responses used, then `future_resp`, then the queue are
what was inserted, and `Drawn` that the used ones that can be drawn have been
drawn, in order. `NeverEarly` rests on `OffsetIsPosition`: the unsigned
subtraction gives the position in the video wherever the timestamps start and
wrap, as long as the video is shorter than the word.

`ProtoIOProofs`, from `ProtoIOAssumption`: that the bytes of the length are its
digits and are put together again (`EncodeDigits`, `DecodeOfEncode`), and from
it that reader and writer agree on where each record begins (`Records`,
`Reading`). The types, with the reader never beyond the end of the file, hold
unconditionally; that what is read is what was written holds where no byte of a
length changes when it is taken for a `char` (`NoByteIsNegative`). That is any
message where `char` is unsigned, and any of less than 128 bytes where it is
signed, each a theorem; the run `proto_io_signed` shows the others.

`FrameToolsProofs`, from `FrameToolsAssumption`: the types, with no two processes
at one video, and `NothingLeftBehind` hold unconditionally; `NamedByTime` and
`DrawnOverNearest` hold where no time is the number of a later frame of its
video (`NoTimeIsNumber`), and the run `frame_tools_long` shows what happens
otherwise. The inductive invariant has where each process is with its directory
(`Control`); the state between two renamings, in which the first frames have
their times for names and the others their numbers (`Renaming`); and what has
been drawn (`Drawing`). What an earlier run has left needs no place in it: where
there are as many files as frames and all the numbers are among their names,
nothing else is there (`NothingElse`). It takes that `sorted()` gives the times back
(`SortedTimes`) and that `bisect()` splits them (`BisectProperties`). Where such
a fact would be proved by induction, it is proved from the least counterexample
(`Least`, from the well-foundedness of the natural numbers as the library states
it).

Each inductive invariant was model-checked on the run of its module before it was
proved. `IndInv` of the clients, of `Playback` and of `FrameTools` is itself a
theorem (`Invariance`), and for `ProtoIO` and `FrameTools` one with the
hypothesis above.

Every safety property and every refinement that a passing run checks is thus
proved for all values of the constants. Model-checked only: the liveness
properties `FlowNeverStops`, `EndIsNoticed`, `Terminates` (three) and
`DueIsUsed`, which rest on fairness and are beyond the prover. No theorem goes
with the four runs that are violated, except that the hypotheses
`StatusIsTrueAtStart`, `NoByteIsNegative` and `NoTimeIsNumber` are what excludes
three of them.

## Not modelled

The set-up of SDL and ffmpeg, the drawing, and the pacing of the frames by
`SDL_Delay` are I/O; the audio queue of `MediaPlayer` is never used. The text
that `ProtoProcessor` logs and the Python scripts print is left out, and so are
the parsing of the flags and of the JSON configuration.
`convert_xml_to_csv.py` is a straight-line conversion. Sending too fast is
rejected by the server (`src/ingestion/documentation/live.md`): that is one
reason for `RpcFails`. A write to the local copy that the disk refuses is not
noticed by `FileWriter::WriteBytes` (`file_writer.cc:44`) nor looked at by
`SendContent`; `StoreChunk` takes the file to accept what it is given. Two
videos of one name share a directory of frames; `FrameTools` takes the names to
be distinct. Protocol buffers, build files and containers have no behaviour.

## Plan

Done: the modules above; the composition of the client with its source, the call
and the player, and the abstract client that the C++ program and the scripts
implement; the proofs of all the safety properties and refinements of the
passing runs.

Left, in this order:

1. The safety behind the liveness of `PipeReader`, as `NeverStuck` is it for the
   clients: that an end of the pipe always finds a thread to notice it.
2. A bound on what `AnnotationRpc` keeps in flight, and on `data_` of
   `PipeReader`, whose growth the windows of the call cause.
3. `Clear` of a full queue as a run of its own, should the client ever call it.
