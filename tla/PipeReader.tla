------------------------------ MODULE PipeReader ------------------------------
(***************************************************************************)
(* PipeReader of ingestion/client/cpp/pipe_reader.cc with what surrounds   *)
(* it: the process that writes into the named pipe (gStreamer in live.md), *)
(* the kernel's pipe, the detached thread that runs ReadPipe, and the      *)
(* thread of SendContent that calls Open, ReadBytes, Close and destroys    *)
(* the object.  The two threads share data_ under mtx_, and status_, which *)
(* ReadBytes polls in a busy loop.                                         *)
(***************************************************************************)
EXTENDS Naturals, Sequences

CONSTANTS
    StreamLength, MaxRead,  \* as in ContentStream
    PipeCapacity,           \* bytes the kernel holds for the pipe
    PipeSize,               \* kPipeSize, the size of ReadPipe's buffer
    MayFail,                \* whether poll() and read() may fail for good
    StatusAtStart           \* the values that status_, which no constructor
                            \* initializes, may have when the object is made

ASSUME PipeReaderAssumption ==
    /\ StreamLength \in Nat
    /\ MaxRead \in Nat \ {0}
    /\ PipeCapacity \in Nat \ {0}
    /\ PipeSize \in Nat \ {0}
    /\ MayFail \in BOOLEAN
    /\ StatusAtStart # {} /\ StatusAtStart \subseteq BOOLEAN

VARIABLES
    written, writer, failed, delivered, ended,  \* as in ContentStream
    pipe,       \* the bytes in the kernel's pipe
    pipe_fd_,   \* "closed" (-1) or "open"
    rp,         \* where ReadPipe is: "none" before the thread exists
    revents,    \* what the last poll() returned
    chunk,      \* the bytes of ReadPipe's buffer that are not yet in data_
    data_,      \* the bytes ReadBytes will return
    mtx_,       \* the owner of the mutex: "free", "ReadPipe" or "ReadBytes"
    status_,    \* "the status of read_thread_"
    rb          \* where the thread of SendContent is

vars == <<written, writer, failed, delivered, ended, pipe, pipe_fd_,
          rp, revents, chunk, data_, mtx_, status_, rb>>

stream == <<written, writer, failed, delivered, ended>>
kernel == <<pipe, pipe_fd_>>
reader == <<rp, revents, chunk>>
object == <<data_, mtx_, status_>>

Least(m, n) == IF m < n THEN m ELSE n
Take(s, n) == SubSeq(s, 1, Least(n, Len(s)))
Drop(s, n) == SubSeq(s, Least(n, Len(s)) + 1, Len(s))

Stream == INSTANCE ContentStream

Init ==
    /\ Stream!Init
    /\ pipe = <<>>
    /\ pipe_fd_ = "closed"
    /\ rp = "none"
    /\ revents = {}
    /\ chunk = <<>>
    /\ data_ = <<>>
    /\ mtx_ = "free"
    /\ status_ \in StatusAtStart
    /\ rb = "start"

-------------------------------------------------------------------------------
\* The producer.  Its open() waits for a reader, its write() for room in the
\* pipe; a write() to a pipe nobody reads kills it.

Connect ==
    /\ Stream!Connect
    /\ pipe_fd_ = "open"
    /\ UNCHANGED <<kernel, reader, object, rb>>

Write ==
    /\ Stream!Write
    /\ pipe_fd_ = "open"
    /\ Len(pipe) < PipeCapacity
    /\ pipe' = Append(pipe, Len(written) + 1)
    /\ UNCHANGED <<pipe_fd_, reader, object, rb>>

Disconnect ==
    /\ Stream!Disconnect
    /\ UNCHANGED <<kernel, reader, object, rb>>

-------------------------------------------------------------------------------
\* ReadPipe.  Nothing is said of its steps once the object is destroyed.

At(l) == rp = l /\ rb # "destroyed"

\* status_ = false; return;
Finish ==
    /\ rp' = "done"
    /\ status_' = FALSE

StartReadPipe ==
    /\ At("start")
    /\ status_' = TRUE
    /\ rp' = "poll"
    /\ UNCHANGED <<stream, kernel, revents, chunk, data_, mtx_, rb>>

\* What the kernel reports for a pipe.
Events ==
    {e \in {"POLLIN", "POLLHUP"} :
        IF e = "POLLIN" THEN pipe # <<>> ELSE writer = "closed"}

\* Mutant of Poll: status_ is cleared as soon as POLLHUP is seen, not at the end.
PollClearStatus ==
    /\ At("poll")
    /\ pipe_fd_ = "open"
    /\ Events # {}
    /\ revents' = Events
    /\ rp' = IF "POLLIN" \in Events THEN "read" ELSE "hangup"
    /\ status_' = ("POLLHUP" \notin Events)
    /\ UNCHANGED <<stream, kernel, chunk, data_, mtx_, rb>>

\* poll() that returns events.  One that times out or is interrupted, and any on
\* a pipe_fd_ of -1, only comes round again.
Poll ==
    /\ At("poll")
    /\ pipe_fd_ = "open"
    /\ Events # {}
    /\ revents' = Events
    /\ rp' = IF "POLLIN" \in Events THEN "read" ELSE "hangup"
    /\ UNCHANGED <<stream, kernel, chunk, object, rb>>

\* Mutant of Read: read() is not told the size of the buffer.
ReadUnbounded ==
    /\ At("read")
    /\ pipe_fd_ = "open"
    /\ pipe # <<>>
    /\ chunk' = pipe
    /\ pipe' = <<>>
    /\ rp' = "lock"
    /\ UNCHANGED <<stream, pipe_fd_, revents, object, rb>>

Read ==
    /\ At("read")
    /\ pipe_fd_ = "open"
    /\ pipe # <<>>
    /\ chunk' = Take(pipe, PipeSize)
    /\ pipe' = Drop(pipe, PipeSize)
    /\ rp' = "lock"
    /\ UNCHANGED <<stream, pipe_fd_, revents, object, rb>>

\* read() returns 0 or EAGAIN: the do loop is left.
ReadNothing ==
    /\ At("read")
    /\ pipe_fd_ = "open"
    /\ pipe = <<>>
    /\ rp' = "hangup"
    /\ UNCHANGED <<stream, kernel, revents, chunk, object, rb>>

\* poll() or read() fails for good: always with EBADF when read() comes after
\* Close(), and whenever MayFail lets the kernel report another error.
PipeFailed ==
    /\ At("poll") \/ At("read")
    /\ MayFail \/ (rp = "read" /\ pipe_fd_ = "closed")
    /\ Stream!Fail
    /\ Finish
    /\ UNCHANGED <<kernel, revents, chunk, data_, mtx_, rb>>

\* Mutant of LockAppend: data_ is appended to outside mtx_.
LockAppendNot ==
    /\ At("lock")
    /\ rp' = "append"
    /\ UNCHANGED <<stream, kernel, revents, chunk, object, rb>>

LockAppend ==
    /\ At("lock")
    /\ mtx_ = "free"
    /\ mtx_' = "ReadPipe"
    /\ rp' = "append"
    /\ UNCHANGED <<stream, kernel, revents, chunk, data_, status_, rb>>

\* Mutant of AppendData: data_ is assigned, not appended to.
AssignData ==
    /\ At("append")
    /\ data_' = chunk
    /\ chunk' = <<>>
    /\ mtx_' = "free"
    /\ rp' = "read"
    /\ UNCHANGED <<stream, kernel, revents, status_, rb>>

AppendData ==
    /\ At("append")
    /\ data_' = data_ \o chunk
    /\ chunk' = <<>>
    /\ mtx_' = "free"
    /\ rp' = "read"
    /\ UNCHANGED <<stream, kernel, revents, status_, rb>>

\* Mutant of HangUp: the thread returns without the assignment to status_.
HangUpSilently ==
    /\ At("hangup")
    /\ rp' = IF "POLLHUP" \in revents THEN "done" ELSE "poll"
    /\ UNCHANGED <<stream, kernel, revents, chunk, object, rb>>

\* After the do loop: the thread ends if the poll() before it saw POLLHUP.
HangUp ==
    /\ At("hangup")
    /\ IF "POLLHUP" \in revents THEN Finish
       ELSE rp' = "poll" /\ UNCHANGED status_
    /\ UNCHANGED <<stream, kernel, revents, chunk, data_, mtx_, rb>>

Proceed ==
    \/ StartReadPipe
    \/ Poll
    \/ Read
    \/ ReadNothing
    \/ LockAppend
    \/ AppendData
    \/ HangUp

ReadPipe == Proceed \/ PipeFailed

-------------------------------------------------------------------------------
\* The thread of SendContent.

Open ==
    /\ rb = "start"
    /\ pipe_fd_' = "open"
    /\ rp' = "start"
    /\ rb' = "idle"
    /\ UNCHANGED <<stream, pipe, revents, chunk, object>>

\* open() fails: Open() returns false, and CHECK(reader->Open()) ends the process.
OpenFails ==
    /\ rb = "start"
    /\ Stream!GiveUp
    /\ rb' = "destroyed"
    /\ UNCHANGED <<kernel, reader, object>>

\* ReadBytes is called, or comes round its while loop: status_ is read outside mtx_.
CheckStatus ==
    /\ rb \in {"idle", "check"}
    /\ rb' = IF status_ THEN "lock" ELSE "tail"
    /\ UNCHANGED <<stream, kernel, reader, object>>

LockData ==
    /\ rb = "lock"
    /\ mtx_ = "free"
    /\ mtx_' = "ReadBytes"
    /\ rb' = "crit"
    /\ UNCHANGED <<stream, kernel, reader, data_, status_>>

\* ReadBytes returns bytes of data_ to SendContent, which will call it again.
ReturnBytes ==
    /\ data_ # <<>>
    /\ delivered' = delivered \o Take(data_, MaxRead)
    /\ data_' = Drop(data_, MaxRead)
    /\ rb' = "idle"
    /\ UNCHANGED <<written, writer, failed, ended>>

\* ReadBytes returns 0, and SendContent leaves its loop.
ReturnZero ==
    /\ ended' = "eof"
    /\ rb' = "left"
    /\ UNCHANGED <<written, writer, failed, delivered, data_>>

ReadLocked ==
    /\ rb = "crit"
    /\ mtx_' = "free"
    /\ \/ ReturnBytes
       \/ /\ data_ = <<>>
          /\ rb' = "check"
          /\ UNCHANGED <<stream, data_>>
    /\ UNCHANGED <<kernel, reader, status_>>

\* Mutant of ReadTail: what is left in data_ is forgotten.
ReadTailNothing ==
    /\ rb = "tail"
    /\ ReturnZero
    /\ UNCHANGED <<kernel, reader, mtx_, status_>>

\* The lines after the while loop, outside mtx_.
ReadTail ==
    /\ rb = "tail"
    /\ \/ ReturnBytes
       \/ data_ = <<>> /\ ReturnZero
    /\ UNCHANGED <<kernel, reader, mtx_, status_>>

\* stream_->Write() fails, and SendContent leaves its loop.
GiveUp ==
    /\ rb = "idle"
    /\ delivered # <<>>
    /\ Stream!GiveUp
    /\ rb' = "left"
    /\ UNCHANGED <<kernel, reader, object>>

Close ==
    /\ rb = "left"
    /\ pipe_fd_' = "closed"
    /\ rb' = "closed"
    /\ UNCHANGED <<stream, pipe, reader, object>>

\* The unique_ptr of SendContent goes out of scope; the detached thread is not
\* waited for.
Destroy ==
    /\ rb = "closed"
    /\ rb' = "destroyed"
    /\ UNCHANGED <<stream, kernel, reader, object>>

SendContent ==
    \/ Open
    \/ OpenFails
    \/ CheckStatus
    \/ LockData
    \/ ReadLocked
    \/ ReadTail
    \/ GiveUp
    \/ Close
    \/ Destroy

Next ==
    \/ Connect
    \/ Write
    \/ Disconnect
    \/ ReadPipe
    \/ SendContent

Spec == Init /\ [][Next]_vars

\* Both threads run on, and each gets the mutex that the other one releases
\* again and again.  Of the producer nothing is assumed, and no error of the
\* kernel comes to the rescue.
Fairness ==
    /\ WF_vars(Proceed)
    /\ WF_vars(SendContent)
    /\ SF_vars(LockAppend)
    /\ SF_vars(LockData)

FairSpec == Spec /\ Fairness

-------------------------------------------------------------------------------
Bytes == 1..StreamLength

\* Types, and the bounds of the kernel's buffer and of ReadPipe's.
TypeOK ==
    /\ written \in Seq(Bytes)
    /\ writer \in {"absent", "open", "closed"}
    /\ failed \in BOOLEAN
    /\ delivered \in Seq(Bytes)
    /\ ended \in {"no", "eof", "gaveup"}
    /\ pipe \in Seq(Bytes) /\ Len(pipe) <= PipeCapacity
    /\ pipe_fd_ \in {"closed", "open"}
    /\ rp \in {"none", "start", "poll", "read", "lock", "append", "hangup", "done"}
    /\ revents \in SUBSET {"POLLIN", "POLLHUP"}
    /\ chunk \in Seq(Bytes) /\ Len(chunk) <= PipeSize
    /\ data_ \in Seq(Bytes)
    /\ mtx_ \in {"free", "ReadPipe", "ReadBytes"}
    /\ status_ \in BOOLEAN
    /\ rb \in {"start", "idle", "check", "lock", "crit", "tail",
               "left", "closed", "destroyed"}

\* No byte is lost, duplicated or reordered on its way through the kernel, the
\* buffer of ReadPipe and data_.
Conserved == delivered \o data_ \o chunk \o pipe = written

\* When ReadBytes returns 0 on a pipe that has not failed, the producer has gone
\* and all it wrote has been returned.
EofComplete ==
    ended = "eof" => failed \/ (writer = "closed" /\ delivered = written)

\* The two threads never touch data_ at the same time, although the last part of
\* ReadBytes takes no lock.
NoDataRace == ~(rp = "append" /\ rb \in {"crit", "tail"})

\* The descriptor is closed and the object destroyed only after the last access
\* of the detached thread, unless SendContent gave up before the end.
ThreadEndsFirst ==
    rb \in {"closed", "destroyed"} => rp = "done" \/ ended = "gaveup"

\* ReadBytes implements what SendContent needs of an IOReader.
Implements == Stream!Spec

\* A producer that has gone is noticed: SendContent, in its busy loop, comes to
\* the end of the stream.
EndIsNoticed == (writer = "closed") ~> (ended # "no")
===============================================================================
