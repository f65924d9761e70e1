--------------------------- MODULE PipeReaderProofs ---------------------------
(***************************************************************************)
(* Theorems about PipeReader for every length of the stream and every size *)
(* of the buffers, on the assumption that status_ starts out as true (the  *)
(* run pipe_reader_status shows what happens otherwise).                   *)
(***************************************************************************)
EXTENDS PipeReader, SequenceTheorems, TLAPS

StatusIsTrueAtStart == StatusAtStart = {TRUE}

\* Who owns the mutex, and where the local buffer is in use.
Locks ==
    /\ mtx_ = "ReadPipe" <=> rp = "append"
    /\ mtx_ = "ReadBytes" <=> rb = "crit"
    /\ chunk # <<>> => rp \in {"lock", "append"}

\* status_ says whether the thread is done, and ReadBytes takes its unlocked
\* path, or returns 0, only after that.
Status ==
    /\ status_ = FALSE <=> rp = "done"
    /\ rb = "start" => rp = "none"
    /\ rb = "tail" => rp = "done"
    /\ ended = "no" <=> rb \notin {"left", "closed", "destroyed"}
    /\ ended = "eof" => rp = "done" /\ data_ = <<>>
    /\ pipe_fd_ = "closed" => rb \in {"start", "closed", "destroyed"}

\* The thread is done when the producer has gone and the pipe is empty.
Drained ==
    /\ "POLLHUP" \in revents => writer = "closed"
    /\ rp = "hangup" /\ "POLLHUP" \in revents => pipe = <<>>
    /\ rp = "done" => failed \/ (writer = "closed" /\ pipe = <<>>)

IndInv == TypeOK /\ Conserved /\ Locks /\ Status /\ Drained

-------------------------------------------------------------------------------
\* Take and Drop cut a sequence in two.
LEMMA CutProperties ==
  ASSUME NEW S, NEW s \in Seq(S), NEW n \in Nat \ {0}
  PROVE  /\ Take(s, n) \in Seq(S)
         /\ Drop(s, n) \in Seq(S)
         /\ Take(s, n) \o Drop(s, n) = s
         /\ Len(Take(s, n)) = Least(n, Len(s))
         /\ Len(Drop(s, n)) = Len(s) - Least(n, Len(s))
<1>. DEFINE k == Least(n, Len(s))
<1>1. /\ Len(s) \in Nat /\ k \in 0..Len(s)
      /\ \A i \in 1..Len(s) : s[i] \in S
  BY DEF Least
<1>2. /\ Take(s, n) = SubSeq(s, 1, k)
      /\ Drop(s, n) = SubSeq(s, k + 1, Len(s))
  BY DEF Take, Drop
<1>. HIDE DEF k
<1>3. /\ SubSeq(s, 1, k) \in Seq(S)
      /\ Len(SubSeq(s, 1, k)) = k
  BY <1>1, SubSeqProperties
<1>4. /\ SubSeq(s, k + 1, Len(s)) \in Seq(S)
      /\ Len(SubSeq(s, k + 1, Len(s))) = Len(s) - k
  <2>1. \A i \in (k + 1)..Len(s) : s[i] \in S
    BY <1>1
  <2>2. k + 1 \in Int /\ Len(s) \in Int
    BY <1>1
  <2>. QED BY <1>1, <2>1, <2>2, SubSeqProperties
<1>5. SubSeq(s, 1, k) \o SubSeq(s, k + 1, Len(s)) = SubSeq(s, 1, Len(s))
  <2>1. 1 \in 1..Len(s) + 1 /\ k \in 1 - 1..Len(s) /\ Len(s) \in k..Len(s)
    BY <1>1
  <2>. QED BY <2>1, ConcatAdjacentSubSeq
<1>6. SubSeq(s, 1, Len(s)) = s
  BY SubSeqFull
<1>. QED BY <1>2, <1>3, <1>4, <1>5, <1>6 DEF k

\* A prefix of a concatenation.
LEMMA PrefixOfConcat ==
  ASSUME NEW S, NEW s \in Seq(S), NEW t \in Seq(S)
  PROVE  SubSeq(s \o t, 1, Len(s)) = s
<1>1. CASE Len(s) = 0
  BY <1>1, SubSeqEmpty, EmptySeq
<1>2. CASE Len(s) # 0
  <2>1. Len(s) \in 1..Len(s) /\ 1 \in 1..Len(s)
    BY <1>2
  <2>2. SubSeq(s \o t, 1, Len(s)) = SubSeq(s, 1, Len(s))
    BY <2>1, SubSeqOfConcat1
  <2>. QED BY <2>2, SubSeqFull
<1>. QED BY <1>1, <1>2

-------------------------------------------------------------------------------
LEMMA Sizes ==
  /\ StreamLength \in Nat
  /\ MaxRead \in Nat \ {0} /\ PipeCapacity \in Nat \ {0} /\ PipeSize \in Nat \ {0}
BY PipeReaderAssumption

LEMMA InitIndInv == StatusIsTrueAtStart /\ Init => IndInv
<1>. SUFFICES ASSUME StatusIsTrueAtStart, Init PROVE IndInv
  OBVIOUS
<1>. USE DEF Init, Stream!Init, StatusIsTrueAtStart
<1>1. <<>> \in Seq(Bytes) /\ Len(<<>>) = 0
  OBVIOUS
<1>2. TypeOK
  <2>1. Len(<<>>) <= PipeCapacity /\ Len(<<>>) <= PipeSize
    BY <1>1, Sizes
  <2>2. status_ \in BOOLEAN
    OBVIOUS
  <2>. QED BY <1>1, <2>1, <2>2 DEF TypeOK
<1>3. Conserved
  <2>1. <<>> \o <<>> = <<>>
    BY <1>1, ConcatEmptySeq
  <2>. QED BY <2>1 DEF Conserved
<1>. QED BY <1>2, <1>3 DEF IndInv, Locks, Status, Drained

LEMMA NextTypeOK == TypeOK /\ [Next]_vars => TypeOK'
<1>. SUFFICES ASSUME TypeOK, [Next]_vars PROVE TypeOK'
  OBVIOUS
<1>. USE DEF TypeOK, stream, kernel, reader, object
<1>1. CASE UNCHANGED vars
  BY <1>1 DEF vars
<1>2. CASE Connect
  BY <1>2 DEF Connect, Stream!Connect
<1>3. CASE Write
  <2>1. Len(written) + 1 \in Bytes
    <3>1. Len(written) \in Nat /\ Len(written) < StreamLength
      BY <1>3 DEF Write, Stream!Write
    <3>. QED BY <3>1, Sizes DEF Bytes
  <2>2. /\ written' \in Seq(Bytes)
        /\ pipe' \in Seq(Bytes) /\ Len(pipe') = Len(pipe) + 1
    BY <1>3, <2>1, AppendProperties DEF Write, Stream!Write
  <2>3. Len(pipe') <= PipeCapacity
    <3>1. Len(pipe) \in Nat /\ Len(pipe) < PipeCapacity
      BY <1>3 DEF Write
    <3>. QED BY <2>2, <3>1, Sizes
  <2>. QED BY <1>3, <2>2, <2>3 DEF Write, Stream!Write
<1>4. CASE Disconnect
  BY <1>4 DEF Disconnect, Stream!Disconnect
<1>5. CASE StartReadPipe
  BY <1>5 DEF StartReadPipe
<1>6. CASE Poll
  BY <1>6 DEF Poll, Events
<1>7. CASE Read
  <2>1. /\ chunk' \in Seq(Bytes) /\ Len(chunk') <= PipeSize
        /\ pipe' \in Seq(Bytes) /\ Len(pipe') <= PipeCapacity
    BY <1>7, CutProperties, Sizes DEF Read, Least
  <2>. QED BY <1>7, <2>1 DEF Read
<1>8. CASE ReadNothing
  BY <1>8 DEF ReadNothing
<1>9. CASE PipeFailed
  BY <1>9 DEF PipeFailed, Stream!Fail, Stream!SameContent, Finish
<1>10. CASE LockAppend
  BY <1>10 DEF LockAppend
<1>11. CASE AppendData
  <2>1. data_' \in Seq(Bytes) /\ chunk' = <<>>
    BY <1>11, ConcatProperties DEF AppendData
  <2>2. chunk' \in Seq(Bytes) /\ Len(chunk') <= PipeSize
    BY <2>1, EmptySeq, Sizes
  <2>. QED BY <1>11, <2>1, <2>2 DEF AppendData
<1>12. CASE HangUp
  BY <1>12 DEF HangUp, Finish
<1>13. CASE Open
  BY <1>13 DEF Open
<1>14. CASE OpenFails
  BY <1>14 DEF OpenFails, Stream!GiveUp, Stream!SameContent
<1>15. CASE CheckStatus
  BY <1>15 DEF CheckStatus
<1>16. CASE LockData
  BY <1>16 DEF LockData
<1>17. ASSUME ReturnBytes
       PROVE  delivered' \in Seq(Bytes) /\ data_' \in Seq(Bytes)
  BY <1>17, CutProperties, ConcatProperties, Sizes DEF ReturnBytes
<1>18. CASE ReadLocked
  <2>1. CASE ReturnBytes
    BY <1>18, <2>1, <1>17 DEF ReadLocked, ReturnBytes
  <2>2. CASE ~ReturnBytes
    BY <1>18, <2>2 DEF ReadLocked
  <2>. QED BY <2>1, <2>2
<1>19. CASE ReadTail
  <2>1. CASE ReturnBytes
    BY <1>19, <2>1, <1>17 DEF ReadTail, ReturnBytes
  <2>2. CASE ~ReturnBytes
    BY <1>19, <2>2 DEF ReadTail, ReturnZero
  <2>. QED BY <2>1, <2>2
<1>20. CASE GiveUp
  BY <1>20 DEF GiveUp, Stream!GiveUp, Stream!SameContent
<1>21. CASE Close
  BY <1>21 DEF Close
<1>22. CASE Destroy
  BY <1>22 DEF Destroy
<1>. QED
  BY <1>1, <1>2, <1>3, <1>4, <1>5, <1>6, <1>7, <1>8, <1>9, <1>10, <1>11, <1>12,
     <1>13, <1>14, <1>15, <1>16, <1>18, <1>19, <1>20, <1>21, <1>22
  DEF Next, ReadPipe, Proceed, SendContent

\* The four places where bytes move.
LEMMA NextConserved == IndInv /\ [Next]_vars => Conserved'
<1>. SUFFICES ASSUME IndInv, [Next]_vars PROVE Conserved'
  OBVIOUS
<1>. USE DEF stream, kernel, reader, object
<1>a. /\ written \in Seq(Bytes) /\ delivered \in Seq(Bytes) /\ data_ \in Seq(Bytes)
      /\ chunk \in Seq(Bytes) /\ pipe \in Seq(Bytes)
      /\ delivered \o data_ \o chunk \o pipe = written
  BY DEF IndInv, TypeOK, Conserved
<1>0. ASSUME UNCHANGED <<written, delivered, data_, chunk, pipe>> PROVE Conserved'
  BY <1>0, <1>a DEF Conserved
<1>1. CASE UNCHANGED vars
  BY <1>1, <1>0 DEF vars
<1>2. CASE Write
  <2>. DEFINE b == Len(written) + 1
              f == delivered \o data_ \o chunk
  <2>1. /\ written' = Append(written, b) /\ pipe' = Append(pipe, b)
        /\ UNCHANGED <<delivered, data_, chunk>>
        /\ b \in Bytes
    BY <1>2, <1>a, Sizes DEF Write, Stream!Write, Bytes
  <2>2. f \in Seq(Bytes) /\ <<b>> \in Seq(Bytes)
    BY <1>a, <2>1, ConcatProperties
  <2>. HIDE DEF b, f
  <2>3. f \o (pipe \o <<b>>) = (f \o pipe) \o <<b>>
    BY <1>a, <2>2, ConcatAssociative
  <2>4. Append(pipe, b) = pipe \o <<b>> /\ Append(written, b) = written \o <<b>>
    BY <1>a, <2>1, AppendIsConcat
  <2>. QED BY <1>a, <2>1, <2>3, <2>4 DEF Conserved, f
<1>3. CASE Read
  <2>1. /\ chunk = <<>>
        /\ chunk' = Take(pipe, PipeSize) /\ pipe' = Drop(pipe, PipeSize)
        /\ UNCHANGED <<written, delivered, data_>>
    BY <1>3 DEF Read, At, IndInv, Locks
  <2>2. /\ chunk' \in Seq(Bytes) /\ pipe' \in Seq(Bytes)
        /\ chunk' \o pipe' = pipe
    BY <1>a, <2>1, CutProperties, Sizes
  <2>3. delivered \o data_ \o chunk = delivered \o data_
    BY <1>a, <2>1, ConcatEmptySeq, ConcatProperties
  <2>4. delivered \o data_ \o chunk' \o pipe' = delivered \o data_ \o (chunk' \o pipe')
    <3>1. /\ delivered \o data_ \in Seq(Bytes)
          /\ chunk' \in Seq(Bytes) /\ pipe' \in Seq(Bytes)
      BY <1>a, <2>2, ConcatProperties
    <3>. QED BY <3>1, ConcatAssociative
  <2>. QED BY <1>a, <2>1, <2>2, <2>3, <2>4 DEF Conserved
<1>4. CASE AppendData
  <2>1. /\ data_' = data_ \o chunk /\ chunk' = <<>>
        /\ UNCHANGED <<written, delivered, pipe>>
    BY <1>4 DEF AppendData
  <2>2. data_' \in Seq(Bytes)
    BY <1>a, <2>1, ConcatProperties
  <2>3. delivered \o data_' \o chunk' = delivered \o data_'
    BY <1>a, <2>1, <2>2, ConcatEmptySeq, ConcatProperties
  <2>4. delivered \o data_ \o chunk \o pipe = delivered \o (data_ \o chunk) \o pipe
    <3>1. delivered \in Seq(Bytes) /\ data_ \in Seq(Bytes) /\ chunk \in Seq(Bytes)
      BY <1>a
    <3>. QED BY <3>1, ConcatAssociative
  <2>. QED BY <1>a, <2>1, <2>3, <2>4 DEF Conserved
<1>5. ASSUME ReturnBytes, UNCHANGED <<pipe, chunk>> PROVE Conserved'
  <2>. DEFINE t == Take(data_, MaxRead)
              d == Drop(data_, MaxRead)
  <2>1. /\ t \in Seq(Bytes) /\ d \in Seq(Bytes) /\ t \o d = data_
    BY <1>a, CutProperties, Sizes
  <2>2. delivered' = delivered \o t /\ data_' = d /\ written' = written
    BY <1>5 DEF ReturnBytes
  <2>. HIDE DEF t, d
  <2>3. delivered \o (t \o d) = delivered \o t \o d
    <3>1. delivered \in Seq(Bytes) /\ t \in Seq(Bytes) /\ d \in Seq(Bytes)
      BY <1>a, <2>1
    <3>. QED BY <3>1, ConcatAssociative
  <2>. QED BY <1>5, <1>a, <2>1, <2>2, <2>3 DEF Conserved
<1>6. CASE ReadLocked \/ ReadTail
  <2>1. CASE ReturnBytes
    BY <1>5, <1>6, <2>1 DEF ReadLocked, ReadTail
  <2>2. CASE ~ReturnBytes
    BY <1>0, <1>6, <2>2 DEF ReadLocked, ReadTail, ReturnZero
  <2>. QED BY <2>1, <2>2
<1>7. CASE Connect \/ Disconnect
  BY <1>0, <1>7 DEF Connect, Disconnect, Stream!Connect, Stream!Disconnect
<1>8. CASE StartReadPipe \/ Poll \/ ReadNothing \/ PipeFailed \/ LockAppend \/ HangUp
  BY <1>0, <1>8
  DEF StartReadPipe, Poll, ReadNothing, PipeFailed, LockAppend, HangUp,
    Stream!Fail, Stream!SameContent
<1>9. CASE Open \/ OpenFails \/ CheckStatus \/ LockData \/ GiveUp \/ Close \/ Destroy
  BY <1>0, <1>9
  DEF Open, OpenFails, CheckStatus, LockData, GiveUp, Close, Destroy,
    Stream!GiveUp, Stream!SameContent
<1>. QED
  BY <1>1, <1>2, <1>3, <1>4, <1>6, <1>7, <1>8, <1>9 DEF Next, ReadPipe, Proceed, SendContent

\* The control of the two threads.
LEMMA NextControl == IndInv /\ [Next]_vars => Locks' /\ Status' /\ Drained'
<1>. SUFFICES ASSUME IndInv, [Next]_vars PROVE Locks' /\ Status' /\ Drained'
  OBVIOUS
<1>. USE DEF IndInv, Locks, Status, Drained, stream, kernel, reader, object
<1>a. /\ failed \in BOOLEAN /\ status_ \in BOOLEAN
      /\ rp \in {"none", "start", "poll", "read", "lock", "append", "hangup", "done"}
  BY DEF TypeOK
<1>1. CASE UNCHANGED vars
  BY <1>1 DEF vars
<1>2. CASE Connect
  BY <1>2 DEF Connect, Stream!Connect
<1>3. CASE Write
  BY <1>3 DEF Write, Stream!Write
<1>4. CASE Disconnect
  BY <1>4 DEF Disconnect, Stream!Disconnect
<1>5. CASE StartReadPipe
  BY <1>5, <1>a DEF StartReadPipe, At
<1>6. CASE Poll
  BY <1>6 DEF Poll, At, Events
<1>7. CASE Read
  BY <1>7 DEF Read, At
<1>8. CASE ReadNothing
  BY <1>8 DEF ReadNothing, At
<1>9. CASE PipeFailed
  BY <1>9 DEF PipeFailed, At, Stream!Fail, Stream!SameContent, Finish
<1>10. CASE LockAppend
  BY <1>10 DEF LockAppend, At
<1>11. CASE AppendData
  BY <1>11 DEF AppendData, At
<1>12. CASE HangUp
  BY <1>12, <1>a DEF HangUp, At, Finish
<1>13. CASE Open
  BY <1>13, <1>a DEF Open
<1>14. CASE OpenFails
  BY <1>14 DEF OpenFails, Stream!GiveUp, Stream!SameContent
<1>15. CASE CheckStatus
  BY <1>15, <1>a DEF CheckStatus
<1>16. CASE LockData
  BY <1>16 DEF LockData
<1>17. CASE ReadLocked
  BY <1>17 DEF ReadLocked, ReturnBytes
<1>18. CASE ReadTail
  BY <1>18 DEF ReadTail, ReturnBytes, ReturnZero
<1>19. CASE GiveUp
  BY <1>19 DEF GiveUp, Stream!GiveUp, Stream!SameContent
<1>20. CASE Close
  BY <1>20 DEF Close
<1>21. CASE Destroy
  BY <1>21 DEF Destroy
<1>. QED
  BY <1>1, <1>2, <1>3, <1>4, <1>5, <1>6, <1>7, <1>8, <1>9, <1>10, <1>11, <1>12,
     <1>13, <1>14, <1>15, <1>16, <1>17, <1>18, <1>19, <1>20, <1>21
  DEF Next, ReadPipe, Proceed, SendContent

LEMMA NextIndInv == IndInv /\ [Next]_vars => IndInv'
BY NextTypeOK, NextConserved, NextControl DEF IndInv

-------------------------------------------------------------------------------
\* Types and buffer bounds: ReadPipe never holds more than kPipeSize bytes.
THEOREM TypeCorrect == StatusIsTrueAtStart => (Spec => []TypeOK)
<1>. SUFFICES ASSUME StatusIsTrueAtStart PROVE Spec => []TypeOK
  OBVIOUS
<1>1. IndInv => TypeOK
  BY DEF IndInv
<1>. QED BY <1>1, InitIndInv, NextIndInv, PTL DEF Spec

\* Whatever the interleaving of the producer, ReadPipe and ReadBytes, the bytes
\* returned, cached, buffered and in the pipe are those written, in order.
THEOREM BytesAreConserved == StatusIsTrueAtStart => (Spec => []Conserved)
<1>. SUFFICES ASSUME StatusIsTrueAtStart PROVE Spec => []Conserved
  OBVIOUS
<1>1. IndInv => Conserved
  BY DEF IndInv
<1>. QED BY <1>1, InitIndInv, NextIndInv, PTL DEF Spec

\* The unlocked end of ReadBytes never meets data_.append() of ReadPipe.
THEOREM DataIsNotRaced == StatusIsTrueAtStart => (Spec => []NoDataRace)
<1>. SUFFICES ASSUME StatusIsTrueAtStart PROVE Spec => []NoDataRace
  OBVIOUS
<1>1. IndInv => NoDataRace
  BY DEF IndInv, Locks, Status, NoDataRace
<1>. QED BY <1>1, InitIndInv, NextIndInv, PTL DEF Spec

\* SendContent closes and destroys the reader at the end of the stream only when
\* the detached thread has made its last access to it.
THEOREM ThreadEndsBeforeReader == StatusIsTrueAtStart => (Spec => []ThreadEndsFirst)
<1>. SUFFICES ASSUME StatusIsTrueAtStart PROVE Spec => []ThreadEndsFirst
  OBVIOUS
<1>1. IndInv => ThreadEndsFirst
  BY DEF IndInv, TypeOK, Status, ThreadEndsFirst
<1>. QED BY <1>1, InitIndInv, NextIndInv, PTL DEF Spec

\* What the run pipe_reader_status refutes holds once status_ starts as true.
LEMMA AllDelivered ==
  IndInv /\ rp = "done" /\ data_ = <<>> =>
    failed \/ (writer = "closed" /\ delivered = written)
<1>. SUFFICES ASSUME IndInv, rp = "done", data_ = <<>>, ~failed
              PROVE  writer = "closed" /\ delivered = written
  BY DEF IndInv, TypeOK
<1>1. writer = "closed" /\ pipe = <<>> /\ chunk = <<>>
  BY DEF IndInv, Drained, Locks
<1>2. delivered \in Seq(Bytes) /\ delivered \o <<>> = delivered
  BY ConcatEmptySeq DEF IndInv, TypeOK
<1>. QED BY <1>1, <1>2 DEF IndInv, Conserved

\* A 0 of ReadBytes on a channel that has not failed means that all was delivered.
THEOREM EofIsComplete == StatusIsTrueAtStart => (Spec => []EofComplete)
<1>. SUFFICES ASSUME StatusIsTrueAtStart PROVE Spec => []EofComplete
  OBVIOUS
<1>1. IndInv => EofComplete
  BY AllDelivered DEF IndInv, Status, EofComplete
<1>. QED BY <1>1, InitIndInv, NextIndInv, PTL DEF Spec

-------------------------------------------------------------------------------
LEMMA ReturnBytesDelivers ==
  ASSUME IndInv, ended = "no", ReturnBytes PROVE Stream!Deliver
<1>. DEFINE t == Take(data_, MaxRead)
            d == Drop(data_, MaxRead)
            n == Least(MaxRead, Len(data_))
<1>1. /\ delivered \in Seq(Bytes) /\ data_ \in Seq(Bytes)
      /\ chunk \in Seq(Bytes) /\ pipe \in Seq(Bytes)
      /\ delivered \o data_ \o chunk \o pipe = written
  BY DEF IndInv, TypeOK, Conserved
<1>2. /\ t \in Seq(Bytes) /\ d \in Seq(Bytes) /\ t \o d = data_
      /\ Len(t) = n /\ n \in 1..MaxRead
  <2>1. Len(data_) \in Nat \ {0}
    BY <1>1, EmptySeq DEF ReturnBytes
  <2>2. n \in 1..MaxRead
    BY <2>1, Sizes DEF Least
  <2>. QED BY <1>1, <2>2, CutProperties, Sizes
<1>3. delivered' = delivered \o t /\ UNCHANGED <<written, writer, failed, ended>>
  BY DEF ReturnBytes
<1>. HIDE DEF t, d, n
<1>. DEFINE p == delivered \o t
            r == d \o chunk \o pipe
<1>4. /\ p \in Seq(Bytes) /\ d \o chunk \in Seq(Bytes)
      /\ p \o d \in Seq(Bytes)
      /\ Len(p) = Len(delivered) + n
  BY <1>1, <1>2, ConcatProperties
<1>5. r \in Seq(Bytes)
  <2>1. d \o chunk \in Seq(Bytes) /\ pipe \in Seq(Bytes)
    BY <1>1, <1>4
  <2>. QED BY <2>1, ConcatProperties
<1>6. delivered \o data_ = p \o d
  <2>1. delivered \in Seq(Bytes) /\ t \in Seq(Bytes) /\ d \in Seq(Bytes)
    BY <1>1, <1>2
  <2>2. delivered \o t \o d = delivered \o (t \o d)
    BY <2>1, ConcatAssociative
  <2>. QED BY <1>2, <2>2
<1>. HIDE DEF p
<1>7. written = p \o r
  <2>1. p \o d \o chunk = p \o (d \o chunk)
    <3>1. p \in Seq(Bytes) /\ d \in Seq(Bytes) /\ chunk \in Seq(Bytes)
      BY <1>1, <1>2, <1>4
    <3>. QED BY <3>1, ConcatAssociative
  <2>2. p \o (d \o chunk) \o pipe = p \o (d \o chunk \o pipe)
    <3>1. p \in Seq(Bytes) /\ d \o chunk \in Seq(Bytes) /\ pipe \in Seq(Bytes)
      BY <1>1, <1>4
    <3>. QED BY <3>1, ConcatAssociative
  <2>. QED BY <1>1, <1>6, <2>1, <2>2
<1>. HIDE DEF r
<1>8. SubSeq(written, 1, Len(p)) = p
  BY <1>4, <1>5, <1>7, PrefixOfConcat
<1>9. Len(written) = Len(p) + Len(r) /\ Len(r) \in Nat /\ Len(delivered) \in Nat
  <2>1. p \in Seq(Bytes) /\ r \in Seq(Bytes)
    BY <1>4, <1>5
  <2>2. Len(p \o r) = Len(p) + Len(r)
    BY <2>1, ConcatProperties
  <2>. QED BY <1>1, <1>7, <2>1, <2>2
<1>10. Len(delivered) + n <= Len(written)
  BY <1>2, <1>4, <1>9
<1>. QED BY <1>2, <1>3, <1>4, <1>8, <1>10 DEF Stream!Deliver, Stream!SameContent, p

LEMMA NextImplements == IndInv /\ [Next]_vars => [Stream!Next]_(Stream!vars)
<1>. SUFFICES ASSUME IndInv, [Next]_vars PROVE [Stream!Next]_(Stream!vars)
  OBVIOUS
<1>. USE DEF stream, kernel, reader, object
<1>1. CASE UNCHANGED vars
  BY <1>1 DEF vars, Stream!vars
<1>2. CASE Connect \/ Write \/ Disconnect
  BY <1>2 DEF Connect, Write, Disconnect, Stream!Next
<1>3. CASE PipeFailed
  BY <1>3 DEF PipeFailed, Stream!Next
<1>4. CASE StartReadPipe \/ Poll \/ Read \/ ReadNothing \/ LockAppend \/ AppendData \/ HangUp
  BY <1>4
  DEF StartReadPipe, Poll, Read, ReadNothing, LockAppend, AppendData, HangUp, Stream!vars
<1>5. CASE Open \/ CheckStatus \/ LockData \/ Close \/ Destroy
  BY <1>5 DEF Open, CheckStatus, LockData, Close, Destroy, Stream!vars
<1>6. CASE OpenFails \/ GiveUp
  BY <1>6 DEF OpenFails, GiveUp, Stream!Next
<1>7. CASE ReadLocked
  <2>1. ended = "no"
    BY <1>7 DEF ReadLocked, IndInv, Status
  <2>2. CASE ReturnBytes
    BY <2>1, <2>2, ReturnBytesDelivers DEF Stream!Next
  <2>3. CASE ~ReturnBytes
    BY <1>7, <2>3 DEF ReadLocked, Stream!vars
  <2>. QED BY <2>2, <2>3
<1>8. CASE ReadTail
  <2>1. ended = "no" /\ rp = "done"
    BY <1>8 DEF ReadTail, IndInv, Status
  <2>2. CASE ReturnBytes
    BY <2>1, <2>2, ReturnBytesDelivers DEF Stream!Next
  <2>3. CASE ~ReturnBytes
    <3>1. data_ = <<>> /\ ReturnZero
      BY <1>8, <2>3 DEF ReadTail
    <3>2. Stream!End
      BY <2>1, <3>1, AllDelivered DEF ReturnZero, Stream!End, Stream!SameContent
    <3>. QED BY <3>2 DEF Stream!Next
  <2>. QED BY <2>2, <2>3
<1>. QED
  BY <1>1, <1>2, <1>3, <1>4, <1>5, <1>6, <1>7, <1>8 DEF Next, ReadPipe, Proceed, SendContent

\* PipeReader implements what SendContent needs of an IOReader.
THEOREM Refinement == StatusIsTrueAtStart => (Spec => Implements)
<1>. SUFFICES ASSUME StatusIsTrueAtStart PROVE Spec => Implements
  OBVIOUS
<1>1. Init => Stream!Init
  BY DEF Init
<1>. QED
  BY <1>1, InitIndInv, NextIndInv, NextImplements, PTL
  DEF Spec, Implements, Stream!Spec
===============================================================================
