-------------------------------- MODULE ProtoIO --------------------------------
(***************************************************************************)
(* The files of annotations: ProtoWriter and ProtoReader                   *)
(* (ingestion/client/cpp).  A message is written as a record: four bytes   *)
(* that hold the length of its serialization, the low one first, and the   *)
(* serialization.  The process that writes (ReadResponse of                *)
(* streaming_client.cc) may die before it closes the file, or the file may *)
(* take no more bytes; then only a part of what was written is there.      *)
(*                                                                         *)
(* A byte is a number below Base (256); a message is its serialization,    *)
(* which is empty when nothing is set in it.                               *)
(* The reader calls ReadProto until it returns false.                      *)
(***************************************************************************)
EXTENDS Integers, Sequences

CONSTANTS
    Base,           \* the number of values of a byte
    Messages,       \* the serializations considered
    MaxRecords,     \* how many of them are written, at most
    kMaxDataRead,   \* the buffer of ReadProto
    CharIsSigned    \* whether char is a signed type: up to the compiler

Byte == 0..Base - 1

\* What << 16 and << 24 multiply by; << 8 multiplies by Base.
Base2 == Base * Base
Base3 == Base2 * Base

ASSUME ProtoIOAssumption ==
    /\ Base \in Nat \ {0, 1}
    /\ Messages \subseteq Seq(Byte)
    /\ \A m \in Messages : Len(m) < Base3 * Base
    /\ MaxRecords \in Nat
    /\ kMaxDataRead \in Nat
    /\ CharIsSigned \in BOOLEAN

VARIABLES
    file,       \* its bytes
    writer,     \* "open", "closed" or "crashed": what it writes is lost
    written,    \* the messages that WriteProto was given, while it was open
    ends,       \* ends[k]: where the record of written[k] ends in the file
    pos,        \* the position of the reader
    reader,     \* "reads", "ended" (ReadProto returned false) or "aborted" (CHECK)
    read        \* the messages that ReadProto returned

vars == <<file, writer, written, ends, pos, reader, read>>

Init ==
    /\ file = <<>>
    /\ writer = "open"
    /\ written = <<>> /\ ends = <<>>
    /\ pos = 0
    /\ reader = "reads"
    /\ read = <<>>

-------------------------------------------------------------------------------
\* Mutant of Encode: the third byte is forgotten.
EncodeThree(n) == <<n % Base, (n \div Base) % Base, 0, (n \div Base3) % Base>>

Encode(n) ==
    <<n % Base, (n \div Base) % Base, (n \div Base2) % Base, (n \div Base3) % Base>>

\* static_cast<int> of a char.
FromChar(byte) == IF CharIsSigned /\ byte >= Base \div 2 THEN byte - Base ELSE byte

Decode(size) ==
    FromChar(size[1]) + FromChar(size[2]) * Base
    + FromChar(size[3]) * Base2 + FromChar(size[4]) * Base3

\* A message that SerializeToString refuses (of 2 GB and more) changes nothing.
WriteProto(m) ==
    /\ writer = "open"
    /\ Len(written) < MaxRecords
    /\ file' = file \o Encode(Len(m)) \o m
    /\ written' = Append(written, m)
    /\ ends' = Append(ends, Len(file'))
    /\ UNCHANGED <<writer, pos, reader, read>>

Close ==
    /\ writer = "open"
    /\ writer' = "closed"
    /\ UNCHANGED <<file, written, ends, pos, reader, read>>

\* The process dies, and the end of what it has written with it; or the disk is full:
\* the stream fails with a part of the record, or of what it has buffered, and goes on
\* to refuse, though WriteProto, which does not look at it, is called again.
Crash ==
    /\ writer = "open"
    /\ writer' = "crashed"
    /\ \E n \in 0..Len(file) : file' = SubSeq(file, 1, n)
    /\ UNCHANGED <<written, ends, pos, reader, read>>

-------------------------------------------------------------------------------
Left == Len(file) - pos
length == Decode(SubSeq(file, pos + 1, pos + 4))

\* The buffer is cleared before it is filled.
data == [k \in 1..length |-> IF 4 + k <= Left THEN file[pos + 4 + k] ELSE 0]

Reads == reader = "reads" /\ writer # "open"

\* Mutant of Acceptable: the bytes that were read are not counted.
AcceptableUncounted == 0 <= length /\ length < kMaxDataRead

\* The two CHECKs of ReadBytes: as a size_t a negative length is larger than any
\* buffer, and the whole of the data must be there.
Acceptable == 0 <= length /\ length < kMaxDataRead /\ 4 + length <= Left

\* ReadBytes meets the end of the file, or a record of length 0.
ReadEnd ==
    /\ Reads
    /\ Left >= 4 => Acceptable /\ length = 0
    /\ reader' = "ended"
    /\ UNCHANGED <<file, writer, written, ends, pos, read>>

\* Bytes that are no message may or may not be parsed as one.
ReadProto ==
    /\ Reads
    /\ Left >= 4 /\ Acceptable /\ length > 0
    /\ pos' = pos + 4 + length
    /\ \E parsed \in {TRUE, (data \in Messages)} :
        /\ read' = IF parsed THEN Append(read, data) ELSE read
        /\ reader' = IF parsed THEN "reads" ELSE "ended"
    /\ UNCHANGED <<file, writer, written, ends>>

ReadAborts ==
    /\ Reads
    /\ Left >= 4 /\ ~Acceptable
    /\ reader' = "aborted"
    /\ UNCHANGED <<file, writer, written, ends, pos, read>>

Next ==
    \/ \E m \in Messages : WriteProto(m)
    \/ Close
    \/ Crash
    \/ ReadProto
    \/ ReadEnd
    \/ ReadAborts

Spec == Init /\ [][Next]_vars

-------------------------------------------------------------------------------
\* Types; the reader never goes beyond the end of the file.
TypeOK ==
    /\ file \in Seq(Byte)
    /\ writer \in {"open", "closed", "crashed"}
    /\ written \in Seq(Messages) /\ Len(written) <= MaxRecords
    /\ ends \in Seq(Nat) /\ Len(ends) = Len(written)
    /\ pos \in 0..Len(file)
    /\ reader \in {"reads", "ended", "aborted"}
    /\ read \in Seq(Seq(Byte))

\* Record k is in the file with all its bytes, and is one that ReadProto can return.
Whole(k) == ends[k] <= Len(file)
Readable(k) == Whole(k) /\ Len(written[k]) \in 1..kMaxDataRead - 1

\* What is read back is what was written, in order and nothing else, up to the first
\* record that is torn, empty, or too long for the buffer.  An empty record looks like
\* the end of the file: the records behind it are not read; a torn one or one that is
\* too long may end the process, and nothing else does.
ReadsWhatWasWritten ==
    LET next == Len(read) + 1
        atEnd == Len(read) = Len(written)
    IN /\ Len(read) <= Len(written)
       /\ \A k \in 1..Len(read) : Readable(k) /\ read[k] = written[k]
       /\ reader # "reads" => atEnd \/ ~Readable(next)
       /\ reader = "aborted" =>
              ~atEnd /\ (~Whole(next) \/ Len(written[next]) >= kMaxDataRead)
===============================================================================
