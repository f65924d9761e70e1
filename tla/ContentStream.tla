----------------------------- MODULE ContentStream -----------------------------
(***************************************************************************)
(* What SendContent (streaming_client.cc) needs from the IOReader it       *)
(* drains: ReadBytes hands over the bytes of the stream in order, each     *)
(* exactly once, in non-empty pieces, and returns 0 only when the whole    *)
(* stream has been handed over or the channel has failed.                  *)
(* SendContent takes the 0 for the end of the video and half-closes the    *)
(* RPC, so nothing that comes later can be sent.                           *)
(***************************************************************************)
EXTENDS Naturals, Sequences

CONSTANTS
    StreamLength,   \* how many bytes the producer has, at most
    MaxRead         \* max_bytes_read of ReadBytes (kDataChunk in SendContent)

VARIABLES
    written,    \* the bytes the producer has written: byte i is the number i
    writer,     \* "absent", "open" or "closed": the producer's end
    failed,     \* the kernel has reported an error on the channel
    delivered,  \* the bytes ReadBytes has returned, in order
    ended       \* "no", "eof" (ReadBytes returned 0) or "gaveup" (the caller
                \* stopped reading: the RPC failed or Open did)

vars == <<written, writer, failed, delivered, ended>>

Init ==
    /\ written = <<>>
    /\ writer = "absent"
    /\ failed = FALSE
    /\ delivered = <<>>
    /\ ended = "no"

Connect ==
    /\ writer = "absent"
    /\ writer' = "open"
    /\ UNCHANGED <<written, failed, delivered, ended>>

Write ==
    /\ writer = "open"
    /\ Len(written) < StreamLength
    /\ written' = Append(written, Len(written) + 1)
    /\ UNCHANGED <<writer, failed, delivered, ended>>

Disconnect ==
    /\ writer = "open"
    /\ writer' = "closed"
    /\ UNCHANGED <<written, failed, delivered, ended>>

\* The steps that are not the producer's; written as equations, so that a producer may
\* be given by expressions instead of variables.
SameContent == written' = written /\ writer' = writer

Fail ==
    /\ failed' = TRUE
    /\ SameContent
    /\ UNCHANGED <<delivered, ended>>

Deliver ==
    /\ ended = "no"
    /\ \E n \in 1..MaxRead :
          /\ Len(delivered) + n <= Len(written)
          /\ delivered' = SubSeq(written, 1, Len(delivered) + n)
    /\ SameContent
    /\ UNCHANGED <<failed, ended>>

End ==
    /\ ended = "no"
    /\ failed \/ (writer = "closed" /\ delivered = written)
    /\ ended' = "eof"
    /\ SameContent
    /\ UNCHANGED <<failed, delivered>>

GiveUp ==
    /\ ended = "no"
    /\ ended' = "gaveup"
    /\ SameContent
    /\ UNCHANGED <<failed, delivered>>

Next == Connect \/ Write \/ Disconnect \/ Fail \/ Deliver \/ End \/ GiveUp

Spec == Init /\ [][Next]_vars
===============================================================================
