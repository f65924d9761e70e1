------------------------------- MODULE MCProtoIO -------------------------------
(* Instances of ProtoIO for TLC: the messages, given by their lengths. *)
EXTENDS ProtoIO

\* Two messages of n bytes: their bytes are those of a small and of a large length.
OfLength(n) == {[k \in 1..n |-> IF k = 1 THEN b ELSE 0] : b \in {1, Base - 1}}

\* The empty message; from the shortest to the longest that ReadProto accepts, with one,
\* two and three digits; and the shortest that it does not accept.
AllLengths == UNION {OfLength(n) : n \in {0, 1, 2, 3, kMaxDataRead - 1, kMaxDataRead}}

\* The lengths from the middle of the range of a byte on.
Upper == OfLength(1) \cup OfLength(Base \div 2 + 1)
===============================================================================
