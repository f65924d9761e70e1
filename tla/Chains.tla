--------------------------------- MODULE Chains ---------------------------------
(***************************************************************************)
(* A stream cut into pieces.  Byte i of a stream is the number i, so that  *)
(* what is lost, repeated or moved on the way shows in the numbers; these  *)
(* are the words the properties of the clients say it with.                *)
(***************************************************************************)
EXTENDS Integers, Sequences

\* s is what comes after n in the stream.
ComesAfter(s, n) == \A k \in 1..Len(s) : s[k] = n + k

\* The last number of the first k pieces of q, which come after n.
LastOf(q, n, k) == IF k = 0 THEN n ELSE q[k][Len(q[k])]

\* The pieces of q, none of which is empty, are n + 1, ..., m.
Chain(q, n, m) ==
    /\ \A k \in 1..Len(q) : Len(q[k]) > 0 /\ ComesAfter(q[k], LastOf(q, n, k - 1))
    /\ \A k \in 0..Len(q) : LastOf(q, n, k) <= m
    /\ LastOf(q, n, Len(q)) = m
===============================================================================
