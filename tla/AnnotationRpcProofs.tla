-------------------------- MODULE AnnotationRpcProofs --------------------------
(***************************************************************************)
(* What the clients of AnnotationRpc need of it for their theorems: lemmas *)
(* on chains of pieces, and what the call carries, which every action of   *)
(* AnnotationRpc preserves whatever its client is.                         *)
(***************************************************************************)
EXTENDS AnnotationRpc, Chains, SequenceTheorems, TLAPS

\* sent is the last byte that the client has sent, 0 after the configuration and -1
\* before it.  The service has taken the stream up to some byte, the requests in flight
\* carry the rest of it unless the call has failed, and nothing is missing from a call
\* that ended well.  The configuration is alone in its request, and there is nothing but
\* errors to answer until content comes.
Carried(sent) ==
    /\ ComesAfter(received, -1)
    /\ Len(received) - 1 <= sent
    /\ rpc = "none" => out = <<>> /\ received = <<>> /\ answers = <<>> /\ sent = -1
    /\ rpc \in {"none", "running"} => Chain(out, Len(received) - 1, sent)
    /\ rpc = "ok" => half_closed /\ out = <<>> /\ Len(received) - 1 = sent
    /\ received = <<>> /\ out # <<>> => Len(out[1]) = 1
    /\ Len(received) <= 1 => \A i \in 1..Len(answers) : answers[i] = "error"

\* The client has read n responses: those in flight are the next ones, and the last ones
\* unless the call is over and some are lost.
InFlight(n) ==
    /\ n + Len(in) <= Len(answers)
    /\ rpc = "running" => n + Len(in) = Len(answers)
    /\ \A i \in 1..Len(in) : in[i] = answers[n + i]

-------------------------------------------------------------------------------
\* Lemmas on chains.

\* What comes after a number is given by its length.
LEMMA ComesAfterUnique ==
  ASSUME NEW S, NEW s \in Seq(S), NEW T, NEW t \in Seq(T), NEW n \in Int,
         ComesAfter(s, n), ComesAfter(t, n), Len(s) = Len(t)
  PROVE  s = t
BY SeqEqual DEF ComesAfter

LEMMA ComesAfterConcat ==
  ASSUME NEW S, NEW s \in Seq(S), NEW t \in Seq(S), NEW n \in Int, NEW m \in Int,
         ComesAfter(s, n), m = n + Len(s), ComesAfter(t, m)
  PROVE  /\ s \o t \in Seq(S) /\ Len(s \o t) = Len(s) + Len(t)
         /\ ComesAfter(s \o t, n)
<1>1. /\ s \o t \in Seq(S) /\ Len(s \o t) = Len(s) + Len(t)
      /\ \A k \in 1..Len(s) + Len(t) :
            (s \o t)[k] = IF k <= Len(s) THEN s[k] ELSE t[k - Len(s)]
  BY ConcatProperties
<1>2. Len(s) \in Nat /\ Len(t) \in Nat
  OBVIOUS
<1>3. ASSUME NEW k \in 1..Len(s) + Len(t) PROVE (s \o t)[k] = n + k
  <2>1. CASE k <= Len(s)
    BY <1>1, <1>2, <2>1 DEF ComesAfter
  <2>2. CASE ~(k <= Len(s))
    <3>1. k - Len(s) \in 1..Len(t)
      BY <1>2, <2>2
    <3>2. t[k - Len(s)] = n + Len(s) + (k - Len(s))
      BY <3>1 DEF ComesAfter
    <3>. QED BY <1>1, <1>2, <2>2, <3>2
  <2>. QED BY <2>1, <2>2
<1>. QED BY <1>1, <1>3 DEF ComesAfter

\* A part of what comes after a number.
LEMMA ComesAfterSubSeq ==
  ASSUME NEW S, NEW s \in Seq(S), NEW n \in Int, ComesAfter(s, n),
         NEW i \in Nat \ {0}, NEW j \in Nat, i <= j + 1, j <= Len(s)
  PROVE  /\ SubSeq(s, i, j) \in Seq(S) /\ Len(SubSeq(s, i, j)) = j + 1 - i
         /\ ComesAfter(SubSeq(s, i, j), n + i - 1)
<1>1. /\ \A k \in i..j : s[k] \in S
      /\ i \in Int /\ j \in Int
  <2>1. Len(s) \in Nat
    OBVIOUS
  <2>. QED BY <2>1, ElementOfSeq
<1>2. /\ SubSeq(s, i, j) \in Seq(S)
      /\ Len(SubSeq(s, i, j)) = IF i <= j THEN j - i + 1 ELSE 0
      /\ \A k \in 1..j - i + 1 : SubSeq(s, i, j)[k] = s[i + k - 1]
  BY <1>1, SubSeqProperties
<1>3. Len(SubSeq(s, i, j)) = j + 1 - i
  BY <1>2
<1>4. ASSUME NEW k \in 1..j + 1 - i PROVE SubSeq(s, i, j)[k] = n + i - 1 + k
  <2>1. k \in 1..j - i + 1 /\ i + k - 1 \in 1..Len(s)
    BY Len(s) \in Nat
  <2>2. s[i + k - 1] = n + (i + k - 1)
    BY <2>1 DEF ComesAfter
  <2>. QED BY <1>2, <2>1, <2>2
<1>. QED BY <1>2, <1>3, <1>4 DEF ComesAfter

\* A function on 1..n is a sequence.
LEMMA FunctionIsSeq ==
  ASSUME NEW T, NEW n \in Nat, NEW p \in [1..n -> T]
  PROVE  p \in Seq(T) /\ Len(p) = n
<1>1. p \in Seq(T)
  BY SeqDef
<1>2. Len(p) \in Nat /\ DOMAIN p = 1..Len(p) /\ DOMAIN p = 1..n
  BY <1>1, LenProperties
<1>3. CASE n = 0
  BY <1>2, <1>3
<1>4. CASE n # 0
  <2>1. n \in 1..n /\ (Len(p) # 0 => Len(p) \in 1..Len(p))
    BY <1>2, <1>4
  <2>. QED BY <1>2, <2>1
<1>. QED BY <1>3, <1>4

\* The configuration comes before the content.
LEMMA ConfigFirst ==
  ASSUME NEW L \in Nat, NEW t \in Seq(0..L), ComesAfter(t, 0)
  PROVE  /\ <<Config>> \o t \in Seq(0..L) /\ Len(<<Config>> \o t) = Len(t) + 1
         /\ ComesAfter(<<Config>> \o t, -1)
<1>. DEFINE c == <<Config>>
<1>1. /\ c \in Seq(0..L) /\ Len(c) = 1 /\ c[1] = 0
  BY DEF Config
<1>. HIDE DEF c
<1>2. PICK n \in Int : n = -1
  OBVIOUS
<1>3. ComesAfter(c, n)
  BY <1>1, <1>2 DEF ComesAfter
<1>4. PICK m \in Int : m = n + Len(c) /\ m = 0
  BY <1>1, <1>2
<1>5. ComesAfter(t, m)
  BY <1>4
<1>6. /\ c \o t \in Seq(0..L) /\ Len(c \o t) = Len(c) + Len(t)
      /\ ComesAfter(c \o t, n)
  BY <1>1, <1>3, <1>4, <1>5, ComesAfterConcat
<1>. QED BY <1>1, <1>2, <1>6 DEF c

\* The stream of AnnotateVideo.
Stream(m) == <<Config>> \o [i \in 1..m |-> i]

\* What comes after -1 is the beginning of the stream, of any length that is enough.
LEMMA StreamPrefix ==
  ASSUME NEW L \in Nat, NEW m \in 0..L, NEW r \in Seq(0..L), ComesAfter(r, -1),
         NEW n, n = Len(r), n <= m + 1
  PROVE  r = SubSeq(Stream(m), 1, n) /\ (n = m + 1 => r = Stream(m))
<1>. DEFINE b == [i \in 1..m |-> i]
            s == Stream(m)
<1>1. m \in Nat /\ n \in Nat /\ b \in [1..m -> 0..L]
  OBVIOUS
<1>2. b \in Seq(0..L) /\ Len(b) = m
  BY <1>1, FunctionIsSeq
<1>3. ComesAfter(b, 0)
  BY <1>2 DEF ComesAfter
<1>. HIDE DEF b
<1>4. s \in Seq(0..L) /\ Len(s) = m + 1 /\ ComesAfter(s, -1)
  BY <1>2, <1>3, ConfigFirst DEF b, Stream
<1>. HIDE DEF s
<1>5. PICK z \in Int : z = -1 /\ z + 1 - 1 = z
  OBVIOUS
<1>6. 1 \in Nat \ {0} /\ 1 <= n + 1 /\ n <= Len(s) /\ n + 1 - 1 = n
  BY <1>1, <1>4
<1>. DEFINE q == SubSeq(s, 1, n)
<1>7. q \in Seq(0..L) /\ Len(q) = n + 1 - 1 /\ ComesAfter(q, z + 1 - 1)
  <2>1. ComesAfter(s, z)
    BY <1>4, <1>5
  <2>2. s \in Seq(0..L)
    BY <1>4
  <2>3. n \in Nat /\ 1 <= n + 1 /\ n <= Len(s) /\ 1 \in Nat \ {0}
    BY <1>1, <1>6
  <2>. QED BY <2>1, <2>2, <2>3, ComesAfterSubSeq
<1>. HIDE DEF q
<1>8. ComesAfter(q, z) /\ ComesAfter(r, z) /\ ComesAfter(s, z) /\ Len(r) = Len(q)
  BY <1>4, <1>5, <1>6, <1>7
<1>9. r = q
  BY <1>5, <1>7, <1>8, ComesAfterUnique
<1>10. n = m + 1 => r = s
  BY <1>4, <1>5, <1>8, ComesAfterUnique
<1>. QED BY <1>9, <1>10 DEF q, s

LEMMA ChainEmpty ==
  ASSUME NEW n \in Int, NEW m \in Int
  PROVE  Chain(<<>>, n, m) <=> n = m
BY DEF Chain, LastOf

\* Every end of a piece is a number, and n is not beyond m.
LEMMA ChainBounds ==
  ASSUME NEW S \in SUBSET Int, NEW q \in Seq(Seq(S)), NEW n \in Int, NEW m \in Int,
         Chain(q, n, m)
  PROVE  /\ \A k \in 0..Len(q) : LastOf(q, n, k) \in Int /\ LastOf(q, n, k) <= m
         /\ n <= m
<1>1. Len(q) \in Nat
  OBVIOUS
<1>2. ASSUME NEW k \in 0..Len(q) PROVE LastOf(q, n, k) \in Int
  <2>1. CASE k = 0
    BY <2>1 DEF LastOf
  <2>2. CASE k # 0
    <3>1. k \in 1..Len(q)
      BY <1>1, <2>2
    <3>2. q[k] \in Seq(S) /\ Len(q[k]) > 0
      BY <3>1, ElementOfSeq DEF Chain
    <3>3. Len(q[k]) \in 1..Len(q[k])
      BY <3>2
    <3>4. q[k][Len(q[k])] \in S
      BY <3>2, <3>3, ElementOfSeq
    <3>. QED BY <2>2, <3>4 DEF LastOf
  <2>. QED BY <2>1, <2>2
<1>3. n <= m
  <2>1. 0 \in 0..Len(q) /\ LastOf(q, n, 0) = n
    BY <1>1 DEF LastOf
  <2>. QED BY <2>1 DEF Chain
<1>. QED BY <1>2, <1>3 DEF Chain

\* Two chains that follow one another are one.
LEMMA ChainConcat ==
  ASSUME NEW S \in SUBSET Int, NEW q \in Seq(Seq(S)), NEW p \in Seq(Seq(S)),
         NEW n \in Int, NEW m \in Int, NEW l \in Int,
         Chain(q, n, m), Chain(p, m, l)
  PROVE  Chain(q \o p, n, l)
<1>1. /\ q \o p \in Seq(Seq(S)) /\ Len(q \o p) = Len(q) + Len(p)
      /\ \A k \in 1..Len(q) + Len(p) :
            (q \o p)[k] = IF k <= Len(q) THEN q[k] ELSE p[k - Len(q)]
  BY ConcatProperties
<1>2. Len(q) \in Nat /\ Len(p) \in Nat
  OBVIOUS
<1>. DEFINE r == q \o p
<1>3. ASSUME NEW k \in 0..Len(r)
      PROVE  LastOf(r, n, k) = IF k <= Len(q) THEN LastOf(q, n, k)
                               ELSE LastOf(p, m, k - Len(q))
  <2>1. CASE k = 0
    BY <1>2, <2>1 DEF LastOf
  <2>2. CASE k # 0
    <3>1. k \in 1..Len(q) + Len(p)
      BY <1>1, <2>2
    <3>. QED BY <1>1, <1>2, <2>2, <3>1 DEF LastOf
  <2>. QED BY <2>1, <2>2
<1>4. n <= m /\ m <= l
  BY ChainBounds
<1>5. LastOf(r, n, Len(q)) = m /\ LastOf(p, m, 0) = m
  <2>1. Len(q) \in 0..Len(r)
    BY <1>1, <1>2
  <2>. QED BY <1>3, <2>1, <1>2 DEF Chain, LastOf
<1>6. ASSUME NEW k \in 1..Len(r)
      PROVE  Len(r[k]) > 0 /\ ComesAfter(r[k], LastOf(r, n, k - 1))
  <2>1. CASE k <= Len(q)
    <3>1. k \in 1..Len(q) /\ k - 1 \in 0..Len(r) /\ k - 1 <= Len(q) /\ r[k] = q[k]
      BY <1>1, <1>2, <2>1
    <3>2. LastOf(r, n, k - 1) = LastOf(q, n, k - 1)
      BY <1>3, <3>1
    <3>. QED BY <3>1, <3>2 DEF Chain
  <2>2. CASE ~(k <= Len(q))
    <3>1. /\ k - Len(q) \in 1..Len(p) /\ k - 1 \in 0..Len(r) /\ r[k] = p[k - Len(q)]
          /\ (k - 1) - Len(q) = (k - Len(q)) - 1
      BY <1>1, <1>2, <2>2
    <3>2. LastOf(r, n, k - 1) = LastOf(p, m, (k - Len(q)) - 1)
      <4>1. CASE k - 1 = Len(q)
        BY <1>5, <1>2, <4>1
      <4>2. CASE k - 1 # Len(q)
        <5>1. ~(k - 1 <= Len(q))
          BY <1>2, <2>2, <4>2
        <5>. QED BY <1>3, <3>1, <5>1
      <4>. QED BY <4>1, <4>2
    <3>. QED BY <3>1, <3>2 DEF Chain
  <2>. QED BY <2>1, <2>2
<1>7. ASSUME NEW k \in 0..Len(r) PROVE LastOf(r, n, k) <= l
  <2>1. CASE k <= Len(q)
    <3>1. k \in 0..Len(q)
      BY <1>2, <2>1
    <3>. QED BY <1>3, <1>4, <2>1, <3>1, ChainBounds
  <2>2. CASE ~(k <= Len(q))
    <3>1. k - Len(q) \in 0..Len(p)
      BY <1>1, <1>2, <2>2
    <3>. QED BY <1>3, <1>4, <2>2, <3>1, ChainBounds
  <2>. QED BY <2>1, <2>2
<1>8. LastOf(r, n, Len(r)) = l
  <2>1. CASE Len(p) = 0
    BY <1>1, <1>2, <1>5, <2>1 DEF Chain
  <2>2. CASE Len(p) # 0
    <3>1. Len(r) \in 0..Len(r) /\ ~(Len(r) <= Len(q)) /\ Len(r) - Len(q) = Len(p)
      BY <1>1, <1>2, <2>2
    <3>. QED BY <1>3, <3>1 DEF Chain
  <2>. QED BY <2>1, <2>2
<1>. QED BY <1>6, <1>7, <1>8 DEF Chain

\* A piece at the end.
LEMMA ChainAppend ==
  ASSUME NEW S \in SUBSET Int, NEW q \in Seq(Seq(S)), NEW s \in Seq(S),
         NEW n \in Int, NEW m \in Int,
         Chain(q, n, m), Len(s) > 0, ComesAfter(s, m)
  PROVE  Chain(Append(q, s), n, m + Len(s))
<1>1. Len(s) \in Nat /\ m + Len(s) \in Int
  OBVIOUS
<1>2. Chain(<<s>>, m, m + Len(s))
  <2>1. <<s>>[1] = s /\ Len(<<s>>) = 1
    OBVIOUS
  <2>2. s[Len(s)] = m + Len(s)
    BY <1>1 DEF ComesAfter
  <2>3. LastOf(<<s>>, m, 0) = m /\ LastOf(<<s>>, m, 1) = m + Len(s)
    BY <2>1, <2>2 DEF LastOf
  <2>4. \A k \in 0..1 : LastOf(<<s>>, m, k) <= m + Len(s)
    BY <1>1, <2>3
  <2>5. \A k \in 1..1 : Len(<<s>>[k]) > 0 /\ ComesAfter(<<s>>[k], LastOf(<<s>>, m, k - 1))
    <3>1. 1 - 1 = 0 /\ \A k \in 1..1 : k = 1
      OBVIOUS
    <3>. QED BY <2>1, <2>3, <3>1
  <2>. QED BY <2>1, <2>3, <2>4, <2>5 DEF Chain
<1>3. <<s>> \in Seq(Seq(S))
  OBVIOUS
<1>4. Append(q, s) = q \o <<s>>
  BY AppendIsConcat
<1>. QED BY <1>1, <1>2, <1>3, <1>4, ChainConcat

\* The first piece is taken away.
LEMMA ChainTail ==
  ASSUME NEW S \in SUBSET Int, NEW q \in Seq(Seq(S)), q # <<>>,
         NEW n \in Int, NEW m \in Int, Chain(q, n, m)
  PROVE  /\ Head(q) \in Seq(S) /\ Len(Head(q)) > 0 /\ ComesAfter(Head(q), n)
         /\ Tail(q) \in Seq(Seq(S)) /\ Len(Tail(q)) = Len(q) - 1
         /\ n + Len(Head(q)) <= m
         /\ Chain(Tail(q), n + Len(Head(q)), m)
<1>1. /\ Len(q) \in Nat \ {0}
      /\ Head(q) = q[1] /\ Head(q) \in Seq(S)
      /\ Tail(q) \in Seq(Seq(S)) /\ Len(Tail(q)) = Len(q) - 1
      /\ \A k \in 1..Len(Tail(q)) : Tail(q)[k] = q[k + 1]
  <2>1. Len(q) \in Nat \ {0} /\ Len(q) > 0
    BY EmptySeq
  <2>2. /\ Head(q) = q[1] /\ Head(q) \in Seq(S)
        /\ Tail(q) \in Seq(Seq(S)) /\ Len(Tail(q)) = Len(q) - 1
    BY <2>1, HeadTailProperties
  <2>3. \A k \in 1..Len(Tail(q)) : Tail(q)[k] = q[k + 1]
    BY <2>1, HeadTailProperties
  <2>. QED BY <2>1, <2>2, <2>3
<1>. DEFINE h == Head(q)
            r == Tail(q)
<1>2. Len(h) \in Nat /\ Len(h) > 0 /\ ComesAfter(h, n) /\ h[Len(h)] = n + Len(h)
  <2>1. 1 \in 1..Len(q) /\ LastOf(q, n, 1 - 1) = n
    BY <1>1 DEF LastOf
  <2>2. Len(h) > 0 /\ ComesAfter(h, n)
    BY <1>1, <2>1 DEF Chain
  <2>3. Len(h) \in Nat
    BY <1>1
  <2>. QED BY <2>2, <2>3 DEF ComesAfter
<1>3. ASSUME NEW k \in 0..Len(r) PROVE LastOf(r, n + Len(h), k) = LastOf(q, n, k + 1)
  <2>0. k \in Nat /\ k + 1 # 0
    BY <1>1
  <2>1. CASE k = 0
    BY <1>1, <1>2, <2>1 DEF LastOf
  <2>2. CASE k # 0
    <3>1. k \in 1..Len(r)
      BY <1>1, <2>2
    <3>2. r[k] = q[k + 1]
      BY <1>1, <3>1
    <3>. QED BY <2>0, <2>2, <3>2 DEF LastOf
  <2>. QED BY <2>1, <2>2
<1>. HIDE DEF h, r
<1>4. ASSUME NEW k \in 1..Len(r)
      PROVE  Len(r[k]) > 0 /\ ComesAfter(r[k], LastOf(r, n + Len(h), k - 1))
  <2>1. k + 1 \in 1..Len(q) /\ k - 1 \in 0..Len(r) /\ (k - 1) + 1 = (k + 1) - 1
    BY <1>1 DEF r
  <2>2. Len(q[k + 1]) > 0 /\ ComesAfter(q[k + 1], LastOf(q, n, (k + 1) - 1))
    BY <2>1 DEF Chain
  <2>3. LastOf(r, n + Len(h), k - 1) = LastOf(q, n, (k + 1) - 1)
    BY <1>3, <2>1
  <2>. QED BY <1>1, <2>2, <2>3 DEF r
<1>5. n + Len(h) <= m
  <2>1. 1 \in 0..Len(q) /\ LastOf(q, n, 1) = n + Len(h)
    BY <1>1, <1>2 DEF LastOf, h
  <2>. QED BY <2>1 DEF Chain
<1>6. LastOf(r, n + Len(h), Len(r)) = m
  <2>1. Len(r) \in 0..Len(r) /\ Len(r) + 1 = Len(q)
    BY <1>1 DEF r
  <2>. QED BY <1>3, <2>1 DEF Chain
<1>7. ASSUME NEW k \in 0..Len(r) PROVE LastOf(r, n + Len(h), k) <= m
  <2>1. k + 1 \in 0..Len(q)
    BY <1>1 DEF r
  <2>. QED BY <1>3, <2>1 DEF Chain
<1>. QED BY <1>1, <1>2, <1>4, <1>5, <1>6, <1>7 DEF Chain, h, r

-------------------------------------------------------------------------------
\* Lemmas on the call.

LEMMA Windows ==
  WindowOut \in Nat \ {0} /\ WindowIn \in Nat \ {0} /\ MaxAnswers \in Nat
BY AnnotationRpcAssumption

LEMMA RpcInitTypes ==
  ASSUME NEW Content, RpcInit
  PROVE  RpcTypeOK(Content)
<1>1. half_closed \in BOOLEAN
  BY DEF RpcInit
<1>. QED BY <1>1, Windows DEF RpcInit, RpcTypeOK

\* The steps of the service keep the types.
LEMMA ServiceTypes ==
  ASSUME NEW Content, RpcTypeOK(Content), Server \/ RpcFails
  PROVE  RpcTypeOK(Content)'
<1>. USE DEF RpcTypeOK, service
<1>1. CASE ServerReceives
  <2>1. /\ Head(out) \in Seq(Content) /\ Tail(out) \in Seq(Seq(Content))
        /\ Len(Tail(out)) <= WindowOut
    BY <1>1, EmptySeq, HeadTailProperties, Windows DEF ServerReceives
  <2>2. received \o Head(out) \in Seq(Content)
    BY <2>1, ConcatProperties
  <2>. QED BY <1>1, <2>1, <2>2 DEF ServerReceives
<1>2. CASE ServerAnswers
  <2>1. PICK r \in Responses : in' = Append(in, r) /\ answers' = Append(answers, r)
    BY <1>2 DEF ServerAnswers
  <2>2. /\ in' \in Seq(Responses) /\ Len(in') = Len(in) + 1
        /\ answers' \in Seq(Responses)
    BY <2>1, AppendProperties
  <2>3. Len(in') <= WindowIn
    <3>1. Len(in) \in Nat /\ Len(in) < WindowIn
      BY <1>2 DEF ServerAnswers
    <3>. QED BY <2>2, <3>1, Windows
  <2>4. owed' \in 0..MaxAnswers
    BY <1>2, Windows DEF ServerAnswers
  <2>. QED BY <1>2, <2>2, <2>3, <2>4 DEF ServerAnswers
<1>3. CASE ServerEnds
  BY <1>3 DEF ServerEnds
<1>4. CASE RpcFails
  <2>1. <<>> \in Seq(Seq(Content)) /\ <<>> \in Seq(Responses)
        /\ Len(<<>>) <= WindowOut /\ Len(<<>>) <= WindowIn
    BY Windows
  <2>. QED BY <1>4, <2>1 DEF RpcFails
<1>. QED BY <1>1, <1>2, <1>3, <1>4 DEF Server

LEMMA SendTypes ==
  ASSUME NEW Content, RpcTypeOK(Content), UNCHANGED service,
         NEW request \in Seq(Content), Send(request)
  PROVE  RpcTypeOK(Content)'
<1>1. out' \in Seq(Seq(Content)) /\ Len(out') = Len(out) + 1
  BY AppendProperties DEF Send, RpcTypeOK
<1>2. Len(out') <= WindowOut
  <2>1. Len(out) \in Nat /\ Len(out) < WindowOut
    BY DEF Send, RpcTypeOK
  <2>. QED BY <1>1, <2>1, Windows
<1>. QED BY <1>1, <1>2 DEF Send, RpcTypeOK, service

LEMMA ReceiveTypes ==
  ASSUME NEW Content, RpcTypeOK(Content), UNCHANGED service, NEW r, Receive(r)
  PROVE  r \in Responses /\ RpcTypeOK(Content)'
<1>1. /\ r \in Responses /\ in' \in Seq(Responses) /\ Len(in') <= WindowIn
  BY EmptySeq, HeadTailProperties, Windows DEF Receive, RpcTypeOK
<1>. QED BY <1>1 DEF Receive, RpcTypeOK, service

\* The steps of the service take the stream from the requests in flight, in order, and
\* lose nothing of it in a call that ends well.
LEMMA ServiceCarried ==
  ASSUME NEW Content \in SUBSET Int, RpcTypeOK(Content), Server \/ RpcFails,
         NEW sent \in Int, Carried(sent)
  PROVE  Carried(sent)'
<1>0. /\ Len(received) \in Nat /\ Len(received) - 1 \in Int /\ Len(answers) \in Nat
      /\ out \in Seq(Seq(Content)) /\ received \in Seq(Content)
  BY DEF RpcTypeOK
<1>1. CASE ServerReceives
  <2>1. /\ rpc = "running" /\ out # <<>>
        /\ received' = received \o Head(out) /\ out' = Tail(out)
        /\ UNCHANGED <<rpc, half_closed, answers>>
    BY <1>1 DEF ServerReceives
  <2>2. Chain(out, Len(received) - 1, sent)
    BY <2>1 DEF Carried
  <2>3. /\ Head(out) \in Seq(Content) /\ Len(Head(out)) > 0
        /\ ComesAfter(Head(out), Len(received) - 1)
        /\ Len(received) - 1 + Len(Head(out)) <= sent
        /\ Chain(out', Len(received) - 1 + Len(Head(out)), sent)
    BY <1>0, <2>1, <2>2, ChainTail
  <2>4. -1 + Len(received) = Len(received) - 1 /\ ComesAfter(received, -1)
    BY <1>0 DEF Carried
  <2>5. /\ Len(received') = Len(received) + Len(Head(out))
        /\ ComesAfter(received', -1)
    BY <1>0, <2>1, <2>3, <2>4, ComesAfterConcat
  <2>6. Len(received') \in Nat /\ Len(received') > 0
        /\ Len(received') - 1 = Len(received) - 1 + Len(Head(out))
        /\ (Len(received') <= 1 => Len(received) <= 1)
    <3>1. Len(Head(out)) \in Nat
      BY <2>3
    <3>. QED BY <1>0, <2>3, <2>5, <3>1
  <2>7. received' # <<>>
    BY <2>6, EmptySeq
  <2>. QED BY <2>1, <2>3, <2>5, <2>6, <2>7 DEF Carried
<1>2. CASE ServerAnswers
  <2>1. PICK r \in Responses :
           /\ r # "error" => Len(received) > 1
           /\ answers' = Append(answers, r)
    BY <1>2 DEF ServerAnswers
  <2>2. ASSUME Len(received) <= 1, NEW i \in 1..Len(answers')
        PROVE  answers'[i] = "error"
    <3>1. r = "error"
      BY <1>0, <2>1, <2>2
    <3>2. \A j \in 1..Len(answers) : answers[j] = "error"
      BY <2>2 DEF Carried
    <3>3. answers \in Seq(Responses)
      BY DEF RpcTypeOK
    <3>. QED BY <2>1, <3>1, <3>2, <3>3
  <2>3. UNCHANGED <<rpc, out, half_closed, received>> /\ rpc = "running"
    BY <1>2 DEF ServerAnswers
  <2>. QED BY <2>2, <2>3 DEF Carried
<1>3. CASE ServerEnds
  <2>1. /\ rpc = "running" /\ rpc' = "ok" /\ half_closed /\ out = <<>>
        /\ UNCHANGED <<out, half_closed, received, answers>>
    BY <1>3 DEF ServerEnds, service
  <2>2. Len(received) - 1 = sent
    BY <1>0, <2>1, ChainEmpty DEF Carried
  <2>. QED BY <2>1, <2>2 DEF Carried
<1>4. CASE RpcFails
  BY <1>4 DEF RpcFails, service, Carried
<1>. QED BY <1>1, <1>2, <1>3, <1>4 DEF Server

\* A request takes the stream further.
LEMMA SendCarried ==
  ASSUME NEW Content \in SUBSET Int, RpcTypeOK(Content), UNCHANGED service,
         NEW sent \in Int, Carried(sent),
         NEW request \in Seq(Content), Send(request),
         Len(request) > 0, ComesAfter(request, sent),
         sent = -1 => Len(request) = 1,
         NEW upto, upto = sent + Len(request)
  PROVE  Carried(upto)'
<1>1. /\ Len(received) \in Nat /\ Len(received) - 1 \in Int
      /\ out \in Seq(Seq(Content)) /\ Len(request) \in Nat
  BY DEF RpcTypeOK
<1>2. /\ rpc = "running" /\ out' = Append(out, request)
      /\ UNCHANGED <<rpc, half_closed, received, answers>>
  BY DEF Send, service
<1>3. Chain(out, Len(received) - 1, sent)
  BY <1>2 DEF Carried
<1>4. Chain(out', Len(received) - 1, upto)
  BY <1>1, <1>2, <1>3, ChainAppend
<1>5. ASSUME received = <<>> PROVE Len(out'[1]) = 1
  <2>1. CASE out = <<>>
    <3>1. Len(received) = 0
      BY <1>5
    <3>2. sent = -1
      BY <1>1, <1>3, <2>1, <3>1, ChainEmpty
    <3>3. out'[1] = request
      BY <1>2, <2>1
    <3>. QED BY <3>2, <3>3
  <2>2. CASE out # <<>>
    <3>1. 1 \in 1..Len(out)
      BY <1>1, <2>2, EmptySeq
    <3>2. out'[1] = out[1]
      BY <1>1, <1>2, <3>1
    <3>. QED BY <1>5, <2>2, <3>2 DEF Carried
  <2>. QED BY <2>1, <2>2
<1>6. upto \in Int /\ Len(received) - 1 <= upto /\ upto # -1
  BY <1>1 DEF Carried
<1>. QED BY <1>2, <1>4, <1>5, <1>6 DEF Carried

\* What the call carries is all the same to the steps that neither send nor receive.
LEMMA SameCarried ==
  ASSUME NEW sent, Carried(sent), UNCHANGED <<rpc, out, received, answers>>,
         half_closed => half_closed'
  PROVE  Carried(sent)'
BY DEF Carried

\* The responses in flight stay the next ones; the service adds to their end.
LEMMA ServiceInFlight ==
  ASSUME NEW Content, RpcTypeOK(Content), Server \/ RpcFails,
         NEW n \in Nat, InFlight(n)
  PROVE  /\ InFlight(n)'
         /\ Server => Len(answers') - Len(in') = Len(answers) - Len(in)
         /\ Len(answers) <= Len(answers')
         /\ \A i \in 1..Len(answers) : answers'[i] = answers[i]
<1>0. /\ Len(in) \in Nat /\ Len(answers) \in Nat
      /\ in \in Seq(Responses) /\ answers \in Seq(Responses)
  BY DEF RpcTypeOK
<1>1. CASE ServerAnswers
  <2>1. PICK r \in Responses : in' = Append(in, r) /\ answers' = Append(answers, r)
    BY <1>1 DEF ServerAnswers
  <2>2. Len(in') = Len(in) + 1 /\ Len(answers') = Len(answers) + 1
    BY <1>0, <2>1, AppendProperties
  <2>3. /\ \A i \in 1..Len(answers) : answers'[i] = answers[i]
        /\ answers'[Len(answers) + 1] = r
        /\ \A i \in 1..Len(in) : in'[i] = in[i]
        /\ in'[Len(in) + 1] = r
    BY <1>0, <2>1
  <2>4. UNCHANGED rpc /\ n + Len(in) = Len(answers)
    BY <1>1 DEF ServerAnswers, InFlight
  <2>5. ASSUME NEW i \in 1..Len(in') PROVE in'[i] = answers'[n + i]
    <3>1. CASE i \in 1..Len(in)
      <4>1. n + i \in 1..Len(answers)
        BY <1>0, <2>4, <3>1
      <4>. QED BY <2>3, <3>1, <4>1 DEF InFlight
    <3>2. CASE i = Len(in) + 1
      <4>1. n + i = Len(answers) + 1
        BY <1>0, <2>4, <3>2
      <4>. QED BY <2>3, <3>2, <4>1
    <3>. QED BY <1>0, <2>2, <3>1, <3>2
  <2>6. InFlight(n)'
    BY <1>0, <2>2, <2>4, <2>5 DEF InFlight
  <2>. QED BY <1>0, <2>2, <2>3, <2>6
<1>2. CASE ServerReceives \/ ServerEnds
  BY <1>0, <1>2 DEF ServerReceives, ServerEnds, service, InFlight
<1>3. CASE RpcFails
  <2>1. UNCHANGED answers /\ (in' = in \/ in' = <<>>)
    BY <1>3 DEF RpcFails, service
  <2>2. InFlight(n)'
    BY <1>0, <1>3, <2>1 DEF InFlight, RpcFails
  <2>3. ~Server
    BY <1>3 DEF RpcFails, Server, ServerReceives, ServerAnswers, ServerEnds
  <2>. QED BY <1>0, <2>1, <2>2, <2>3
<1>. QED BY <1>1, <1>2, <1>3 DEF Server

\* The next response is the next answer.
LEMMA ReceiveInFlight ==
  ASSUME NEW Content, RpcTypeOK(Content), NEW r, Receive(r), UNCHANGED answers,
         NEW n \in Nat, InFlight(n)
  PROVE  /\ InFlight(n + 1)'
         /\ n + 1 \in 1..Len(answers) /\ r = answers[n + 1]
         /\ Len(in') = Len(in) - 1
<1>1. /\ Len(in) \in Nat \ {0} /\ Len(answers) \in Nat
      /\ r = in[1] /\ Len(in') = Len(in) - 1
      /\ \A i \in 1..Len(in') : in'[i] = in[i + 1]
  BY EmptySeq, HeadTailProperties DEF Receive, RpcTypeOK
<1>2. 1 \in 1..Len(in) /\ n + 1 \in 1..Len(answers)
  BY <1>1 DEF InFlight
<1>3. ASSUME NEW i \in 1..Len(in') PROVE in'[i] = answers[n + 1 + i]
  <2>1. i + 1 \in 1..Len(in) /\ n + (i + 1) = n + 1 + i
    BY <1>1
  <2>. QED BY <1>1, <2>1 DEF InFlight
<1>4. /\ n + 1 + Len(in') <= Len(answers)
      /\ rpc = "running" => n + 1 + Len(in') = Len(answers)
  BY <1>1 DEF InFlight
<1>5. UNCHANGED <<rpc, answers>>
  BY DEF Receive
<1>6. InFlight(n + 1)'
  BY <1>3, <1>4, <1>5 DEF InFlight
<1>7. r = answers[n + 1]
  BY <1>1, <1>2 DEF InFlight
<1>. QED BY <1>1, <1>2, <1>6, <1>7
===============================================================================
