--------------------------- MODULE PythonClientProofs ---------------------------
(***************************************************************************)
(* Theorems about PythonClient for every length of the file, every size of *)
(* the chunks and of the windows of the call, and any of the responses.    *)
(***************************************************************************)
EXTENDS PythonClient, AnnotationRpcProofs

\* The last byte sent: see Carried.
Sent == IF yielded = 0 THEN -1 ELSE LastOf(stream, 0, yielded - 1)

\* Where the script is, and what the generator and the call have come to by then.
Control ==
    /\ main \in {"load", "call"} => rpc = "none"
    /\ main \in {"iterate", "exhausted", "broke"} => rpc # "none"
    /\ Over => rpc # "running"
    /\ rpc = "none" => yielded = 0 /\ ~half_closed /\ in = <<>> /\ answers = <<>>
    /\ half_closed => yielded = Len(stream) + 1

\* The chunks are the file up to the last byte loaded, and the call carries those that
\* the generator has given.
Content ==
    /\ Chain(stream, 0, loaded)
    /\ main \in {"load", "raised"} \/ loaded = StreamLength
    /\ ~Over => Carried(Sent)

\* The responses in flight are the next to print, and the last unless the call fails.
Unprinted ==
    main = "iterate" =>
        /\ InFlight(Len(printed))
        /\ rpc # "failed" => Len(printed) + Len(in) = Len(answers)

IndInv == TypeOK /\ Control /\ Content /\ PrintedInOrder /\ Unprinted

-------------------------------------------------------------------------------
\* Lemmas on the operators of the model.

LEMMA Sizes ==
  /\ StreamLength \in Nat /\ chunk_size \in Nat \ {0}
  /\ 1..StreamLength \subseteq 0..StreamLength
  /\ 1..StreamLength \in SUBSET Int /\ 0..StreamLength \in SUBSET Int
<1>1. StreamLength \in Nat /\ chunk_size \in Nat \ {0}
  BY PythonClientAssumption
<1>. QED BY <1>1

\* A chunk is the next bytes of the file, empty only at the end of it.
LEMMA DataProperties ==
  ASSUME loaded \in 0..StreamLength
  PROVE  /\ data \in Seq(1..StreamLength) /\ Len(data) \in 0..chunk_size
         /\ loaded + Len(data) \in 0..StreamLength
         /\ ComesAfter(data, loaded)
         /\ data = <<>> <=> loaded = StreamLength
         /\ data = <<>> <=> Len(data) = 0
<1>. DEFINE n == IF StreamLength - loaded < chunk_size
                 THEN StreamLength - loaded ELSE chunk_size
<1>1. /\ n \in Nat /\ n <= chunk_size /\ loaded + n \in 0..StreamLength
      /\ n = 0 <=> loaded = StreamLength
      /\ loaded \in Nat
  BY Sizes
<1>2. data = [i \in 1..n |-> loaded + i]
  BY DEF data
<1>. HIDE DEF n
<1>3. data \in [1..n -> 1..StreamLength]
  BY <1>1, <1>2, Sizes
<1>4. data \in Seq(1..StreamLength) /\ Len(data) = n
  BY <1>1, <1>3, FunctionIsSeq
<1>5. ComesAfter(data, loaded)
  BY <1>2, <1>4 DEF ComesAfter
<1>6. data = <<>> <=> Len(data) = 0
  BY <1>4, EmptySeq
<1>. QED BY <1>1, <1>4, <1>5, <1>6, Sizes

\* A request takes the stream of requests further: the configuration, then one chunk
\* after the other.
LEMMA RequestProperties ==
  ASSUME TypeOK, Chain(stream, 0, loaded), yielded <= Len(stream)
  PROVE  /\ request \in Seq(0..StreamLength) /\ Len(request) > 0
         /\ Sent \in Int /\ ComesAfter(request, Sent)
         /\ Sent = -1 => Len(request) = 1
         /\ Sent + Len(request) = LastOf(stream, 0, yielded)
<1>1. /\ yielded \in Nat /\ Len(stream) \in Nat /\ loaded \in Int
      /\ stream \in Seq(Seq(1..StreamLength))
  BY Sizes DEF TypeOK
<1>2. CASE yielded = 0
  <2>1. request = <<0>> /\ Sent = -1 /\ LastOf(stream, 0, yielded) = 0
    BY <1>2 DEF request, Config, Sent, LastOf
  <2>2. <<0>> \in Seq(0..StreamLength) /\ Len(<<0>>) = 1 /\ <<0>>[1] = 0
    BY Sizes
  <2>3. ComesAfter(<<0>>, -1)
    BY <2>2 DEF ComesAfter
  <2>. QED BY <2>1, <2>2, <2>3
<1>3. CASE yielded # 0
  <2>1. request = stream[yielded] /\ Sent = LastOf(stream, 0, yielded - 1)
        /\ LastOf(stream, 0, yielded) = request[Len(request)]
    BY <1>3 DEF request, Sent, LastOf
  <2>2. yielded \in 1..Len(stream) /\ yielded - 1 \in 0..Len(stream)
    BY <1>1, <1>3
  <2>3. request \in Seq(1..StreamLength)
    BY <1>1, <2>1, <2>2, ElementOfSeq
  <2>4. request \in Seq(0..StreamLength)
    BY <2>3, Sizes, SeqMonotonic
  <2>5. Len(request) > 0 /\ ComesAfter(request, Sent)
    BY <2>1, <2>2 DEF Chain
  <2>6. Sent \in Nat
    <3>1. CASE yielded = 1
      BY <2>1, <3>1 DEF LastOf
    <3>2. CASE yielded # 1
      <4>1. yielded - 1 \in 1..Len(stream) /\ yielded - 1 # 0
        BY <1>1, <1>3, <2>2, <3>2
      <4>2. stream[yielded - 1] \in Seq(1..StreamLength) /\ Len(stream[yielded - 1]) > 0
        BY <1>1, <4>1, ElementOfSeq DEF Chain
      <4>3. Len(stream[yielded - 1]) \in 1..Len(stream[yielded - 1])
        BY <4>2
      <4>4. stream[yielded - 1][Len(stream[yielded - 1])] \in 1..StreamLength
        BY <4>2, <4>3, ElementOfSeq
      <4>. QED BY <2>1, <4>1, <4>4, Sizes DEF LastOf
    <3>. QED BY <3>1, <3>2
  <2>7. request[Len(request)] = Sent + Len(request)
    <3>1. Len(request) \in 1..Len(request)
      BY <2>3, <2>5
    <3>. QED BY <2>5, <3>1 DEF ComesAfter
  <2>. QED BY <2>1, <2>4, <2>5, <2>6, <2>7
<1>. QED BY <1>2, <1>3

\* The last byte sent is a byte of the file, or there is none.
LEMMA SentInt == TypeOK /\ Chain(stream, 0, loaded) => Sent \in Int
<1>. SUFFICES ASSUME TypeOK, Chain(stream, 0, loaded) PROVE Sent \in Int
  OBVIOUS
<1>1. /\ stream \in Seq(Seq(1..StreamLength)) /\ loaded \in Int
      /\ yielded # 0 => yielded - 1 \in 0..Len(stream)
  BY Sizes DEF TypeOK
<1>2. \A k \in 0..Len(stream) : LastOf(stream, 0, k) \in Int
  BY <1>1, Sizes, ChainBounds
<1>. QED BY <1>1, <1>2 DEF Sent

-------------------------------------------------------------------------------
\* The invariant is inductive.

LEMMA InitIndInv == Init => IndInv
<1>. SUFFICES ASSUME Init PROVE IndInv
  OBVIOUS
<1>1. TypeOK
  <2>1. RpcTypeOK(0..StreamLength)
    BY RpcInitTypes DEF Init
  <2>. QED BY <2>1, Sizes DEF Init, TypeOK
<1>2. Control
  BY DEF Init, RpcInit, Control, Over
<1>3. Content
  <2>1. Chain(<<>>, 0, 0) /\ Chain(<<>>, -1, -1)
    BY ChainEmpty
  <2>2. Sent = -1 /\ 0 - 1 = -1 /\ Len(<<>>) = 0
    BY DEF Init, Sent
  <2>3. ComesAfter(<<>>, -1)
    BY DEF ComesAfter
  <2>4. Carried(Sent)
    BY <2>1, <2>2, <2>3 DEF Init, RpcInit, Carried
  <2>. QED BY <2>1, <2>4 DEF Init, Content
<1>4. PrintedInOrder /\ Unprinted
  BY DEF Init, RpcInit, PrintedInOrder, Unprinted
<1>. QED BY <1>1, <1>2, <1>3, <1>4 DEF IndInv

LEMMA NextTypeOK == IndInv /\ [Next]_vars => TypeOK'
<1>. SUFFICES ASSUME TypeOK, Content, [Next]_vars PROVE TypeOK'
  BY DEF IndInv
<1>. USE DEF script_state
<1>1. CASE LoadChunk
  <2>1. RpcTypeOK(0..StreamLength)'
    BY <1>1 DEF LoadChunk, wire, service, TypeOK, RpcTypeOK
  <2>2. CASE data = <<>>
    BY <1>1, <2>1, <2>2 DEF LoadChunk, TypeOK
  <2>3. CASE data # <<>>
    <3>1. /\ stream' = Append(stream, data) /\ loaded' = loaded + Len(data)
          /\ UNCHANGED <<script, main, printed, yielded>>
      BY <1>1, <2>3 DEF LoadChunk
    <3>2. /\ data \in Seq(1..StreamLength) /\ Len(data) \in 1..chunk_size
          /\ loaded + Len(data) \in 0..StreamLength
      BY <2>3, Sizes, DataProperties DEF TypeOK
    <3>3. /\ stream' \in Seq(Seq(1..StreamLength)) /\ Len(stream') = Len(stream) + 1
          /\ \A k \in 1..Len(stream') : Len(stream'[k]) \in 1..chunk_size
      BY <3>1, <3>2 DEF TypeOK
    <3>4. yielded' \in 0..Len(stream') + 1
      BY <3>1, <3>3 DEF TypeOK
    <3>. QED BY <2>1, <3>1, <3>2, <3>3, <3>4 DEF TypeOK
  <2>. QED BY <2>2, <2>3
<1>2. CASE LoadFails
  BY <1>2 DEF LoadFails, wire, service, TypeOK, RpcTypeOK
<1>3. CASE Call
  <2>1. RpcTypeOK(0..StreamLength)'
    BY <1>3 DEF Call, service, TypeOK, RpcTypeOK
  <2>. QED BY <1>3, <2>1 DEF Call, TypeOK
<1>4. CASE NextResponse
  <2>1. /\ Head(in) \in Responses /\ in' \in Seq(Responses) /\ Len(in') <= WindowIn
    <3>1. in # <<>> /\ in \in Seq(Responses) /\ Len(in) <= WindowIn /\ Len(in) \in Nat
      BY <1>4 DEF NextResponse, TypeOK, RpcTypeOK
    <3>2. /\ Head(in) \in Responses /\ Tail(in) \in Seq(Responses)
          /\ Len(Tail(in)) = Len(in) - 1
      BY <3>1, HeadTailProperties
    <3>3. in' = Tail(in) \/ in' = <<>>
      BY <1>4 DEF NextResponse, Receive, DropCall
    <3>4. <<>> \in Seq(Responses) /\ Len(<<>>) <= WindowIn
      BY Windows
    <3>5. Len(Tail(in)) <= WindowIn
      BY <3>1, <3>2, Windows
    <3>. QED BY <3>2, <3>3, <3>4, <3>5
  <2>2. /\ rpc' \in {"none", "running", "ok", "failed"}
        /\ out' \in {out, <<>>} /\ UNCHANGED <<half_closed, service>>
    BY <1>4 DEF NextResponse, Receive, DropCall, TypeOK, RpcTypeOK
  <2>3. RpcTypeOK(0..StreamLength)'
    <3>1. <<>> \in Seq(Seq(0..StreamLength)) /\ Len(<<>>) <= WindowOut
      BY Windows
    <3>. QED BY <2>1, <2>2, <3>1 DEF TypeOK, RpcTypeOK, service
  <2>4. /\ main' \in {"iterate", "broke", "raised"}
        /\ printed' = printed \/ printed' = Append(printed, Head(in))
        /\ UNCHANGED <<script, stream, loaded, yielded>>
    BY <1>4 DEF NextResponse
  <2>5. printed' \in Seq(Responses)
    <3>1. printed \in Seq(Responses)
      BY DEF TypeOK
    <3>. QED BY <2>1, <2>4, <3>1, AppendProperties
  <2>. QED BY <2>3, <2>4, <2>5 DEF TypeOK
<1>5. CASE ResponsesEnd
  BY <1>5 DEF ResponsesEnd, wire, service, TypeOK, RpcTypeOK
<1>6. CASE GeneratorEnds
  <2>1. RpcTypeOK(0..StreamLength)'
    BY <1>6 DEF GeneratorEnds, HalfClose, service, TypeOK, RpcTypeOK
  <2>. QED BY <1>6, <2>1 DEF GeneratorEnds, TypeOK
<1>7. CASE YieldRequest
  <2>1. /\ yielded <= Len(stream) /\ Send(request) /\ yielded' = yielded + 1
        /\ UNCHANGED <<script, main, stream, loaded, printed, service>>
    BY <1>7 DEF YieldRequest
  <2>2. request \in Seq(0..StreamLength)
    BY <2>1, RequestProperties DEF Content
  <2>3. RpcTypeOK(0..StreamLength)'
    BY <2>1, <2>2, SendTypes DEF TypeOK
  <2>4. yielded' \in 0..Len(stream) + 1
    BY <2>1 DEF TypeOK
  <2>. QED BY <2>1, <2>3, <2>4 DEF TypeOK
<1>8. CASE (Server \/ RpcFails) /\ UNCHANGED <<script_state, yielded>>
  <2>1. RpcTypeOK(0..StreamLength)'
    BY <1>8, ServiceTypes DEF TypeOK
  <2>. QED BY <1>8, <2>1 DEF TypeOK
<1>9. CASE UNCHANGED vars
  BY <1>9 DEF vars, wire, service, TypeOK, RpcTypeOK
<1>. QED BY <1>1, <1>2, <1>3, <1>4, <1>5, <1>6, <1>7, <1>8, <1>9 DEF Next, Script, Consumer

LEMMA NextControl == IndInv /\ [Next]_vars => Control'
<1>. SUFFICES ASSUME TypeOK, Control, [Next]_vars PROVE Control'
  BY DEF IndInv
<1>. USE DEF script_state, Control, Over
<1>1. CASE LoadChunk
  BY <1>1 DEF LoadChunk, wire, service
<1>2. CASE LoadFails
  BY <1>2 DEF LoadFails, wire, service
<1>3. CASE Call
  BY <1>3 DEF Call, service
<1>4. CASE NextResponse
  <2>1. /\ main = "iterate" /\ main' \in {"iterate", "broke", "raised"}
        /\ UNCHANGED <<half_closed, yielded, stream>>
        /\ \/ UNCHANGED <<rpc, main>>
           \/ rpc' = IF rpc = "running" THEN "failed" ELSE rpc
    BY <1>4 DEF NextResponse, Receive, DropCall
  <2>. QED BY <2>1
<1>5. CASE ResponsesEnd
  BY <1>5 DEF ResponsesEnd, StreamEnded, wire, service
<1>6. CASE YieldRequest
  <2>1. rpc = "running" /\ yielded <= Len(stream)
        /\ UNCHANGED <<rpc, main, half_closed>>
    BY <1>6 DEF YieldRequest, Send
  <2>2. ~half_closed
    BY <2>1 DEF TypeOK
  <2>. QED BY <2>1, <2>2
<1>7. CASE GeneratorEnds
  <2>1. yielded = Len(stream) + 1 /\ rpc = "running"
    BY <1>7 DEF GeneratorEnds, HalfClose, TypeOK
  <2>. QED BY <1>7, <2>1 DEF GeneratorEnds, HalfClose
<1>8. CASE (Server \/ RpcFails) /\ UNCHANGED <<script_state, yielded>>
  <2>1. rpc = "running" /\ rpc' # "none" /\ UNCHANGED half_closed
    BY <1>8 DEF Server, ServerReceives, ServerAnswers, ServerEnds, RpcFails
  <2>. QED BY <1>8, <2>1
<1>9. CASE UNCHANGED vars
  BY <1>9 DEF vars, wire, service
<1>. QED BY <1>1, <1>2, <1>3, <1>4, <1>5, <1>6, <1>7, <1>8, <1>9 DEF Next, Script, Consumer

LEMMA NextContent == IndInv /\ [Next]_vars => Content'
<1>. SUFFICES ASSUME TypeOK, Control, Content, [Next]_vars PROVE Content'
  BY DEF IndInv
<1>. USE DEF script_state
<1>0. /\ loaded \in Int /\ yielded \in Nat /\ Len(stream) \in Nat
      /\ stream \in Seq(Seq(1..StreamLength))
  BY Sizes DEF TypeOK
<1>1. CASE LoadChunk
  <2>1. /\ main = "load" /\ rpc = "none" /\ yielded = 0 /\ ~half_closed /\ Carried(-1)
    BY <1>1 DEF LoadChunk, Control, Content, Over, Sent
  <2>2. UNCHANGED <<rpc, out, received, answers, half_closed, yielded>>
    BY <1>1 DEF LoadChunk, wire, service
  <2>3. Carried(Sent)'
    <3>1. Sent' = -1
      BY <2>1, <2>2 DEF Sent
    <3>. QED BY <2>1, <2>2, <3>1 DEF Carried
  <2>4. CASE data = <<>>
    <3>1. loaded = StreamLength /\ UNCHANGED <<stream, loaded>>
      BY <1>1, <2>4, DataProperties DEF LoadChunk, TypeOK
    <3>. QED BY <2>3, <3>1 DEF Content
  <2>5. CASE data # <<>>
    <3>1. /\ stream' = Append(stream, data) /\ loaded' = loaded + Len(data) /\ main' = main
      BY <1>1, <2>5 DEF LoadChunk
    <3>2. data \in Seq(1..StreamLength) /\ Len(data) > 0 /\ ComesAfter(data, loaded)
      BY <2>5, DataProperties DEF TypeOK
    <3>3. Chain(stream, 0, loaded)
      BY DEF Content
    <3>4. Chain(Append(stream, data), 0, loaded + Len(data))
      BY <1>0, <3>2, <3>3, Sizes, ChainAppend
    <3>. QED BY <2>1, <2>3, <3>1, <3>4 DEF Content
  <2>. QED BY <2>4, <2>5
<1>2. CASE LoadFails
  BY <1>2 DEF LoadFails, Content, Over
<1>3. CASE Call
  <2>1. rpc = "none" /\ Carried(-1) /\ Sent = -1 /\ UNCHANGED Sent
    BY <1>3 DEF Call, Control, Content, Over, Sent
  <2>2. Carried(-1)'
    BY <1>3, <2>1 DEF Call, service, Carried
  <2>. QED BY <1>3, <2>1, <2>2 DEF Call, Content, Carried
<1>4. CASE NextResponse
  <2>1. main = "iterate" /\ UNCHANGED <<stream, loaded, yielded, half_closed, service>>
        /\ (UNCHANGED <<rpc, out>> \/ main' \in {"broke", "raised"})
    BY <1>4 DEF NextResponse, Receive, DropCall
  <2>2. UNCHANGED Sent
    BY <2>1 DEF Sent
  <2>. QED BY <2>1, <2>2 DEF Content, Over, Carried, service
<1>5. CASE ResponsesEnd
  BY <1>5 DEF ResponsesEnd, Content, Over
<1>6. CASE YieldRequest
  <2>1. /\ yielded <= Len(stream) /\ Send(request) /\ yielded' = yielded + 1
        /\ UNCHANGED <<main, stream, loaded, service>>
        /\ rpc = "running"
    BY <1>6 DEF YieldRequest, Send
  <2>2. /\ request \in Seq(0..StreamLength) /\ Len(request) > 0
        /\ Sent \in Int /\ ComesAfter(request, Sent)
        /\ Sent = -1 => Len(request) = 1
        /\ Sent + Len(request) = LastOf(stream, 0, yielded)
    BY <2>1, RequestProperties DEF Content
  <2>3. PICK s \in Int : s = Sent
    BY <2>2
  <2>4. PICK m : m = s + Len(request)
    OBVIOUS
  <2>5. Carried(s)
    BY <2>1, <2>3 DEF Content, Control, Over
  <2>6. Carried(m)'
    <3>1. ComesAfter(request, s) /\ (s = -1 => Len(request) = 1)
      BY <2>2, <2>3
    <3>. QED BY <2>1, <2>2, <2>4, <2>5, <3>1, Sizes, SendCarried DEF TypeOK
  <2>7. Sent' = m
    BY <1>0, <2>1, <2>2, <2>3, <2>4 DEF Sent
  <2>8. Carried(Sent)'
    BY <2>6, <2>7 DEF Carried
  <2>. QED BY <2>1, <2>8 DEF Content
<1>7. CASE GeneratorEnds
  <2>1. /\ UNCHANGED <<main, stream, loaded, yielded, rpc, out, received, answers>>
        /\ half_closed' = TRUE /\ UNCHANGED Sent
    BY <1>7 DEF GeneratorEnds, HalfClose, service, Sent
  <2>. QED BY <2>1 DEF Content, Carried, Over
<1>8. CASE (Server \/ RpcFails) /\ UNCHANGED <<script_state, yielded>>
  <2>1. rpc = "running"
    BY <1>8 DEF Server, ServerReceives, ServerAnswers, ServerEnds, RpcFails
  <2>2. main = "iterate" /\ Carried(Sent)
    BY <2>1 DEF Content, Control, Over, TypeOK
  <2>3. Sent \in Int /\ UNCHANGED Sent
    BY <1>8, SentInt DEF Sent, Content
  <2>4. PICK s \in Int : s = Sent
    BY <2>3
  <2>5. Carried(s)'
    BY <1>8, <2>2, <2>4, Sizes, ServiceCarried DEF TypeOK
  <2>6. Carried(Sent)'
    BY <2>3, <2>4, <2>5 DEF Carried
  <2>. QED BY <1>8, <2>6 DEF Content
<1>9. CASE UNCHANGED vars
  BY <1>9 DEF vars, wire, service, Content, Over, Carried, Sent
<1>. QED BY <1>1, <1>2, <1>3, <1>4, <1>5, <1>6, <1>7, <1>8, <1>9 DEF Next, Script, Consumer

LEMMA NextPrinted == IndInv /\ [Next]_vars => PrintedInOrder' /\ Unprinted'
<1>. SUFFICES ASSUME TypeOK, Control, PrintedInOrder, Unprinted, [Next]_vars
              PROVE  PrintedInOrder' /\ Unprinted'
  BY DEF IndInv
<1>. USE DEF script_state, PrintedInOrder, Unprinted
<1>0. /\ printed \in Seq(Responses) /\ answers \in Seq(Responses) /\ in \in Seq(Responses)
      /\ Len(printed) \in Nat /\ Len(answers) \in Nat /\ Len(in) \in Nat
  BY DEF TypeOK, RpcTypeOK
<1>1. CASE LoadChunk
  BY <1>1 DEF LoadChunk, wire, service
<1>2. CASE LoadFails
  BY <1>2 DEF LoadFails, wire, service
<1>3. CASE Call
  <2>1. in = <<>> /\ answers = <<>> /\ main = "call" /\ main' = "iterate"
        /\ UNCHANGED <<printed, in, answers>>
    BY <1>3 DEF Call, Control, service
  <2>2. Len(printed) = 0
    BY <1>0, <2>1
  <2>3. InFlight(Len(printed))'
    BY <2>1, <2>2 DEF InFlight
  <2>. QED BY <2>1, <2>2, <2>3
<1>4. CASE NextResponse
  <2>1. /\ main = "iterate" /\ in # <<>> /\ UNCHANGED answers
        /\ InFlight(Len(printed))
        /\ \A i \in 1..Len(printed) : printed[i] # "error"
    BY <1>4 DEF NextResponse, service
  <2>2. /\ Len(printed) + 1 \in 1..Len(answers) /\ Head(in) = answers[Len(printed) + 1]
        /\ Head(in) \in Responses
    <3>1. Len(in) # 0 /\ Head(in) = in[1] /\ Head(in) \in Responses
      BY <1>0, <2>1, EmptySeq, HeadTailProperties
    <3>2. 1 \in 1..Len(in)
      BY <1>0, <3>1
    <3>. QED BY <1>0, <2>1, <3>1, <3>2 DEF InFlight
  <2>3. CASE Receive(Head(in)) /\ Head(in) # "error" /\ UNCHANGED main
             /\ printed' = Append(printed, Head(in))
    <3>1. /\ Len(printed') = Len(printed) + 1
          /\ \A i \in 1..Len(printed) : printed'[i] = printed[i]
          /\ printed'[Len(printed) + 1] = Head(in)
      BY <1>0, <2>2, <2>3, AppendProperties
    <3>2. PrintedInOrder'
      BY <1>0, <2>1, <2>2, <2>3, <3>1
    <3>3. PICK n \in Nat : n = Len(printed)
      BY <1>0
    <3>4. InFlight(n)
      BY <2>1, <3>3
    <3>5. InFlight(n + 1)' /\ Len(in') = Len(in) - 1
      BY <2>1, <2>3, <3>4, ReceiveInFlight DEF TypeOK
    <3>6. InFlight(Len(printed))'
      <4>1. Len(printed') = n + 1
        BY <3>1, <3>3
      <4>. QED BY <3>5, <4>1 DEF InFlight
    <3>7. rpc # "failed" => Len(printed') + Len(in') = Len(answers')
      BY <1>0, <2>1, <3>1, <3>5
    <3>8. rpc' = rpc
      BY <2>3 DEF Receive
    <3>9. Unprinted'
      BY <3>6, <3>7, <3>8
    <3>. QED BY <3>2, <3>9
  <2>4. CASE Head(in) = "error" /\ main' = "broke" /\ printed' = Append(printed, Head(in))
    <3>1. /\ Len(printed') = Len(printed) + 1
          /\ \A i \in 1..Len(printed) : printed'[i] = printed[i]
          /\ printed'[Len(printed) + 1] = Head(in)
      BY <1>0, <2>2, <2>4, AppendProperties
    <3>. QED BY <1>0, <2>1, <2>2, <2>4, <3>1
  <2>5. CASE main' = "raised" /\ UNCHANGED printed
    BY <2>1, <2>5
  <2>. QED BY <1>4, <2>3, <2>4, <2>5 DEF NextResponse
<1>5. CASE ResponsesEnd
  <2>1. /\ main = "iterate" /\ StreamEnded /\ in = <<>>
        /\ main' = IF rpc = "ok" THEN "exhausted" ELSE "raised"
        /\ UNCHANGED <<printed, answers>>
    BY <1>5 DEF ResponsesEnd, service
  <2>2. CASE rpc = "ok"
    <3>1. Len(printed) = Len(answers)
      BY <1>0, <2>1, <2>2
    <3>2. printed = answers
      BY <1>0, <3>1, SeqEqual
    <3>. QED BY <2>1, <2>2, <3>2
  <2>3. CASE rpc # "ok"
    BY <2>1, <2>3
  <2>. QED BY <2>2, <2>3
<1>6. CASE YieldRequest
  <2>1. UNCHANGED <<main, printed, rpc, in, answers>>
    BY <1>6 DEF YieldRequest, Send, service
  <2>. QED BY <2>1 DEF InFlight
<1>7. CASE GeneratorEnds
  <2>1. UNCHANGED <<main, printed, rpc, in, answers>>
    BY <1>7 DEF GeneratorEnds, HalfClose, service
  <2>. QED BY <2>1 DEF InFlight
<1>8. CASE (Server \/ RpcFails) /\ UNCHANGED <<script_state, yielded>>
  <2>1. rpc = "running" /\ (RpcFails => rpc' = "failed")
    BY <1>8 DEF Server, ServerReceives, ServerAnswers, ServerEnds, RpcFails
  <2>2. main = "iterate" /\ UNCHANGED <<main, printed>>
    BY <1>8, <2>1 DEF Control, Over, TypeOK
  <2>3. PICK n \in Nat : n = Len(printed)
    BY <1>0
  <2>4. /\ InFlight(n)'
        /\ Server => Len(answers') - Len(in') = Len(answers) - Len(in)
        /\ Len(answers) <= Len(answers')
        /\ \A i \in 1..Len(answers) : answers'[i] = answers[i]
    BY <1>8, <2>2, <2>3, ServiceInFlight DEF TypeOK
  <2>5. Len(answers') \in Nat /\ Len(in') \in Nat
    <3>1. RpcTypeOK(0..StreamLength)'
      BY <1>8, ServiceTypes DEF TypeOK
    <3>. QED BY <3>1 DEF RpcTypeOK
  <2>6. PrintedInOrder'
    <3>1. Len(printed) <= Len(answers')
      BY <1>0, <2>4, <2>5
    <3>2. \A i \in 1..Len(printed) : printed[i] = answers'[i]
      BY <1>0, <2>4
    <3>. QED BY <2>2, <3>1, <3>2
  <2>7. InFlight(Len(printed))'
    BY <2>2, <2>3, <2>4 DEF InFlight
  <2>8. rpc' # "failed" => Len(printed) + Len(in') = Len(answers')
    BY <1>0, <1>8, <2>1, <2>2, <2>4, <2>5
  <2>. QED BY <2>2, <2>6, <2>7, <2>8
<1>9. CASE UNCHANGED vars
  BY <1>9 DEF vars, wire, service, InFlight
<1>. QED BY <1>1, <1>2, <1>3, <1>4, <1>5, <1>6, <1>7, <1>8, <1>9 DEF Next, Script, Consumer

LEMMA NextIndInv == IndInv /\ [Next]_vars => IndInv'
BY NextTypeOK, NextControl, NextContent, NextPrinted DEF IndInv

-------------------------------------------------------------------------------
\* The theorems.

\* The invariant that the others follow from.
THEOREM Invariance == Spec => []IndInv
<1>1. Init => IndInv
  BY InitIndInv
<1>2. IndInv /\ [Next]_vars => IndInv'
  BY NextIndInv
<1>. QED BY <1>1, <1>2, PTL DEF Spec

\* Types; no chunk is empty or too large, and the generator gives no more than it has.
THEOREM TypeCorrectness == Spec => []TypeOK
<1>1. IndInv => TypeOK
  BY DEF IndInv
<1>. QED BY <1>1, Invariance, PTL

\* What is printed is what the service has answered, all of it or up to the first error.
THEOREM PrintedInOrderAlways == Spec => []PrintedInOrder
<1>1. IndInv => PrintedInOrder
  BY DEF IndInv
<1>. QED BY <1>1, Invariance, PTL

\* What the script, and the thread that consumes the generator, wait for.
ScriptCanMove ==
    \/ main \in {"load", "call"}
    \/ main = "iterate" /\ (in # <<>> \/ StreamEnded)
ConsumerCanMove ==
    /\ rpc = "running"
    /\ IF yielded <= Len(stream) THEN Len(out) < WindowOut ELSE ~half_closed

\* Until the script ends, it or the generator or the service can go on.
NeverStuck == Over \/ ScriptCanMove \/ ConsumerCanMove \/ ServerCanMove

\* The loop over the responses and the generator never wait for each other by way of the
\* service, full as the windows of the call may be in both directions: no timeout is
\* needed to get out of it.
THEOREM NeverStuckAlways == Spec => []NeverStuck
<1>1. IndInv => NeverStuck
  <2>. SUFFICES ASSUME IndInv, ~Over, ~ScriptCanMove, ~ServerCanMove
                PROVE  ConsumerCanMove
    BY DEF NeverStuck
  <2>1. main = "iterate" /\ in = <<>> /\ ~StreamEnded
    BY DEF IndInv, TypeOK, Over, ScriptCanMove
  <2>2. rpc = "running"
    BY <2>1 DEF IndInv, Control, TypeOK, RpcTypeOK, StreamEnded
  <2>3. Len(in) < WindowIn
    BY <2>1, Windows
  <2>4. out = <<>> /\ ~half_closed
    BY <2>2, <2>3 DEF ServerCanMove
  <2>5. Len(out) < WindowOut
    BY <2>4, Windows
  <2>. QED BY <2>2, <2>4, <2>5 DEF ConsumerCanMove
<1>. QED BY <1>1, Invariance, PTL

-------------------------------------------------------------------------------
\* The scripts implement AnnotateVideo.

LEMMA AbstractInit == Init => Abstract!Init
BY DEF Init, RpcInit, Over, Abstract!Init

\* The service takes a part of the stream that is longer than before.
LEMMA ServerReceivesIsReceive ==
  ASSUME IndInv, IndInv', ServerReceives, UNCHANGED <<script_state, yielded>>
  PROVE  Abstract!Receive
<1>1. /\ rpc = "running" /\ out # <<>> /\ received' = received \o Head(out)
      /\ UNCHANGED <<main, stream, loaded, yielded>>
  BY DEF ServerReceives, script_state
<1>2. main = "iterate"
  BY <1>1 DEF IndInv, TypeOK, Control, Over
<1>3. /\ received \in Seq(0..StreamLength) /\ received' \in Seq(0..StreamLength)
      /\ out \in Seq(Seq(0..StreamLength))
      /\ Len(received) \in Nat /\ Len(received') \in Nat /\ Len(received) - 1 \in Int
      /\ loaded \in 0..StreamLength
  BY DEF IndInv, TypeOK, RpcTypeOK
<1>4. Chain(out, Len(received) - 1, Sent) /\ Sent \in Int
  BY <1>1, <1>2, SentInt DEF IndInv, Content, Carried, Over
<1>5. Head(out) \in Seq(0..StreamLength) /\ Len(Head(out)) > 0
  BY <1>1, <1>3, <1>4, Sizes, ChainTail
<1>6. Len(received') = Len(received) + Len(Head(out))
  BY <1>1, <1>3, <1>5, ConcatProperties
<1>7. ComesAfter(received', -1) /\ Len(received') - 1 <= loaded
  <2>1. ComesAfter(received', -1) /\ Len(received') - 1 <= Sent' /\ Sent' = Sent
    BY <1>1, <1>2 DEF IndInv, Content, Carried, Over, Sent
  <2>2. Sent <= loaded
    <3>1. stream \in Seq(Seq(1..StreamLength)) /\ Chain(stream, 0, loaded)
          /\ loaded \in Int /\ (yielded # 0 => yielded - 1 \in 0..Len(stream))
      BY Sizes DEF IndInv, TypeOK, Content
    <3>2. \A k \in 0..Len(stream) : LastOf(stream, 0, k) <= loaded
      BY <3>1, Sizes, ChainBounds
    <3>. QED BY <1>3, <3>1, <3>2 DEF Sent
  <2>. QED BY <1>3, <1>4, <2>1, <2>2
<1>. DEFINE n == Len(received')
<1>8. n \in Len(received) + 1..loaded + 1
  <2>1. Len(Head(out)) \in Nat
    BY <1>5
  <2>. QED BY <1>3, <1>5, <1>6, <1>7, <2>1, Sizes
<1>9. received' = SubSeq(Abstract!Stream(loaded), 1, n)
  <2>1. n <= loaded + 1
    BY <1>3, <1>8
  <2>2. received' = SubSeq(Stream(loaded), 1, n)
    BY <1>3, <1>7, <2>1, Sizes, StreamPrefix
  <2>. QED BY <2>2 DEF Stream, Abstract!Stream
<1>10. received = <<>> => n = 1
  <2>1. SUFFICES ASSUME received = <<>> PROVE n = 1
    OBVIOUS
  <2>2. Len(out[1]) = 1 /\ Len(received) = 0
    BY <1>1, <1>2, <2>1 DEF IndInv, Content, Carried, Over
  <2>3. Head(out) = out[1]
    BY <1>1, <1>3, EmptySeq, HeadTailProperties
  <2>. QED BY <1>6, <2>2, <2>3
<1>. QED BY <1>1, <1>2, <1>8, <1>9, <1>10 DEF Abstract!Receive, Over

\* A loop that has run out of responses has sent the whole file.
LEMMA ResponsesEndIsSuccess ==
  ASSUME IndInv, ResponsesEnd, rpc = "ok"
  PROVE  Abstract!Succeed
<1>1. /\ main = "iterate" /\ main' = "exhausted" /\ UNCHANGED <<loaded, received>>
  BY DEF ResponsesEnd, service
<1>2. /\ half_closed /\ Len(received) - 1 = Sent /\ ComesAfter(received, -1)
      /\ loaded = StreamLength
  BY <1>1 DEF IndInv, Content, Carried, Over
<1>3. Sent = StreamLength
  <2>1. yielded = Len(stream) + 1 /\ Len(stream) \in Nat
    BY <1>2 DEF IndInv, Control, TypeOK
  <2>. QED BY <1>2, <2>1 DEF Sent, IndInv, Content, Chain
<1>4. /\ received \in Seq(0..StreamLength) /\ Len(received) = loaded + 1
      /\ loaded + 1 <= loaded + 1 /\ loaded \in 0..StreamLength
  BY <1>2, <1>3, Sizes DEF IndInv, TypeOK, RpcTypeOK
<1>5. received = Stream(loaded)
  BY <1>2, <1>4, Sizes, StreamPrefix
<1>6. received = Abstract!Stream(loaded)
  BY <1>5 DEF Stream, Abstract!Stream
<1>. QED BY <1>1, <1>2, <1>6 DEF Abstract!Succeed, Over

LEMMA AbstractNext == IndInv /\ IndInv' /\ [Next]_vars => [Abstract!Next]_(Abstract!vars)
<1>. SUFFICES ASSUME IndInv, IndInv', [Next]_vars PROVE [Abstract!Next]_(Abstract!vars)
  OBVIOUS
<1>. USE DEF script_state
\* The script goes on, or fails.
<1>a. ASSUME UNCHANGED <<main, loaded, received>> PROVE UNCHANGED Abstract!vars
  BY <1>a DEF Abstract!vars, Over
<1>b. ASSUME UNCHANGED <<loaded, received>>, ~Over, main' \in {"broke", "raised"}
      PROVE  Abstract!Fail
  BY <1>b DEF Abstract!Fail, Over
<1>1. CASE LoadChunk
  <2>1. CASE data = <<>>
    BY <1>1, <2>1 DEF LoadChunk, service, Abstract!vars, Over
  <2>2. CASE data # <<>>
    <3>1. /\ main = "load" /\ main' = main /\ loaded' = loaded + Len(data)
          /\ UNCHANGED received
      BY <1>1, <2>2 DEF LoadChunk, service
    <3>2. loaded' \in loaded + 1..StreamLength
      BY <2>2, <3>1, Sizes, DataProperties DEF IndInv, TypeOK
    <3>. QED BY <3>1, <3>2 DEF Abstract!Read, Abstract!Next, Over
  <2>. QED BY <2>1, <2>2
<1>2. CASE LoadFails
  BY <1>2, <1>b DEF LoadFails, service, Over, Abstract!Next
<1>3. CASE Call
  BY <1>3 DEF Call, service, Abstract!vars, Over
<1>4. CASE NextResponse
  <2>1. /\ main = "iterate" /\ UNCHANGED <<loaded, received>>
        /\ main' = main \/ main' \in {"broke", "raised"}
    BY <1>4 DEF NextResponse, service
  <2>. QED BY <2>1, <1>a, <1>b DEF Over, Abstract!Next
<1>5. CASE ResponsesEnd
  <2>1. CASE rpc = "ok"
    BY <1>5, <2>1, ResponsesEndIsSuccess DEF Abstract!Next
  <2>2. CASE rpc # "ok"
    BY <1>5, <2>2, <1>b DEF ResponsesEnd, service, Over, Abstract!Next
  <2>. QED BY <2>1, <2>2
<1>6. CASE YieldRequest \/ GeneratorEnds
  BY <1>6, <1>a DEF YieldRequest, GeneratorEnds, service
<1>7. CASE ServerReceives /\ UNCHANGED <<script_state, yielded>>
  BY <1>7, ServerReceivesIsReceive DEF Abstract!Next
<1>8. CASE (ServerAnswers \/ ServerEnds \/ RpcFails) /\ UNCHANGED <<script_state, yielded>>
  BY <1>8, <1>a DEF ServerAnswers, ServerEnds, RpcFails, service
<1>9. CASE UNCHANGED vars
  BY <1>9, <1>a DEF vars, service
<1>. QED BY <1>1, <1>2, <1>3, <1>4, <1>5, <1>6, <1>7, <1>8, <1>9
         DEF Next, Script, Consumer, Server

\* The scripts keep the promises of AnnotateVideo; success is a loop that has run out of
\* responses.
THEOREM Implementation == Spec => Implements
<1>1. Init => Abstract!Init
  BY AbstractInit
<1>2. IndInv /\ IndInv' /\ [Next]_vars => [Abstract!Next]_(Abstract!vars)
  BY AbstractNext
<1>. QED BY <1>1, <1>2, Invariance, PTL DEF Spec, Implements, Abstract!Spec
===============================================================================
