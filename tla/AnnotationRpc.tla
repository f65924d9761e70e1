----------------------------- MODULE AnnotationRpc -----------------------------
(***************************************************************************)
(* The StreamingAnnotateVideo call as its clients (ingestion/client) see   *)
(* it: a gRPC stream with a bounded window in each direction, and the      *)
(* service behind it, which takes a request, answers it, and only then     *)
(* takes the next.  The call may break at any moment.                      *)
(*                                                                         *)
(* A request is the sequence of what it carries: <<Config>>, or bytes of   *)
(* the video, numbered from 1.  The clients extend this module; its        *)
(* actions say nothing of their variables.                                 *)
(***************************************************************************)
EXTENDS Naturals, Sequences

CONSTANTS
    WindowOut,      \* requests in flight before a client blocks
    WindowIn,       \* responses in flight before the service blocks
    MaxAnswers,     \* responses to one request, at most
    Responses       \* what they are; "error" among them

ASSUME AnnotationRpcAssumption ==
    /\ WindowOut \in Nat \ {0}
    /\ WindowIn \in Nat \ {0}
    /\ MaxAnswers \in Nat
    /\ "error" \in Responses

VARIABLES
    rpc,            \* "none", "running", "ok" or "failed"
    out, in,        \* requests and responses in flight
    half_closed,    \* the service will see the end of the requests
    received,       \* what the requests it has taken carried, in order
    owed,           \* the responses it has yet to send before it takes more
    answers         \* the responses it has sent, in order

service == <<received, owed, answers>>
wire == <<rpc, out, in, half_closed>>

Config == 0

RpcInit ==
    /\ rpc = "none" /\ out = <<>> /\ in = <<>> /\ half_closed = FALSE
    /\ received = <<>> /\ owed = 0 /\ answers = <<>>

-------------------------------------------------------------------------------
\* A request is on its way: there was room, or the client has waited for it.
Send(request) ==
    /\ rpc = "running"
    /\ Len(out) < WindowOut
    /\ out' = Append(out, request)
    /\ UNCHANGED <<rpc, in, half_closed>>

\* No more requests.
HalfClose ==
    /\ rpc = "running"
    /\ half_closed' = TRUE
    /\ UNCHANGED <<rpc, out, in>>

\* The next response is r.
Receive(r) ==
    /\ in # <<>>
    /\ r = Head(in)
    /\ in' = Tail(in)
    /\ UNCHANGED <<rpc, out, half_closed>>

\* Nothing can be sent any more; responses may be left to read.
StreamEnded == rpc \in {"ok", "failed"}

-------------------------------------------------------------------------------
ServerReceives ==
    /\ rpc = "running"
    /\ owed = 0
    /\ out # <<>>
    /\ received' = received \o Head(out)
    /\ out' = Tail(out)
    /\ owed' \in 0..MaxAnswers
    /\ UNCHANGED <<rpc, in, half_closed, answers>>

\* It annotates content only, but may answer the configuration with an error.
ServerAnswers ==
    /\ rpc = "running"
    /\ owed > 0
    /\ Len(in) < WindowIn
    /\ \E r \in Responses :
          /\ r # "error" => Len(received) > 1
          /\ in' = Append(in, r)
          /\ answers' = Append(answers, r)
    /\ owed' = owed - 1
    /\ UNCHANGED <<rpc, out, half_closed, received>>

\* All requests are answered and the client has half-closed: status OK.
ServerEnds ==
    /\ rpc = "running"
    /\ half_closed /\ out = <<>> /\ owed = 0
    /\ rpc' = "ok"
    /\ UNCHANGED <<out, in, half_closed, service>>

\* The deadline expires, the connection breaks, or the service rejects the stream;
\* responses in flight may be lost.
RpcFails ==
    /\ rpc = "running"
    /\ rpc' = "failed"
    /\ out' = <<>>
    /\ in' \in {in, <<>>}
    /\ UNCHANGED <<half_closed, service>>

Server == ServerReceives \/ ServerAnswers \/ ServerEnds

-------------------------------------------------------------------------------
\* Types, and the windows, for requests that carry elements of Content.
RpcTypeOK(Content) ==
    /\ rpc \in {"none", "running", "ok", "failed"}
    /\ out \in Seq(Seq(Content)) /\ Len(out) <= WindowOut
    /\ in \in Seq(Responses) /\ Len(in) <= WindowIn
    /\ half_closed \in BOOLEAN
    /\ received \in Seq(Content)
    /\ owed \in 0..MaxAnswers
    /\ answers \in Seq(Responses)

\* The service has a request to take, a response to send and room for it, or the end of
\* the call to report.
ServerCanMove ==
    /\ rpc = "running"
    /\ IF owed > 0 THEN Len(in) < WindowIn ELSE out # <<>> \/ half_closed
===============================================================================
