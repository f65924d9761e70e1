----------------------------- MODULE BoundedQueue -----------------------------
(***************************************************************************)
(* What the comments of sync_queue.h promise to the callers of SyncQueue:  *)
(* a first-in first-out queue of at most MaxSize elements, every operation *)
(* of which takes effect at one instant between its call and its return.   *)
(* No mutex, no condition variable, no waiting set: a Push on a full queue *)
(* and a Pop on an empty one are simply not enabled.                       *)
(*                                                                         *)
(* Values are owned: val[t] is the value in the hands of thread t, the     *)
(* argument of a pending Push or the result of the last Pop (T is a        *)
(* std::unique_ptr in sync_queue_test.cc, so a value has one owner).       *)
(***************************************************************************)
EXTENDS Naturals, Sequences

CONSTANTS
    Threads,    \* the threads that share the queue
    Values,     \* the values that travel through it
    NoValue,    \* "this thread holds no value"
    MaxSize,    \* max_size_
    Calls,      \* Calls[t]: the operations thread t calls
    Pollers     \* threads that call Pop when, and only when, Size() was not 0

Ops == {"Push", "TryPush", "Pop", "Clear", "Size"}

QueueAssumption ==
    /\ NoValue \notin Values
    /\ MaxSize \in Nat \ {0}
    /\ Calls \in [Threads -> SUBSET Ops]
    /\ Pollers \subseteq Threads
    /\ \A t \in Pollers : Calls[t] \subseteq {"Size", "Pop"}

VARIABLES
    queue,  \* the elements, oldest first
    call,   \* call[t]: the operation thread t has called and not returned from
    val,    \* val[t]: the value thread t holds
    ret     \* ret[t]: the size or the Boolean (1 or 0) last returned to t

vars == <<queue, call, val, ret>>

InQueue(v) == \E i \in 1..Len(queue) : queue[i] = v

\* A value that exists nowhere yet: what a caller makes before it pushes.
Fresh(v) == ~InQueue(v) /\ \A t \in Threads : val[t] # v

\* What thread t may hand to a push: a new value, or one it already holds
\* (the result of a Pop, or the argument of a TryPush that returned false).
Pushable(t) == {v \in Values : v = val[t] \/ Fresh(v)}

Init ==
    /\ queue = <<>>
    /\ call = [t \in Threads |-> "none"]
    /\ val = [t \in Threads |-> NoValue]
    /\ ret = [t \in Threads |-> 0]

-------------------------------------------------------------------------------
\* What a call does to the caller's variables: a push takes a value of its own
\* as argument, and a Pop overwrites the variable that held the last result.
Begin(t, o) ==
    /\ call[t] = "none"
    /\ o \in Calls[t]
    /\ call' = [call EXCEPT ![t] = o]
    /\ \/ /\ o \in {"Push", "TryPush"}
          /\ \E v \in Pushable(t) : val' = [val EXCEPT ![t] = v]
       \/ /\ o = "Pop"
          /\ val' = [val EXCEPT ![t] = NoValue]
       \/ /\ o \in {"Clear", "Size"}
          /\ UNCHANGED val
    /\ ret' = [ret EXCEPT ![t] = 0]
    /\ UNCHANGED queue

\* Mutant of Call: the poller does not look at the size it was given.
CallBlindly(t, o) == Begin(t, o)

\* Thread t calls o; a poller tests Size() > 0 and pops, as stream_callback and
\* PlayMedia do.
Call(t, o) ==
    /\ t \in Pollers => (o = "Pop" <=> ret[t] > 0)
    /\ Begin(t, o)

Return(t, o) ==
    /\ call[t] = o
    /\ call' = [call EXCEPT ![t] = "none"]

\* Appends the value of t, which gives up its ownership.
Enqueue(t) ==
    /\ Len(queue) < MaxSize
    /\ queue' = Append(queue, val[t])
    /\ val' = [val EXCEPT ![t] = NoValue]

Push(t) ==
    /\ Return(t, "Push")
    /\ Enqueue(t)
    /\ UNCHANGED ret

TryPush(t) ==
    /\ Return(t, "TryPush")
    /\ \/ /\ Enqueue(t)
          /\ ret' = [ret EXCEPT ![t] = 1]
       \/ /\ Len(queue) = MaxSize
          /\ UNCHANGED <<queue, val, ret>>

Pop(t) ==
    /\ Return(t, "Pop")
    /\ queue # <<>>
    /\ val' = [val EXCEPT ![t] = Head(queue)]
    /\ queue' = Tail(queue)
    /\ UNCHANGED ret

Clear(t) ==
    /\ Return(t, "Clear")
    /\ queue' = <<>>
    /\ UNCHANGED <<val, ret>>

Size(t) ==
    /\ Return(t, "Size")
    /\ ret' = [ret EXCEPT ![t] = Len(queue)]
    /\ UNCHANGED <<queue, val>>

Next ==
    \E t \in Threads :
        \/ \E o \in Ops : Call(t, o)
        \/ Push(t)
        \/ TryPush(t)
        \/ Pop(t)
        \/ Clear(t)
        \/ Size(t)

Spec == Init /\ [][Next]_vars
===============================================================================
