------------------------------- MODULE SyncQueue -------------------------------
(***************************************************************************)
(* SyncQueue<T> of ingestion/client/cpp/sync_queue.h: a std::queue behind  *)
(* the mutex m_, with two condition variables.  A thread that calls an     *)
(* operation contends for m_ ("lock"), runs the body while it owns m_      *)
(* ("crit"), and either returns or, when the predicate of a wait() is      *)
(* false, releases m_ and sleeps on a condition variable ("wait").  A      *)
(* notified thread, and one woken spuriously, contends for m_ again and    *)
(* evaluates the predicate again.                                          *)
(*                                                                         *)
(* The client owns two such queues: stream_queue (media_player.cc:49) and  *)
(* MediaPlayer::annotation_response_queue_ (media_player.h:161).           *)
(***************************************************************************)
EXTENDS Naturals, Sequences, FiniteSets

CONSTANTS
    Threads, Values, NoValue, MaxSize, Calls, Pollers,  \* as in BoundedQueue
    NoThread                                            \* m_ is free

VARIABLES
    q_,                         \* the std::queue, oldest element first
    m_,                         \* the owner of the mutex
    cond_var_element_pushed_,   \* threads asleep in the wait() of Pop
    cond_var_element_popped_,   \* threads asleep in the wait() of Push
    pc,                         \* where each thread is in its operation
    op, val, ret                \* the operation in progress, as in BoundedQueue

vars == <<q_, m_, cond_var_element_pushed_, cond_var_element_popped_,
          pc, op, val, ret>>

BQ == INSTANCE BoundedQueue WITH queue <- q_, call <- op

ASSUME SyncQueueAssumption ==
    /\ BQ!QueueAssumption
    /\ IsFiniteSet(Threads)
    /\ NoThread \notin Threads

Init ==
    /\ BQ!Init
    /\ m_ = NoThread
    /\ cond_var_element_pushed_ = {}
    /\ cond_var_element_popped_ = {}
    /\ pc = [t \in Threads |-> "idle"]

-------------------------------------------------------------------------------
\* Thread t calls operation o with an argument of its own.
Call(t, o) ==
    /\ pc[t] = "idle"
    /\ BQ!Call(t, o)
    /\ pc' = [pc EXCEPT ![t] = "lock"]
    /\ UNCHANGED <<m_, cond_var_element_pushed_, cond_var_element_popped_>>

\* std::unique_lock / std::lock_guard, and the re-locking that ends a wait().
Lock(t) ==
    /\ pc[t] = "lock"
    /\ m_ = NoThread
    /\ m_' = t
    /\ pc' = [pc EXCEPT ![t] = "crit"]
    /\ UNCHANGED <<q_, cond_var_element_pushed_, cond_var_element_popped_,
                   op, val, ret>>

\* Thread t owns the mutex and runs the body of o.
Runs(t, o) == pc[t] = "crit" /\ op[t] = o

\* Thread t finds the predicate of its wait() false: it releases m_ and sleeps.
Sleep(t) ==
    /\ m_' = NoThread
    /\ pc' = [pc EXCEPT ![t] = "wait"]
    /\ UNCHANGED <<q_, op, val, ret>>

\* Thread t leaves the operation and releases m_ as the lock goes out of scope,
\* after notify_one() has woken the threads of woken.
Leave(t, woken) ==
    /\ m_' = NoThread
    /\ op' = [op EXCEPT ![t] = "none"]
    /\ pc' = [u \in Threads |-> IF u = t THEN "idle"
                                ELSE IF u \in woken THEN "lock" ELSE pc[u]]

\* notify_one(): one of the sleepers, whichever the scheduler picks, or nobody.
NotifyOne(sleepers) ==
    IF sleepers = {} THEN {{}} ELSE {{u} : u \in sleepers}

LeaveAndNotifyPopper(t) ==
    /\ \E woken \in NotifyOne(cond_var_element_pushed_) :
          /\ Leave(t, woken)
          /\ cond_var_element_pushed_' = cond_var_element_pushed_ \ woken
    /\ UNCHANGED cond_var_element_popped_

LeaveAndNotifyPusher(t) ==
    /\ \E woken \in NotifyOne(cond_var_element_popped_) :
          /\ Leave(t, woken)
          /\ cond_var_element_popped_' = cond_var_element_popped_ \ woken
    /\ UNCHANGED cond_var_element_pushed_

LeaveQuietly(t) ==
    /\ Leave(t, {})
    /\ UNCHANGED <<cond_var_element_pushed_, cond_var_element_popped_>>

\* Mutant of Enqueue: the element is copied, not moved.
EnqueueCopy(t) ==
    /\ Len(q_) < MaxSize
    /\ q_' = Append(q_, val[t])
    /\ UNCHANGED val

\* q_.push(std::move(val)), under the test that there is room.
Enqueue(t) ==
    /\ Len(q_) < MaxSize
    /\ q_' = Append(q_, val[t])
    /\ val' = [val EXCEPT ![t] = NoValue]

PushWait(t) ==
    /\ Runs(t, "Push")
    /\ ~(Len(q_) < MaxSize)
    /\ Sleep(t)
    /\ cond_var_element_popped_' = cond_var_element_popped_ \cup {t}
    /\ UNCHANGED cond_var_element_pushed_

\* Mutant of Push: it notifies only when the queue was empty.
PushNotifyWhenEmpty(t) ==
    /\ Runs(t, "Push")
    /\ Enqueue(t)
    /\ IF q_ = <<>> THEN LeaveAndNotifyPopper(t) ELSE LeaveQuietly(t)
    /\ UNCHANGED ret

Push(t) ==
    /\ Runs(t, "Push")
    /\ Enqueue(t)
    /\ LeaveAndNotifyPopper(t)
    /\ UNCHANGED ret

\* Mutant of TryPush: off by one, <= in place of <.
TryPushOneTooMany(t) ==
    /\ Runs(t, "TryPush")
    /\ \/ /\ Len(q_) <= MaxSize
          /\ q_' = Append(q_, val[t])
          /\ val' = [val EXCEPT ![t] = NoValue]
          /\ ret' = [ret EXCEPT ![t] = 1]
          /\ LeaveAndNotifyPopper(t)
       \/ /\ ~(Len(q_) <= MaxSize)
          /\ LeaveQuietly(t)
          /\ UNCHANGED <<q_, val, ret>>

TryPush(t) ==
    /\ Runs(t, "TryPush")
    /\ \/ /\ Enqueue(t)
          /\ ret' = [ret EXCEPT ![t] = 1]
          /\ LeaveAndNotifyPopper(t)
       \/ /\ ~(Len(q_) < MaxSize)
          /\ LeaveQuietly(t)
          /\ UNCHANGED <<q_, val, ret>>

PopWait(t) ==
    /\ Runs(t, "Pop")
    /\ q_ = <<>>
    /\ Sleep(t)
    /\ cond_var_element_pushed_' = cond_var_element_pushed_ \cup {t}
    /\ UNCHANGED cond_var_element_popped_

\* Mutant of Pop: the wait() is an if, so that a second popper that overtakes a
\* notified one leaves it a moved-from element.
PopUnchecked(t) ==
    /\ Runs(t, "Pop")
    /\ val' = [val EXCEPT ![t] = IF q_ = <<>> THEN NoValue ELSE Head(q_)]
    /\ q_' = IF q_ = <<>> THEN <<>> ELSE Tail(q_)
    /\ LeaveAndNotifyPusher(t)
    /\ UNCHANGED ret

\* Mutant of Pop: it notifies only when the queue was full.
PopNotifyWhenFull(t) ==
    /\ Runs(t, "Pop")
    /\ q_ # <<>>
    /\ val' = [val EXCEPT ![t] = Head(q_)]
    /\ q_' = Tail(q_)
    /\ IF Len(q_) = MaxSize THEN LeaveAndNotifyPusher(t) ELSE LeaveQuietly(t)
    /\ UNCHANGED ret

\* Mutant of Pop: it never notifies.
PopQuietly(t) ==
    /\ Runs(t, "Pop")
    /\ q_ # <<>>
    /\ val' = [val EXCEPT ![t] = Head(q_)]
    /\ q_' = Tail(q_)
    /\ LeaveQuietly(t)
    /\ UNCHANGED ret

Pop(t) ==
    /\ Runs(t, "Pop")
    /\ q_ # <<>>
    /\ val' = [val EXCEPT ![t] = Head(q_)]
    /\ q_' = Tail(q_)
    /\ LeaveAndNotifyPusher(t)
    /\ UNCHANGED ret

\* Empties the queue, and notifies nobody.
Clear(t) ==
    /\ Runs(t, "Clear")
    /\ q_' = <<>>
    /\ LeaveQuietly(t)
    /\ UNCHANGED <<val, ret>>

Size(t) ==
    /\ Runs(t, "Size")
    /\ ret' = [ret EXCEPT ![t] = Len(q_)]
    /\ LeaveQuietly(t)
    /\ UNCHANGED <<q_, val>>

\* std::condition_variable may wake a thread that nobody notified.
SpuriousWakeup(t) ==
    /\ pc[t] = "wait"
    /\ pc' = [pc EXCEPT ![t] = "lock"]
    /\ cond_var_element_pushed_' = cond_var_element_pushed_ \ {t}
    /\ cond_var_element_popped_' = cond_var_element_popped_ \ {t}
    /\ UNCHANGED <<q_, m_, op, val, ret>>

Body(t) ==
    \/ PushWait(t)
    \/ Push(t)
    \/ TryPush(t)
    \/ PopWait(t)
    \/ Pop(t)
    \/ Clear(t)
    \/ Size(t)

Next ==
    \E t \in Threads :
        \/ \E o \in BQ!Ops : Call(t, o)
        \/ Lock(t)
        \/ Body(t)
        \/ SpuriousWakeup(t)

Spec == Init /\ [][Next]_vars

\* Threads keep using the queue, a thread that owns m_ runs on, and a mutex
\* that is released again and again is eventually granted to each contender.
Fairness ==
    \A t \in Threads :
        /\ WF_vars(\E o \in BQ!Ops : Call(t, o))
        /\ WF_vars(Body(t))
        /\ SF_vars(Lock(t))

FairSpec == Spec /\ Fairness

-------------------------------------------------------------------------------
\* Types, and the capacity: no path pushes an element past max_size_
\* (sync_queue.h:39 "Maximum queue size allowed is set in input argument").
TypeOK ==
    /\ q_ \in Seq(Values)
    /\ Len(q_) <= MaxSize
    /\ m_ \in Threads \cup {NoThread}
    /\ cond_var_element_pushed_ \subseteq Threads
    /\ cond_var_element_popped_ \subseteq Threads
    /\ pc \in [Threads -> {"idle", "lock", "crit", "wait"}]
    /\ op \in [Threads -> BQ!Ops \cup {"none"}]
    /\ val \in [Threads -> Values \cup {NoValue}]
    /\ ret \in [Threads -> Nat]

\* A value has one owner: it is at one place of the queue or in the hands of one
\* thread, never duplicated on its way through std::move (the unique_ptr
\* elements of sync_queue_test.cc).
SingleOwner ==
    /\ \A i, j \in 1..Len(q_) : q_[i] = q_[j] => i = j
    /\ \A i \in 1..Len(q_), t \in Threads : q_[i] # val[t]
    /\ \A t, u \in Threads : val[t] = val[u] /\ val[t] # NoValue => t = u

\* The threads that will test the predicate of o before they sleep again.
Awake(o) == {t \in Threads : op[t] = o /\ pc[t] \in {"lock", "crit"}}

\* No wakeup is lost by notify_one() in Push and TryPush: while a popper sleeps,
\* every element of the queue has a popper that is awake to fetch it.
NoLostPopSignal ==
    cond_var_element_pushed_ # {} => Len(q_) <= Cardinality(Awake("Pop"))

\* No wakeup is lost by notify_one() in Pop: while a pusher sleeps, every free
\* place of the queue has a pusher that is awake to fill it.
NoLostPushSignal ==
    cond_var_element_popped_ # {} => MaxSize - Len(q_) <= Cardinality(Awake("Push"))

\* A sole consumer that pops only after Size() > 0 never sleeps in Pop, although
\* the test and the call take m_ separately: what stream_callback and PlayMedia
\* (media_player.cc) rely on to stay off the blocking path.
PollerNeverBlocks == \A t \in Pollers : pc[t] # "wait"

\* Every execution takes effect like the atomic queue the comments describe:
\* first in first out, nothing lost, duplicated or invented, a Push that returns
\* has pushed, TryPush fails only on a full queue.
Implements == BQ!Spec

\* While producers and a consumer keep calling, elements keep flowing: no state
\* is reached in which everyone sleeps or the queue stays full for ever.
FlowNeverStops == []<><<Len(q_') > Len(q_)>>_vars
===============================================================================
