---------------------------- MODULE SyncQueueProofs ----------------------------
(***************************************************************************)
(* Theorems about SyncQueue for every number of threads, every capacity    *)
(* and every set of values.                                                *)
(***************************************************************************)
EXTENDS SyncQueue, FiniteSetTheorems, SequenceTheorems, TLAPS

\* The mutex excludes, and each condition variable holds exactly the threads
\* that sleep in its wait().
Control ==
    \A t \in Threads :
        /\ pc[t] = "crit" <=> m_ = t
        /\ pc[t] = "idle" <=> op[t] = "none"
        /\ op[t] \in Calls[t] \cup {"none"}
        /\ pc[t] = "wait" => op[t] \in {"Push", "Pop"}
        /\ t \in cond_var_element_pushed_ <=> pc[t] = "wait" /\ op[t] = "Pop"
        /\ t \in cond_var_element_popped_ <=> pc[t] = "wait" /\ op[t] = "Push"

\* Whoever pushes has something to push.
Loaded == \A t \in Threads : op[t] \in {"Push", "TryPush"} => val[t] \in Values

IndInv == TypeOK /\ Control /\ Loaded

-------------------------------------------------------------------------------
LEMMA InitIndInv == Init => IndInv
  BY SyncQueueAssumption, EmptySeq
  DEF Init, BQ!Init, BQ!QueueAssumption, IndInv, TypeOK, Control, Loaded, BQ!Ops

\* The common part of all the calls that reach their end: the pc, op and wait
\* sets that Leave and the notify_one() before it establish.
LEMMA LeaveControl ==
  ASSUME TypeOK, Control, NEW t \in Threads, pc[t] = "crit",
         \/ LeaveAndNotifyPopper(t)
         \/ LeaveAndNotifyPusher(t)
         \/ LeaveQuietly(t)
  PROVE  /\ Control'
         /\ m_' \in Threads \cup {NoThread}
         /\ cond_var_element_pushed_' \subseteq Threads
         /\ cond_var_element_popped_' \subseteq Threads
         /\ pc' \in [Threads -> {"idle", "lock", "crit", "wait"}]
         /\ op' \in [Threads -> BQ!Ops \cup {"none"}]
         /\ op' = [op EXCEPT ![t] = "none"]
<1>1. CASE LeaveAndNotifyPopper(t)
  <2>1. PICK woken \in NotifyOne(cond_var_element_pushed_) :
           /\ Leave(t, woken)
           /\ cond_var_element_pushed_' = cond_var_element_pushed_ \ woken
           /\ UNCHANGED cond_var_element_popped_
    BY <1>1 DEF LeaveAndNotifyPopper
  <2>2. woken \subseteq cond_var_element_pushed_
    BY <2>1 DEF NotifyOne
  <2>. QED BY <2>1, <2>2, SyncQueueAssumption DEF Leave, TypeOK, Control, BQ!Ops
<1>2. CASE LeaveAndNotifyPusher(t)
  <2>1. PICK woken \in NotifyOne(cond_var_element_popped_) :
           /\ Leave(t, woken)
           /\ cond_var_element_popped_' = cond_var_element_popped_ \ woken
           /\ UNCHANGED cond_var_element_pushed_
    BY <1>2 DEF LeaveAndNotifyPusher
  <2>2. woken \subseteq cond_var_element_popped_
    BY <2>1 DEF NotifyOne
  <2>. QED BY <2>1, <2>2, SyncQueueAssumption DEF Leave, TypeOK, Control, BQ!Ops
<1>3. CASE LeaveQuietly(t)
  BY <1>3, SyncQueueAssumption DEF LeaveQuietly, Leave, TypeOK, Control, BQ!Ops
<1>. QED BY <1>1, <1>2, <1>3

\* The element that is moved into the queue is a value, and it fits.
LEMMA EnqueueTyped ==
  ASSUME TypeOK, Loaded, NEW t \in Threads, op[t] \in {"Push", "TryPush"}, Enqueue(t)
  PROVE  /\ q_' \in Seq(Values)
         /\ Len(q_') <= MaxSize
         /\ val' \in [Threads -> Values \cup {NoValue}]
<1>1. /\ val[t] \in Values
      /\ q_ \in Seq(Values)
      /\ Len(q_) < MaxSize
      /\ q_' = Append(q_, val[t])
  BY DEF Loaded, TypeOK, Enqueue
<1>2. q_' \in Seq(Values) /\ Len(q_') = Len(q_) + 1
  BY <1>1, AppendProperties
<1>. QED BY <1>1, <1>2, SyncQueueAssumption DEF BQ!QueueAssumption, TypeOK, Enqueue

LEMMA NextIndInv == IndInv /\ [Next]_vars => IndInv'
<1>. SUFFICES ASSUME IndInv, [Next]_vars PROVE IndInv'
  OBVIOUS
<1>. USE SyncQueueAssumption DEF BQ!QueueAssumption
<1>1. CASE UNCHANGED vars
  BY <1>1 DEF vars, IndInv, TypeOK, Control, Loaded
<1>2. ASSUME NEW t \in Threads, NEW o \in BQ!Ops, Call(t, o) PROVE IndInv'
  <2>. USE <1>2 DEF Call, BQ!Call, BQ!Begin
  <2>1. TypeOK'
    BY DEF BQ!Pushable, BQ!Ops, IndInv, TypeOK
  <2>2. Control'
    BY DEF BQ!Ops, IndInv, TypeOK, Control
  <2>3. Loaded'
    BY DEF BQ!Pushable, IndInv, TypeOK, Loaded
  <2>. QED BY <2>1, <2>2, <2>3 DEF IndInv
<1>3. ASSUME NEW t \in Threads, Lock(t) PROVE IndInv'
  BY <1>3 DEF Lock, IndInv, TypeOK, Control, Loaded
<1>4. ASSUME NEW t \in Threads, PushWait(t) PROVE IndInv'
  BY <1>4 DEF PushWait, Runs, Sleep, IndInv, TypeOK, Control, Loaded
<1>5. ASSUME NEW t \in Threads, PopWait(t) PROVE IndInv'
  BY <1>5 DEF PopWait, Runs, Sleep, IndInv, TypeOK, Control, Loaded
<1>6. ASSUME NEW t \in Threads, Push(t) PROVE IndInv'
  <2>1. Control' /\ op' = [op EXCEPT ![t] = "none"]
    BY <1>6, LeaveControl DEF Push, Runs, IndInv
  <2>2. TypeOK'
    BY <1>6, LeaveControl, EnqueueTyped DEF Push, Runs, IndInv, TypeOK
  <2>3. Loaded'
    BY <1>6, <2>1 DEF Push, Enqueue, IndInv, TypeOK, Loaded
  <2>. QED BY <2>1, <2>2, <2>3 DEF IndInv
<1>7. ASSUME NEW t \in Threads, TryPush(t) PROVE IndInv'
  <2>1. Control' /\ op' = [op EXCEPT ![t] = "none"]
    BY <1>7, LeaveControl DEF TryPush, Runs, IndInv
  <2>2. /\ q_' \in Seq(Values)
        /\ Len(q_') <= MaxSize
        /\ val' \in [Threads -> Values \cup {NoValue}]
    BY <1>7, EnqueueTyped DEF TryPush, Runs, IndInv, TypeOK
  <2>3. Loaded'
    BY <1>7, <2>1 DEF TryPush, Enqueue, IndInv, TypeOK, Loaded
  <2>4. ret' \in [Threads -> Nat]
    BY <1>7 DEF TryPush, IndInv, TypeOK
  <2>5. TypeOK'
    BY <1>7, <2>2, <2>4, LeaveControl DEF TryPush, Runs, IndInv, TypeOK
  <2>. QED BY <2>1, <2>3, <2>5 DEF IndInv
<1>8. ASSUME NEW t \in Threads, Pop(t) PROVE IndInv'
  <2>1. Control' /\ op' = [op EXCEPT ![t] = "none"]
    BY <1>8, LeaveControl DEF Pop, Runs, IndInv
  <2>2. /\ Head(q_) \in Values
        /\ Tail(q_) \in Seq(Values)
        /\ Len(Tail(q_)) <= MaxSize
    BY <1>8, HeadTailProperties DEF Pop, IndInv, TypeOK
  <2>3. TypeOK'
    BY <1>8, <2>2, LeaveControl DEF Pop, Runs, IndInv, TypeOK
  <2>4. Loaded'
    BY <1>8, <2>1, <2>2 DEF Pop, IndInv, TypeOK, Loaded
  <2>. QED BY <2>1, <2>3, <2>4 DEF IndInv
<1>9. ASSUME NEW t \in Threads, Clear(t) PROVE IndInv'
  <2>1. Control' /\ op' = [op EXCEPT ![t] = "none"]
    BY <1>9, LeaveControl DEF Clear, Runs, IndInv
  <2>2. TypeOK'
    BY <1>9, LeaveControl, EmptySeq DEF Clear, Runs, IndInv, TypeOK
  <2>3. Loaded'
    BY <1>9, <2>1 DEF Clear, IndInv, TypeOK, Loaded
  <2>. QED BY <2>1, <2>2, <2>3 DEF IndInv
<1>10. ASSUME NEW t \in Threads, Size(t) PROVE IndInv'
  <2>1. Control' /\ op' = [op EXCEPT ![t] = "none"]
    BY <1>10, LeaveControl DEF Size, Runs, IndInv
  <2>2. TypeOK'
    BY <1>10, LeaveControl DEF Size, Runs, IndInv, TypeOK
  <2>3. Loaded'
    BY <1>10, <2>1 DEF Size, IndInv, TypeOK, Loaded
  <2>. QED BY <2>1, <2>2, <2>3 DEF IndInv
<1>11. ASSUME NEW t \in Threads, SpuriousWakeup(t) PROVE IndInv'
  BY <1>11 DEF SpuriousWakeup, IndInv, TypeOK, Control, Loaded
<1>. QED
  BY <1>1, <1>2, <1>3, <1>4, <1>5, <1>6, <1>7, <1>8, <1>9, <1>10, <1>11 DEF Next, Body

\* The types and the capacity of sync_queue.h hold in every state, whatever the
\* threads call: no interleaving pushes an element past max_size_.
THEOREM TypeCorrect == Spec => []TypeOK
<1>. QED BY InitIndInv, NextIndInv, PTL DEF Spec, IndInv

-------------------------------------------------------------------------------
\* The threads awake in an operation are finitely many, and counted.
LEMMA AwakeFinite ==
  \A o : IsFiniteSet(Awake(o)) /\ Cardinality(Awake(o)) \in Nat
BY SyncQueueAssumption, FS_Subset, FS_CardinalityType DEF Awake

LEMMA AwakeFiniteNext ==
  \A o : IsFiniteSet(Awake(o)') /\ Cardinality(Awake(o)') \in Nat
BY SyncQueueAssumption, FS_Subset, FS_CardinalityType DEF Awake

\* What the end of a push does to the poppers: either nobody slept, or one
\* sleeper more is awake.
LEMMA PushWakes ==
  ASSUME IndInv, NEW t \in Threads, pc[t] = "crit", op[t] \in {"Push", "TryPush"},
         LeaveAndNotifyPopper(t)
  PROVE  \/ cond_var_element_pushed_' = {}
         \/ Cardinality(Awake("Pop")') = Cardinality(Awake("Pop")) + 1
<1>1. PICK woken \in NotifyOne(cond_var_element_pushed_) :
         /\ Leave(t, woken)
         /\ cond_var_element_pushed_' = cond_var_element_pushed_ \ woken
  BY DEF LeaveAndNotifyPopper
<1>2. CASE cond_var_element_pushed_ = {}
  BY <1>1, <1>2
<1>3. CASE cond_var_element_pushed_ # {}
  <2>1. PICK u \in cond_var_element_pushed_ : woken = {u}
    BY <1>1, <1>3 DEF NotifyOne
  <2>2. u \in Threads /\ u # t /\ pc[u] = "wait" /\ op[u] = "Pop"
    BY DEF IndInv, TypeOK, Control
  <2>3. Awake("Pop")' = Awake("Pop") \cup {u} /\ u \notin Awake("Pop")
    BY <1>1, <2>1, <2>2 DEF Leave, Awake, IndInv, TypeOK
  <2>. QED BY <2>3, AwakeFinite, FS_AddElement
<1>. QED BY <1>2, <1>3

\* The same for the end of a Pop and the pushers.
LEMMA PopWakes ==
  ASSUME IndInv, NEW t \in Threads, pc[t] = "crit", op[t] = "Pop",
         LeaveAndNotifyPusher(t)
  PROVE  \/ cond_var_element_popped_' = {}
         \/ Cardinality(Awake("Push")') = Cardinality(Awake("Push")) + 1
<1>1. PICK woken \in NotifyOne(cond_var_element_popped_) :
         /\ Leave(t, woken)
         /\ cond_var_element_popped_' = cond_var_element_popped_ \ woken
  BY DEF LeaveAndNotifyPusher
<1>2. CASE cond_var_element_popped_ = {}
  BY <1>1, <1>2
<1>3. CASE cond_var_element_popped_ # {}
  <2>1. PICK u \in cond_var_element_popped_ : woken = {u}
    BY <1>1, <1>3 DEF NotifyOne
  <2>2. u \in Threads /\ u # t /\ pc[u] = "wait" /\ op[u] = "Push"
    BY DEF IndInv, TypeOK, Control
  <2>3. Awake("Push")' = Awake("Push") \cup {u} /\ u \notin Awake("Push")
    BY <1>1, <2>1, <2>2 DEF Leave, Awake, IndInv, TypeOK
  <2>. QED BY <2>3, AwakeFinite, FS_AddElement
<1>. QED BY <1>2, <1>3

\* The end of an operation puts at most the leaving thread out of the awake ones.
LEMMA LeaveAwake ==
  ASSUME IndInv, NEW t \in Threads, pc[t] = "crit",
         \/ LeaveAndNotifyPopper(t)
         \/ LeaveAndNotifyPusher(t)
         \/ LeaveQuietly(t)
  PROVE  \A o : Awake(o) \ {t} \subseteq Awake(o)'
<1>1. PICK woken : Leave(t, woken)
  BY DEF LeaveAndNotifyPopper, LeaveAndNotifyPusher, LeaveQuietly
<1>. QED BY <1>1 DEF Leave, Awake, IndInv, TypeOK

\* One thread less is awake in o at most, and none if t was not in o.
LEMMA LeaveCount ==
  ASSUME IndInv, NEW t \in Threads, NEW o, Awake(o) \ {t} \subseteq Awake(o)'
  PROVE  /\ Cardinality(Awake(o)') >= Cardinality(Awake(o)) - 1
         /\ op[t] # o => Cardinality(Awake(o)') >= Cardinality(Awake(o))
<1>1. /\ IsFiniteSet(Awake(o)) /\ Cardinality(Awake(o)) \in Nat
      /\ IsFiniteSet(Awake(o)') /\ Cardinality(Awake(o)') \in Nat
  BY AwakeFinite, AwakeFiniteNext
<1>2. /\ IsFiniteSet(Awake(o) \ {t})
      /\ Cardinality(Awake(o) \ {t}) = IF t \in Awake(o) THEN Cardinality(Awake(o)) - 1
                                                       ELSE Cardinality(Awake(o))
  BY <1>1, FS_RemoveElement
<1>3. Cardinality(Awake(o) \ {t}) <= Cardinality(Awake(o)')
  BY <1>1, <1>2, FS_Subset
<1>4. op[t] # o => t \notin Awake(o)
  BY DEF Awake
<1>. QED BY <1>1, <1>2, <1>3, <1>4

\* No push is lost on the poppers, for any mix of calls.
LEMMA NextNoLostPopSignal ==
  IndInv /\ IndInv' /\ NoLostPopSignal /\ [Next]_vars => NoLostPopSignal'
<1>. SUFFICES ASSUME IndInv, IndInv', NoLostPopSignal, [Next]_vars,
                     cond_var_element_pushed_' # {}
              PROVE  Len(q_') <= Cardinality(Awake("Pop")')
  BY DEF NoLostPopSignal
<1>a. /\ IsFiniteSet(Awake("Pop")) /\ Cardinality(Awake("Pop")) \in Nat
      /\ IsFiniteSet(Awake("Pop")') /\ Cardinality(Awake("Pop")') \in Nat
      /\ q_ \in Seq(Values) /\ Len(q_) \in Nat /\ Len(q_') \in Nat
  BY AwakeFinite, AwakeFiniteNext DEF IndInv, TypeOK
<1>b. ASSUME q_' = q_, cond_var_element_pushed_' \subseteq cond_var_element_pushed_,
             Awake("Pop") \subseteq Awake("Pop")'
      PROVE  Len(q_') <= Cardinality(Awake("Pop")')
  BY <1>a, <1>b, FS_Subset DEF NoLostPopSignal
<1>1. CASE UNCHANGED vars
  BY <1>1, <1>b DEF vars, Awake
<1>2. ASSUME NEW t \in Threads, NEW o \in BQ!Ops, Call(t, o)
      PROVE  Len(q_') <= Cardinality(Awake("Pop")')
  BY <1>2, <1>b DEF Call, BQ!Call, BQ!Begin, Awake, IndInv, TypeOK
<1>3. ASSUME NEW t \in Threads, Lock(t) \/ SpuriousWakeup(t)
      PROVE  Len(q_') <= Cardinality(Awake("Pop")')
  BY <1>3, <1>b DEF Lock, SpuriousWakeup, Awake, IndInv, TypeOK
<1>4. ASSUME NEW t \in Threads, PushWait(t)
      PROVE  Len(q_') <= Cardinality(Awake("Pop")')
  BY <1>4, <1>b DEF PushWait, Runs, Sleep, Awake, IndInv, TypeOK
<1>5. ASSUME NEW t \in Threads, PopWait(t)
      PROVE  Len(q_') <= Cardinality(Awake("Pop")')
  BY <1>5, <1>a, EmptySeq DEF PopWait, Sleep
<1>6. ASSUME NEW t \in Threads, pc[t] = "crit", op[t] \in {"Push", "TryPush"},
             Enqueue(t), LeaveAndNotifyPopper(t)
      PROVE  Len(q_') <= Cardinality(Awake("Pop")')
  <2>1. Cardinality(Awake("Pop")') = Cardinality(Awake("Pop")) + 1
    BY <1>6, PushWakes
  <2>2. val[t] \in Values /\ Len(q_') = Len(q_) + 1
    BY <1>6, AppendProperties DEF Enqueue, IndInv, TypeOK, Loaded
  <2>3. cond_var_element_pushed_ # {}
    BY <1>6 DEF LeaveAndNotifyPopper, NotifyOne
  <2>. QED BY <1>a, <2>1, <2>2, <2>3 DEF NoLostPopSignal
<1>7. ASSUME NEW t \in Threads, pc[t] = "crit", op[t] # "Pop", LeaveQuietly(t), q_' = q_
      PROVE  Len(q_') <= Cardinality(Awake("Pop")')
  BY <1>7, <1>a, LeaveAwake, LeaveCount DEF LeaveQuietly, NoLostPopSignal
<1>8. ASSUME NEW t \in Threads, Pop(t)
      PROVE  Len(q_') <= Cardinality(Awake("Pop")')
  <2>1. Len(q_') = Len(q_) - 1
    BY <1>8, <1>a, HeadTailProperties DEF Pop
  <2>2. Cardinality(Awake("Pop")') >= Cardinality(Awake("Pop")) - 1
    BY <1>8, LeaveAwake, LeaveCount DEF Pop, Runs
  <2>3. cond_var_element_pushed_ # {}
    BY <1>8 DEF Pop, LeaveAndNotifyPusher
  <2>. QED BY <1>a, <2>1, <2>2, <2>3 DEF NoLostPopSignal
<1>9. ASSUME NEW t \in Threads, Clear(t)
      PROVE  Len(q_') <= Cardinality(Awake("Pop")')
  BY <1>9, <1>a, EmptySeq DEF Clear
<1>. QED
  BY <1>1, <1>2, <1>3, <1>4, <1>5, <1>6, <1>7, <1>8, <1>9
  DEF Next, Body, Push, TryPush, Size, Runs

\* While a popper sleeps, every element has a popper that is awake to fetch it: no
\* notify_one() of a Push is lost.
THEOREM NoPopSignalLost == Spec => []NoLostPopSignal
<1>1. Init => NoLostPopSignal
  BY DEF Init, NoLostPopSignal
<1>. QED BY <1>1, InitIndInv, NextIndInv, NextNoLostPopSignal, PTL DEF Spec

-------------------------------------------------------------------------------
NoClear == \A t \in Threads : "Clear" \notin Calls[t]

\* No Pop is lost on the pushers, when nobody calls Clear.
LEMMA NextNoLostPushSignal ==
  ASSUME NoClear
  PROVE  IndInv /\ IndInv' /\ NoLostPushSignal /\ [Next]_vars => NoLostPushSignal'
<1>. SUFFICES ASSUME IndInv, IndInv', NoLostPushSignal, [Next]_vars,
                     cond_var_element_popped_' # {}
              PROVE  MaxSize - Len(q_') <= Cardinality(Awake("Push")')
  BY DEF NoLostPushSignal
<1>a. /\ IsFiniteSet(Awake("Push")) /\ Cardinality(Awake("Push")) \in Nat
      /\ IsFiniteSet(Awake("Push")') /\ Cardinality(Awake("Push")') \in Nat
      /\ q_ \in Seq(Values) /\ Len(q_) \in Nat /\ Len(q_') \in Nat /\ MaxSize \in Nat
  BY AwakeFinite, AwakeFiniteNext, SyncQueueAssumption
  DEF BQ!QueueAssumption, IndInv, TypeOK
<1>b. ASSUME q_' = q_, cond_var_element_popped_' \subseteq cond_var_element_popped_,
             Awake("Push") \subseteq Awake("Push")'
      PROVE  MaxSize - Len(q_') <= Cardinality(Awake("Push")')
  BY <1>a, <1>b, FS_Subset DEF NoLostPushSignal
<1>1. CASE UNCHANGED vars
  BY <1>1, <1>b DEF vars, Awake
<1>2. ASSUME NEW t \in Threads, NEW o \in BQ!Ops, Call(t, o)
      PROVE  MaxSize - Len(q_') <= Cardinality(Awake("Push")')
  BY <1>2, <1>b DEF Call, BQ!Call, BQ!Begin, Awake, IndInv, TypeOK
<1>3. ASSUME NEW t \in Threads, Lock(t) \/ SpuriousWakeup(t)
      PROVE  MaxSize - Len(q_') <= Cardinality(Awake("Push")')
  BY <1>3, <1>b DEF Lock, SpuriousWakeup, Awake, IndInv, TypeOK
<1>4. ASSUME NEW t \in Threads, PushWait(t)
      PROVE  MaxSize - Len(q_') <= Cardinality(Awake("Push")')
  BY <1>4, <1>a DEF PushWait, Sleep
<1>5. ASSUME NEW t \in Threads, PopWait(t)
      PROVE  MaxSize - Len(q_') <= Cardinality(Awake("Push")')
  BY <1>5, <1>b DEF PopWait, Runs, Sleep, Awake, IndInv, TypeOK
<1>6. ASSUME NEW t \in Threads, pc[t] = "crit",
             Enqueue(t), LeaveAndNotifyPopper(t), op[t] \in {"Push", "TryPush"}
      PROVE  MaxSize - Len(q_') <= Cardinality(Awake("Push")')
  <2>1. Cardinality(Awake("Push")') >= Cardinality(Awake("Push")) - 1
    BY <1>6, LeaveAwake, LeaveCount
  <2>2. Len(q_') = Len(q_) + 1
    BY <1>6, AppendProperties DEF Enqueue, IndInv, TypeOK, Loaded
  <2>3. cond_var_element_popped_ # {}
    BY <1>6 DEF LeaveAndNotifyPopper
  <2>. QED BY <1>a, <2>1, <2>2, <2>3 DEF NoLostPushSignal
<1>7. ASSUME NEW t \in Threads, pc[t] = "crit", op[t] # "Push", LeaveQuietly(t), q_' = q_
      PROVE  MaxSize - Len(q_') <= Cardinality(Awake("Push")')
  BY <1>7, <1>a, LeaveAwake, LeaveCount DEF LeaveQuietly, NoLostPushSignal
<1>8. ASSUME NEW t \in Threads, Pop(t)
      PROVE  MaxSize - Len(q_') <= Cardinality(Awake("Push")')
  <2>1. Len(q_') = Len(q_) - 1
    BY <1>8, <1>a, HeadTailProperties DEF Pop
  <2>2. Cardinality(Awake("Push")') = Cardinality(Awake("Push")) + 1
    BY <1>8, PopWakes DEF Pop, Runs
  <2>3. cond_var_element_popped_ # {}
    BY <1>8 DEF Pop, LeaveAndNotifyPusher, NotifyOne
  <2>. QED BY <1>a, <2>1, <2>2, <2>3 DEF NoLostPushSignal
<1>9. ASSUME NEW t \in Threads, Clear(t)
      PROVE  MaxSize - Len(q_') <= Cardinality(Awake("Push")')
  BY <1>9 DEF NoClear, Clear, Runs, IndInv, Control
<1>. QED
  BY <1>1, <1>2, <1>3, <1>4, <1>5, <1>6, <1>7, <1>8, <1>9
  DEF Next, Body, Push, TryPush, Size, Runs

\* While a pusher sleeps, every free place has a pusher that is awake to fill it, if nobody
\* calls Clear, which makes room and does not notify.
THEOREM NoPushSignalLost == NoClear => (Spec => []NoLostPushSignal)
<1>. SUFFICES ASSUME NoClear PROVE Spec => []NoLostPushSignal
  OBVIOUS
<1>1. Init => NoLostPushSignal
  BY DEF Init, NoLostPushSignal
<1>. QED
  BY <1>1, InitIndInv, NextIndInv, NextNoLostPushSignal, PTL DEF Spec

\* If all the threads sleep, they sleep at one end of the queue, which is empty or full:
\* poppers and pushers are never asleep at the same time with nobody to wake them.
NeverAllAsleep ==
    (\A t \in Threads : pc[t] = "wait") =>
        \/ q_ = <<>> /\ \A t \in Threads : op[t] = "Pop"
        \/ Len(q_) = MaxSize /\ \A t \in Threads : op[t] = "Push"

\* Between the two condition variables nobody is forgotten, if nobody calls Clear: as
\* long as some thread is asleep in Pop and another one in Push, one is awake.
THEOREM NotAllAsleep == NoClear /\ Threads # {} => (Spec => []NeverAllAsleep)
<1>. SUFFICES ASSUME NoClear, Threads # {} PROVE Spec => []NeverAllAsleep
  OBVIOUS
<1>1. ASSUME IndInv, NoLostPopSignal, NoLostPushSignal PROVE NeverAllAsleep
  <2>. SUFFICES ASSUME \A t \in Threads : pc[t] = "wait"
                PROVE  \/ q_ = <<>> /\ \A t \in Threads : op[t] = "Pop"
                       \/ Len(q_) = MaxSize /\ \A t \in Threads : op[t] = "Push"
    BY DEF NeverAllAsleep
  <2>1. /\ q_ \in Seq(Values) /\ Len(q_) \in Nat /\ Len(q_) <= MaxSize
        /\ MaxSize \in Nat \ {0}
    BY <1>1, SyncQueueAssumption DEF BQ!QueueAssumption, IndInv, TypeOK
  <2>2. \A t \in Threads : op[t] \in {"Push", "Pop"}
    BY <1>1 DEF IndInv, Control
  <2>3. Cardinality(Awake("Pop")) = 0 /\ Cardinality(Awake("Push")) = 0
    <3>1. Awake("Pop") = {} /\ Awake("Push") = {}
      BY DEF Awake
    <3>. QED BY <3>1, FS_EmptySet
  <2>4. ASSUME NEW t \in Threads, op[t] = "Pop" PROVE q_ = <<>>
    <3>1. cond_var_element_pushed_ # {}
      BY <1>1, <2>4 DEF IndInv, Control
    <3>. QED BY <1>1, <2>1, <2>3, <3>1, EmptySeq DEF NoLostPopSignal
  <2>5. ASSUME NEW t \in Threads, op[t] = "Push" PROVE Len(q_) = MaxSize
    <3>1. cond_var_element_popped_ # {}
      BY <1>1, <2>5 DEF IndInv, Control
    <3>. QED BY <1>1, <2>1, <2>3, <3>1 DEF NoLostPushSignal
  <2>6. ~(q_ = <<>> /\ Len(q_) = MaxSize)
    BY <2>1
  <2>. QED BY <2>2, <2>4, <2>5, <2>6
<1>2. IndInv /\ NoLostPopSignal /\ NoLostPushSignal => NeverAllAsleep
  BY <1>1
<1>3. Init => IndInv
  BY InitIndInv
<1>4. IndInv /\ [Next]_vars => IndInv'
  BY NextIndInv
<1>. QED BY <1>2, <1>3, <1>4, NoPopSignalLost, NoPushSignalLost, PTL DEF Spec

-------------------------------------------------------------------------------
\* Moving the value of t into the queue keeps every value with one owner.
LEMMA EnqueueSingleOwner ==
  ASSUME IndInv, SingleOwner, NEW t \in Threads, op[t] \in {"Push", "TryPush"}, Enqueue(t)
  PROVE  SingleOwner'
<1>1. /\ val[t] \in Values
      /\ NoValue \notin Values
      /\ Len(q_) \in Nat
      /\ Len(q_') = Len(q_) + 1
      /\ \A i \in 1..Len(q_) : q_'[i] = q_[i]
      /\ q_'[Len(q_) + 1] = val[t]
      /\ \A i \in 1..Len(q_) : q_[i] \in Values
  BY AppendProperties, SyncQueueAssumption
  DEF BQ!QueueAssumption, Enqueue, IndInv, TypeOK, Loaded
<1>2. val' = [val EXCEPT ![t] = NoValue] /\ val \in [Threads -> Values \cup {NoValue}]
  BY DEF Enqueue, IndInv, TypeOK
<1>3. \A i, j \in 1..Len(q_') : q_'[i] = q_'[j] => i = j
  BY <1>1 DEF SingleOwner
<1>4. \A i \in 1..Len(q_'), u \in Threads : q_'[i] # val'[u]
  BY <1>1, <1>2 DEF SingleOwner
<1>5. \A u, w \in Threads : val'[u] = val'[w] /\ val'[u] # NoValue => u = w
  BY <1>2 DEF SingleOwner
<1>. QED BY <1>3, <1>4, <1>5 DEF SingleOwner

LEMMA NextSingleOwner == IndInv /\ SingleOwner /\ [Next]_vars => SingleOwner'
<1>. SUFFICES ASSUME IndInv, SingleOwner, [Next]_vars PROVE SingleOwner'
  OBVIOUS
<1>0. ASSUME UNCHANGED <<q_, val>> PROVE SingleOwner'
  BY <1>0 DEF SingleOwner
<1>1. CASE UNCHANGED vars
  BY <1>1, <1>0 DEF vars
<1>2. ASSUME NEW t \in Threads, NEW o \in BQ!Ops, Call(t, o) PROVE SingleOwner'
  <2>. USE <1>2 DEF Call, BQ!Call, BQ!Begin
  <2>1. CASE o \in {"Push", "TryPush"}
    <3>1. PICK v \in BQ!Pushable(t) : val' = [val EXCEPT ![t] = v]
      BY <2>1
    <3>2. /\ \A i \in 1..Len(q_) : q_[i] # v
          /\ \A u \in Threads \ {t} : val[u] # v
      BY <3>1, SyncQueueAssumption
      DEF BQ!Pushable, BQ!Fresh, BQ!InQueue, BQ!QueueAssumption, SingleOwner
    <3>. QED BY <3>1, <3>2 DEF SingleOwner, IndInv, TypeOK
  <2>2. CASE o = "Pop"
    <3>1. val' = [val EXCEPT ![t] = NoValue] /\ q_' = q_
      BY <2>2
    <3>2. \A i \in 1..Len(q_) : q_[i] # NoValue
      BY SyncQueueAssumption DEF BQ!QueueAssumption, IndInv, TypeOK
    <3>. QED BY <3>1, <3>2 DEF SingleOwner, IndInv, TypeOK
  <2>3. CASE o \in {"Clear", "Size"}
    BY <2>3, <1>0
  <2>. QED BY <2>1, <2>2, <2>3 DEF BQ!Ops
<1>3. ASSUME NEW t \in Threads, Pop(t) PROVE SingleOwner'
  <2>1. /\ q_ \in Seq(Values) /\ q_ # <<>>
        /\ q_' = Tail(q_)
        /\ val' = [val EXCEPT ![t] = q_[1]]
    BY <1>3, HeadTailProperties DEF Pop, IndInv, TypeOK
  <2>2. /\ Len(q_) \in Nat \ {0}
        /\ Len(q_') = Len(q_) - 1
        /\ \A i \in 1..Len(q_') : q_'[i] = q_[i + 1]
    BY <2>1, HeadTailProperties, EmptySeq
  <2>. QED BY <2>1, <2>2 DEF SingleOwner, IndInv, TypeOK
<1>4. ASSUME NEW t \in Threads, Clear(t) PROVE SingleOwner'
  BY <1>4, EmptySeq DEF Clear, SingleOwner
<1>5. ASSUME NEW t \in Threads, Push(t) \/ TryPush(t) PROVE SingleOwner'
  BY <1>5, <1>0, EnqueueSingleOwner DEF Push, TryPush, Runs
<1>6. ASSUME NEW t \in Threads,
             Lock(t) \/ PushWait(t) \/ PopWait(t) \/ Size(t) \/ SpuriousWakeup(t)
      PROVE  SingleOwner'
  BY <1>6, <1>0 DEF Lock, PushWait, PopWait, Sleep, Size, SpuriousWakeup
<1>. QED BY <1>1, <1>2, <1>3, <1>4, <1>5, <1>6 DEF Next, Body

\* A value that was moved into the queue is nowhere else, until one Pop moves it out.
THEOREM ValuesHaveOneOwner == Spec => []SingleOwner
<1>1. Init => SingleOwner
  BY EmptySeq DEF Init, BQ!Init, SingleOwner
<1>. QED BY <1>1, InitIndInv, NextIndInv, NextSingleOwner, PTL DEF Spec

-------------------------------------------------------------------------------
\* Only the poller takes elements out of the queue.
SolePopper ==
    \A t \in Pollers : \A u \in Threads \ {t} : Calls[u] \cap {"Pop", "Clear"} = {}

\* What a poller learnt from Size() is still true when it calls Pop.
Informed ==
    \A t \in Pollers :
        /\ pc[t] # "wait"
        /\ op[t] = "Pop" => ret[t] = 0 /\ q_ # <<>>
        /\ op[t] = "none" /\ ret[t] > 0 => q_ # <<>>

LEMMA NextInformed ==
  ASSUME SolePopper
  PROVE  IndInv /\ IndInv' /\ Informed /\ [Next]_vars => Informed'
<1>. SUFFICES ASSUME IndInv, IndInv', Informed, [Next]_vars PROVE Informed'
  OBVIOUS
<1>a. /\ Pollers \subseteq Threads
      /\ \A t \in Pollers : op[t] \in {"Size", "Pop", "none"}
      /\ \A t \in Pollers, u \in Threads : op[u] \in {"Pop", "Clear"} => u = t
      /\ \A t \in Threads : op[t] # "none" => op[t] \in BQ!Ops
  BY SyncQueueAssumption
  DEF BQ!QueueAssumption, BQ!Ops, SolePopper, IndInv, TypeOK, Control
<1>1. CASE UNCHANGED vars
  BY <1>1 DEF vars, Informed
<1>2. ASSUME NEW t \in Threads, NEW o \in BQ!Ops, Call(t, o) PROVE Informed'
  BY <1>2, <1>a DEF Call, BQ!Call, BQ!Begin, BQ!Ops, Informed, IndInv, TypeOK
<1>3. ASSUME NEW t \in Threads, Lock(t) \/ SpuriousWakeup(t) PROVE Informed'
  BY <1>3, <1>a DEF Lock, SpuriousWakeup, Informed, IndInv, TypeOK
<1>4. ASSUME NEW t \in Threads, PushWait(t) PROVE Informed'
  BY <1>4, <1>a DEF PushWait, Runs, Sleep, Informed, IndInv, TypeOK
<1>5. ASSUME NEW t \in Threads, PopWait(t) PROVE Informed'
  BY <1>5, <1>a DEF PopWait, Runs, Sleep, Informed, IndInv, TypeOK
<1>b. ASSUME NEW t \in Threads, NEW woken, Leave(t, woken)
      PROVE  /\ op' = [op EXCEPT ![t] = "none"]
             /\ Informed => \A u \in Pollers : pc'[u] # "wait"
  BY <1>b, <1>a DEF Leave, Informed, IndInv, TypeOK
<1>6. ASSUME NEW t \in Threads, Push(t) \/ TryPush(t) PROVE Informed'
  <2>1. PICK woken : Leave(t, woken)
    BY <1>6 DEF Push, TryPush, LeaveAndNotifyPopper, LeaveQuietly
  <2>2. t \notin Pollers
    BY <1>6, <1>a DEF Push, TryPush, Runs
  <2>3. q_ # <<>> => q_' # <<>>
    BY <1>6, AppendProperties, EmptySeq
    DEF Push, TryPush, Runs, Enqueue, IndInv, TypeOK, Loaded
  <2>4. \A u \in Pollers : ret'[u] = ret[u]
    BY <1>6, <2>2, <1>a DEF Push, TryPush, IndInv, TypeOK
  <2>. QED BY <1>a, <1>b, <2>1, <2>2, <2>3, <2>4 DEF Informed, IndInv, TypeOK
<1>7. ASSUME NEW t \in Threads, Pop(t) PROVE Informed'
  <2>1. PICK woken : Leave(t, woken)
    BY <1>7 DEF Pop, LeaveAndNotifyPusher
  <2>2. \A u \in Pollers : u = t
    BY <1>7, <1>a DEF Pop, Runs
  <2>. QED BY <1>7, <1>b, <2>1, <2>2 DEF Pop, Runs, Informed, IndInv, TypeOK
<1>8. ASSUME NEW t \in Threads, Clear(t) PROVE Informed'
  <2>1. Pollers = {}
    BY <1>8, <1>a DEF Clear, Runs
  <2>. QED BY <2>1 DEF Informed
<1>9. ASSUME NEW t \in Threads, Size(t) PROVE Informed'
  <2>1. Leave(t, {}) /\ q_' = q_ /\ ret' = [ret EXCEPT ![t] = Len(q_)]
    BY <1>9 DEF Size, LeaveQuietly
  <2>2. Len(q_) > 0 => q_ # <<>>
    BY EmptySeq DEF IndInv, TypeOK
  <2>. QED BY <1>a, <1>b, <2>1, <2>2 DEF Informed, IndInv, TypeOK
<1>. QED
  BY <1>1, <1>2, <1>3, <1>4, <1>5, <1>6, <1>7, <1>8, <1>9 DEF Next, Body

\* Pop after a Size() that was not 0, by the only thread that removes elements, does not wait.
THEOREM PollerIsNeverBlocked == SolePopper => (Spec => []PollerNeverBlocks)
<1>. SUFFICES ASSUME SolePopper PROVE Spec => []PollerNeverBlocks
  OBVIOUS
<1>1. Init => Informed
  BY SyncQueueAssumption DEF BQ!QueueAssumption, Init, BQ!Init, Informed
<1>2. Informed => PollerNeverBlocks
  BY DEF Informed, PollerNeverBlocks
<1>. QED
  BY <1>1, <1>2, InitIndInv, NextIndInv, NextInformed, PTL DEF Spec

-------------------------------------------------------------------------------
LEMMA NextImplements == IndInv /\ [Next]_vars => [BQ!Next]_(BQ!vars)
<1>. SUFFICES ASSUME IndInv, [Next]_vars PROVE [BQ!Next]_(BQ!vars)
  OBVIOUS
<1>1. CASE UNCHANGED vars
  BY <1>1 DEF vars, BQ!vars
<1>2. ASSUME NEW t \in Threads, NEW o \in BQ!Ops, Call(t, o) PROVE BQ!Next
  BY <1>2 DEF Call, BQ!Next
<1>3. ASSUME NEW t \in Threads,
             Lock(t) \/ PushWait(t) \/ PopWait(t) \/ SpuriousWakeup(t)
      PROVE  UNCHANGED BQ!vars
  BY <1>3 DEF Lock, PushWait, PopWait, Sleep, SpuriousWakeup, BQ!vars
<1>4. ASSUME NEW t \in Threads, Push(t) PROVE BQ!Push(t)
  BY <1>4 DEF Push, Runs, Enqueue, LeaveAndNotifyPopper, Leave,
              BQ!Push, BQ!Return, BQ!Enqueue
<1>5. ASSUME NEW t \in Threads, TryPush(t) PROVE BQ!TryPush(t)
  <2>1. CASE Enqueue(t) /\ LeaveAndNotifyPopper(t) /\ ret' = [ret EXCEPT ![t] = 1]
    BY <1>5, <2>1 DEF TryPush, Runs, Enqueue, LeaveAndNotifyPopper, Leave,
                      BQ!TryPush, BQ!Return, BQ!Enqueue
  <2>2. CASE ~(Len(q_) < MaxSize) /\ LeaveQuietly(t) /\ UNCHANGED <<q_, val, ret>>
    <3>1. Len(q_) = MaxSize
      BY <2>2, SyncQueueAssumption DEF BQ!QueueAssumption, IndInv, TypeOK
    <3>. QED BY <1>5, <2>2, <3>1 DEF TryPush, Runs, LeaveQuietly, Leave,
                                     BQ!TryPush, BQ!Return
  <2>. QED BY <1>5, <2>1, <2>2 DEF TryPush
<1>6. ASSUME NEW t \in Threads, Pop(t) PROVE BQ!Pop(t)
  BY <1>6 DEF Pop, Runs, LeaveAndNotifyPusher, Leave, BQ!Pop, BQ!Return
<1>7. ASSUME NEW t \in Threads, Clear(t) PROVE BQ!Clear(t)
  BY <1>7 DEF Clear, Runs, LeaveQuietly, Leave, BQ!Clear, BQ!Return
<1>8. ASSUME NEW t \in Threads, Size(t) PROVE BQ!Size(t)
  BY <1>8 DEF Size, Runs, LeaveQuietly, Leave, BQ!Size, BQ!Return
<1>. QED
  BY <1>1, <1>2, <1>3, <1>4, <1>5, <1>6, <1>7, <1>8 DEF Next, Body, BQ!Next

\* Every behaviour of the critical sections and waits is one of the atomic bounded queue.
THEOREM Refinement == Spec => Implements
<1>1. Init => BQ!Init
  BY DEF Init
<1>. QED
  BY <1>1, InitIndInv, NextIndInv, NextImplements, PTL DEF Spec, Implements, BQ!Spec

===============================================================================
