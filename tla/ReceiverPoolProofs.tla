------------------------- MODULE ReceiverPoolProofs -------------------------
(***************************************************************************)
(* Proofs about ReceiverPool, for every number of decoder threads, frames  *)
(* and receivers, with and without spurious wake-ups.                      *)
(***************************************************************************)
EXTENDS ReceiverPool, FiniteSetTheorems, TLAPS

-----------------------------------------------------------------------------
(* Counting threads.                                                       *)

\* Any set of decoder threads is finite, and no larger than the pool.
LEMMA ThreadSets ==
    /\ Threads \in Nat \ {0}
    /\ \A S \in SUBSET Workers :
          IsFiniteSet(S) /\ Cardinality(S) \in Nat /\ Cardinality(S) <= Threads
<1>1. IsFiniteSet(Workers) /\ Workers # {}
    BY PoolShape
<1>2. Threads \in Nat /\ Threads # 0
    BY <1>1, FS_CardinalityType, FS_EmptySet DEF Threads
<1>3. ASSUME NEW S \in SUBSET Workers
      PROVE  IsFiniteSet(S) /\ Cardinality(S) \in Nat /\ Cardinality(S) <= Threads
    BY <1>1, FS_Subset, FS_CardinalityType DEF Threads
<1> QED
    BY <1>2, <1>3

\* One thread more, or one thread less.
LEMMA OneMore ==
    ASSUME NEW S \in SUBSET Workers, NEW w \in Workers, w \notin S
    PROVE  Cardinality(S \cup {w}) = Cardinality(S) + 1
    BY ThreadSets, FS_AddElement

LEMMA OneLess ==
    ASSUME NEW S \in SUBSET Workers, NEW w \in S
    PROVE  Cardinality(S \ {w}) = Cardinality(S) - 1
    BY ThreadSets, FS_RemoveElement

\* The queue is finite, and one frame longer when one is added.
LEMMA QueueCount ==
    ASSUME TypeOK
    PROVE  /\ Cardinality(queue) \in Nat
           /\ \A e \in Entries : e \notin queue =>
                 /\ IsFiniteSet(queue \cup {e})
                 /\ Cardinality(queue \cup {e}) = Cardinality(queue) + 1
    BY FS_CardinalityType, FS_AddElement DEF TypeOK

\* What a thread takes, and what it leaves.
LEMMA TakeOut ==
    ASSUME TypeOK, NEW w \in Workers, Take(w)
    PROVE  \E q \in queue :
              /\ q.frame \in Frames /\ queue' = queue \ {q} /\ queue' \subseteq Entries
              /\ IsFiniteSet(queue') /\ Cardinality(queue') = Cardinality(queue) - 1
              /\ running > 0 => To(w, "scan") /\ job' = [job EXCEPT ![w] = q.frame]
              /\ ~(running > 0) => To(w, "test") /\ job' = job
<1>1. PICK q \in queue :
          /\ queue' = queue \ {q}
          /\ running > 0 => To(w, "scan") /\ job' = [job EXCEPT ![w] = q.frame]
          /\ ~(running > 0) => To(w, "test") /\ job' = job
    BY DEF Take
<1>2. q \in Entries /\ queue \subseteq Entries /\ IsFiniteSet(queue)
    BY DEF TypeOK
<1>3. IsFiniteSet(queue') /\ Cardinality(queue') = Cardinality(queue) - 1
    BY <1>1, <1>2, FS_RemoveElement
<1> QED
    BY <1>1, <1>2, <1>3 DEF Entries

\* The bounds between which the counters of a fresh receiver lie.
LEMMA Bounds ==
    /\ 0 \in -1 - Threads .. Threads /\ -1 - Threads \in -1 - Threads .. Threads
    /\ 0 \in 0 .. MaxFrames /\ 1 \in 1 .. MaxReceivers
<1>1. Threads \in Nat /\ MaxFrames \in Nat /\ MaxReceivers \in Nat \ {0}
    BY ThreadSets, PoolShape
<1> QED
    BY <1>1

-----------------------------------------------------------------------------
(* The initial state.                                                      *)

\* A fresh pool counts nothing.
LEMMA InitPool == Init => PoolInv
<1> SUFFICES ASSUME Init PROVE PoolInv
    OBVIOUS
<1> USE DEF Init
<1>1. TypeOK
  <2>1. pc \in [Workers -> Stages] /\ job \in [Workers -> Frames \cup {NoFrame}]
      BY DEF Stages
  <2>2. queue \subseteq Entries /\ IsFiniteSet(queue) /\ looked \in [Workers -> SUBSET Cameras]
      BY FS_EmptySet
  <2>3. running \in -1 - Threads .. Threads /\ receivers \in 1 .. MaxReceivers
        /\ submitted \in 0 .. MaxFrames
      BY Bounds
  <2>4. geometry \in 0 .. submitted /\ tracked \in 0 .. submitted /\ inflight \in Nat
      OBVIOUS
  <2>5. /\ camera \in {"idle", "clone", "notify", "replacing"} /\ producer \in Cameras
        /\ stopper \in {"none", "signal", "join"}
      OBVIOUS
  <2>6. flag \in BOOLEAN /\ auto \in BOOLEAN /\ detected \in BOOLEAN
      OBVIOUS
  <2> QED
      BY <2>1, <2>2, <2>3, <2>4, <2>5, <2>6, Zenon DEF TypeOK
<1>2. Busy = {} /\ Unstarted = Workers
    BY DEF Busy, Unstarted
<1>3. /\ Cardinality(Busy) = 0 /\ Cardinality(queue) = 0
      /\ Cardinality(Unstarted) = Threads /\ Threads \in Nat
    BY <1>2, ThreadSets, FS_EmptySet DEF Threads
<1>4. InflightExact /\ QueueBounded /\ RunningExact
    BY <1>3 DEF InflightExact, QueueBounded, RunningExact
<1>5. StaysStopped /\ SleepsBehindAnother /\ FramesOnce /\ WorkHeld /\ StopInOrder
    BY <1>2 DEF StaysStopped, SleepsBehindAnother, FramesOnce, WorkHeld, StopInOrder, NoFrame
<1> QED
    BY <1>1, <1>4, <1>5 DEF PoolInv

-----------------------------------------------------------------------------
(* Steps.                                                                  *)

\* Every step keeps the types.
LEMMA TypeOKStep == PoolInv /\ [Next]_vars => TypeOK'
<1> SUFFICES ASSUME PoolInv, [Next]_vars PROVE TypeOK'
    OBVIOUS
<1>1. TypeOK /\ InflightExact /\ WorkHeld /\ RunningExact /\ StopInOrder /\ StaysStopped
    BY DEF PoolInv
<1>2. Threads \in Nat \ {0} /\ MaxFrames \in Nat /\ MaxReceivers \in Nat \ {0}
    BY ThreadSets, PoolShape
<1> USE <1>2 DEF TypeOK, Frames, NoFrame, pool, mode, shown
<1>3. CASE Submit
    BY <1>1, <1>3 DEF Submit
<1>4. CASE CloneFails
  <2>1. inflight >= 1
    <3>1. stopper = "none" /\ Cardinality(Busy) \in Nat /\ Cardinality(queue) \in Nat
        BY <1>1, <1>4, ThreadSets, QueueCount DEF CloneFails, StopInOrder, Busy
    <3> QED
        BY <1>1, <1>4, <3>1 DEF InflightExact, CloneFails
  <2> QED
      BY <1>1, <1>4, <2>1 DEF CloneFails
<1>5. CASE Enqueue
  <2>1. [frame |-> submitted, by |-> producer] \in Entries
      BY <1>1, <1>5 DEF Enqueue, WorkHeld, Entries
  <2>2. queue' \subseteq Entries /\ IsFiniteSet(queue')
      BY <1>1, <1>5, <2>1, FS_AddElement DEF Enqueue
  <2> QED
      BY <1>1, <1>5, <2>2 DEF Enqueue
<1>6. CASE Notify
    BY <1>1, <1>6 DEF Notify, Asleep, Stages
<1>7. CASE SetMode \/ RestartCamera
    BY <1>1, <1>7 DEF SetMode, RestartCamera
<1>8. CASE Replace \/ Reset
    BY <1>1, <1>8 DEF Replace, Reset, Stop
<1>9. CASE SignalAll
    BY <1>1, <1>9 DEF SignalAll, Stages
<1>10. CASE Joined
  <2>1. pc' \in [Workers -> Stages] /\ job' \in [Workers -> Frames \cup {NoFrame}]
      BY <1>10 DEF Joined, NewReceiver, Stages
  <2>2. queue' \subseteq Entries /\ IsFiniteSet(queue') /\ looked' \in [Workers -> SUBSET Cameras]
      BY <1>10, FS_EmptySet DEF Joined, NewReceiver
  <2>3. running' \in -1 - Threads .. Threads /\ submitted' \in 0 .. MaxFrames
      BY <1>10, Bounds DEF Joined, NewReceiver
  <2>4. receivers' \in 1 .. MaxReceivers
      BY <1>1, <1>10 DEF Joined, StopInOrder
  <2>5. auto' \in BOOLEAN
    <3>1. auto' \in IF camera = "replacing" THEN {FALSE} ELSE BOOLEAN
        BY <1>10 DEF Joined
    <3>2. CASE camera = "replacing"
        BY <3>1, <3>2
    <3>3. CASE camera # "replacing"
        BY <3>1, <3>3
    <3> QED
        BY <3>2, <3>3
  <2>6. /\ geometry' \in 0 .. submitted' /\ tracked' \in 0 .. submitted' /\ inflight' \in Nat
        /\ camera' = "idle" /\ stopper' = "none" /\ producer' \in Cameras
      BY <1>1, <1>10 DEF Joined, NewReceiver
  <2>7. flag' \in BOOLEAN /\ detected' \in BOOLEAN
      BY <1>10 DEF Joined, NewReceiver
  <2> QED
      BY <2>1, <2>2, <2>3, <2>4, <2>5, <2>6, <2>7, Zenon DEF TypeOK
<1>11. CASE \E w \in Workers : Started(w)
  <2>1. PICK w \in Workers : Started(w)
      BY <1>11
  <2>2. w \in Unstarted /\ Cardinality(Unstarted) >= 1 /\ Cardinality(Unstarted) \in Nat
    <3>1. w \in Unstarted /\ Unstarted \in SUBSET Workers
        BY <2>1 DEF Started, Unstarted
    <3>2. Cardinality(Unstarted \ {w}) = Cardinality(Unstarted) - 1
        BY <3>1, OneLess
    <3>3. Cardinality(Unstarted \ {w}) \in Nat /\ Cardinality(Unstarted) \in Nat
        BY <3>1, ThreadSets
    <3> QED
        BY <3>1, <3>2, <3>3
  <2>3. running' \in -1 - Threads .. Threads
      BY <1>1, <2>1, <2>2 DEF Started, RunningExact
  <2> QED
      BY <1>1, <2>1, <2>3 DEF Started, To, Stages
<1>12. CASE \E w \in Workers : Test(w) \/ Wait(w) \/ Woken(w) \/ Spurious(w)
    BY <1>1, <1>12 DEF Test, Wait, Woken, Spurious, To, Stages
<1>17. CASE \E w \in Workers : LookEmpty(w) \/ NothingLeft(w)
  <2>1. PICK w \in Workers : LookEmpty(w) \/ NothingLeft(w)
      BY <1>17
  <2>2. looked' \in [Workers -> SUBSET Cameras]
      BY <1>1, <2>1 DEF LookEmpty, NothingLeft
  <2>3. pc' \in [Workers -> Stages]
      BY <1>1, <2>1 DEF LookEmpty, NothingLeft, To, Stages
  <2>4. UNCHANGED <<camera, producer, stopper, job, pool, submitted, shown, receivers>>
      BY <2>1 DEF LookEmpty, NothingLeft
  <2> QED
      BY <1>1, <2>2, <2>3, <2>4
<1>13. CASE \E w \in Workers : Take(w)
  <2>1. PICK w \in Workers : Take(w)
      BY <1>13
  <2>2. /\ queue' \subseteq Entries /\ IsFiniteSet(queue')
        /\ pc' \in [Workers -> Stages] /\ job' \in [Workers -> Frames \cup {NoFrame}]
      BY <1>1, <2>1, TakeOut DEF To, Stages
  <2> QED
      BY <1>1, <2>1, <2>2 DEF Take
<1>14. CASE \E w \in Workers : Scan(w) \/ Fails(w) \/ Track(w)
  <2>1. PICK w \in Workers : Scan(w) \/ Fails(w) \/ Track(w)
      BY <1>14
  <2>2. w \in Busy /\ job[w] \in Nat /\ job[w] <= submitted
      BY <1>1, <2>1 DEF Scan, Fails, Track, WorkHeld, Busy
  <2>3. inflight >= 1
    <3>1. Cardinality(Busy) - 1 \in Nat /\ Cardinality(queue) \in Nat
      <4>1. Busy \in SUBSET Workers
          BY DEF Busy
      <4>2. Cardinality(Busy \ {w}) = Cardinality(Busy) - 1
          BY <2>2, <4>1, OneLess
      <4> QED
          BY <1>1, <4>1, <4>2, ThreadSets, QueueCount
    <3>2. Cardinality(Busy) \in Nat
        BY ThreadSets DEF Busy
    <3> QED
        BY <1>1, <3>1, <3>2 DEF InflightExact
  <2>4. /\ geometry' \in 0 .. submitted /\ tracked' \in 0 .. submitted
      BY <1>1, <2>1, <2>2 DEF Scan, Fails, Track, Newer
  <2>5. /\ inflight' \in {inflight, inflight - 1}
        /\ job' \in {job, [job EXCEPT ![w] = NoFrame]}
        /\ pc' \in {[pc EXCEPT ![w] = "decode"], [pc EXCEPT ![w] = "drain"]}
      BY <2>1 DEF Scan, Fails, Track, Finish, To
  <2>6. UNCHANGED <<camera, producer, stopper, looked, running, flag, queue, submitted, mode,
                      receivers>>
      BY <2>1 DEF Scan, Fails, Track
  <2> QED
      BY <1>1, <2>3, <2>4, <2>5, <2>6 DEF Stages
<1>15. CASE \E w \in Workers : Decode(w) \/ Detect(w)
    BY <1>1, <1>15 DEF Decode, Detect, To, Stages
<1>16. CASE UNCHANGED vars
    BY <1>1, <1>16 DEF vars
<1> QED
    BY <1>3, <1>4, <1>5, <1>6, <1>7, <1>8, <1>9, <1>10, <1>11, <1>12, <1>13, <1>14,
       <1>15, <1>16, <1>17 DEF Next, Adding, Stopping, Loop, Work

-----------------------------------------------------------------------------
(* The frames that are worked on, and the threads still to start.          *)

\* Nobody takes or finishes a frame: the same threads are busy.
LEMMA SameBusy == UNCHANGED job => Busy' = Busy
    BY DEF Busy

\* A thread that takes a frame is one more that is busy.
LEMMA TakeBusy ==
    ASSUME TypeOK, WorkHeld, NEW w \in Workers, pc[w] = "drain",
           NEW f \in Frames, job' = [job EXCEPT ![w] = f]
    PROVE  /\ Busy' = Busy \cup {w} /\ w \notin Busy
           /\ Cardinality(Busy') = Cardinality(Busy) + 1
<1>1. w \notin Busy /\ Busy \in SUBSET Workers
    BY DEF WorkHeld, Busy
<1>2. Busy' = Busy \cup {w}
    BY DEF TypeOK, Busy, Frames, NoFrame
<1> QED
    BY <1>1, <1>2, OneMore

\* A thread that finishes is one less.
LEMMA FinishBusy ==
    ASSUME TypeOK, WorkHeld, NEW w \in Workers,
           pc[w] \in {"scan", "decode", "detect", "track"}, job' = [job EXCEPT ![w] = NoFrame]
    PROVE  /\ Busy' = Busy \ {w} /\ w \in Busy
           /\ Cardinality(Busy') = Cardinality(Busy) - 1
<1>1. w \in Busy /\ Busy \in SUBSET Workers
    BY DEF WorkHeld, Busy
<1>2. Busy' = Busy \ {w}
    BY DEF TypeOK, Busy
<1> QED
    BY <1>1, <1>2, OneLess

\* A thread that has started leaves room below the size of the pool.
LEMMA StartedIsOne ==
    ASSUME NEW w \in Workers, pc[w] # "start"
    PROVE  Cardinality(Unstarted) + 1 <= Threads /\ Cardinality(Unstarted) \in Nat
<1>1. w \notin Unstarted /\ Unstarted \in SUBSET Workers
    BY DEF Unstarted
<1>2. Unstarted \cup {w} \in SUBSET Workers
    BY <1>1
<1>3. Cardinality(Unstarted \cup {w}) = Cardinality(Unstarted) + 1
    BY <1>1, OneMore
<1> QED
    BY <1>1, <1>2, <1>3, ThreadSets

-----------------------------------------------------------------------------
(* The count of the frames in flight.                                      *)

\* Every step keeps the count exact, and after a stop never too low.
LEMMA InflightStep == PoolInv /\ [Next]_vars => InflightExact'
<1> SUFFICES ASSUME PoolInv, [Next]_vars PROVE InflightExact'
    OBVIOUS
<1>1. TypeOK /\ InflightExact /\ WorkHeld /\ RunningExact /\ StopInOrder /\ StaysStopped
    BY DEF PoolInv
<1>2. Threads \in Nat \ {0} /\ Cardinality(Busy) \in Nat
    BY ThreadSets DEF Busy
<1>3. Cardinality(queue) \in Nat /\ inflight \in Nat
    BY <1>1, QueueCount DEF TypeOK
<1> USE <1>2, <1>3 DEF InflightExact
<1>4. CASE Submit
    BY <1>1, <1>4, SameBusy DEF Submit
<1>5. CASE CloneFails
    BY <1>1, <1>5, SameBusy DEF CloneFails
<1>6. CASE Enqueue
  <2>1. Cardinality(queue') = Cardinality(queue) + 1
    <3> DEFINE e == [frame |-> submitted, by |-> producer]
    <3>1. submitted \in Nat /\ \A q \in queue : q.frame < submitted
        BY <1>1, <1>6 DEF Enqueue, WorkHeld, TypeOK
    <3>2. e \in Entries /\ e.frame = submitted
        BY <1>1, <1>6 DEF Enqueue, WorkHeld, TypeOK, Frames, Entries
    <3>3. e \notin queue
        BY <3>1, <3>2
    <3> QED
        BY <1>1, <1>6, <3>2, <3>3, QueueCount DEF Enqueue
  <2> QED
      BY <1>1, <1>6, <2>1, SameBusy DEF Enqueue
<1>7. CASE Notify \/ SetMode \/ RestartCamera \/ SignalAll
    BY <1>1, <1>7, SameBusy DEF Notify, SetMode, RestartCamera, SignalAll, pool
<1>8. CASE Replace \/ Reset
    BY <1>1, <1>8, SameBusy DEF Replace, Reset, Stop
<1>9. CASE Joined
  <2>1. Busy' = {}
      BY <1>9 DEF Joined, NewReceiver, Busy
  <2>2. Cardinality(Busy') = 0 /\ Cardinality(queue') = 0
      BY <1>9, <2>1, FS_EmptySet DEF Joined, NewReceiver
  <2> QED
      BY <1>9, <2>2 DEF Joined, NewReceiver
<1>10. CASE \E w \in Workers : \/ Started(w) \/ Test(w) \/ Wait(w) \/ Woken(w)
                               \/ LookEmpty(w) \/ NothingLeft(w)
                               \/ Spurious(w) \/ Decode(w) \/ Detect(w)
  <2>1. UNCHANGED <<camera, stopper, job, queue, inflight>>
      BY <1>10 DEF Started, Test, Wait, Woken, LookEmpty, NothingLeft, Spurious, Decode, Detect,
                   pool
  <2> QED
      BY <1>1, <2>1, SameBusy
<1>11. CASE \E w \in Workers : Take(w)
  <2>1. PICK w \in Workers : Take(w)
      BY <1>11
  <2>2. /\ Cardinality(queue') = Cardinality(queue) - 1
        /\ running > 0 => \E f \in Frames : job' = [job EXCEPT ![w] = f]
        /\ ~(running > 0) => job' = job
      BY <1>1, <2>1, TakeOut
  <2>3. UNCHANGED <<camera, stopper, inflight>>
      BY <2>1 DEF Take
  <2>4. CASE running > 0
    <3>1. Cardinality(Busy') = Cardinality(Busy) + 1
        BY <1>1, <2>1, <2>2, <2>4, TakeBusy DEF Take
    <3> QED
        BY <1>1, <2>2, <2>3, <3>1
  <2>5. CASE ~(running > 0)
    <3>1. Busy' = Busy
        BY <2>2, <2>5, SameBusy
    <3>2. stopper # "none"
        BY <1>1, <2>1, <2>5, StartedIsOne DEF Take, RunningExact
    <3> QED
        BY <1>1, <2>2, <2>3, <3>1, <3>2
  <2> QED
      BY <2>4, <2>5
<1>12. CASE \E w \in Workers : Scan(w) \/ Fails(w) \/ Track(w)
  <2>1. PICK w \in Workers : Scan(w) \/ Fails(w) \/ Track(w)
      BY <1>12
  <2>2. UNCHANGED <<camera, stopper, queue>>
      BY <2>1 DEF Scan, Fails, Track
  <2>3. CASE UNCHANGED <<job, inflight>>
      BY <1>1, <2>2, <2>3, SameBusy
  <2>4. CASE Finish(w)
    <3>1. Cardinality(Busy') = Cardinality(Busy) - 1
        BY <1>1, <2>1, <2>4, FinishBusy DEF Scan, Fails, Track, Finish
    <3> QED
        BY <1>1, <2>2, <2>4, <3>1 DEF Finish
  <2> QED
      BY <2>1, <2>3, <2>4 DEF Scan, Fails, Track
<1>13. CASE UNCHANGED vars
    BY <1>1, <1>13, SameBusy DEF vars, pool
<1> QED
    BY <1>4, <1>5, <1>6, <1>7, <1>8, <1>9, <1>10, <1>11, <1>12, <1>13
       DEF Next, Adding, Stopping, Loop, Work

-----------------------------------------------------------------------------
(* The stop.                                                               *)

\* The threads still to start are the same when no thread starts.
LEMMA SameUnstarted ==
    ASSUME TypeOK, NEW w \in Workers, NEW s \in Stages \ {"start"},
           pc[w] # "start", pc' = [pc EXCEPT ![w] = s]
    PROVE  Unstarted' = Unstarted
    BY DEF TypeOK, Unstarted

\* Every step keeps _running the count of the threads that have started, and
\* below zero once the pool is stopped, whoever starts later.
LEMMA RunningStep == PoolInv /\ [Next]_vars => RunningExact'
<1> SUFFICES ASSUME PoolInv, [Next]_vars PROVE RunningExact'
    OBVIOUS
<1>1. TypeOK /\ RunningExact
    BY DEF PoolInv
<1>2. /\ Threads \in Nat \ {0} /\ Cardinality(Unstarted) \in Nat
      /\ Cardinality(Unstarted) <= Threads /\ running \in Int
    BY <1>1, ThreadSets DEF Unstarted, TypeOK
<1> USE <1>2 DEF RunningExact
<1>3. CASE UNCHANGED <<running, stopper>> /\ Unstarted' = Unstarted
    BY <1>1, <1>3
<1>4. CASE \/ Submit \/ CloneFails \/ Enqueue \/ SetMode \/ RestartCamera \/ UNCHANGED vars
          \/ \E w \in Workers : LookEmpty(w)
  <2>1. UNCHANGED <<running, stopper, pc>>
      BY <1>4 DEF Submit, CloneFails, Enqueue, SetMode, RestartCamera, LookEmpty, vars, pool
  <2> QED
      BY <1>3, <2>1 DEF Unstarted
<1>5. CASE Notify
  <2>1. UNCHANGED <<running, stopper>>
      BY <1>5 DEF Notify, pool
  <2>2. Unstarted' = Unstarted
      BY <1>1, <1>5 DEF Notify, Asleep, Unstarted, TypeOK
  <2> QED
      BY <1>3, <2>1, <2>2
<1>6. CASE Replace \/ Reset
  <2>1. Unstarted' = Unstarted /\ running' = -1 - Threads /\ stopper' = "signal"
      BY <1>6 DEF Replace, Reset, Stop, Unstarted
  <2> QED
      BY <2>1
<1>7. CASE SignalAll
  <2>1. Unstarted' = Unstarted
      BY <1>1, <1>7 DEF SignalAll, Unstarted, TypeOK
  <2> QED
      BY <1>1, <1>7, <2>1 DEF SignalAll
<1>8. CASE Joined
  <2>1. Unstarted' = Workers /\ running' = 0 /\ stopper' = "none"
      BY <1>8 DEF Joined, NewReceiver, Unstarted
  <2> QED
      BY <2>1 DEF Threads
<1>9. CASE \E w \in Workers : Started(w)
  <2>1. PICK w \in Workers : Started(w)
      BY <1>9
  <2>2. w \in Unstarted /\ Unstarted \in SUBSET Workers
      BY <2>1 DEF Started, Unstarted
  <2>3. Unstarted' = Unstarted \ {w}
      BY <1>1, <2>1 DEF Started, To, Unstarted, TypeOK
  <2>4. Cardinality(Unstarted') = Cardinality(Unstarted) - 1
      BY <2>2, <2>3, OneLess
  <2>5. running' = running + 1 /\ stopper' = stopper
      BY <2>1 DEF Started
  <2> QED
      BY <1>1, <2>4, <2>5
<1>10. CASE \E w \in Workers : \/ Test(w) \/ Wait(w) \/ Woken(w) \/ Take(w) \/ NothingLeft(w)
                               \/ Spurious(w) \/ Work(w)
  <2>1. PICK w \in Workers : \/ Test(w) \/ Wait(w) \/ Woken(w) \/ Take(w) \/ NothingLeft(w)
                             \/ Spurious(w) \/ Work(w)
      BY <1>10
  <2>2. UNCHANGED <<running, stopper>>
      BY <2>1 DEF Test, Wait, Woken, Take, NothingLeft, Spurious, Work, Scan, Fails, Decode,
                  Detect, Track, pool
  <2>3. pc[w] # "start" /\ \E s \in Stages \ {"start"} : pc' = [pc EXCEPT ![w] = s]
      BY <2>1 DEF Test, Wait, Woken, Take, NothingLeft, Spurious, Work, Scan, Fails, Decode,
                  Detect, Track, Finish, To, Stages
  <2>4. Unstarted' = Unstarted
      BY <1>1, <2>3, SameUnstarted
  <2> QED
      BY <1>3, <2>2, <2>4
<1> QED
    BY <1>4, <1>5, <1>6, <1>7, <1>8, <1>9, <1>10 DEF Next, Adding, Stopping, Loop

\* The queue and the places in flight stay within the threads plus one.
LEMMA QueueStep == PoolInv /\ [Next]_vars => QueueBounded'
<1> SUFFICES ASSUME PoolInv, [Next]_vars PROVE QueueBounded'
    OBVIOUS
<1>1. QueueBounded /\ TypeOK /\ TypeOK' /\ InflightExact'
    BY TypeOKStep, InflightStep DEF PoolInv
<1>2. Threads \in Nat /\ inflight \in Nat /\ inflight' \in Nat /\ Cardinality(queue') \in Nat
    BY <1>1, ThreadSets, FS_CardinalityType DEF TypeOK
<1>3. Cardinality(Busy') \in Nat
    BY ThreadSets DEF Busy
<1>4. Cardinality(queue') <= inflight'
    BY <1>1, <1>2, <1>3 DEF InflightExact
<1>5. inflight' <= inflight \/ inflight' = 0 \/ inflight' <= Threads + 1
  <2>1. CASE Submit
      BY <1>2, <2>1 DEF Submit
  <2>2. CASE Adding
      BY <1>2, <2>2 DEF Adding, CloneFails, Enqueue, Notify, pool
  <2>3. CASE SetMode \/ RestartCamera \/ Replace \/ Reset \/ SignalAll
    <3>1. inflight' = inflight
        BY <2>3 DEF SetMode, RestartCamera, Replace, Reset, Stop, SignalAll, pool
    <3> QED
        BY <1>2, <3>1
  <2>4. CASE Joined
    <3>1. inflight' = 0
        BY <2>4 DEF Joined, NewReceiver
    <3> QED
        BY <3>1
  <2>5. CASE \E w \in Workers : Loop(w) \/ Spurious(w)
      BY <1>2, <2>5 DEF Loop, Started, Test, Wait, Woken, Take, LookEmpty, NothingLeft,
                        Spurious, pool
  <2>6. CASE \E w \in Workers : Work(w)
      BY <1>2, <2>6 DEF Work, Scan, Fails, Decode, Detect, Track, Finish, pool
  <2>7. CASE UNCHANGED vars
      BY <1>2, <2>7 DEF vars, pool
  <2> QED
      BY <2>1, <2>2, <2>3, <2>4, <2>5, <2>6, <2>7 DEF Next, Stopping
<1> QED
    BY <1>1, <1>2, <1>4, <1>5 DEF QueueBounded

\* Every step of a decoder thread that has taken the flag, once the pool is
\* stopped, leads to its end; the flag is taken only by one that then goes on.
LEMMA StopStep == PoolInv /\ [Next]_vars => StopInOrder'
<1> SUFFICES ASSUME PoolInv, [Next]_vars PROVE StopInOrder'
    OBVIOUS
<1>1. TypeOK /\ StopInOrder /\ StaysStopped
    BY DEF PoolInv
<1>2. running \in Int /\ receivers \in Nat
    BY <1>1 DEF TypeOK
<1> USE <1>1 DEF StopInOrder, pool
<1>3. CASE Submit \/ CloneFails \/ Enqueue \/ SetMode \/ RestartCamera
    BY <1>3 DEF Submit, CloneFails, Enqueue, SetMode, RestartCamera, TypeOK
<1>4. CASE Notify
  <2>1. \A v \in Workers : pc[v] \in {"woken", "done"} => pc'[v] \in {"woken", "done"}
      BY <1>4 DEF Notify, Asleep, TypeOK
  <2> QED
      BY <1>4, <2>1 DEF Notify
<1>5. CASE Replace \/ Reset
    BY <1>5 DEF Replace, Reset, Stop
<1>6. CASE SignalAll
    BY <1>6 DEF SignalAll
<1>7. CASE Joined
    BY <1>7 DEF Joined, NewReceiver
<1>8. CASE \E w \in Workers : Loop(w) \/ Work(w) \/ Spurious(w)
  <2>1. PICK w \in Workers : Loop(w) \/ Work(w) \/ Spurious(w)
      BY <1>8
  <2>2. UNCHANGED <<camera, stopper, receivers>>
      BY <2>1 DEF Loop, Work, Started, Test, Wait, Woken, Take, LookEmpty, NothingLeft,
                  Spurious, Scan, Fails,
                  Decode, Detect, Track
  <2>3. \A v \in Workers \ {w} : pc'[v] = pc[v]
      BY <2>1 DEF Loop, Work, Started, Test, Wait, Woken, Take, LookEmpty, NothingLeft,
                  Spurious, Scan, Fails,
                  Decode, Detect, Track, Finish, To, TypeOK
  <2>4. stopper = "join" /\ pc[w] \in {"woken", "done"} => pc'[w] = "done"
      BY <1>2, <2>1 DEF Loop, Work, Started, Test, Wait, Woken, Take, LookEmpty, NothingLeft,
                        Spurious, Scan,
                  Fails, Decode, Detect, Track, Finish, To, TypeOK, StaysStopped
  <2>5. flag /\ ~flag' => pc'[w] = "woken"
      BY <2>1 DEF Loop, Work, Started, Test, Wait, Woken, Take, LookEmpty, NothingLeft,
                  Spurious, Scan,
                  Fails, Decode, Detect, Track, Finish, To, TypeOK
  <2> QED
      BY <2>2, <2>3, <2>4, <2>5
<1>9. CASE UNCHANGED vars
    BY <1>9 DEF vars
<1> QED
    BY <1>3, <1>4, <1>5, <1>6, <1>7, <1>8, <1>9 DEF Next, Adding, Stopping

\* After the signal a thread comes to sleep only when the flag is gone.
LEMMA SleepStep == PoolInv /\ [Next]_vars => SleepsBehindAnother'
<1> SUFFICES ASSUME PoolInv, [Next]_vars,
                    NEW w \in Workers, stopper' = "join", pc'[w] = "asleep"
             PROVE  ~flag' /\ \E v \in Workers \ {w} : pc'[v] \in {"woken", "done"}
    BY DEF SleepsBehindAnother
<1>1. TypeOK /\ SleepsBehindAnother /\ StopInOrder'
    BY StopStep DEF PoolInv
<1> USE <1>1
<1>2. stopper = "join" /\ pc[w] = "asleep" => ~flag
    BY DEF SleepsBehindAnother
<1>3. ~flag'
  <2>1. CASE Submit \/ Adding \/ SetMode \/ RestartCamera \/ Replace \/ Reset \/ UNCHANGED vars
    <3>1. stopper = "join" /\ pc[w] = "asleep" /\ flag' = flag
        BY <2>1 DEF Submit, Adding, CloneFails, Enqueue, Notify, SetMode, RestartCamera,
                    Replace, Reset, Stop, Asleep,
                    vars, pool, TypeOK
    <3> QED
        BY <1>2, <3>1
  <2>2. CASE Stopping
      BY <2>2 DEF Stopping, SignalAll, Joined, TypeOK
  <2>3. CASE \E v \in Workers : Loop(v) \/ Work(v) \/ Spurious(v)
    <3>1. PICK v \in Workers : Loop(v) \/ Work(v) \/ Spurious(v)
        BY <2>3
    <3>2. CASE Wait(v)
        BY <3>2 DEF Wait
    <3>3. CASE ~Wait(v)
      <4>1. stopper = "join" /\ pc[w] = "asleep" /\ flag' = flag
          BY <3>1, <3>3 DEF Loop, Work, Started, Test, Woken, Take, LookEmpty, NothingLeft,
                            Spurious, Scan,
                      Fails, Decode, Detect, Track, Finish, To, pool, TypeOK
      <4> QED
          BY <1>2, <4>1
    <3> QED
        BY <3>2, <3>3
  <2> QED
      BY <2>1, <2>2, <2>3 DEF Next
<1>4. \E v \in Workers : pc'[v] \in {"woken", "done"}
    BY <1>1, <1>3 DEF StopInOrder
<1> QED
    BY <1>3, <1>4

-----------------------------------------------------------------------------
(* The frames.                                                             *)

\* Every step keeps the frames with the threads that work on them, and the
\* numbers of all of them at most the one submitted last.
LEMMA WorkStep == PoolInv /\ [Next]_vars => WorkHeld'
<1> SUFFICES ASSUME PoolInv, [Next]_vars PROVE WorkHeld'
    OBVIOUS
<1>1. TypeOK /\ WorkHeld
    BY DEF PoolInv
<1>2. /\ submitted \in Nat /\ \A w \in Workers : job[w] \in Nat
      /\ \A q \in queue : q.frame \in Nat
    BY <1>1, PoolShape DEF TypeOK, Frames, NoFrame, Entries
<1> USE <1>1, <1>2 DEF WorkHeld
<1>3. CASE Submit
    BY <1>3 DEF Submit
<1>4. CASE CloneFails
    BY <1>4 DEF CloneFails
<1>5. CASE Enqueue
  <2>1. submitted \in Frames
      BY <1>5 DEF Enqueue, TypeOK, Frames
  <2>2. \A q \in queue' : q.frame <= submitted
      BY <1>5, <2>1 DEF Enqueue
  <2> QED
      BY <1>5, <2>2 DEF Enqueue
<1>6. CASE Notify
    BY <1>6 DEF Notify, Asleep, TypeOK, pool
<1>7. CASE SetMode \/ RestartCamera \/ Replace \/ Reset \/ UNCHANGED vars
    BY <1>7 DEF SetMode, RestartCamera, Replace, Reset, Stop, vars, pool
<1>8. CASE SignalAll
  <2>1. \A w \in Workers : pc'[w] = IF pc[w] = "asleep" THEN "woken" ELSE pc[w]
      BY <1>8 DEF SignalAll, TypeOK
  <2>2. UNCHANGED <<camera, job, queue, submitted>>
      BY <1>8 DEF SignalAll, pool
  <2> QED
      BY <2>1, <2>2
<1>9. CASE Joined
  <2>1. \A w \in Workers : pc'[w] = "start" /\ job'[w] = NoFrame
      BY <1>9 DEF Joined, NewReceiver
  <2>2. queue' = {} /\ submitted' = 0 /\ camera' = "idle"
      BY <1>9 DEF Joined, NewReceiver
  <2> QED
      BY <2>1, <2>2 DEF NoFrame
<1>10. CASE \E w \in Workers : \/ Started(w) \/ Test(w) \/ Wait(w) \/ Woken(w)
                               \/ LookEmpty(w) \/ NothingLeft(w)
                               \/ Spurious(w) \/ Decode(w) \/ Detect(w)
    BY <1>10 DEF Started, Test, Wait, Woken, LookEmpty, NothingLeft, Spurious, Decode, Detect,
                 To, TypeOK, pool
<1>11. CASE \E w \in Workers : Take(w)
  <2>1. PICK w \in Workers : Take(w)
      BY <1>11
  <2>2. PICK q \in queue :
            /\ q.frame \in Frames /\ queue' = queue \ {q}
            /\ running > 0 => To(w, "scan") /\ job' = [job EXCEPT ![w] = q.frame]
            /\ ~(running > 0) => To(w, "test") /\ job' = job
      BY <2>1, TakeOut
  <2>3. UNCHANGED <<camera, submitted>>
      BY <2>1 DEF Take
  <2>4. CASE running > 0
    <3>1. /\ pc'[w] = "scan" /\ job'[w] = q.frame /\ q.frame # NoFrame
          /\ \A v \in Workers \ {w} : pc'[v] = pc[v] /\ job'[v] = job[v]
        BY <2>2, <2>4 DEF To, TypeOK, Frames, NoFrame
    <3> QED
        BY <2>2, <2>3, <3>1
  <2>5. CASE ~(running > 0)
    <3>1. pc[w] = "drain" /\ pc' = [pc EXCEPT ![w] = "test"] /\ job' = job
        BY <2>1, <2>2, <2>5 DEF Take, To
    <3> QED
        BY <2>2, <2>3, <3>1 DEF TypeOK
  <2> QED
      BY <2>4, <2>5
<1>12. CASE \E w \in Workers : Scan(w) \/ Fails(w) \/ Track(w)
  <2>1. PICK w \in Workers : Scan(w) \/ Fails(w) \/ Track(w)
      BY <1>12
  <2>2. UNCHANGED <<camera, queue, submitted>>
      BY <2>1 DEF Scan, Fails, Track
  <2>3. CASE Finish(w)
    <3>1. /\ pc'[w] = "drain" /\ job'[w] = NoFrame
          /\ \A v \in Workers \ {w} : pc'[v] = pc[v] /\ job'[v] = job[v]
        BY <2>3 DEF Finish, To, TypeOK
    <3>2. camera = "clone" => NoFrame < submitted
        BY DEF NoFrame
    <3> QED
        BY <2>2, <3>1, <3>2 DEF NoFrame
  <2>4. CASE Scan(w) /\ To(w, "decode") /\ UNCHANGED job
      BY <2>2, <2>4 DEF Scan, To, TypeOK
  <2> QED
      BY <2>1, <2>3, <2>4 DEF Scan, Fails, Track
<1> QED
    BY <1>3, <1>4, <1>5, <1>6, <1>7, <1>8, <1>9, <1>10, <1>11, <1>12
       DEF Next, Adding, Stopping, Loop, Work

\* A frame leaves the queue for one thread.
LEMMA OnceStep == PoolInv /\ [Next]_vars => FramesOnce'
<1> SUFFICES ASSUME PoolInv, [Next]_vars PROVE FramesOnce'
    OBVIOUS
<1>1. TypeOK /\ WorkHeld /\ FramesOnce
    BY DEF PoolInv
<1>2. /\ submitted \in Nat /\ \A w \in Workers : job[w] \in Nat
      /\ \A q \in queue : q.frame \in Nat
    BY <1>1, PoolShape DEF TypeOK, Frames, NoFrame, Entries
<1> USE <1>1, <1>2
<1>3. CASE UNCHANGED <<queue, job>>
    BY <1>3, SameBusy DEF FramesOnce
<1>4. CASE Submit \/ CloneFails \/ Notify \/ SetMode \/ RestartCamera \/ Replace \/ Reset
           \/ SignalAll \/ UNCHANGED vars
  <2>1. UNCHANGED <<queue, job>>
      BY <1>4 DEF Submit, CloneFails, Notify, SetMode, RestartCamera, Replace, Reset, Stop,
                  SignalAll, vars, pool
  <2> QED
      BY <1>3, <2>1
<1>5. CASE Enqueue
  <2>1. \A q \in queue : q.frame < submitted
      BY <1>5 DEF Enqueue, WorkHeld
  <2>2. \A w \in Busy : job[w] < submitted
      BY <1>5 DEF Enqueue, WorkHeld, Busy
  <2>3. /\ Busy' = Busy /\ job' = job
        /\ queue' = queue \cup {[frame |-> submitted, by |-> producer]}
      BY <1>5, SameBusy DEF Enqueue
  <2> QED
      BY <2>1, <2>2, <2>3 DEF FramesOnce, Busy
<1>6. CASE Joined
  <2>1. queue' = {} /\ Busy' = {}
      BY <1>6 DEF Joined, NewReceiver, Busy
  <2> QED
      BY <2>1 DEF FramesOnce
<1>7. CASE \E w \in Workers : \/ Started(w) \/ Test(w) \/ Wait(w) \/ Woken(w)
                              \/ LookEmpty(w) \/ NothingLeft(w)
                              \/ Spurious(w) \/ Decode(w) \/ Detect(w)
  <2>1. UNCHANGED <<queue, job>>
      BY <1>7 DEF Started, Test, Wait, Woken, LookEmpty, NothingLeft, Spurious, Decode, Detect,
                  pool
  <2> QED
      BY <1>3, <2>1
<1>8. CASE \E w \in Workers : Take(w)
  <2>1. PICK w \in Workers : Take(w)
      BY <1>8
  <2>2. PICK q \in queue :
            /\ q.frame \in Frames /\ queue' = queue \ {q}
            /\ running > 0 => To(w, "scan") /\ job' = [job EXCEPT ![w] = q.frame]
            /\ ~(running > 0) => To(w, "test") /\ job' = job
      BY <2>1, TakeOut
  <2>3. \A r \in queue' : r \in queue /\ r.frame # q.frame
      BY <2>2 DEF FramesOnce
  <2>4. CASE running > 0
    <3>1. Busy' = Busy \cup {w} /\ w \notin Busy
        BY <2>1, <2>2, <2>4, TakeBusy DEF Take
    <3>2. job'[w] = q.frame /\ \A v \in Busy : v # w /\ job'[v] = job[v] /\ job[v] # q.frame
        BY <2>2, <2>4, <3>1 DEF TypeOK, FramesOnce, Busy
    <3>3. \A v \in Busy' : \A r \in queue' : job'[v] # r.frame
        BY <2>3, <3>1, <3>2 DEF FramesOnce
    <3>4. \A u, v \in Busy' : job'[u] = job'[v] => u = v
        BY <3>1, <3>2 DEF FramesOnce
    <3> QED
        BY <2>3, <3>3, <3>4 DEF FramesOnce
  <2>5. CASE ~(running > 0)
      BY <2>2, <2>3, <2>5, SameBusy DEF FramesOnce
  <2> QED
      BY <2>4, <2>5
<1>9. CASE \E w \in Workers : Scan(w) \/ Fails(w) \/ Track(w)
  <2>1. PICK w \in Workers : Scan(w) \/ Fails(w) \/ Track(w)
      BY <1>9
  <2>2. queue' = queue /\ (job' = job \/ Finish(w))
      BY <2>1 DEF Scan, Fails, Track
  <2>3. CASE Finish(w)
    <3>1. Busy' \subseteq Busy /\ \A v \in Busy' : job'[v] = job[v]
        BY <2>3 DEF Finish, Busy, TypeOK
    <3> QED
        BY <2>2, <3>1 DEF FramesOnce
  <2> QED
      BY <1>3, <2>2, <2>3
<1> QED
    BY <1>4, <1>5, <1>6, <1>7, <1>8, <1>9 DEF Next, Adding, Stopping, Loop, Work

-----------------------------------------------------------------------------
(* The theorems.                                                           *)

\* PoolInv holds of every number of threads, frames and receivers: the places
\* in flight are exactly the frames there are, the queue is bounded, a stopped
\* pool stays stopped and has a thread up behind every sleeping one, and no
\* frame is given out twice, however often the camera is switched off and on.
THEOREM PoolInvHolds == Spec => []PoolInv
<1>1. PoolInv /\ [Next]_vars => PoolInv'
  <2> SUFFICES ASSUME PoolInv, [Next]_vars PROVE PoolInv'
      OBVIOUS
  <2>1. TypeOK' /\ InflightExact' /\ QueueBounded' /\ WorkHeld' /\ RunningExact' /\ StopInOrder'
        /\ SleepsBehindAnother' /\ FramesOnce'
      BY TypeOKStep, InflightStep, QueueStep, WorkStep, RunningStep, StopStep, SleepStep, OnceStep
  <2>2. StaysStopped'
    <3>1. Cardinality(Unstarted') \in Nat /\ running' \in Int
        BY <2>1, ThreadSets DEF Unstarted, TypeOK
    <3> QED
        BY <2>1, <3>1 DEF RunningExact, StaysStopped
  <2> QED
      BY <2>1, <2>2 DEF PoolInv
<1> QED
    BY <1>1, InitPool, PTL DEF Spec

\* A step on what is shown keeps it or takes it forward.
LEMMA NewerForward ==
    ASSUME NEW f \in Nat, NEW g \in Nat
    PROVE  Newer(f, g) >= g
    BY DEF Newer

LEMMA GeometryStep ==
    ASSUME PoolInv, [Next]_vars, receivers' = receivers
    PROVE  geometry' >= geometry /\ tracked' >= tracked
<1>1. /\ geometry \in Nat /\ tracked \in Nat /\ receivers \in Nat
      /\ \A w \in Workers : job[w] \in Nat
    BY PoolShape DEF PoolInv, TypeOK, Frames, NoFrame
<1>2. CASE UNCHANGED <<geometry, tracked>>
    BY <1>1, <1>2
<1>3. CASE Submit \/ Adding \/ SetMode \/ RestartCamera \/ Replace \/ Reset \/ SignalAll
           \/ UNCHANGED vars
  <2>1. UNCHANGED <<geometry, tracked>>
      BY <1>3 DEF Submit, Adding, CloneFails, Enqueue, Notify, SetMode, RestartCamera, Replace,
                  Reset, Stop,
                  SignalAll, shown, vars
  <2> QED
      BY <1>2, <2>1
<1>4. CASE Joined
    BY <1>1, <1>4 DEF Joined
<1>5. CASE \E w \in Workers : Loop(w) \/ Fails(w) \/ Decode(w) \/ Detect(w) \/ Spurious(w)
  <2>1. UNCHANGED <<geometry, tracked>>
      BY <1>5 DEF Loop, Started, Test, Wait, Woken, Take, LookEmpty, NothingLeft, Spurious,
                  Fails, Decode,
                  Detect, shown
  <2> QED
      BY <1>2, <2>1
<1>6. CASE \E w \in Workers : Scan(w) \/ Track(w)
    BY <1>1, <1>6, NewerForward DEF Scan, Track
<1> QED
    BY <1>3, <1>4, <1>5, <1>6 DEF Next, Stopping, Work

\* The outline and the tracked region of one receiver only go forward,
\* whatever the order in which its threads come to lock them.
THEOREM GeometryKeptHolds == Spec => GeometryKept
<1>1. PoolInv /\ [Next]_vars
      => [receivers' = receivers => geometry' >= geometry /\ tracked' >= tracked]_vars
    BY GeometryStep
<1> QED
    BY <1>1, PoolInvHolds, PTL DEF Spec, GeometryKept

=============================================================================
