---------------------------- MODULE ReceiverPool ----------------------------
(* The native receiver of the Android app: the camera thread submits frames *)
(* to a pool of decoder threads that share a queue, a count of the frames   *)
(* in flight and a monitor; the user's reset, or the detection of a barcode *)
(* mode with other chunks, stops the pool and discards the receiver.        *)
(* A notification of the monitor that finds nobody waiting is lost, the     *)
(* flag that stop sets is taken by the first thread that comes to wait, and *)
(* a condition variable may wake up by itself.                              *)
(* The camera is switched off and on while its receiver stays, each time    *)
(* with a thread of its own, and the queue keeps the frames of each thread  *)
(* apart: it has an order only among the frames of one.                     *)
EXTENDS Integers, FiniteSets

CONSTANTS
    Workers,       \* the decoder threads of a receiver (1 to 4)
    Cameras,       \* the producers a queue may come to have (bound)
    MaxFrames,     \* frames submitted to one receiver (bound)
    MaxReceivers,  \* receivers in one behaviour (bound)
    MaySpur        \* whether a wait may end by itself (bound)

ASSUME PoolShape ==
    /\ IsFiniteSet(Workers) /\ Workers # {} /\ Cameras # {}
    /\ MaxFrames \in Nat /\ MaxReceivers \in Nat \ {0} /\ MaySpur \in BOOLEAN

Threads == Cardinality(Workers)

VARIABLES
    camera,      \* where the camera thread is in submit and add
    producer,    \* which producer of the queue it is
    stopper,     \* where the thread that stops the receiver is
    pc,          \* where each decoder thread is
    job,         \* the frame a decoder thread has
    looked,      \* the producers a decoder thread has found without a frame
    running,     \* _running
    flag,        \* the flag of _notifyWork
    queue,       \* _queue: the frames in it, each with its producer
    inflight,    \* _inflight
    submitted,   \* _submitted
    geometry,    \* _geometrySequence
    tracked,     \* _trackedSequence
    auto,        \* _mode = 0
    detected,    \* _detected # 0
    receivers    \* how many receivers there have been

pool == <<running, flag, queue, inflight>>
mode == <<auto, detected>>
shown == <<geometry, tracked, mode>>
vars == <<camera, producer, stopper, pc, job, looked, pool, submitted, shown, receivers>>

Frames == 1 .. MaxFrames
NoFrame == 0
Entries == [frame : Frames, by : Cameras]

\* A receiver whose threads have been created and have not run yet; start does
\* not insist on their having started (thread_pool.h:64).
NewReceiver ==
    /\ pc' = [w \in Workers |-> "start"] /\ job' = [w \in Workers |-> NoFrame]
    /\ looked' = [w \in Workers |-> {}]
    /\ running' = 0 /\ flag' = FALSE /\ queue' = {} /\ inflight' = 0
    /\ submitted' = 0 /\ geometry' = 0 /\ tracked' = 0 /\ detected' = FALSE

Init ==
    /\ camera = "idle" /\ producer \in Cameras /\ stopper = "none"
    /\ pc = [w \in Workers |-> "start"] /\ job = [w \in Workers |-> NoFrame]
    /\ looked = [w \in Workers |-> {}]
    /\ running = 0 /\ flag = FALSE /\ queue = {} /\ inflight = 0
    /\ submitted = 0 /\ geometry = 0 /\ tracked = 0 /\ detected = FALSE /\ auto \in BOOLEAN
    /\ receivers = 1

-----------------------------------------------------------------------------
(* add, on the camera thread.                                               *)

\* The frame takes a number and, while no more than threads plus one are in
\* flight, a place.
Submit ==
    /\ camera = "idle" /\ stopper = "none" /\ ~(auto /\ detected) /\ submitted < MaxFrames
    /\ submitted' = submitted + 1
    /\ IF inflight >= Threads + 1
       THEN UNCHANGED <<camera, inflight>>
       ELSE camera' = "clone" /\ inflight' = inflight + 1
    /\ UNCHANGED <<producer, stopper, pc, job, looked, running, flag, queue, shown, receivers>>

\* The copy of the frame, or room in the queue, cannot be had.
CloneFails ==
    /\ camera = "clone" /\ camera' = "idle" /\ inflight' = inflight - 1
    /\ UNCHANGED <<producer, stopper, pc, job, looked, running, flag, queue, submitted, shown,
                   receivers>>

Enqueue ==
    /\ camera = "clone" /\ camera' = "notify"
    /\ queue' = queue \cup {[frame |-> submitted, by |-> producer]}
    /\ UNCHANGED <<producer, stopper, pc, job, looked, running, flag, inflight, submitted,
                   shown, receivers>>

Asleep == {w \in Workers : pc[w] = "asleep"}

\* notify_one, without the mutex and without the flag: it is lost unless a
\* thread waits already.
Notify ==
    /\ camera = "notify" /\ camera' = "idle"
    /\ IF Asleep = {} THEN UNCHANGED pc
       ELSE \E w \in Asleep : pc' = [pc EXCEPT ![w] = "woken"]
    /\ UNCHANGED <<producer, stopper, job, looked, pool, submitted, shown, receivers>>

\* The camera is disabled, which joins its thread, and enabled again.  Its new
\* thread is a new producer, or by its id the one of a thread that has ended.
RestartCamera ==
    /\ camera = "idle" /\ stopper = "none" /\ producer' \in Cameras
    /\ UNCHANGED <<camera, stopper, pc, job, looked, pool, submitted, shown, receivers>>

-----------------------------------------------------------------------------
(* thread_pool::run.                                                        *)

To(w, s) == pc' = [pc EXCEPT ![w] = s]

Started(w) ==
    /\ pc[w] = "start" /\ To(w, "test") /\ running' = running + 1
    /\ UNCHANGED <<camera, producer, stopper, job, looked, flag, queue, inflight, submitted,
                   shown, receivers>>

\* The test of the outer loop.
Test(w) ==
    /\ pc[w] = "test" /\ To(w, IF running > 0 THEN "wait" ELSE "done")
    /\ UNCHANGED <<camera, producer, stopper, job, looked, pool, submitted, shown, receivers>>

\* monitor::wait
Wait(w) ==
    /\ pc[w] = "wait"
    /\ To(w, IF flag THEN "woken" ELSE "asleep") /\ flag' = FALSE
    /\ UNCHANGED <<camera, producer, stopper, job, looked, running, queue, inflight, submitted,
                   shown, receivers>>

Spurious(w) ==
    /\ MaySpur /\ pc[w] = "asleep" /\ To(w, "woken")
    /\ UNCHANGED <<camera, producer, stopper, job, looked, pool, submitted, shown, receivers>>

Woken(w) ==
    /\ pc[w] = "woken" /\ To(w, IF running > 0 THEN "drain" ELSE "done")
    /\ UNCHANGED <<camera, producer, stopper, job, looked, pool, submitted, shown, receivers>>

\* try_dequeue and the test of the inner loop: the oldest frame of one of the
\* producers, whichever has the most when it looks.  A frame taken after the
\* stop is dropped, and keeps its place in flight.
Take(w) ==
    /\ pc[w] = "drain" /\ looked' = [looked EXCEPT ![w] = {}]
    /\ \E q \in queue :
          /\ \A r \in queue : r.by = q.by => q.frame <= r.frame
          /\ queue' = queue \ {q}
          /\ IF running > 0
             THEN To(w, "scan") /\ job' = [job EXCEPT ![w] = q.frame]
             ELSE To(w, "test") /\ UNCHANGED job
    /\ UNCHANGED <<camera, producer, stopper, running, flag, inflight, submitted, shown, receivers>>

\* It looks at one producer after the other.  One appears empty also while
\* another thread that found it so has not given back its claim.
LookEmpty(w) ==
    /\ pc[w] = "drain"
    /\ \E p \in Cameras \ looked[w] :
          /\ \/ \A q \in queue : q.by # p
             \/ \E v \in Workers \ {w} : pc[v] = "drain" /\ p \in looked[v]
          /\ looked' = [looked EXCEPT ![w] = @ \cup {p}]
    /\ UNCHANGED <<camera, producer, stopper, pc, job, pool, submitted, shown, receivers>>

NothingLeft(w) ==
    /\ pc[w] = "drain" /\ looked[w] = Cameras
    /\ To(w, "test") /\ looked' = [looked EXCEPT ![w] = {}]
    /\ UNCHANGED <<camera, producer, stopper, job, pool, submitted, shown, receivers>>

-----------------------------------------------------------------------------
(* The work on a frame.                                                     *)

\* Mutant: a thread takes one frame each time it is woken.
FinishOne(w) == /\ To(w, "test") /\ job' = [job EXCEPT ![w] = NoFrame]
                /\ inflight' = inflight - 1

Finish(w) == /\ To(w, "drain") /\ job' = [job EXCEPT ![w] = NoFrame]
             /\ inflight' = inflight - 1

\* Mutant: the thread that comes last is shown.
NewerIsLast(f, g) == f

Newer(f, g) == IF f >= g THEN f ELSE g

\* What was found is shown unless a later frame's is.  Without four anchors,
\* or when these cannot be straightened, the frame is through.
Scan(w) ==
    /\ pc[w] = "scan" /\ geometry' = Newer(job[w], geometry)
    /\ \/ To(w, "decode") /\ UNCHANGED <<job, inflight>>
       \/ Finish(w)
    /\ UNCHANGED <<camera, producer, stopper, looked, running, flag, queue, submitted, tracked,
                   mode, receivers>>

\* An exception of the scanner or the decoder, or a frame that carries nothing.
Fails(w) ==
    /\ pc[w] \in {"scan", "decode"} /\ Finish(w)
    /\ UNCHANGED <<camera, producer, stopper, looked, running, flag, queue, submitted, shown,
                   receivers>>

\* The frame carries data: the mode is read, and then a detected mode written.
Decode(w) ==
    /\ pc[w] = "decode" /\ To(w, IF auto THEN "detect" ELSE "track")
    /\ UNCHANGED <<camera, producer, stopper, job, looked, pool, submitted, shown, receivers>>

Detect(w) ==
    /\ pc[w] = "detect" /\ To(w, "track") /\ detected' = TRUE
    /\ UNCHANGED <<camera, producer, stopper, job, looked, pool, submitted, geometry, tracked,
                   auto, receivers>>

Track(w) ==
    /\ pc[w] = "track" /\ Finish(w) /\ tracked' = Newer(job[w], tracked)
    /\ UNCHANGED <<camera, producer, stopper, looked, running, flag, queue, submitted, geometry,
                   mode, receivers>>

-----------------------------------------------------------------------------
(* submit once a mode is detected, and stop: by submit on the camera        *)
(* thread, or by a reset on the UI thread, which has stopped the camera.    *)

\* The detected mode has the chunks of the receiver: it is taken over.
SetMode ==
    /\ camera = "idle" /\ stopper = "none" /\ auto /\ detected /\ auto' = FALSE
    /\ UNCHANGED <<camera, producer, stopper, pc, job, looked, pool, submitted, geometry,
                   tracked, detected, receivers>>

\* Mutant: the pool is stopped by setting the count of threads to zero.
StopAtZero ==
    /\ camera = "idle" /\ stopper = "none" /\ receivers < MaxReceivers
    /\ stopper' = "signal" /\ running' = 0
    /\ UNCHANGED <<producer, pc, job, looked, flag, queue, inflight, submitted, shown, receivers>>

Stop ==
    /\ camera = "idle" /\ stopper = "none" /\ receivers < MaxReceivers
    /\ stopper' = "signal" /\ running' = -1 - Threads
    /\ UNCHANGED <<producer, pc, job, looked, flag, queue, inflight, submitted, shown, receivers>>

\* It has others: the receiver is replaced.
Replace == auto /\ detected /\ Stop /\ camera' = "replacing"
Reset == Stop /\ UNCHANGED camera

\* Mutant: stop notifies without setting the flag.
SignalAllUnflagged ==
    /\ stopper = "signal" /\ stopper' = "join" /\ flag' = flag
    /\ pc' = [w \in Workers |-> IF pc[w] = "asleep" THEN "woken" ELSE pc[w]]
    /\ UNCHANGED <<camera, producer, job, looked, running, queue, inflight, submitted, shown,
                   receivers>>

SignalAll ==
    /\ stopper = "signal" /\ stopper' = "join" /\ flag' = TRUE
    /\ pc' = [w \in Workers |-> IF pc[w] = "asleep" THEN "woken" ELSE pc[w]]
    /\ UNCHANGED <<camera, producer, job, looked, running, queue, inflight, submitted, shown,
                   receivers>>

\* All threads are joined: the receiver goes and the next frame makes another.
Joined ==
    /\ stopper = "join" /\ \A w \in Workers : pc[w] = "done"
    /\ stopper' = "none" /\ receivers' = receivers + 1 /\ NewReceiver
    /\ camera' = "idle" /\ UNCHANGED producer
    /\ auto' \in IF camera = "replacing" THEN {FALSE} ELSE BOOLEAN

-----------------------------------------------------------------------------
Adding == CloneFails \/ Enqueue \/ Notify
Stopping == SignalAll \/ Joined
Loop(w) == Started(w) \/ Test(w) \/ Wait(w) \/ Woken(w) \/ Take(w)
               \/ LookEmpty(w) \/ NothingLeft(w)
Work(w) == Scan(w) \/ Fails(w) \/ Decode(w) \/ Detect(w) \/ Track(w)

Next ==
    \/ Submit \/ Adding \/ RestartCamera \/ SetMode \/ Replace \/ Reset \/ Stopping
    \/ \E w \in Workers : Loop(w) \/ Work(w) \/ Spurious(w)

Spec == Init /\ [][Next]_vars

\* The operating system runs every thread that is ready, and the work on a
\* frame is a bounded computation.  Nobody has to submit, to reset or to wake
\* up without reason.
FairSpec ==
    /\ Spec /\ WF_vars(Adding \/ Stopping)
    /\ \A w \in Workers : WF_vars(Loop(w) \/ Work(w))

-----------------------------------------------------------------------------
(* Properties.                                                              *)

Stages == {"start", "test", "wait", "asleep", "woken", "drain",
           "scan", "decode", "detect", "track", "done"}
Busy == {w \in Workers : job[w] # NoFrame}

TypeOK ==
    /\ camera \in {"idle", "clone", "notify", "replacing"} /\ producer \in Cameras
    /\ stopper \in {"none", "signal", "join"}
    /\ pc \in [Workers -> Stages] /\ job \in [Workers -> Frames \cup {NoFrame}]
    /\ looked \in [Workers -> SUBSET Cameras]
    /\ running \in -1 - Threads .. Threads /\ flag \in BOOLEAN
    /\ queue \subseteq Entries /\ IsFiniteSet(queue) /\ inflight \in Nat
    /\ submitted \in 0 .. MaxFrames /\ geometry \in 0 .. submitted /\ tracked \in 0 .. submitted
    /\ auto \in BOOLEAN /\ detected \in BOOLEAN /\ receivers \in 1 .. MaxReceivers

\* The count that bounds the memory is the frames there are: copied, queued or
\* worked on (MultiThreadedDecoder.h:30-32,38); a stopped pool only forgets some.
InflightExact ==
    LET there == (IF camera = "clone" THEN 1 ELSE 0) + Cardinality(queue) + Cardinality(Busy)
    IN  IF stopper = "none" THEN inflight = there ELSE inflight >= there

\* ReceiverInteropTest.java:91: "Keep no more than workers plus one queued frame".
QueueBounded == inflight <= Threads + 1 /\ Cardinality(queue) <= Threads + 1

\* A thread that starts only after the stop does not bring the pool back
\* (thread_pool.h:70).
StaysStopped == stopper # "none" => running <= 0

\* A thread sleeps on after the stop's signal only behind another one that
\* took the flag: a pool of one thread never does.
SleepsBehindAnother ==
    \A w \in Workers : stopper = "join" /\ pc[w] = "asleep" =>
        ~flag /\ \E v \in Workers \ {w} : pc[v] \in {"woken", "done"}

\* A frame is in the queue once, or with one thread at most.
FramesOnce ==
    /\ \A q, r \in queue : q.frame = r.frame => q = r
    /\ \A w \in Busy : \A q \in queue : job[w] # q.frame
    /\ \A v, w \in Busy : job[v] = job[w] => v = w

\* A thread has a frame exactly while it works on one; every frame there is
\* has been submitted, and the one being copied is not there yet.
WorkHeld ==
    /\ \A w \in Workers : job[w] # NoFrame <=> pc[w] \in {"scan", "decode", "detect", "track"}
    /\ \A w \in Workers : job[w] <= submitted
    /\ \A q \in queue : q.frame <= submitted
    /\ camera = "clone" =>
          /\ submitted >= 1
          /\ \A w \in Workers : job[w] < submitted
          /\ \A q \in queue : q.frame < submitted

\* _running counts the threads that have started; a stop takes more away than
\* the threads still to start can give back.
Unstarted == {w \in Workers : pc[w] = "start"}

RunningExact ==
    IF stopper = "none" THEN running = Threads - Cardinality(Unstarted)
    ELSE running + Cardinality(Unstarted) <= -1

\* The receiver is stopped between frames, while there may be another, and
\* once the stop has signalled a thread has taken its flag or it is still up.
StopInOrder ==
    /\ camera \in {"clone", "notify"} => stopper = "none"
    /\ stopper # "none" => receivers < MaxReceivers
    /\ stopper = "join" /\ ~flag => \E v \in Workers : pc[v] \in {"woken", "done"}

PoolInv ==
    /\ TypeOK /\ InflightExact /\ QueueBounded /\ StaysStopped
    /\ SleepsBehindAnother /\ FramesOnce
    /\ WorkHeld /\ RunningExact /\ StopInOrder

\* The outline and the region shown and tracked are never taken back to those
\* of an earlier frame by a slower thread (MultiThreadedDecoder.h:63,86).
GeometryKept ==
    [][receivers' = receivers => geometry' >= geometry /\ tracked' >= tracked]_vars

Queued(f) == \E q \in queue : q.frame = f

\* Threads take frames, and none has found the camera that is on without one.
Draining ==
    /\ \E w \in Workers : pc[w] = "drain"
    /\ \A w \in Workers : pc[w] = "drain" => producer \notin looked[w]

\* Threads that take frames take every one that the camera that is on has put
\* into the queue, also those whose notification was lost (thread_pool.h:110).
DrainGoesOn ==
    \A f \in Frames :
        LET waits == [frame |-> f, by |-> producer] \in queue
        IN  waits /\ Draining ~> ~waits \/ stopper # "none"

\* MultiThreadedDecoder.h:18, "Join before writer and metrics members are
\* destroyed": the stop comes to its end, unless two threads or more have
\* passed the test of their loop and not begun to wait when it signals.
StopEnds ==
    stopper = "signal" /\ Cardinality({w \in Workers : pc[w] = "wait"}) <= 1
        ~> stopper = "none"

-----------------------------------------------------------------------------
(* Statements the code does not keep.                                       *)

\* MainActivity.java:296: "join native workers before discarding the session".
StopAlwaysEnds == stopper = "signal" ~> stopper = "none"

\* ReceiverInteropTest.java:61, "Scanner should finish": a frame that was
\* accepted is taken by a thread.
FrameScanned ==
    \A f \in Frames : Queued(f) ~> ~Queued(f) \/ stopper # "none"
=============================================================================
