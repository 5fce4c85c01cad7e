------------------------- MODULE FountainSinkProofs -------------------------
(***************************************************************************)
(* Proofs about FountainSink, for every number of threads, transfers,      *)
(* names and receptions, and every size of chunks and frames.  What needs  *)
(* the transfers to be told apart by their headers says so (ToldApart).    *)
(***************************************************************************)
EXTENDS FountainSink, FrameAlignerProofs, FiniteSetTheorems, SequenceTheorems

IndInv == SinkInv /\ SavedOnce /\ GoodputExact

-----------------------------------------------------------------------------
(* Transfers, chunks and streams.                                          *)

LEMMA SlotTyped ==
    ASSUME NEW f \in Transfers
    PROVE  SlotOf(f) \in Slots /\ Size[f] \in Nat \ {0}
    BY SinkShape DEF SlotOf, Slots

\* What a thread reads of a delivered chunk.
LEMMA CarriedChunk ==
    ASSUME NEW f \in Transfers, NEW k \in 1 .. Frames, NEW c \in 1 .. FrameChunks
    PROVE  /\ Carried(f, k, ChunkAt(c)) \in Chunks
           /\ Carried(f, k, ChunkAt(c)).whole
<1>1. HeaderOf(ChunkAt(c)) = c
    BY HeaderOfChunk
<1>2. /\ Frames \in Nat /\ FrameChunks \in Nat /\ k \in Nat /\ c \in Nat /\ k >= 1 /\ c >= 1
      /\ k <= Frames /\ c <= FrameChunks
    BY SinkShape, FrameShape
<1>3. (k - 1) * FrameChunks + c - 1 \in BlockIds
  <2>1. (k - 1) * FrameChunks \in Nat /\ k * FrameChunks \in Nat
        /\ (k - 1) * FrameChunks + FrameChunks = k * FrameChunks
      BY <1>2
  <2>2. k * FrameChunks <= Frames * FrameChunks /\ Frames * FrameChunks \in Nat
      BY <1>2
  <2> QED
      BY <1>2, <2>1, <2>2 DEF BlockIds
<1> QED
    BY <1>1, <1>3 DEF Carried, Chunks

\* The chunks of a frame, as they come to the sink.
LEMMA DecodedFrame ==
    ASSUME NEW f \in Transfers, NEW k \in 1 .. Frames, NEW d
    PROVE  LET out == DeliveredChunks(d)
               read == [i \in DOMAIN out |-> Carried(f, k, out[i])]
           IN  read \in Seq(Chunks) /\ \A i \in DOMAIN read : read[i].whole
<1> DEFINE out == DeliveredChunks(d)
           read == [i \in DOMAIN out |-> Carried(f, k, out[i])]
<1>1. \A i \in DOMAIN out : \E c \in 1 .. FrameChunks : out[i] = ChunkAt(c)
    BY DeliveredWhole
<1>2. DOMAIN out = 1 .. Len(out) /\ Len(out) \in Nat
    BY DeliveredWhole
<1> HIDE DEF out
<1>3. \A i \in DOMAIN out : read[i] \in Chunks /\ read[i].whole
    BY <1>1, CarriedChunk
<1>4. read \in Seq(Chunks)
    BY <1>2, <1>3
<1> QED
    BY <1>3, <1>4 DEF out

\* The chunk whose turn it is.
LEMMA TurnChunk ==
    ASSUME TypeOK, NEW w \in Workers, pending[w] # <<>>
    PROVE  /\ Head(pending[w]) \in Chunks /\ Head(pending[w]).tx \in Transfers
           /\ Head(pending[w]).id \in BlockIds
           /\ Tail(pending[w]) \in Seq(Chunks)
           /\ \A i \in DOMAIN Tail(pending[w]) :
                 i + 1 \in DOMAIN pending[w] /\ Tail(pending[w])[i] = pending[w][i + 1]
<1>1. pending[w] \in Seq(Chunks)
    BY DEF TypeOK
<1>2. Head(pending[w]) \in Chunks /\ Tail(pending[w]) \in Seq(Chunks)
    BY <1>1
<1>3. /\ Len(pending[w]) \in Nat /\ DOMAIN pending[w] = 1 .. Len(pending[w])
      /\ DOMAIN Tail(pending[w]) = 1 .. Len(pending[w]) - 1
    BY <1>1
<1> QED
    BY <1>1, <1>2, <1>3 DEF Chunks

\* A chunk that is taken goes to a stream of its own transfer, which it leaves
\* with every block once; the other slots stay as they are.
LEMMA FedStream ==
    ASSUME TypeOK, StreamsApart, ToldApart, NEW w \in Workers, Takes(w)
    PROVE  LET c == Head(pending[w])
               s == SlotOf(c.tx)
               st == Fed(c)
           IN  /\ s \in Slots /\ Id(c.tx) \notin done
               /\ st \in [Slots -> Streams \cup {NoStream}]
               /\ \A u \in Slots \ {s} : st[u] = streams[u]
               /\ st[s] # NoStream /\ st[s].size = Size[c.tx]
               /\ \A b \in st[s].got : b.tx = c.tx
               /\ \A a, b \in st[s].got : a.id = b.id => a = b
               /\ \E b \in st[s].got : b.tx = c.tx /\ b.id = c.id
               /\ streams[s] # NoStream => streams[s].got \subseteq st[s].got
               /\ ~Seen(c) => (streams[s] # NoStream => \A b \in streams[s].got : b.id # c.id)
               /\ Seen(c) => streams[s] # NoStream /\ st[s].got = streams[s].got
                             /\ \E b \in streams[s].got : b.tx = c.tx /\ b.id = c.id
<1> DEFINE c == Head(pending[w])
           s == SlotOf(c.tx)
           old == StreamFor(c.tx)
<1>1. /\ c \in Chunks /\ c.tx \in Transfers /\ c.id \in BlockIds
      /\ Id(c.tx) \notin done /\ ~Refused(c.tx)
    BY TurnChunk DEF Takes, Turn
<1>2. s \in Slots /\ Size[c.tx] \in Nat
    BY <1>1, SlotTyped
<1> HIDE DEF c
<1>3. /\ old \in Streams /\ old.size = Size[c.tx]
      /\ \A b \in old.got : b.tx = c.tx
      /\ \A a, b \in old.got : a.id = b.id => a = b
      /\ streams[s] # NoStream => old = streams[s]
      /\ streams[s] = NoStream => old.got = {}
  <2>1. CASE streams[s] = NoStream
      BY <1>2, <2>1 DEF StreamFor, Streams
  <2>2. CASE streams[s] # NoStream
    <3>1. streams[s] \in Streams /\ streams[s].size = Size[c.tx]
        BY <1>1, <1>2, <2>2 DEF TypeOK, Refused
    <3>2. PICK f \in Transfers : /\ SlotOf(f) = s /\ Size[f] = streams[s].size
                                 /\ \A b \in streams[s].got : b.tx = f
        BY <1>2, <2>2 DEF StreamsApart
    <3>3. f = c.tx
        BY <1>1, <3>1, <3>2 DEF ToldApart
    <3>4. \A a, b \in streams[s].got : a.id = b.id => a = b
        BY <1>2, <2>2 DEF StreamsApart
    <3>5. old = streams[s]
        BY <2>2 DEF StreamFor
    <3> QED
        BY <2>2, <3>1, <3>2, <3>3, <3>4, <3>5
  <2> QED
      BY <2>1, <2>2
<1> DEFINE new == [old EXCEPT !.got = IF Seen(c) THEN @ ELSE @ \cup {c}]
<1>4. Seen(c) <=> \E b \in old.got : b.id = c.id
    BY DEF Seen
<1>5. Fed(c) = [streams EXCEPT ![s] = new]
    BY DEF Fed
<1> HIDE DEF old, s
<1>6. /\ new \in Streams /\ new.size = Size[c.tx]
      /\ new.got = IF Seen(c) THEN old.got ELSE old.got \cup {c}
    BY <1>1, <1>3 DEF Streams
<1> HIDE DEF new
<1>7. Fed(c) \in [Slots -> Streams \cup {NoStream}] /\ Fed(c)[s] = new /\ new # NoStream
      /\ \A u \in Slots \ {s} : Fed(c)[u] = streams[u]
    BY <1>2, <1>5, <1>6, SinkShape DEF TypeOK
<1>8. /\ \A b \in new.got : b.tx = c.tx
      /\ \E b \in new.got : b.tx = c.tx /\ b.id = c.id
      /\ old.got \subseteq new.got
    BY <1>1, <1>3, <1>4, <1>6
<1>9. \A a, b \in new.got : a.id = b.id => a = b
    BY <1>3, <1>4, <1>6
<1> QED
    BY <1>1, <1>2, <1>3, <1>4, <1>6, <1>7, <1>8, <1>9 DEF s, c

-----------------------------------------------------------------------------
(* The counters of the status.                                             *)

\* Publishing the totals changes the goodput by what was added, and no count
\* of files.
LEMMA TotalsCount ==
    ASSUME TypeOK, NEW st, NEW n \in 0 .. 1
    PROVE  /\ DOMAIN Totals(st, n) = DOMAIN NewStatus
           /\ Totals(st, n).uniqueBlocks = status.uniqueBlocks + n
           /\ Totals(st, n).uniqueBlocks \in Nat
           /\ Totals(st, n).completed = status.completed
           /\ Totals(st, n).errors = status.errors
           /\ Totals(st, n).finishing = status.finishing
<1>1. DOMAIN status = DOMAIN NewStatus /\ status.uniqueBlocks \in Nat
    BY DEF TypeOK
<1>2. {"uniqueBlocks", "completed", "errors", "finishing"} \subseteq DOMAIN status
    BY <1>1 DEF NewStatus
<1> QED
    BY <1>1, <1>2 DEF Totals

\* A report counts one file, or one error.
LEMMA ReportCounts ==
    ASSUME TypeOK, Report
    PROVE  /\ DOMAIN status' = DOMAIN NewStatus
           /\ status'.uniqueBlocks = status.uniqueBlocks
           /\ status'.completed \in Nat /\ status'.errors \in Nat
           /\ status'.completed + status'.errors = status.completed + status.errors + 1
           /\ status'.finishing = FALSE
<1>1. /\ DOMAIN status = DOMAIN NewStatus /\ status.completed \in Nat /\ status.errors \in Nat
    BY DEF TypeOK
<1>2. {"uniqueBlocks", "completed", "errors", "finishing"} \subseteq DOMAIN status
    BY <1>1 DEF NewStatus
<1>3. CASE store.name = NoName
  <2>1. status' = [status EXCEPT !.finishing = FALSE, !.errors = @ + 1]
      BY <1>3 DEF Report
  <2> QED
      BY <1>1, <1>2, <2>1
<1>4. CASE store.name # NoName
  <2>1. status' = [status EXCEPT !.finishing = FALSE, !.completed = @ + 1]
      BY <1>4 DEF Report
  <2> QED
      BY <1>1, <1>2, <2>1
<1> QED
    BY <1>3, <1>4

\* What the file that is being stored is.
LEMMA StoreTyped ==
    ASSUME TypeOK, store # NoStore
    PROVE  /\ store \in Stores /\ store.tx \in Transfers /\ store.by \in Workers
           /\ store.name \in Names \cup {NoName} /\ SlotOf(store.tx) \in Slots
           /\ \A s \in {"recover", "unpack", "publish", "report", "mark"},
                 n \in Names \cup {NoName} :
                 /\ [store EXCEPT !.stage = s] \in Stores
                 /\ [store EXCEPT !.stage = s, !.name = n] \in Stores
           /\ \A x \in Stores : x # NoStore
<1>1. store \in Stores
    BY DEF TypeOK
<1>2. store.tx \in Transfers
    BY <1>1 DEF Stores
<1> QED
    BY <1>1, <1>2, SlotTyped, SinkShape DEF Stores

\* A store goes on to its next stage.
LEMMA NextStage ==
    ASSUME TypeOK, store # NoStore, NEW s \in {"recover", "unpack", "publish", "report", "mark"},
           GoTo(s)
    PROVE  /\ store' \in Stores /\ store' # NoStore /\ store'.stage = s
           /\ store'.tx = store.tx /\ store'.name = store.name /\ store'.by = store.by
<1>1. store \in Stores
    BY StoreTyped
<1>2. store' = [store EXCEPT !.stage = s]
    BY DEF GoTo
<1>3. store' \in Stores /\ store' # NoStore
    BY <1>2, StoreTyped
<1> QED
    BY <1>1, <1>2, <1>3 DEF Stores

\* The transfer that begins to be stored.
LEMMA NewStore ==
    ASSUME TypeOK, NEW w \in Workers, Turn(w), ChunkSolves(w)
    PROVE  /\ store' \in Stores /\ store' # NoStore /\ store'.stage = "recover"
           /\ store'.tx = Head(pending[w]).tx /\ store'.name = NoName
<1>1. Head(pending[w]).tx \in Transfers
    BY TurnChunk DEF Turn
<1>2. store' = [by |-> w, tx |-> Head(pending[w]).tx, stage |-> "recover", name |-> NoName]
    BY DEF ChunkSolves
<1>3. store' \in Stores
    BY <1>1, <1>2 DEF Stores
<1>4. store' # NoStore
    BY <1>3, SinkShape
<1> QED
    BY <1>2, <1>3, <1>4

-----------------------------------------------------------------------------
(* The initial state, and a new reception.                                 *)

LEMMA NewCounts ==
    /\ NewStatus.finishing = FALSE /\ NewStatus.finishing \in BOOLEAN
    /\ NewStatus.uniqueBlocks \in Nat /\ NewStatus.completed \in Nat /\ NewStatus.errors \in Nat
    /\ NewStatus.uniqueBlocks = 0 /\ NewStatus.completed = 0 /\ NewStatus.errors = 0
    BY DEF NewStatus

LEMMA InitSink == Init => IndInv
<1> SUFFICES ASSUME Init PROVE IndInv
    OBVIOUS
<1> USE DEF Init
<1>1. TypeOK
  <2>1. pending \in [Workers -> Seq(Chunks)] /\ streams \in [Slots -> Streams \cup {NoStream}]
        /\ files \in [Names -> Files \cup {NoFile}]
      OBVIOUS
  <2>2. done = {} /\ IsFiniteSet(done) /\ counted = {} /\ IsFiniteSet(counted)
      BY FS_EmptySet
  <2>3. session \in 1 .. MaxSessions /\ events \in Seq(Names)
      BY SinkShape
  <2>4. status = NewStatus
      OBVIOUS
  <2>5. /\ DOMAIN status = DOMAIN NewStatus /\ status.finishing \in BOOLEAN
        /\ status.uniqueBlocks \in Nat /\ status.completed \in Nat /\ status.errors \in Nat
    <3>1. DOMAIN status = DOMAIN NewStatus
        BY <2>4, Zenon
    <3> QED
        BY <2>4, <3>1, NewCounts, Zenon
  <2>6. /\ store \in Stores \cup {NoStore} /\ done \subseteq {Id(f) : f \in Transfers}
        /\ announced \subseteq Names /\ counted \subseteq Transfers \X BlockIds
      BY <2>2
  <2> QED
      BY <2>1, <2>2, <2>3, <2>5, <2>6, Zenon DEF TypeOK
<1>2. OnlyWholeChunks /\ StreamsApart /\ FilesWhole /\ FilesAnnounced
    BY DEF OnlyWholeChunks, StreamsApart, FilesWhole, FilesAnnounced
<1>3. OutcomesCounted /\ FinishingTrue /\ GoodputExact
    BY NewCounts, FS_EmptySet DEF OutcomesCounted, FinishingTrue, GoodputExact, Storing
<1>4. StoreHeld /\ FilesOfDone /\ CountedKept /\ SavedOnce
    BY DEF StoreHeld, FilesOfDone, CountedKept, SavedOnce
<1> QED
    BY <1>1, <1>2, <1>3, <1>4 DEF IndInv, SinkInv

\* A new reception keeps the files and knows nothing of the ones before.
LEMMA RestartKeeps == IndInv /\ Restart => IndInv'
<1> SUFFICES ASSUME IndInv, Restart PROVE IndInv'
    OBVIOUS
<1>1. TypeOK /\ FilesWhole /\ FilesOfDone /\ SavedOnce
    BY DEF IndInv, SinkInv
<1>2. /\ session' = session + 1 /\ session < MaxSessions /\ session \in Nat /\ MaxSessions \in Nat
      /\ files' = files /\ store' = NoStore /\ status' = NewStatus /\ events' = <<>>
      /\ done' = {} /\ counted' = {} /\ announced' = {}
    BY <1>1, SinkShape DEF Restart, TypeOK
<1>3. pending' = [w \in Workers |-> <<>>] /\ streams' = [s \in Slots |-> NoStream]
    BY DEF Restart
<1>4. TypeOK'
  <2>1. pending' \in [Workers -> Seq(Chunks)] /\ streams' \in [Slots -> Streams \cup {NoStream}]
      BY <1>3
  <2>2. files' \in [Names -> Files \cup {NoFile}]
      BY <1>1, <1>2 DEF TypeOK
  <2>3. IsFiniteSet(done') /\ IsFiniteSet(counted')
      BY <1>2, FS_EmptySet
  <2>4. session' \in 1 .. MaxSessions /\ events' \in Seq(Names)
      BY <1>2
  <2>5. /\ DOMAIN status' = DOMAIN NewStatus /\ status'.finishing \in BOOLEAN
        /\ status'.uniqueBlocks \in Nat /\ status'.completed \in Nat /\ status'.errors \in Nat
    <3>1. status' = NewStatus
        BY <1>2
    <3>2. DOMAIN status' = DOMAIN NewStatus
        BY <3>1, Zenon
    <3> QED
        BY <3>1, <3>2, NewCounts, Zenon
  <2>6. /\ store' \in Stores \cup {NoStore} /\ done' \subseteq {Id(f) : f \in Transfers}
        /\ announced' \subseteq Names /\ counted' \subseteq Transfers \X BlockIds
      BY <1>2
  <2> QED
      BY <2>1, <2>2, <2>3, <2>4, <2>5, <2>6, Zenon DEF TypeOK
<1>5. \A n \in Names : files[n] # NoFile => files[n].session \in Nat /\ files[n].session < session'
  <2>1. \A n \in Names : files[n] # NoFile => files[n] \in Files /\ files[n].session <= session
      BY <1>1 DEF TypeOK, FilesOfDone
  <2> QED
      BY <1>2, <2>1 DEF Files
<1>6. FilesWhole' /\ FilesAnnounced' /\ FilesOfDone' /\ SavedOnce'
    BY <1>1, <1>2, <1>5 DEF FilesWhole, FilesAnnounced, FilesOfDone, SavedOnce
<1>7. OnlyWholeChunks' /\ StreamsApart' /\ StoreHeld' /\ CountedKept'
    BY <1>2, <1>3 DEF OnlyWholeChunks, StreamsApart, StoreHeld, CountedKept
<1>8. OutcomesCounted' /\ FinishingTrue' /\ GoodputExact'
    BY <1>2, NewCounts, FS_EmptySet DEF OutcomesCounted, FinishingTrue, GoodputExact, Storing
<1> QED
    BY <1>4, <1>6, <1>7, <1>8 DEF IndInv, SinkInv

-----------------------------------------------------------------------------
(* The steps within a reception.                                           *)

\* A block that is counted is a new one of the stream, or counted already.
LEMMA CountTyped ==
    ASSUME TypeOK, NEW w \in Workers, Turn(w), Count(Head(pending[w]))
    PROVE  counted' \subseteq Transfers \X BlockIds /\ IsFiniteSet(counted')
<1> DEFINE c == Head(pending[w])
<1>1. c.tx \in Transfers /\ c.id \in BlockIds
    BY TurnChunk DEF Turn
<1>2. counted \subseteq Transfers \X BlockIds /\ IsFiniteSet(counted)
    BY DEF TypeOK
<1> HIDE DEF c
<1>3. counted' = counted \/ counted' = counted \cup {<<c.tx, c.id>>}
    BY DEF Count, c
<1>4. {<<c.tx, c.id>>} \subseteq Transfers \X BlockIds
    BY <1>1
<1>5. IsFiniteSet(counted \cup {<<c.tx, c.id>>})
    BY <1>2, FS_AddElement
<1> QED
    BY <1>2, <1>3, <1>4, <1>5

\* The work on a turn keeps the types.
LEMMA TurnTyped ==
    ASSUME TypeOK, StreamsApart, ToldApart, NEW w \in Workers,
           ChunkIgnored(w) \/ ChunkTaken(w) \/ ChunkSolves(w)
    PROVE  TypeOK'
<1>1. /\ pending' \in [Workers -> Seq(Chunks)]
      /\ UNCHANGED <<done, events, files, announced, session>>
  <2>1. Turn(w) /\ Advance(w)
      BY DEF ChunkIgnored, ChunkTaken, ChunkSolves, Takes
  <2>2. Tail(pending[w]) \in Seq(Chunks)
      BY <2>1, TurnChunk DEF Turn
  <2>3. pending' = [pending EXCEPT ![w] = Tail(pending[w])]
      BY <2>1 DEF Advance
  <2>4. UNCHANGED <<done, events, files, announced, session>>
      BY DEF ChunkIgnored, ChunkTaken, ChunkSolves
  <2> QED
      BY <2>2, <2>3, <2>4 DEF TypeOK
<1>2. CASE ChunkIgnored(w)
  <2>1. status' = Totals(streams, 0) /\ UNCHANGED <<store, streams, counted>>
      BY <1>2 DEF ChunkIgnored
  <2> QED
      BY <1>1, <2>1, TotalsCount DEF TypeOK
<1>3. CASE ChunkTaken(w)
  <2> DEFINE c == Head(pending[w])
  <2>1. Takes(w) /\ Turn(w) /\ Count(c) /\ streams' = Fed(c) /\ store' = store
      BY <1>3 DEF ChunkTaken, Takes
  <2>2. streams' \in [Slots -> Streams \cup {NoStream}]
      BY <2>1, FedStream
  <2>3. counted' \subseteq Transfers \X BlockIds /\ IsFiniteSet(counted')
      BY <2>1, CountTyped
  <2>4. \E n \in 0 .. 1 : status' = Totals(streams', n)
      BY <1>3 DEF ChunkTaken, Added
  <2> QED
      BY <1>1, <2>1, <2>2, <2>3, <2>4, TotalsCount DEF TypeOK
<1>4. CASE ChunkSolves(w)
  <2> DEFINE c == Head(pending[w])
  <2>1. Takes(w) /\ Turn(w) /\ Count(c) /\ streams' = Fed(c) /\ status' = status
      BY <1>4 DEF ChunkSolves, Takes
  <2>2. streams' \in [Slots -> Streams \cup {NoStream}]
      BY <2>1, FedStream
  <2>3. counted' \subseteq Transfers \X BlockIds /\ IsFiniteSet(counted')
      BY <2>1, CountTyped
  <2>4. store' \in Stores
      BY <1>4, <2>1, NewStore
  <2> QED
      BY <1>1, <2>1, <2>2, <2>3, <2>4 DEF TypeOK
<1> QED
    BY <1>2, <1>3, <1>4

\* So does the store of a file.
LEMMA StoreStepTyped ==
    ASSUME TypeOK, StoreHeld,
           RecoverFails \/ BeginStore \/ Unpack \/ Publish \/ Report \/ MarkDone
    PROVE  TypeOK'
<1>1. store # NoStore
    BY DEF RecoverFails, BeginStore, Unpack, Publish, Report, MarkDone, Storing
<1>2. CASE RecoverFails
  <2>1. status' = Totals(streams, 1) /\ store' = NoStore
        /\ UNCHANGED <<pending, streams, done, events, files, announced, counted, session>>
      BY <1>2 DEF RecoverFails
  <2> QED
      BY <2>1, TotalsCount DEF TypeOK
<1>3. CASE BeginStore
  <2>1. /\ status' = [status EXCEPT !.finishing = TRUE] /\ GoTo("unpack")
        /\ UNCHANGED <<pending, streams, done, events, files, announced, counted, session>>
      BY <1>3 DEF BeginStore
  <2>2. {"uniqueBlocks", "completed", "errors", "finishing"} \subseteq DOMAIN status
      BY DEF TypeOK, NewStatus
  <2>3. /\ DOMAIN status' = DOMAIN status /\ status'.finishing = TRUE
        /\ status'.uniqueBlocks = status.uniqueBlocks
        /\ status'.completed = status.completed /\ status'.errors = status.errors
      BY <2>1, <2>2
  <2>4. store' \in Stores
      BY <1>1, <2>1, NextStage
  <2> QED
      BY <2>1, <2>3, <2>4 DEF TypeOK
<1>4. CASE Unpack
  <2>1. store' \in Stores
      BY <1>1, <1>4, NextStage DEF Unpack
  <2> QED
      BY <1>4, <2>1 DEF Unpack, TypeOK
<1>5. CASE Publish
  <2>1. store' \in Stores /\ files' \in [Names -> Files \cup {NoFile}]
    <3>1. CASE GoTo("report") /\ UNCHANGED files
        BY <1>1, <3>1, NextStage DEF TypeOK
    <3>2. ASSUME NEW n \in Names,
                 files' = [files EXCEPT ![n] = [from |-> Contents, session |-> session]],
                 store' = [store EXCEPT !.stage = "report", !.name = n]
          PROVE  store' \in Stores /\ files' \in [Names -> Files \cup {NoFile}]
      <4>1. store' \in Stores
          BY <1>1, <3>2, StoreTyped
      <4>2. Contents \subseteq Transfers
        <5>1. \A b \in streams[SlotOf(store.tx)].got : b.tx \in Transfers
          <6>1. streams[SlotOf(store.tx)] \in Streams
              BY <1>1, StoreTyped DEF TypeOK, StoreHeld
          <6> QED
              BY <6>1 DEF Streams, Chunks
        <5> QED
            BY <5>1 DEF Contents
      <4>3. [from |-> Contents, session |-> session] \in Files
          BY <4>2 DEF TypeOK, Files
      <4> QED
          BY <3>2, <4>1, <4>3 DEF TypeOK
    <3> QED
        BY <1>5, <3>1, <3>2 DEF Publish
  <2> QED
      BY <1>5, <2>1 DEF Publish, TypeOK
<1>6. CASE Report
  <2>1. store' \in Stores
      BY <1>1, <1>6, NextStage DEF Report
  <2>2. events' \in Seq(Names)
    <3>1. events \in Seq(Names)
        BY DEF TypeOK
    <3>2. CASE store.name = NoName
        BY <1>6, <3>1, <3>2 DEF Report
    <3>3. CASE store.name # NoName
      <4>1. store.name \in Names
          BY <1>1, <3>3, StoreTyped
      <4>2. events' = Append(events, store.name)
          BY <1>6, <3>3 DEF Report
      <4> HIDE DEF Names
      <4> QED
          BY <3>1, <4>1, <4>2
    <3> QED
        BY <3>2, <3>3
  <2>3. /\ DOMAIN status' = DOMAIN NewStatus /\ status'.uniqueBlocks = status.uniqueBlocks
        /\ status'.completed \in Nat /\ status'.errors \in Nat /\ status'.finishing = FALSE
      BY <1>6, ReportCounts
  <2> QED
      BY <1>6, <2>1, <2>2, <2>3 DEF Report, TypeOK
<1>7. CASE MarkDone
  <2>1. /\ store' = NoStore /\ status' = Totals(streams', 1) /\ done' = done \cup {Id(store.tx)}
        /\ streams' = [streams EXCEPT ![SlotOf(store.tx)] = NoStream]
        /\ UNCHANGED <<pending, events, files, announced, counted, session>>
      BY <1>7 DEF MarkDone
  <2>2. done' \subseteq {Id(f) : f \in Transfers} /\ IsFiniteSet(done')
    <3>1. store.tx \in Transfers
        BY <1>1, StoreTyped
    <3>2. Id(store.tx) \in {Id(f) : f \in Transfers}
        BY <3>1
    <3>3. IsFiniteSet(done \cup {Id(store.tx)})
        BY FS_AddElement DEF TypeOK
    <3> QED
        BY <2>1, <3>2, <3>3 DEF TypeOK
  <2>3. streams' \in [Slots -> Streams \cup {NoStream}]
      BY <2>1 DEF TypeOK
  <2> QED
      BY <2>1, <2>2, <2>3, TotalsCount DEF TypeOK
<1> QED
    BY <1>2, <1>3, <1>4, <1>5, <1>6, <1>7

\* A frame that is read only fills the queue of its thread.
LEMMA DecodeKeeps == IndInv /\ Decoding => IndInv'
<1> SUFFICES ASSUME IndInv, NEW w \in Workers, NEW f \in Transfers, NEW k \in 1 .. Frames,
                    NEW d \in Damages, DecodeFrame(w, f, k, d)
             PROVE  IndInv'
    BY DEF Decoding
<1> DEFINE out == DeliveredChunks(d)
           read == [i \in DOMAIN out |-> Carried(f, k, out[i])]
<1>1. read \in Seq(Chunks) /\ \A i \in DOMAIN read : read[i].whole
    BY DecodedFrame
<1>2. pending' = [pending EXCEPT ![w] = read]
    BY DEF DecodeFrame
<1>3. UNCHANGED <<store, streams, done, status, events, files, announced, counted, session>>
    BY DEF DecodeFrame
<1> HIDE DEF read
<1>4. TypeOK /\ OnlyWholeChunks
    BY DEF IndInv, SinkInv
<1>5. TypeOK'
    BY <1>1, <1>2, <1>3, <1>4 DEF TypeOK
<1>6. OnlyWholeChunks'
    BY <1>1, <1>2, <1>4 DEF OnlyWholeChunks, TypeOK
<1>7. /\ StreamsApart' /\ FilesWhole' /\ FilesAnnounced' /\ OutcomesCounted' /\ FinishingTrue'
      /\ StoreHeld' /\ FilesOfDone' /\ CountedKept' /\ SavedOnce' /\ GoodputExact'
    BY <1>3 DEF IndInv, SinkInv, StreamsApart, FilesWhole, FilesAnnounced, OutcomesCounted,
                FinishingTrue, StoreHeld, FilesOfDone, CountedKept, SavedOnce, GoodputExact, Storing
<1> QED
    BY <1>5, <1>6, <1>7 DEF IndInv, SinkInv

-----------------------------------------------------------------------------
(* A chunk goes to its stream.                                             *)

\* Every turn takes the first chunk away, with no file being stored.
LEMMA TurnAdvances ==
    ASSUME TypeOK, OnlyWholeChunks, NEW w \in Workers,
           ChunkIgnored(w) \/ ChunkTaken(w) \/ ChunkSolves(w)
    PROVE  /\ Turn(w) /\ store = NoStore /\ OnlyWholeChunks'
           /\ UNCHANGED <<done, events, files, announced, session>>
<1>1. Turn(w) /\ Advance(w) /\ UNCHANGED <<done, events, files, announced, session>>
    BY DEF ChunkIgnored, ChunkTaken, ChunkSolves, Takes
<1>2. pending' = [pending EXCEPT ![w] = Tail(pending[w])]
    BY <1>1 DEF Advance
<1>3. \A i \in DOMAIN Tail(pending[w]) :
         i + 1 \in DOMAIN pending[w] /\ Tail(pending[w])[i] = pending[w][i + 1]
    BY <1>1, TurnChunk DEF Turn
<1>4. \A i \in DOMAIN Tail(pending[w]) : Tail(pending[w])[i].whole
    BY <1>3 DEF OnlyWholeChunks
<1>5. OnlyWholeChunks'
    BY <1>2, <1>4 DEF OnlyWholeChunks, TypeOK
<1> QED
    BY <1>1, <1>5 DEF Turn

\* A chunk that is ignored leaves everything but the totals.
LEMMA IgnoredKeeps ==
    ASSUME IndInv, ToldApart, NEW w \in Workers, ChunkIgnored(w)
    PROVE  IndInv'
<1>1. TypeOK /\ OnlyWholeChunks /\ StreamsApart
    BY DEF IndInv, SinkInv
<1>2. TypeOK' /\ OnlyWholeChunks'
    BY <1>1, TurnTyped, TurnAdvances
<1>3. /\ UNCHANGED <<store, streams, done, events, files, announced, counted, session>>
      /\ status' = Totals(streams, 0)
    BY DEF ChunkIgnored
<1>4. /\ status'.uniqueBlocks = status.uniqueBlocks /\ status'.completed = status.completed
      /\ status'.errors = status.errors /\ status'.finishing = status.finishing
  <2>1. status.uniqueBlocks + 0 = status.uniqueBlocks
      BY <1>1 DEF TypeOK
  <2> QED
      BY <1>1, <1>3, <2>1, TotalsCount
<1>5. /\ StreamsApart' /\ FilesWhole' /\ FilesAnnounced' /\ StoreHeld' /\ FilesOfDone'
      /\ CountedKept' /\ SavedOnce'
    BY <1>3 DEF IndInv, SinkInv, StreamsApart, FilesWhole, FilesAnnounced,
                StoreHeld, FilesOfDone, CountedKept, SavedOnce, Storing
<1>6. OutcomesCounted' /\ FinishingTrue' /\ GoodputExact'
    BY <1>3, <1>4 DEF IndInv, SinkInv, OutcomesCounted, FinishingTrue, GoodputExact, Storing
<1> QED
    BY <1>2, <1>5, <1>6 DEF IndInv, SinkInv

\* A chunk that its stream takes in: no stream is mixed, nothing that was
\* counted is lost, and the chunk counts exactly when its number is new.
LEMMA FedKeeps ==
    ASSUME IndInv, ToldApart, NEW w \in Workers, Takes(w), Count(Head(pending[w])),
           streams' = Fed(Head(pending[w])), done' = done
    PROVE  /\ StreamsApart' /\ CountedKept'
           /\ Cardinality(counted) \in Nat
           /\ Cardinality(counted')
                 = Cardinality(counted) + (IF Seen(Head(pending[w])) THEN 0 ELSE 1)
<1> DEFINE c == Head(pending[w])
           s == SlotOf(c.tx)
<1>1. TypeOK /\ StreamsApart /\ CountedKept
    BY DEF IndInv, SinkInv
<1>2. c.tx \in Transfers /\ c.id \in BlockIds
    BY <1>1, TurnChunk DEF Takes, Turn
<1>3. /\ s \in Slots /\ Id(c.tx) \notin done
      /\ \A u \in Slots \ {s} : streams'[u] = streams[u]
      /\ streams'[s] # NoStream /\ streams'[s].size = Size[c.tx]
      /\ \A b \in streams'[s].got : b.tx = c.tx
      /\ \A a, b \in streams'[s].got : a.id = b.id => a = b
      /\ \E b \in streams'[s].got : b.tx = c.tx /\ b.id = c.id
      /\ streams[s] # NoStream => streams[s].got \subseteq streams'[s].got
    BY <1>1, FedStream
<1>4. /\ ~Seen(c) => (streams[s] # NoStream => \A b \in streams[s].got : b.id # c.id)
      /\ counted' = counted \cup (IF Seen(c) THEN {} ELSE {<<c.tx, c.id>>})
    BY <1>1, FedStream DEF Count
<1> HIDE DEF c
<1>5. StreamsApart'
  <2> SUFFICES ASSUME NEW u \in Slots, streams'[u] # NoStream
               PROVE  /\ \E f \in Transfers : /\ SlotOf(f) = u /\ Size[f] = streams'[u].size
                                              /\ Id(f) \notin done
                                              /\ \A b \in streams'[u].got : b.tx = f
                      /\ \A a, b \in streams'[u].got : a.id = b.id => a = b
      BY DEF StreamsApart
  <2>1. CASE u = s
      BY <1>2, <1>3, <2>1
  <2>2. CASE u # s
      BY <1>1, <1>3, <2>2 DEF StreamsApart
  <2> QED
      BY <2>1, <2>2
<1>6. CountedKept'
  <2> SUFFICES ASSUME NEW p \in counted', Id(p[1]) \notin done
               PROVE  /\ streams'[SlotOf(p[1])] # NoStream
                      /\ \E b \in streams'[SlotOf(p[1])].got : b.tx = p[1] /\ b.id = p[2]
      BY DEF CountedKept
  <2>1. CASE p \in counted
    <3>1. /\ streams[SlotOf(p[1])] # NoStream
          /\ \E b \in streams[SlotOf(p[1])].got : b.tx = p[1] /\ b.id = p[2]
        BY <1>1, <2>1 DEF CountedKept
    <3>2. SlotOf(p[1]) \in Slots
        BY <1>1, <2>1, SlotTyped DEF TypeOK
    <3> QED
        BY <1>3, <3>1, <3>2
  <2>2. CASE p \notin counted
    <3>1. p[1] = c.tx /\ p[2] = c.id
        BY <1>4, <2>2
    <3> QED
        BY <1>3, <3>1
  <2> QED
      BY <2>1, <2>2
<1>7. ~Seen(c) => <<c.tx, c.id>> \notin counted
  <2> SUFFICES ASSUME ~Seen(c), <<c.tx, c.id>> \in counted PROVE FALSE
      OBVIOUS
  <2>1. streams[s] # NoStream /\ \E b \in streams[s].got : b.tx = c.tx /\ b.id = c.id
      BY <1>1, <1>3 DEF CountedKept
  <2> QED
      BY <1>4, <2>1
<1>8. IsFiniteSet(counted) /\ Cardinality(counted) \in Nat
    BY <1>1, FS_CardinalityType DEF TypeOK
<1>9. Cardinality(counted') = Cardinality(counted) + (IF Seen(c) THEN 0 ELSE 1)
  <2>1. CASE Seen(c)
      BY <1>4, <1>8, <2>1
  <2>2. CASE ~Seen(c)
      BY <1>4, <1>7, <1>8, <2>2, FS_AddElement
  <2> QED
      BY <2>1, <2>2
<1> QED
    BY <1>5, <1>6, <1>8, <1>9 DEF c

LEMMA TakenKeeps ==
    ASSUME IndInv, ToldApart, NEW w \in Workers, ChunkTaken(w)
    PROVE  IndInv'
<1> DEFINE c == Head(pending[w])
<1>1. TypeOK /\ OnlyWholeChunks /\ StreamsApart /\ GoodputExact
    BY DEF IndInv, SinkInv
<1>2. /\ TypeOK' /\ OnlyWholeChunks' /\ store = NoStore
      /\ UNCHANGED <<done, events, files, announced, session>>
    BY <1>1, TurnTyped, TurnAdvances
<1>3. /\ Takes(w) /\ Count(c) /\ streams' = Fed(c) /\ store' = store
      /\ status' = Totals(streams', Added(c))
    BY DEF ChunkTaken
<1>4. /\ StreamsApart' /\ CountedKept'
      /\ Cardinality(counted') = Cardinality(counted) + Added(c)
    BY <1>2, <1>3, FedKeeps DEF Added
<1>5. Added(c) \in 0 .. 1
    BY DEF Added
<1> HIDE DEF c
<1>6. /\ status'.uniqueBlocks = status.uniqueBlocks + Added(c)
      /\ status'.completed = status.completed
      /\ status'.errors = status.errors /\ status'.finishing = status.finishing
    BY <1>1, <1>3, <1>5, TotalsCount
<1>7. FilesWhole' /\ FilesAnnounced' /\ StoreHeld' /\ FilesOfDone' /\ SavedOnce'
    BY <1>2, <1>3 DEF IndInv, SinkInv, FilesWhole, FilesAnnounced,
                StoreHeld, FilesOfDone, SavedOnce, Storing
<1>8. OutcomesCounted' /\ FinishingTrue'
    BY <1>2, <1>3, <1>6 DEF IndInv, SinkInv, OutcomesCounted, FinishingTrue, Storing
<1>9. GoodputExact'
  <2>1. status.uniqueBlocks = Cardinality(counted) /\ status.uniqueBlocks \in Nat
      BY <1>1, <1>2 DEF GoodputExact, TypeOK
  <2> QED
      BY <1>2, <1>3, <1>4, <1>5, <1>6, <2>1 DEF GoodputExact
<1> QED
    BY <1>2, <1>4, <1>7, <1>8, <1>9 DEF IndInv, SinkInv

\* The chunk that solves its stream is counted when the store is through.
LEMMA SolvesKeeps ==
    ASSUME IndInv, ToldApart, NEW w \in Workers, ChunkSolves(w)
    PROVE  IndInv'
<1> DEFINE c == Head(pending[w])
<1>1. TypeOK /\ OnlyWholeChunks /\ StreamsApart /\ GoodputExact
    BY DEF IndInv, SinkInv
<1>2. /\ TypeOK' /\ OnlyWholeChunks' /\ store = NoStore
      /\ UNCHANGED <<done, events, files, announced, session>>
    BY <1>1, TurnTyped, TurnAdvances
<1>3. /\ Takes(w) /\ Count(c) /\ streams' = Fed(c) /\ status' = status /\ ~Seen(c)
    BY DEF ChunkSolves, MaySolve
<1>4. /\ StreamsApart' /\ CountedKept'
      /\ Cardinality(counted') = Cardinality(counted) + 1
    BY <1>2, <1>3, FedKeeps
<1>5. store' # NoStore /\ store'.stage = "recover" /\ store'.tx = c.tx /\ store'.name = NoName
    BY <1>1, <1>3, NewStore DEF Takes
<1>6. /\ Id(c.tx) \notin done /\ streams'[SlotOf(c.tx)] # NoStream
      /\ \A b \in streams'[SlotOf(c.tx)].got : b.tx = c.tx
      /\ \E b \in streams'[SlotOf(c.tx)].got : b.tx = c.tx /\ b.id = c.id
    BY <1>1, <1>3, FedStream
<1> HIDE DEF c
<1>7. StoreHeld'
    BY <1>2, <1>5, <1>6 DEF StoreHeld
<1>8. FilesWhole' /\ FilesAnnounced' /\ FilesOfDone' /\ SavedOnce'
    BY <1>2, <1>5 DEF IndInv, SinkInv, FilesWhole, FilesAnnounced, FilesOfDone, SavedOnce, Storing
<1>9. OutcomesCounted' /\ FinishingTrue'
    BY <1>2, <1>3, <1>5 DEF IndInv, SinkInv, OutcomesCounted, FinishingTrue, Storing
<1>10. GoodputExact'
  <2>1. status.uniqueBlocks = Cardinality(counted) /\ status.uniqueBlocks \in Nat
      BY <1>1, <1>2 DEF GoodputExact, TypeOK
  <2> QED
      BY <1>3, <1>4, <1>5, <2>1 DEF GoodputExact
<1> QED
    BY <1>2, <1>4, <1>7, <1>8, <1>9, <1>10 DEF IndInv, SinkInv

-----------------------------------------------------------------------------
(* A file is stored.                                                       *)

\* What the steps within a store leave alone keeps what is said of it.
LEMMA StreamsKept ==
    ASSUME IndInv, UNCHANGED <<pending, streams, done, counted, session>>
    PROVE  OnlyWholeChunks' /\ StreamsApart' /\ CountedKept'
    BY DEF IndInv, SinkInv, OnlyWholeChunks, StreamsApart, CountedKept

LEMMA RecoverFailsKeeps ==
    ASSUME IndInv, RecoverFails
    PROVE  IndInv'
<1>1. TypeOK /\ StoreHeld /\ FilesOfDone
    BY DEF IndInv, SinkInv
<1>2. TypeOK'
    BY <1>1, StoreStepTyped
<1>3. /\ store # NoStore /\ store.stage = "recover" /\ store' = NoStore
      /\ status' = Totals(streams, 1)
      /\ UNCHANGED <<pending, streams, done, events, files, announced, counted, session>>
    BY DEF RecoverFails, Storing
<1>4. /\ status'.uniqueBlocks = status.uniqueBlocks + 1 /\ status'.completed = status.completed
      /\ status'.errors = status.errors /\ status'.finishing = status.finishing
    BY <1>1, <1>3, TotalsCount
<1>5. OnlyWholeChunks' /\ StreamsApart' /\ CountedKept'
    BY <1>3, StreamsKept
<1>6. StoreHeld' /\ FilesWhole' /\ FilesAnnounced' /\ SavedOnce'
    BY <1>3 DEF IndInv, SinkInv, StoreHeld, FilesWhole, FilesAnnounced, SavedOnce, Storing
<1>7. FilesOfDone'
  <2>1. \A n \in Names : store.name # n
      BY <1>1, <1>3, SinkShape DEF StoreHeld
  <2> QED
      BY <1>1, <1>3, <2>1 DEF FilesOfDone
<1>8. OutcomesCounted' /\ FinishingTrue'
    BY <1>3, <1>4 DEF IndInv, SinkInv, OutcomesCounted, FinishingTrue, Storing
<1>9. GoodputExact'
    BY <1>1, <1>3, <1>4 DEF IndInv, GoodputExact, TypeOK
<1> QED
    BY <1>2, <1>5, <1>6, <1>7, <1>8, <1>9 DEF IndInv, SinkInv

LEMMA BeginStoreKeeps ==
    ASSUME IndInv, BeginStore
    PROVE  IndInv'
<1>1. TypeOK /\ StoreHeld /\ FilesOfDone
    BY DEF IndInv, SinkInv
<1>2. TypeOK'
    BY <1>1, StoreStepTyped
<1>3. /\ store # NoStore /\ store.stage = "recover" /\ GoTo("unpack")
      /\ status' = [status EXCEPT !.finishing = TRUE]
      /\ UNCHANGED <<pending, streams, done, events, files, announced, counted, session>>
    BY DEF BeginStore, Storing
<1>4. /\ status'.uniqueBlocks = status.uniqueBlocks /\ status'.completed = status.completed
      /\ status'.errors = status.errors /\ status'.finishing = TRUE
  <2>1. {"uniqueBlocks", "completed", "errors", "finishing"} \subseteq DOMAIN status
      BY <1>1 DEF TypeOK, NewStatus
  <2> QED
      BY <1>3, <2>1
<1>5. /\ store' # NoStore /\ store'.stage = "unpack"
      /\ store'.tx = store.tx /\ store'.name = store.name
    BY <1>1, <1>3, NextStage
<1>6. OnlyWholeChunks' /\ StreamsApart' /\ CountedKept'
    BY <1>3, StreamsKept
<1>7. StoreHeld' /\ FilesOfDone'
    BY <1>1, <1>3, <1>5 DEF StoreHeld, FilesOfDone
<1>8. FilesWhole' /\ FilesAnnounced' /\ SavedOnce'
    BY <1>3, <1>5 DEF IndInv, SinkInv, FilesWhole, FilesAnnounced, SavedOnce, Storing
<1>9. OutcomesCounted' /\ FinishingTrue' /\ GoodputExact'
    BY <1>3, <1>4, <1>5 DEF IndInv, SinkInv, OutcomesCounted, FinishingTrue, GoodputExact, Storing
<1> QED
    BY <1>2, <1>6, <1>7, <1>8, <1>9 DEF IndInv, SinkInv

LEMMA UnpackKeeps ==
    ASSUME IndInv, Unpack
    PROVE  IndInv'
<1>1. TypeOK /\ StoreHeld /\ FilesOfDone
    BY DEF IndInv, SinkInv
<1>2. TypeOK'
    BY <1>1, StoreStepTyped
<1>3. /\ store # NoStore /\ store.stage = "unpack"
      /\ UNCHANGED <<pending, streams, done, status, events, files, announced, counted, session>>
    BY DEF Unpack, Storing
<1>4. /\ store' # NoStore /\ store'.stage \in {"publish", "report"}
      /\ store'.tx = store.tx /\ store'.name = store.name
    BY <1>1, <1>3, NextStage DEF Unpack
<1>5. OnlyWholeChunks' /\ StreamsApart' /\ CountedKept'
    BY <1>3, StreamsKept
<1>6. StoreHeld' /\ FilesOfDone'
    BY <1>1, <1>3, <1>4 DEF StoreHeld, FilesOfDone
<1>7. FilesWhole' /\ FilesAnnounced' /\ SavedOnce'
    BY <1>3, <1>4 DEF IndInv, SinkInv, FilesWhole, FilesAnnounced, SavedOnce, Storing
<1>8. OutcomesCounted' /\ FinishingTrue' /\ GoodputExact'
    BY <1>3, <1>4 DEF IndInv, SinkInv, OutcomesCounted, FinishingTrue, GoodputExact, Storing
<1> QED
    BY <1>2, <1>5, <1>6, <1>7, <1>8 DEF IndInv, SinkInv

\* The file that is published is of the transfer that is stored, which is not
\* done: no file of the reception is of it yet.
LEMMA PublishKeeps ==
    ASSUME IndInv, Publish
    PROVE  IndInv'
<1>1. /\ TypeOK /\ StoreHeld /\ FilesOfDone /\ FilesWhole /\ FilesAnnounced /\ SavedOnce
      /\ OutcomesCounted /\ FinishingTrue /\ GoodputExact
    BY DEF IndInv, SinkInv
<1>2. TypeOK'
    BY <1>1, StoreStepTyped
<1>3. /\ store # NoStore /\ store.stage = "publish"
      /\ UNCHANGED <<pending, streams, done, status, events, announced, counted, session>>
    BY DEF Publish, Storing
<1>4. OnlyWholeChunks' /\ StreamsApart' /\ CountedKept'
    BY <1>3, StreamsKept
<1>5. /\ store.name = NoName /\ Id(store.tx) \notin done
      /\ \A n \in Names : store.name # n
    BY <1>1, <1>3, SinkShape DEF StoreHeld
<1>6. store' # NoStore /\ store'.stage = "report" /\ store'.tx = store.tx
  <2>1. CASE GoTo("report")
      BY <1>1, <1>3, <2>1, NextStage
  <2>2. ASSUME NEW n \in Names, store' = [store EXCEPT !.stage = "report", !.name = n]
        PROVE  store' # NoStore /\ store'.stage = "report" /\ store'.tx = store.tx
    <3>1. store' # NoStore
        BY <1>1, <1>3, <2>2, StoreTyped
    <3>2. store \in Stores
        BY <1>1, <1>3, StoreTyped
    <3> QED
        BY <2>2, <3>1, <3>2 DEF Stores
  <2> QED
      BY <2>1, <2>2 DEF Publish
<1>7. StoreHeld' /\ OutcomesCounted' /\ FinishingTrue' /\ GoodputExact'
    BY <1>1, <1>3, <1>6 DEF StoreHeld, OutcomesCounted, FinishingTrue, GoodputExact, Storing
<1>8. FilesWhole' /\ FilesAnnounced' /\ FilesOfDone' /\ SavedOnce'
  <2>1. CASE UNCHANGED files
      BY <1>1, <1>3, <1>5, <2>1
         DEF FilesWhole, FilesAnnounced, FilesOfDone, SavedOnce, Storing
  <2>2. ASSUME NEW n \in Names, files[n] = NoFile,
               files' = [files EXCEPT ![n] = [from |-> Contents, session |-> session]],
               store' = [store EXCEPT !.stage = "report", !.name = n]
        PROVE  FilesWhole' /\ FilesAnnounced' /\ FilesOfDone' /\ SavedOnce'
    <3>1. Contents = {store.tx}
        BY <1>1, <1>3 DEF Contents, StoreHeld
    <3>2. /\ files'[n].from = {store.tx} /\ files'[n].session = session
          /\ \A m \in Names \ {n} : files'[m] = files[m]
        BY <1>1, <2>2, <3>1 DEF TypeOK
    <3>3. store'.name = n
      <4>1. store \in Stores
          BY <1>1, <1>3, StoreTyped
      <4> QED
          BY <2>2, <4>1 DEF Stores
    <3>4. FilesWhole'
      <4>1. Cardinality({store.tx}) = 1
          BY FS_Singleton
      <4> QED
          BY <1>1, <3>2, <4>1 DEF FilesWhole
    <3>5. FilesAnnounced'
        BY <1>1, <1>3, <1>6, <3>2, <3>3 DEF FilesAnnounced, Storing
    <3>6. FilesOfDone'
      <4>1. session <= session
          BY <1>1 DEF TypeOK
      <4>2. \A f \in files'[n].from : store' # NoStore /\ store'.tx = f /\ store'.name = n
          BY <1>6, <3>2, <3>3
      <4>3. \A m \in Names \ {n} : files[m] # NoFile =>
               /\ files[m].session <= session
               /\ files[m].session = session => \A f \in files[m].from : Id(f) \in done
          BY <1>1, <1>5 DEF FilesOfDone
      <4> QED
          BY <1>3, <3>2, <4>1, <4>2, <4>3 DEF FilesOfDone
    <3>7. \A m \in Names \ {n} :
             files[m] # NoFile => ~(files[m].from = {store.tx} /\ files[m].session = session)
        BY <1>1, <1>5 DEF FilesOfDone
    <3>8. SavedOnce'
        BY <1>1, <3>2, <3>7 DEF SavedOnce
    <3> QED
        BY <3>4, <3>5, <3>6, <3>8
  <2> QED
      BY <2>1, <2>2 DEF Publish
<1> QED
    BY <1>2, <1>4, <1>7, <1>8 DEF IndInv, SinkInv

LEMMA ReportKeeps ==
    ASSUME IndInv, Report
    PROVE  IndInv'
<1>1. /\ TypeOK /\ StoreHeld /\ FilesOfDone /\ FilesWhole /\ FilesAnnounced /\ SavedOnce
      /\ OutcomesCounted /\ FinishingTrue /\ GoodputExact
    BY DEF IndInv, SinkInv
<1>2. TypeOK'
    BY <1>1, StoreStepTyped
<1>3. /\ store # NoStore /\ store.stage = "report" /\ GoTo("mark")
      /\ UNCHANGED <<pending, streams, done, files, announced, counted, session>>
    BY DEF Report, Storing
<1>4. OnlyWholeChunks' /\ StreamsApart' /\ CountedKept'
    BY <1>3, StreamsKept
<1>5. /\ store' # NoStore /\ store'.stage = "mark"
      /\ store'.tx = store.tx /\ store'.name = store.name
    BY <1>1, <1>3, NextStage
<1>6. /\ status'.uniqueBlocks = status.uniqueBlocks
      /\ status'.completed + status'.errors = status.completed + status.errors + 1
      /\ status'.finishing = FALSE
    BY <1>1, ReportCounts
<1>7. StoreHeld' /\ FilesOfDone' /\ FilesWhole' /\ SavedOnce'
    BY <1>1, <1>3, <1>5 DEF StoreHeld, FilesOfDone, FilesWhole, SavedOnce
<1>8. FinishingTrue' /\ GoodputExact'
    BY <1>1, <1>3, <1>5, <1>6 DEF FinishingTrue, GoodputExact, Storing
<1>9. OutcomesCounted'
  <2>1. status.completed + status.errors = Cardinality(done)
    <3>1. status.completed \in Nat /\ status.errors \in Nat /\ Cardinality(done) \in Nat
        BY <1>1, FS_CardinalityType DEF TypeOK
    <3> QED
        BY <1>1, <1>3, <3>1 DEF OutcomesCounted, Storing
  <2> QED
      BY <1>3, <1>5, <1>6, <2>1 DEF OutcomesCounted, Storing
<1>10. FilesAnnounced'
  <2>1. /\ {events[i] : i \in DOMAIN events} \subseteq {events'[i] : i \in DOMAIN events'}
        /\ \A n \in Names : store.name = n => n \in {events'[i] : i \in DOMAIN events'}
    <3>1. events \in Seq(Names)
        BY <1>1 DEF TypeOK
    <3>2. CASE store.name = NoName
      <4>1. events' = events
          BY <3>2 DEF Report
      <4> QED
          BY <3>2, <4>1, SinkShape
    <3>3. CASE store.name # NoName
      <4>1. events' = Append(events, store.name)
          BY <3>3 DEF Report
      <4>2. /\ Len(events) \in Nat /\ DOMAIN events = 1 .. Len(events)
            /\ DOMAIN events' = 1 .. Len(events) + 1 /\ events'[Len(events) + 1] = store.name
            /\ \A i \in 1 .. Len(events) : events'[i] = events[i]
          BY <3>1, <4>1
      <4> QED
          BY <4>2
    <3> QED
        BY <3>2, <3>3
  <2> QED
      BY <1>1, <1>3, <2>1 DEF FilesAnnounced, Storing
<1> QED
    BY <1>2, <1>4, <1>7, <1>8, <1>9, <1>10 DEF IndInv, SinkInv

\* The transfer that is done loses its stream; the other slots hold transfers
\* with other slots, which stay undone.
LEMMA MarkDoneKeeps ==
    ASSUME IndInv, MarkDone
    PROVE  IndInv'
<1> DEFINE s == SlotOf(store.tx)
<1>1. /\ TypeOK /\ StoreHeld /\ FilesOfDone /\ FilesWhole /\ FilesAnnounced /\ SavedOnce
      /\ OutcomesCounted /\ FinishingTrue /\ GoodputExact /\ StreamsApart /\ CountedKept
      /\ OnlyWholeChunks
    BY DEF IndInv, SinkInv
<1>2. TypeOK'
    BY <1>1, StoreStepTyped
<1>3. /\ store # NoStore /\ store.stage = "mark" /\ store' = NoStore
      /\ done' = done \cup {Id(store.tx)} /\ status' = Totals(streams', 1)
      /\ streams' = [streams EXCEPT ![s] = NoStream]
      /\ UNCHANGED <<pending, events, files, announced, counted, session>>
    BY DEF MarkDone, Storing
<1>4. /\ s \in Slots /\ streams'[s] = NoStream /\ \A u \in Slots \ {s} : streams'[u] = streams[u]
      /\ store.tx \in Transfers /\ Id(store.tx) \notin done
      /\ \A b \in streams[s].got : b.tx = store.tx
    BY <1>1, <1>3, StoreTyped DEF StoreHeld, TypeOK
<1>5. /\ status'.uniqueBlocks = status.uniqueBlocks + 1 /\ status'.completed = status.completed
      /\ status'.errors = status.errors /\ status'.finishing = status.finishing
    BY <1>1, <1>3, TotalsCount
<1>6. OnlyWholeChunks' /\ StoreHeld' /\ FilesWhole' /\ SavedOnce' /\ FilesAnnounced'
    BY <1>1, <1>3 DEF OnlyWholeChunks, StoreHeld, FilesWhole, SavedOnce, FilesAnnounced, Storing
<1>7. FilesOfDone'
    BY <1>1, <1>3 DEF FilesOfDone
<1>8. FinishingTrue'
    BY <1>1, <1>3, <1>5 DEF FinishingTrue, Storing
<1>9. GoodputExact'
  <2>1. status.uniqueBlocks \in Nat
      BY <1>1 DEF TypeOK
  <2> QED
      BY <1>1, <1>3, <1>5, <2>1 DEF GoodputExact
<1>10. OutcomesCounted'
  <2>1. Cardinality(done') = Cardinality(done) + 1
    <3>1. IsFiniteSet(done)
        BY <1>1 DEF TypeOK
    <3> QED
        BY <1>3, <1>4, <3>1, FS_AddElement
  <2>2. Cardinality(done') \in Nat
      BY <1>2, FS_CardinalityType DEF TypeOK
  <2> QED
      BY <1>1, <1>3, <1>5, <2>1, <2>2 DEF OutcomesCounted, Storing
<1>11. StreamsApart'
  <2> SUFFICES ASSUME NEW u \in Slots, streams'[u] # NoStream
               PROVE  /\ \E f \in Transfers : /\ SlotOf(f) = u /\ Size[f] = streams'[u].size
                                              /\ Id(f) \notin done'
                                              /\ \A b \in streams'[u].got : b.tx = f
                      /\ \A a, b \in streams'[u].got : a.id = b.id => a = b
      BY DEF StreamsApart
  <2>1. u # s /\ streams'[u] = streams[u]
      BY <1>4
  <2>2. PICK f \in Transfers : /\ SlotOf(f) = u /\ Size[f] = streams[u].size
                               /\ Id(f) \notin done
                               /\ \A b \in streams[u].got : b.tx = f
      BY <1>1, <2>1 DEF StreamsApart
  <2>3. Id(f) # Id(store.tx)
      BY <2>1, <2>2 DEF Id, SlotOf
  <2> QED
      BY <1>1, <1>3, <2>1, <2>2, <2>3 DEF StreamsApart
<1>12. CountedKept'
  <2> SUFFICES ASSUME NEW p \in counted, Id(p[1]) \notin done'
               PROVE  /\ streams'[SlotOf(p[1])] # NoStream
                      /\ \E b \in streams'[SlotOf(p[1])].got : b.tx = p[1] /\ b.id = p[2]
      BY <1>3 DEF CountedKept
  <2>1. /\ streams[SlotOf(p[1])] # NoStream
        /\ \E b \in streams[SlotOf(p[1])].got : b.tx = p[1] /\ b.id = p[2]
      BY <1>1, <1>3 DEF CountedKept
  <2>2. SlotOf(p[1]) \in Slots
      BY <1>1, SlotTyped DEF TypeOK
  <2>3. SlotOf(p[1]) # s
      BY <1>3, <1>4, <2>1
  <2> QED
      BY <1>4, <2>1, <2>2, <2>3
<1> QED
    BY <1>2, <1>6, <1>7, <1>8, <1>9, <1>10, <1>11, <1>12 DEF IndInv, SinkInv

-----------------------------------------------------------------------------
(* The user interface.                                                     *)

\* An event that is taken from the queue is announced.
LEMMA PollKeeps ==
    ASSUME IndInv, Poll
    PROVE  IndInv'
<1>1. TypeOK /\ FilesAnnounced
    BY DEF IndInv, SinkInv
<1>2. /\ events # <<>> /\ events' = Tail(events) /\ announced' = announced \cup {Head(events)}
      /\ UNCHANGED <<pending, store, streams, done, status, files, counted, session>>
    BY DEF Poll
<1>3. events \in Seq(Names)
    BY <1>1 DEF TypeOK
<1>4. /\ Head(events) \in Names /\ events' \in Seq(Names)
      /\ announced \cup {events[i] : i \in DOMAIN events}
            \subseteq announced' \cup {events'[i] : i \in DOMAIN events'}
  <2> HIDE DEF Names
  <2>1. /\ Len(events) \in Nat /\ Len(events) # 0 /\ DOMAIN events = 1 .. Len(events)
        /\ Head(events) = events[1] /\ DOMAIN events' = 1 .. Len(events) - 1
        /\ \A i \in 1 .. Len(events) - 1 : events'[i] = events[i + 1]
        /\ Head(events) \in Names /\ events' \in Seq(Names)
      BY <1>2, <1>3
  <2>2. \A i \in 1 .. Len(events) :
           events[i] \in announced' \cup {events'[j] : j \in DOMAIN events'}
    <3>1. TAKE i \in 1 .. Len(events)
    <3>2. CASE i = 1
        BY <1>2, <2>1, <3>2
    <3>3. CASE i # 1
      <4>1. i - 1 \in DOMAIN events' /\ events'[i - 1] = events[i]
          BY <2>1, <3>3
      <4> QED
          BY <4>1
    <3> QED
        BY <3>2, <3>3
  <2> QED
      BY <1>2, <2>1, <2>2
<1>5. TypeOK'
    BY <1>1, <1>2, <1>4 DEF TypeOK
<1>6. FilesAnnounced'
    BY <1>1, <1>2, <1>4 DEF FilesAnnounced, Storing
<1>7. /\ OnlyWholeChunks' /\ StreamsApart' /\ FilesWhole' /\ OutcomesCounted' /\ FinishingTrue'
      /\ StoreHeld' /\ FilesOfDone' /\ CountedKept' /\ SavedOnce' /\ GoodputExact'
    BY <1>2 DEF IndInv, SinkInv, OnlyWholeChunks, StreamsApart, FilesWhole, OutcomesCounted,
                FinishingTrue, StoreHeld, FilesOfDone, CountedKept, SavedOnce, GoodputExact, Storing
<1> QED
    BY <1>5, <1>6, <1>7 DEF IndInv, SinkInv

\* A file that is deleted is missed by nothing.
LEMMA DeleteKeeps ==
    ASSUME IndInv, NEW n \in Names, Delete(n)
    PROVE  IndInv'
<1>1. TypeOK /\ FilesAnnounced /\ FilesWhole /\ FilesOfDone /\ SavedOnce
    BY DEF IndInv, SinkInv
<1>2. /\ files' = [files EXCEPT ![n] = NoFile]
      /\ UNCHANGED <<pending, store, streams, done, status, events, announced, counted, session>>
    BY DEF Delete
<1>3. files' \in [Names -> Files \cup {NoFile}] /\ files'[n] = NoFile
      /\ \A m \in Names \ {n} : files'[m] = files[m]
    BY <1>1, <1>2 DEF TypeOK
<1>4. TypeOK'
    BY <1>1, <1>2, <1>3 DEF TypeOK
<1>5. FilesAnnounced' /\ FilesWhole' /\ FilesOfDone' /\ SavedOnce'
    BY <1>1, <1>2, <1>3 DEF FilesAnnounced, FilesWhole, FilesOfDone, SavedOnce, Storing
<1>6. /\ OnlyWholeChunks' /\ StreamsApart' /\ OutcomesCounted' /\ FinishingTrue'
      /\ StoreHeld' /\ CountedKept' /\ GoodputExact'
    BY <1>2 DEF IndInv, SinkInv, OnlyWholeChunks, StreamsApart, OutcomesCounted,
                FinishingTrue, StoreHeld, CountedKept, GoodputExact, Storing
<1> QED
    BY <1>4, <1>5, <1>6 DEF IndInv, SinkInv

-----------------------------------------------------------------------------
(* The theorems.                                                           *)

LEMMA StepKeeps ==
    ASSUME ToldApart, IndInv, [Next]_vars
    PROVE  IndInv'
<1>1. CASE Decoding
    BY <1>1, DecodeKeeps
<1>2. CASE Writing
  <2>1. ASSUME NEW w \in Workers, ChunkIgnored(w) \/ ChunkTaken(w) \/ ChunkSolves(w)
        PROVE  IndInv'
      BY <2>1, IgnoredKeeps, TakenKeeps, SolvesKeeps
  <2> QED
      BY <1>2, <2>1, RecoverFailsKeeps, BeginStoreKeeps, UnpackKeeps, PublishKeeps, ReportKeeps,
         MarkDoneKeeps DEF Writing
<1>3. CASE Using
  <2>1. CASE Reset \/ Crash
      BY <2>1, RestartKeeps DEF Reset, Crash
  <2> QED
      BY <1>3, <2>1, PollKeeps, DeleteKeeps DEF Using
<1>4. CASE UNCHANGED vars
    BY <1>4 DEF vars, IndInv, SinkInv, TypeOK, OnlyWholeChunks, StreamsApart, FilesWhole,
                FilesAnnounced, OutcomesCounted, FinishingTrue, StoreHeld, FilesOfDone,
                CountedKept, SavedOnce, GoodputExact, Storing
<1> QED
    BY <1>1, <1>2, <1>3, <1>4 DEF Next

THEOREM IndInvHolds ==
    ASSUME ToldApart PROVE Spec => []IndInv
<1>1. IndInv /\ [Next]_vars => IndInv'
    BY StepKeeps
<1> QED
    BY <1>1, InitSink, PTL DEF Spec

\* The sink keeps the transfers apart, counts every outcome and announces every
\* file, for any number of threads whose turns fall in any order, and through
\* resets and crashes.
THEOREM SinkInvHolds ==
    ASSUME ToldApart PROVE Spec => []SinkInv
    BY IndInvHolds, PTL DEF IndInv

\* In one reception a transfer is published under one name at most.
THEOREM SavedOnceHolds ==
    ASSUME ToldApart PROVE Spec => []SavedOnce
    BY IndInvHolds, PTL DEF IndInv

\* The goodput is the number of different blocks that came in.
THEOREM GoodputExactHolds ==
    ASSUME ToldApart PROVE Spec => []GoodputExact
    BY IndInvHolds, PTL DEF IndInv

\* What a step does to the published files, in every state where they are
\* listed by name.
LEMMA FilesStep ==
    ASSUME DOMAIN files = Names, [Next]_vars
    PROVE  /\ DOMAIN files' = Names
           /\ \A n \in Names : files[n] # NoFile => files'[n] \in {files[n], NoFile}
<1>1. CASE UNCHANGED files
    BY <1>1
<1>2. CASE Publish
  <2>1. CASE UNCHANGED files
      BY <2>1
  <2>2. ASSUME NEW n \in Names, files[n] = NoFile,
               files' = [files EXCEPT ![n] = [from |-> Contents, session |-> session]]
        PROVE  /\ DOMAIN files' = Names
               /\ \A m \in Names : files[m] # NoFile => files'[m] \in {files[m], NoFile}
      BY <2>2
  <2> QED
      BY <1>2, <2>1, <2>2 DEF Publish
<1>3. ASSUME NEW n \in Names, Delete(n)
      PROVE  /\ DOMAIN files' = Names
             /\ \A m \in Names : files[m] # NoFile => files'[m] \in {files[m], NoFile}
    BY <1>3 DEF Delete
<1>4. CASE Decoding
    BY <1>1, <1>4 DEF Decoding, DecodeFrame
<1>5. ASSUME NEW w \in Workers, ChunkIgnored(w) \/ ChunkTaken(w) \/ ChunkSolves(w)
      PROVE  UNCHANGED files
    BY <1>5 DEF ChunkIgnored, ChunkTaken, ChunkSolves
<1>6. CASE RecoverFails \/ BeginStore \/ Unpack \/ Report \/ MarkDone
    BY <1>1, <1>6 DEF RecoverFails, BeginStore, Unpack, Report, MarkDone
<1>7. CASE Poll \/ Reset \/ Crash
    BY <1>1, <1>7 DEF Poll, Reset, Crash, Restart
<1>8. CASE UNCHANGED vars
    BY <1>1, <1>8 DEF vars
<1> QED
    BY <1>1, <1>2, <1>3, <1>4, <1>5, <1>6, <1>7, <1>8 DEF Next, Writing, Using

\* No step of the receiver puts a file in the place of another one or takes one
\* away but for the user, whatever the headers tell apart.
THEOREM FilesKeptHolds == Spec => FilesKept
<1>1. Init => DOMAIN files = Names
    BY DEF Init
<1>2. DOMAIN files = Names /\ [Next]_vars =>
         /\ (DOMAIN files = Names)'
         /\ [\A n \in Names : files[n] # NoFile => files'[n] \in {files[n], NoFile}]_vars
    BY FilesStep
<1> QED
    BY <1>1, <1>2, PTL DEF Spec, FilesKept

\* Nothing but whole chunks of a frame ever waits for the sink, whatever blocks
\* the frames lose and whether or not the headers tell the transfers apart.
THEOREM WholeChunksHold == Spec => []OnlyWholeChunks
<1> DEFINE Whole == pending \in [Workers -> Seq(Chunks)] /\ OnlyWholeChunks
<1>1. Init => Whole
    BY DEF Init, OnlyWholeChunks
<1>2. Whole /\ [Next]_vars => Whole'
  <2> SUFFICES ASSUME Whole, [Next]_vars PROVE Whole'
      OBVIOUS
  <2>1. ASSUME NEW w \in Workers, NEW q \in Seq(Chunks), \A i \in DOMAIN q : q[i].whole,
               pending' = [pending EXCEPT ![w] = q]
        PROVE  Whole'
      BY <2>1 DEF OnlyWholeChunks
  <2>2. ASSUME NEW w \in Workers, NEW f \in Transfers, NEW k \in 1 .. Frames, NEW d \in Damages,
               DecodeFrame(w, f, k, d)
        PROVE  Whole'
      BY <2>1, <2>2, DecodedFrame DEF DecodeFrame
  <2>3. ASSUME NEW w \in Workers, pending[w] # <<>>, Advance(w)
        PROVE  Whole'
    <3>1. /\ pending[w] \in Seq(Chunks) /\ Len(pending[w]) \in Nat
          /\ Tail(pending[w]) \in Seq(Chunks)
          /\ DOMAIN Tail(pending[w]) = 1 .. Len(pending[w]) - 1
          /\ \A i \in 1 .. Len(pending[w]) - 1 :
                i + 1 \in DOMAIN pending[w] /\ Tail(pending[w])[i] = pending[w][i + 1]
        BY <2>3
    <3>2. \A i \in DOMAIN Tail(pending[w]) : Tail(pending[w])[i].whole
        BY <3>1 DEF OnlyWholeChunks
    <3> QED
        BY <2>1, <2>3, <3>1, <3>2 DEF Advance
  <2>4. ASSUME UNCHANGED pending
        PROVE  Whole'
      BY <2>4 DEF OnlyWholeChunks
  <2>5. ASSUME Restart
        PROVE  Whole'
      BY <2>5 DEF Restart, OnlyWholeChunks
  <2>6. CASE Writing
    <3>1. ASSUME NEW w \in Workers, ChunkIgnored(w) \/ ChunkTaken(w) \/ ChunkSolves(w)
          PROVE  pending[w] # <<>> /\ Advance(w)
        BY <3>1 DEF ChunkIgnored, ChunkTaken, ChunkSolves, Takes, Turn
    <3> QED
        BY <2>3, <2>4, <2>6, <3>1
           DEF Writing, RecoverFails, BeginStore, Unpack, Publish, Report, MarkDone
  <2>7. CASE Using
      BY <2>4, <2>5, <2>7 DEF Using, Poll, Delete, Reset, Crash
  <2>8. CASE UNCHANGED vars
      BY <2>4, <2>8 DEF vars
  <2> QED
      BY <2>2, <2>6, <2>7, <2>8 DEF Next, Decoding
<1>3. Whole => OnlyWholeChunks
    OBVIOUS
<1> QED
    BY <1>1, <1>2, <1>3, PTL DEF Spec

-----------------------------------------------------------------------------
(* The refinement of Reception.                                            *)

\* Nothing has been promised in the initial state.
LEMMA PromiseInit == Init => Promise!Init
<1> SUFFICES ASSUME Init PROVE Promise!Init
    OBVIOUS
<1>1. /\ store = NoStore /\ done = {} /\ status = NewStatus /\ events = <<>> /\ announced = {}
      /\ session = 1 /\ files = [n \in Names |-> NoFile]
    BY DEF Init
<1>2. ~Storing("report") /\ ~Storing("mark") /\ ~Reporting(TRUE) /\ ~Reporting(FALSE)
    BY <1>1 DEF Storing, Reporting
<1>3. Settled = {} /\ Untold = <<>> /\ Saved = 0 /\ Failed = 0
    BY <1>1, <1>2, NewCounts DEF Settled, Untold, Saved, Failed
<1> QED
    BY <1>1, <1>3 DEF Promise!Init, Promise!Names, Names

\* The promise is touched only where a store settles or reports.
Settling == Storing("report") \/ Storing("mark")

Untouching ==
    /\ UNCHANGED <<done, files, events, announced, session>>
    /\ status'.completed = status.completed /\ status'.errors = status.errors
    /\ UNCHANGED store \/ (~Settling /\ ~Settling')

LEMMA UntouchingStutters == Untouching => UNCHANGED Promise!vars
<1> SUFFICES ASSUME Untouching PROVE UNCHANGED Promise!vars
    OBVIOUS
<1>1. /\ UNCHANGED <<done, files, events, announced, session>>
      /\ status'.completed = status.completed /\ status'.errors = status.errors
    BY DEF Untouching
<1>2. CASE UNCHANGED store
    BY <1>1, <1>2 DEF Promise!vars, Settled, Untold, Saved, Failed, Reporting, Storing
<1>3. CASE ~Settling /\ ~Settling'
  <2>1. ~Reporting(TRUE) /\ ~Reporting(TRUE)' /\ ~Reporting(FALSE) /\ ~Reporting(FALSE)'
      BY <1>3 DEF Reporting, Settling
  <2>2. Settled' = Settled
      BY <1>1, <1>3 DEF Settled, Settling
  <2>3. Untold' = Untold /\ Saved' = Saved /\ Failed' = Failed
      BY <1>1, <2>1 DEF Untold, Saved, Failed
  <2> QED
      BY <1>1, <2>2, <2>3 DEF Promise!vars
<1> QED
    BY <1>2, <1>3 DEF Untouching

\* Reading frames, feeding streams and beginning to store leave it alone.
LEMMA FeedingStutters ==
    ASSUME IndInv,
           \/ Decoding \/ RecoverFails \/ BeginStore
           \/ \E w \in Workers : ChunkIgnored(w) \/ ChunkTaken(w) \/ ChunkSolves(w)
    PROVE  UNCHANGED Promise!vars
<1>1. TypeOK /\ OnlyWholeChunks
    BY DEF IndInv, SinkInv
<1>2. CASE Decoding
  <2>1. UNCHANGED <<store, done, status, events, files, announced, session>>
      BY <1>2 DEF Decoding, DecodeFrame
  <2>2. Untouching
      BY <2>1 DEF Untouching
  <2> QED
      BY <2>2, UntouchingStutters
<1>3. CASE RecoverFails
  <2>1. /\ store.stage = "recover" /\ store' = NoStore
        /\ status' = Totals(streams, 1) /\ UNCHANGED <<done, events, files, announced, session>>
      BY <1>3 DEF RecoverFails, Storing
  <2>2. status'.completed = status.completed /\ status'.errors = status.errors
      BY <1>1, <2>1, TotalsCount
  <2>3. Untouching
      BY <2>1, <2>2 DEF Untouching, Settling, Storing
  <2> QED
      BY <2>3, UntouchingStutters
<1>4. CASE BeginStore
  <2>1. /\ store # NoStore /\ store.stage = "recover" /\ GoTo("unpack")
        /\ status' = [status EXCEPT !.finishing = TRUE]
        /\ UNCHANGED <<done, events, files, announced, session>>
      BY <1>4 DEF BeginStore, Storing
  <2>2. status'.completed = status.completed /\ status'.errors = status.errors
    <3>1. {"completed", "errors", "finishing"} \subseteq DOMAIN status
        BY <1>1 DEF TypeOK, NewStatus
    <3> QED
        BY <2>1, <3>1
  <2>3. store'.stage = "unpack"
      BY <1>1, <2>1, NextStage
  <2>4. Untouching
      BY <2>1, <2>2, <2>3 DEF Untouching, Settling, Storing
  <2> QED
      BY <2>4, UntouchingStutters
<1>5. ASSUME NEW w \in Workers, ChunkIgnored(w) \/ ChunkTaken(w) \/ ChunkSolves(w)
      PROVE  UNCHANGED Promise!vars
  <2>1. store = NoStore /\ Turn(w) /\ UNCHANGED <<done, events, files, announced, session>>
      BY <1>1, <1>5, TurnAdvances
  <2>2. CASE ChunkIgnored(w)
    <3>1. status' = Totals(streams, 0) /\ UNCHANGED store
        BY <2>2 DEF ChunkIgnored
    <3>2. status'.completed = status.completed /\ status'.errors = status.errors
        BY <1>1, <3>1, TotalsCount
    <3>3. Untouching
        BY <2>1, <3>1, <3>2 DEF Untouching
    <3> QED
        BY <3>3, UntouchingStutters
  <2>3. CASE ChunkTaken(w)
    <3>1. UNCHANGED store /\ \E n \in 0 .. 1 : status' = Totals(streams', n)
        BY <2>3 DEF ChunkTaken, Added
    <3>2. status'.completed = status.completed /\ status'.errors = status.errors
        BY <1>1, <3>1, TotalsCount
    <3>3. Untouching
        BY <2>1, <3>1, <3>2 DEF Untouching
    <3> QED
        BY <3>3, UntouchingStutters
  <2>4. CASE ChunkSolves(w)
    <3>1. status' = status
        BY <2>4 DEF ChunkSolves
    <3>2. store'.stage = "recover"
        BY <1>1, <2>1, <2>4, NewStore
    <3>3. Untouching
        BY <2>1, <3>1, <3>2 DEF Untouching, Settling, Storing
    <3> QED
        BY <3>3, UntouchingStutters
  <2> QED
      BY <1>5, <2>2, <2>3, <2>4
<1> QED
    BY <1>2, <1>3, <1>4, <1>5

\* A store that goes on to its report without a name is the promised error.
LEMMA FailureSettles ==
    ASSUME IndInv, ToldApart, Storing("unpack") \/ Storing("publish"), GoTo("report"),
           UNCHANGED <<done, status, events, files, announced, session>>
    PROVE  Promise!Next
<1>1. TypeOK /\ StoreHeld
    BY DEF IndInv, SinkInv
<1>2. /\ store # NoStore /\ store.stage \in {"unpack", "publish"}
      /\ store.tx \in Transfers /\ Id(store.tx) \notin done /\ store.name = NoName
    BY <1>1, StoreTyped DEF Storing, StoreHeld
<1>3. /\ store' # NoStore /\ store'.stage = "report"
      /\ store'.tx = store.tx /\ store'.name = NoName
    BY <1>1, <1>2, NextStage
<1>4. /\ ~Reporting(TRUE) /\ ~Reporting(FALSE) /\ ~Reporting(TRUE)' /\ Reporting(FALSE)'
      /\ ~Settling /\ Storing("report")'
    BY <1>2, <1>3 DEF Reporting, Storing, Settling
<1>5. store.tx \notin Settled /\ Settled' = Settled \cup {store.tx}
    BY <1>2, <1>3, <1>4 DEF Settled, Settling
<1>6. Untold' = Untold /\ Saved' = Saved /\ Failed' = Failed + 1
    BY <1>1, <1>4 DEF Untold, Saved, Failed, TypeOK
<1>7. Promise!Fail(store.tx)
    BY <1>5, <1>6 DEF Promise!Fail
<1> QED
    BY <1>2, <1>7 DEF Promise!Next

\* A file that is published is the promised one.
LEMMA PublishSaves ==
    ASSUME IndInv, Storing("publish"), NEW n \in Names,
           files[n] = NoFile, \A m \in 1 .. n - 1 : files[m] # NoFile,
           files' = [files EXCEPT ![n] = [from |-> Contents, session |-> session]],
           store' = [store EXCEPT !.stage = "report", !.name = n],
           UNCHANGED <<done, status, events, announced, session>>
    PROVE  Promise!Next
<1>1. TypeOK /\ StoreHeld
    BY DEF IndInv, SinkInv
<1>2. /\ store # NoStore /\ store.stage = "publish"
      /\ store.tx \in Transfers /\ Id(store.tx) \notin done /\ store \in Stores
    BY <1>1, StoreTyped DEF Storing, StoreHeld
<1>3. store' # NoStore
    BY <1>1, <1>2, StoreTyped
<1>4. store'.stage = "report" /\ store'.tx = store.tx /\ store'.name = n /\ n # NoName
    BY <1>2, SinkShape DEF Stores
<1>5. /\ ~Reporting(TRUE) /\ ~Reporting(FALSE) /\ Reporting(TRUE)' /\ ~Reporting(FALSE)'
      /\ ~Settling /\ Storing("report")'
    BY <1>2, <1>3, <1>4 DEF Reporting, Storing, Settling
<1>6. Contents = {store.tx}
    BY <1>1, <1>2 DEF Contents, StoreHeld
<1>7. store.tx \notin Settled /\ Settled' = Settled \cup {store.tx}
    BY <1>2, <1>3, <1>4, <1>5 DEF Settled, Settling
<1>8. Untold' = Append(Untold, n) /\ Saved' = Saved + 1 /\ Failed' = Failed
    BY <1>1, <1>4, <1>5 DEF Untold, Saved, Failed, TypeOK
<1>9. Promise!Save(store.tx, n)
    BY <1>6, <1>7, <1>8 DEF Promise!Save, Promise!FileOf
<1> QED
    BY <1>2, <1>9 DEF Promise!Next, Promise!Names, Names

\* The report, and the mark after it, carry out what was promised.
LEMMA ReportStutters ==
    ASSUME IndInv, Report
    PROVE  UNCHANGED Promise!vars
<1>1. TypeOK
    BY DEF IndInv, SinkInv
<1>2. /\ store # NoStore /\ store.stage = "report" /\ GoTo("mark")
      /\ UNCHANGED <<done, files, announced, session>>
    BY DEF Report, Storing
<1>3. /\ store' # NoStore /\ store'.stage = "mark"
      /\ store'.tx = store.tx /\ store'.name = store.name
    BY <1>1, <1>2, NextStage
<1>4. /\ Storing("report") /\ ~Storing("mark") /\ ~Storing("report")' /\ Storing("mark")'
      /\ ~Reporting(TRUE)' /\ ~Reporting(FALSE)'
    BY <1>2, <1>3 DEF Storing, Reporting
<1>5. Settled' = Settled
    BY <1>2, <1>3, <1>4 DEF Settled
<1>6. {"completed", "errors", "finishing"} \subseteq DOMAIN status
    BY <1>1 DEF TypeOK, NewStatus
<1>7. CASE store.name = NoName
  <2>1. events' = events /\ status' = [status EXCEPT !.finishing = FALSE, !.errors = @ + 1]
      BY <1>7 DEF Report
  <2>2. status'.completed = status.completed /\ status'.errors = status.errors + 1
      BY <1>6, <2>1
  <2>3. ~Reporting(TRUE) /\ Reporting(FALSE)
      BY <1>4, <1>7 DEF Reporting
  <2> QED
      BY <1>1, <1>2, <1>4, <1>5, <2>1, <2>2, <2>3
         DEF Promise!vars, Untold, Saved, Failed, TypeOK
<1>8. CASE store.name # NoName
  <2>1. /\ events' = Append(events, store.name)
        /\ status' = [status EXCEPT !.finishing = FALSE, !.completed = @ + 1]
      BY <1>8 DEF Report
  <2>2. status'.completed = status.completed + 1 /\ status'.errors = status.errors
      BY <1>6, <2>1
  <2>3. Reporting(TRUE) /\ ~Reporting(FALSE)
      BY <1>4, <1>8 DEF Reporting
  <2> QED
      BY <1>1, <1>2, <1>4, <1>5, <2>1, <2>2, <2>3
         DEF Promise!vars, Untold, Saved, Failed, TypeOK
<1> QED
    BY <1>7, <1>8

LEMMA MarkDoneStutters ==
    ASSUME IndInv, ToldApart, MarkDone
    PROVE  UNCHANGED Promise!vars
<1>1. TypeOK
    BY DEF IndInv, SinkInv
<1>2. /\ store # NoStore /\ store.stage = "mark" /\ store' = NoStore
      /\ done' = done \cup {Id(store.tx)} /\ status' = Totals(streams', 1)
      /\ UNCHANGED <<events, files, announced, session>>
    BY DEF MarkDone, Storing
<1>3. /\ ~Storing("report") /\ Storing("mark") /\ ~Storing("report")' /\ ~Storing("mark")'
      /\ \A b \in BOOLEAN : ~Reporting(b) /\ ~Reporting(b)'
    BY <1>2 DEF Storing, Reporting
<1>4. status'.completed = status.completed /\ status'.errors = status.errors
    BY <1>1, <1>2, TotalsCount
<1>5. \A f \in Transfers : Id(f) = Id(store.tx) => f = store.tx
  <2>1. store.tx \in Transfers
      BY <1>1, <1>2, StoreTyped
  <2> QED
      BY <2>1 DEF Id, SlotOf, ToldApart
<1>6. Settled' = Settled
    BY <1>2, <1>3, <1>5 DEF Settled
<1>7. Untold' = Untold /\ Saved' = Saved /\ Failed' = Failed
    BY <1>2, <1>3, <1>4 DEF Untold, Saved, Failed
<1> QED
    BY <1>2, <1>6, <1>7 DEF Promise!vars

\* The user is told the first name first, also when one is just reported.
LEMMA PollTells ==
    ASSUME IndInv, Poll
    PROVE  Promise!Next
<1>1. TypeOK
    BY DEF IndInv, SinkInv
<1>2. /\ events # <<>> /\ events' = Tail(events) /\ announced' = announced \cup {Head(events)}
      /\ UNCHANGED <<store, done, status, files, session>>
    BY DEF Poll
<1>3. Settled' = Settled /\ Saved' = Saved /\ Failed' = Failed
    BY <1>2 DEF Settled, Saved, Failed, Reporting, Storing
<1>4. Untold # <<>> /\ Untold' = Tail(Untold) /\ Head(Untold) = Head(events)
  <2>1. Reporting(TRUE)' = Reporting(TRUE)
      BY <1>2 DEF Reporting, Storing
  <2>2. CASE ~Reporting(TRUE)
      BY <1>2, <2>1, <2>2 DEF Untold
  <2>3. CASE Reporting(TRUE)
    <3>1. events \in Seq(Names) /\ store.name \in Names
        BY <1>1, <2>3, StoreTyped DEF Reporting, Storing, TypeOK
    <3>2. Untold = Append(events, store.name) /\ Untold' = Append(Tail(events), store.name)
        BY <1>2, <2>1, <2>3 DEF Untold
    <3> HIDE DEF Names
    <3>3. /\ Append(events, store.name) # <<>>
          /\ Head(Append(events, store.name)) = Head(events)
          /\ Tail(Append(events, store.name)) = Append(Tail(events), store.name)
        BY <1>2, <3>1, HeadTailAppend, AppendProperties
    <3> QED
        BY <3>2, <3>3
  <2> QED
      BY <2>2, <2>3
<1>5. Promise!Tell
    BY <1>2, <1>3, <1>4 DEF Promise!Tell
<1> QED
    BY <1>5 DEF Promise!Next

\* Every step is a step of the promise or leaves it alone.
LEMMA PromiseStep ==
    ASSUME IndInv, ToldApart, [Next]_vars
    PROVE  [Promise!Next]_(Promise!vars)
<1>1. CASE \/ Decoding \/ RecoverFails \/ BeginStore
           \/ \E w \in Workers : ChunkIgnored(w) \/ ChunkTaken(w) \/ ChunkSolves(w)
    BY <1>1, FeedingStutters
<1>2. CASE Unpack
  <2>1. /\ Storing("unpack") /\ (GoTo("publish") \/ GoTo("report"))
        /\ UNCHANGED <<done, status, events, files, announced, session>>
      BY <1>2 DEF Unpack
  <2>2. CASE GoTo("report")
      BY <2>1, <2>2, FailureSettles
  <2>3. CASE GoTo("publish")
    <3>1. store'.stage = "publish"
        BY <2>1, <2>3, NextStage DEF IndInv, SinkInv, Storing
    <3>2. Untouching
        BY <2>1, <3>1 DEF Untouching, Settling, Storing
    <3> QED
        BY <3>2, UntouchingStutters
  <2> QED
      BY <2>1, <2>2, <2>3
<1>3. CASE Publish
  <2>1. Storing("publish") /\ UNCHANGED <<done, status, events, announced, session>>
      BY <1>3 DEF Publish
  <2>2. CASE GoTo("report") /\ UNCHANGED files
      BY <2>1, <2>2, FailureSettles
  <2>3. ASSUME NEW n \in Names, files[n] = NoFile, \A m \in 1 .. n - 1 : files[m] # NoFile,
               files' = [files EXCEPT ![n] = [from |-> Contents, session |-> session]],
               store' = [store EXCEPT !.stage = "report", !.name = n]
        PROVE  Promise!Next
      BY <2>1, <2>3, PublishSaves
  <2> QED
      BY <1>3, <2>2, <2>3 DEF Publish
<1>4. CASE Report \/ MarkDone
    BY <1>4, ReportStutters, MarkDoneStutters
<1>5. CASE Poll
    BY <1>5, PollTells
<1>6. ASSUME NEW n \in Names, Delete(n)
      PROVE  Promise!Next
  <2>1. UNCHANGED <<Settled, Untold, announced, Saved, Failed, session>>
      BY <1>6 DEF Delete, Settled, Untold, Saved, Failed, Reporting, Storing
  <2>2. Promise!Delete(n)
      BY <1>6, <2>1 DEF Delete, Promise!Delete
  <2> QED
      BY <2>2 DEF Promise!Next, Promise!Names, Names
<1>7. CASE Reset \/ Crash
  <2>1. /\ session < MaxSessions /\ session' = session + 1 /\ store' = NoStore /\ done' = {}
        /\ status' = NewStatus /\ events' = <<>> /\ announced' = {} /\ files' = files
      BY <1>7 DEF Reset, Crash, Restart
  <2>2. ~Storing("report")' /\ ~Storing("mark")' /\ ~Reporting(TRUE)' /\ ~Reporting(FALSE)'
      BY <2>1 DEF Storing, Reporting
  <2>3. Settled' = {} /\ Untold' = <<>> /\ Saved' = 0 /\ Failed' = 0
      BY <2>1, <2>2, NewCounts DEF Settled, Untold, Saved, Failed
  <2>4. Promise!Restart
      BY <2>1, <2>3 DEF Promise!Restart
  <2> QED
      BY <2>4 DEF Promise!Next
<1>8. CASE UNCHANGED vars
    BY <1>8 DEF vars, Promise!vars, Settled, Untold, Saved, Failed, Reporting, Storing
<1> QED
    BY <1>1, <1>2, <1>3, <1>4, <1>5, <1>6, <1>7, <1>8 DEF Next, Writing, Using

\* The sink keeps the promise to the user: a transfer of a reception becomes
\* one file, published under a free name, told once and counted, or one error,
\* whatever the threads read and wherever the process dies.
THEOREM ReceptionHolds ==
    ASSUME ToldApart PROVE Spec => ImplementsReception
<1>1. IndInv /\ [Next]_vars => [Promise!Next]_(Promise!vars)
    BY PromiseStep
<1> QED
    BY <1>1, IndInvHolds, PromiseInit, PTL DEF Spec, ImplementsReception, Promise!Spec
=============================================================================
