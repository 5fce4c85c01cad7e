---------------------------- MODULE FountainSink ----------------------------
(* What the Android receiver does with decoded frames: the chunks of a      *)
(* frame go one by one into the fountain streams of the sink, a finished    *)
(* stream is unpacked and published as a file, and the status and the       *)
(* events go to the user interface.  The decoder threads share the sink;    *)
(* the user may delete files, reset the reception or lose the process.      *)
(* A file is counted in blocks; whether a stream can be solved with just    *)
(* as many blocks as it has is the codec's business (wirehair, external).   *)
EXTENDS FrameAligner, FiniteSets, FiniteSetsExt

CONSTANTS
    Workers,        \* the decoder threads
    Transfers,      \* what senders have shown
    Encode,         \* the encode_id of a transfer
    Size,           \* its size, in blocks
    Frames,         \* frames in one cycle of a sender (cimbar_js.cpp:118-125)
    Damages,        \* sets of blocks a frame may lose (bound)
    MaxNames,       \* numbered names tried for a file (10000)
    MaxSessions,    \* receptions (bound)
    NoStream, NoFile, NoStore, NoName

Slots == 0 .. 7
Names == 1 .. MaxNames

\* What a chunk, a stream, a published file and a file that is being stored are.
BlockIds == 0 .. Frames * FrameChunks - 1
Chunks  == [tx : Transfers, id : BlockIds, whole : BOOLEAN]
Streams == [size : Nat, got : SUBSET Chunks]
Files   == [from : SUBSET Transfers, session : 1 .. MaxSessions]
Stores  == [by : Workers, tx : Transfers, name : Names \cup {NoName},
            stage : {"recover", "unpack", "publish", "report", "mark"}]

ASSUME SinkShape ==
    /\ Encode \in [Transfers -> 0 .. 127] /\ Size \in [Transfers -> Nat \ {0}]
    /\ Frames \in Nat \ {0} /\ Damages \subseteq SUBSET Blocks
    /\ MaxNames \in Nat \ {0} /\ MaxSessions \in Nat \ {0}
    /\ NoStream \notin Streams /\ NoFile \notin Files
    /\ NoStore \notin Stores /\ NoName \notin Names

VARIABLES
    pending,     \* per thread: the chunks of its frame still to be written
    store,       \* what the holder of _writeMutex is storing
    streams,     \* _streams: per slot the size and the blocks taken in
    done,        \* _done
    status,      \* _status
    events,      \* _events
    files,       \* the published files, by number of the name
    announced,   \* files of the session the user interface was told of
    counted,     \* blocks of the session that were counted as goodput
    session      \* how many receptions there have been

vars == <<pending, store, streams, done, status, events, files, announced, counted, session>>

\* FountainMetadata::id, ::stream_slot: a transfer is known by the two numbers
\* in its header.
Id(f) == <<Encode[f], Size[f]>>
SlotOf(f) == Encode[f] % 8

Lesser(m, n) == IF m < n THEN m ELSE n

\* The sizes of the streams there are, and what each has of its own.
Used(st) == {s \in Slots : st[s] # NoStream}
TotalBlocks(st) == MapThenSumSet(LAMBDA s : st[s].size, Used(st))
ReceivedBlocks(st) ==
    MapThenSumSet(LAMBDA s : Lesser(st[s].size, Cardinality(st[s].got)), Used(st))

\* The totals write publishes when it is through (ObservedFountainSink.h:40-48).
Totals(st, added) ==
    [status EXCEPT !.uniqueBlocks = @ + added, !.total = TotalBlocks(st),
                   !.received = ReceivedBlocks(st), !.streams = Cardinality(Used(st))]

NewStatus == [uniqueBlocks |-> 0, received |-> 0, total |-> 0, streams |-> 0,
              completed |-> 0, errors |-> 0, finishing |-> FALSE]

Init ==
    /\ pending = [w \in Workers |-> <<>>] /\ store = NoStore
    /\ streams = [s \in Slots |-> NoStream] /\ done = {}
    /\ status = NewStatus /\ events = <<>> /\ announced = {} /\ counted = {}
    /\ session = 1 /\ files = [n \in Names |-> NoFile]

-----------------------------------------------------------------------------
(* A decoder thread reads one frame of a transfer and hands what comes      *)
(* through the aligner to the sink.                                         *)

Carried(f, k, buffer) ==
    [tx |-> f, id |-> (k - 1) * FrameChunks + HeaderOf(buffer) - 1,
     whole |-> buffer = ChunkAt(HeaderOf(buffer))]

DecodeFrame(w, f, k, damaged) ==
    /\ pending[w] = <<>> /\ (store # NoStore => store.by # w)
    /\ LET out == DeliveredChunks(damaged)
       IN  pending' = [pending EXCEPT ![w] = [i \in DOMAIN out |-> Carried(f, k, out[i])]]
    /\ UNCHANGED <<store, streams, done, status, events, files, announced, counted, session>>

-----------------------------------------------------------------------------
(* write and decode_frame, under _writeMutex.                               *)

Turn(w) == store = NoStore /\ pending[w] # <<>>
Advance(w) == pending' = [pending EXCEPT ![w] = Tail(@)]

\* Another transfer holds the slot: with another size it is refused.
Refused(f) == streams[SlotOf(f)] # NoStream /\ streams[SlotOf(f)].size # Size[f]

\* The chunk of a transfer that is done, or that is refused, changes nothing.
ChunkIgnored(w) ==
    /\ Turn(w)
    /\ LET f == Head(pending[w]).tx IN Id(f) \in done \/ Refused(f)
    /\ Advance(w) /\ status' = Totals(streams, 0)
    /\ UNCHANGED <<store, streams, done, events, files, announced, counted, session>>

\* The stream the chunk goes to, found or created.
StreamFor(f) ==
    IF streams[SlotOf(f)] = NoStream THEN [size |-> Size[f], got |-> {}]
    ELSE streams[SlotOf(f)]

\* FountainDecoder::decode knows blocks by their number alone.
Seen(c) == \E b \in StreamFor(c.tx).got : b.id = c.id

Fed(c) ==
    [streams EXCEPT ![SlotOf(c.tx)] =
        [StreamFor(c.tx) EXCEPT !.got = IF Seen(c) THEN @ ELSE @ \cup {c}]]

Takes(w) ==
    Turn(w) /\ LET f == Head(pending[w]).tx IN Id(f) \notin done /\ ~Refused(f)

\* wirehair_decode: with as many blocks as the file has it may succeed, and
\* may ask for more.
MaySolve(c) == ~Seen(c) /\ Cardinality(StreamFor(c.tx).got) + 1 >= Size[c.tx]

Count(c) == counted' = counted \cup (IF Seen(c) THEN {} ELSE {<<c.tx, c.id>>})

\* Mutant: every chunk the stream took is goodput.
AddedAlways(c) == 1

\* A chunk is goodput when it brought its stream forward.
Added(c) == IF Seen(c) THEN 0 ELSE 1

ChunkTaken(w) ==
    LET c == Head(pending[w]) IN
    /\ Takes(w)
    /\ Advance(w) /\ Count(c) /\ streams' = Fed(c)
    /\ status' = Totals(streams', Added(c))
    /\ UNCHANGED <<store, done, events, files, announced, session>>

ChunkSolves(w) ==
    LET c == Head(pending[w]) IN
    /\ Takes(w) /\ MaySolve(c)
    /\ Advance(w) /\ Count(c) /\ streams' = Fed(c)
    /\ store' = [by |-> w, tx |-> c.tx, stage |-> "recover", name |-> NoName]
    /\ UNCHANGED <<done, status, events, files, announced, session>>

-----------------------------------------------------------------------------
(* store, and on_store with store_received_file.  Only the status fields    *)
(* are under _statusMutex, so the user interface sees every step.           *)

Storing(s) == store # NoStore /\ store.stage = s
GoTo(s) == store' = [store EXCEPT !.stage = s]

\* recover does not give the file: the stream stays as it is.
RecoverFails ==
    /\ Storing("recover") /\ store' = NoStore
    /\ status' = Totals(streams, 1)
    /\ UNCHANGED <<pending, streams, done, events, files, announced, counted, session>>

BeginStore ==
    /\ Storing("recover") /\ GoTo("unpack")
    /\ status' = [status EXCEPT !.finishing = TRUE]
    /\ UNCHANGED <<pending, streams, done, events, files, announced, counted, session>>

\* The temporary file is written and verified, or something fails.  A stream
\* fed by two transfers may unpack: the frames carry no checksum.
Unpack ==
    /\ Storing("unpack") /\ (GoTo("publish") \/ GoTo("report"))
    /\ UNCHANGED <<pending, streams, done, status, events, files, announced, counted, session>>

Contents == {b.tx : b \in streams[SlotOf(store.tx)].got}

\* Mutant: the file is moved over the first name.
PublishReplaces ==
    /\ Storing("publish")
    /\ \/ /\ files' = [files EXCEPT ![1] = [from |-> Contents, session |-> session]]
          /\ store' = [store EXCEPT !.stage = "report", !.name = 1]
       \/ GoTo("report") /\ UNCHANGED files
    /\ UNCHANGED <<pending, streams, done, status, events, announced, counted, session>>

\* The names are tried in order and none is replaced; past the last one, or on
\* another error, there is no file.
Publish ==
    /\ Storing("publish")
    /\ \/ \E n \in Names :
             /\ files[n] = NoFile /\ \A m \in 1 .. n - 1 : files[m] # NoFile
             /\ files' = [files EXCEPT ![n] = [from |-> Contents, session |-> session]]
             /\ store' = [store EXCEPT !.stage = "report", !.name = n]
       \/ GoTo("report") /\ UNCHANGED files
    /\ UNCHANGED <<pending, streams, done, status, events, announced, counted, session>>

Report ==
    /\ Storing("report") /\ GoTo("mark")
    /\ IF store.name = NoName
       THEN status' = [status EXCEPT !.finishing = FALSE, !.errors = @ + 1] /\ UNCHANGED events
       ELSE /\ status' = [status EXCEPT !.finishing = FALSE, !.completed = @ + 1]
            /\ events' = Append(events, store.name)
    /\ UNCHANGED <<pending, streams, done, files, announced, counted, session>>

\* Mutant: the stream is dropped and the transfer forgotten.
MarkDoneForgets ==
    /\ Storing("mark") /\ store' = NoStore
    /\ streams' = [streams EXCEPT ![SlotOf(store.tx)] = NoStream]
    /\ status' = Totals(streams', 1)
    /\ UNCHANGED <<pending, done, events, files, announced, counted, session>>

\* mark_done, and the rest of write.  Also a transfer that could not be stored
\* is not tried again.
MarkDone ==
    /\ Storing("mark") /\ store' = NoStore
    /\ done' = done \cup {Id(store.tx)}
    /\ streams' = [streams EXCEPT ![SlotOf(store.tx)] = NoStream]
    /\ status' = Totals(streams', 1)
    /\ UNCHANGED <<pending, events, files, announced, counted, session>>

-----------------------------------------------------------------------------
(* The user interface, and the end of a reception.                          *)

Poll ==
    /\ events # <<>> /\ events' = Tail(events)
    /\ announced' = announced \cup {Head(events)}
    /\ UNCHANGED <<pending, store, streams, done, status, files, counted, session>>

Delete(n) ==
    /\ files[n] # NoFile /\ files' = [files EXCEPT ![n] = NoFile]
    /\ UNCHANGED <<pending, store, streams, done, status, events, announced, counted, session>>

Restart ==
    /\ session < MaxSessions /\ session' = session + 1
    /\ pending' = [w \in Workers |-> <<>>] /\ store' = NoStore
    /\ streams' = [s \in Slots |-> NoStream] /\ done' = {}
    /\ status' = NewStatus /\ events' = <<>> /\ announced' = {} /\ counted' = {}
    /\ UNCHANGED files

\* The reset joins the threads first: they finish the frames they have.
Reset == store = NoStore /\ (\A w \in Workers : pending[w] = <<>>) /\ Restart

\* The process dies in any state; a file that is not published yet is a hidden
\* temporary one.
Crash == Restart

Decoding ==
    \E w \in Workers, f \in Transfers, k \in 1 .. Frames, d \in Damages : DecodeFrame(w, f, k, d)
Writing ==
    \/ \E w \in Workers : ChunkIgnored(w) \/ ChunkTaken(w) \/ ChunkSolves(w)
    \/ RecoverFails \/ BeginStore \/ Unpack \/ Publish \/ Report \/ MarkDone
Using == Poll \/ (\E n \in Names : Delete(n)) \/ Reset \/ Crash

Next == Decoding \/ Writing \/ Using
Spec == Init /\ [][Next]_vars

-----------------------------------------------------------------------------
(* Properties.                                                              *)

\* The headers tell the transfers apart: no two with the size and the slot of
\* each other (fountain_decoder_sink.h:147-154 looks at nothing else).
ToldApart ==
    \A f, g \in Transfers : SlotOf(f) = SlotOf(g) /\ Size[f] = Size[g] => f = g

TypeOK ==
    /\ pending \in [Workers -> Seq(Chunks)] /\ store \in Stores \cup {NoStore}
    /\ streams \in [Slots -> Streams \cup {NoStream}]
    /\ done \subseteq {Id(f) : f \in Transfers} /\ IsFiniteSet(done)
    /\ DOMAIN status = DOMAIN NewStatus /\ status.finishing \in BOOLEAN
    /\ status.uniqueBlocks \in Nat /\ status.completed \in Nat /\ status.errors \in Nat
    /\ events \in Seq(Names) /\ announced \subseteq Names
    /\ counted \subseteq Transfers \X BlockIds /\ IsFiniteSet(counted)
    /\ files \in [Names -> Files \cup {NoFile}] /\ session \in 1 .. MaxSessions

\* Decoder.h:177: "we don't want to feed the fountain stream bad data": what
\* comes through the aligner is a chunk of the frame, with no byte that was
\* skipped and none of an earlier chunk.
OnlyWholeChunks == \A w \in Workers : \A i \in DOMAIN pending[w] : pending[w][i].whole

\* A stream takes the blocks of one transfer, each number once, and of none
\* that is done (fountain_decoder_sink.h:147-155).
StreamsApart ==
    \A s \in Slots : streams[s] # NoStream =>
        /\ \E f \in Transfers : /\ SlotOf(f) = s /\ Size[f] = streams[s].size
                                /\ Id(f) \notin done
                                /\ \A b \in streams[s].got : b.tx = f
        /\ \A b, c \in streams[s].got : b.id = c.id => b = c

\* ReceivedFileStore.h:34, "Publish only verified files": a published file is
\* what one sender sent.
FilesWhole == \A n \in Names : files[n] # NoFile => Cardinality(files[n].from) = 1

\* A file of this reception has been announced, is waiting to be, or is just
\* being published: no event is lost between the two locks.
FilesAnnounced ==
    \A n \in Names :
        files[n] # NoFile /\ files[n].session = session =>
            \/ n \in announced \cup {events[i] : i \in DOMAIN events}
            \/ Storing("report") /\ store.name = n

\* A transfer that is done has counted as a file or as an error, once.
OutcomesCounted ==
    status.completed + status.errors = Cardinality(done) + (IF Storing("mark") THEN 1 ELSE 0)

\* The finishing mark the user sees is up exactly while a file is stored.
FinishingTrue == status.finishing <=> Storing("unpack") \/ Storing("publish") \/ Storing("report")

\* While a transfer is stored its stream stays, holds its blocks only, and is
\* not done; it has a name once it is published.
StoreHeld ==
    store # NoStore =>
        /\ Id(store.tx) \notin done
        /\ streams[SlotOf(store.tx)] # NoStream /\ streams[SlotOf(store.tx)].got # {}
        /\ \A b \in streams[SlotOf(store.tx)].got : b.tx = store.tx
        /\ store.name # NoName => store.stage \in {"report", "mark"}

\* A file of this reception is of a transfer that is done, or just being stored
\* under its name.
FilesOfDone ==
    \A n \in Names : files[n] # NoFile =>
        /\ files[n].session <= session
        /\ files[n].session = session =>
              \A f \in files[n].from :
                  Id(f) \in done \/ (store # NoStore /\ store.tx = f /\ store.name = n)

\* A counted block is in its transfer's stream, unless the transfer is done.
CountedKept ==
    \A p \in counted :
        \/ Id(p[1]) \in done
        \/ /\ streams[SlotOf(p[1])] # NoStream
           /\ \E b \in streams[SlotOf(p[1])].got : b.tx = p[1] /\ b.id = p[2]

SinkInv ==
    /\ TypeOK /\ OnlyWholeChunks /\ StreamsApart
    /\ FilesWhole /\ FilesAnnounced /\ OutcomesCounted /\ FinishingTrue
    /\ StoreHeld /\ FilesOfDone /\ CountedKept

\* README.md:79 of the receiver: a transfer is saved only once in a reception,
\* however often the sender repeats it and whichever thread reads it.
SavedOnce ==
    \A m, n \in Names :
        files[m] # NoFile /\ files[n] # NoFile /\ files[m] = files[n] => m = n

\* ReceiverInteropTest.java:75, "Duplicate frames must not inflate goodput":
\* a block of a transfer is counted once in a reception, when it comes first.
GoodputExact ==
    status.uniqueBlocks + (IF store = NoStore THEN 0 ELSE 1) = Cardinality(counted)

\* ReceivedFileStore.h:79: a published file is never replaced by another one;
\* only the user takes it away, also across resets and crashes.
FilesKept ==
    [][\A n \in Names : files[n] # NoFile => files'[n] \in {files[n], NoFile}]_vars

-----------------------------------------------------------------------------
(* The promise to the user.  A transfer is settled when its file is         *)
(* published, or has failed to be; the event and the counts, which follow   *)
(* in Report, are then as good as there.                                    *)

Reporting(published) == Storing("report") /\ (store.name # NoName) = published

Settled == {f \in Transfers : \/ Id(f) \in done
                              \/ (Storing("report") \/ Storing("mark")) /\ store.tx = f}
Untold  == IF Reporting(TRUE) THEN Append(events, store.name) ELSE events
Saved   == status.completed + (IF Reporting(TRUE) THEN 1 ELSE 0)
Failed  == status.errors + (IF Reporting(FALSE) THEN 1 ELSE 0)

Promise == INSTANCE Reception WITH
    settled <- Settled, untold <- Untold, told <- announced, saved <- Saved, failed <- Failed

\* README.md:79 and ReceivedFileStore.h:34,79 of the receiver: each transfer of
\* a reception becomes one file or one error, however its chunks come in; no
\* file is lost, replaced or told twice, also across resets and crashes.
ImplementsReception == Promise!Spec

-----------------------------------------------------------------------------
(* Statements the code does not keep.                                       *)

\* aligned_streamTest.cpp:22, "we should discard the 3rd and 4th chunks": the
\* chunks a bad block touches are dropped, and only those.
GoodChunksDelivered ==
    [][\A w \in Workers, f \in Transfers, k \in 1 .. Frames, d \in Damages :
          DecodeFrame(w, f, k, d) =>
              \A i \in 1 .. FrameChunks : Untouched(i, d) =>
                  \E j \in DOMAIN pending'[w] :
                      pending'[w][j].id = (k - 1) * FrameChunks + i - 1]_vars
=============================================================================
