---------------------------- MODULE FrameAligner ----------------------------
(* The decode of one camera frame into fountain chunks: a frame is a run of *)
(* Reed-Solomon blocks, and aligned_stream gathers the blocks that could be *)
(* corrected into chunks, dropping a chunk that a bad block touches.  In    *)
(* every barcode mode a chunk is a whole number of blocks (five in mode 68, *)
(* three in 67, four in 66, six in 4: GridConf.h:63-71), so lengths and     *)
(* offsets are counted in blocks and a write carries exactly one of them.   *)
(* The receiver aligns from the start of a frame (align_offset 0,           *)
(* Decoder.h:183,187): the header branch of write is never taken.           *)
EXTENDS Integers, Sequences

CONSTANTS
    ChunkBlocks,     \* Reed-Solomon blocks in a chunk
    FrameChunks      \* chunks in a frame

ASSUME FrameShape == ChunkBlocks \in Nat \ {0} /\ FrameChunks \in Nat \ {0}

\* The blocks of a frame by position.
Blocks == 1 .. ChunkBlocks * FrameChunks

ChunkAt(i) == [j \in 1 .. ChunkBlocks |-> (i - 1) * ChunkBlocks + j]

\* The frame's chunk whose header a buffer starts with.
HeaderOf(buffer) == (buffer[1] - 1) \div ChunkBlocks + 1

\* aligned_stream's fields, with what it has written downstream (out) and the
\* calls of on_flush (calls).  0 is a byte range nothing was ever copied to.
Aligner == [offset : 0 .. ChunkBlocks - 1, badChunk : BOOLEAN,
            buffer : [1 .. ChunkBlocks -> Blocks \cup {0}],
            out : Seq([1 .. ChunkBlocks -> Blocks \cup {0}]), calls : Nat]

NewAligner == [offset |-> 0, badChunk |-> FALSE, buffer |-> [j \in 1 .. ChunkBlocks |-> 0],
               out |-> <<>>, calls |-> 0]

Filled(a, b) == [a.buffer EXCEPT ![a.offset + 1] = b]

\* write: keep an incomplete chunk, drop a complete one that was marked, pass
\* on a complete one that was not.
WriteBlock(a, b) ==
    CASE a.offset + 1 < ChunkBlocks ->
            [a EXCEPT !.buffer = Filled(a, b), !.offset = @ + 1]
      [] a.offset + 1 = ChunkBlocks /\ a.badChunk ->
            [a EXCEPT !.badChunk = FALSE, !.offset = 0, !.calls = @ + 1]
      [] OTHER ->
            [a EXCEPT !.buffer = Filled(a, b), !.offset = 0,
                      !.out = Append(@, Filled(a, b)), !.calls = @ + 1]

\* Mutant: the chunk is not marked.
MarkBadChunkUnmarked(a) == [a EXCEPT !.offset = (@ + 1) % ChunkBlocks]

\* A block that Reed-Solomon cannot correct: its room is skipped.
MarkBadChunk(a) ==
    [a EXCEPT !.badChunk = TRUE, !.offset = (@ + 1) % ChunkBlocks]

\* One block of the frame goes by: corrected, or not.
PassBlock(a, b, damaged) == IF b \in damaged THEN MarkBadChunk(a) ELSE WriteBlock(a, b)

\* reed_solomon_stream::write over a whole frame of which the blocks in
\* damaged cannot be corrected: the aligner after each of its blocks.
Align(damaged) ==
    LET after[n \in 0 .. ChunkBlocks * FrameChunks] ==
            IF n = 0 THEN NewAligner ELSE PassBlock(after[n - 1], n, damaged)
    IN  after

DeliveredChunks(damaged) == Align(damaged)[ChunkBlocks * FrameChunks].out

Untouched(i, damaged) == \A j \in 1 .. ChunkBlocks : ChunkAt(i)[j] \notin damaged
=============================================================================
