------------------------- MODULE FrameAlignerProofs -------------------------
(***************************************************************************)
(* What the aligner passes on, for every length of a chunk and a frame and *)
(* every set of damaged blocks.  The aligner is a function defined by      *)
(* recursion over the blocks of a frame; induction over them is carried by *)
(* sets of numbers, as no prover instantiates the library's schemes.       *)
(***************************************************************************)
EXTENDS FrameAligner, WellFoundedInduction, TLAPS

\* Induction: a set of numbers with 0 and, with n, the next one, has them all.
LEMMA AllNumbers ==
    ASSUME NEW S \in SUBSET Nat, 0 \in S, \A n \in S : n + 1 \in S
    PROVE  S = Nat
<1> DEFINE T == Nat \ S
<1> SUFFICES ASSUME T # {} PROVE FALSE
    OBVIOUS
<1>1. PICK m \in T : \A k \in T : <<k, m>> \notin OpToRel(<, Nat)
  <2>1. T \subseteq Nat
      OBVIOUS
  <2> HIDE DEF T
  <2> QED
      BY <2>1, NatLessThanWellFounded, WFMin
<1>2. \A k \in T : ~(k < m)
    BY <1>1 DEF OpToRel
<1>3. m # 0 /\ m \in Nat /\ m - 1 \in Nat /\ m - 1 < m /\ (m - 1) + 1 = m
    OBVIOUS
<1>4. m - 1 \in S
    BY <1>2, <1>3
<1> QED
    BY <1>3, <1>4

Last == ChunkBlocks * FrameChunks

-----------------------------------------------------------------------------
(* Counting blocks and chunks.                                             *)

LEMMA Products ==
    /\ Last \in Nat
    /\ \A q \in Nat : q * ChunkBlocks \in Nat /\ (q + 1) * ChunkBlocks = q * ChunkBlocks + ChunkBlocks
    BY FrameShape DEF Last

\* The offset after one more block.
LEMMA NextOffset ==
    ASSUME NEW x \in 0 .. ChunkBlocks - 1
    PROVE  (x + 1) % ChunkBlocks = IF x + 1 = ChunkBlocks THEN 0 ELSE x + 1
    BY FrameShape

\* A chunk that ends within the frame is one of the frame's.
LEMMA ChunkInFrame ==
    ASSUME NEW q \in Nat, (q + 1) * ChunkBlocks <= Last
    PROVE  q + 1 \in 1 .. FrameChunks
<1>1. ChunkBlocks \in Nat /\ ChunkBlocks >= 1 /\ FrameChunks \in Nat
    BY FrameShape
<1>2. ASSUME q >= FrameChunks PROVE FALSE
  <2>1. q * ChunkBlocks >= FrameChunks * ChunkBlocks
      BY <1>1, <1>2
  <2> QED
      BY <1>1, <2>1, Products DEF Last
<1> QED
    BY <1>1, <1>2

\* The header of a chunk tells which of the frame's it is.
LEMMA HeaderOfChunk ==
    ASSUME NEW i \in 1 .. FrameChunks
    PROVE  HeaderOf(ChunkAt(i)) = i
<1>1. ChunkBlocks \in Nat /\ ChunkBlocks >= 1 /\ i - 1 \in Nat
    BY FrameShape
<1>2. ChunkAt(i)[1] - 1 = (i - 1) * ChunkBlocks
    BY <1>1 DEF ChunkAt
<1>3. ((i - 1) * ChunkBlocks) \div ChunkBlocks = i - 1
    BY <1>1
<1> QED
    BY <1>1, <1>2, <1>3 DEF HeaderOf

-----------------------------------------------------------------------------
(* The recursion is well defined.                                          *)

\* The aligners after the first n blocks of a frame.
IsRun(g, n, damaged) ==
    g = [k \in 0 .. n |-> IF k = 0 THEN NewAligner ELSE PassBlock(g[k - 1], k, damaged)]

\* Every prefix of a frame has a run of the aligner.
LEMMA RunExists ==
    ASSUME NEW damaged, NEW n \in Nat
    PROVE  \E g : IsRun(g, n, damaged)
<1> DEFINE S == {m \in Nat : \E g : IsRun(g, m, damaged)}
<1>1. 0 \in S
  <2> DEFINE g == [k \in 0 .. 0 |-> NewAligner]
  <2>1. g = [k \in 0 .. 0 |-> IF k = 0 THEN NewAligner ELSE PassBlock(g[k - 1], k, damaged)]
      OBVIOUS
  <2> QED
      BY <2>1 DEF IsRun
<1>2. ASSUME NEW m \in S PROVE m + 1 \in S
  <2>1. PICK g : IsRun(g, m, damaged)
      OBVIOUS
  <2> DEFINE h == [k \in 0 .. m + 1 |-> IF k <= m THEN g[k] ELSE PassBlock(g[m], m + 1, damaged)]
  <2>2. m \in Nat
      OBVIOUS
  <2>3. \A k \in 0 .. m + 1 :
            h[k] = IF k = 0 THEN NewAligner ELSE PassBlock(h[k - 1], k, damaged)
    <3>1. ASSUME NEW k \in 0 .. m, k # 0 PROVE h[k] = PassBlock(h[k - 1], k, damaged)
      <4>1. k - 1 \in 0 .. m /\ k - 1 <= m /\ k <= m
          BY <2>2, <3>1
      <4>2. h[k] = g[k] /\ h[k - 1] = g[k - 1]
          BY <2>2, <4>1
      <4>3. g[k] = PassBlock(g[k - 1], k, damaged)
          BY <2>1, <3>1 DEF IsRun
      <4> QED
          BY <4>2, <4>3
    <3>2. h[0] = NewAligner
        BY <2>1, <2>2 DEF IsRun
    <3>3. h[m + 1] = PassBlock(h[m], m + 1, damaged)
      <4>1. m + 1 \in 0 .. m + 1 /\ ~(m + 1 <= m) /\ m \in 0 .. m + 1 /\ m <= m
          BY <2>2
      <4>2. h[m + 1] = PassBlock(g[m], m + 1, damaged)
          BY <4>1
      <4>3. h[m] = g[m]
          BY <4>1
      <4> QED
          BY <4>2, <4>3
    <3> HIDE DEF h
    <3>4. ASSUME NEW k \in 0 .. m + 1
          PROVE  h[k] = IF k = 0 THEN NewAligner ELSE PassBlock(h[k - 1], k, damaged)
      <4>1. CASE k = 0
          BY <3>2, <4>1
      <4>2. CASE k = m + 1
        <5>1. k # 0 /\ k - 1 = m
            BY <2>2, <4>2
        <5> QED
            BY <3>3, <4>2, <5>1
      <4>3. CASE k # 0 /\ k # m + 1
        <5>1. k \in 0 .. m
            BY <2>2, <4>3
        <5> QED
            BY <3>1, <4>3, <5>1
      <4> QED
          BY <4>1, <4>2, <4>3
    <3> QED
        BY <3>4
  <2>4. IsRun(h, m + 1, damaged)
    <3> HIDE DEF h
    <3>1. h = [k \in 0 .. m + 1 |-> h[k]]
        BY DEF h
    <3> QED
        BY <2>3, <3>1 DEF IsRun
  <2> QED
      BY <2>2, <2>4
<1> HIDE DEF S
<1>3. S = Nat
  <2>1. S \in SUBSET Nat
      BY DEF S
  <2> QED
      BY <1>1, <1>2, <2>1, AllNumbers
<1> QED
    BY <1>3 DEF S

\* Align is the run over the whole frame.
LEMMA AlignIsRun ==
    ASSUME NEW damaged
    PROVE  IsRun(Align(damaged), Last, damaged)
<1>1. \E g : g = [n \in 0 .. Last |-> IF n = 0 THEN NewAligner ELSE PassBlock(g[n - 1], n, damaged)]
    BY RunExists, Products DEF IsRun
<1> QED
    BY <1>1 DEF Align, Last, IsRun

-----------------------------------------------------------------------------
(* What the aligner holds.                                                 *)

\* After n blocks: whole chunks and the offset make n, an unmarked buffer is
\* the beginning of the next chunk, and what was passed on are chunks that no
\* damaged block touches.
Aligned(a, n, damaged) ==
    /\ a \in Aligner
    /\ \E q \in Nat :
          /\ n = q * ChunkBlocks + a.offset
          /\ ~a.badChunk => \A j \in 1 .. a.offset : a.buffer[j] = q * ChunkBlocks + j
                                                     /\ q * ChunkBlocks + j \notin damaged
    /\ \A i \in DOMAIN a.out :
          \E c \in 1 .. FrameChunks : a.out[i] = ChunkAt(c) /\ Untouched(c, damaged)

LEMMA AlignedInit == ASSUME NEW damaged PROVE Aligned(NewAligner, 0, damaged)
<1>1. ChunkBlocks \in Nat /\ ChunkBlocks >= 1
    BY FrameShape
<1>2. NewAligner \in Aligner
    BY <1>1 DEF NewAligner, Aligner
<1>3. 0 = 0 * ChunkBlocks + NewAligner.offset /\ NewAligner.offset = 0
    BY <1>1 DEF NewAligner
<1>4. NewAligner.out = <<>>
    BY DEF NewAligner
<1> QED
    BY <1>2, <1>3, <1>4 DEF Aligned

\* Every block keeps it.
LEMMA AlignedStep ==
    ASSUME NEW damaged, NEW n \in Nat, n + 1 <= Last, NEW a, Aligned(a, n, damaged)
    PROVE  Aligned(PassBlock(a, n + 1, damaged), n + 1, damaged)
<1>1. /\ ChunkBlocks \in Nat /\ ChunkBlocks >= 1 /\ n + 1 \in Blocks
    BY FrameShape DEF Blocks, Last
<1>2. PICK q \in Nat :
          /\ n = q * ChunkBlocks + a.offset
          /\ ~a.badChunk => \A j \in 1 .. a.offset : a.buffer[j] = q * ChunkBlocks + j
                                                     /\ q * ChunkBlocks + j \notin damaged
    BY DEF Aligned
<1>3. /\ q * ChunkBlocks \in Nat /\ (q + 1) * ChunkBlocks = q * ChunkBlocks + ChunkBlocks
    BY Products
<1> DEFINE base == q * ChunkBlocks
<1>4. /\ a \in Aligner /\ a.offset \in 0 .. ChunkBlocks - 1 /\ a.badChunk \in BOOLEAN
      /\ a.buffer \in [1 .. ChunkBlocks -> Blocks \cup {0}] /\ a.calls \in Nat
      /\ a.out \in Seq([1 .. ChunkBlocks -> Blocks \cup {0}])
      /\ n + 1 = base + a.offset + 1
    BY <1>2, <1>3 DEF Aligned, Aligner
<1>5. \A i \in DOMAIN a.out :
          \E c \in 1 .. FrameChunks : a.out[i] = ChunkAt(c) /\ Untouched(c, damaged)
    BY DEF Aligned
<1>6. a.offset + 1 = ChunkBlocks => n + 1 = (q + 1) * ChunkBlocks + 0 /\ q + 1 \in Nat
    BY <1>3, <1>4
<1> HIDE DEF base
<1>7. CASE n + 1 \in damaged
  <2> DEFINE m == MarkBadChunk(a)
  <2>1. PassBlock(a, n + 1, damaged) = m
      BY <1>7 DEF PassBlock
  <2>2. /\ m.badChunk = TRUE /\ m.out = a.out /\ m.buffer = a.buffer /\ m.calls = a.calls
        /\ m.offset = IF a.offset + 1 = ChunkBlocks THEN 0 ELSE a.offset + 1
        /\ m \in Aligner
    <3>1. (a.offset + 1) % ChunkBlocks = IF a.offset + 1 = ChunkBlocks THEN 0 ELSE a.offset + 1
        BY <1>4, NextOffset
    <3>2. (a.offset + 1) % ChunkBlocks \in 0 .. ChunkBlocks - 1
        BY <1>1, <1>4, <3>1
    <3> QED
        BY <1>4, <3>1, <3>2 DEF MarkBadChunk, Aligner
  <2>3. \E p \in Nat : n + 1 = p * ChunkBlocks + m.offset
    <3>1. CASE a.offset + 1 = ChunkBlocks
        BY <1>6, <2>2, <3>1
    <3>2. CASE a.offset + 1 # ChunkBlocks
      <4>1. n + 1 = q * ChunkBlocks + m.offset
          BY <1>3, <1>4, <2>2, <3>2 DEF base
      <4> QED
          BY <4>1
    <3> QED
        BY <3>1, <3>2
  <2> HIDE DEF m
  <2>4. Aligned(m, n + 1, damaged)
      BY <1>5, <2>2, <2>3 DEF Aligned
  <2> QED
      BY <2>1, <2>4
<1>8. CASE n + 1 \notin damaged
  <2> DEFINE w == WriteBlock(a, n + 1)
             buf == Filled(a, n + 1)
  <2>1. PassBlock(a, n + 1, damaged) = w
      BY <1>8 DEF PassBlock
  <2>2. /\ buf \in [1 .. ChunkBlocks -> Blocks \cup {0}]
        /\ buf[a.offset + 1] = n + 1
        /\ \A j \in 1 .. a.offset : buf[j] = a.buffer[j]
      BY <1>1, <1>4 DEF Filled
  <2>3. ~a.badChunk => \A j \in 1 .. a.offset + 1 : buf[j] = base + j /\ base + j \notin damaged
    <3> SUFFICES ASSUME ~a.badChunk, NEW j \in 1 .. a.offset + 1
                 PROVE  buf[j] = base + j /\ base + j \notin damaged
        OBVIOUS
    <3>1. CASE j = a.offset + 1
      <4>1. base + j = n + 1
          BY <1>3, <1>4, <3>1 DEF base
      <4> QED
          BY <1>8, <2>2, <3>1, <4>1
    <3>2. CASE j # a.offset + 1
      <4>1. j \in 1 .. a.offset
          BY <1>4, <3>2
      <4> QED
          BY <1>2, <2>2, <4>1 DEF base
    <3> QED
        BY <3>1, <3>2
  <2> HIDE DEF buf
  <2>4. CASE a.offset + 1 < ChunkBlocks
    <3>1. /\ w.offset = a.offset + 1 /\ w.buffer = buf /\ w.badChunk = a.badChunk /\ w.out = a.out
          /\ w \in Aligner
      <4>1. w = [a EXCEPT !.buffer = buf, !.offset = @ + 1]
          BY <1>1, <1>4, <2>4 DEF WriteBlock, buf
      <4>2. a.offset + 1 \in 0 .. ChunkBlocks - 1
          BY <1>1, <1>4, <2>4
      <4> HIDE DEF w
      <4> QED
          BY <1>4, <2>2, <4>1, <4>2 DEF Aligner
    <3> HIDE DEF w
    <3>2. n + 1 = q * ChunkBlocks + w.offset
        BY <1>3, <1>4, <3>1 DEF base
    <3>3. Aligned(w, n + 1, damaged)
        BY <1>5, <2>3, <3>1, <3>2 DEF Aligned, base
    <3> QED
        BY <2>1, <3>3
  <2>5. CASE a.offset + 1 = ChunkBlocks /\ a.badChunk
    <3>1. w.offset = 0 /\ w.buffer = a.buffer /\ w.badChunk = FALSE /\ w.out = a.out /\ w \in Aligner
      <4>1. w = [a EXCEPT !.badChunk = FALSE, !.offset = 0, !.calls = @ + 1]
          BY <1>1, <1>4, <2>5 DEF WriteBlock
      <4>2. 0 \in 0 .. ChunkBlocks - 1 /\ a.calls + 1 \in Nat
          BY <1>1, <1>4
      <4> HIDE DEF w
      <4> QED
          BY <1>4, <4>1, <4>2 DEF Aligner
    <3> HIDE DEF w
    <3>2. Aligned(w, n + 1, damaged)
        BY <1>5, <1>6, <2>5, <3>1 DEF Aligned
    <3> QED
        BY <2>1, <3>2
  <2>6. CASE a.offset + 1 = ChunkBlocks /\ ~a.badChunk
    <3>1. /\ w.offset = 0 /\ w.badChunk = FALSE /\ w.out = Append(a.out, buf) /\ w \in Aligner
      <4>1. w = [a EXCEPT !.buffer = buf, !.offset = 0, !.out = Append(@, buf), !.calls = @ + 1]
          BY <1>1, <1>4, <2>6 DEF WriteBlock, buf
      <4>2. /\ 0 \in 0 .. ChunkBlocks - 1 /\ a.calls + 1 \in Nat
            /\ Append(a.out, buf) \in Seq([1 .. ChunkBlocks -> Blocks \cup {0}])
          BY <1>1, <1>4, <2>2
      <4> HIDE DEF w
      <4>3. a.badChunk = FALSE
          BY <1>4, <2>6
      <4> QED
          BY <1>4, <2>2, <4>1, <4>2, <4>3 DEF Aligner
    <3>2. q + 1 \in 1 .. FrameChunks
      <4>1. (q + 1) * ChunkBlocks <= Last
          BY <1>1, <1>3, <1>6, <2>6, Products
      <4> QED
          BY <4>1, ChunkInFrame
    <3>3. buf = ChunkAt(q + 1) /\ Untouched(q + 1, damaged)
      <4>1. \A j \in 1 .. ChunkBlocks : ChunkAt(q + 1)[j] = base + j
          BY <1>3 DEF ChunkAt, base
      <4>2. \A j \in 1 .. ChunkBlocks : buf[j] = base + j /\ base + j \notin damaged
          BY <2>3, <2>6
      <4>3. buf = [j \in 1 .. ChunkBlocks |-> buf[j]]
          BY <2>2
      <4> QED
          BY <4>1, <4>2, <4>3 DEF ChunkAt, Untouched
    <3> HIDE DEF w
    <3>4. \A i \in DOMAIN w.out :
              \E c \in 1 .. FrameChunks : w.out[i] = ChunkAt(c) /\ Untouched(c, damaged)
      <4>1. \A i \in DOMAIN w.out : (i \in DOMAIN a.out /\ w.out[i] = a.out[i]) \/ w.out[i] = buf
          BY <1>4, <2>2, <3>1
      <4> QED
          BY <1>5, <3>2, <3>3, <4>1
    <3>5. Aligned(w, n + 1, damaged)
        BY <1>6, <2>6, <3>1, <3>4 DEF Aligned
    <3> QED
        BY <2>1, <3>5
  <2>7. a.offset + 1 < ChunkBlocks \/ a.offset + 1 = ChunkBlocks
      BY <1>1, <1>4
  <2> QED
      BY <2>4, <2>5, <2>6, <2>7
<1> QED
    BY <1>7, <1>8

\* What comes through the aligner of a frame are whole chunks of the frame,
\* with their own blocks in order, none of them damaged (Decoder.h:177), for
\* every size of chunk and frame and whichever blocks are lost.
THEOREM DeliveredWhole ==
    ASSUME NEW damaged
    PROVE  /\ DeliveredChunks(damaged) \in Seq([1 .. ChunkBlocks -> Blocks \cup {0}])
           /\ \A i \in DOMAIN DeliveredChunks(damaged) :
                 \E c \in 1 .. FrameChunks : /\ DeliveredChunks(damaged)[i] = ChunkAt(c)
                                             /\ Untouched(c, damaged)
<1> DEFINE run == Align(damaged)
           S == {n \in Nat : n <= Last => Aligned(run[n], n, damaged)}
<1>1. run = [k \in 0 .. Last |-> IF k = 0 THEN NewAligner ELSE PassBlock(run[k - 1], k, damaged)]
    BY AlignIsRun DEF IsRun
<1>2. Last \in Nat
    BY Products
<1> HIDE DEF run
<1>3. 0 \in S
  <2>1. run[0] = NewAligner
      BY <1>1, <1>2
  <2> QED
      BY <2>1, AlignedInit
<1>4. ASSUME NEW n \in S PROVE n + 1 \in S
  <2>1. n \in Nat /\ n + 1 \in Nat
      OBVIOUS
  <2>2. ASSUME n + 1 <= Last PROVE Aligned(run[n + 1], n + 1, damaged)
    <3>1. n <= Last /\ n + 1 \in 0 .. Last /\ n + 1 # 0 /\ (n + 1) - 1 = n
        BY <1>2, <2>1, <2>2
    <3>2. run[n + 1] = PassBlock(run[n], n + 1, damaged)
        BY <1>1, <3>1
    <3> QED
        BY <2>1, <2>2, <3>1, <3>2, AlignedStep
  <2> QED
      BY <2>1, <2>2
<1>5. S = Nat
  <2>1. S \in SUBSET Nat
      OBVIOUS
  <2> HIDE DEF S
  <2> QED
      BY <1>3, <1>4, <2>1, AllNumbers
<1>6. Aligned(run[Last], Last, damaged)
    BY <1>2, <1>5
<1> QED
    BY <1>6 DEF Aligned, Aligner, DeliveredChunks, run, Last
=============================================================================
