--------------------------- MODULE MmChannelProofs ---------------------------
(***************************************************************************)
(* Proofs about a channel of mm-camera-interface (MmChannel), for any      *)
(* number of buffers and frames, any water mark and limits, and any number *)
(* of requests and flushes.                                                *)
(***************************************************************************)
EXTENDS DeviceServices, QueueFacts

FrameNos == 1 .. MaxFrame
AllFrames == Streams \X FrameNos
SuperBuf == [idx : Nat, bufs : [Streams -> 0 .. MaxFrame]]

(***************************************************************************)
(* The queue of superbuffers.                                              *)
(***************************************************************************)

\* The first k superbuffers are the matched ones; the others are in the order
\* of their frame numbers, of which no two are the same.
Ordered(que, k) ==
  /\ que \in Seq(SuperBuf) /\ k \in 0 .. Len(que)
  /\ \A i \in 1 .. Len(que) : Matched(que[i]) <=> i <= k
  /\ \A i, j \in k + 1 .. Len(que) : i < j => que[i].idx < que[j].idx

\* A superbuffer holds only frames of its own number.
Named(que) == \A i \in 1 .. Len(que), s \in Streams : que[i].bufs[s] \in {0, que[i].idx}

\* No frame is in two superbuffers.
Sole(que) ==
  \A i, j \in 1 .. Len(que), s \in Streams :
    que[i].bufs[s] = que[j].bufs[s] /\ que[i].bufs[s] # 0 => i = j

\* At most one unmatched superbuffer above the limit.
Roomy(que, k) == Len(que) - k <= max_unmatched_frames + 1

Sound(que, k) == Ordered(que, k) /\ Sole(que) /\ Roomy(que, k)

\* As long as the numbering has not started anew.
NamedUnlessReset(que) == resetAt = 0 => Named(que)

(***************************************************************************)
(* Where the frames are.                                                   *)
(***************************************************************************)

Command == [cmd : {"DATA"}, s : Streams, n : FrameNos]
             \cup [cmd : {"REQ"}, n : Nat]
             \cup [cmd : {"FLUSH"}, n : Nat, s : {Streams, {"meta"}}]

Pair == [Streams -> FrameNos]

\* The command that brings a frame.
Brings(c, f) == c.cmd = "DATA" /\ c.s = f[1] /\ c.n = f[2]

\* In the channel's commands, on the way to the HAL, and with it.
CmdFrames(q) == {f \in AllFrames : \E i \in 1 .. Len(q) : Brings(q[i], f)}
CbFrames(q)  == {f \in AllFrames : \E i \in 1 .. Len(q) : q[i][f[1]] = f[2]}
HalFrames(W) == {f \in AllFrames : \E bufs \in W : bufs[f[1]] = f[2]}

\* Sets of frames of which no two have one in common.
Apart6(A, B, C, D, E, F) ==
  /\ A \cap B = {} /\ A \cap C = {} /\ A \cap D = {} /\ A \cap E = {} /\ A \cap F = {}
  /\ B \cap C = {} /\ B \cap D = {} /\ B \cap E = {} /\ B \cap F = {}
  /\ C \cap D = {} /\ C \cap E = {} /\ C \cap F = {}
  /\ D \cap E = {} /\ D \cap F = {}
  /\ E \cap F = {}

SuperQs == [que : Seq(SuperBuf), match_cnt : Int, expected : Nat, stuck : BOOLEAN]

MmTypeOK ==
  /\ chType \in {"zsl", "live"} /\ resetAt \in Nat
  /\ sensor \in [Streams -> 0 .. MaxFrame]
  /\ refcnt \in [Streams -> [FrameNos -> Nat]]
  /\ pollPc \in {"idle", "app"} /\ appData \subseteq FrameNos
  /\ mmCmds \in Seq(Command) /\ cbCmds \in Seq(Pair) /\ withHal \subseteq Pair
  /\ superQ \in SuperQs
  /\ pending_cnt \in Nat
  /\ forgotten \subseteq AllFrames /\ leaked \subseteq AllFrames

\* The phases a channel of its type goes through; a flush is on its way in
\* one of them, with nothing of a borrowed stream behind it.
IsFlush(c) == c.cmd = "FLUSH"
IsMeta(c) == c.cmd = "DATA" /\ c.s = "meta"

NoFlush(q) == \A i \in 1 .. Len(q) : ~IsFlush(q[i])

FlushLast(q, borrowed) ==
  \A i \in 1 .. Len(q) : IsFlush(q[i]) =>
    /\ q[i].s = IF borrowed THEN {"meta"} ELSE Streams
    /\ \A j \in 1 .. Len(q) : IsFlush(q[j]) => i = j
    /\ borrowed => \A j \in i + 1 .. Len(q) : ~IsMeta(q[j])

PhaseInv ==
  /\ halPc \in IF Linked THEN {"run", "unlinked", "flushed", "stopped", "closed"}
               ELSE {"run", "flush", "snapStopped", "stopped", "closed"}
  /\ FlushLast(mmCmds, Linked)
  /\ halPc # (IF Linked THEN "unlinked" ELSE "flush") => NoFlush(mmCmds)
  /\ halPc = "closed" => mmCmds = << >> /\ superQ.que = << >>

\* Nothing of a borrowed stream is left when it has been given up.
MetaGone ==
  Linked /\ halPc \in {"flushed", "stopped", "closed"} =>
    \A f \in CmdFrames(mmCmds) \cup FramesOf(superQ.que) : f[1] # "meta"

\* The queue, until the threads end.
QueueInv ==
  /\ ~superQ.stuck
  /\ halPc # "closed" => Sound(superQ.que, superQ.match_cnt) /\ NamedUnlessReset(superQ.que)
  /\ notify_mode = "BURST" => superQ.match_cnt <= water_mark

\* What the HAL gets is of one number.
SameNumber(q) == \A i \in 1 .. Len(q) : q[i]["snap"] = q[i]["meta"]

PairsMatch ==
  resetAt = 0 => SameNumber(cbCmds) /\ \A bufs \in withHal : bufs["snap"] = bufs["meta"]

\* Each frame the channel got is in one place.
Once(q) == \A f \in AllFrames, i, j \in 1 .. Len(q) : Brings(q[i], f) /\ Brings(q[j], f) => i = j
Pairwise(q) == \A i, j \in 1 .. Len(q), s \in Streams : q[i][s] = q[j][s] => i = j
Separate(W) == \A a, b \in W, s \in Streams : a[s] = b[s] => a = b

OnePlace ==
  /\ Apart6(CmdFrames(mmCmds), FramesOf(superQ.que), CbFrames(cbCmds), HalFrames(withHal),
            forgotten, leaked)
  /\ Once(mmCmds) /\ Pairwise(cbCmds) /\ Separate(withHal)

Placed == CmdFrames(mmCmds) \cup FramesOf(superQ.que) \cup CbFrames(cbCmds)
            \cup HalFrames(withHal) \cup forgotten \cup leaked

\* Frames come one after the other; the stream's callback has those it was
\* told of.
SeenInv ==
  /\ \A f \in Placed : f[2] <= sensor[f[1]]
  /\ \A n \in appData : n <= sensor["meta"]
  /\ pollPc = "app" => sensor["meta"] \notin appData /\ sensor["meta"] # 0

One(b) == IF b THEN 1 ELSE 0

\* The references to a frame.
CountInv ==
  \A s \in Streams, n \in FrameNos :
    Streaming(s) => refcnt[s][n] = One(<<s, n>> \in Placed) + StreamRefs(s, n)

\* What may be lost.
LossInv ==
  /\ \A f \in forgotten :
       Streaming(f[1]) => resetAt # 0 \/ (f[1] = "snap" /\ halPc = "flushed")
  /\ \A f \in leaked : Streaming(f[1]) => f[1] = "meta" /\ Linked /\ halPc # "run"

MmIndInv == /\ MmTypeOK /\ PhaseInv /\ MetaGone /\ QueueInv /\ PairsMatch
            /\ OnePlace /\ SeenInv /\ CountInv /\ LossInv
-----------------------------------------------------------------------------
(* Numbers and places.                                                      *)

\* The constants are numbers.
LEMMA Limits == /\ MaxFrame \in Nat /\ water_mark \in Nat /\ look_back \in Nat
                /\ post_frame_skip \in Nat /\ max_unmatched_frames \in Nat
                /\ Resets \subseteq 0 .. MaxFrame
  BY MmAssumption

\* The least element.
LEMMA MinIs ==
  ASSUME NEW S \in SUBSET Int, NEW x \in S, \A y \in S : x <= y
  PROVE  Min(S) = x
<1>1. Min(S) \in S /\ \A y \in S : Min(S) <= y
  BY DEF Min
<1>2. x \in Int /\ Min(S) \in Int /\ x <= Min(S) /\ Min(S) <= x
  BY <1>1
<1> QED BY <1>2

\* What a superbuffer is.
LEMMA SuperBufType ==
  ASSUME NEW que \in Seq(SuperBuf)
  PROVE  /\ Len(que) \in Nat /\ DOMAIN que = 1 .. Len(que)
         /\ \A i \in 1 .. Len(que) :
              /\ que[i] \in SuperBuf /\ que[i].idx \in Nat
              /\ \A s \in Streams : que[i].bufs[s] \in 0 .. MaxFrame
              /\ Matched(que[i]) <=> que[i].bufs["snap"] # 0 /\ que[i].bufs["meta"] # 0
<1>1. Len(que) \in Nat /\ DOMAIN que = 1 .. Len(que) /\ \A i \in 1 .. Len(que) : que[i] \in SuperBuf
  BY LenProperties, ElementOfSeq
<1> QED BY <1>1 DEF SuperBuf, Streams, Matched

\* The frames at the places a to b.
FramesIn(que, a, b) ==
  {f \in AllFrames : \E i \in a .. b : que[i].bufs[f[1]] = f[2]}

\* The frames of a queue are those of all its places.
LEMMA FramesAre ==
  ASSUME NEW que \in Seq(SuperBuf)
  PROVE  FramesOf(que) = FramesIn(que, 1, Len(que))
<1>0. /\ Len(que) \in Nat /\ DOMAIN que = 1 .. Len(que)
      /\ \A i \in 1 .. Len(que), s \in Streams : que[i].bufs[s] \in 0 .. MaxFrame
  BY SuperBufType
<1>1. ASSUME NEW f \in FramesOf(que) PROVE f \in FramesIn(que, 1, Len(que))
  <2>1. PICK i \in 1 .. Len(que) :
             f \in {<<s, que[i].bufs[s]>> : s \in {t \in Streams : que[i].bufs[t] # 0}}
    BY <1>0 DEF FramesOf
  <2>2. PICK s \in Streams : que[i].bufs[s] # 0 /\ f = <<s, que[i].bufs[s]>>
    BY <2>1
  <2>3. que[i].bufs[s] \in FrameNos
    BY <1>0, <2>2, Limits DEF FrameNos
  <2>4. f \in AllFrames /\ f[1] = s /\ f[2] = que[i].bufs[s]
    BY <2>2, <2>3 DEF AllFrames
  <2> QED BY <2>4 DEF FramesIn
<1>2. ASSUME NEW f \in FramesIn(que, 1, Len(que)) PROVE f \in FramesOf(que)
  <2>1. PICK i \in 1 .. Len(que) : f \in AllFrames /\ que[i].bufs[f[1]] = f[2]
    BY DEF FramesIn
  <2>2. f = <<f[1], f[2]>> /\ f[1] \in Streams /\ f[2] # 0
    BY <2>1 DEF AllFrames, FrameNos
  <2>3. f \in {<<s, que[i].bufs[s]>> : s \in {t \in Streams : que[i].bufs[t] # 0}}
    BY <2>1, <2>2
  <2> QED BY <1>0, <2>3 DEF FramesOf
<1> QED BY <1>1, <1>2

\* An empty queue.
LEMMA EmptyQueue == Sound(<< >>, 0) /\ Named(<< >>) /\ FramesOf(<< >>) = {}
<1>1. << >> \in Seq(SuperBuf) /\ Len(<< >>) = 0
  BY EmptySeq
<1>2. FramesOf(<< >>) = {}
  BY DEF FramesOf
<1> QED BY <1>1, <1>2, Limits DEF Sound, Ordered, Named, Sole, Roomy

\* In an ordered queue the unmatched superbuffers are those behind the first k.
LEMMA UnmatchedAre ==
  ASSUME NEW que, NEW k, Ordered(que, k)
  PROVE  /\ Unmatched(que) = k + 1 .. Len(que)
         /\ Cardinality(Unmatched(que)) = Len(que) - k
         /\ Lead(que) = k
<1>1. Len(que) \in Nat /\ DOMAIN que = 1 .. Len(que) /\ k \in 0 .. Len(que)
  BY SuperBufType DEF Ordered
<1>2. Unmatched(que) = k + 1 .. Len(que)
  BY <1>1 DEF Ordered, Unmatched
<1>3. Cardinality(k + 1 .. Len(que)) = Len(que) - k
  <2> DEFINE a == k + 1
             b == Len(que)
  <2>1. a \in Int /\ b \in Int
    BY <1>1
  <2>2. Cardinality(a .. b) = IF a > b THEN 0 ELSE b - a + 1
    <3> HIDE DEF a, b
    <3> QED BY <2>1, FS_Interval
  <2> QED BY <1>1, <2>2
<1>4. Lead(que) = k
  <2>1. CASE k = Len(que)
    <3>1. k + 1 .. Len(que) = {}
      BY <1>1, <2>1
    <3> QED BY <1>1, <1>2, <2>1, <3>1 DEF Lead
  <2>2. CASE k < Len(que)
    <3>1. k + 1 \in k + 1 .. Len(que) /\ \A y \in k + 1 .. Len(que) : k + 1 <= y
      BY <1>1, <2>2
    <3>2. k + 1 .. Len(que) \in SUBSET Int
      BY <1>1
    <3>3. Min(k + 1 .. Len(que)) = k + 1
      BY <3>1, <3>2, MinIs
    <3>4. k + 1 .. Len(que) # {}
      BY <3>1
    <3>5. Lead(que) = Min(Unmatched(que)) - 1
      BY <1>2, <3>4 DEF Lead
    <3>6. Min(Unmatched(que)) = k + 1
      BY <1>2, <3>3
    <3>7. k \in Nat
      BY <1>1
    <3> QED BY <3>5, <3>6, <3>7
  <2>3. k = Len(que) \/ k < Len(que)
    <3>1. Len(que) \in Nat /\ k \in 0 .. Len(que)
      BY <1>1
    <3> QED BY <3>1
  <2> QED BY <2>1, <2>2, <2>3
<1> QED BY <1>2, <1>3, <1>4
-----------------------------------------------------------------------------
(* Taking superbuffers out of a queue and putting them in.                  *)

\* The places a to b of a queue as a queue.
IsPart(que, q, a, b) ==
  q \in Seq(SuperBuf) /\ Len(q) = b - a + 1 /\ \A i \in 1 .. Len(q) : q[i] = que[a + i - 1]

\* SubSeq() gives them.
LEMMA PartIs ==
  ASSUME NEW que \in Seq(SuperBuf), NEW a \in 1 .. Len(que) + 1, NEW b \in 0 .. Len(que), a <= b + 1
  PROVE  IsPart(que, SubSeq(que, a, b), a, b)
<1>1. Len(que) \in Nat /\ \A i \in 1 .. Len(que) : que[i] \in SuperBuf
  BY LenProperties, ElementOfSeq
<1>2. a \in Int /\ b \in Int /\ \A i \in a .. b : que[i] \in SuperBuf
  BY <1>1
<1>3. /\ SubSeq(que, a, b) \in Seq(SuperBuf)
      /\ Len(SubSeq(que, a, b)) = IF a <= b THEN b - a + 1 ELSE 0
      /\ \A i \in 1 .. b - a + 1 : SubSeq(que, a, b)[i] = que[a + i - 1]
  BY <1>2, SubSeqProperties
<1> DEFINE q == SubSeq(que, a, b)
<1>4. /\ q \in Seq(SuperBuf) /\ Len(q) = IF a <= b THEN b - a + 1 ELSE 0
      /\ \A i \in 1 .. b - a + 1 : q[i] = que[a + i - 1]
  BY <1>3
<1> HIDE DEF q
<1>5. Len(q) = b - a + 1
  BY <1>2, <1>4
<1>6. IsPart(que, q, a, b)
  BY <1>4, <1>5 DEF IsPart
<1> QED BY <1>6 DEF q

\* Its frames are those of the places.
LEMMA PartFrames ==
  ASSUME NEW que \in Seq(SuperBuf), NEW a \in 1 .. Len(que) + 1, NEW b \in 0 .. Len(que), a <= b + 1
  PROVE  FramesOf(SubSeq(que, a, b)) = FramesIn(que, a, b)
<1> DEFINE q == SubSeq(que, a, b)
<1>1. IsPart(que, q, a, b)
  BY PartIs
<1>0. Len(que) \in Nat /\ a \in Int /\ b \in Int
  BY LenProperties
<1> HIDE DEF q
<1>2. FramesOf(q) = FramesIn(q, 1, Len(q))
  BY <1>1, FramesAre DEF IsPart
<1>3. ASSUME NEW f \in FramesIn(q, 1, Len(q)) PROVE f \in FramesIn(que, a, b)
  <2>1. PICK i \in 1 .. Len(q) : f \in AllFrames /\ q[i].bufs[f[1]] = f[2]
    BY DEF FramesIn
  <2>2. a + i - 1 \in a .. b /\ q[i] = que[a + i - 1]
    BY <1>0, <1>1, <2>1 DEF IsPart
  <2> QED BY <2>1, <2>2 DEF FramesIn
<1>4. ASSUME NEW f \in FramesIn(que, a, b) PROVE f \in FramesIn(q, 1, Len(q))
  <2>1. PICK i \in a .. b : f \in AllFrames /\ que[i].bufs[f[1]] = f[2]
    BY DEF FramesIn
  <2>2. i - a + 1 \in 1 .. Len(q) /\ a + (i - a + 1) - 1 = i
    BY <1>0, <1>1, <2>1 DEF IsPart
  <2>3. q[i - a + 1] = que[i]
    BY <1>1, <2>2 DEF IsPart
  <2> QED BY <2>1, <2>2, <2>3 DEF FramesIn
<1> QED BY <1>2, <1>3, <1>4 DEF q

\* The places up to a and those from c, with one superbuffer between.
IsSplice(que, q, a, b, c) ==
  /\ q \in Seq(SuperBuf) /\ Len(q) = a + 1 + (Len(que) + 1 - c)
  /\ \A i \in 1 .. a : q[i] = que[i]
  /\ q[a + 1] = b
  /\ \A i \in c .. Len(que) : q[i - c + a + 2] = que[i]

\* How Join() and Insert() build it.
LEMMA SpliceIs ==
  ASSUME NEW que \in Seq(SuperBuf), NEW a \in 0 .. Len(que), NEW b \in SuperBuf,
         NEW c \in 1 .. Len(que) + 1
  PROVE  IsSplice(que, SubSeq(que, 1, a) \o << b >> \o SubSeq(que, c, Len(que)), a, b, c)
<1>0. Len(que) \in Nat /\ a \in Int /\ c \in Int
  BY LenProperties
<1> DEFINE x == SubSeq(que, 1, a)
           y == << b >>
           z == SubSeq(que, c, Len(que))
<1>1. IsPart(que, x, 1, a)
  <2>1. 1 \in 1 .. Len(que) + 1 /\ 1 <= a + 1
    BY <1>0
  <2> QED BY <2>1, PartIs
<1>2. IsPart(que, z, c, Len(que))
  <2>1. Len(que) \in 0 .. Len(que) /\ c <= Len(que) + 1
    BY <1>0
  <2> QED BY <2>1, PartIs
<1>3. y \in Seq(SuperBuf) /\ Len(y) = 1 /\ y[1] = b
  OBVIOUS
<1> HIDE DEF x, y, z
<1> DEFINE w == x \o y
<1>4. /\ w \in Seq(SuperBuf) /\ Len(w) = Len(x) + Len(y)
      /\ \A i \in 1 .. Len(x) + Len(y) : w[i] = IF i <= Len(x) THEN x[i] ELSE y[i - Len(x)]
  BY <1>1, <1>3, ConcatProperties DEF IsPart
<1> HIDE DEF w
<1> DEFINE q == w \o z
<1>5. /\ q \in Seq(SuperBuf) /\ Len(q) = Len(w) + Len(z)
      /\ \A i \in 1 .. Len(w) + Len(z) : q[i] = IF i <= Len(w) THEN w[i] ELSE z[i - Len(w)]
  <2>1. w \in Seq(SuperBuf) /\ z \in Seq(SuperBuf)
    BY <1>2, <1>4 DEF IsPart
  <2> QED BY <2>1, ConcatProperties
<1> HIDE DEF q
<1>6. Len(x) = a /\ Len(y) = 1 /\ Len(w) = a + 1 /\ Len(z) = Len(que) + 1 - c
  BY <1>0, <1>1, <1>2, <1>3, <1>4 DEF IsPart
<1>7. q \in Seq(SuperBuf) /\ Len(q) = a + 1 + (Len(que) + 1 - c)
  BY <1>5, <1>6
<1>8. ASSUME NEW i \in 1 .. a PROVE q[i] = que[i]
  <2>1. /\ i \in 1 .. Len(w) + Len(z) /\ i <= Len(w) /\ i \in 1 .. Len(x) + Len(y)
        /\ i <= Len(x) /\ i \in 1 .. Len(x) /\ 1 + i - 1 = i
    BY <1>0, <1>6
  <2>2. q[i] = w[i] /\ w[i] = x[i]
    BY <1>4, <1>5, <2>1
  <2>3. x[i] = que[1 + i - 1]
    BY <1>1, <2>1 DEF IsPart
  <2> QED BY <2>1, <2>2, <2>3
<1>9. q[a + 1] = b
  <2>1. /\ a + 1 \in 1 .. Len(w) + Len(z) /\ a + 1 <= Len(w) /\ a + 1 \in 1 .. Len(x) + Len(y)
        /\ ~(a + 1 <= Len(x)) /\ a + 1 - Len(x) = 1
    BY <1>0, <1>6
  <2> QED BY <1>3, <1>4, <1>5, <2>1
<1>10. ASSUME NEW i \in c .. Len(que) PROVE q[i - c + a + 2] = que[i]
  <2> DEFINE j == i - c + a + 2
  <2>1. /\ j \in 1 .. Len(w) + Len(z) /\ ~(j <= Len(w)) /\ j - Len(w) = i - c + 1
        /\ i - c + 1 \in 1 .. Len(z) /\ c + (i - c + 1) - 1 = i
    BY <1>0, <1>6
  <2> HIDE DEF j
  <2>2. q[j] = z[i - c + 1]
    BY <1>5, <2>1
  <2>3. z[i - c + 1] = que[c + (i - c + 1) - 1]
    BY <1>2, <2>1 DEF IsPart
  <2> QED BY <2>1, <2>2, <2>3 DEF j
<1>11. IsSplice(que, q, a, b, c)
  BY <1>7, <1>8, <1>9, <1>10 DEF IsSplice
<1> QED BY <1>11 DEF q, w, x, y, z

\* A queue without the m places that follow place a.
CutOut(que, q, a, m) ==
  /\ a \in Nat /\ m \in Nat /\ a + m <= Len(que)
  /\ q \in Seq(SuperBuf) /\ Len(q) = Len(que) - m
  /\ \A i \in 1 .. Len(q) : q[i] = que[IF i <= a THEN i ELSE i + m]

\* What DropFirst() leaves.
LEMMA DropCuts ==
  ASSUME NEW que \in Seq(SuperBuf), NEW k \in 0 .. Len(que)
  PROVE  CutOut(que, SubSeq(que, k + 1, Len(que)), 0, k)
<1> DEFINE q == SubSeq(que, k + 1, Len(que))
<1>0. Len(que) \in Nat
  BY LenProperties
<1>1. IsPart(que, q, k + 1, Len(que))
  <2>1. k + 1 \in 1 .. Len(que) + 1 /\ Len(que) \in 0 .. Len(que) /\ k + 1 <= Len(que) + 1
    BY <1>0
  <2> DEFINE a == k + 1
             b == Len(que)
  <2>2. a \in 1 .. Len(que) + 1 /\ b \in 0 .. Len(que) /\ a <= b + 1
    BY <2>1
  <2>3. IsPart(que, SubSeq(que, a, b), a, b)
    <3> HIDE DEF a, b
    <3> QED BY <2>2, PartIs
  <2> QED BY <2>3
<1> HIDE DEF q
<1>2. /\ q \in Seq(SuperBuf) /\ Len(q) = Len(que) - k
      /\ \A i \in 1 .. Len(q) : q[i] = que[k + 1 + i - 1]
  BY <1>0, <1>1 DEF IsPart
<1>3. \A i \in 1 .. Len(q) : ~(i <= 0) /\ k + 1 + i - 1 = i + k
  BY <1>0
<1>4. CutOut(que, q, 0, k)
  BY <1>0, <1>2, <1>3 DEF CutOut
<1> QED BY <1>4 DEF q

\* What RemoveAt() leaves.
LEMMA RemoveCuts ==
  ASSUME NEW que \in Seq(SuperBuf), NEW k \in 0 .. Len(que) - 1
  PROVE  CutOut(que, RemoveAt(que, k + 1), k, 1)
<1>0. Len(que) \in Nat /\ k + 1 - 1 = k /\ k + 1 + 1 = k + 2
  BY LenProperties
<1> DEFINE x == SubSeq(que, 1, k)
           z == SubSeq(que, k + 2, Len(que))
           q == x \o z
<1>1. IsPart(que, x, 1, k)
  <2>1. 1 \in 1 .. Len(que) + 1 /\ 1 <= k + 1 /\ k \in 0 .. Len(que)
    BY <1>0
  <2> QED BY <2>1, PartIs
<1>2. IsPart(que, z, k + 2, Len(que))
  <2> DEFINE a == k + 2
             b == Len(que)
  <2>2. a \in 1 .. Len(que) + 1 /\ b \in 0 .. Len(que) /\ a <= b + 1
    BY <1>0
  <2>3. IsPart(que, SubSeq(que, a, b), a, b)
    <3> HIDE DEF a, b
    <3> QED BY <2>2, PartIs
  <2> QED BY <2>3
<1>3. RemoveAt(que, k + 1) = q
  <2> DEFINE p == k + 1
  <2>1. p - 1 = k /\ p + 1 = k + 2
    BY <1>0
  <2> HIDE DEF p
  <2>2. RemoveAt(que, p) = SubSeq(que, 1, p - 1) \o SubSeq(que, p + 1, Len(que))
    BY DEF RemoveAt
  <2>3. RemoveAt(que, p) = q
    BY <2>1, <2>2, Zenon
  <2> QED BY <2>3 DEF p
<1> HIDE DEF x, z
<1>4. /\ q \in Seq(SuperBuf) /\ Len(q) = Len(x) + Len(z)
      /\ \A i \in 1 .. Len(x) + Len(z) : q[i] = IF i <= Len(x) THEN x[i] ELSE z[i - Len(x)]
  BY <1>1, <1>2, ConcatProperties DEF IsPart
<1> HIDE DEF q
<1>5. Len(x) = k /\ Len(z) = Len(que) - k - 1 /\ Len(q) = Len(que) - 1
  BY <1>0, <1>1, <1>2, <1>4 DEF IsPart
<1>6. ASSUME NEW i \in 1 .. Len(q) PROVE q[i] = que[IF i <= k THEN i ELSE i + 1]
  <2>0. i \in 1 .. Len(x) + Len(z)
    BY <1>4
  <2>1. CASE i <= k
    <3>1. i \in 1 .. Len(x) /\ 1 + i - 1 = i /\ i <= Len(x)
      BY <1>0, <1>5, <2>1
    <3> QED BY <1>1, <1>4, <2>0, <2>1, <3>1 DEF IsPart
  <2>2. CASE ~(i <= k)
    <3>1. i - k \in 1 .. Len(z) /\ k + 2 + (i - k) - 1 = i + 1 /\ ~(i <= Len(x))
      BY <1>0, <1>5, <2>2
    <3>2. q[i] = z[i - k]
      BY <1>4, <1>5, <2>0, <3>1
    <3>3. z[i - k] = que[k + 2 + (i - k) - 1]
      BY <1>2, <3>1 DEF IsPart
    <3> QED BY <2>2, <3>1, <3>2, <3>3
  <2> QED BY <2>1, <2>2
<1>7. CutOut(que, q, k, 1)
  BY <1>0, <1>4, <1>5, <1>6 DEF CutOut
<1> QED BY <1>3, <1>7
-----------------------------------------------------------------------------
(* What this does to the order of the queue and to its frames.              *)

\* The frames of one superbuffer.
BufFrames(b) == {f \in AllFrames : b.bufs[f[1]] = f[2]}

\* The places of a queue in three parts, of which no two share a frame.
LEMMA FramesSplit ==
  ASSUME NEW que \in Seq(SuperBuf), Sole(que), NEW a \in 0 .. Len(que), NEW c \in a + 1 .. Len(que) + 1
  PROVE  /\ FramesOf(que) = FramesIn(que, 1, a) \cup FramesIn(que, a + 1, c - 1)
                              \cup FramesIn(que, c, Len(que))
         /\ FramesIn(que, 1, a) \cap FramesIn(que, a + 1, c - 1) = {}
         /\ FramesIn(que, 1, a) \cap FramesIn(que, c, Len(que)) = {}
         /\ FramesIn(que, a + 1, c - 1) \cap FramesIn(que, c, Len(que)) = {}
<1>0. Len(que) \in Nat /\ a \in Int /\ c \in Int
  BY LenProperties
<1>1. FramesOf(que) = FramesIn(que, 1, Len(que))
  BY FramesAre
<1>2. \A i \in 1 .. Len(que) : i \in 1 .. a \/ i \in a + 1 .. c - 1 \/ i \in c .. Len(que)
  BY <1>0
<1>3. /\ \A i \in 1 .. a : i \in 1 .. Len(que)
      /\ \A i \in a + 1 .. c - 1 : i \in 1 .. Len(que)
      /\ \A i \in c .. Len(que) : i \in 1 .. Len(que)
  BY <1>0
<1>4. FramesIn(que, 1, Len(que)) = FramesIn(que, 1, a) \cup FramesIn(que, a + 1, c - 1)
                                     \cup FramesIn(que, c, Len(que))
  BY <1>2, <1>3, Zenon DEF FramesIn
<1>5. \A f \in AllFrames : f[1] \in Streams /\ f[2] # 0
  BY DEF AllFrames, FrameNos
<1>6. \A f \in AllFrames, i, j \in 1 .. Len(que) :
        que[i].bufs[f[1]] = f[2] /\ que[j].bufs[f[1]] = f[2] => i = j
  <2> SUFFICES ASSUME NEW f \in AllFrames, NEW i \in 1 .. Len(que), NEW j \in 1 .. Len(que),
                      que[i].bufs[f[1]] = f[2], que[j].bufs[f[1]] = f[2]
               PROVE  i = j
    OBVIOUS
  <2> DEFINE s == f[1]
  <2>1. s \in Streams /\ que[i].bufs[s] = que[j].bufs[s] /\ que[i].bufs[s] # 0
    BY <1>5
  <2> HIDE DEF s
  <2> QED BY <2>1 DEF Sole
<1>7. \A i \in 1 .. a, j \in a + 1 .. c - 1 : i # j
  BY <1>0
<1>8. \A i \in 1 .. a, j \in c .. Len(que) : i # j
  BY <1>0
<1>9. \A i \in a + 1 .. c - 1, j \in c .. Len(que) : i # j
  BY <1>0
<1>10. FramesIn(que, 1, a) \cap FramesIn(que, a + 1, c - 1) = {}
  BY <1>3, <1>6, <1>7, Zenon DEF FramesIn
<1>11. FramesIn(que, 1, a) \cap FramesIn(que, c, Len(que)) = {}
  BY <1>3, <1>6, <1>8, Zenon DEF FramesIn
<1>12. FramesIn(que, a + 1, c - 1) \cap FramesIn(que, c, Len(que)) = {}
  BY <1>3, <1>6, <1>9, Zenon DEF FramesIn
<1> QED BY <1>1, <1>4, <1>10, <1>11, <1>12

\* A cut keeps the order, and the frames it takes out are gone.
LEMMA CutKeeps ==
  ASSUME NEW que, NEW k, Sound(que, k), NEW q, NEW a, NEW m, CutOut(que, q, a, m),
         NEW l, (a + m <= k /\ l = k - m) \/ (a = k /\ l = k)
  PROVE  /\ Sound(q, l) /\ (Named(que) => Named(q))
         /\ FramesOf(que) = FramesOf(q) \cup FramesIn(que, a + 1, a + m)
         /\ FramesOf(q) \cap FramesIn(que, a + 1, a + m) = {}
<1>0. /\ Len(que) \in Nat /\ k \in 0 .. Len(que) /\ a \in Nat /\ m \in Nat /\ a + m <= Len(que)
      /\ Len(q) = Len(que) - m /\ que \in Seq(SuperBuf) /\ q \in Seq(SuperBuf) /\ l \in Nat
      /\ max_unmatched_frames \in Nat
  BY LenProperties, Limits DEF Sound, Ordered, CutOut
<1> DEFINE at(i) == IF i <= a THEN i ELSE i + m
<1>1. \A i \in 1 .. Len(q) : at(i) \in 1 .. Len(que) /\ q[i] = que[at(i)]
  BY <1>0 DEF CutOut
<1>2. \A i, j \in 1 .. Len(q) : (i < j => at(i) < at(j)) /\ (at(i) = at(j) => i = j)
  BY <1>0
<1>3. \A i \in 1 .. Len(q) : at(i) <= k <=> i <= l
  BY <1>0
<1>4. l \in 0 .. Len(q) /\ Len(q) - l <= Len(que) - k
  BY <1>0
<1>5. \A i \in l + 1 .. Len(q) : i \in 1 .. Len(q) /\ at(i) \in k + 1 .. Len(que)
  BY <1>0, <1>4
<1> HIDE DEF at
<1>6. Ordered(q, l)
  <2>1. \A i \in 1 .. Len(q) : Matched(q[i]) <=> i <= l
    BY <1>1, <1>3 DEF Sound, Ordered
  <2>2. \A i, j \in l + 1 .. Len(q) : i < j => q[i].idx < q[j].idx
    BY <1>1, <1>2, <1>5 DEF Sound, Ordered
  <2> QED BY <1>0, <1>4, <2>1, <2>2 DEF Ordered
<1>7. Sole(q)
  <2> SUFFICES ASSUME NEW i \in 1 .. Len(q), NEW j \in 1 .. Len(q), NEW s \in Streams,
                      q[i].bufs[s] = q[j].bufs[s], q[i].bufs[s] # 0
               PROVE  i = j
    BY DEF Sole
  <2>1. /\ at(i) \in 1 .. Len(que) /\ at(j) \in 1 .. Len(que)
        /\ q[i] = que[at(i)] /\ q[j] = que[at(j)]
    BY <1>1
  <2>2. que[at(i)].bufs[s] = que[at(j)].bufs[s] /\ que[at(i)].bufs[s] # 0
    BY <2>1
  <2>3. Sole(que)
    BY DEF Sound
  <2>4. at(i) = at(j)
    BY <2>1, <2>2, <2>3 DEF Sole
  <2> QED BY <1>2, <2>4
<1>8. Roomy(q, l)
  BY <1>0, <1>4 DEF Sound, Roomy
<1>9. Named(que) => Named(q)
  BY <1>1 DEF Named
<1>10. FramesOf(q) = FramesIn(que, 1, a) \cup FramesIn(que, a + m + 1, Len(que))
  <2>1. FramesOf(q) = FramesIn(q, 1, Len(q))
    BY <1>0, FramesAre
  <2>2. \A i \in 1 .. Len(q) : at(i) \in 1 .. a \/ at(i) \in a + m + 1 .. Len(que)
    BY <1>0 DEF at
  <2>3. \A i \in 1 .. a : i \in 1 .. Len(q) /\ at(i) = i
    BY <1>0 DEF at
  <2>4. \A i \in a + m + 1 .. Len(que) : i - m \in 1 .. Len(q) /\ at(i - m) = i
    BY <1>0 DEF at
  <2>5. FramesIn(q, 1, Len(q)) \subseteq FramesIn(que, 1, a) \cup FramesIn(que, a + m + 1, Len(que))
    BY <1>1, <2>2 DEF FramesIn
  <2>6. FramesIn(que, 1, a) \subseteq FramesIn(q, 1, Len(q))
    BY <1>1, <2>3 DEF FramesIn
  <2>7. FramesIn(que, a + m + 1, Len(que)) \subseteq FramesIn(q, 1, Len(q))
    BY <1>1, <2>4 DEF FramesIn
  <2> QED BY <2>1, <2>5, <2>6, <2>7
<1>11. /\ FramesOf(que) = FramesOf(q) \cup FramesIn(que, a + 1, a + m)
       /\ FramesOf(q) \cap FramesIn(que, a + 1, a + m) = {}
  <2> DEFINE c == a + m + 1
  <2>1. a \in 0 .. Len(que) /\ c \in a + 1 .. Len(que) + 1 /\ c - 1 = a + m
    BY <1>0
  <2> HIDE DEF c
  <2>2. /\ FramesOf(que) = FramesIn(que, 1, a) \cup FramesIn(que, a + 1, c - 1)
                              \cup FramesIn(que, c, Len(que))
        /\ FramesIn(que, 1, a) \cap FramesIn(que, a + 1, c - 1) = {}
        /\ FramesIn(que, 1, a) \cap FramesIn(que, c, Len(que)) = {}
        /\ FramesIn(que, a + 1, c - 1) \cap FramesIn(que, c, Len(que)) = {}
    BY <1>0, <2>1, FramesSplit DEF Sound
  <2>3. FramesOf(q) = FramesIn(que, 1, a) \cup FramesIn(que, c, Len(que))
    BY <1>10 DEF c
  <2> QED BY <2>1, <2>2, <2>3
<1> QED BY <1>6, <1>7, <1>8, <1>9, <1>11 DEF Sound

\* The superbuffer put in has no frame in common with those that stay.
Fresh(que, a, b, c) ==
  \A i \in (1 .. a) \cup (c .. Len(que)), s \in Streams :
    b.bufs[s] # 0 => que[i].bufs[s] # b.bufs[s]

\* It becomes the last of the matched ones, or stands where its number puts it.
Fits(que, k, a, b, c, l) ==
  \/ Matched(b) /\ a = k /\ l = k + 1
  \/ /\ ~Matched(b) /\ l = k
     /\ \A i \in k + 1 .. a : que[i].idx < b.idx
     /\ \A i \in c .. Len(que) : b.idx < que[i].idx

\* A splice keeps the order and brings in the frames of its superbuffer.
LEMMA SpliceKeeps ==
  ASSUME NEW que, NEW k, Sound(que, k), NEW b \in SuperBuf,
         NEW a \in k .. Len(que), NEW c \in a + 1 .. Len(que) + 1,
         NEW q, IsSplice(que, q, a, b, c),
         NEW l, Fits(que, k, a, b, c, l), Fresh(que, a, b, c), Roomy(q, l)
  PROVE  /\ Sound(q, l)
         /\ Named(que) /\ (\A s \in Streams : b.bufs[s] \in {0, b.idx}) => Named(q)
         /\ FramesOf(q) = FramesIn(que, 1, a) \cup BufFrames(b) \cup FramesIn(que, c, Len(que))
<1>0. /\ Len(que) \in Nat /\ k \in 0 .. Len(que) /\ a \in Nat /\ c \in Int
      /\ Len(q) = a + 1 + (Len(que) + 1 - c) /\ que \in Seq(SuperBuf) /\ q \in Seq(SuperBuf)
      /\ a + 1 <= c /\ c <= Len(que) + 1 /\ k <= a
  BY LenProperties DEF Sound, Ordered, IsSplice
<1> DEFINE at(j) == IF j <= a THEN j ELSE j - a - 2 + c
           old == (1 .. Len(q)) \ {a + 1}
<1>1. /\ \A j \in old : at(j) \in (1 .. a) \cup (c .. Len(que))
      /\ \A j \in old : at(j) \in 1 .. Len(que)
      /\ \A i, j \in old : (i < j => at(i) < at(j)) /\ (at(i) = at(j) => i = j)
      /\ \A j \in 1 .. Len(q) : j \in old \/ j = a + 1
      /\ a + 1 \in 1 .. Len(q)
  BY <1>0
<1>2. \A j \in old : q[j] = que[at(j)]
  <2> TAKE j \in old
  <2>1. CASE j <= a
    <3>1. j \in 1 .. a
      BY <1>0, <2>1
    <3> QED BY <2>1, <3>1 DEF IsSplice
  <2>2. CASE ~(j <= a)
    <3>1. j - a - 2 + c \in c .. Len(que) /\ (j - a - 2 + c) - c + a + 2 = j
      BY <1>0, <2>2
    <3> QED BY <2>2, <3>1 DEF IsSplice
  <2> QED BY <2>1, <2>2
<1>3. q[a + 1] = b
  BY DEF IsSplice
<1>4. \A j \in 1 .. a : j \in old /\ at(j) = j
  BY <1>0
<1>5. \A i \in c .. Len(que) : i - c + a + 2 \in old /\ at(i - c + a + 2) = i
  BY <1>0
<1>6. /\ l \in 0 .. Len(q) /\ (a + 1 <= l <=> Matched(b))
      /\ \A j \in old : at(j) <= k <=> j <= l
  <2>1. CASE Matched(b) /\ a = k /\ l = k + 1
    BY <1>0, <2>1
  <2>2. CASE ~Matched(b) /\ l = k
    BY <1>0, <2>2
  <2> QED BY <2>1, <2>2 DEF Fits
<1>7. /\ \A i \in l + 1 .. Len(q) : i \in 1 .. Len(q)
      /\ \A i \in l + 1 .. Len(q) : i \in old => at(i) \in k + 1 .. Len(que)
  <2>1. \A i \in l + 1 .. Len(q) : i \in 1 .. Len(q) /\ ~(i <= l)
    BY <1>0, <1>6
  <2>2. \A i \in old : at(i) \in 1 .. Len(que) /\ (at(i) <= k <=> i <= l)
    BY <1>1, <1>6
  <2> HIDE DEF at, old
  <2>3. \A i \in l + 1 .. Len(q) : i \in old => at(i) \in k + 1 .. Len(que)
    BY <1>0, <2>1, <2>2
  <2> QED BY <2>1, <2>3
<1>8. \A i \in l + 1 .. Len(q) : i \in old => /\ i < a + 1 => at(i) \in k + 1 .. a
                                              /\ i > a + 1 => at(i) \in c .. Len(que)
  BY <1>0, <1>6, <1>7
<1> HIDE DEF at, old
<1>9. Ordered(q, l)
  <2>1. \A i \in 1 .. Len(q) : Matched(q[i]) <=> i <= l
    BY <1>1, <1>2, <1>3, <1>6 DEF Sound, Ordered
  <2>2. ASSUME NEW i \in l + 1 .. Len(q), NEW j \in l + 1 .. Len(q), i < j PROVE q[i].idx < q[j].idx
    <3>1. CASE i \in old /\ j \in old
      BY <1>1, <1>2, <1>7, <2>2, <3>1 DEF Sound, Ordered
    <3>2. CASE i = a + 1 /\ j \in old
      <4>1. ~Matched(b)
        BY <1>0, <1>6, <3>2
      <4>2. at(j) \in c .. Len(que)
        BY <1>8, <2>2, <3>2
      <4> QED BY <1>2, <1>3, <3>2, <4>1, <4>2 DEF Fits
    <3>3. CASE j = a + 1 /\ i \in old
      <4>1. ~Matched(b)
        BY <1>0, <1>6, <3>3
      <4>2. at(i) \in k + 1 .. a
        BY <1>8, <2>2, <3>3
      <4> QED BY <1>2, <1>3, <3>3, <4>1, <4>2 DEF Fits
    <3>4. i # j /\ i \in 1 .. Len(q) /\ j \in 1 .. Len(q)
      BY <1>0, <1>6, <1>7, <2>2
    <3> QED BY <1>1, <3>1, <3>2, <3>3, <3>4
  <2> QED BY <1>0, <1>6, <2>1, <2>2 DEF Ordered
<1>10. Sole(q)
  <2> SUFFICES ASSUME NEW i \in 1 .. Len(q), NEW j \in 1 .. Len(q), NEW s \in Streams,
                      q[i].bufs[s] = q[j].bufs[s], q[i].bufs[s] # 0
               PROVE  i = j
    BY DEF Sole
  <2>1. CASE i \in old /\ j \in old
    BY <1>1, <1>2, <2>1 DEF Sound, Sole
  <2>2. CASE i = a + 1 /\ j \in old
    BY <1>1, <1>2, <1>3, <2>2 DEF Fresh
  <2>3. CASE j = a + 1 /\ i \in old
    BY <1>1, <1>2, <1>3, <2>3 DEF Fresh
  <2> QED BY <1>1, <2>1, <2>2, <2>3
<1>11. Named(que) /\ (\A s \in Streams : b.bufs[s] \in {0, b.idx}) => Named(q)
  BY <1>1, <1>2, <1>3 DEF Named
<1>12. FramesOf(q) = FramesIn(que, 1, a) \cup BufFrames(b) \cup FramesIn(que, c, Len(que))
  <2>1. FramesOf(q) = FramesIn(q, 1, Len(q))
    BY <1>0, FramesAre
  <2>2. FramesIn(q, 1, Len(q)) \subseteq
          FramesIn(que, 1, a) \cup BufFrames(b) \cup FramesIn(que, c, Len(que))
    <3> SUFFICES ASSUME NEW f \in FramesIn(q, 1, Len(q))
                 PROVE  f \in FramesIn(que, 1, a) \cup BufFrames(b) \cup FramesIn(que, c, Len(que))
      OBVIOUS
    <3>1. PICK j \in 1 .. Len(q) : f \in AllFrames /\ q[j].bufs[f[1]] = f[2]
      BY DEF FramesIn
    <3>2. CASE j = a + 1
      BY <1>3, <3>1, <3>2 DEF BufFrames
    <3>3. CASE j \in old
      BY <1>1, <1>2, <3>1, <3>3 DEF FramesIn
    <3> QED BY <1>1, <3>2, <3>3
  <2>3. BufFrames(b) \subseteq FramesIn(q, 1, Len(q))
    BY <1>1, <1>3 DEF FramesIn, BufFrames
  <2>4. \A j \in old : j \in 1 .. Len(q)
    BY DEF old
  <2>5. FramesIn(que, 1, a) \subseteq FramesIn(q, 1, Len(q))
    BY <1>2, <1>4, <2>4 DEF FramesIn
  <2>6. FramesIn(que, c, Len(que)) \subseteq FramesIn(q, 1, Len(q))
    BY <1>2, <1>5, <2>4 DEF FramesIn
  <2> QED BY <2>1, <2>2, <2>3, <2>5, <2>6
<1> QED BY <1>9, <1>10, <1>11, <1>12 DEF Sound
-----------------------------------------------------------------------------
(* The operations on the queue: each keeps it sound, and every frame it was *)
(* given is afterwards in the queue, released or forgotten, never in two of *)
(* these; none is forgotten unless the numbering has started anew.          *)

Works == [q : SuperQs, free : SUBSET AllFrames, over : SUBSET AllFrames]

Held(r) == FramesOf(r.q.que) \cup r.free \cup r.over

WorkOK(r) ==
  /\ r \in Works /\ ~r.q.stuck
  /\ Sound(r.q.que, r.q.match_cnt) /\ NamedUnlessReset(r.q.que)
  /\ FramesOf(r.q.que) \cap r.free = {} /\ FramesOf(r.q.que) \cap r.over = {}
  /\ r.free \cap r.over = {}
  /\ resetAt = 0 => r.over = {}

\* The same queue with another expected frame.
LEMMA ExpectedKeeps ==
  ASSUME NEW r, WorkOK(r), NEW e \in Nat, NEW t, t = [r EXCEPT !.q.expected = e]
  PROVE  WorkOK(t) /\ Held(t) = Held(r) /\ t.over = r.over /\ t.q.que = r.q.que
<1>1. /\ t \in Works /\ t.q.que = r.q.que /\ t.q.match_cnt = r.q.match_cnt /\ t.q.stuck = r.q.stuck
      /\ t.free = r.free /\ t.over = r.over
  BY DEF WorkOK, Works, SuperQs
<1> QED BY <1>1, Zenon DEF WorkOK, Held

\* DropFirst(): matched superbuffers are released from the front.
LEMMA DropKeeps ==
  ASSUME NEW r, WorkOK(r), NEW k \in 0 .. r.q.match_cnt, NEW t, t = DropFirst(r, k)
  PROVE  /\ WorkOK(t) /\ Held(t) = Held(r) /\ t.over = r.over
         /\ t.q.match_cnt = r.q.match_cnt - k
         /\ FramesOf(r.q.que) = FramesOf(t.q.que) \cup FramesIn(r.q.que, 1, k)
         /\ FramesOf(t.q.que) \cap FramesIn(r.q.que, 1, k) = {}
<1> DEFINE que == r.q.que
           q == SubSeq(que, k + 1, Len(que))
           gone == FramesOf(SubSeq(que, 1, k))
<1>1. /\ r \in Works /\ que \in Seq(SuperBuf) /\ Len(que) \in Nat
      /\ r.q.match_cnt \in 0 .. Len(que) /\ k \in 0 .. Len(que) /\ Sound(que, r.q.match_cnt)
  <2>1. r \in Works /\ que \in Seq(SuperBuf) /\ Sound(que, r.q.match_cnt)
    BY DEF WorkOK, Works, SuperQs
  <2>2. Len(que) \in Nat /\ r.q.match_cnt \in 0 .. Len(que)
    BY <2>1, LenProperties DEF Sound, Ordered
  <2> QED BY <2>1, <2>2
<1>2. CutOut(que, q, 0, k)
  BY <1>1, DropCuts
<1>3. gone = FramesIn(que, 1, k)
  <2>1. 1 \in 1 .. Len(que) + 1 /\ 1 <= k + 1
    BY <1>1
  <2> QED BY <1>1, <2>1, PartFrames
<1>4. /\ t.q.que = q /\ t.q.match_cnt = r.q.match_cnt - k /\ t.q.stuck = r.q.stuck
      /\ t.q.expected = r.q.expected /\ t.free = r.free \cup gone /\ t.over = r.over
      /\ q \in Seq(SuperBuf) /\ gone \subseteq AllFrames => t \in Works
  <2>1. t = [r EXCEPT !.q.que = q, !.q.match_cnt = @ - k, !.free = @ \cup gone]
    BY DEF DropFirst
  <2>2. r.q.match_cnt - k \in Int
    BY <1>1
  <2> HIDE DEF gone, q, que
  <2> DEFINE w == [r.q EXCEPT !.que = q, !.match_cnt = @ - k]
  <2>3. r.q \in SuperQs /\ r.free \subseteq AllFrames /\ r.over \subseteq AllFrames
    BY <1>1 DEF Works
  <2>4. /\ w.que = q /\ w.match_cnt = r.q.match_cnt - k /\ w.stuck = r.q.stuck
        /\ w.expected = r.q.expected
        /\ q \in Seq(SuperBuf) => w \in SuperQs
    BY <2>2, <2>3 DEF SuperQs
  <2>5. t = [r EXCEPT !.q = w, !.free = @ \cup gone]
    BY <1>1, <2>1 DEF Works
  <2> HIDE DEF w
  <2>6. t.q = w /\ t.free = r.free \cup gone /\ t.over = r.over
    BY <1>1, <2>5 DEF Works
  <2>7. q \in Seq(SuperBuf) /\ gone \subseteq AllFrames => t \in Works
    BY <1>1, <2>3, <2>4, <2>5 DEF Works
  <2> QED BY <2>4, <2>6, <2>7
<1>5. q \in Seq(SuperBuf) /\ gone \subseteq AllFrames
  BY <1>2, <1>3 DEF CutOut, FramesIn
<1> HIDE DEF q, gone
<1>6. /\ Sound(q, r.q.match_cnt - k) /\ (Named(que) => Named(q))
      /\ FramesOf(que) = FramesOf(q) \cup FramesIn(que, 1, k)
      /\ FramesOf(q) \cap FramesIn(que, 1, k) = {}
  <2> DEFINE mc == r.q.match_cnt
             l == mc - k
  <2>1. 0 + k <= mc /\ l = mc - k /\ 0 + 1 = 1 /\ 0 + k = k
    BY <1>1
  <2> HIDE DEF mc, l, que
  <2>2. Sound(que, mc)
    BY <1>1 DEF mc, que
  <2>3. /\ Sound(q, l) /\ (Named(que) => Named(q))
        /\ FramesOf(que) = FramesOf(q) \cup FramesIn(que, 0 + 1, 0 + k)
        /\ FramesOf(q) \cap FramesIn(que, 0 + 1, 0 + k) = {}
    BY <1>2, <2>1, <2>2, CutKeeps
  <2> QED BY <2>1, <2>3 DEF l, mc
<1>7. Held(t) = Held(r)
  BY <1>3, <1>4, <1>6 DEF Held
<1>8. WorkOK(t)
  <2>1. t \in Works /\ ~t.q.stuck /\ Sound(t.q.que, t.q.match_cnt)
    BY <1>4, <1>5, <1>6 DEF WorkOK
  <2>2. NamedUnlessReset(t.q.que)
    BY <1>4, <1>6 DEF WorkOK, NamedUnlessReset
  <2>3. /\ FramesOf(t.q.que) \cap t.free = {} /\ FramesOf(t.q.que) \cap t.over = {}
        /\ t.free \cap t.over = {} /\ (resetAt = 0 => t.over = {})
    BY <1>3, <1>4, <1>6 DEF WorkOK
  <2> QED BY <2>1, <2>2, <2>3 DEF WorkOK
<1> QED BY <1>4, <1>6, <1>7, <1>8

\* Trim(): the loops of overflow and skip end, at their limit.
LEMMA TrimKeeps ==
  ASSUME NEW r, WorkOK(r), NEW limit \in Nat, NEW t, t = Trim(r, limit)
  PROVE  /\ WorkOK(t) /\ Held(t) = Held(r) /\ t.over = r.over
         /\ notify_mode = "BURST" => t.q.match_cnt <= limit
<1> DEFINE mc == r.q.match_cnt
<1>1. Lead(r.q.que) = mc /\ mc \in Nat /\ notify_mode \in {"BURST", "CONTINUOUS"}
  <2>1. Ordered(r.q.que, mc)
    BY DEF WorkOK, Sound
  <2>2. Lead(r.q.que) = mc
    BY <2>1, UnmatchedAre
  <2>3. mc \in Nat
    BY <2>1, LenProperties DEF Ordered
  <2> QED BY <2>2, <2>3 DEF notify_mode
<1>2. CASE notify_mode = "CONTINUOUS" \/ mc <= limit
  BY <1>2 DEF Trim
<1>3. CASE ~(notify_mode = "CONTINUOUS" \/ mc <= limit)
  <2> DEFINE k == mc - limit
  <2>1. k <= mc /\ k \in 0 .. mc /\ mc - k = limit
    BY <1>1, <1>3
  <2>2. t = DropFirst(r, k)
    BY <1>1, <1>3, <2>1 DEF Trim
  <2> HIDE DEF k
  <2>3. WorkOK(t) /\ Held(t) = Held(r) /\ t.over = r.over /\ t.q.match_cnt = mc - k
    BY <2>1, <2>2, DropKeeps
  <2>4. t.q.match_cnt <= limit
    BY <2>1, <2>3
  <2> QED BY <2>3, <2>4
<1> QED BY <1>2, <1>3

\* Flush(): the queue is empty, and match_cnt is right.
LEMMA FlushIs ==
  ASSUME NEW r, WorkOK(r), NEW streams, NEW t, t = Flush(r, streams)
  PROVE  /\ t \in Works /\ t.q.que = << >> /\ t.q.match_cnt = 0 /\ t.q.stuck = r.q.stuck
         /\ t.free = r.free \cup {f \in FramesOf(r.q.que) : f[1] \in streams}
         /\ t.over = r.over \cup {f \in FramesOf(r.q.que) : f[1] \notin streams}
<1> DEFINE que == r.q.que
           all == FramesOf(que)
           un == Cardinality(Unmatched(que))
<1>1. /\ r \in Works /\ que \in Seq(SuperBuf) /\ Len(que) \in Nat
      /\ r.q.match_cnt \in 0 .. Len(que) /\ Sound(que, r.q.match_cnt)
  <2>1. r \in Works /\ que \in Seq(SuperBuf) /\ Sound(que, r.q.match_cnt)
    BY DEF WorkOK, Works, SuperQs
  <2>2. Len(que) \in Nat /\ r.q.match_cnt \in 0 .. Len(que)
    BY <2>1, LenProperties DEF Sound, Ordered
  <2> QED BY <2>1, <2>2
<1>2. un = Len(que) - r.q.match_cnt
  BY <1>1, UnmatchedAre DEF Sound
<1>3. all \subseteq AllFrames
  BY <1>1, FramesAre DEF FramesIn
<1>4. << >> \in Seq(SuperBuf)
  BY EmptySeq
<1> HIDE DEF all, un
<1>5. t = [r EXCEPT !.q.que = << >>, !.q.match_cnt = @ - (Len(que) - un),
                    !.free = @ \cup {f \in all : f[1] \in streams},
                    !.over = @ \cup {f \in all : f[1] \notin streams}]
  BY DEF Flush, all, un
<1>6. r.q.match_cnt - (Len(que) - un) = 0
  BY <1>1, <1>2
<1> HIDE DEF que
<1>7. /\ t.q.que = << >> /\ t.q.match_cnt = r.q.match_cnt - (Len(que) - un)
      /\ t.q.stuck = r.q.stuck /\ t.q.expected = r.q.expected
      /\ t.free = r.free \cup {f \in all : f[1] \in streams}
      /\ t.over = r.over \cup {f \in all : f[1] \notin streams}
      /\ r.q.match_cnt - (Len(que) - un) \in Int => t \in Works
  <2> DEFINE d == Len(que) - un
             w == [r.q EXCEPT !.que = << >>, !.match_cnt = @ - d]
             hit == {f \in all : f[1] \in streams}
             miss == {f \in all : f[1] \notin streams}
  <2>1. r.q \in SuperQs /\ r.free \subseteq AllFrames /\ r.over \subseteq AllFrames
    BY <1>1 DEF Works
  <2>2. hit \subseteq AllFrames /\ miss \subseteq AllFrames
    BY <1>3
  <2>3. t = [r EXCEPT !.q.que = << >>, !.q.match_cnt = @ - d,
                      !.free = @ \cup hit, !.over = @ \cup miss]
    BY <1>5
  <2> HIDE DEF d, hit, miss
  <2>4. /\ w.que = << >> /\ w.match_cnt = r.q.match_cnt - d /\ w.stuck = r.q.stuck
        /\ w.expected = r.q.expected
        /\ r.q.match_cnt - d \in Int => w \in SuperQs
    BY <1>4, <2>1 DEF SuperQs
  <2>5. t = [r EXCEPT !.q = w, !.free = @ \cup hit, !.over = @ \cup miss]
    BY <1>1, <2>3 DEF Works
  <2> HIDE DEF w
  <2>6. t.q = w /\ t.free = r.free \cup hit /\ t.over = r.over \cup miss
    BY <1>1, <2>5 DEF Works
  <2>7. r.q.match_cnt - d \in Int => t \in Works
    BY <1>1, <2>1, <2>2, <2>4, <2>5 DEF Works
  <2> QED BY <2>4, <2>6, <2>7 DEF d, hit, miss
<1> QED BY <1>6, <1>7 DEF all, que

\* With all streams everything is released.
LEMMA FlushAllKeeps ==
  ASSUME NEW r, WorkOK(r), NEW t, t = Flush(r, Streams)
  PROVE  WorkOK(t) /\ Held(t) = Held(r) /\ t.over = r.over
<1>1. /\ t \in Works /\ t.q.que = << >> /\ t.q.match_cnt = 0 /\ t.q.stuck = r.q.stuck
      /\ t.free = r.free \cup {f \in FramesOf(r.q.que) : f[1] \in Streams}
      /\ t.over = r.over \cup {f \in FramesOf(r.q.que) : f[1] \notin Streams}
  BY FlushIs
<1>2. \A f \in FramesOf(r.q.que) : f[1] \in Streams
  <2>1. r.q.que \in Seq(SuperBuf)
    BY DEF WorkOK, Works, SuperQs
  <2>2. FramesOf(r.q.que) \subseteq AllFrames
    BY <2>1, FramesAre DEF FramesIn
  <2> QED BY <2>2 DEF AllFrames
<1>3. t.free = r.free \cup FramesOf(r.q.que) /\ t.over = r.over
  BY <1>1, <1>2
<1>4. Sound(t.q.que, t.q.match_cnt) /\ Named(t.q.que) /\ FramesOf(t.q.que) = {}
  BY <1>1, EmptyQueue
<1>5. Held(t) = Held(r)
  BY <1>3, <1>4 DEF Held
<1>6. WorkOK(t)
  <2>1. /\ FramesOf(t.q.que) \cap t.free = {} /\ FramesOf(t.q.que) \cap t.over = {}
        /\ t.free \cap t.over = {} /\ (resetAt = 0 => t.over = {})
    BY <1>3, <1>4 DEF WorkOK
  <2> QED BY <1>1, <1>4, <2>1 DEF WorkOK, NamedUnlessReset
<1> QED BY <1>3, <1>5, <1>6

\* Release(): the new frame goes back at once.
LEMMA ReleaseKeeps ==
  ASSUME NEW r, WorkOK(r), NEW s \in Streams, NEW n \in FrameNos, <<s, n>> \notin Held(r),
         NEW t, t = Release(r, s, n)
  PROVE  WorkOK(t) /\ Held(t) = Held(r) \cup {<<s, n>>} /\ t.over = r.over
<1> DEFINE f == <<s, n>>
<1>1. f \in AllFrames
  BY DEF AllFrames
<1>2. f \notin Held(r) /\ t = [r EXCEPT !.free = @ \cup {f}]
  BY DEF Release
<1> HIDE DEF f
<1>3. t \in Works /\ t.q = r.q /\ t.free = r.free \cup {f} /\ t.over = r.over
  BY <1>1, <1>2 DEF WorkOK, Works
<1>4. Held(t) = Held(r) \cup {f}
  BY <1>3 DEF Held
<1>5. WorkOK(t)
  BY <1>2, <1>3 DEF WorkOK, Held
<1> QED BY <1>3, <1>4, <1>5 DEF f

\* The least of some places exists.
LEMMA MinExists ==
  ASSUME NEW S \in SUBSET Nat, S # {}
  PROVE  Min(S) \in S /\ \A y \in S : Min(S) <= y
<1>1. PICK x \in S : \A y \in S : ~(<<y, x>> \in OpToRel(<, Nat))
  BY WFMin, NatLessThanWellFounded
<1>2. ASSUME NEW y \in S PROVE x <= y
  <2>1. ~(<<y, x>> \in OpToRel(<, Nat))
    BY <1>1
  <2> QED BY <2>1 DEF OpToRel
<1>3. Min(S) = x
  BY <1>2, MinIs
<1> QED BY <1>1, <1>2, <1>3

\* handle_metadata(): frames are only released.
LEMMA MetadataKeeps ==
  ASSUME NEW r, WorkOK(r), NEW s, NEW n, NEW m \in Metadata, NEW t, t = handle_metadata(r, s, n, m)
  PROVE  WorkOK(t) /\ Held(t) = Held(r)
<1>0. 1 \in Nat /\ Later \in Nat /\ \A g \in 1 .. Later : g \in Nat
  BY Limits DEF Later
<1> DEFINE f == Flush(r, Streams)
           r1 == IF s = "meta" /\ n = resetAt THEN [f EXCEPT !.q.expected = 1] ELSE r
<1>1. WorkOK(f) /\ Held(f) = Held(r)
  BY FlushAllKeeps
<1>2. WorkOK(r1) /\ Held(r1) = Held(r)
  <2> HIDE DEF f
  <2> DEFINE g == [f EXCEPT !.q.expected = 1]
  <2>1. WorkOK(g) /\ Held(g) = Held(f)
    BY <1>0, <1>1, ExpectedKeeps
  <2> HIDE DEF g
  <2>2. r1 = IF s = "meta" /\ n = resetAt THEN g ELSE r
    BY DEF g
  <2> HIDE DEF r1
  <2> QED BY <1>1, <2>1, <2>2
<1>3. t = CASE m.kind = "future"  -> [Flush(r1, Streams) EXCEPT !.q.expected = Later]
            [] m.kind = "good"    -> [r1 EXCEPT !.q.expected = m.good]
            [] m.kind = "waiting" -> [FlushMatched(r1) EXCEPT !.q.expected = Later]
            [] OTHER -> r1
  BY DEF handle_metadata
<1> HIDE DEF f, r1
<1>4. CASE m.kind = "future"
  <2> DEFINE g == Flush(r1, Streams)
  <2>1. WorkOK(g) /\ Held(g) = Held(r1)
    BY <1>2, FlushAllKeeps
  <2>2. t = [g EXCEPT !.q.expected = Later]
    BY <1>3, <1>4
  <2> HIDE DEF g
  <2> QED BY <1>0, <1>2, <2>1, <2>2, ExpectedKeeps
<1>5. CASE m.kind = "good"
  <2>1. m.good \in Nat
    BY <1>0, <1>5 DEF Metadata
  <2>2. t = [r1 EXCEPT !.q.expected = m.good]
    BY <1>3, <1>5
  <2> QED BY <1>2, <2>1, <2>2, ExpectedKeeps
<1>6. CASE m.kind = "waiting"
  <2> DEFINE k == Lead(r1.q.que)
             g == DropFirst(r1, k)
  <2>1. k = r1.q.match_cnt /\ k \in 0 .. r1.q.match_cnt
    <3>1. Ordered(r1.q.que, r1.q.match_cnt)
      BY <1>2 DEF WorkOK, Sound
    <3>2. k = r1.q.match_cnt
      BY <3>1, UnmatchedAre
    <3>3. r1.q.match_cnt \in Nat
      BY <3>1, LenProperties DEF Ordered
    <3> QED BY <3>2, <3>3
  <2>2. WorkOK(g) /\ Held(g) = Held(r1)
    <3> HIDE DEF k
    <3> QED BY <1>2, <2>1, DropKeeps
  <2>3. t = [g EXCEPT !.q.expected = Later]
    BY <1>3, <1>6 DEF FlushMatched
  <2> HIDE DEF g
  <2> QED BY <1>0, <1>2, <2>2, <2>3, ExpectedKeeps
<1>7. CASE m.kind \notin {"future", "good", "waiting"}
  BY <1>2, <1>3, <1>7
<1> QED BY <1>4, <1>5, <1>6, <1>7

\* A superbuffer that gets a frame for one of its slots, and the frame that
\* was there before.
Fill(b0, s, n) == [b0 EXCEPT !.bufs[s] = n]
Lost(b0, s) == IF b0.bufs[s] = 0 THEN {} ELSE {<<s, b0.bufs[s]>>}

Filled(b0, s, n) ==
  LET b == Fill(b0, s, n)
      lost == Lost(b0, s)
  IN /\ b \in SuperBuf /\ b.idx = b0.idx /\ b.bufs[s] = n
     /\ \A u \in Streams \ {s} : b.bufs[u] = b0.bufs[u]
     /\ lost \subseteq BufFrames(b0) /\ lost \cap BufFrames(b) = {}
     /\ BufFrames(b) \cup lost = BufFrames(b0) \cup {<<s, n>>}
     /\ Matched(b) /\ ~Matched(b0) => lost = {}

\* Only that slot changes, and the frames with it.
LEMMA BufChange ==
  ASSUME NEW b0 \in SuperBuf, NEW s \in Streams, NEW n \in FrameNos, n # b0.bufs[s]
  PROVE  Filled(b0, s, n)
<1> DEFINE b == [b0 EXCEPT !.bufs[s] = n]
           lost == IF b0.bufs[s] = 0 THEN {} ELSE {<<s, b0.bufs[s]>>}
<1>0. n \in 0 .. MaxFrame /\ n # 0 /\ \A x \in 0 .. MaxFrame : x # 0 => x \in FrameNos
  BY Limits DEF FrameNos
<1>1. /\ b \in SuperBuf /\ b.idx = b0.idx /\ b.bufs[s] = n
      /\ \A u \in Streams \ {s} : b.bufs[u] = b0.bufs[u]
      /\ \A u \in Streams : b0.bufs[u] \in 0 .. MaxFrame
  BY <1>0 DEF SuperBuf
<1> HIDE DEF b
<1>2. \A f \in AllFrames : f = <<f[1], f[2]>> /\ f[1] \in Streams /\ f[2] \in FrameNos /\ f[2] # 0
  BY DEF AllFrames, FrameNos
<1>3. <<s, n>> \in AllFrames /\ (b0.bufs[s] # 0 => <<s, b0.bufs[s]>> \in AllFrames)
  BY <1>0, <1>1 DEF AllFrames
<1>4. lost \subseteq BufFrames(b0)
  BY <1>3 DEF BufFrames
<1>5. lost \cap BufFrames(b) = {}
  BY <1>1 DEF BufFrames
<1>6. BufFrames(b) \subseteq BufFrames(b0) \cup {<<s, n>>}
  BY <1>1, <1>2 DEF BufFrames
<1>7. <<s, n>> \in BufFrames(b)
  BY <1>1, <1>3 DEF BufFrames
<1>8. BufFrames(b0) \subseteq BufFrames(b) \cup lost
  BY <1>1, <1>2 DEF BufFrames
<1>9. Matched(b) /\ ~Matched(b0) => lost = {}
  BY <1>1 DEF Matched
<1> HIDE DEF lost
<1>10. b = Fill(b0, s, n) /\ lost = Lost(b0, s)
  BY DEF b, lost, Fill, Lost
<1> QED BY <1>1, <1>4, <1>5, <1>6, <1>7, <1>8, <1>9, <1>10 DEF Filled

\* The places in four parts, one of them a single place.
Quarters(que, k, p) ==
  LET A == FramesIn(que, 1, k)
      B == FramesIn(que, k + 1, p - 1)
      C == BufFrames(que[p])
      D == FramesIn(que, p + 1, Len(que))
  IN /\ FramesOf(que) = A \cup B \cup C \cup D
     /\ FramesIn(que, 1, p - 1) = A \cup B
     /\ A \cap B = {} /\ A \cap C = {} /\ A \cap D = {}
     /\ B \cap C = {} /\ B \cap D = {} /\ C \cap D = {}

\* No two of them share a frame.
LEMMA FramesSplitAt ==
  ASSUME NEW que \in Seq(SuperBuf), Sole(que), NEW k \in 0 .. Len(que), NEW p \in k + 1 .. Len(que)
  PROVE  Quarters(que, k, p)
<1>0. Len(que) \in Nat /\ k \in Int /\ p \in Int
  BY LenProperties
<1> DEFINE a == p - 1
           c == p + 1
<1>1. a \in 0 .. Len(que) /\ c \in a + 1 .. Len(que) + 1 /\ a + 1 = p /\ c - 1 = p
  BY <1>0
<1>2. /\ FramesOf(que) = FramesIn(que, 1, a) \cup FramesIn(que, p, p) \cup FramesIn(que, c, Len(que))
      /\ FramesIn(que, 1, a) \cap FramesIn(que, p, p) = {}
      /\ FramesIn(que, 1, a) \cap FramesIn(que, c, Len(que)) = {}
      /\ FramesIn(que, p, p) \cap FramesIn(que, c, Len(que)) = {}
  <2> HIDE DEF a, c
  <2>1. /\ FramesOf(que) = FramesIn(que, 1, a) \cup FramesIn(que, a + 1, c - 1)
                              \cup FramesIn(que, c, Len(que))
        /\ FramesIn(que, 1, a) \cap FramesIn(que, a + 1, c - 1) = {}
        /\ FramesIn(que, 1, a) \cap FramesIn(que, c, Len(que)) = {}
        /\ FramesIn(que, a + 1, c - 1) \cap FramesIn(que, c, Len(que)) = {}
    BY <1>1, FramesSplit
  <2> QED BY <1>1, <2>1, Zenon
<1>3. FramesIn(que, 1, k) \cap FramesIn(que, k + 1, p - 1) = {}
  <2>1. p \in k + 1 .. Len(que) + 1
    BY <1>0
  <2> QED BY <2>1, FramesSplit
<1>4. FramesIn(que, p, p) = BufFrames(que[p])
  <2>1. \A i \in p .. p : i = p
    BY <1>0
  <2>2. p \in p .. p
    BY <1>0
  <2> QED BY <2>1, <2>2, Zenon DEF FramesIn, BufFrames
<1>5. FramesIn(que, 1, a) = FramesIn(que, 1, k) \cup FramesIn(que, k + 1, p - 1)
  <2>1. \A i \in 1 .. a : i \in 1 .. k \/ i \in k + 1 .. p - 1
    BY <1>0
  <2>2. (\A i \in 1 .. k : i \in 1 .. a) /\ (\A i \in k + 1 .. p - 1 : i \in 1 .. a)
    BY <1>0
  <2> HIDE DEF a
  <2> QED BY <2>1, <2>2, Zenon DEF FramesIn
<1> QED BY <1>2, <1>3, <1>4, <1>5 DEF Quarters

\* What Join() and Insert() know of the frame and of the queue.
LEMMA WorkFacts ==
  ASSUME NEW r, WorkOK(r)
  PROVE  /\ r.q.que \in Seq(SuperBuf) /\ Len(r.q.que) \in Nat
         /\ r.q.match_cnt \in Nat /\ r.q.match_cnt \in 0 .. Len(r.q.que)
         /\ Sound(r.q.que, r.q.match_cnt) /\ Ordered(r.q.que, r.q.match_cnt) /\ Sole(r.q.que)
         /\ Unmatched(r.q.que) = r.q.match_cnt + 1 .. Len(r.q.que)
         /\ Cardinality(Unmatched(r.q.que)) = Len(r.q.que) - r.q.match_cnt
         /\ \A i \in 1 .. Len(r.q.que) : r.q.que[i] \in SuperBuf /\ r.q.que[i].idx \in Nat
<1>1. Sound(r.q.que, r.q.match_cnt) /\ Ordered(r.q.que, r.q.match_cnt) /\ Sole(r.q.que)
  BY DEF WorkOK, Sound
<1>2. r.q.que \in Seq(SuperBuf) /\ r.q.match_cnt \in 0 .. Len(r.q.que)
  BY <1>1 DEF Ordered
<1>3. Len(r.q.que) \in Nat /\ \A i \in 1 .. Len(r.q.que) : r.q.que[i] \in SuperBuf /\ r.q.que[i].idx \in Nat
  BY <1>2, SuperBufType
<1>4. r.q.match_cnt \in Nat
  BY <1>2, <1>3
<1> QED BY <1>1, <1>2, <1>3, <1>4, UnmatchedAre

\* Frame numbers.
LEMMA IdxIs ==
  ASSUME resetAt \in Nat, NEW n \in FrameNos
  PROVE  Idx(n) \in Nat /\ (resetAt = 0 => Idx(n) = n)
BY DEF Idx, FrameNos

\* The parts of a record of Works.
Typed(t) ==
  /\ t.q.que \in Seq(SuperBuf) /\ t.q.match_cnt \in Int /\ t.q.expected \in Nat
  /\ t.q.stuck \in BOOLEAN /\ t.free \subseteq AllFrames /\ t.over \subseteq AllFrames

JoinResult(r, s, n, p, t) ==
  LET b == Fill(r.q.que[p], s, n) IN
  /\ t.q.stuck = r.q.stuck /\ t.over = r.over \cup Lost(r.q.que[p], s)
  /\ ~Matched(b) =>
       /\ t.q.que = [r.q.que EXCEPT ![p] = b] /\ t.q.match_cnt = r.q.match_cnt
       /\ t.q.expected = r.q.expected /\ t.free = r.free
  /\ Matched(b) =>
       /\ t.q.que = SubSeq(r.q.que, 1, r.q.match_cnt) \o <<b>>
                     \o SubSeq(r.q.que, p + 1, Len(r.q.que))
       /\ t.q.expected = Idx(n) + post_frame_skip
       /\ t.q.match_cnt = r.q.match_cnt + 1
       /\ t.free = r.free \cup FramesOf(SubSeq(r.q.que, r.q.match_cnt + 1, p - 1))
  /\ Typed(t) => t \in Works

\* Join(), with the numbers it computes.
LEMMA JoinIs ==
  ASSUME NEW r, WorkOK(r), resetAt \in Nat, NEW s \in Streams, NEW n \in FrameNos,
         NEW p \in Unmatched(r.q.que), r.q.que[p].idx = Idx(n),
         NEW t, t = Join(r, s, n, p)
  PROVE  JoinResult(r, s, n, p, t)
<1> DEFINE b == [r.q.que[p] EXCEPT !.bufs[s] = n]
           lost == IF r.q.que[p].bufs[s] = 0 THEN {} ELSE {<<s, r.q.que[p].bufs[s]>>}
<1> DEFINE que == r.q.que
           k == r.q.match_cnt
           old == OlderBefore(que, p, n)
           from == IF old = {} THEN p ELSE Min(old)
<1>1. /\ que \in Seq(SuperBuf) /\ Len(que) \in Nat /\ k \in Nat /\ k \in 0 .. Len(que)
      /\ Ordered(que, k) /\ Unmatched(que) = k + 1 .. Len(que)
  BY WorkFacts
<1>2. p \in k + 1 .. Len(que) /\ p \in Nat
  BY <1>1
<1>3. old = k + 1 .. p - 1
  <2>1. \A i \in k + 1 .. Len(que) : i < p => que[i].idx < Idx(n)
    BY <1>1, <1>2 DEF Ordered
  <2>2. old = {i \in k + 1 .. Len(que) : i < p}
    BY <1>1, <2>1 DEF OlderBefore
  <2> HIDE DEF old
  <2> QED BY <1>1, <1>2, <2>2
<1>4. from = k + 1
  <2>1. CASE p = k + 1
    <3>1. old = {}
      BY <1>1, <1>3, <2>1
    <3> QED BY <2>1, <3>1
  <2>2. CASE p > k + 1
    <3>1. k + 1 \in old /\ old \in SUBSET Int /\ \A y \in old : k + 1 <= y
      BY <1>1, <1>2, <1>3, <2>2
    <3>2. Min(old) = k + 1
      <4> HIDE DEF old
      <4> QED BY <3>1, MinIs
    <3>3. old # {}
      BY <3>1
    <3> QED BY <3>2, <3>3
  <2>3. p = k + 1 \/ p > k + 1
    BY <1>1, <1>2
  <2> QED BY <2>1, <2>2, <2>3
<1>5. from - 1 = k
  BY <1>1, <1>4
<1>7. r \in Works
  BY DEF WorkOK
<1> DEFINE q == SubSeq(que, 1, from - 1) \o <<b>> \o SubSeq(que, p + 1, Len(que))
           gone == FramesOf(SubSeq(que, from, p - 1))
           r1 == [r EXCEPT !.q.que[p] = b, !.over = @ \cup lost]
           r2 == [r1 EXCEPT !.q.que = q, !.q.expected = Idx(n) + post_frame_skip,
                            !.q.match_cnt = @ + 1, !.free = @ \cup gone]
<1>6. t = IF ~Matched(b) THEN r1 ELSE r2
  BY DEF Join
<1>8. q = SubSeq(que, 1, k) \o <<b>> \o SubSeq(que, p + 1, Len(que)) /\ gone = FramesOf(SubSeq(que, k + 1, p - 1))
  BY <1>4, <1>5, Zenon
<1>13. b = Fill(que[p], s, n) /\ lost = Lost(que[p], s)
  BY DEF Fill, Lost
<1> HIDE DEF q, gone, from, old, b, lost
<1>9. /\ r1.q.stuck = r.q.stuck /\ r1.over = r.over \cup lost
      /\ r1.q.que = [r.q.que EXCEPT ![p] = b] /\ r1.q.match_cnt = r.q.match_cnt
      /\ r1.q.expected = r.q.expected /\ r1.free = r.free
      /\ DOMAIN r1 = {"q", "free", "over"} /\ r1 = [x \in DOMAIN r1 |-> r1[x]]
      /\ DOMAIN r1.q = {"que", "match_cnt", "expected", "stuck"}
      /\ r1.q = [x \in DOMAIN r1.q |-> r1.q[x]]
  <2>1. r = [x \in {"q", "free", "over"} |-> r[x]]
    BY <1>7 DEF Works
  <2>2. r.q = [x \in {"que", "match_cnt", "expected", "stuck"} |-> r.q[x]]
    BY <1>7 DEF Works, SuperQs
  <2>3. /\ r1.q = [r.q EXCEPT !.que = [@ EXCEPT ![p] = b]] /\ r1.over = r.over \cup lost
        /\ r1.free = r.free /\ DOMAIN r1 = {"q", "free", "over"} /\ r1 = [x \in DOMAIN r1 |-> r1[x]]
    BY <2>1
  <2> DEFINE rq == r.q
             rr == r1.q
             qq == [r.q.que EXCEPT ![p] = b]
  <2>4. rr = [rq EXCEPT !.que = qq]
    BY <2>3
  <2>5. rq = [x \in {"que", "match_cnt", "expected", "stuck"} |-> rq[x]]
    BY <2>2
  <2> HIDE DEF rq, rr, qq
  <2>6. /\ rr.que = qq /\ rr.match_cnt = rq.match_cnt /\ rr.expected = rq.expected
        /\ rr.stuck = rq.stuck /\ DOMAIN rr = {"que", "match_cnt", "expected", "stuck"}
        /\ rr = [x \in DOMAIN rr |-> rr[x]]
    BY <2>4, <2>5
  <2> QED BY <2>3, <2>6 DEF rq, rr, qq
<1> HIDE DEF r1
<1> DEFINE e == Idx(n) + post_frame_skip
<1>10. /\ r2.q.stuck = r.q.stuck /\ r2.over = r1.over
       /\ r2.q.que = q /\ r2.q.match_cnt = r1.q.match_cnt + 1
       /\ r2.q.expected = e /\ r2.free = r1.free \cup gone
       /\ DOMAIN r2 = {"q", "free", "over"} /\ r2 = [x \in DOMAIN r2 |-> r2[x]]
       /\ DOMAIN r2.q = {"que", "match_cnt", "expected", "stuck"}
       /\ r2.q = [x \in DOMAIN r2.q |-> r2.q[x]]
  <2> HIDE DEF e
  <2>1. r2 = [r1 EXCEPT !.q = [r1.q EXCEPT !.que = q, !.expected = e, !.match_cnt = r1.q.match_cnt + 1],
                        !.free = r1.free \cup gone]
    BY <1>9 DEF e
  <2> DEFINE rq == r1.q
             mc == r1.q.match_cnt + 1
             fr == r1.free \cup gone
             qq == [rq EXCEPT !.que = q, !.expected = e, !.match_cnt = mc]
  <2>2. qq.que = q /\ qq.expected = e /\ qq.match_cnt = mc /\ qq.stuck = rq.stuck
        /\ DOMAIN qq = {"que", "match_cnt", "expected", "stuck"} /\ qq = [x \in DOMAIN qq |-> qq[x]]
    <3>1. DOMAIN rq = {"que", "match_cnt", "expected", "stuck"} /\ rq = [x \in DOMAIN rq |-> rq[x]]
      BY <1>9
    <3> HIDE DEF rq, mc
    <3> QED BY <3>1
  <2>3. r2 = [r1 EXCEPT !.q = qq, !.free = fr]
    BY <2>1
  <2> HIDE DEF qq, fr, r2
  <2>4. /\ r2.q = qq /\ r2.free = fr /\ r2.over = r1.over /\ DOMAIN r2 = {"q", "free", "over"}
        /\ r2 = [x \in DOMAIN r2 |-> r2[x]]
    BY <1>9, <2>3
  <2> QED BY <1>9, <2>2, <2>4 DEF fr
<1> HIDE DEF r2, e
<1>11. CASE ~Matched(b)
  <2>1. t = r1
    BY <1>6, <1>11 DEF r1, b, lost
  <2>2. /\ t.q.stuck = r.q.stuck /\ t.over = r.over \cup lost
        /\ t.q.que = [r.q.que EXCEPT ![p] = b] /\ t.q.match_cnt = r.q.match_cnt
        /\ t.q.expected = r.q.expected /\ t.free = r.free
    BY <1>9, <2>1
  <2>3. Typed(t) => t \in Works
    BY <1>9, <2>1 DEF Typed, Works, SuperQs
  <2> QED BY <1>11, <1>13, <2>2, <2>3, Zenon DEF JoinResult
<1>12. CASE Matched(b)
  <2>1. t = r2
    BY <1>6, <1>12 DEF r1, r2, q, gone, from, old, b, lost
  <2>2. /\ t.q.stuck = r.q.stuck /\ t.over = r.over \cup lost
        /\ t.q.que = q /\ t.q.expected = e /\ t.q.match_cnt = r.q.match_cnt + 1
        /\ t.free = r.free \cup gone
    BY <1>9, <1>10, <2>1
  <2>3. Typed(t) => t \in Works
    BY <1>10, <2>1 DEF Typed, Works, SuperQs
  <2> QED BY <1>8, <1>12, <1>13, <2>2, <2>3, Zenon DEF JoinResult, e
<1> QED BY <1>11, <1>12

\* A queue with one superbuffer replaced.
LEMMA ReplaceIs ==
  ASSUME NEW que \in Seq(SuperBuf), NEW p \in 1 .. Len(que), NEW b \in SuperBuf
  PROVE  IsSplice(que, [que EXCEPT ![p] = b], p - 1, b, p + 1)
<1> DEFINE q == [que EXCEPT ![p] = b]
<1>1. /\ q \in Seq(SuperBuf) /\ Len(q) = Len(que)
      /\ \A j \in 1 .. Len(que) : q[j] = IF j = p THEN b ELSE que[j]
  BY ExceptSeq
<1>2. Len(que) \in Nat
  BY LenProperties
<1> HIDE DEF q
<1>3. Len(q) = p - 1 + 1 + (Len(que) + 1 - (p + 1)) /\ p - 1 + 1 = p
  BY <1>1, <1>2
<1>4. \A i \in 1 .. p - 1 : q[i] = que[i]
  BY <1>1, <1>2
<1>5. q[p - 1 + 1] = b
  BY <1>1, <1>3
<1>6. ASSUME NEW i \in p + 1 .. Len(que) PROVE q[i - (p + 1) + (p - 1) + 2] = que[i]
  <2>1. i - (p + 1) + (p - 1) + 2 = i /\ i \in 1 .. Len(que) /\ i # p
    BY <1>2
  <2> QED BY <1>1, <2>1
<1>7. IsSplice(que, q, p - 1, b, p + 1)
  BY <1>1, <1>3, <1>4, <1>5, <1>6 DEF IsSplice
<1> QED BY <1>7 DEF q

\* Join(): the frame finds its superbuffer.
LEMMA JoinKeeps ==
  ASSUME NEW r, WorkOK(r), resetAt \in Nat, NEW s \in Streams, NEW n \in FrameNos,
         <<s, n>> \notin Held(r),
         NEW p \in Unmatched(r.q.que), r.q.que[p].idx = Idx(n), NEW t, t = Join(r, s, n, p)
  PROVE  WorkOK(t) /\ Held(t) = Held(r) \cup {<<s, n>>}
<1> DEFINE que == r.q.que
           k == r.q.match_cnt
           f == <<s, n>>
<1>1. /\ que \in Seq(SuperBuf) /\ Len(que) \in Nat /\ k \in Nat /\ k \in 0 .. Len(que)
      /\ Sound(que, k) /\ Ordered(que, k) /\ Sole(que) /\ p \in k + 1 .. Len(que)
      /\ p \in Nat /\ p \in 1 .. Len(que) /\ que[p] \in SuperBuf /\ ~Matched(que[p])
  <2>1. /\ que \in Seq(SuperBuf) /\ Len(que) \in Nat /\ k \in Nat /\ k \in 0 .. Len(que)
        /\ Sound(que, k) /\ Ordered(que, k) /\ Sole(que) /\ p \in k + 1 .. Len(que)
        /\ \A i \in 1 .. Len(que) : que[i] \in SuperBuf
    BY WorkFacts
  <2>2. p \in Nat /\ p \in 1 .. Len(que) /\ ~Matched(que[p])
    BY <2>1 DEF Unmatched
  <2> QED BY <2>1, <2>2
<1>2. f \in AllFrames /\ f \notin FramesOf(que) /\ f \notin r.free /\ f \notin r.over
      /\ f[1] = s /\ f[2] = n
  BY DEF AllFrames, Held
<1>3. \A i \in 1 .. Len(que) : que[i].bufs[s] # n
  <2>1. FramesOf(que) = FramesIn(que, 1, Len(que))
    BY <1>1, FramesAre
  <2> QED BY <1>2, <2>1 DEF FramesIn
<1> DEFINE b == Fill(que[p], s, n)
           lost == Lost(que[p], s)
<1>4. Filled(que[p], s, n)
  BY <1>1, <1>3, BufChange
<1>5. resetAt = 0 /\ que[p].bufs[s] \in {0, n} => lost = {}
  BY <1>1, <1>3 DEF Lost
<1> HIDE DEF b, lost
<1>6. /\ b \in SuperBuf /\ b.idx = que[p].idx /\ b.bufs[s] = n
      /\ \A u \in Streams \ {s} : b.bufs[u] = que[p].bufs[u]
      /\ lost \subseteq BufFrames(que[p]) /\ lost \cap BufFrames(b) = {}
      /\ BufFrames(b) \cup lost = BufFrames(que[p]) \cup {f}
      /\ Matched(b) => lost = {}
  BY <1>1, <1>4 DEF Filled, b, lost
<1>7. JoinResult(r, s, n, p, t)
  BY JoinIs
<1> DEFINE A == FramesIn(que, 1, k)
           B == FramesIn(que, k + 1, p - 1)
           C == BufFrames(que[p])
           D == FramesIn(que, p + 1, Len(que))
<1>8. /\ FramesOf(que) = A \cup B \cup C \cup D /\ FramesIn(que, 1, p - 1) = A \cup B
      /\ A \cap B = {} /\ A \cap C = {} /\ A \cap D = {}
      /\ B \cap C = {} /\ B \cap D = {} /\ C \cap D = {}
  BY <1>1, FramesSplitAt DEF Quarters
<1>9. (p + 1) - 1 = p /\ p - 1 \in k .. Len(que) /\ p + 1 \in (p - 1) + 1 .. Len(que) + 1
      /\ p + 1 \in k + 1 .. Len(que) + 1 /\ k \in k .. Len(que)
  BY <1>1
<1>10. /\ r \in Works /\ ~r.q.stuck /\ NamedUnlessReset(que) /\ (resetAt = 0 => r.over = {})
       /\ FramesOf(que) \cap r.free = {} /\ FramesOf(que) \cap r.over = {} /\ r.free \cap r.over = {}
       /\ r.free \subseteq AllFrames /\ r.over \subseteq AllFrames /\ r.q.expected \in Nat
       /\ r.q.stuck \in BOOLEAN
  BY DEF WorkOK, Works, SuperQs
<1>11. /\ resetAt = 0 => lost = {}
       /\ resetAt = 0 => \A u \in Streams : b.bufs[u] \in {0, b.idx}
  <2> SUFFICES ASSUME resetAt = 0 PROVE lost = {} /\ \A u \in Streams : b.bufs[u] \in {0, b.idx}
    OBVIOUS
  <2>1. Idx(n) = n /\ Named(que)
    BY <1>10, IdxIs DEF NamedUnlessReset
  <2>2. \A u \in Streams : que[p].bufs[u] \in {0, n}
    BY <1>1, <2>1 DEF Named
  <2>3. lost = {}
    BY <1>5, <2>2
  <2>4. \A u \in Streams : b.bufs[u] \in {0, b.idx}
    BY <1>6, <2>1, <2>2
  <2> QED BY <2>3, <2>4
<1>12. /\ lost \subseteq AllFrames /\ lost \cap r.free = {} /\ lost \cap r.over = {}
       /\ BufFrames(b) \subseteq C \cup {f} /\ B \subseteq AllFrames
  BY <1>6, <1>8, <1>10 DEF BufFrames, FramesIn
<1>13. \A i \in (1 .. p - 1) \cup (p + 1 .. Len(que)), u \in Streams :
         b.bufs[u] # 0 => que[i].bufs[u] # b.bufs[u]
  <2> TAKE i \in (1 .. p - 1) \cup (p + 1 .. Len(que)), u \in Streams
  <2>1. i \in 1 .. Len(que) /\ i # p
    BY <1>1
  <2>2. CASE u = s
    BY <1>3, <1>6, <2>1, <2>2
  <2>3. CASE u # s
    BY <1>1, <1>6, <2>1, <2>3 DEF Sole
  <2> QED BY <2>2, <2>3
<1>14. CASE ~Matched(b)
  <2> DEFINE q == [que EXCEPT ![p] = b]
             a == p - 1
             c == p + 1
  <2>1. IsSplice(que, q, a, b, c)
    BY <1>1, <1>6, ReplaceIs
  <2>2. Fresh(que, a, b, c)
    BY <1>13 DEF Fresh
  <2>3. Fits(que, k, a, b, c, k)
    <3>1. \A i \in k + 1 .. a : que[i].idx < b.idx
      <4>1. \A i \in k + 1 .. a : i \in k + 1 .. Len(que) /\ i < p
        BY <1>1
      <4> QED BY <1>1, <1>6, <4>1 DEF Ordered
    <3>2. \A i \in c .. Len(que) : b.idx < que[i].idx
      <4>1. \A i \in c .. Len(que) : i \in k + 1 .. Len(que) /\ p < i
        BY <1>1
      <4> QED BY <1>1, <1>6, <4>1 DEF Ordered
    <3> QED BY <1>14, <3>1, <3>2 DEF Fits
  <2>4. Roomy(q, k)
    <3>1. Len(q) = Len(que)
      BY <1>1, <1>6, ExceptSeq
    <3> HIDE DEF q
    <3> QED BY <1>1, <3>1 DEF Sound, Roomy
  <2>5. a \in k .. Len(que) /\ c \in a + 1 .. Len(que) + 1
    BY <1>9
  <2>6. FramesIn(que, 1, a) = A \cup B /\ FramesIn(que, c, Len(que)) = D
    BY <1>8
  <2> HIDE DEF q, a, c, que, k
  <2>7. /\ Sound(q, k) /\ (Named(que) /\ (\A u \in Streams : b.bufs[u] \in {0, b.idx}) => Named(q))
        /\ FramesOf(q) = FramesIn(que, 1, a) \cup BufFrames(b) \cup FramesIn(que, c, Len(que))
    BY <1>1, <1>6, <2>1, <2>2, <2>3, <2>4, <2>5, SpliceKeeps
  <2> HIDE DEF A, B, C, D, f
  <2>8. FramesOf(q) = A \cup B \cup BufFrames(b) \cup D
    BY <2>6, <2>7
  <2>9. t.q.que = q /\ t.q.match_cnt = k /\ t.q.expected = r.q.expected /\ t.free = r.free
    BY <1>7, <1>14 DEF JoinResult, q, que, k, b
  <2>10. t \in Works /\ ~t.q.stuck
    <3>1. q \in Seq(SuperBuf)
      BY <2>7 DEF Sound, Ordered
    <3>2. t.over \subseteq AllFrames /\ t.q.stuck = r.q.stuck
      BY <1>7, <1>10, <1>12 DEF JoinResult, lost, que
    <3>3. Typed(t)
      BY <1>1, <1>10, <2>9, <3>1, <3>2 DEF Typed
    <3> QED BY <1>7, <1>10, <3>2, <3>3 DEF JoinResult
  <2>11. NamedUnlessReset(q)
    BY <1>10, <1>11, <2>7 DEF NamedUnlessReset
  <2>12. t.over = r.over \cup lost
    BY <1>7 DEF JoinResult, lost, que
  <2>13. /\ FramesOf(q) \cap r.free = {} /\ FramesOf(q) \cap t.over = {} /\ r.free \cap t.over = {}
         /\ (resetAt = 0 => t.over = {})
    <3>1. FramesOf(q) \cap r.free = {}
      BY <1>2, <1>8, <1>10, <1>12, <2>8
    <3>2. FramesOf(q) \cap r.over = {}
      BY <1>2, <1>8, <1>10, <1>12, <2>8
    <3>3. FramesOf(q) \cap lost = {}
      BY <1>6, <1>8, <2>8 DEF C
    <3> QED BY <1>10, <1>11, <1>12, <2>12, <3>1, <3>2, <3>3
  <2>14. WorkOK(t)
    BY <2>7, <2>9, <2>10, <2>11, <2>13, Zenon DEF WorkOK
  <2>15. FramesOf(q) \cup lost = FramesOf(que) \cup {f}
    BY <1>6, <1>8, <2>8 DEF C
  <2>16. Held(t) = Held(r) \cup {f}
    BY <2>9, <2>12, <2>15 DEF Held, que
  <2> QED BY <2>14, <2>16 DEF f
<1>15. CASE Matched(b)
  <2> DEFINE q == SubSeq(que, 1, k) \o <<b>> \o SubSeq(que, p + 1, Len(que))
             c == p + 1
             gone == FramesOf(SubSeq(que, k + 1, p - 1))
  <2>1. IsSplice(que, q, k, b, c)
    <3>1. c \in 1 .. Len(que) + 1
      BY <1>1
    <3> HIDE DEF que, k, c
    <3>2. IsSplice(que, SubSeq(que, 1, k) \o << b >> \o SubSeq(que, c, Len(que)), k, b, c)
      BY <1>1, <1>6, <3>1, SpliceIs
    <3> QED BY <3>2 DEF c
  <2>2. Fresh(que, k, b, c)
    <3>1. \A i \in 1 .. k : i \in 1 .. p - 1
      BY <1>1
    <3> QED BY <1>13, <3>1 DEF Fresh
  <2>3. Fits(que, k, k, b, c, k + 1)
    BY <1>15 DEF Fits
  <2>4. Roomy(q, k + 1)
    <3>1. Len(q) = k + 1 + (Len(que) + 1 - c)
      BY <2>1 DEF IsSplice
    <3>2. Roomy(que, k)
      BY <1>1 DEF Sound
    <3>3. Len(que) \in Nat /\ k \in Nat /\ p \in Nat /\ k + 1 <= p /\ max_unmatched_frames \in Nat
      BY <1>1, Limits
    <3> HIDE DEF q, que, k
    <3>4. Len(q) - (k + 1) = Len(que) - p
      BY <3>1, <3>3
    <3>5. Len(que) - k <= max_unmatched_frames + 1
      BY <3>2 DEF Roomy
    <3>6. Len(q) - (k + 1) <= max_unmatched_frames + 1
      BY <3>3, <3>4, <3>5
    <3> QED BY <3>6 DEF Roomy
  <2>5. k \in k .. Len(que) /\ c \in k + 1 .. Len(que) + 1
    BY <1>9
  <2>6. gone = B
    <3>1. k + 1 \in 1 .. Len(que) + 1 /\ p - 1 \in 0 .. Len(que) /\ k + 1 <= (p - 1) + 1
      BY <1>1
    <3> DEFINE x == k + 1
               y == p - 1
    <3>2. FramesOf(SubSeq(que, x, y)) = FramesIn(que, x, y)
      <4>1. x \in 1 .. Len(que) + 1 /\ y \in 0 .. Len(que) /\ x <= y + 1
        BY <3>1
      <4> HIDE DEF x, y, que
      <4> QED BY <1>1, <4>1, PartFrames
    <3> QED BY <3>2
  <2> DEFINE l == k + 1
  <2> HIDE DEF q, c, que, k, l
  <2>7. /\ Sound(q, l) /\ (Named(que) /\ (\A u \in Streams : b.bufs[u] \in {0, b.idx}) => Named(q))
        /\ FramesOf(q) = FramesIn(que, 1, k) \cup BufFrames(b) \cup FramesIn(que, c, Len(que))
    BY <1>1, <1>6, <2>1, <2>2, <2>3, <2>4, <2>5, SpliceKeeps DEF l
  <2>8. FramesOf(q) = A \cup BufFrames(b) \cup D
    BY <2>7 DEF c
  <2>9. /\ t.q.que = q /\ t.q.match_cnt = l /\ t.q.expected = Idx(n) + post_frame_skip
        /\ t.free = r.free \cup gone /\ t.over = r.over /\ t.q.stuck = r.q.stuck /\ lost = {}
    BY <1>6, <1>7, <1>15 DEF JoinResult, q, que, k, l, b, lost, gone
  <2> HIDE DEF A, B, C, D, f, gone
  <2>10. t \in Works /\ ~t.q.stuck
    <3>1. q \in Seq(SuperBuf)
      BY <2>7 DEF Sound, Ordered
    <3>2. t.free \subseteq AllFrames /\ t.over \subseteq AllFrames
      BY <1>10, <1>12, <2>6, <2>9
    <3>3. Idx(n) + post_frame_skip \in Nat /\ l \in Int
      BY <1>1, IdxIs, Limits DEF l
    <3>4. Typed(t)
      BY <1>10, <2>9, <3>1, <3>2, <3>3 DEF Typed
    <3> QED BY <1>7, <1>10, <2>9, <3>4 DEF JoinResult
  <2>11. NamedUnlessReset(q)
    BY <1>10, <1>11, <2>7 DEF NamedUnlessReset
  <2>12. BufFrames(b) = C \cup {f}
    BY <1>6, <2>9 DEF C
  <2>13. /\ FramesOf(q) \cap t.free = {} /\ FramesOf(q) \cap t.over = {} /\ t.free \cap t.over = {}
    <3>1. FramesOf(q) \cap r.free = {} /\ FramesOf(q) \cap r.over = {}
      BY <1>2, <1>8, <1>10, <2>8, <2>12
    <3>2. FramesOf(q) \cap B = {}
      BY <1>2, <1>8, <2>8, <2>12
    <3>3. B \cap r.over = {}
      BY <1>8, <1>10
    <3> QED BY <1>10, <2>6, <2>9, <3>1, <3>2, <3>3
  <2>14. WorkOK(t)
    BY <1>10, <2>7, <2>9, <2>10, <2>11, <2>13, Zenon DEF WorkOK
  <2>15. FramesOf(q) \cup gone = FramesOf(que) \cup {f}
    BY <1>8, <2>6, <2>8, <2>12
  <2>16. Held(t) = Held(r) \cup {f}
    BY <2>9, <2>15 DEF Held, que
  <2> QED BY <2>14, <2>16 DEF f
<1> QED BY <1>14, <1>15

\* Insert(): a new superbuffer in its place among the unmatched ones.
NewPlace(kept, b) ==
  LET large == {i \in Unmatched(kept) : kept[i].idx > b.idx}
  IN IF large = {} THEN Append(kept, b) ELSE InsertAt(kept, Min(large), b)

\* The new one has no frame and no number in common with the others.
LEMMA PutKeeps ==
  ASSUME NEW kept, NEW k, Sound(kept, k), Len(kept) - k <= max_unmatched_frames,
         NEW b \in SuperBuf, ~Matched(b), \A i \in k + 1 .. Len(kept) : kept[i].idx # b.idx,
         BufFrames(b) \cap FramesOf(kept) = {}, NEW q, q = NewPlace(kept, b)
  PROVE  /\ Sound(q, k)
         /\ Named(kept) /\ (\A u \in Streams : b.bufs[u] \in {0, b.idx}) => Named(q)
         /\ FramesOf(q) = FramesOf(kept) \cup BufFrames(b)
<1>1. /\ kept \in Seq(SuperBuf) /\ Ordered(kept, k) /\ Sole(kept) /\ Len(kept) \in Nat
      /\ k \in 0 .. Len(kept) /\ k \in Nat /\ b.idx \in Nat
      /\ \A i \in 1 .. Len(kept) : kept[i].idx \in Nat
      /\ Unmatched(kept) = k + 1 .. Len(kept)
  <2>1. kept \in Seq(SuperBuf) /\ Ordered(kept, k) /\ Sole(kept) /\ k \in 0 .. Len(kept)
    BY DEF Sound, Ordered
  <2>2. Len(kept) \in Nat /\ \A i \in 1 .. Len(kept) : kept[i].idx \in Nat
    BY <2>1, SuperBufType
  <2>3. k \in Nat /\ b.idx \in Nat
    BY <2>1, <2>2 DEF SuperBuf
  <2> QED BY <2>1, <2>2, <2>3, UnmatchedAre
<1> DEFINE large == {i \in Unmatched(kept) : kept[i].idx > b.idx}
<1>2. \E p \in k + 1 .. Len(kept) + 1 :
        /\ IsSplice(kept, q, p - 1, b, p)
        /\ \A i \in k + 1 .. p - 1 : kept[i].idx < b.idx
        /\ \A i \in p .. Len(kept) : b.idx < kept[i].idx
  <2>1. CASE large = {}
    <3> DEFINE p == Len(kept) + 1
    <3>1. q = Append(kept, b)
      BY <2>1 DEF NewPlace
    <3>2. /\ q \in Seq(SuperBuf) /\ Len(q) = Len(kept) + 1
          /\ \A i \in 1 .. Len(kept) : q[i] = kept[i]
          /\ q[Len(kept) + 1] = b
      <4>1. /\ Append(kept, b) \in Seq(SuperBuf) /\ Len(Append(kept, b)) = Len(kept) + 1
            /\ \A i \in 1 .. Len(kept) : Append(kept, b)[i] = kept[i]
            /\ Append(kept, b)[Len(kept) + 1] = b
        BY <1>1, AppendProperties
      <4> QED BY <3>1, <4>1, Zenon
    <3>3. p \in k + 1 .. Len(kept) + 1 /\ p - 1 = Len(kept) /\ p .. Len(kept) = {}
          /\ Len(kept) + 1 = (p - 1) + 1 + (Len(kept) + 1 - p) /\ p - 1 + 1 = Len(kept) + 1
      BY <1>1
    <3> HIDE DEF p
    <3>4. IsSplice(kept, q, p - 1, b, p)
      BY <3>2, <3>3 DEF IsSplice
    <3>5. \A i \in k + 1 .. p - 1 : kept[i].idx < b.idx
      <4>1. \A i \in k + 1 .. Len(kept) : ~(kept[i].idx > b.idx) /\ i \in 1 .. Len(kept)
        BY <1>1, <2>1
      <4> QED BY <1>1, <3>3, <4>1
    <3>6. \A i \in p .. Len(kept) : b.idx < kept[i].idx
      BY <3>3
    <3> QED BY <3>3, <3>4, <3>5, <3>6
  <2>2. CASE large # {}
    <3> DEFINE p == Min(large)
    <3>1. p \in large /\ \A y \in large : p <= y
      <4>1. large \in SUBSET Nat
        BY <1>1
      <4> HIDE DEF large
      <4> QED BY <2>2, <4>1, MinExists
    <3>2. q = InsertAt(kept, p, b)
      BY <2>2 DEF NewPlace
    <3> HIDE DEF p
    <3>3. q = SubSeq(kept, 1, p - 1) \o <<b>> \o SubSeq(kept, p, Len(kept))
      BY <3>2, Zenon DEF InsertAt
    <3>4. p \in k + 1 .. Len(kept) /\ kept[p].idx > b.idx /\ p \in Nat
      BY <1>1, <3>1
    <3>5. p - 1 \in 0 .. Len(kept) /\ p \in 1 .. Len(kept) + 1 /\ p \in k + 1 .. Len(kept) + 1
      BY <1>1, <3>4
    <3>6. IsSplice(kept, q, p - 1, b, p)
      <4> DEFINE a == p - 1
      <4> HIDE DEF a
      <4>1. a \in 0 .. Len(kept)
        BY <3>5 DEF a
      <4>2. IsSplice(kept, SubSeq(kept, 1, a) \o << b >> \o SubSeq(kept, p, Len(kept)), a, b, p)
        BY <1>1, <3>5, <4>1, SpliceIs
      <4> QED BY <3>3, <4>2, Zenon DEF a
    <3>7. ASSUME NEW i \in k + 1 .. p - 1 PROVE kept[i].idx < b.idx
      <4>1. i \in k + 1 .. Len(kept) /\ i \in 1 .. Len(kept) /\ ~(p <= i)
        BY <1>1, <3>4
      <4>2. i \notin large
        BY <3>1, <4>1
      <4>3. ~(kept[i].idx > b.idx)
        BY <1>1, <4>1, <4>2
      <4> QED BY <1>1, <4>1, <4>3
    <3>8. ASSUME NEW i \in p .. Len(kept) PROVE b.idx < kept[i].idx
      <4>1. i \in k + 1 .. Len(kept) /\ i \in 1 .. Len(kept) /\ p \in 1 .. Len(kept) /\ (i = p \/ p < i)
        BY <1>1, <3>4
      <4>2. kept[p].idx <= kept[i].idx
        BY <1>1, <3>4, <4>1 DEF Ordered
      <4> QED BY <1>1, <3>4, <4>1, <4>2
    <3> QED BY <3>5, <3>6, <3>7, <3>8
  <2> QED BY <2>1, <2>2
<1>3. PICK p \in k + 1 .. Len(kept) + 1 :
        /\ IsSplice(kept, q, p - 1, b, p)
        /\ \A i \in k + 1 .. p - 1 : kept[i].idx < b.idx
        /\ \A i \in p .. Len(kept) : b.idx < kept[i].idx
  BY <1>2
<1> DEFINE a == p - 1
<1>4. a \in k .. Len(kept) /\ p \in a + 1 .. Len(kept) + 1 /\ a + 1 = p /\ a \in 0 .. Len(kept)
  BY <1>1
<1>5. IsSplice(kept, q, a, b, p) /\ Fits(kept, k, a, b, p, k)
  BY <1>3 DEF Fits
<1>6. Fresh(kept, a, b, p)
  <2>1. FramesOf(kept) = FramesIn(kept, 1, Len(kept))
    BY <1>1, FramesAre
  <2>2. ASSUME NEW i \in (1 .. a) \cup (p .. Len(kept)), NEW u \in Streams,
               b.bufs[u] # 0, kept[i].bufs[u] = b.bufs[u]
        PROVE  FALSE
    <3>1. b.bufs[u] \in FrameNos
      BY <2>2, Limits DEF SuperBuf, FrameNos
    <3> DEFINE f == <<u, b.bufs[u]>>
    <3>2. f \in AllFrames /\ f[1] = u /\ f[2] = b.bufs[u]
      BY <3>1 DEF AllFrames
    <3>3. i \in 1 .. Len(kept)
      BY <1>1, <1>4
    <3> HIDE DEF f
    <3>4. f \in BufFrames(b) /\ f \in FramesIn(kept, 1, Len(kept))
      BY <2>2, <3>2, <3>3 DEF BufFrames, FramesIn
    <3> QED BY <2>1, <3>4
  <2> QED BY <2>2 DEF Fresh
<1>7. Roomy(q, k)
  <2>1. Len(q) = a + 1 + (Len(kept) + 1 - p)
    BY <1>5 DEF IsSplice
  <2>2. Len(q) = Len(kept) + 1
    BY <1>1, <1>4, <2>1
  <2> QED BY <1>1, <2>2, Limits DEF Roomy
<1> HIDE DEF a
<1>8. /\ Sound(q, k) /\ (Named(kept) /\ (\A u \in Streams : b.bufs[u] \in {0, b.idx}) => Named(q))
      /\ FramesOf(q) = FramesIn(kept, 1, a) \cup BufFrames(b) \cup FramesIn(kept, p, Len(kept))
  BY <1>4, <1>5, <1>6, <1>7, SpliceKeeps
<1>9. FramesOf(kept) = FramesIn(kept, 1, a) \cup FramesIn(kept, p, Len(kept))
  <2>1. FramesOf(kept) = FramesIn(kept, 1, a) \cup FramesIn(kept, a + 1, p - 1)
                            \cup FramesIn(kept, p, Len(kept))
    BY <1>1, <1>4, FramesSplit
  <2>2. FramesIn(kept, a + 1, p - 1) = {}
    <3>1. a + 1 .. p - 1 = {}
      BY <1>1, <1>4
    <3> QED BY <3>1, Zenon DEF FramesIn
  <2> QED BY <2>1, <2>2
<1> QED BY <1>8, <1>9

\* The superbuffer a frame starts.
NewBuf(s, n) == [idx |-> Idx(n), bufs |-> [u \in Streams |-> IF u = s THEN n ELSE 0]]

\* It holds that frame only.
LEMMA NewBufIs ==
  ASSUME resetAt \in Nat, NEW s \in Streams, NEW n \in FrameNos
  PROVE  /\ NewBuf(s, n) \in SuperBuf /\ ~Matched(NewBuf(s, n)) /\ NewBuf(s, n).idx = Idx(n)
         /\ BufFrames(NewBuf(s, n)) = {<<s, n>>}
         /\ resetAt = 0 => \A u \in Streams : NewBuf(s, n).bufs[u] \in {0, NewBuf(s, n).idx}
<1>1. Idx(n) \in Nat /\ (resetAt = 0 => Idx(n) = n) /\ n \in 0 .. MaxFrame /\ n # 0
  BY IdxIs, Limits DEF FrameNos
<1> DEFINE b == NewBuf(s, n)
<1>2. b \in SuperBuf /\ b.idx = Idx(n) /\ \A u \in Streams : b.bufs[u] = IF u = s THEN n ELSE 0
  BY <1>1, Limits DEF SuperBuf, NewBuf
<1> HIDE DEF b
<1>3. ~Matched(b)
  BY <1>2 DEF Matched, Streams
<1>4. BufFrames(b) = {<<s, n>>}
  <2>1. \A f \in AllFrames : f = <<f[1], f[2]>> /\ f[1] \in Streams /\ f[2] # 0
    BY DEF AllFrames, FrameNos
  <2>2. <<s, n>> \in AllFrames
    BY DEF AllFrames
  <2>3. BufFrames(b) \subseteq {<<s, n>>}
    BY <1>2, <2>1 DEF BufFrames
  <2>4. <<s, n>> \in BufFrames(b)
    BY <1>2, <2>2 DEF BufFrames
  <2> QED BY <2>3, <2>4
<1>5. resetAt = 0 => \A u \in Streams : b.bufs[u] \in {0, b.idx}
  BY <1>1, <1>2
<1> QED BY <1>2, <1>3, <1>4, <1>5 DEF b

\* What Insert() makes room with: the first unmatched superbuffer if it is
\* older than the frame, when there are too many.
Full(r) == Cardinality(Unmatched(r.q.que)) > max_unmatched_frames
Older(r, n) == {i \in Unmatched(r.q.que) : r.q.que[i].idx < Idx(n)}
KeptQue(r) == IF Full(r) THEN RemoveAt(r.q.que, r.q.match_cnt + 1) ELSE r.q.que
MadeRoom(r) == IF Full(r) THEN BufFrames(r.q.que[r.q.match_cnt + 1]) ELSE {}

\* The frames of a single superbuffer.
LEMMA SingleFrames == ASSUME NEW b \in SuperBuf PROVE FramesOf(<<b>>) = BufFrames(b)
<1> DEFINE q == <<b>>
<1>1. q \in Seq(SuperBuf) /\ Len(q) = 1 /\ q[1] = b
  OBVIOUS
<1> HIDE DEF q
<1>2. FramesOf(q) = FramesIn(q, 1, 1)
  BY <1>1, FramesAre
<1>3. FramesIn(q, 1, 1) = BufFrames(b)
  <2>1. \A i \in 1 .. 1 : i = 1
    OBVIOUS
  <2>2. 1 \in 1 .. 1
    OBVIOUS
  <2> QED BY <1>1, <2>1, <2>2, Zenon DEF FramesIn, BufFrames
<1> QED BY <1>2, <1>3 DEF q

\* One that makes room is the first unmatched one, and its frames are released.
LEMMA RoomKeeps ==
  ASSUME NEW r, WorkOK(r), resetAt \in Nat, NEW n \in FrameNos,
         ~(Full(r) /\ Older(r, n) = {}),
         {i \in Unmatched(r.q.que) : r.q.que[i].idx = Idx(n)} = {}
  PROVE  /\ Full(r) => Min(Older(r, n)) = r.q.match_cnt + 1 /\ r.q.que[r.q.match_cnt + 1] \in SuperBuf
         /\ Sound(KeptQue(r), r.q.match_cnt)
         /\ Len(KeptQue(r)) - r.q.match_cnt <= max_unmatched_frames
         /\ \A i \in r.q.match_cnt + 1 .. Len(KeptQue(r)) : KeptQue(r)[i].idx # Idx(n)
         /\ Named(r.q.que) => Named(KeptQue(r))
         /\ FramesOf(r.q.que) = FramesOf(KeptQue(r)) \cup MadeRoom(r)
         /\ FramesOf(KeptQue(r)) \cap MadeRoom(r) = {} /\ MadeRoom(r) \subseteq AllFrames
<1> DEFINE que == r.q.que
           k == r.q.match_cnt
           kept == KeptQue(r)
<1>1. /\ que \in Seq(SuperBuf) /\ Len(que) \in Nat /\ k \in Nat /\ k \in 0 .. Len(que)
      /\ Sound(que, k) /\ Ordered(que, k) /\ Sole(que)
      /\ Unmatched(que) = k + 1 .. Len(que) /\ Cardinality(Unmatched(que)) = Len(que) - k
      /\ \A i \in 1 .. Len(que) : que[i] \in SuperBuf /\ que[i].idx \in Nat
  BY WorkFacts
<1>2. Idx(n) \in Nat /\ max_unmatched_frames \in Nat
  BY IdxIs, Limits
<1>3. \A i \in k + 1 .. Len(que) : que[i].idx # Idx(n)
  BY <1>1
<1>4. CASE ~Full(r)
  <2>1. kept = que /\ MadeRoom(r) = {}
    BY <1>4 DEF KeptQue, MadeRoom
  <2>2. Len(que) - k <= max_unmatched_frames
    BY <1>1, <1>2, <1>4 DEF Full
  <2> QED BY <1>1, <1>3, <1>4, <2>1, <2>2
<1>5. CASE Full(r)
  <2>1. k < Len(que) /\ k + 1 \in k + 1 .. Len(que) /\ k + 1 \in 1 .. Len(que) /\ k \in 0 .. Len(que) - 1
    BY <1>1, <1>2, <1>5 DEF Full
  <2>2. Min(Older(r, n)) = k + 1
    <3>1. PICK i \in k + 1 .. Len(que) : que[i].idx < Idx(n)
      BY <1>1, <1>5 DEF Older
    <3>2. que[k + 1].idx < Idx(n)
      <4>1. i \in 1 .. Len(que) /\ (i = k + 1 \/ k + 1 < i)
        BY <1>1
      <4>2. CASE i = k + 1
        BY <3>1, <4>2
      <4>3. CASE k + 1 < i
        <5>1. que[k + 1].idx < que[i].idx
          BY <1>1, <2>1, <4>3 DEF Ordered
        <5>2. que[k + 1].idx \in Nat /\ que[i].idx \in Nat
          BY <1>1, <2>1, <4>1
        <5> QED BY <1>2, <3>1, <5>1, <5>2
      <4> QED BY <4>1, <4>2, <4>3
    <3>3. k + 1 \in Older(r, n) /\ Older(r, n) \in SUBSET Int /\ \A y \in Older(r, n) : k + 1 <= y
      BY <1>1, <2>1, <3>2 DEF Older
    <3> QED BY <3>3, MinIs
  <2>3. CutOut(que, kept, k, 1)
    BY <1>1, <1>5, <2>1, RemoveCuts DEF KeptQue
  <2>4. MadeRoom(r) = BufFrames(que[k + 1])
    BY <1>5 DEF MadeRoom
  <2> HIDE DEF que, k, kept
  <2>5. /\ Sound(kept, k) /\ (Named(que) => Named(kept))
        /\ FramesOf(que) = FramesOf(kept) \cup FramesIn(que, k + 1, k + 1)
        /\ FramesOf(kept) \cap FramesIn(que, k + 1, k + 1) = {}
    BY <1>1, <2>3, CutKeeps
  <2>6. FramesIn(que, k + 1, k + 1) = BufFrames(que[k + 1])
    <3>1. \A i \in k + 1 .. k + 1 : i = k + 1
      BY <1>1
    <3>2. k + 1 \in k + 1 .. k + 1
      BY <1>1
    <3> QED BY <3>1, <3>2, Zenon DEF FramesIn, BufFrames
  <2>7. Len(kept) = Len(que) - 1 /\ \A i \in 1 .. Len(kept) : kept[i] = que[IF i <= k THEN i ELSE i + 1]
    BY <2>3 DEF CutOut
  <2>8. Len(kept) - k <= max_unmatched_frames
    BY <1>1, <1>2, <2>7 DEF Sound, Roomy
  <2>9. \A i \in k + 1 .. Len(kept) : kept[i].idx # Idx(n)
    <3>1. \A i \in k + 1 .. Len(kept) : i \in 1 .. Len(kept) /\ ~(i <= k) /\ i + 1 \in k + 1 .. Len(que)
      BY <1>1, <2>7
    <3> QED BY <1>3, <2>7, <3>1
  <2>10. MadeRoom(r) \subseteq AllFrames
    BY <2>4 DEF BufFrames
  <2>11. que[k + 1] \in SuperBuf
    BY <1>1, <2>1
  <2> QED BY <2>2, <2>4, <2>5, <2>6, <2>8, <2>9, <2>10, <2>11 DEF que, k, kept
<1> QED BY <1>4, <1>5

\* Insert(): the frame starts a superbuffer or goes back.
LEMMA InsertKeeps ==
  ASSUME NEW r, WorkOK(r), resetAt \in Nat, NEW s \in Streams, NEW n \in FrameNos,
         <<s, n>> \notin Held(r),
         {i \in Unmatched(r.q.que) : r.q.que[i].idx = Idx(n)} = {},
         NEW t, t = Insert(r, s, n)
  PROVE  WorkOK(t) /\ Held(t) = Held(r) \cup {<<s, n>>}
<1>1. CASE Full(r) /\ Older(r, n) = {}
  <2>1. t = Release(r, s, n)
    BY <1>1 DEF Insert, Full, Older
  <2> QED BY <2>1, ReleaseKeeps
<1>2. CASE ~(Full(r) /\ Older(r, n) = {})
  <2> DEFINE que == r.q.que
             k == r.q.match_cnt
             kept == KeptQue(r)
             b == NewBuf(s, n)
             q == NewPlace(kept, b)
             gone == MadeRoom(r)
             f == <<s, n>>
  <2>1. /\ Full(r) => Min(Older(r, n)) = k + 1 /\ que[k + 1] \in SuperBuf
        /\ Sound(kept, k) /\ Len(kept) - k <= max_unmatched_frames
        /\ \A i \in k + 1 .. Len(kept) : kept[i].idx # Idx(n)
        /\ Named(que) => Named(kept)
        /\ FramesOf(que) = FramesOf(kept) \cup gone
        /\ FramesOf(kept) \cap gone = {} /\ gone \subseteq AllFrames
    BY <1>2, RoomKeeps
  <2>2. /\ b \in SuperBuf /\ ~Matched(b) /\ b.idx = Idx(n) /\ BufFrames(b) = {f}
        /\ resetAt = 0 => \A u \in Streams : b.bufs[u] \in {0, b.idx}
    BY NewBufIs
  <2>3. /\ r \in Works /\ ~r.q.stuck /\ NamedUnlessReset(que) /\ (resetAt = 0 => r.over = {})
        /\ FramesOf(que) \cap r.free = {} /\ FramesOf(que) \cap r.over = {} /\ r.free \cap r.over = {}
        /\ r.free \subseteq AllFrames /\ r.over \subseteq AllFrames
    BY DEF WorkOK, Works
  <2>4. f \notin FramesOf(que) /\ f \notin r.free /\ f \notin r.over
    BY DEF Held
  <2>5. t = [r EXCEPT !.q.que = q, !.free = @ \cup gone]
    <3> DEFINE full == Full(r)
               old == Older(r, n)
               kk == IF full THEN RemoveAt(que, Min(old)) ELSE que
               fr == IF full THEN FramesOf(<<que[Min(old)]>>) ELSE {}
    <3>1. kk = kept
      BY <2>1 DEF KeptQue
    <3>2. fr = gone
      BY <2>1, SingleFrames DEF MadeRoom
    <3>3. t = [r EXCEPT !.q.que = NewPlace(kk, b), !.free = @ \cup fr]
      <4> DEFINE large == {i \in Unmatched(kk) : kk[i].idx > Idx(n)}
      <4>1. t = [r EXCEPT !.q.que = IF large = {} THEN Append(kk, b) ELSE InsertAt(kk, Min(large), b),
                          !.free = @ \cup fr]
        BY <1>2 DEF Insert, Full, Older, NewBuf
      <4>2. NewPlace(kk, b) = IF large = {} THEN Append(kk, b) ELSE InsertAt(kk, Min(large), b)
        BY <2>2 DEF NewPlace
      <4> HIDE DEF large, kk, fr, b
      <4> QED BY <4>1, <4>2
    <3> QED BY <3>1, <3>2, <3>3
  <2> HIDE DEF que, k, kept, b, q, gone, f
  <2>6. /\ Sound(q, k) /\ (Named(kept) /\ (\A u \in Streams : b.bufs[u] \in {0, b.idx}) => Named(q))
        /\ FramesOf(q) = FramesOf(kept) \cup BufFrames(b)
    <3>1. BufFrames(b) \cap FramesOf(kept) = {}
      BY <2>1, <2>2, <2>4
    <3>2. \A i \in k + 1 .. Len(kept) : kept[i].idx # b.idx
      BY <2>1, <2>2
    <3> QED BY <2>1, <2>2, <3>1, <3>2, PutKeeps DEF q
  <2>7. q \in Seq(SuperBuf)
    BY <2>6 DEF Sound, Ordered
  <2>8. /\ t \in Works /\ t.q.que = q /\ t.q.match_cnt = k /\ t.q.stuck = r.q.stuck
        /\ t.free = r.free \cup gone /\ t.over = r.over
    BY <2>1, <2>3, <2>5, <2>7 DEF Works, SuperQs, k
  <2>9. NamedUnlessReset(q)
    BY <2>1, <2>2, <2>3, <2>6 DEF NamedUnlessReset
  <2>10. /\ FramesOf(q) \cap t.free = {} /\ FramesOf(q) \cap t.over = {} /\ t.free \cap t.over = {}
    <3>1. FramesOf(q) \cap r.free = {} /\ FramesOf(q) \cap r.over = {}
      BY <2>1, <2>2, <2>3, <2>4, <2>6
    <3>2. FramesOf(q) \cap gone = {} /\ gone \cap r.over = {}
      BY <2>1, <2>2, <2>3, <2>4, <2>6
    <3> QED BY <2>3, <2>8, <3>1, <3>2
  <2>11. WorkOK(t)
    BY <2>3, <2>6, <2>8, <2>9, <2>10, Zenon DEF WorkOK
  <2>12. Held(t) = Held(r) \cup {f}
    BY <2>1, <2>2, <2>6, <2>8 DEF Held, que
  <2> QED BY <2>11, <2>12 DEF f
<1> QED BY <1>1, <1>2

\* comp_and_enqueue(): the frame and all that were in the queue are in the
\* queue, released, or forgotten after a new start of the numbering.
LEMMA CompKeeps ==
  ASSUME NEW r, WorkOK(r), resetAt \in Nat, NEW s \in Streams, NEW n \in FrameNos,
         <<s, n>> \notin Held(r), NEW m \in Metadata, NEW t, t = comp_and_enqueue(r, s, n, m)
  PROVE  WorkOK(t) /\ Held(t) = Held(r) \cup {<<s, n>>}
<1> DEFINE r1 == handle_metadata(r, s, n, m)
           hit == {i \in Unmatched(r1.q.que) : r1.q.que[i].idx = Idx(n)}
<1>1. WorkOK(r1) /\ Held(r1) = Held(r)
  BY MetadataKeeps
<1>2. t = IF m.kind = "invalid" \/ Idx(n) < r1.q.expected THEN Release(r1, s, n)
          ELSE IF hit = {} THEN Insert(r1, s, n) ELSE Join(r1, s, n, Min(hit))
  BY DEF comp_and_enqueue
<1> HIDE DEF r1
<1>3. CASE m.kind = "invalid" \/ Idx(n) < r1.q.expected
  <2>1. t = Release(r1, s, n)
    BY <1>2, <1>3
  <2> QED BY <1>1, <2>1, ReleaseKeeps
<1>4. CASE ~(m.kind = "invalid" \/ Idx(n) < r1.q.expected) /\ hit = {}
  <2>1. t = Insert(r1, s, n)
    BY <1>2, <1>4
  <2> QED BY <1>1, <1>4, <2>1, InsertKeeps
<1>5. CASE ~(m.kind = "invalid" \/ Idx(n) < r1.q.expected) /\ hit # {}
  <2> DEFINE p == Min(hit)
  <2>1. t = Join(r1, s, n, p)
    BY <1>2, <1>5
  <2>2. p \in hit
    <3>1. hit \in SUBSET Nat
      BY <1>1, WorkFacts
    <3> HIDE DEF hit
    <3> QED BY <1>5, <3>1, MinExists
  <2>3. p \in Unmatched(r1.q.que) /\ r1.q.que[p].idx = Idx(n)
    BY <2>2
  <2> HIDE DEF p
  <2> QED BY <1>1, <2>1, <2>3, JoinKeeps
<1> QED BY <1>3, <1>4, <1>5
-----------------------------------------------------------------------------
(* The commands of the channel, and the superbuffers on their way.          *)

\* enqueue() brings the frame of its command, and of no other.
LEMMA CmdAdded ==
  ASSUME NEW q \in Seq(Command), NEW c \in Command, NEW F, F = {f \in AllFrames : Brings(c, f)}
  PROVE  /\ enqueue(q, c) \in Seq(Command)
         /\ CmdFrames(enqueue(q, c)) = CmdFrames(q) \cup F
         /\ Once(q) /\ F \cap CmdFrames(q) = {} => Once(enqueue(q, c))
         /\ NoFlush(q) /\ ~IsFlush(c) => NoFlush(enqueue(q, c))
         /\ \A borrowed \in BOOLEAN :
              /\ FlushLast(q, borrowed) /\ ~IsFlush(c) /\ (borrowed /\ ~NoFlush(q) => ~IsMeta(c))
                   => FlushLast(enqueue(q, c), borrowed)
              /\ NoFlush(q) /\ IsFlush(c) /\ c.s = (IF borrowed THEN {"meta"} ELSE Streams)
                   => FlushLast(enqueue(q, c), borrowed)
<1> DEFINE e == enqueue(q, c)
<1>1. /\ e \in Seq(Command) /\ Len(e) = Len(q) + 1 /\ e[Len(q) + 1] = c
      /\ \A i \in 1 .. Len(q) : e[i] = q[i]
      /\ Len(q) \in Nat
  <2>1. /\ Append(q, c) \in Seq(Command) /\ Len(Append(q, c)) = Len(q) + 1
        /\ Append(q, c)[Len(q) + 1] = c
        /\ \A i \in 1 .. Len(q) : Append(q, c)[i] = q[i]
        /\ Len(q) \in Nat
    BY AppendProperties, LenProperties
  <2> QED BY <2>1, Zenon DEF enqueue
<1> HIDE DEF e
<1>2. \A i \in 1 .. Len(e) : i \in 1 .. Len(q) \/ i = Len(q) + 1
  BY <1>1
<1>3. Len(q) + 1 \in 1 .. Len(e) /\ \A i \in 1 .. Len(q) : i \in 1 .. Len(e)
  BY <1>1
<1>4. CmdFrames(e) = CmdFrames(q) \cup F
  <2>1. CmdFrames(e) \subseteq CmdFrames(q) \cup F
    BY <1>1, <1>2 DEF CmdFrames
  <2>2. CmdFrames(q) \cup F \subseteq CmdFrames(e)
    BY <1>1, <1>3 DEF CmdFrames
  <2> QED BY <2>1, <2>2
<1>5. Once(q) /\ F \cap CmdFrames(q) = {} => Once(e)
  <2> SUFFICES ASSUME Once(q), F \cap CmdFrames(q) = {}, NEW f \in AllFrames,
                      NEW i \in 1 .. Len(e), NEW j \in 1 .. Len(e), Brings(e[i], f), Brings(e[j], f)
               PROVE  i = j
    BY DEF Once
  <2>1. CASE i \in 1 .. Len(q) /\ j \in 1 .. Len(q)
    BY <1>1, <2>1 DEF Once
  <2>2. CASE i \in 1 .. Len(q) /\ j = Len(q) + 1
    BY <1>1, <2>2 DEF CmdFrames
  <2>3. CASE j \in 1 .. Len(q) /\ i = Len(q) + 1
    BY <1>1, <2>3 DEF CmdFrames
  <2> QED BY <1>2, <2>1, <2>2, <2>3
<1>6. NoFlush(q) /\ ~IsFlush(c) => NoFlush(e)
  BY <1>1, <1>2 DEF NoFlush
<1>7. ASSUME NEW borrowed \in BOOLEAN, FlushLast(q, borrowed), ~IsFlush(c),
             borrowed /\ ~NoFlush(q) => ~IsMeta(c)
      PROVE  FlushLast(e, borrowed)
  <2> SUFFICES ASSUME NEW i \in 1 .. Len(e), IsFlush(e[i])
               PROVE  /\ e[i].s = IF borrowed THEN {"meta"} ELSE Streams
                      /\ \A j \in 1 .. Len(e) : IsFlush(e[j]) => i = j
                      /\ borrowed => \A j \in i + 1 .. Len(e) : ~IsMeta(e[j])
    BY DEF FlushLast
  <2>1. i \in 1 .. Len(q) /\ e[i] = q[i] /\ IsFlush(q[i])
    BY <1>1, <1>2, <1>7
  <2>2. ~NoFlush(q)
    BY <2>1 DEF NoFlush
  <2>3. \A j \in 1 .. Len(e) : IsFlush(e[j]) => i = j
    BY <1>1, <1>2, <1>7, <2>1 DEF FlushLast
  <2>4. borrowed => \A j \in i + 1 .. Len(e) : ~IsMeta(e[j])
    <3>1. \A j \in i + 1 .. Len(e) : (j \in 1 .. Len(q) /\ j \in i + 1 .. Len(q)) \/ j = Len(q) + 1
      BY <1>1, <2>1
    <3> QED BY <1>1, <1>7, <2>1, <2>2, <3>1 DEF FlushLast
  <2>5. e[i].s = IF borrowed THEN {"meta"} ELSE Streams
    BY <1>7, <2>1 DEF FlushLast
  <2> QED BY <2>3, <2>4, <2>5
<1>8. ASSUME NEW borrowed \in BOOLEAN, NoFlush(q), IsFlush(c),
             c.s = IF borrowed THEN {"meta"} ELSE Streams
      PROVE  FlushLast(e, borrowed)
  <2>1. \A i \in 1 .. Len(e) : IsFlush(e[i]) => i = Len(q) + 1
    BY <1>1, <1>2, <1>8 DEF NoFlush
  <2>2. \A i \in 1 .. Len(e) : IsFlush(e[i]) => i + 1 .. Len(e) = {}
    BY <1>1, <2>1
  <2> QED BY <1>1, <1>8, <2>1, <2>2 DEF FlushLast
<1> QED BY <1>1, <1>4, <1>5, <1>6, <1>7, <1>8 DEF e

\* The first command c of a list, the others, and the frame it brings.
Takes(q, c, t, F) ==
  /\ q \in Seq(Command) /\ q # << >> /\ c = Head(q) /\ t = Tail(q)
  /\ F = {f \in AllFrames : Brings(c, f)}

\* The command thread takes the first command: its frame leaves the list, and
\* behind a flush nothing of a borrowed stream follows.
LEMMA CmdTaken ==
  ASSUME NEW q, NEW c, NEW t, NEW F, Takes(q, c, t, F)
  PROVE  /\ t \in Seq(Command) /\ c \in Command
         /\ CmdFrames(q) = CmdFrames(t) \cup F
         /\ Once(q) => Once(t) /\ F \cap CmdFrames(t) = {}
         /\ NoFlush(q) => NoFlush(t) /\ ~IsFlush(c)
         /\ \A borrowed \in BOOLEAN : FlushLast(q, borrowed) =>
              /\ FlushLast(t, borrowed)
              /\ IsFlush(c) => /\ NoFlush(t) /\ c.s = (IF borrowed THEN {"meta"} ELSE Streams)
                               /\ borrowed => \A f \in CmdFrames(t) : f[1] # "meta"
<1> USE DEF Takes
<1>1. /\ t \in Seq(Command) /\ c \in Command /\ Len(t) = Len(q) - 1 /\ c = q[1]
      /\ \A i \in 1 .. Len(t) : t[i] = q[i + 1]
      /\ Len(q) \in Nat /\ Len(q) > 0
  BY HeadTailProperties, LenProperties, EmptySeq
<1>2. \A i \in 1 .. Len(q) : i = 1 \/ (i - 1 \in 1 .. Len(t) /\ t[i - 1] = q[i])
  BY <1>1
<1>3. 1 \in 1 .. Len(q) /\ \A i \in 1 .. Len(t) : i + 1 \in 1 .. Len(q) /\ i + 1 # 1
  BY <1>1
<1>4. CmdFrames(q) = CmdFrames(t) \cup F
  <2>1. ASSUME NEW f \in CmdFrames(q) PROVE f \in CmdFrames(t) \cup F
    <3>1. PICK i \in 1 .. Len(q) : f \in AllFrames /\ Brings(q[i], f)
      BY DEF CmdFrames
    <3>2. CASE i = 1
      BY <1>1, <3>1, <3>2
    <3>3. CASE i - 1 \in 1 .. Len(t) /\ t[i - 1] = q[i]
      BY <3>1, <3>3 DEF CmdFrames
    <3> QED BY <1>2, <3>2, <3>3
  <2>2. CmdFrames(t) \cup F \subseteq CmdFrames(q)
    BY <1>1, <1>3 DEF CmdFrames
  <2> QED BY <2>1, <2>2
<1>5. ASSUME Once(q) PROVE Once(t) /\ F \cap CmdFrames(t) = {}
  <2>1. Once(t)
    BY <1>1, <1>3, <1>5 DEF Once
  <2>2. F \cap CmdFrames(t) = {}
    BY <1>1, <1>3, <1>5 DEF Once, CmdFrames
  <2> QED BY <2>1, <2>2
<1>6. NoFlush(q) => NoFlush(t) /\ ~IsFlush(c)
  BY <1>1, <1>3 DEF NoFlush
<1>7. ASSUME NEW borrowed \in BOOLEAN, FlushLast(q, borrowed) PROVE FlushLast(t, borrowed)
  <2> SUFFICES ASSUME NEW i \in 1 .. Len(t), IsFlush(t[i])
               PROVE  /\ t[i].s = IF borrowed THEN {"meta"} ELSE Streams
                      /\ \A j \in 1 .. Len(t) : IsFlush(t[j]) => i = j
                      /\ borrowed => \A j \in i + 1 .. Len(t) : ~IsMeta(t[j])
    BY DEF FlushLast
  <2>1. i + 1 \in 1 .. Len(q) /\ IsFlush(q[i + 1]) /\ t[i] = q[i + 1]
    BY <1>1, <1>3
  <2>2. \A j \in 1 .. Len(t) : IsFlush(t[j]) => i = j
    <3>1. \A j \in 1 .. Len(t) : IsFlush(t[j]) => i + 1 = j + 1
      BY <1>1, <1>3, <1>7, <2>1 DEF FlushLast
    <3> QED BY <1>1, <3>1
  <2>3. borrowed => \A j \in i + 1 .. Len(t) : ~IsMeta(t[j])
    <3>1. \A j \in i + 1 .. Len(t) : j \in 1 .. Len(t) /\ j + 1 \in (i + 1) + 1 .. Len(q)
      BY <1>1
    <3> QED BY <1>1, <1>7, <2>1, <3>1 DEF FlushLast
  <2>4. t[i].s = IF borrowed THEN {"meta"} ELSE Streams
    BY <1>7, <2>1 DEF FlushLast
  <2> QED BY <2>2, <2>3, <2>4
<1>8. ASSUME NEW borrowed \in BOOLEAN, FlushLast(q, borrowed), IsFlush(c)
      PROVE  /\ NoFlush(t) /\ c.s = (IF borrowed THEN {"meta"} ELSE Streams)
             /\ borrowed => \A f \in CmdFrames(t) : f[1] # "meta"
  <2>1. NoFlush(t)
    BY <1>1, <1>3, <1>8 DEF NoFlush, FlushLast
  <2>2. c.s = IF borrowed THEN {"meta"} ELSE Streams
    BY <1>1, <1>3, <1>8 DEF FlushLast
  <2>3. ASSUME borrowed, NEW f \in CmdFrames(t), f[1] = "meta" PROVE FALSE
    <3>1. PICK i \in 1 .. Len(t) : Brings(t[i], f)
      BY DEF CmdFrames
    <3>2. i + 1 \in 1 + 1 .. Len(q) /\ t[i] = q[i + 1]
      BY <1>1
    <3>3. IsMeta(q[i + 1])
      BY <2>3, <3>1, <3>2 DEF Brings, IsMeta
    <3> QED BY <1>1, <1>3, <1>8, <2>3, <3>2, <3>3 DEF FlushLast
  <2> QED BY <2>1, <2>2, <2>3
<1> QED BY <1>1, <1>4, <1>5, <1>6, <1>7, <1>8

\* The first m superbuffers of a queue are sent to the callback thread.
Sends(cb, que, k, m, c) ==
  /\ cb \in Seq(Pair) /\ Sound(que, k) /\ m \in 0 .. k
  /\ FramesIn(que, 1, m) \cap CbFrames(cb) = {}
  /\ c = cb \o [i \in 1 .. m |-> que[i].bufs]

\* They take their frames along.
LEMMA BundlesSent ==
  ASSUME NEW cb, NEW que, NEW k, NEW m, NEW c, Sends(cb, que, k, m, c)
  PROVE  /\ c \in Seq(Pair) /\ CbFrames(c) = CbFrames(cb) \cup FramesIn(que, 1, m)
         /\ Pairwise(cb) => Pairwise(c)
         /\ SameNumber(cb) /\ Named(que) => SameNumber(c)
<1> USE DEF Sends
<1> DEFINE new == [i \in 1 .. m |-> que[i].bufs]
<1>1. /\ que \in Seq(SuperBuf) /\ Len(que) \in Nat /\ k \in 0 .. Len(que) /\ m \in Nat
      /\ \A i \in 1 .. m : i \in 1 .. Len(que) /\ que[i] \in SuperBuf /\ Matched(que[i])
  <2>1. que \in Seq(SuperBuf) /\ k \in 0 .. Len(que) /\ \A i \in 1 .. Len(que) : Matched(que[i]) <=> i <= k
    BY DEF Sound, Ordered
  <2>2. Len(que) \in Nat /\ \A i \in 1 .. Len(que) : que[i] \in SuperBuf
    BY <2>1, SuperBufType
  <2>3. m \in Nat /\ \A i \in 1 .. m : i \in 1 .. Len(que) /\ i <= k
    BY <2>1, <2>2
  <2> QED BY <2>1, <2>2, <2>3
<1>2. \A i \in 1 .. m : que[i].bufs \in Pair
  <2> TAKE i \in 1 .. m
  <2>1. que[i].bufs \in [Streams -> 0 .. MaxFrame] /\ \A s \in Streams : que[i].bufs[s] # 0
    BY <1>1 DEF SuperBuf, Matched
  <2>2. \A x \in 0 .. MaxFrame : x # 0 => x \in FrameNos
    BY Limits DEF FrameNos
  <2> QED BY <2>1, <2>2 DEF Pair
<1>3. new \in Seq(Pair) /\ Len(new) = m /\ \A i \in 1 .. m : new[i] = que[i].bufs
  <2>1. new \in [1 .. m -> Pair]
    BY <1>2
  <2>2. new \in Seq(Pair)
    BY <1>1, <2>1, SeqDef
  <2>3. DOMAIN new = 1 .. m /\ DOMAIN new = 1 .. Len(new) /\ Len(new) \in Nat
    BY <2>1, <2>2, LenProperties
  <2> QED BY <1>1, <2>2, <2>3
<1> HIDE DEF new
<1>4. /\ c \in Seq(Pair) /\ Len(c) = Len(cb) + m /\ Len(cb) \in Nat
      /\ \A i \in 1 .. Len(c) : c[i] = IF i <= Len(cb) THEN cb[i] ELSE new[i - Len(cb)]
  <2> DEFINE d == cb \o new
  <2>1. /\ d \in Seq(Pair) /\ Len(d) = Len(cb) + Len(new)
        /\ \A i \in 1 .. Len(cb) + Len(new) : d[i] = IF i <= Len(cb) THEN cb[i] ELSE new[i - Len(cb)]
    BY <1>3, ConcatProperties
  <2>2. c = d
    BY DEF new
  <2> HIDE DEF d
  <2>3. Len(cb) \in Nat
    BY LenProperties
  <2> QED BY <1>3, <2>1, <2>2, <2>3
<1>5. \A i \in 1 .. Len(c) : \/ i \in 1 .. Len(cb) /\ c[i] = cb[i]
                             \/ i - Len(cb) \in 1 .. m /\ c[i] = que[i - Len(cb)].bufs
  BY <1>1, <1>3, <1>4
<1>6. /\ \A i \in 1 .. Len(cb) : i \in 1 .. Len(c) /\ c[i] = cb[i]
      /\ \A i \in 1 .. m : i + Len(cb) \in 1 .. Len(c) /\ c[i + Len(cb)] = que[i].bufs
  <2>1. \A i \in 1 .. Len(cb) : i \in 1 .. Len(c) /\ c[i] = cb[i]
    BY <1>1, <1>4
  <2>2. \A i \in 1 .. m : i + Len(cb) \in 1 .. Len(c) /\ ~(i + Len(cb) <= Len(cb)) /\ i + Len(cb) - Len(cb) = i
    BY <1>1, <1>4
  <2>3. \A i \in 1 .. m : c[i + Len(cb)] = que[i].bufs
    BY <1>3, <1>4, <2>2
  <2> QED BY <2>1, <2>2, <2>3
<1>7. CbFrames(c) = CbFrames(cb) \cup FramesIn(que, 1, m)
  <2>1. CbFrames(c) \subseteq CbFrames(cb) \cup FramesIn(que, 1, m)
    BY <1>5 DEF CbFrames, FramesIn
  <2>2. CbFrames(cb) \subseteq CbFrames(c)
    BY <1>6 DEF CbFrames
  <2>3. FramesIn(que, 1, m) \subseteq CbFrames(c)
    BY <1>6 DEF CbFrames, FramesIn
  <2> QED BY <2>1, <2>2, <2>3
<1>8. ASSUME Pairwise(cb), NEW i \in 1 .. Len(c), NEW j \in 1 .. Len(c), NEW s \in Streams, c[i][s] = c[j][s]
      PROVE  i = j
  <2>0. \A x \in 1 .. Len(cb), y \in 1 .. m : cb[x][s] # que[y].bufs[s]
    <3> SUFFICES ASSUME NEW x \in 1 .. Len(cb), NEW y \in 1 .. m, cb[x][s] = que[y].bufs[s] PROVE FALSE
      OBVIOUS
    <3>1. que[y].bufs[s] \in FrameNos
      BY <1>2 DEF Pair
    <3> DEFINE f == <<s, que[y].bufs[s]>>
    <3>2. f \in AllFrames /\ f[1] = s /\ f[2] = que[y].bufs[s]
      BY <3>1 DEF AllFrames
    <3> HIDE DEF f
    <3>3. f \in CbFrames(cb) /\ f \in FramesIn(que, 1, m)
      BY <3>2 DEF CbFrames, FramesIn
    <3> QED BY <3>3
  <2>1. CASE i \in 1 .. Len(cb) /\ j \in 1 .. Len(cb)
    BY <1>6, <1>8, <2>1 DEF Pairwise
  <2>2. CASE i \in 1 .. Len(cb) /\ j \notin 1 .. Len(cb)
    BY <1>5, <1>8, <2>0, <2>2
  <2>3. CASE i \notin 1 .. Len(cb) /\ j \in 1 .. Len(cb)
    BY <1>5, <1>8, <2>0, <2>3
  <2>4. CASE i \notin 1 .. Len(cb) /\ j \notin 1 .. Len(cb)
    <3>1. /\ i - Len(cb) \in 1 .. m /\ c[i] = que[i - Len(cb)].bufs
          /\ j - Len(cb) \in 1 .. m /\ c[j] = que[j - Len(cb)].bufs
      BY <1>5, <2>4
    <3>2. que[i - Len(cb)].bufs[s] # 0
      BY <1>1, <3>1 DEF Matched
    <3>3. i - Len(cb) = j - Len(cb)
      BY <1>1, <1>8, <3>1, <3>2 DEF Sound, Sole
    <3> QED BY <1>4, <3>3
  <2> QED BY <2>1, <2>2, <2>3, <2>4
<1>9. ASSUME SameNumber(cb), Named(que) PROVE SameNumber(c)
  <2>1. \A i \in 1 .. m : que[i].bufs["snap"] = que[i].bufs["meta"]
    BY <1>1, <1>9 DEF Named, Matched, Streams
  <2> QED BY <1>5, <1>9, <2>1 DEF SameNumber
<1> QED BY <1>4, <1>7, <1>8, <1>9 DEF Pairwise

\* The callback thread hands the first one over.
LEMMA BundleTaken ==
  ASSUME NEW q \in Seq(Pair), q # << >>, NEW b, b = Head(q), NEW t, t = Tail(q)
  PROVE  /\ t \in Seq(Pair) /\ b \in Pair
         /\ CbFrames(q) = CbFrames(t) \cup HalFrames({b})
         /\ Pairwise(q) => Pairwise(t) /\ CbFrames(t) \cap HalFrames({b}) = {}
         /\ SameNumber(q) => SameNumber(t) /\ b["snap"] = b["meta"]
<1>1. /\ t \in Seq(Pair) /\ b \in Pair /\ Len(t) = Len(q) - 1 /\ b = q[1]
      /\ \A i \in 1 .. Len(t) : t[i] = q[i + 1]
      /\ Len(q) \in Nat /\ Len(q) > 0
  BY HeadTailProperties, LenProperties, EmptySeq
<1>2. \A i \in 1 .. Len(q) : i = 1 \/ (i - 1 \in 1 .. Len(t) /\ t[i - 1] = q[i])
  BY <1>1
<1>3. 1 \in 1 .. Len(q) /\ \A i \in 1 .. Len(t) : i + 1 \in 1 .. Len(q) /\ i + 1 # 1
  BY <1>1
<1>4. CbFrames(q) = CbFrames(t) \cup HalFrames({b})
  <2>1. ASSUME NEW f \in CbFrames(q) PROVE f \in CbFrames(t) \cup HalFrames({b})
    <3>1. PICK i \in 1 .. Len(q) : f \in AllFrames /\ q[i][f[1]] = f[2]
      BY DEF CbFrames
    <3>2. CASE i = 1
      BY <1>1, <3>1, <3>2 DEF HalFrames
    <3>3. CASE i - 1 \in 1 .. Len(t) /\ t[i - 1] = q[i]
      BY <3>1, <3>3 DEF CbFrames
    <3> QED BY <1>2, <3>2, <3>3
  <2>2. CbFrames(t) \subseteq CbFrames(q)
    BY <1>1, <1>3 DEF CbFrames
  <2>3. HalFrames({b}) \subseteq CbFrames(q)
    BY <1>1, <1>3 DEF CbFrames, HalFrames
  <2> QED BY <2>1, <2>2, <2>3
<1>5. ASSUME Pairwise(q) PROVE Pairwise(t) /\ CbFrames(t) \cap HalFrames({b}) = {}
  <2>1. ASSUME NEW i \in 1 .. Len(t), NEW j \in 1 .. Len(t), NEW s \in Streams, t[i][s] = t[j][s] PROVE i = j
    <3>1. i + 1 = j + 1
      BY <1>1, <1>3, <1>5, <2>1 DEF Pairwise
    <3> QED BY <3>1
  <2>2. ASSUME NEW f \in CbFrames(t), f \in HalFrames({b}) PROVE FALSE
    <3>1. PICK i \in 1 .. Len(t) : f \in AllFrames /\ t[i][f[1]] = f[2]
      BY DEF CbFrames
    <3>2. b[f[1]] = f[2] /\ f[1] \in Streams
      BY <2>2, <3>1 DEF HalFrames, AllFrames
    <3> QED BY <1>1, <1>3, <1>5, <3>1, <3>2 DEF Pairwise
  <2> QED BY <2>1, <2>2 DEF Pairwise
<1>6. SameNumber(q) => SameNumber(t) /\ b["snap"] = b["meta"]
  BY <1>1, <1>3 DEF SameNumber
<1> QED BY <1>1, <1>4, <1>5, <1>6

\* The frames of the HAL's superbuffers, one by one.
LEMMA HalTakes ==
  ASSUME NEW W \in SUBSET Pair, NEW b \in Pair
  PROVE  /\ HalFrames(W \cup {b}) = HalFrames(W) \cup HalFrames({b})
         /\ HalFrames({b}) = {<<s, b[s]>> : s \in Streams}
         /\ Separate(W) /\ HalFrames(W) \cap HalFrames({b}) = {} => Separate(W \cup {b})
         /\ Separate(W) /\ b \in W => HalFrames(W \ {b}) = HalFrames(W) \ HalFrames({b})
         /\ Separate(W) => Separate(W \ {b})
<1>1. HalFrames(W \cup {b}) = HalFrames(W) \cup HalFrames({b})
  BY DEF HalFrames
<1>2. \A f \in AllFrames : f = <<f[1], f[2]>> /\ f[1] \in Streams /\ f[2] \in FrameNos
  BY DEF AllFrames
<1>3. \A s \in Streams, a \in Pair : <<s, a[s]>> \in AllFrames
  BY DEF Pair, AllFrames
<1>4. HalFrames({b}) = {<<s, b[s]>> : s \in Streams}
  BY <1>2, <1>3 DEF HalFrames
<1>5. ASSUME Separate(W), HalFrames(W) \cap HalFrames({b}) = {},
             NEW x \in W \cup {b}, NEW y \in W \cup {b}, NEW s \in Streams, x[s] = y[s]
      PROVE  x = y
  <2>1. CASE x \in W /\ y \in W
    BY <1>5, <2>1 DEF Separate
  <2>2. ASSUME NEW a \in W, a[s] = b[s] PROVE FALSE
    <3>1. <<s, a[s]>> \in HalFrames(W) /\ <<s, b[s]>> \in HalFrames({b})
      BY <1>3 DEF HalFrames
    <3> QED BY <1>5, <2>2, <3>1
  <2> QED BY <1>5, <2>1, <2>2
<1>6. ASSUME Separate(W), b \in W PROVE HalFrames(W \ {b}) = HalFrames(W) \ HalFrames({b})
  <2>1. HalFrames(W \ {b}) \subseteq HalFrames(W)
    BY DEF HalFrames
  <2>2. HalFrames(W \ {b}) \cap HalFrames({b}) = {}
    BY <1>2, <1>6 DEF HalFrames, Separate
  <2>3. HalFrames(W) \ HalFrames({b}) \subseteq HalFrames(W \ {b})
    BY DEF HalFrames
  <2> QED BY <2>1, <2>2, <2>3
<1>7. Separate(W) => Separate(W \ {b})
  BY DEF Separate
<1> QED BY <1>1, <1>4, <1>5, <1>6, <1>7 DEF Separate
-----------------------------------------------------------------------------
(* The steps of the channel.                                                *)

\* A command brings the frames F to a queue with B: B2 stay there, K are sent
\* on, Fr are released and Ov forgotten; those of Fr not in R are forgotten too.
Moved(A, B, C, D, E, G, A2, B2, C2, E2, F, K, Fr, Ov, R) ==
  /\ Apart6(A, B, C, D, E, G)
  /\ A = A2 \cup F /\ A2 \cap F = {}
  /\ B \cup F = B2 \cup K \cup Fr \cup Ov
  /\ B2 \cap K = {} /\ B2 \cap Fr = {} /\ B2 \cap Ov = {}
  /\ K \cap Fr = {} /\ K \cap Ov = {} /\ Fr \cap Ov = {}
  /\ R \subseteq Fr
  /\ C2 = C \cup K
  /\ E2 = E \cup Ov \cup (Fr \ R)

\* Frames that leave one place for others stay in one place each.
LEMMA Moves ==
  ASSUME NEW A, NEW B, NEW C, NEW D, NEW E, NEW G, NEW A2, NEW B2, NEW C2, NEW E2,
         NEW F, NEW K, NEW Fr, NEW Ov, NEW R,
         Moved(A, B, C, D, E, G, A2, B2, C2, E2, F, K, Fr, Ov, R)
  PROVE  /\ Apart6(A2, B2, C2, D, E2, G)
         /\ A2 \cup B2 \cup C2 \cup D \cup E2 \cup G = (A \cup B \cup C \cup D \cup E \cup G) \ R
         /\ R \subseteq A \cup B \cup C \cup D \cup E \cup G
<1> USE DEF Moved, Apart6
<1>1. \A x \in B2 \cup K \cup Fr \cup Ov : x \in B \/ x \in F
  OBVIOUS
<1>2. \A x \in F : x \in A /\ x \notin A2
  OBVIOUS
<1>3. A2 \subseteq A
  OBVIOUS
<1>4. A2 \cap B2 = {} /\ A2 \cap C2 = {} /\ A2 \cap D = {} /\ A2 \cap E2 = {} /\ A2 \cap G = {}
  BY <1>1, <1>2, <1>3
<1>5. B2 \cap C2 = {} /\ B2 \cap D = {} /\ B2 \cap E2 = {} /\ B2 \cap G = {}
  BY <1>1, <1>2
<1>6. C2 \cap D = {} /\ C2 \cap E2 = {} /\ C2 \cap G = {}
  BY <1>1, <1>2
<1>7. D \cap E2 = {} /\ D \cap G = {} /\ E2 \cap G = {}
  BY <1>1, <1>2
<1>8. A2 \cup B2 \cup C2 \cup D \cup E2 \cup G \subseteq (A \cup B \cup C \cup D \cup E \cup G) \ R
  <2>1. A2 \cup B2 \cup C2 \cup D \cup E2 \cup G \subseteq A \cup B \cup C \cup D \cup E \cup G
    OBVIOUS
  <2>2. R \cap A2 = {} /\ R \cap B2 = {} /\ R \cap C = {} /\ R \cap K = {} /\ R \cap D = {}
    BY <1>1, <1>2
  <2>3. R \cap E = {} /\ R \cap Ov = {} /\ R \cap G = {}
    BY <1>1, <1>2
  <2> QED BY <2>1, <2>2, <2>3
<1>9. (A \cup B \cup C \cup D \cup E \cup G) \ R \subseteq A2 \cup B2 \cup C2 \cup D \cup E2 \cup G
  OBVIOUS
<1>10. R \subseteq A \cup B \cup C \cup D \cup E \cup G
  OBVIOUS
<1>11. Apart6(A2, B2, C2, D, E2, G)
  BY <1>4, <1>5, <1>6, <1>7
<1> QED BY <1>8, <1>9, <1>10, <1>11

\* buf_done(): what becomes of each count.
LEMMA BufDoneIs ==
  ASSUME MmTypeOK, NEW R, refcnt' = BufDone(R)
  PROVE  /\ refcnt' \in [Streams -> [FrameNos -> Nat]]
         /\ \A s \in Streams, n \in FrameNos :
              /\ refcnt[s][n] \in Nat
              /\ <<s, n>> \in R /\ refcnt[s][n] > 0 => refcnt'[s][n] = refcnt[s][n] - 1
              /\ <<s, n>> \notin R => refcnt'[s][n] = refcnt[s][n]
<1>1. refcnt \in [Streams -> [FrameNos -> Nat]]
  BY DEF MmTypeOK
<1>2. \A s \in Streams, n \in FrameNos : refcnt[s][n] \in Nat
  BY <1>1
<1> DEFINE g(s, n) == IF <<s, n>> \in R /\ refcnt[s][n] > 0 THEN refcnt[s][n] - 1 ELSE refcnt[s][n]
           h == refcnt'
<1>3. h = [s \in Streams |-> [n \in FrameNos |-> g(s, n)]]
  BY DEF BufDone, FrameNos
<1>4. \A s \in Streams, n \in FrameNos : g(s, n) \in Nat
  BY <1>2
<1> HIDE DEF g, h
<1>5. \A s \in Streams, n \in FrameNos : h[s][n] = g(s, n)
  BY <1>3
<1>6. h \in [Streams -> [FrameNos -> Nat]]
  BY <1>3, <1>4
<1>7. \A s \in Streams, n \in FrameNos :
        /\ <<s, n>> \in R /\ refcnt[s][n] > 0 => g(s, n) = refcnt[s][n] - 1
        /\ <<s, n>> \notin R => g(s, n) = refcnt[s][n]
  BY DEF g
<1>8. \A s \in Streams, n \in FrameNos :
        /\ <<s, n>> \in R /\ refcnt[s][n] > 0 => h[s][n] = refcnt[s][n] - 1
        /\ <<s, n>> \notin R => h[s][n] = refcnt[s][n]
  BY <1>5, <1>7
<1> QED BY <1>2, <1>6, <1>8 DEF h

\* A released frame loses its reference, all others keep theirs.
LEMMA CountStep ==
  ASSUME MmTypeOK, CountInv, NEW R, R \subseteq Placed, refcnt' = BufDone(R), Placed' = Placed \ R,
         UNCHANGED <<sensor, appData, pollPc>>,
         \A s \in Streams : Streaming(s)' => Streaming(s)
  PROVE  CountInv' /\ refcnt' \in [Streams -> [FrameNos -> Nat]]
<1>4. /\ refcnt' \in [Streams -> [FrameNos -> Nat]]
      /\ \A s \in Streams, n \in FrameNos :
           /\ refcnt[s][n] \in Nat
           /\ <<s, n>> \in R /\ refcnt[s][n] > 0 => refcnt'[s][n] = refcnt[s][n] - 1
           /\ <<s, n>> \notin R => refcnt'[s][n] = refcnt[s][n]
  BY BufDoneIs
<1>6. \A s \in Streams, n \in FrameNos : StreamRefs(s, n)' = StreamRefs(s, n) /\ StreamRefs(s, n) \in {0, 1}
  BY DEF StreamRefs
<1>7. ASSUME NEW s \in Streams, NEW n \in FrameNos, Streaming(s)'
      PROVE  refcnt'[s][n] = One(<<s, n>> \in Placed') + StreamRefs(s, n)'
  <2>1. refcnt[s][n] = One(<<s, n>> \in Placed) + StreamRefs(s, n)
    BY <1>7 DEF CountInv
  <2>2. CASE <<s, n>> \in R
    <3>1. <<s, n>> \in Placed /\ <<s, n>> \notin Placed'
      BY <2>2
    <3>2. refcnt[s][n] = 1 + StreamRefs(s, n)
      BY <2>1, <3>1 DEF One
    <3>3. refcnt[s][n] > 0 /\ refcnt[s][n] - 1 = StreamRefs(s, n)
      BY <1>6, <3>2
    <3>4. refcnt'[s][n] = refcnt[s][n] - 1
      BY <1>4, <2>2, <3>3
    <3>5. One(<<s, n>> \in Placed') = 0
      BY <3>1 DEF One
    <3> QED BY <1>6, <3>3, <3>4, <3>5
  <2>3. CASE <<s, n>> \notin R
    <3>1. (<<s, n>> \in Placed') <=> (<<s, n>> \in Placed)
      BY <2>3
    <3>2. One(<<s, n>> \in Placed') = One(<<s, n>> \in Placed)
      BY <3>1 DEF One
    <3>3. refcnt'[s][n] = refcnt[s][n]
      BY <1>4, <2>3
    <3> QED BY <1>6, <2>1, <3>2, <3>3
  <2> QED BY <2>2, <2>3
<1>8. CountInv'
  BY <1>7 DEF CountInv
<1> QED BY <1>4, <1>8

\* A stream that is not reached is not running, or borrowed and given up.
LEMMA Unreached ==
  ASSUME PhaseInv, NEW s \in Streams, Streaming(s), ~ChannelReaches(s)
  PROVE  s = "meta" /\ Linked /\ halPc \in {"flushed", "stopped", "closed"}
BY DEF PhaseInv, ChannelReaches, Streaming, Streams

\* What the command thread does with the frames of a command F and of the
\* queue: some stay, K are sent on, and the work t says what becomes of the rest.
QueueMoves(F, K, t) ==
  /\ t \in Works /\ Settle(t)
  /\ CmdFrames(mmCmds) = CmdFrames(mmCmds') \cup F /\ CmdFrames(mmCmds') \cap F = {} /\ Once(mmCmds')
  /\ FramesOf(superQ.que) \cup F = FramesOf(superQ'.que) \cup K \cup t.free \cup t.over
  /\ FramesOf(superQ'.que) \cap K = {} /\ FramesOf(superQ'.que) \cap t.free = {}
  /\ FramesOf(superQ'.que) \cap t.over = {} /\ K \cap t.free = {} /\ K \cap t.over = {}
  /\ t.free \cap t.over = {}
  /\ CbFrames(cbCmds') = CbFrames(cbCmds) \cup K /\ Pairwise(cbCmds')
  /\ UNCHANGED <<chType, resetAt, sensor, pollPc, appData, withHal>>
  /\ \A s \in Streams : Streaming(s)' => Streaming(s)
  /\ \A f \in t.over : Streaming(f[1])' => resetAt # 0 \/ (f[1] = "snap" /\ halPc' = "flushed")
  /\ halPc = "flushed" => halPc' = "flushed"
  /\ Linked /\ halPc # "run" => halPc' # "run"

\* Every frame stays in one place, and the references are right.
LEMMA QueueStep ==
  ASSUME MmIndInv, NEW F, NEW K, NEW t, QueueMoves(F, K, t)
  PROVE  /\ OnePlace' /\ SeenInv' /\ CountInv' /\ LossInv'
         /\ refcnt' \in [Streams -> [FrameNos -> Nat]] /\ forgotten' \subseteq AllFrames
         /\ UNCHANGED leaked
<1> USE DEF QueueMoves
<1> DEFINE R == {f \in t.free : ChannelReaches(f[1])}
<1>0. /\ MmTypeOK /\ PhaseInv /\ MetaGone /\ OnePlace /\ SeenInv /\ CountInv /\ LossInv
  BY DEF MmIndInv
<1>1. /\ refcnt' = BufDone(R) /\ UNCHANGED leaked
      /\ forgotten' = forgotten \cup t.over \cup (t.free \ R)
  BY DEF Settle
<1>2. t.free \subseteq AllFrames /\ t.over \subseteq AllFrames
  BY DEF Works
<1>3. R \subseteq t.free
  OBVIOUS
<1>4. /\ Apart6(CmdFrames(mmCmds'), FramesOf(superQ'.que), CbFrames(cbCmds'), HalFrames(withHal),
                forgotten', leaked)
      /\ CmdFrames(mmCmds') \cup FramesOf(superQ'.que) \cup CbFrames(cbCmds') \cup HalFrames(withHal)
           \cup forgotten' \cup leaked = Placed \ R
      /\ R \subseteq Placed
  <2> DEFINE A == CmdFrames(mmCmds)  B == FramesOf(superQ.que)  C == CbFrames(cbCmds)
             D == HalFrames(withHal)  A2 == CmdFrames(mmCmds')  B2 == FramesOf(superQ'.que)
             C2 == CbFrames(cbCmds')  Fr == t.free  Ov == t.over  E2 == forgotten'
             P == Placed
  <2>1. Apart6(A, B, C, D, forgotten, leaked)
    BY <1>0 DEF OnePlace
  <2>2. P = A \cup B \cup C \cup D \cup forgotten \cup leaked
    BY DEF Placed
  <2>3. A = A2 \cup F /\ A2 \cap F = {}
    OBVIOUS
  <2>4. B \cup F = B2 \cup K \cup Fr \cup Ov
    OBVIOUS
  <2>5. /\ B2 \cap K = {} /\ B2 \cap Fr = {} /\ B2 \cap Ov = {}
        /\ K \cap Fr = {} /\ K \cap Ov = {} /\ Fr \cap Ov = {}
    OBVIOUS
  <2>6. R \subseteq Fr /\ C2 = C \cup K /\ E2 = forgotten \cup Ov \cup (Fr \ R)
    BY <1>1, <1>3
  <2> HIDE DEF R, A, B, C, D, A2, B2, C2, Fr, Ov, E2, P
  <2>7. /\ Apart6(A2, B2, C2, D, E2, leaked)
        /\ A2 \cup B2 \cup C2 \cup D \cup E2 \cup leaked = (A \cup B \cup C \cup D \cup forgotten \cup leaked) \ R
        /\ R \subseteq A \cup B \cup C \cup D \cup forgotten \cup leaked
    <3>1. Moved(A, B, C, D, forgotten, leaked, A2, B2, C2, E2, F, K, Fr, Ov, R)
      BY <2>1, <2>3, <2>4, <2>5, <2>6 DEF Moved
    <3> QED BY <3>1, Moves
  <2>8. Apart6(A2, B2, C2, D, E2, leaked) /\ A2 \cup B2 \cup C2 \cup D \cup E2 \cup leaked = P \ R /\ R \subseteq P
    BY <2>2, <2>7
  <2> QED BY <2>8 DEF A2, B2, C2, D, E2, P
<1>5. Placed' = Placed \ R
  BY <1>1, <1>4 DEF Placed
<1>6. OnePlace'
  <2>1. Separate(withHal')
    BY <1>0 DEF OnePlace
  <2> QED BY <1>1, <1>4, <2>1 DEF OnePlace
<1>7. SeenInv'
  BY <1>0, <1>5 DEF SeenInv
<1>8. CountInv' /\ refcnt' \in [Streams -> [FrameNos -> Nat]]
  <2> HIDE DEF R
  <2> QED BY <1>0, <1>1, <1>4, <1>5, CountStep
<1>9. forgotten' \subseteq AllFrames
  BY <1>0, <1>1, <1>2 DEF MmTypeOK
<1>10. \A f \in AllFrames : f[1] \in Streams
  BY DEF AllFrames
<1>11. ASSUME NEW f \in forgotten', Streaming(f[1])'
       PROVE  resetAt # 0 \/ (f[1] = "snap" /\ halPc' = "flushed")
  <2>0. f[1] \in Streams /\ Streaming(f[1])
    BY <1>9, <1>10, <1>11
  <2>1. CASE f \in forgotten
    BY <1>0, <2>0, <2>1 DEF LossInv
  <2>2. CASE f \in t.over
    BY <1>11, <2>2
  <2>3. CASE f \in t.free \ R
    <3>1. ~ChannelReaches(f[1])
      BY <2>3
    <3>2. f[1] = "meta" /\ Linked /\ halPc \in {"flushed", "stopped", "closed"}
      BY <1>0, <2>0, <3>1, Unreached
    <3>3. f \in CmdFrames(mmCmds) \cup FramesOf(superQ.que)
      BY <2>3
    <3> QED BY <1>0, <3>2, <3>3 DEF MetaGone
  <2> QED BY <1>1, <2>1, <2>2, <2>3
<1>12. ASSUME NEW f \in leaked, Streaming(f[1])' PROVE f[1] = "meta" /\ Linked /\ halPc' # "run"
  <2>1. f[1] \in Streams
    BY <1>0, <1>10 DEF MmTypeOK
  <2> QED BY <1>0, <1>12, <2>1 DEF LossInv
<1>13. LossInv'
  BY <1>1, <1>11, <1>12 DEF LossInv, Linked
<1> QED BY <1>1, <1>6, <1>7, <1>8, <1>9, <1>13

\* The first command is taken: what becomes of the list, and what the work on
\* the queue starts from.
LEMMA TakeFacts ==
  ASSUME MmIndInv, mmCmds # << >>, mmCmds' = Tail(mmCmds), NEW c, c = Head(mmCmds),
         NEW F, F = {f \in AllFrames : Brings(c, f)}
  PROVE  /\ mmCmds' \in Seq(Command) /\ c \in Command /\ halPc # "closed" /\ Once(mmCmds')
         /\ CmdFrames(mmCmds) = CmdFrames(mmCmds') \cup F /\ CmdFrames(mmCmds') \cap F = {}
         /\ NoFlush(mmCmds) => NoFlush(mmCmds') /\ ~IsFlush(c)
         /\ FlushLast(mmCmds', Linked)
         /\ IsFlush(c) => /\ NoFlush(mmCmds') /\ c.s = (IF Linked THEN {"meta"} ELSE Streams)
                          /\ Linked => \A f \in CmdFrames(mmCmds') : f[1] # "meta"
         /\ WorkOK(Start) /\ Held(Start) = FramesOf(superQ.que) /\ F \cap Held(Start) = {}
<1>0. MmTypeOK /\ PhaseInv /\ QueueInv /\ OnePlace
  BY DEF MmIndInv
<1>1. mmCmds \in Seq(Command) /\ superQ \in SuperQs
  BY <1>0 DEF MmTypeOK
<1>2. Once(mmCmds) /\ CmdFrames(mmCmds) \cap FramesOf(superQ.que) = {}
  BY <1>0 DEF OnePlace, Apart6
<1>3. Linked \in BOOLEAN /\ FlushLast(mmCmds, Linked) /\ halPc # "closed"
  BY <1>0 DEF PhaseInv, Linked
<1> DEFINE t == mmCmds'
<1>4. t = Tail(mmCmds)
  OBVIOUS
<1> HIDE DEF t
<1>5. /\ t \in Seq(Command) /\ c \in Command
      /\ CmdFrames(mmCmds) = CmdFrames(t) \cup F
      /\ Once(mmCmds) => Once(t) /\ F \cap CmdFrames(t) = {}
      /\ NoFlush(mmCmds) => NoFlush(t) /\ ~IsFlush(c)
      /\ \A borrowed \in BOOLEAN : FlushLast(mmCmds, borrowed) =>
           /\ FlushLast(t, borrowed)
           /\ IsFlush(c) => /\ NoFlush(t) /\ c.s = (IF borrowed THEN {"meta"} ELSE Streams)
                            /\ borrowed => \A f \in CmdFrames(t) : f[1] # "meta"
  <2>1. Takes(mmCmds, c, t, F)
    BY <1>1, <1>4 DEF Takes
  <2> QED BY <2>1, CmdTaken
<1>6. /\ FlushLast(t, Linked)
      /\ IsFlush(c) => /\ NoFlush(t) /\ c.s = (IF Linked THEN {"meta"} ELSE Streams)
                       /\ Linked => \A f \in CmdFrames(t) : f[1] # "meta"
  BY <1>3, <1>5, Zenon
<1>7. CmdFrames(mmCmds) = CmdFrames(t) \cup F /\ CmdFrames(t) \cap F = {} /\ Once(t)
  BY <1>2, <1>5
<1>8. Start.q = superQ /\ Start.free = {} /\ Start.over = {} /\ Start \in Works
  BY <1>1 DEF Start, Works
<1>9. ~superQ.stuck /\ Sound(superQ.que, superQ.match_cnt) /\ NamedUnlessReset(superQ.que)
  BY <1>0, <1>3 DEF QueueInv
<1> HIDE DEF Start
<1>10. WorkOK(Start) /\ Held(Start) = FramesOf(superQ.que)
  BY <1>8, <1>9 DEF WorkOK, Held
<1>11. F \cap FramesOf(superQ.que) = {}
  BY <1>2, <1>7
<1> QED BY <1>3, <1>5, <1>6, <1>7, <1>10, <1>11 DEF t

\* Dispatch() of the work r: t is what the water mark leaves, k superbuffers are sent.
Dispatched(r, pending, t, k) ==
  /\ t = Trim(r, water_mark)
  /\ k = IF notify_mode = "CONTINUOUS" THEN Lead(t.q.que) ELSE Min({pending, Lead(t.q.que)})

\* No more superbuffers are sent than there are matched ones, and none stay
\* above the water mark.
LEMMA DispatchFacts ==
  ASSUME NEW r, WorkOK(r), NEW pending \in Nat, NEW t, NEW k, Dispatched(r, pending, t, k)
  PROVE  /\ WorkOK(t) /\ Held(t) = Held(r) /\ t.over = r.over
         /\ k \in 0 .. t.q.match_cnt
         /\ (IF notify_mode = "BURST" THEN pending - k ELSE pending) \in Nat
         /\ notify_mode = "BURST" => t.q.match_cnt <= water_mark
<1>1. /\ WorkOK(t) /\ Held(t) = Held(r) /\ t.over = r.over
      /\ notify_mode = "BURST" => t.q.match_cnt <= water_mark
  BY Limits, TrimKeeps DEF Dispatched
<1>2. Lead(t.q.que) = t.q.match_cnt /\ t.q.match_cnt \in Nat
  <2>1. t.q.match_cnt \in Nat /\ Ordered(t.q.que, t.q.match_cnt)
    BY <1>1, WorkFacts
  <2> QED BY <2>1, UnmatchedAre
<1> DEFINE l == t.q.match_cnt
<1>3. k = IF notify_mode = "CONTINUOUS" THEN l ELSE Min({pending, l})
  BY <1>2 DEF Dispatched
<1>4. notify_mode \in {"CONTINUOUS", "BURST"}
  BY DEF notify_mode
<1>5. l \in Nat
  BY <1>2
<1> HIDE DEF l, notify_mode
<1>6. Min({pending, l}) \in {pending, l} /\ Min({pending, l}) <= pending /\ Min({pending, l}) <= l
  <2>1. {pending, l} \in SUBSET Nat /\ {pending, l} # {}
    BY <1>5
  <2> QED BY <2>1, MinExists
<1>7. k \in 0 .. l /\ (IF notify_mode = "BURST" THEN pending - k ELSE pending) \in Nat
  <2>1. CASE notify_mode = "CONTINUOUS"
    BY <1>3, <1>5, <2>1
  <2>2. CASE notify_mode = "BURST"
    BY <1>3, <1>5, <1>6, <2>2
  <2> QED BY <1>4, <2>1, <2>2
<1> QED BY <1>1, <1>7 DEF l

\* Dispatch() of the work r on the queue and the frames F of a command; K are sent.
SendsOn(r, pending, t, k, F, K) ==
  /\ WorkOK(r) /\ pending \in Nat /\ Dispatched(r, pending, t, k)
  /\ F \subseteq CmdFrames(mmCmds) /\ Held(r) = FramesOf(superQ.que) \cup F
  /\ K = FramesIn(t.q.que, 1, k)
  /\ superQ' = DropFirst(t, k).q /\ cbCmds' = cbCmds \o [i \in 1 .. k |-> t.q.que[i].bufs]

\* What is sent leaves the queue.
LEMMA DispatchMoves ==
  ASSUME MmIndInv, NEW r, NEW pending, NEW t, NEW k, NEW F, NEW K, SendsOn(r, pending, t, k, F, K)
  PROVE  /\ superQ' \in SuperQs /\ ~superQ'.stuck
         /\ Sound(superQ'.que, superQ'.match_cnt) /\ NamedUnlessReset(superQ'.que)
         /\ notify_mode = "BURST" => superQ'.match_cnt <= water_mark
         /\ FramesOf(superQ.que) \cup F = FramesOf(superQ'.que) \cup K \cup t.free \cup t.over
         /\ FramesOf(superQ'.que) \cap K = {} /\ FramesOf(superQ'.que) \cap t.free = {}
         /\ FramesOf(superQ'.que) \cap t.over = {} /\ K \cap t.free = {} /\ K \cap t.over = {}
         /\ t.free \cap t.over = {}
         /\ cbCmds' \in Seq(Pair) /\ CbFrames(cbCmds') = CbFrames(cbCmds) \cup K /\ Pairwise(cbCmds')
         /\ resetAt = 0 => SameNumber(cbCmds')
<1> USE DEF SendsOn
<1>0. MmTypeOK /\ OnePlace /\ PairsMatch
  BY DEF MmIndInv
<1>1. /\ WorkOK(t) /\ Held(t) = Held(r) /\ t.over = r.over
      /\ k \in 0 .. t.q.match_cnt
      /\ notify_mode = "BURST" => t.q.match_cnt <= water_mark
  BY DispatchFacts
<1> DEFINE u == DropFirst(t, k)
<1>2. superQ' = u.q
  OBVIOUS
<1>3. u = DropFirst(t, k)
  OBVIOUS
<1> HIDE DEF u
<1>4. /\ WorkOK(u) /\ u.q.match_cnt = t.q.match_cnt - k
      /\ FramesOf(t.q.que) = FramesOf(u.q.que) \cup K /\ FramesOf(u.q.que) \cap K = {}
  BY <1>1, <1>3, DropKeeps
<1>5. u.q \in SuperQs /\ ~u.q.stuck /\ Sound(u.q.que, u.q.match_cnt) /\ NamedUnlessReset(u.q.que)
  BY <1>4 DEF WorkOK, Works
<1>6. /\ FramesOf(t.q.que) \cap t.free = {} /\ FramesOf(t.q.que) \cap t.over = {}
      /\ t.free \cap t.over = {}
      /\ FramesOf(superQ.que) \cup F = FramesOf(t.q.que) \cup t.free \cup t.over
      /\ Sound(t.q.que, t.q.match_cnt) /\ NamedUnlessReset(t.q.que)
  BY <1>1 DEF WorkOK, Held
<1>7. notify_mode = "BURST" => u.q.match_cnt <= water_mark
  <2>1. t.q.match_cnt \in Nat
    BY <1>1, WorkFacts
  <2>2. k \in Nat /\ t.q.match_cnt - k <= t.q.match_cnt
    BY <1>1, <2>1
  <2> DEFINE a == t.q.match_cnt
             b == u.q.match_cnt
  <2>3. b = a - k /\ a \in Nat /\ k \in Nat /\ (notify_mode = "BURST" => a <= water_mark)
    BY <1>1, <1>4, <2>1, <2>2
  <2> HIDE DEF a, b
  <2>4. notify_mode = "BURST" => b <= water_mark
    BY <2>3, Limits
  <2> QED BY <2>4 DEF b
<1>8. K \cap CbFrames(cbCmds) = {}
  <2>1. K \subseteq CmdFrames(mmCmds) \cup FramesOf(superQ.que)
    BY <1>4, <1>6
  <2> QED BY <1>0, <2>1 DEF OnePlace, Apart6
<1>9. cbCmds \in Seq(Pair) /\ Pairwise(cbCmds) /\ (resetAt = 0 => SameNumber(cbCmds))
  BY <1>0 DEF MmTypeOK, OnePlace, PairsMatch
<1> DEFINE cb == cbCmds  c == cbCmds'  que == t.q.que
<1>10. /\ c \in Seq(Pair) /\ CbFrames(c) = CbFrames(cb) \cup K
       /\ Pairwise(c) /\ (resetAt = 0 => SameNumber(c))
  <2>1. /\ cb \in Seq(Pair) /\ Sound(que, t.q.match_cnt) /\ K = FramesIn(que, 1, k)
        /\ K \cap CbFrames(cb) = {} /\ Pairwise(cb) /\ (resetAt = 0 => SameNumber(cb) /\ Named(que))
    BY <1>6, <1>8, <1>9 DEF NamedUnlessReset
  <2>2. c = cb \o [i \in 1 .. k |-> que[i].bufs]
    OBVIOUS
  <2> HIDE DEF c, cb, que
  <2>3. /\ c \in Seq(Pair) /\ CbFrames(c) = CbFrames(cb) \cup FramesIn(que, 1, k)
        /\ Pairwise(cb) => Pairwise(c)
        /\ SameNumber(cb) /\ Named(que) => SameNumber(c)
    <3>1. Sends(cb, que, t.q.match_cnt, k, c)
      BY <1>1, <2>1, <2>2 DEF Sends
    <3> QED BY <3>1, BundlesSent
  <2> QED BY <2>1, <2>3
<1>11. /\ FramesOf(u.q.que) \cap t.free = {} /\ FramesOf(u.q.que) \cap t.over = {}
       /\ K \cap t.free = {} /\ K \cap t.over = {}
       /\ FramesOf(superQ.que) \cup F = FramesOf(u.q.que) \cup K \cup t.free \cup t.over
  BY <1>4, <1>6
<1>12. /\ superQ' \in SuperQs /\ ~superQ'.stuck
       /\ Sound(superQ'.que, superQ'.match_cnt) /\ NamedUnlessReset(superQ'.que)
       /\ notify_mode = "BURST" => superQ'.match_cnt <= water_mark
  BY <1>2, <1>5, <1>7
<1>13. /\ FramesOf(superQ.que) \cup F = FramesOf(superQ'.que) \cup K \cup t.free \cup t.over
       /\ FramesOf(superQ'.que) \cap K = {} /\ FramesOf(superQ'.que) \cap t.free = {}
       /\ FramesOf(superQ'.que) \cap t.over = {}
  BY <1>2, <1>4, <1>11
<1> QED BY <1>6, <1>10, <1>11, <1>12, <1>13

\* The command c with the frames F is done, with the work r.
Handled(c, F, r, pending) ==
  /\ mmCmds # << >> /\ mmCmds' = Tail(mmCmds) /\ c = Head(mmCmds)
  /\ F = {f \in AllFrames : Brings(c, f)}
  /\ WorkOK(r) /\ Held(r) = FramesOf(superQ.que) \cup F
  /\ pending \in Nat /\ Dispatch(r, pending)
  /\ UNCHANGED <<chType, resetAt, sensor, pollPc, appData, withHal, halCmds, halPc>>

\* A command that ends in Dispatch() keeps the invariant.
LEMMA DispatchStep ==
  ASSUME MmIndInv, NEW c, NEW F, NEW r, NEW pending, Handled(c, F, r, pending)
  PROVE  MmIndInv'
<1> USE DEF Handled
<1>0. /\ MmTypeOK /\ PhaseInv /\ MetaGone /\ PairsMatch
  BY DEF MmIndInv
<1> DEFINE t == Trim(r, water_mark)
           k == IF notify_mode = "CONTINUOUS" THEN Lead(t.q.que) ELSE Min({pending, Lead(t.q.que)})
           K == FramesIn(t.q.que, 1, k)
<1>1. /\ Settle(t) /\ superQ' = DropFirst(t, k).q
      /\ cbCmds' = cbCmds \o [i \in 1 .. k |-> t.q.que[i].bufs]
      /\ pending_cnt' = IF notify_mode = "BURST" THEN pending - k ELSE pending
  BY DEF Dispatch
<1>2. Dispatched(r, pending, t, k)
  BY DEF Dispatched
<1>3. K = FramesIn(t.q.que, 1, k)
  OBVIOUS
<1> HIDE DEF t, k, K
<1>4. /\ mmCmds' \in Seq(Command) /\ halPc # "closed" /\ Once(mmCmds')
      /\ CmdFrames(mmCmds) = CmdFrames(mmCmds') \cup F /\ CmdFrames(mmCmds') \cap F = {}
      /\ NoFlush(mmCmds) => NoFlush(mmCmds')
      /\ FlushLast(mmCmds', Linked)
  BY TakeFacts
<1>5. /\ WorkOK(t) /\ pending_cnt' \in Nat
  BY <1>1, <1>2, DispatchFacts
<1>6. F \subseteq CmdFrames(mmCmds)
  BY <1>4
<1>7. /\ superQ' \in SuperQs /\ ~superQ'.stuck
      /\ Sound(superQ'.que, superQ'.match_cnt) /\ NamedUnlessReset(superQ'.que)
      /\ notify_mode = "BURST" => superQ'.match_cnt <= water_mark
      /\ FramesOf(superQ.que) \cup F = FramesOf(superQ'.que) \cup K \cup t.free \cup t.over
      /\ FramesOf(superQ'.que) \cap K = {} /\ FramesOf(superQ'.que) \cap t.free = {}
      /\ FramesOf(superQ'.que) \cap t.over = {} /\ K \cap t.free = {} /\ K \cap t.over = {}
      /\ t.free \cap t.over = {}
      /\ cbCmds' \in Seq(Pair) /\ CbFrames(cbCmds') = CbFrames(cbCmds) \cup K /\ Pairwise(cbCmds')
      /\ resetAt = 0 => SameNumber(cbCmds')
  <2>1. SendsOn(r, pending, t, k, F, K)
    BY <1>1, <1>2, <1>3, <1>6 DEF SendsOn
  <2> QED BY <2>1, DispatchMoves
<1>8. t \in Works /\ (resetAt = 0 => t.over = {})
  BY <1>5 DEF WorkOK
<1>9. \A s \in Streams : Streaming(s)' => Streaming(s)
  BY DEF Streaming, Linked
<1>10. \A f \in t.over : Streaming(f[1])' => resetAt # 0 \/ (f[1] = "snap" /\ halPc' = "flushed")
  BY <1>8
<1>11. /\ OnePlace' /\ SeenInv' /\ CountInv' /\ LossInv'
       /\ refcnt' \in [Streams -> [FrameNos -> Nat]] /\ forgotten' \subseteq AllFrames
       /\ UNCHANGED leaked
  <2>1. halPc = "flushed" => halPc' = "flushed"
    OBVIOUS
  <2>2. Linked /\ halPc # "run" => halPc' # "run"
    OBVIOUS
  <2>3. QueueMoves(F, K, t)
    BY <1>1, <1>4, <1>7, <1>8, <1>9, <1>10, <2>1, <2>2 DEF QueueMoves
  <2> QED BY <2>3, QueueStep
<1>12. MmTypeOK'
  BY <1>0, <1>4, <1>5, <1>7, <1>11 DEF MmTypeOK
<1>13. Linked' = Linked /\ notify_mode' = notify_mode
  BY DEF Linked, notify_mode
<1>14. PhaseInv'
  BY <1>0, <1>4, <1>13 DEF PhaseInv
<1>15. MetaGone'
  <2>1. CmdFrames(mmCmds') \cup FramesOf(superQ'.que) \subseteq CmdFrames(mmCmds) \cup FramesOf(superQ.que)
    BY <1>4, <1>7
  <2> QED BY <1>0, <1>13, <2>1 DEF MetaGone
<1>16. QueueInv'
  BY <1>7, <1>13 DEF QueueInv, NamedUnlessReset
<1>17. PairsMatch'
  BY <1>0, <1>7 DEF PairsMatch
<1> QED BY <1>11, <1>12, <1>14, <1>15, <1>16, <1>17 DEF MmIndInv

\* What a command holds.
LEMMA CommandIs ==
  ASSUME NEW c \in Command, NEW F, F = {f \in AllFrames : Brings(c, f)}
  PROVE  /\ c.cmd = "DATA" => c.s \in Streams /\ c.n \in FrameNos /\ F = {<<c.s, c.n>>}
         /\ c.cmd # "DATA" => c.n \in Nat /\ F = {}
<1>1. c.cmd # "DATA" => c.n \in Nat /\ F = {}
  BY DEF Command, Brings
<1>2. ASSUME c.cmd = "DATA" PROVE c.s \in Streams /\ c.n \in FrameNos
  BY <1>2 DEF Command
<1>3. ASSUME c.cmd = "DATA" PROVE F = {<<c.s, c.n>>}
  <2>1. <<c.s, c.n>> \in F
    BY <1>2, <1>3 DEF AllFrames, Brings
  <2>2. \A f \in F : f = <<c.s, c.n>>
    BY <1>3 DEF AllFrames, Brings
  <2> QED BY <2>1, <2>2
<1> QED BY <1>1, <1>2, <1>3

\* A frame arrives at the queue.
LEMMA DataInv ==
  ASSUME MmIndInv, mmCmds # << >>, mmCmds' = Tail(mmCmds), NEW c, c = Head(mmCmds),
         c.cmd = "DATA", NEW m \in Metadata,
         Dispatch(comp_and_enqueue(Start, c.s, c.n, m), pending_cnt),
         UNCHANGED <<chType, resetAt, sensor, pollPc, appData, withHal, halCmds, halPc>>
  PROVE  MmIndInv'
<1> DEFINE F == {f \in AllFrames : Brings(c, f)}
           r == comp_and_enqueue(Start, c.s, c.n, m)
<1>1. F = {f \in AllFrames : Brings(c, f)}
  OBVIOUS
<1>2. r = comp_and_enqueue(Start, c.s, c.n, m) /\ Dispatch(r, pending_cnt)
  OBVIOUS
<1> HIDE DEF F, r
<1>3. /\ c \in Command /\ WorkOK(Start) /\ Held(Start) = FramesOf(superQ.que)
      /\ F \cap Held(Start) = {}
  BY <1>1, TakeFacts
<1>4. c.s \in Streams /\ c.n \in FrameNos /\ F = {<<c.s, c.n>>}
  BY <1>1, <1>3, CommandIs
<1>5. resetAt \in Nat /\ pending_cnt \in Nat
  BY DEF MmIndInv, MmTypeOK
<1>6. <<c.s, c.n>> \notin Held(Start)
  BY <1>3, <1>4
<1>7. WorkOK(r) /\ Held(r) = Held(Start) \cup {<<c.s, c.n>>}
  <2> DEFINE s == c.s  n == c.n  r0 == Start
  <2>1. /\ WorkOK(r0) /\ s \in Streams /\ n \in FrameNos /\ <<s, n>> \notin Held(r0)
        /\ r = comp_and_enqueue(r0, s, n, m)
    BY <1>2, <1>3, <1>4, <1>6
  <2> HIDE DEF s, n, r0
  <2>2. WorkOK(r) /\ Held(r) = Held(r0) \cup {<<s, n>>}
    BY <1>5, <2>1, CompKeeps
  <2> QED BY <2>2 DEF s, n, r0
<1>8. Held(r) = FramesOf(superQ.que) \cup F
  BY <1>3, <1>4, <1>7
<1>9. Handled(c, F, r, pending_cnt)
  BY <1>1, <1>2, <1>5, <1>7, <1>8 DEF Handled
<1> QED BY <1>9, DispatchStep

\* A request of the HAL.
LEMMA RequestInv ==
  ASSUME MmIndInv, mmCmds # << >>, mmCmds' = Tail(mmCmds), NEW c, c = Head(mmCmds),
         c.cmd = "REQ", Dispatch(Trim(Start, look_back), c.n),
         UNCHANGED <<chType, resetAt, sensor, pollPc, appData, withHal, halCmds, halPc>>
  PROVE  MmIndInv'
<1> DEFINE F == {f \in AllFrames : Brings(c, f)}
           r == Trim(Start, look_back)
<1>1. F = {f \in AllFrames : Brings(c, f)}
  OBVIOUS
<1>2. r = Trim(Start, look_back) /\ Dispatch(r, c.n)
  OBVIOUS
<1> HIDE DEF F, r
<1>3. c \in Command /\ WorkOK(Start) /\ Held(Start) = FramesOf(superQ.que)
  BY <1>1, TakeFacts
<1>4. c.n \in Nat /\ F = {}
  BY <1>1, <1>3, CommandIs
<1>5. WorkOK(r) /\ Held(r) = Held(Start)
  BY <1>2, <1>3, Limits, TrimKeeps
<1>6. Held(r) = FramesOf(superQ.que) \cup F
  BY <1>3, <1>4, <1>5
<1>7. Handled(c, F, r, c.n)
  BY <1>1, <1>2, <1>4, <1>5, <1>6 DEF Handled
<1> QED BY <1>7, DispatchStep

\* A flush: what a borrowed stream has in the queue goes back, its pictures
\* are forgotten, just before their stream is stopped.
LEMMA FlushInv ==
  ASSUME MmIndInv, mmCmds # << >>, mmCmds' = Tail(mmCmds), NEW c, c = Head(mmCmds),
         c.cmd = "FLUSH", NEW r, r = Flush(Start, c.s), Settle(r),
         superQ' = [r.q EXCEPT !.expected = c.n],
         halPc' = IF halPc = "flush" THEN "run" ELSE "flushed",
         UNCHANGED <<chType, resetAt, sensor, pollPc, appData, withHal, halCmds, cbCmds, pending_cnt>>
  PROVE  MmIndInv'
<1>0. /\ MmTypeOK /\ PhaseInv /\ PairsMatch /\ OnePlace
  BY DEF MmIndInv
<1> DEFINE F == {f \in AllFrames : Brings(c, f)}
<1>1. F = {f \in AllFrames : Brings(c, f)}
  OBVIOUS
<1> HIDE DEF F
<1>2. IsFlush(c)
  BY DEF IsFlush
<1>3. /\ mmCmds' \in Seq(Command) /\ c \in Command /\ halPc # "closed" /\ Once(mmCmds')
      /\ CmdFrames(mmCmds) = CmdFrames(mmCmds') \cup F /\ CmdFrames(mmCmds') \cap F = {}
      /\ ~NoFlush(mmCmds)
      /\ FlushLast(mmCmds', Linked)
      /\ NoFlush(mmCmds') /\ c.s = (IF Linked THEN {"meta"} ELSE Streams)
      /\ Linked => \A f \in CmdFrames(mmCmds') : f[1] # "meta"
      /\ WorkOK(Start) /\ Held(Start) = FramesOf(superQ.que)
  BY <1>1, <1>2, TakeFacts
<1>4. halPc = IF Linked THEN "unlinked" ELSE "flush"
  BY <1>0, <1>3 DEF PhaseInv
<1>5. halPc' = IF Linked THEN "flushed" ELSE "run"
  BY <1>4
<1>6. c.n \in Nat /\ F = {}
  BY <1>1, <1>3, CommandIs
<1>7. /\ r \in Works /\ r.q.que = << >> /\ r.q.match_cnt = 0 /\ r.q.stuck = Start.q.stuck
      /\ r.free = Start.free \cup {f \in FramesOf(Start.q.que) : f[1] \in c.s}
      /\ r.over = Start.over \cup {f \in FramesOf(Start.q.que) : f[1] \notin c.s}
  BY <1>3, FlushIs
<1>8. Start.q = superQ /\ Start.free = {} /\ Start.over = {} /\ ~superQ.stuck
  BY <1>3 DEF Start, WorkOK
<1>9. /\ ~r.q.stuck /\ r.free = {f \in FramesOf(superQ.que) : f[1] \in c.s}
      /\ r.over = {f \in FramesOf(superQ.que) : f[1] \notin c.s}
  BY <1>7, <1>8
<1>10. superQ' \in SuperQs /\ ~superQ'.stuck /\ superQ'.que = << >> /\ superQ'.match_cnt = 0
  <2>1. r.q \in SuperQs
    BY <1>7 DEF Works
  <2> DEFINE q == r.q
  <2>2. q \in SuperQs /\ superQ' = [q EXCEPT !.expected = c.n] /\ ~q.stuck /\ q.que = << >> /\ q.match_cnt = 0
    BY <1>7, <1>9, <2>1
  <2> HIDE DEF q
  <2> QED BY <1>6, <2>2 DEF SuperQs
<1>11. FramesOf(superQ'.que) = {} /\ Sound(superQ'.que, superQ'.match_cnt) /\ Named(superQ'.que)
  BY <1>10, EmptyQueue
<1>12. Linked' = Linked /\ notify_mode' = notify_mode
  BY DEF Linked, notify_mode
<1>13. \A s \in Streams : Streaming(s)' => Streaming(s)
  BY <1>4, <1>5, <1>12 DEF Streaming
<1>14. \A f \in FramesOf(superQ.que) : f[1] \in Streams
  BY DEF FramesOf
<1>15. \A f \in r.over : Streaming(f[1])' => resetAt # 0 \/ (f[1] = "snap" /\ halPc' = "flushed")
  BY <1>3, <1>5, <1>9, <1>14 DEF Streams
<1>16. /\ OnePlace' /\ SeenInv' /\ CountInv' /\ LossInv'
       /\ refcnt' \in [Streams -> [FrameNos -> Nat]] /\ forgotten' \subseteq AllFrames
       /\ UNCHANGED leaked
  <2> DEFINE K == {}
  <2>1. halPc = "flushed" => halPc' = "flushed"
    BY <1>4
  <2>2. Linked /\ halPc # "run" => halPc' # "run"
    BY <1>5
  <2>3. FramesOf(superQ.que) = r.free \cup r.over /\ r.free \cap r.over = {}
    BY <1>9
  <2>4. FramesOf(superQ.que) \cup F = FramesOf(superQ'.que) \cup K \cup r.free \cup r.over
    BY <1>6, <1>11, <2>3
  <2>5. /\ FramesOf(superQ'.que) \cap K = {} /\ FramesOf(superQ'.que) \cap r.free = {}
        /\ FramesOf(superQ'.que) \cap r.over = {} /\ K \cap r.free = {} /\ K \cap r.over = {}
    BY <1>11
  <2>6. CbFrames(cbCmds') = CbFrames(cbCmds) \cup K /\ Pairwise(cbCmds')
    BY <1>0 DEF OnePlace
  <2> HIDE DEF K
  <2>7. QueueMoves(F, K, r)
    BY <1>3, <1>7, <1>13, <1>15, <2>1, <2>2, <2>3, <2>4, <2>5, <2>6 DEF QueueMoves
  <2> QED BY <2>7, QueueStep
<1>17. MmTypeOK'
  BY <1>0, <1>3, <1>10, <1>16 DEF MmTypeOK
<1>18. PhaseInv'
  BY <1>0, <1>3, <1>5, <1>12 DEF PhaseInv
<1>19. MetaGone'
  BY <1>3, <1>11, <1>12 DEF MetaGone
<1>20. QueueInv'
  BY <1>10, <1>11, Limits DEF QueueInv, NamedUnlessReset
<1>21. PairsMatch'
  BY <1>0 DEF PairsMatch
<1> QED BY <1>16, <1>17, <1>18, <1>19, <1>20, <1>21 DEF MmIndInv

\* process_stream_buf(): the command thread.
LEMMA CommandInv == ASSUME MmIndInv, process_stream_buf PROVE MmIndInv'
<1>1. mmCmds # << >> /\ mmCmds' = Tail(mmCmds)
  BY DEF process_stream_buf
<1>2. UNCHANGED <<chType, resetAt, sensor, pollPc, appData, withHal, halCmds>>
  BY DEF process_stream_buf
<1> DEFINE c == Head(mmCmds)
<1>3. \/ c.cmd = "DATA" /\ (\E m \in Metadata :
             /\ m.kind # "plain" => c.s = "meta" /\ (Linked => m.kind = "invalid")
             /\ Dispatch(comp_and_enqueue(Start, c.s, c.n, m), pending_cnt)) /\ UNCHANGED halPc
      \/ c.cmd = "REQ" /\ Dispatch(Trim(Start, look_back), c.n) /\ UNCHANGED halPc
      \/ /\ c.cmd = "FLUSH" /\ Settle(Flush(Start, c.s))
         /\ superQ' = [Flush(Start, c.s).q EXCEPT !.expected = c.n]
         /\ halPc' = IF halPc = "flush" THEN "run" ELSE "flushed"
         /\ UNCHANGED <<cbCmds, pending_cnt>>
  BY DEF process_stream_buf
<1>4. c = Head(mmCmds)
  OBVIOUS
<1> HIDE DEF c
<1>5. CASE c.cmd = "DATA" /\ \E m \in Metadata :
             Dispatch(comp_and_enqueue(Start, c.s, c.n, m), pending_cnt) /\ UNCHANGED halPc
  <2>1. PICK m \in Metadata : Dispatch(comp_and_enqueue(Start, c.s, c.n, m), pending_cnt)
                              /\ UNCHANGED halPc
    BY <1>5
  <2> QED BY <1>1, <1>2, <1>4, <1>5, <2>1, DataInv
<1>6. CASE c.cmd = "REQ" /\ Dispatch(Trim(Start, look_back), c.n) /\ UNCHANGED halPc
  BY <1>1, <1>2, <1>4, <1>6, RequestInv
<1>7. CASE /\ c.cmd = "FLUSH" /\ Settle(Flush(Start, c.s))
           /\ superQ' = [Flush(Start, c.s).q EXCEPT !.expected = c.n]
           /\ halPc' = IF halPc = "flush" THEN "run" ELSE "flushed"
           /\ UNCHANGED <<cbCmds, pending_cnt>>
  <2> DEFINE r == Flush(Start, c.s)
  <2>1. r = Flush(Start, c.s) /\ Settle(r) /\ superQ' = [r.q EXCEPT !.expected = c.n]
    BY <1>7
  <2> HIDE DEF r
  <2> QED BY <1>1, <1>2, <1>4, <1>7, <2>1, FlushInv
<1> QED BY <1>3, <1>5, <1>6, <1>7
-----------------------------------------------------------------------------
(* The poll threads, the callback thread and the HAL.                       *)

\* A step that leaves the queues and the threads' phases alone.
LEMMA QueuesSame ==
  ASSUME MmIndInv,
         UNCHANGED <<chType, resetAt, mmCmds, superQ, cbCmds, withHal, halPc, forgotten, leaked>>
  PROVE  /\ PhaseInv' /\ MetaGone' /\ QueueInv' /\ PairsMatch' /\ OnePlace' /\ LossInv'
         /\ Placed' = Placed /\ \A s \in Streams : Streaming(s)' = Streaming(s)
<1>1. Linked' = Linked /\ notify_mode' = notify_mode
  BY DEF Linked, notify_mode
<1>2. \A s : Streaming(s)' = Streaming(s)
  BY <1>1 DEF Streaming
<1>3. Placed' = Placed
  BY DEF Placed
<1>4. PhaseInv' /\ MetaGone'
  BY <1>1 DEF MmIndInv, PhaseInv, MetaGone
<1>5. QueueInv' /\ PairsMatch'
  BY <1>1 DEF MmIndInv, QueueInv, PairsMatch, NamedUnlessReset
<1>6. OnePlace'
  BY DEF MmIndInv, OnePlace
<1>7. LossInv'
  <2>1. LossInv
    BY DEF MmIndInv
  <2> QED BY <1>1, <1>2, <2>1 DEF LossInv
<1> QED BY <1>2, <1>3, <1>4, <1>5, <1>6, <1>7

\* notify_app: the reference of the poll thread becomes the callback's.
LEMMA NotifyInv == ASSUME MmIndInv, notify_app PROVE MmIndInv'
<1>0. MmTypeOK /\ SeenInv /\ CountInv
  BY DEF MmIndInv
<1>1. /\ PhaseInv' /\ MetaGone' /\ QueueInv' /\ PairsMatch' /\ OnePlace' /\ LossInv'
      /\ Placed' = Placed /\ \A s \in Streams : Streaming(s)' = Streaming(s)
  <2>1. UNCHANGED <<chType, resetAt, mmCmds, superQ, cbCmds, withHal, halPc, forgotten, leaked>>
    BY DEF notify_app, cmdVars, histVars
  <2> QED BY <2>1, QueuesSame
<1>2. /\ pollPc = "app" /\ pollPc' = "idle" /\ appData' = appData \cup {sensor["meta"]}
      /\ UNCHANGED <<chType, resetAt, sensor, refcnt, mmCmds, superQ, pending_cnt, cbCmds, withHal,
                     forgotten, leaked>>
  BY DEF notify_app, cmdVars, histVars
<1>3. sensor["meta"] \in FrameNos
  BY <1>0, <1>2, Limits DEF MmTypeOK, SeenInv, FrameNos, Streams
<1>4. MmTypeOK'
  BY <1>0, <1>2, <1>3 DEF MmTypeOK
<1>5. SeenInv'
  <2>1. \A n \in appData' : n <= sensor["meta"]
    BY <1>0, <1>2, <1>3 DEF SeenInv, FrameNos
  <2> QED BY <1>0, <1>1, <1>2, <2>1 DEF SeenInv
<1>6. \A s \in Streams, n \in FrameNos : StreamRefs(s, n)' = StreamRefs(s, n)
  BY <1>2 DEF StreamRefs
<1>7. CountInv'
  BY <1>0, <1>1, <1>2, <1>6 DEF CountInv
<1> QED BY <1>1, <1>4, <1>5, <1>7 DEF MmIndInv

\* dispatch_app_data(): the stream's callback gives its reference back.
LEMMA AppDataInv == ASSUME MmIndInv, NEW n \in appData, dispatch_app_data(n) PROVE MmIndInv'
<1>0. MmTypeOK /\ SeenInv /\ CountInv
  BY DEF MmIndInv
<1>1. /\ PhaseInv' /\ MetaGone' /\ QueueInv' /\ PairsMatch' /\ OnePlace' /\ LossInv'
      /\ Placed' = Placed /\ \A s \in Streams : Streaming(s)' = Streaming(s)
  <2>1. UNCHANGED <<chType, resetAt, mmCmds, superQ, cbCmds, withHal, halPc, forgotten, leaked>>
    BY DEF dispatch_app_data, cmdVars, histVars
  <2> QED BY <2>1, QueuesSame
<1> DEFINE R == {<<"meta", n>>}
<1>2. /\ appData' = appData \ {n} /\ refcnt' = BufDone(R)
      /\ UNCHANGED <<chType, resetAt, sensor, pollPc, mmCmds, superQ, pending_cnt, cbCmds, withHal,
                     forgotten, leaked>>
  BY DEF dispatch_app_data, cmdVars, histVars
<1>3. /\ refcnt' \in [Streams -> [FrameNos -> Nat]]
      /\ \A u \in Streams, k \in FrameNos :
           /\ refcnt[u][k] \in Nat
           /\ <<u, k>> \in R /\ refcnt[u][k] > 0 => refcnt'[u][k] = refcnt[u][k] - 1
           /\ <<u, k>> \notin R => refcnt'[u][k] = refcnt[u][k]
  <2> HIDE DEF R
  <2> QED BY <1>0, <1>2, BufDoneIs
<1>4. MmTypeOK'
  BY <1>0, <1>2, <1>3 DEF MmTypeOK
<1>5. SeenInv'
  BY <1>0, <1>1, <1>2 DEF SeenInv
<1>6. \A u \in Streams, k \in FrameNos : <<u, k>> \notin R => StreamRefs(u, k)' = StreamRefs(u, k)
  BY <1>2 DEF StreamRefs
<1>7. StreamRefs("meta", n) = 1 /\ StreamRefs("meta", n)' = 0
  BY <1>0, <1>2 DEF StreamRefs, SeenInv
<1>8. ASSUME NEW u \in Streams, NEW k \in FrameNos, Streaming(u)'
      PROVE  refcnt'[u][k] = One(<<u, k>> \in Placed') + StreamRefs(u, k)'
  <2>1. refcnt[u][k] = One(<<u, k>> \in Placed) + StreamRefs(u, k)
    BY <1>0, <1>1, <1>8 DEF CountInv
  <2>2. CASE <<u, k>> \in R
    <3>1. u = "meta" /\ k = n
      BY <2>2
    <3>2. One(<<u, k>> \in Placed') = One(<<u, k>> \in Placed) /\ One(<<u, k>> \in Placed) \in {0, 1}
      BY <1>1 DEF One
    <3>3. refcnt[u][k] > 0 /\ refcnt[u][k] - 1 = One(<<u, k>> \in Placed)
      BY <1>7, <2>1, <3>1, <3>2
    <3>4. refcnt'[u][k] = refcnt[u][k] - 1
      BY <1>3, <2>2, <3>3
    <3>5. StreamRefs(u, k)' = 0
      BY <1>7, <3>1
    <3> QED BY <3>2, <3>3, <3>4, <3>5
  <2>3. CASE <<u, k>> \notin R
    BY <1>1, <1>3, <1>6, <2>1, <2>3
  <2> QED BY <2>2, <2>3
<1>9. CountInv'
  BY <1>8 DEF CountInv
<1> QED BY <1>1, <1>4, <1>5, <1>9 DEF MmIndInv

\* New frames in one place.
LEMMA Arrives ==
  ASSUME NEW A, NEW B, NEW C, NEW D, NEW E, NEW G, NEW F, Apart6(A, B, C, D, E, G),
         F \cap (A \cup B \cup C \cup D \cup E \cup G) = {}
  PROVE  Apart6(A \cup F, B, C, D, E, G)
  BY DEF Apart6

\* A command of the HAL or of a poll thread, and the frame it brings.
Posts(c, F) ==
  /\ c \in Command /\ F = {f \in AllFrames : Brings(c, f)} /\ F \cap Placed = {}
  /\ mmCmds' = enqueue(mmCmds, c)
  /\ UNCHANGED <<superQ, cbCmds, withHal, forgotten, leaked>>

\* It is the only new one.
LEMMA PostFacts ==
  ASSUME MmIndInv, NEW c, NEW F, Posts(c, F)
  PROVE  /\ mmCmds' \in Seq(Command) /\ CmdFrames(mmCmds') = CmdFrames(mmCmds) \cup F
         /\ OnePlace' /\ Placed' = Placed \cup F
         /\ NoFlush(mmCmds) /\ ~IsFlush(c) => NoFlush(mmCmds')
         /\ FlushLast(mmCmds, Linked) /\ ~IsFlush(c) /\ (Linked /\ ~NoFlush(mmCmds) => ~IsMeta(c))
              => FlushLast(mmCmds', Linked)
         /\ NoFlush(mmCmds) /\ IsFlush(c) /\ c.s = (IF Linked THEN {"meta"} ELSE Streams)
              => FlushLast(mmCmds', Linked)
<1> USE DEF Posts
<1>0. MmTypeOK /\ OnePlace
  BY DEF MmIndInv
<1>1. mmCmds \in Seq(Command) /\ Linked \in BOOLEAN /\ Once(mmCmds)
  BY <1>0 DEF MmTypeOK, Linked, OnePlace
<1> DEFINE q == mmCmds  t == enqueue(q, c)  b == Linked
<1>2. /\ t \in Seq(Command) /\ CmdFrames(t) = CmdFrames(q) \cup F
      /\ Once(q) /\ F \cap CmdFrames(q) = {} => Once(t)
      /\ NoFlush(q) /\ ~IsFlush(c) => NoFlush(t)
      /\ FlushLast(q, b) /\ ~IsFlush(c) /\ (b /\ ~NoFlush(q) => ~IsMeta(c)) => FlushLast(t, b)
      /\ NoFlush(q) /\ IsFlush(c) /\ c.s = (IF b THEN {"meta"} ELSE Streams) => FlushLast(t, b)
  <2>1. q \in Seq(Command) /\ b \in BOOLEAN
    BY <1>1
  <2> HIDE DEF q, b
  <2>2. /\ t \in Seq(Command) /\ CmdFrames(t) = CmdFrames(q) \cup F
        /\ Once(q) /\ F \cap CmdFrames(q) = {} => Once(t)
        /\ NoFlush(q) /\ ~IsFlush(c) => NoFlush(t)
    BY <2>1, CmdAdded
  <2>3. \A borrowed \in BOOLEAN :
          /\ FlushLast(q, borrowed) /\ ~IsFlush(c) /\ (borrowed /\ ~NoFlush(q) => ~IsMeta(c))
               => FlushLast(t, borrowed)
          /\ NoFlush(q) /\ IsFlush(c) /\ c.s = (IF borrowed THEN {"meta"} ELSE Streams)
               => FlushLast(t, borrowed)
    BY <2>1, CmdAdded
  <2> HIDE DEF t
  <2> QED BY <2>1, <2>2, <2>3
<1>3. mmCmds' = t
  OBVIOUS
<1> HIDE DEF t
<1>4. F \cap CmdFrames(mmCmds) = {}
  BY DEF Placed
<1>5. CmdFrames(mmCmds') = CmdFrames(mmCmds) \cup F /\ Once(mmCmds')
  BY <1>1, <1>2, <1>3, <1>4
<1>6. Placed' = Placed \cup F
  BY <1>5 DEF Placed
<1>7. OnePlace'
  <2>1. Apart6(CmdFrames(mmCmds) \cup F, FramesOf(superQ.que), CbFrames(cbCmds), HalFrames(withHal),
               forgotten, leaked)
    BY <1>0, Arrives DEF OnePlace, Placed
  <2>2. Apart6(CmdFrames(mmCmds'), FramesOf(superQ.que), CbFrames(cbCmds), HalFrames(withHal),
               forgotten, leaked)
    BY <1>5, <2>1
  <2> QED BY <1>0, <1>5, <2>2 DEF OnePlace
<1> QED BY <1>2, <1>3, <1>5, <1>6, <1>7

\* One count is set.
LEMMA CountSet ==
  ASSUME NEW R \in [Streams -> [FrameNos -> Nat]], NEW s \in Streams, NEW n \in FrameNos, NEW v \in Nat,
         NEW Q, Q = [R EXCEPT ![s][n] = v]
  PROVE  /\ Q \in [Streams -> [FrameNos -> Nat]] /\ Q[s][n] = v
         /\ \A u \in Streams, k \in FrameNos : <<u, k>> # <<s, n>> => Q[u][k] = R[u][k]
<1> DEFINE g == [R[s] EXCEPT ![n] = v]
<1>1. g \in [FrameNos -> Nat] /\ g[n] = v /\ \A k \in FrameNos : k # n => g[k] = R[s][k]
  OBVIOUS
<1>2. Q = [R EXCEPT ![s] = g]
  OBVIOUS
<1> HIDE DEF g
<1>3. Q \in [Streams -> [FrameNos -> Nat]] /\ Q[s] = g /\ \A u \in Streams : u # s => Q[u] = R[u]
  BY <1>1, <1>2
<1> QED BY <1>1, <1>3

\* data_notify(): the frame is new, and has its references before anyone is told.
LEMMA DataNotifyInv ==
  ASSUME MmIndInv, NEW s \in Streams, NEW n \in FrameNos, data_notify(s, n)
  PROVE  MmIndInv'
<1>0. MmTypeOK /\ PhaseInv /\ MetaGone /\ QueueInv /\ PairsMatch /\ OnePlace /\ SeenInv /\ CountInv /\ LossInv
  BY DEF MmIndInv
<1> DEFINE told == ~(s = "meta" /\ Linked) \/ halPc = "run"
           v == (IF told THEN 1 ELSE 0) + (IF s = "meta" THEN 1 ELSE 0)
           c == [cmd |-> "DATA", s |-> s, n |-> n]
           f == <<s, n>>
           F == IF told THEN {f} ELSE {}
<1>1. /\ Streaming(s) /\ (pollPc = "idle" \/ (s = "snap" /\ Linked))
      /\ n \in sensor[s] + 1 .. MaxFrame
      /\ sensor' = [sensor EXCEPT ![s] = n]
      /\ refcnt' = [refcnt EXCEPT ![s][n] = v]
      /\ mmCmds' = IF told THEN enqueue(mmCmds, c) ELSE mmCmds
      /\ pollPc' = IF s = "meta" THEN "app" ELSE pollPc
      /\ UNCHANGED <<chType, resetAt, appData, superQ, pending_cnt, cbCmds, withHal, halPc, forgotten, leaked>>
  BY DEF data_notify, cmdVars, histVars
<1>2. Linked' = Linked /\ notify_mode' = notify_mode /\ \A u : Streaming(u)' = Streaming(u)
  BY <1>1 DEF Linked, notify_mode, Streaming
<1>3. /\ sensor \in [Streams -> 0 .. MaxFrame] /\ sensor[s] \in Nat /\ n > sensor[s] /\ n \in Nat
      /\ sensor' \in [Streams -> 0 .. MaxFrame] /\ sensor'[s] = n
      /\ \A u \in Streams : u # s => sensor'[u] = sensor[u]
      /\ \A u \in Streams : sensor[u] \in Nat /\ sensor'[u] \in Nat /\ sensor[u] <= sensor'[u]
  <2>1. sensor \in [Streams -> 0 .. MaxFrame] /\ MaxFrame \in Nat
    BY <1>0, Limits DEF MmTypeOK
  <2>2. sensor[s] \in 0 .. MaxFrame
    BY <2>1
  <2>3. n \in 0 .. MaxFrame /\ n > sensor[s] /\ n \in Nat
    BY <1>1, <2>1, <2>2 DEF FrameNos
  <2>4. /\ sensor' \in [Streams -> 0 .. MaxFrame] /\ sensor'[s] = n
        /\ \A u \in Streams : u # s => sensor'[u] = sensor[u]
    BY <1>1, <2>1, <2>3
  <2>5. \A u \in Streams : sensor[u] \in Nat /\ sensor'[u] \in Nat
    BY <2>1, <2>4
  <2>6. \A u \in Streams : sensor[u] <= sensor'[u]
    BY <2>3, <2>4, <2>5
  <2> QED BY <2>1, <2>2, <2>3, <2>4, <2>5, <2>6
<1>4. f \in AllFrames /\ f \notin Placed
  <2>1. f \in AllFrames /\ f[1] = s /\ f[2] = n
    BY DEF AllFrames
  <2>2. f \in Placed => n <= sensor[s]
    BY <1>0, <2>1 DEF SeenInv
  <2> QED BY <1>3, <2>1, <2>2
<1>5. /\ mmCmds' \in Seq(Command) /\ CmdFrames(mmCmds') = CmdFrames(mmCmds) \cup F
      /\ OnePlace' /\ Placed' = Placed \cup F /\ FlushLast(mmCmds', Linked)
      /\ NoFlush(mmCmds) => NoFlush(mmCmds')
  <2>1. CASE told
    <3>1. c \in Command /\ c.cmd = "DATA" /\ c.s = s /\ c.n = n
      BY DEF Command
    <3>2. ~IsFlush(c) /\ (IsMeta(c) => s = "meta")
      BY DEF IsFlush, IsMeta
    <3>3. F = {g \in AllFrames : Brings(c, g)}
      <4> HIDE DEF c, told
      <4>1. {g \in AllFrames : Brings(c, g)} = {<<s, n>>}
        BY <3>1, CommandIs
      <4> QED BY <2>1, <4>1
    <3>4. Linked /\ ~NoFlush(mmCmds) => ~IsMeta(c)
      BY <1>0, <2>1, <3>2 DEF PhaseInv
    <3> DEFINE d == c
    <3>5. mmCmds' = enqueue(mmCmds, d)
      BY <1>1, <2>1
    <3>6. Posts(d, F)
      <4> HIDE DEF told
      <4>1. F \cap Placed = {}
        BY <1>4
      <4> QED BY <1>1, <3>1, <3>3, <3>5, <4>1 DEF Posts
    <3>7. FlushLast(mmCmds, Linked)
      BY <1>0 DEF PhaseInv
    <3> HIDE DEF c, F
    <3> QED BY <3>2, <3>4, <3>6, <3>7, PostFacts
  <2>2. CASE ~told
    <3>1. F = {} /\ mmCmds' = mmCmds
      BY <1>1, <2>2
    <3>2. Placed' = Placed /\ OnePlace'
      BY <1>0, <1>1, <3>1 DEF Placed, OnePlace
    <3> QED BY <1>0, <3>1, <3>2 DEF MmTypeOK, PhaseInv
  <2> QED BY <2>1, <2>2
<1>6. v \in Nat
  OBVIOUS
<1>7. /\ refcnt' \in [Streams -> [FrameNos -> Nat]] /\ refcnt'[s][n] = v
      /\ \A u \in Streams, k \in FrameNos : <<u, k>> # <<s, n>> => refcnt'[u][k] = refcnt[u][k]
  <2>1. refcnt \in [Streams -> [FrameNos -> Nat]]
    BY <1>0 DEF MmTypeOK
  <2>2. refcnt' = [refcnt EXCEPT ![s][n] = v]
    BY <1>1
  <2> HIDE DEF v
  <2> QED BY <1>6, <2>1, <2>2, CountSet
<1>8. MmTypeOK'
  <2>1. pollPc' \in {"idle", "app"}
    BY <1>0, <1>1 DEF MmTypeOK
  <2>2. sensor' \in [Streams -> 0 .. MaxFrame]
    BY <1>3
  <2> QED BY <1>0, <1>1, <1>5, <1>7, <2>1, <2>2 DEF MmTypeOK
<1>9. PhaseInv'
  <2>1. halPc = "closed" => mmCmds' = mmCmds
    BY <1>1 DEF Streaming, Streams
  <2> QED BY <1>0, <1>1, <1>2, <1>5, <2>1 DEF PhaseInv
<1>10. MetaGone'
  <2>1. Linked /\ halPc \in {"flushed", "stopped", "closed"} => \A g \in F : g[1] # "meta"
    OBVIOUS
  <2> QED BY <1>0, <1>1, <1>2, <1>5, <2>1 DEF MetaGone
<1>11. QueueInv' /\ PairsMatch'
  BY <1>0, <1>1, <1>2 DEF QueueInv, PairsMatch, NamedUnlessReset
<1>12. LossInv'
  BY <1>0, <1>1, <1>2 DEF LossInv
<1>13. SeenInv'
  <2>1. ASSUME NEW g \in Placed' PROVE g[2] <= sensor'[g[1]]
    <3>0. Placed' \subseteq AllFrames
      <4>1. FramesOf(superQ.que) \subseteq AllFrames
        <5>1. superQ.que \in Seq(SuperBuf)
          BY <1>0 DEF MmTypeOK, SuperQs
        <5> QED BY <5>1, FramesAre DEF FramesIn
      <4>2. Placed \subseteq AllFrames
        BY <1>0, <4>1 DEF Placed, CmdFrames, CbFrames, HalFrames, MmTypeOK
      <4> QED BY <1>4, <1>5, <4>2
    <3>1. g[1] \in Streams /\ g[2] \in Nat
      BY <3>0 DEF AllFrames, FrameNos
    <3>2. CASE g \in Placed
      <4>1. g[2] <= sensor[g[1]]
        BY <1>0, <3>2 DEF SeenInv
      <4> DEFINE a == g[2]  b == sensor[g[1]]  d == sensor'[g[1]]
      <4>2. a \in Nat /\ b \in Nat /\ d \in Nat /\ a <= b /\ b <= d
        BY <1>3, <3>1, <4>1
      <4> HIDE DEF a, b, d
      <4>3. a <= d
        BY <4>2
      <4> QED BY <4>3 DEF a, d
    <3>3. CASE g = f
      BY <1>3, <3>3
    <3> QED BY <1>5, <3>2, <3>3
  <2>2. \A k \in appData : k \in Nat /\ k <= sensor["meta"] /\ k <= sensor'["meta"]
    <3>1. "meta" \in Streams /\ sensor["meta"] \in Nat /\ sensor'["meta"] \in Nat /\ sensor["meta"] <= sensor'["meta"]
      BY <1>3 DEF Streams
    <3>2. \A k \in appData : k \in Nat /\ k <= sensor["meta"]
      BY <1>0 DEF MmTypeOK, SeenInv, FrameNos
    <3> QED BY <3>1, <3>2
  <2>3. pollPc' = "app" => sensor'["meta"] \notin appData /\ sensor'["meta"] # 0
    <3>1. CASE s = "meta"
      <4>1. sensor'["meta"] = n /\ n > sensor["meta"] /\ n \in Nat /\ sensor["meta"] \in Nat
        BY <1>3, <3>1
      <4> QED BY <2>2, <4>1
    <3>2. CASE s # "meta"
      <4>1. sensor'["meta"] = sensor["meta"] /\ pollPc' = pollPc
        BY <1>1, <1>3, <3>2 DEF Streams
      <4> QED BY <1>0, <4>1 DEF SeenInv
    <3> QED BY <3>1, <3>2
  <2> QED BY <1>1, <2>1, <2>2, <2>3 DEF SeenInv
<1>14. ASSUME NEW u \in Streams, NEW k \in FrameNos, <<u, k>> # <<s, n>>
       PROVE  StreamRefs(u, k)' = StreamRefs(u, k)
  <2>1. CASE u # "meta"
    BY <2>1 DEF StreamRefs
  <2>2. CASE u = "meta" /\ s = "meta"
    <3>1. k # n /\ pollPc = "idle" /\ sensor'["meta"] = n
      BY <1>1, <1>3, <1>14, <2>2
    <3> QED BY <1>1, <2>2, <3>1 DEF StreamRefs
  <2>3. CASE u = "meta" /\ s # "meta"
    <3>1. sensor'["meta"] = sensor["meta"] /\ pollPc' = pollPc
      BY <1>1, <1>3, <2>3 DEF Streams
    <3> QED BY <1>1, <2>3, <3>1 DEF StreamRefs
  <2> QED BY <2>1, <2>2, <2>3
<1>15. StreamRefs(s, n)' = IF s = "meta" THEN 1 ELSE 0
  <2>1. s = "meta" => pollPc' = "app" /\ sensor'["meta"] = n
    BY <1>1, <1>3
  <2> QED BY <2>1 DEF StreamRefs
<1>16. One(f \in Placed') = IF told THEN 1 ELSE 0
  <2>1. (f \in Placed') <=> told
    BY <1>4, <1>5
  <2> HIDE DEF told
  <2> QED BY <2>1 DEF One
<1>17. ASSUME NEW u \in Streams, NEW k \in FrameNos, Streaming(u)'
       PROVE  refcnt'[u][k] = One(<<u, k>> \in Placed') + StreamRefs(u, k)'
  <2>1. CASE <<u, k>> = <<s, n>>
    BY <1>7, <1>15, <1>16, <2>1
  <2>2. CASE <<u, k>> # <<s, n>>
    <3>1. (<<u, k>> \in Placed') <=> (<<u, k>> \in Placed)
      BY <1>5, <2>2
    <3>2. One(<<u, k>> \in Placed') = One(<<u, k>> \in Placed)
      BY <3>1 DEF One
    <3>3. refcnt[u][k] = One(<<u, k>> \in Placed) + StreamRefs(u, k)
      BY <1>0, <1>2, <1>17 DEF CountInv
    <3> QED BY <1>7, <1>14, <2>2, <3>2, <3>3
  <2> QED BY <2>1, <2>2
<1>18. CountInv'
  BY <1>17 DEF CountInv
<1> QED BY <1>5, <1>8, <1>9, <1>10, <1>11, <1>12, <1>13, <1>18 DEF MmIndInv

\* A superbuffer with the frames H changes hands.
ChangesHands(A, B, C, D, E, G, C2, D2, H) ==
  Apart6(A, B, C, D, E, G) /\ C = C2 \cup H /\ C2 \cap H = {} /\ D2 = D \cup H

\* Nothing else changes.
LEMMA HandedOver ==
  ASSUME NEW A, NEW B, NEW C, NEW D, NEW E, NEW G, NEW C2, NEW D2, NEW H,
         ChangesHands(A, B, C, D, E, G, C2, D2, H)
  PROVE  /\ Apart6(A, B, C2, D2, E, G)
         /\ A \cup B \cup C2 \cup D2 \cup E \cup G = A \cup B \cup C \cup D \cup E \cup G
  BY DEF Apart6, ChangesHands

\* dispatch_super_buf(): the frames of the first superbuffer are with the HAL.
LEMMA SuperBufInv == ASSUME MmIndInv, dispatch_super_buf PROVE MmIndInv'
<1>0. MmTypeOK /\ PhaseInv /\ MetaGone /\ QueueInv /\ PairsMatch /\ OnePlace /\ SeenInv /\ CountInv /\ LossInv
  BY DEF MmIndInv
<1> DEFINE b == Head(cbCmds)
           t == Tail(cbCmds)
           q == cbCmds
           W == withHal
           H == HalFrames({b})
<1>1. /\ q # << >> /\ cbCmds' = t /\ withHal' = W \cup {b}
      /\ UNCHANGED <<chType, resetAt, sensor, refcnt, pollPc, appData, mmCmds, superQ, pending_cnt,
                     halPc, forgotten, leaked>>
  BY DEF dispatch_super_buf, histVars
<1>2. /\ q \in Seq(Pair) /\ W \subseteq Pair /\ b = Head(q) /\ t = Tail(q)
      /\ Pairwise(q) /\ Separate(W) /\ CbFrames(q) \cap HalFrames(W) = {}
  BY <1>0 DEF MmTypeOK, OnePlace, Apart6
<1> HIDE DEF b, t, q, W
<1>3. /\ t \in Seq(Pair) /\ b \in Pair
      /\ CbFrames(q) = CbFrames(t) \cup H
      /\ Pairwise(t) /\ CbFrames(t) \cap H = {}
      /\ SameNumber(q) => SameNumber(t) /\ b["snap"] = b["meta"]
  BY <1>1, <1>2, BundleTaken
<1>4. /\ HalFrames(W \cup {b}) = HalFrames(W) \cup H
      /\ Separate(W) /\ HalFrames(W) \cap H = {} => Separate(W \cup {b})
  BY <1>2, <1>3, HalTakes
<1>5. Separate(W \cup {b})
  BY <1>2, <1>3, <1>4
<1>6. /\ Apart6(CmdFrames(mmCmds), FramesOf(superQ.que), CbFrames(t), HalFrames(W \cup {b}), forgotten, leaked)
      /\ CmdFrames(mmCmds) \cup FramesOf(superQ.que) \cup CbFrames(t) \cup HalFrames(W \cup {b})
           \cup forgotten \cup leaked = Placed
  <2>1. Apart6(CmdFrames(mmCmds), FramesOf(superQ.que), CbFrames(q), HalFrames(W), forgotten, leaked)
    BY <1>0 DEF OnePlace, q, W
  <2>2. Placed = CmdFrames(mmCmds) \cup FramesOf(superQ.que) \cup CbFrames(q) \cup HalFrames(W)
                   \cup forgotten \cup leaked
    BY DEF Placed, q, W
  <2> DEFINE A == CmdFrames(mmCmds)  B == FramesOf(superQ.que)  C == CbFrames(q)  D == HalFrames(W)
             C2 == CbFrames(t)  D2 == HalFrames(W \cup {b})
  <2>3. Apart6(A, B, C, D, forgotten, leaked) /\ C = C2 \cup H /\ C2 \cap H = {} /\ D2 = D \cup H
    BY <1>3, <1>4, <2>1
  <2> HIDE DEF A, B, C, D, C2, D2, H
  <2>4. /\ Apart6(A, B, C2, D2, forgotten, leaked)
        /\ A \cup B \cup C2 \cup D2 \cup forgotten \cup leaked = A \cup B \cup C \cup D \cup forgotten \cup leaked
    <3>1. ChangesHands(A, B, C, D, forgotten, leaked, C2, D2, H)
      BY <2>3 DEF ChangesHands
    <3> QED BY <3>1, HandedOver
  <2> QED BY <2>2, <2>4 DEF A, B, C, D, C2, D2
<1>7. OnePlace' /\ Placed' = Placed
  <2>1. CbFrames(cbCmds') = CbFrames(t) /\ HalFrames(withHal') = HalFrames(W \cup {b})
    BY <1>1
  <2> QED BY <1>0, <1>1, <1>3, <1>5, <1>6, <2>1 DEF OnePlace, Placed
<1>8. Linked' = Linked /\ notify_mode' = notify_mode /\ \A u : Streaming(u)' = Streaming(u)
  BY <1>1 DEF Linked, notify_mode, Streaming
<1>9. MmTypeOK'
  <2>1. cbCmds' \in Seq(Pair) /\ withHal' \subseteq Pair
    BY <1>1, <1>2, <1>3
  <2> QED BY <1>0, <1>1, <2>1 DEF MmTypeOK
<1>10. PhaseInv' /\ MetaGone'
  BY <1>0, <1>1, <1>8 DEF PhaseInv, MetaGone
<1>11. QueueInv'
  BY <1>0, <1>1, <1>8 DEF QueueInv, NamedUnlessReset
<1>12. PairsMatch'
  <2>1. resetAt = 0 => SameNumber(q) /\ \A bufs \in W : bufs["snap"] = bufs["meta"]
    BY <1>0 DEF PairsMatch, q, W
  <2> QED BY <1>1, <1>3, <2>1 DEF PairsMatch
<1>13. LossInv' /\ SeenInv'
  BY <1>0, <1>1, <1>7, <1>8 DEF LossInv, SeenInv
<1>14. CountInv'
  <2>1. \A s \in Streams, n \in FrameNos : StreamRefs(s, n)' = StreamRefs(s, n)
    BY <1>1 DEF StreamRefs
  <2> QED BY <1>0, <1>1, <1>7, <1>8, <2>1 DEF CountInv
<1> QED BY <1>7, <1>9, <1>10, <1>11, <1>12, <1>13, <1>14 DEF MmIndInv

\* A superbuffer is given back, as far as its streams are reached.
GivesBack(A, B, C, D, E, G, D2, G2, H, R, L) ==
  /\ Apart6(A, B, C, D, E, G) /\ H \subseteq D /\ D2 = D \ H
  /\ H = R \cup L /\ R \cap L = {} /\ G2 = G \cup L

\* The rest is leaked.
LEMMA GivenBack ==
  ASSUME NEW A, NEW B, NEW C, NEW D, NEW E, NEW G, NEW D2, NEW G2, NEW H, NEW R, NEW L,
         GivesBack(A, B, C, D, E, G, D2, G2, H, R, L)
  PROVE  /\ Apart6(A, B, C, D2, E, G2)
         /\ A \cup B \cup C \cup D2 \cup E \cup G2 = (A \cup B \cup C \cup D \cup E \cup G) \ R
         /\ R \subseteq A \cup B \cup C \cup D \cup E \cup G
<1> USE DEF GivesBack, Apart6
<1>1. Apart6(A, B, C, D2, E, G2)
  OBVIOUS
<1>2. A \cup B \cup C \cup D2 \cup E \cup G2 \subseteq (A \cup B \cup C \cup D \cup E \cup G) \ R
  <2>1. R \cap A = {} /\ R \cap B = {} /\ R \cap C = {} /\ R \cap D2 = {} /\ R \cap E = {} /\ R \cap G2 = {}
    OBVIOUS
  <2> QED BY <2>1
<1>3. (A \cup B \cup C \cup D \cup E \cup G) \ R \subseteq A \cup B \cup C \cup D2 \cup E \cup G2
  OBVIOUS
<1> QED BY <1>1, <1>2, <1>3

\* HalBufDone: the frames lose their references or are leaked.
LEMMA HalBufDoneInv == ASSUME MmIndInv, NEW b \in withHal, HalBufDone(b) PROVE MmIndInv'
<1>0. MmTypeOK /\ PhaseInv /\ MetaGone /\ QueueInv /\ PairsMatch /\ OnePlace /\ SeenInv /\ CountInv /\ LossInv
  BY DEF MmIndInv
<1> DEFINE R == {<<s, b[s]>> : s \in {u \in Streams : HalReaches(u)}}
           L == {<<s, b[s]>> : s \in {u \in Streams : ~HalReaches(u)}}
           W == withHal
           H == HalFrames({b})
<1>1. /\ withHal' = W \ {b} /\ refcnt' = BufDone(R) /\ leaked' = leaked \cup L
      /\ UNCHANGED <<chType, resetAt, sensor, pollPc, appData, mmCmds, superQ, pending_cnt, cbCmds, halPc,
                     forgotten>>
  BY DEF HalBufDone, cmdVars
<1>2. W \subseteq Pair /\ b \in Pair /\ b \in W /\ Separate(W)
  BY <1>0 DEF MmTypeOK, OnePlace
<1> HIDE DEF W
<1>3. /\ HalFrames(W \cup {b}) = HalFrames(W) \cup H /\ H = {<<s, b[s]>> : s \in Streams}
      /\ HalFrames(W \ {b}) = HalFrames(W) \ H
      /\ Separate(W \ {b})
  BY <1>2, HalTakes
<1>4. H = R \cup L /\ R \cap L = {} /\ H \subseteq HalFrames(W)
  <2>1. W \cup {b} = W
    BY <1>2
  <2>2. H \subseteq HalFrames(W)
    BY <1>3, <2>1
  <2>3. R \cap L = {}
    OBVIOUS
  <2>4. {<<s, b[s]>> : s \in Streams} = R \cup L
    OBVIOUS
  <2> QED BY <1>3, <2>2, <2>3, <2>4
<1>5. L \subseteq AllFrames /\ \A f \in L : f[1] \in Streams /\ ~HalReaches(f[1])
  <2>1. \A s \in Streams : b[s] \in FrameNos
    BY <1>2 DEF Pair
  <2> QED BY <2>1 DEF AllFrames
<1> HIDE DEF R, L, H
<1>6. /\ Apart6(CmdFrames(mmCmds), FramesOf(superQ.que), CbFrames(cbCmds), HalFrames(withHal'), forgotten, leaked')
      /\ CmdFrames(mmCmds) \cup FramesOf(superQ.que) \cup CbFrames(cbCmds) \cup HalFrames(withHal')
           \cup forgotten \cup leaked' = Placed \ R
      /\ R \subseteq Placed
  <2> DEFINE A == CmdFrames(mmCmds)  B == FramesOf(superQ.que)  C == CbFrames(cbCmds)  D == HalFrames(W)
             D2 == HalFrames(withHal')  G2 == leaked'
  <2>1. Apart6(A, B, C, D, forgotten, leaked)
    BY <1>0 DEF OnePlace, W
  <2>2. Placed = A \cup B \cup C \cup D \cup forgotten \cup leaked
    BY DEF Placed, W
  <2>3. D2 = D \ H /\ G2 = leaked \cup L /\ H \subseteq D
    BY <1>1, <1>3, <1>4
  <2> HIDE DEF A, B, C, D, D2, G2
  <2>4. GivesBack(A, B, C, D, forgotten, leaked, D2, G2, H, R, L)
    BY <1>4, <2>1, <2>3 DEF GivesBack
  <2>5. /\ Apart6(A, B, C, D2, forgotten, G2)
        /\ A \cup B \cup C \cup D2 \cup forgotten \cup G2 = (A \cup B \cup C \cup D \cup forgotten \cup leaked) \ R
        /\ R \subseteq A \cup B \cup C \cup D \cup forgotten \cup leaked
    BY <2>4, GivenBack
  <2> DEFINE P == Placed
  <2>6. P = A \cup B \cup C \cup D \cup forgotten \cup leaked
    BY <2>2
  <2> HIDE DEF P
  <2>7. /\ Apart6(A, B, C, D2, forgotten, G2)
        /\ A \cup B \cup C \cup D2 \cup forgotten \cup G2 = P \ R
        /\ R \subseteq P
    BY <2>5, <2>6
  <2> QED BY <2>7 DEF A, B, C, D2, G2, P
<1>7. Placed' = Placed \ R
  BY <1>1, <1>6 DEF Placed
<1>8. OnePlace'
  <2>1. Separate(withHal')
    BY <1>1, <1>3
  <2> QED BY <1>0, <1>1, <1>6, <2>1 DEF OnePlace
<1>9. Linked' = Linked /\ notify_mode' = notify_mode /\ \A u : Streaming(u)' = Streaming(u)
  BY <1>1 DEF Linked, notify_mode, Streaming
<1>10. CountInv' /\ refcnt' \in [Streams -> [FrameNos -> Nat]]
  BY <1>0, <1>1, <1>6, <1>7, <1>9, CountStep
<1>11. MmTypeOK'
  <2>1. withHal' \subseteq Pair /\ leaked' \subseteq AllFrames
    BY <1>0, <1>1, <1>2, <1>5 DEF MmTypeOK
  <2> QED BY <1>0, <1>1, <1>10, <2>1 DEF MmTypeOK
<1>12. PhaseInv' /\ MetaGone'
  BY <1>0, <1>1, <1>9 DEF PhaseInv, MetaGone
<1>13. QueueInv'
  BY <1>0, <1>1, <1>9 DEF QueueInv, NamedUnlessReset
<1>14. PairsMatch'
  BY <1>0, <1>1 DEF PairsMatch, W
<1>15. SeenInv'
  BY <1>0, <1>1, <1>7 DEF SeenInv
<1>16. \A f \in leaked' : Streaming(f[1])' => f[1] = "meta" /\ Linked /\ halPc # "run"
  <2>1. \A f \in leaked : Streaming(f[1]) => f[1] = "meta" /\ Linked /\ halPc # "run"
    BY <1>0 DEF LossInv
  <2>2. \A f \in L : Streaming(f[1]) => f[1] = "meta" /\ Linked /\ halPc # "run"
    BY <1>5 DEF HalReaches
  <2> QED BY <1>1, <1>9, <2>1, <2>2
<1>17. LossInv'
  BY <1>0, <1>1, <1>9, <1>16 DEF LossInv
<1> QED BY <1>8, <1>10, <1>11, <1>12, <1>13, <1>14, <1>15, <1>17 DEF MmIndInv

\* A command without a frame, from a thread of the HAL that finds the channel
\* running: only the phase may change.
LEMMA HalCommandInv ==
  ASSUME MmIndInv, NEW c \in Command, c.cmd # "DATA", mmCmds' = enqueue(mmCmds, c), halPc = "run",
         halPc' \in {"run"} \cup (IF Linked THEN {"unlinked"} ELSE {"flush"}),
         IsFlush(c) => halPc' # "run" /\ c.s = (IF Linked THEN {"meta"} ELSE Streams),
         UNCHANGED <<chType, resetAt, sensor, refcnt, pollPc, appData, superQ, pending_cnt, cbCmds,
                     withHal, forgotten, leaked>>
  PROVE  MmIndInv'
<1>0. MmTypeOK /\ PhaseInv /\ MetaGone /\ QueueInv /\ PairsMatch /\ OnePlace /\ SeenInv /\ CountInv /\ LossInv
  BY DEF MmIndInv
<1> DEFINE F == {f \in AllFrames : Brings(c, f)}
<1>1. F = {f \in AllFrames : Brings(c, f)}
  OBVIOUS
<1> HIDE DEF F
<1>2. F = {}
  BY <1>1, CommandIs
<1>3. Posts(c, F)
  BY <1>1, <1>2 DEF Posts
<1>4. NoFlush(mmCmds) /\ FlushLast(mmCmds, Linked)
  BY <1>0 DEF PhaseInv
<1>5. /\ mmCmds' \in Seq(Command) /\ CmdFrames(mmCmds') = CmdFrames(mmCmds)
      /\ OnePlace' /\ Placed' = Placed
      /\ ~IsFlush(c) => NoFlush(mmCmds')
      /\ FlushLast(mmCmds', Linked)
  <2>1. /\ mmCmds' \in Seq(Command) /\ CmdFrames(mmCmds') = CmdFrames(mmCmds) \cup F
        /\ OnePlace' /\ Placed' = Placed \cup F
        /\ NoFlush(mmCmds) /\ ~IsFlush(c) => NoFlush(mmCmds')
        /\ FlushLast(mmCmds, Linked) /\ ~IsFlush(c) /\ (Linked /\ ~NoFlush(mmCmds) => ~IsMeta(c))
              => FlushLast(mmCmds', Linked)
        /\ NoFlush(mmCmds) /\ IsFlush(c) /\ c.s = (IF Linked THEN {"meta"} ELSE Streams)
              => FlushLast(mmCmds', Linked)
    BY <1>3, PostFacts
  <2> QED BY <1>2, <1>4, <2>1
<1>6. Linked' = Linked /\ notify_mode' = notify_mode
  BY DEF Linked, notify_mode
<1>7. \A u \in Streams : Streaming(u)' <=> Streaming(u)
  <2>1. CASE Linked
    <3>1. halPc' \in {"run", "unlinked"}
      BY <2>1
    <3> QED BY <1>6, <2>1, <3>1 DEF Streaming
  <2>2. CASE ~Linked
    <3>1. halPc' \in {"run", "flush"}
      BY <2>2
    <3> QED BY <1>6, <2>2, <3>1 DEF Streaming
  <2> QED BY <2>1, <2>2
<1>8. MmTypeOK'
  BY <1>0, <1>5 DEF MmTypeOK
<1>9. PhaseInv'
  BY <1>0, <1>5, <1>6 DEF PhaseInv
<1>10. MetaGone' /\ PairsMatch'
  BY <1>0, <1>6 DEF MetaGone, PairsMatch
<1>11. QueueInv'
  BY <1>0, <1>6 DEF QueueInv, NamedUnlessReset
<1>12. SeenInv'
  BY <1>0, <1>5 DEF SeenInv
<1>13. CountInv'
  <2>1. \A s \in Streams, n \in FrameNos : StreamRefs(s, n)' = StreamRefs(s, n)
    BY DEF StreamRefs
  <2> QED BY <1>0, <1>5, <1>7, <2>1 DEF CountInv
<1>14. LossInv'
  <2>1. \A f \in forgotten \cup leaked : f[1] \in Streams
    BY <1>0 DEF MmTypeOK, AllFrames
  <2>2. \A f \in forgotten : Streaming(f[1])' => resetAt # 0
    BY <1>0, <1>7, <2>1 DEF LossInv
  <2>3. \A f \in leaked : ~Streaming(f[1])'
    BY <1>0, <1>7, <2>1 DEF LossInv
  <2> QED BY <2>2, <2>3 DEF LossInv
<1> QED BY <1>5, <1>8, <1>9, <1>10, <1>11, <1>12, <1>13, <1>14 DEF MmIndInv

\* request_super_buf() changes no phase.
LEMMA RequestSuperBufInv == ASSUME MmIndInv, NEW n \in Nat, request_super_buf(n) PROVE MmIndInv'
<1> DEFINE c == [cmd |-> "REQ", n |-> n]
<1>1. c \in Command /\ c.cmd # "DATA" /\ ~IsFlush(c)
  BY DEF Command, IsFlush
<1>2. /\ halPc = "run" /\ halPc' = "run" /\ mmCmds' = enqueue(mmCmds, c)
      /\ UNCHANGED <<chType, resetAt, sensor, refcnt, pollPc, appData, superQ, pending_cnt, cbCmds,
                     withHal, forgotten, leaked>>
  BY DEF request_super_buf, cmdVars, histVars
<1> HIDE DEF c
<1> QED BY <1>1, <1>2, HalCommandInv

\* flush_super_buf_queue() finds no other flush on its way.
LEMMA FlushQueueInv == ASSUME MmIndInv, NEW n \in Nat, flush_super_buf_queue(n) PROVE MmIndInv'
<1> DEFINE c == [cmd |-> "FLUSH", n |-> n, s |-> Streams]
<1>1. c \in Command /\ c.cmd # "DATA" /\ c.s = Streams
  BY DEF Command
<1>2. /\ halPc = "run" /\ ~Linked /\ halPc' = "flush" /\ mmCmds' = enqueue(mmCmds, c)
      /\ UNCHANGED <<chType, resetAt, sensor, refcnt, pollPc, appData, superQ, pending_cnt, cbCmds,
                     withHal, forgotten, leaked>>
  BY DEF flush_super_buf_queue, cmdVars, histVars
<1> HIDE DEF c
<1> QED BY <1>1, <1>2, HalCommandInv

\* unlink_stream: behind its flush no metadata follows.
LEMMA UnlinkInv == ASSUME MmIndInv, unlink_stream PROVE MmIndInv'
<1> DEFINE c == [cmd |-> "FLUSH", n |-> 0, s |-> {"meta"}]
<1>1. c \in Command /\ c.cmd # "DATA" /\ c.s = {"meta"}
  BY DEF Command
<1>2. /\ halPc = "run" /\ Linked /\ halPc' = "unlinked" /\ mmCmds' = enqueue(mmCmds, c)
      /\ UNCHANGED <<chType, resetAt, sensor, refcnt, pollPc, appData, superQ, pending_cnt, cbCmds,
                     withHal, forgotten, leaked>>
  BY DEF unlink_stream, cmdVars, histVars
<1> HIDE DEF c
<1> QED BY <1>1, <1>2, HalCommandInv

\* stop_stream: the counts of a stopped stream matter no more.
LEMMA StopStreamInv == ASSUME MmIndInv, NEW s \in Streams, stop_stream(s) PROVE MmIndInv'
<1>0. MmTypeOK /\ PhaseInv /\ MetaGone /\ QueueInv /\ PairsMatch /\ OnePlace /\ SeenInv /\ CountInv /\ LossInv
  BY DEF MmIndInv
<1>1. /\ ~(s = "meta" /\ Linked)
      /\ halPc = CASE s = "meta" -> "snapStopped" [] Linked -> "flushed" [] OTHER -> "run"
      /\ halPc' = IF s = "meta" \/ Linked THEN "stopped" ELSE "snapStopped"
      /\ refcnt' = [refcnt EXCEPT ![s] = [n \in FrameNos |-> 0]]
      /\ UNCHANGED <<chType, resetAt, sensor, pollPc, appData, mmCmds, superQ, pending_cnt, cbCmds,
                     withHal, forgotten, leaked>>
  BY DEF stop_stream, cmdVars, histVars, FrameNos
<1>2. Linked' = Linked /\ notify_mode' = notify_mode
  BY <1>1 DEF Linked, notify_mode
<1>3. /\ halPc = (IF s = "meta" THEN "snapStopped" ELSE IF Linked THEN "flushed" ELSE "run")
      /\ s = "meta" => ~Linked
  BY <1>1
<1>4. ~Streaming(s)' /\ \A u \in Streams : Streaming(u)' => u # s /\ Streaming(u)
  BY <1>1, <1>2, <1>3 DEF Streaming, Streams
<1>5. Placed' = Placed /\ OnePlace'
  BY <1>0, <1>1 DEF Placed, OnePlace
<1>6. /\ refcnt' \in [Streams -> [FrameNos -> Nat]]
      /\ \A u \in Streams : u # s => refcnt'[u] = refcnt[u]
  <2>1. refcnt \in [Streams -> [FrameNos -> Nat]]
    BY <1>0 DEF MmTypeOK
  <2>2. [n \in FrameNos |-> 0] \in [FrameNos -> Nat]
    OBVIOUS
  <2> QED BY <1>1, <2>1, <2>2
<1>7. MmTypeOK'
  BY <1>0, <1>1, <1>6 DEF MmTypeOK
<1>8. PhaseInv'
  BY <1>0, <1>1, <1>2, <1>3 DEF PhaseInv
<1>9. MetaGone' /\ PairsMatch'
  BY <1>0, <1>1, <1>2, <1>3 DEF MetaGone, PairsMatch
<1>10. QueueInv'
  <2>1. halPc # "closed"
    BY <1>3
  <2> QED BY <1>0, <1>1, <1>2, <2>1 DEF QueueInv, NamedUnlessReset
<1>11. SeenInv'
  BY <1>0, <1>1, <1>5 DEF SeenInv
<1>12. CountInv'
  <2>1. \A u \in Streams, n \in FrameNos : StreamRefs(u, n)' = StreamRefs(u, n)
    BY <1>1 DEF StreamRefs
  <2> QED BY <1>0, <1>4, <1>5, <1>6, <2>1 DEF CountInv
<1>13. LossInv'
  <2>1. \A f \in forgotten \cup leaked : f[1] \in Streams
    BY <1>0 DEF MmTypeOK, AllFrames
  <2>2. \A f \in forgotten : Streaming(f[1])' => resetAt # 0
    <3>1. ASSUME NEW f \in forgotten, Streaming(f[1])', resetAt = 0 PROVE FALSE
      <4>1. f[1] # s /\ Streaming(f[1])
        BY <1>4, <2>1, <3>1
      <4>2. f[1] = "snap" /\ halPc = "flushed"
        BY <1>0, <3>1, <4>1 DEF LossInv
      <4> QED BY <1>3, <4>1, <4>2 DEF Streams
    <3> QED BY <3>1
  <2>3. \A f \in leaked : Streaming(f[1])' => f[1] = "meta" /\ Linked
    BY <1>0, <1>4, <2>1 DEF LossInv
  <2>4. halPc' # "run"
    BY <1>1
  <2> QED BY <1>1, <1>2, <2>2, <2>3, <2>4 DEF LossInv
<1> QED BY <1>5, <1>7, <1>8, <1>9, <1>10, <1>11, <1>12, <1>13 DEF MmIndInv

\* stop_threads: nothing of a running stream is left in the queue.
LEMMA StopThreadsInv == ASSUME MmIndInv, stop_threads PROVE MmIndInv'
<1>0. MmTypeOK /\ PhaseInv /\ MetaGone /\ QueueInv /\ PairsMatch /\ OnePlace /\ SeenInv /\ CountInv /\ LossInv
  BY DEF MmIndInv
<1>1. /\ halPc = "stopped" /\ mmCmds = << >> /\ ~superQ.stuck /\ halPc' = "closed"
      /\ superQ' = [superQ EXCEPT !.que = << >>]
      /\ UNCHANGED <<chType, resetAt, sensor, refcnt, pollPc, appData, mmCmds, pending_cnt, cbCmds,
                     withHal, forgotten, leaked>>
  BY DEF stop_threads, histVars
<1>2. Linked' = Linked /\ notify_mode' = notify_mode
  BY <1>1 DEF Linked, notify_mode
<1>3. /\ superQ' \in SuperQs /\ superQ'.que = << >> /\ superQ'.match_cnt = superQ.match_cnt
      /\ superQ'.stuck = superQ.stuck
  <2>1. superQ \in SuperQs
    BY <1>0 DEF MmTypeOK
  <2>2. << >> \in Seq(SuperBuf)
    OBVIOUS
  <2> QED BY <1>1, <2>1, <2>2 DEF SuperQs
<1>4. FramesOf(superQ'.que) = {}
  BY <1>3, EmptyQueue
<1>5. \A u \in Streams : Streaming(u)' => u = "meta" /\ Linked /\ Streaming(u)
  BY <1>1, <1>2 DEF Streaming, Streams
<1>6. Placed' \subseteq Placed /\ \A f \in Placed : f \in FramesOf(superQ.que) \/ f \in Placed'
  BY <1>1, <1>4 DEF Placed
<1>7. Linked => \A f \in FramesOf(superQ.que) : f[1] # "meta"
  BY <1>0, <1>1 DEF MetaGone
<1>8. OnePlace'
  <2>1. Apart6(CmdFrames(mmCmds), {}, CbFrames(cbCmds), HalFrames(withHal), forgotten, leaked)
    BY <1>0 DEF OnePlace, Apart6
  <2> QED BY <1>0, <1>1, <1>4, <2>1 DEF OnePlace
<1>9. MmTypeOK'
  BY <1>0, <1>1, <1>3 DEF MmTypeOK
<1>10. PhaseInv'
  BY <1>0, <1>1, <1>2, <1>3 DEF PhaseInv
<1>11. MetaGone' /\ PairsMatch'
  <2>1. CmdFrames(mmCmds') = {}
    BY <1>1 DEF CmdFrames
  <2>2. MetaGone'
    BY <1>4, <2>1 DEF MetaGone
  <2> QED BY <1>0, <1>1, <2>2 DEF PairsMatch
<1>12. QueueInv'
  BY <1>0, <1>1, <1>2, <1>3 DEF QueueInv
<1>13. SeenInv'
  BY <1>0, <1>1, <1>6 DEF SeenInv
<1>14. CountInv'
  <2>1. \A u \in Streams, n \in FrameNos : StreamRefs(u, n)' = StreamRefs(u, n)
    BY <1>1 DEF StreamRefs
  <2>2. ASSUME NEW u \in Streams, NEW n \in FrameNos, Streaming(u)'
        PROVE  refcnt'[u][n] = One(<<u, n>> \in Placed') + StreamRefs(u, n)'
    <3>1. u = "meta" /\ Linked /\ Streaming(u)
      BY <1>5, <2>2
    <3>2. <<u, n>> \notin FramesOf(superQ.que)
      BY <1>7, <3>1
    <3>3. (<<u, n>> \in Placed') <=> (<<u, n>> \in Placed)
      BY <1>6, <3>2
    <3>4. One(<<u, n>> \in Placed') = One(<<u, n>> \in Placed)
      BY <3>3 DEF One
    <3> QED BY <1>0, <1>1, <2>1, <3>1, <3>4 DEF CountInv
  <2> QED BY <2>2 DEF CountInv
<1>15. LossInv'
  <2>1. \A f \in forgotten \cup leaked : f[1] \in Streams
    BY <1>0 DEF MmTypeOK, AllFrames
  <2>2. \A f \in forgotten : Streaming(f[1])' => resetAt # 0
    <3>1. ASSUME NEW f \in forgotten, Streaming(f[1])' PROVE resetAt # 0
      <4>1. Streaming(f[1])
        BY <1>5, <2>1, <3>1
      <4> QED BY <1>0, <1>1, <3>1, <4>1 DEF LossInv
    <3> QED BY <3>1
  <2>3. \A f \in leaked : Streaming(f[1])' => f[1] = "meta" /\ Linked
    BY <1>5, <2>1
  <2> QED BY <1>1, <1>2, <2>2, <2>3 DEF LossInv
<1> QED BY <1>8, <1>9, <1>10, <1>11, <1>12, <1>13, <1>14, <1>15 DEF MmIndInv

\* The invariant holds at the start.
LEMMA MmInitInv == MmInit => MmIndInv
<1> SUFFICES ASSUME MmInit PROVE MmIndInv
  OBVIOUS
<1>1. /\ chType \in {"zsl", "live"} /\ resetAt \in Resets /\ pollPc = "idle" /\ halPc = "run"
      /\ sensor = [s \in Streams |-> 0]
      /\ refcnt = [s \in Streams |-> [n \in FrameNos |-> 0]]
      /\ appData = {} /\ mmCmds = << >> /\ cbCmds = << >> /\ withHal = {}
      /\ superQ = [que |-> << >>, match_cnt |-> 0, expected |-> 0, stuck |-> FALSE]
      /\ pending_cnt = 0 /\ forgotten = {} /\ leaked = {}
  BY DEF MmInit, FrameNos
<1>2. superQ.que = << >> /\ superQ.match_cnt = 0 /\ ~superQ.stuck /\ superQ \in SuperQs
  BY <1>1 DEF SuperQs
<1>3. Sound(superQ.que, superQ.match_cnt) /\ Named(superQ.que) /\ FramesOf(superQ.que) = {}
  BY <1>2, EmptyQueue
<1>4. CmdFrames(mmCmds) = {} /\ CbFrames(cbCmds) = {} /\ HalFrames(withHal) = {}
  BY <1>1 DEF CmdFrames, CbFrames, HalFrames
<1>5. Placed = {}
  BY <1>1, <1>3, <1>4 DEF Placed
<1>6. MmTypeOK
  <2>1. resetAt \in Nat
    BY <1>1, Limits
  <2>2. sensor \in [Streams -> 0 .. MaxFrame]
    BY <1>1, Limits
  <2>3. refcnt \in [Streams -> [FrameNos -> Nat]]
    BY <1>1
  <2> QED BY <1>1, <1>2, <2>1, <2>2, <2>3 DEF MmTypeOK
<1>7. NoFlush(mmCmds) /\ FlushLast(mmCmds, Linked) /\ Once(mmCmds) /\ Pairwise(cbCmds) /\ Separate(withHal)
      /\ SameNumber(cbCmds)
  BY <1>1 DEF NoFlush, FlushLast, Once, Pairwise, Separate, SameNumber
<1>8. PhaseInv /\ MetaGone
  BY <1>1, <1>7 DEF PhaseInv, MetaGone
<1>9. QueueInv /\ PairsMatch
  BY <1>1, <1>2, <1>3, <1>7, Limits DEF QueueInv, PairsMatch, NamedUnlessReset
<1>10. OnePlace
  BY <1>1, <1>3, <1>4, <1>7 DEF OnePlace, Apart6
<1>11. SeenInv /\ LossInv
  BY <1>1, <1>5 DEF SeenInv, LossInv
<1>12. CountInv
  BY <1>1, <1>5 DEF CountInv, One, StreamRefs
<1> QED BY <1>6, <1>8, <1>9, <1>10, <1>11, <1>12 DEF MmIndInv

\* A step of another part of the device, or none.
LEMMA MmStutters == ASSUME MmIndInv, UNCHANGED mmVars PROVE MmIndInv'
<1>0. MmTypeOK /\ SeenInv /\ CountInv
  BY DEF MmIndInv
<1>1. UNCHANGED <<chType, resetAt, sensor, refcnt, pollPc, appData, mmCmds, superQ, pending_cnt, cbCmds,
                  withHal, halPc, forgotten, leaked>>
  BY DEF mmVars, cmdVars, histVars
<1>2. /\ PhaseInv' /\ MetaGone' /\ QueueInv' /\ PairsMatch' /\ OnePlace' /\ LossInv'
      /\ Placed' = Placed /\ \A s \in Streams : Streaming(s)' = Streaming(s)
  BY <1>1, QueuesSame
<1>3. MmTypeOK' /\ SeenInv'
  BY <1>0, <1>1, <1>2 DEF MmTypeOK, SeenInv
<1>4. CountInv'
  <2>1. \A s \in Streams, n \in FrameNos : StreamRefs(s, n)' = StreamRefs(s, n)
    BY <1>1 DEF StreamRefs
  <2> QED BY <1>0, <1>1, <1>2, <2>1 DEF CountInv
<1> QED BY <1>2, <1>3, <1>4 DEF MmIndInv

\* Every step of the channel keeps the invariant.
LEMMA MmInductive == MmIndInv /\ [MmNext]_mmVars => MmIndInv'
<1> SUFFICES ASSUME MmIndInv, [MmNext]_mmVars PROVE MmIndInv'
  OBVIOUS
<1>1. ASSUME NEW s \in Streams, NEW n \in 1 .. MaxFrame, data_notify(s, n) PROVE MmIndInv'
  BY <1>1, DataNotifyInv DEF FrameNos
<1>2. ASSUME NEW s \in Streams, stop_stream(s) PROVE MmIndInv'
  BY <1>2, StopStreamInv
<1>3. CASE notify_app
  BY <1>3, NotifyInv
<1>4. ASSUME NEW n \in appData, dispatch_app_data(n) PROVE MmIndInv'
  BY <1>4, AppDataInv
<1>5. CASE process_stream_buf
  BY <1>5, CommandInv
<1>6. CASE dispatch_super_buf
  BY <1>6, SuperBufInv
<1>7. ASSUME NEW bufs \in withHal, HalBufDone(bufs) PROVE MmIndInv'
  BY <1>7, HalBufDoneInv
<1>8. ASSUME NEW n \in 0 .. MaxRequest, request_super_buf(n) PROVE MmIndInv'
  <2>1. n \in Nat
    BY MmAssumption
  <2> QED BY <1>8, <2>1, RequestSuperBufInv
<1>9. ASSUME NEW n \in 1 .. MaxFrame, flush_super_buf_queue(n) PROVE MmIndInv'
  <2>1. n \in Nat
    BY MmAssumption
  <2> QED BY <1>9, <2>1, FlushQueueInv
<1>10. CASE unlink_stream
  BY <1>10, UnlinkInv
<1>11. CASE stop_threads
  BY <1>11, StopThreadsInv
<1>12. CASE UNCHANGED mmVars
  BY <1>12, MmStutters
<1> QED BY <1>1, <1>2, <1>3, <1>4, <1>5, <1>6, <1>7, <1>8, <1>9, <1>10, <1>11, <1>12 DEF MmNext

\* The invariant of the channel holds in every behaviour of the device: order of
\* the superbuffers, one place for each frame, counts of references, and what
\* can be on its way in each phase of stopping.
THEOREM MmInvariance == Spec => []MmIndInv
<1>1. Init => MmIndInv
  BY MmInitInv DEF Init
<1>2. MmIndInv /\ [Next]_serviceVars => MmIndInv'
  BY MmInductive DEF Next, SensorsMove, LightMoves, VibratorMoves, ChannelMoves, serviceVars
<1> QED BY <1>1, <1>2, PTL DEF Spec

\* Matched superbuffers lead the queue and match_cnt is their number, a burst
\* channel never holds more than its water mark, and a superbuffer the HAL gets
\* is of one frame number, for any limits, any number of frames and buffers and
\* any order of the threads.
THEOREM BundlesAreMatched == Spec => []BundlesLead
<1>1. MmIndInv => BundlesLead
  <2> SUFFICES ASSUME MmIndInv PROVE BundlesLead
    OBVIOUS
  <2>0. MmTypeOK /\ PhaseInv /\ QueueInv /\ PairsMatch
    BY DEF MmIndInv
  <2> DEFINE que == superQ.que
             k == superQ.match_cnt
             N == Cardinality(Unmatched(que))
  <2>1. ASSUME halPc # "closed"
        PROVE  k = Lead(que) /\ k + N = Len(que) /\ N <= max_unmatched_frames + 1
    <3>1. Ordered(que, k) /\ Roomy(que, k)
      BY <2>0, <2>1 DEF QueueInv, Sound
    <3> HIDE DEF que, k
    <3>2. k \in 0 .. Len(que) /\ que \in Seq(SuperBuf) /\ Len(que) \in Nat
      BY <3>1, LenProperties DEF Ordered
    <3>3. N = Len(que) - k /\ k = Lead(que)
      BY <3>1, UnmatchedAre
    <3>4. Len(que) - k <= max_unmatched_frames + 1
      BY <3>1 DEF Roomy
    <3> HIDE DEF N
    <3>5. k + N = Len(que)
      <4> DEFINE l == Len(que)
      <4>1. l \in Nat /\ k \in 0 .. l /\ N = l - k
        BY <3>2, <3>3
      <4> HIDE DEF l
      <4>2. k + N = l
        BY <4>1
      <4> QED BY <4>2 DEF l
    <3> QED BY <3>3, <3>4, <3>5
  <2>2. ASSUME halPc = "closed" PROVE N <= max_unmatched_frames + 1
    <3>1. que = << >>
      BY <2>0, <2>2 DEF PhaseInv
    <3>2. Unmatched(que) = {}
      BY <3>1 DEF Unmatched
    <3>3. N = 0
      BY <3>2, FS_EmptySet
    <3> QED BY <3>3, Limits
  <2>3. resetAt = 0 => /\ \A i \in DOMAIN cbCmds : cbCmds[i]["snap"] = cbCmds[i]["meta"]
                       /\ \A bufs \in withHal : bufs["snap"] = bufs["meta"]
    <3>1. DOMAIN cbCmds = 1 .. Len(cbCmds)
      BY <2>0, LenProperties DEF MmTypeOK
    <3> QED BY <2>0, <3>1 DEF PairsMatch, SameNumber
  <2>4. ~superQ.stuck /\ (notify_mode = "BURST" => superQ.match_cnt <= water_mark)
    BY <2>0 DEF QueueInv
  <2> QED BY <2>1, <2>2, <2>3, <2>4 DEF BundlesLead
<1> QED BY <1>1, MmInvariance, PTL

\* A set with at most one element has one exactly when the frame is there.
LEMMA AtMostOne ==
  ASSUME NEW S, \A x, y \in S : x = y, NEW b \in BOOLEAN, b <=> S # {}
  PROVE  Cardinality(S) = One(b)
<1>1. CASE S = {}
  BY <1>1, FS_EmptySet DEF One
<1>2. CASE S # {}
  <2>1. PICK x : x \in S
    BY <1>2
  <2>2. S = {x}
    BY <2>1
  <2>3. Cardinality({x}) = 1
    BY FS_Singleton
  <2> QED BY <1>2, <2>2, <2>3 DEF One
<1> QED BY <1>1, <1>2

\* Of six places without a frame in common, a frame is in one at most.
LEMMA OneOfSix ==
  ASSUME NEW A, NEW B, NEW C, NEW D, NEW E, NEW G, Apart6(A, B, C, D, E, G), NEW f
  PROVE  One(f \in A) + One(f \in B) + One(f \in C) + One(f \in D) + One(f \in E) + One(f \in G)
           = One(f \in A \cup B \cup C \cup D \cup E \cup G)
<1>1. CASE f \in A
  BY <1>1 DEF Apart6, One
<1>2. CASE f \in B
  BY <1>2 DEF Apart6, One
<1>3. CASE f \in C
  BY <1>3 DEF Apart6, One
<1>4. CASE f \in D
  BY <1>4 DEF Apart6, One
<1>5. CASE f \in E
  BY <1>5 DEF Apart6, One
<1>6. CASE f \in G
  BY <1>6 DEF Apart6, One
<1>7. CASE f \notin A \cup B \cup C \cup D \cup E \cup G
  BY <1>7 DEF One
<1> QED BY <1>1, <1>2, <1>3, <1>4, <1>5, <1>6, <1>7

\* The channel's references to a frame: one, if it is anywhere.
LEMMA ChannelRefsAre ==
  ASSUME MmIndInv, NEW s \in Streams, NEW n \in FrameNos
  PROVE  ChannelRefs(s, n) = One(<<s, n>> \in Placed)
<1>0. MmTypeOK /\ OnePlace /\ PhaseInv /\ QueueInv
  BY DEF MmIndInv
<1> DEFINE f == <<s, n>>
           S1 == {i \in DOMAIN mmCmds : mmCmds[i].cmd = "DATA" /\ mmCmds[i].s = s /\ mmCmds[i].n = n}
           S2 == {i \in DOMAIN superQ.que : superQ.que[i].bufs[s] = n}
           S3 == {i \in DOMAIN cbCmds : cbCmds[i][s] = n}
           S4 == {bufs \in withHal : bufs[s] = n}
           S5 == forgotten \cap {f}
           S6 == leaked \cap {f}
<1>1. f \in AllFrames /\ f[1] = s /\ f[2] = n /\ n # 0
  BY DEF AllFrames, FrameNos
<1>2. Cardinality(S1) = One(f \in CmdFrames(mmCmds))
  <2>1. DOMAIN mmCmds = 1 .. Len(mmCmds)
    BY <1>0, LenProperties DEF MmTypeOK
  <2>2. \A i \in 1 .. Len(mmCmds) : i \in S1 <=> Brings(mmCmds[i], f)
    BY <1>1, <2>1 DEF Brings
  <2>3. S1 \subseteq 1 .. Len(mmCmds)
    BY <2>1
  <2> HIDE DEF S1, f
  <2>4. \A x, y \in S1 : x = y
    BY <1>0, <1>1, <2>2, <2>3 DEF OnePlace, Once
  <2>5. (f \in CmdFrames(mmCmds)) <=> S1 # {}
    BY <1>1, <2>2, <2>3 DEF CmdFrames
  <2> DEFINE b == f \in CmdFrames(mmCmds)
  <2>6. b \in BOOLEAN /\ (b <=> S1 # {})
    BY <2>5
  <2> HIDE DEF b
  <2>7. Cardinality(S1) = One(b)
    BY <2>4, <2>6, AtMostOne
  <2> QED BY <2>7 DEF b
<1>3. Cardinality(S2) = One(f \in FramesOf(superQ.que))
  <2> DEFINE que == superQ.que
  <2>1. que \in Seq(SuperBuf)
    BY <1>0 DEF MmTypeOK, SuperQs
  <2>2. Sole(que)
    <3>1. CASE halPc = "closed"
      <4>1. que = << >>
        BY <1>0, <3>1 DEF PhaseInv
      <4> QED BY <4>1, EmptyQueue DEF Sound
    <3>2. CASE halPc # "closed"
      BY <1>0, <3>2 DEF QueueInv, Sound
    <3> QED BY <3>1, <3>2
  <2>3. S2 = {i \in DOMAIN que : que[i].bufs[s] = n}
    OBVIOUS
  <2> HIDE DEF que, S2, f
  <2>4. DOMAIN que = 1 .. Len(que) /\ FramesOf(que) = FramesIn(que, 1, Len(que))
    BY <2>1, LenProperties, FramesAre
  <2>5. S2 \subseteq 1 .. Len(que) /\ \A i \in 1 .. Len(que) : i \in S2 <=> que[i].bufs[s] = n
    BY <2>3, <2>4
  <2>6. \A x, y \in S2 : x = y
    BY <1>1, <2>2, <2>5 DEF Sole
  <2>7. (f \in FramesOf(que)) <=> S2 # {}
    BY <1>1, <2>4, <2>5 DEF FramesIn
  <2> DEFINE b == f \in FramesOf(que)
  <2>8. b \in BOOLEAN /\ (b <=> S2 # {})
    BY <2>7
  <2> HIDE DEF b
  <2>9. Cardinality(S2) = One(b)
    BY <2>6, <2>8, AtMostOne
  <2> QED BY <2>9 DEF b, que
<1>4. Cardinality(S3) = One(f \in CbFrames(cbCmds))
  <2>1. DOMAIN cbCmds = 1 .. Len(cbCmds)
    BY <1>0, LenProperties DEF MmTypeOK
  <2>2. S3 \subseteq 1 .. Len(cbCmds) /\ \A i \in 1 .. Len(cbCmds) : i \in S3 <=> cbCmds[i][s] = n
    BY <2>1
  <2> HIDE DEF S3, f
  <2>4. \A x, y \in S3 : x = y
    BY <1>0, <2>2 DEF OnePlace, Pairwise
  <2>5. (f \in CbFrames(cbCmds)) <=> S3 # {}
    BY <1>1, <2>2 DEF CbFrames
  <2> DEFINE b == f \in CbFrames(cbCmds)
  <2>6. b \in BOOLEAN /\ (b <=> S3 # {})
    BY <2>5
  <2> HIDE DEF b
  <2>7. Cardinality(S3) = One(b)
    BY <2>4, <2>6, AtMostOne
  <2> QED BY <2>7 DEF b
<1>5. Cardinality(S4) = One(f \in HalFrames(withHal))
  <2>1. S4 \subseteq withHal /\ \A w \in withHal : w \in S4 <=> w[s] = n
    OBVIOUS
  <2> HIDE DEF S4, f
  <2>4. \A x, y \in S4 : x = y
    BY <1>0, <2>1 DEF OnePlace, Separate
  <2>5. (f \in HalFrames(withHal)) <=> S4 # {}
    BY <1>1, <2>1 DEF HalFrames
  <2> DEFINE b == f \in HalFrames(withHal)
  <2>6. b \in BOOLEAN /\ (b <=> S4 # {})
    BY <2>5
  <2> HIDE DEF b
  <2>7. Cardinality(S4) = One(b)
    BY <2>4, <2>6, AtMostOne
  <2> QED BY <2>7 DEF b
<1>6. Cardinality(S5) = One(f \in forgotten)
  <2> HIDE DEF f
  <2> DEFINE b == f \in forgotten
  <2>1. (\A x, y \in S5 : x = y) /\ b \in BOOLEAN /\ (b <=> S5 # {})
    OBVIOUS
  <2> HIDE DEF b, S5
  <2>2. Cardinality(S5) = One(b)
    BY <2>1, AtMostOne
  <2> QED BY <2>2 DEF b
<1>7. Cardinality(S6) = One(f \in leaked)
  <2> HIDE DEF f
  <2> DEFINE b == f \in leaked
  <2>1. (\A x, y \in S6 : x = y) /\ b \in BOOLEAN /\ (b <=> S6 # {})
    OBVIOUS
  <2> HIDE DEF b, S6
  <2>2. Cardinality(S6) = One(b)
    BY <2>1, AtMostOne
  <2> QED BY <2>2 DEF b
<1>8. ChannelRefs(s, n) = Cardinality(S1) + Cardinality(S2) + Cardinality(S3) + Cardinality(S4)
                            + Cardinality(S5) + Cardinality(S6)
  BY Zenon DEF ChannelRefs
<1> DEFINE A == CmdFrames(mmCmds)  B == FramesOf(superQ.que)  C == CbFrames(cbCmds)
           D == HalFrames(withHal)
<1> HIDE DEF S1, S2, S3, S4, S5, S6, f
<1>9. ChannelRefs(s, n) = One(f \in A) + One(f \in B) + One(f \in C) + One(f \in D)
                            + One(f \in forgotten) + One(f \in leaked)
  BY <1>2, <1>3, <1>4, <1>5, <1>6, <1>7, <1>8
<1>10. Apart6(A, B, C, D, forgotten, leaked) /\ Placed = A \cup B \cup C \cup D \cup forgotten \cup leaked
  BY <1>0 DEF OnePlace, Placed
<1> HIDE DEF A, B, C, D
<1>11. One(f \in A) + One(f \in B) + One(f \in C) + One(f \in D) + One(f \in forgotten) + One(f \in leaked)
         = One(f \in A \cup B \cup C \cup D \cup forgotten \cup leaked)
  BY <1>10, OneOfSix
<1>12. ChannelRefs(s, n) = One(f \in Placed)
  BY <1>9, <1>10, <1>11
<1> QED BY <1>12 DEF f

\* While a stream runs, the reference count of each of its frames is the number
\* of places that will give it back, so no buffer returns to the kernel while
\* somebody reads it and none is given back twice; frames are lost only where
\* the code says so.  For any number of buffers, frames and commands, any limits
\* and any order of the poll, command, callback and HAL threads.
THEOREM ReferencesAreCounted == Spec => []RefsCounted
<1>1. MmIndInv => RefsCounted
  <2> SUFFICES ASSUME MmIndInv PROVE RefsCounted
    OBVIOUS
  <2>0. CountInv /\ LossInv
    BY DEF MmIndInv
  <2>1. ASSUME NEW s \in Streams, NEW n \in FrameNos, Streaming(s)
        PROVE  refcnt[s][n] = ChannelRefs(s, n) + StreamRefs(s, n)
    BY <2>0, <2>1, ChannelRefsAre DEF CountInv
  <2> QED BY <2>0, <2>1 DEF RefsCounted, LossInv, FrameNos
<1> QED BY <1>1, MmInvariance, PTL
=============================================================================
