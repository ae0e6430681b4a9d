----------------------------- MODULE MmChannel -----------------------------
(***************************************************************************)
(* A channel of mm-camera-interface (mm_camera_channel.c and               *)
(* mm_camera_stream.c): the frames of two streams, pictures and metadata,  *)
(* are matched by frame number into superbuffers.  Poll threads take       *)
(* frames from the kernel and send them to the channel's command thread,   *)
(* which alone touches the queue of superbuffers; complete ones go through *)
(* the callback thread to the HAL, whose threads give the buffers back.    *)
(* Every buffer has a reference count and returns to the kernel at zero.   *)
(*                                                                         *)
(* A frame is a stream and a running number n; its frame_idx is Idx(n),    *)
(* as the sensor may start its numbering anew.  The channel is the ZSL     *)
(* channel, which keeps superbuffers until the HAL requests some and has a *)
(* metadata stream of its own, or the channel of live snapshots, which     *)
(* hands over every match and borrows the metadata stream of the preview   *)
(* channel (a linked stream).                                              *)
(***************************************************************************)
EXTENDS QCameraQueue, FiniteSetsExt, SequencesExt

CONSTANTS NumBufs,        \* buffers of each stream
          MaxFrame,       \* bound: frames of each stream
          MaxCmds,        \* bound: requests and flushes of the HAL
          MaxRequest,     \* the largest request
          water_mark, look_back, post_frame_skip, max_unmatched_frames,
          Resets          \* where the numbering may start anew; 0 is never

ASSUME MmAssumption ==
  /\ NumBufs \in Nat \ {0} /\ MaxFrame \in Nat /\ MaxCmds \in Nat /\ MaxRequest \in Nat
  /\ {water_mark, look_back, post_frame_skip, max_unmatched_frames} \subseteq Nat
  /\ Resets \subseteq 0 .. MaxFrame

VARIABLES chType, resetAt,     \* what kind of channel, and of sensor, this is
          sensor,              \* the last frame of each stream
          refcnt,              \* references to each frame's buffer
          pollPc,              \* app: the stream's callback of metadata is not told yet
          appData,             \* metadata frames with the stream's own callback
          mmCmds,              \* cmd_thread.cmd_queue of the channel
          superQ,              \* superbuf_queue, match_cnt, expected_frame_id
          pending_cnt,
          cbCmds,              \* cb_thread.cmd_queue
          withHal,             \* superbuffers in the hands of the HAL
          halCmds,             \* history: commands of the HAL so far
          halPc,               \* a HAL thread that flushes or stops the channel
          forgotten,           \* history: frames the queue dropped unreleased
          leaked               \* history: frames the HAL could not give back

histVars == <<forgotten, leaked>>
cmdVars == <<superQ, pending_cnt, cbCmds>>
mmVars == <<chType, resetAt, sensor, refcnt, pollPc, appData, mmCmds, cmdVars, withHal,
            halCmds, halPc, histVars>>

Streams == {"snap", "meta"}
Linked == chType = "live"
notify_mode == IF Linked THEN "CONTINUOUS" ELSE "BURST"
Idx(n) == IF resetAt # 0 /\ n >= resetAt THEN n - resetAt + 1 ELSE n
Later == MaxFrame + 1      \* stands for an expected_frame_id far in the future

\* mm_channel_start() has started the streams; all buffers are in the kernel.
MmInit ==
  /\ chType \in {"zsl", "live"} /\ resetAt \in Resets
  /\ sensor = [s \in Streams |-> 0]
  /\ refcnt = [s \in Streams |-> [n \in 1 .. MaxFrame |-> 0]]
  /\ pollPc = "idle"
  /\ appData = {} /\ mmCmds = << >> /\ cbCmds = << >> /\ withHal = {}
  /\ superQ = [que |-> << >>, match_cnt |-> 0, expected |-> 0, stuck |-> FALSE]
  /\ pending_cnt = 0 /\ halCmds = 0 /\ halPc = "run" /\ forgotten = {} /\ leaked = {}
-----------------------------------------------------------------------------
(* Streams and their buffers.                                               *)

\* The pictures stop first; borrowed metadata goes on.
Streaming(s) ==
  IF s = "meta" THEN Linked \/ halPc \in {"run", "flush", "snapStopped"}
  ELSE halPc \in {"run", "flush", "unlinked", "flushed"}

\* mm_channel_qbuf() finds the stream; the HAL has struck a linked one from
\* its list before (QCameraChannel::bufDone()).
ChannelReaches(s) == Streaming(s) /\ (s = "meta" /\ Linked => halPc \in {"run", "unlinked"})
HalReaches(s) == Streaming(s) /\ (s = "meta" /\ Linked => halPc = "run")

\* buf_done(): one reference less for each frame of a set.
BufDone(frames) ==
  [s \in Streams |-> [n \in 1 .. MaxFrame |->
     IF <<s, n>> \in frames /\ refcnt[s][n] > 0 THEN refcnt[s][n] - 1 ELSE refcnt[s][n]]]

\* The frames of a stream whose buffers are not in the kernel.
Out(s) == {n \in 1 .. MaxFrame : refcnt[s][n] > 0}

\* read_msm_frame(), data_notify() and handle_rcvd_buf(): the references of
\* the channel and of the stream's callback are counted before either is
\* told, the channel first.  A channel that borrows the stream is told only
\* while it is linked, under the lock that unlinking takes.  The streams of
\* one channel share a poll thread.
data_notify(s, n) ==
  LET borrowed == s = "meta" /\ Linked
      told == ~borrowed \/ halPc = "run"
  IN
  /\ Streaming(s) /\ (pollPc = "idle" \/ (s = "snap" /\ Linked))
  /\ n \in sensor[s] + 1 .. MaxFrame /\ Cardinality(Out(s)) < NumBufs
  /\ sensor' = [sensor EXCEPT ![s] = n]
  /\ refcnt' = [refcnt EXCEPT ![s][n] = (IF told THEN 1 ELSE 0) + (IF s = "meta" THEN 1 ELSE 0)]
  /\ mmCmds' = IF told THEN enqueue(mmCmds, [cmd |-> "DATA", s |-> s, n |-> n]) ELSE mmCmds
  /\ pollPc' = IF s = "meta" THEN "app" ELSE pollPc
  /\ UNCHANGED <<chType, resetAt, appData, cmdVars, withHal, halCmds, halPc, histVars>>

\* Then the thread of the stream's own callback.
notify_app ==
  /\ pollPc = "app"
  /\ appData' = appData \cup {sensor["meta"]}
  /\ pollPc' = "idle"
  /\ UNCHANGED <<chType, resetAt, sensor, refcnt, mmCmds, cmdVars, withHal, halCmds, halPc, histVars>>

\* dispatch_app_data(): the callback has ended and given its frame back.
dispatch_app_data(n) ==
  /\ n \in appData
  /\ appData' = appData \ {n}
  /\ refcnt' = BufDone({<<"meta", n>>})
  /\ UNCHANGED <<chType, resetAt, sensor, pollPc, mmCmds, cmdVars, withHal, halCmds, halPc, histVars>>
-----------------------------------------------------------------------------
(* The queue of superbuffers.  A superbuffer has a slot for each stream, 0  *)
(* when empty, and is matched when none is.  An operation takes and gives a *)
(* record of the queue, the frames it releases and those it forgets.        *)

Matched(b) == \A s \in Streams : b.bufs[s] # 0
FramesOf(que) == UNION {{<<s, que[i].bufs[s]>> : s \in {t \in Streams : que[i].bufs[t] # 0}} :
                          i \in DOMAIN que}
Unmatched(que) == {i \in DOMAIN que : ~Matched(que[i])}

\* The number of matched superbuffers that dequeue() can give.
Lead(que) == IF Unmatched(que) = {} THEN Len(que) ELSE Min(Unmatched(que)) - 1

DropFirst(r, k) ==
  [r EXCEPT !.q.que = SubSeq(@, k + 1, Len(@)), !.q.match_cnt = @ - k,
            !.free = @ \cup FramesOf(SubSeq(r.q.que, 1, k))]

\* bufdone_overflow() and skip(): they run until match_cnt is down to the
\* limit, and for ever, the lock held, when the queue cannot give as many.
Trim(r, limit) ==
  IF notify_mode = "CONTINUOUS" \/ r.q.match_cnt <= limit THEN r
  ELSE IF r.q.match_cnt - limit <= Lead(r.q.que) THEN DropFirst(r, r.q.match_cnt - limit)
  ELSE [DropFirst(r, Lead(r.q.que)) EXCEPT !.q.stuck = TRUE]

\* flush(): everything leaves, the frames of the given streams are released.
Flush(r, streams) ==
  LET all == FramesOf(r.q.que) IN
  [r EXCEPT !.q.que = << >>,
            !.q.match_cnt = @ - (Len(r.q.que) - Cardinality(Unmatched(r.q.que))),
            !.free = @ \cup {f \in all : f[1] \in streams},
            !.over = @ \cup {f \in all : f[1] \notin streams}]

FlushMatched(r) == DropFirst(r, Lead(r.q.que))

\* handle_metadata(): what one metadata frame tells about the frames to come.
\* The expected one may move anywhere (good), or far away until a later frame
\* tells more: at once (future) or once the matched ones are gone (waiting).
Metadata == [kind : {"plain", "future", "waiting", "invalid"}, good : {0}]
              \cup [kind : {"good"}, good : 1 .. Later]

handle_metadata(r, s, n, m) ==
  LET r1 == IF s = "meta" /\ n = resetAt
            THEN [Flush(r, Streams) EXCEPT !.q.expected = 1] ELSE r IN
  CASE m.kind = "future"  -> [Flush(r1, Streams) EXCEPT !.q.expected = Later]
    [] m.kind = "good"    -> [r1 EXCEPT !.q.expected = m.good]
    [] m.kind = "waiting" -> [FlushMatched(r1) EXCEPT !.q.expected = Later]
    [] OTHER -> r1

Release(r, s, n) == [r EXCEPT !.free = @ \cup {<<s, n>>}]

\* Mutant: older unmatched superbuffers stay in front of a match.
NoneOlder(que, p, n) == {}

\* The unmatched superbuffers in front of p that wait for an older frame.
OlderBefore(que, p, n) == {i \in Unmatched(que) : i < p /\ que[i].idx < Idx(n)}

\* The frame completes, or joins, the superbuffer at p, which it overwrites
\* if its slot is taken; older unmatched superbuffers give way to a match.
Join(r, s, n, p) ==
  LET que  == r.q.que
      b    == [que[p] EXCEPT !.bufs[s] = n]
      old  == OlderBefore(que, p, n)
      from == IF old = {} THEN p ELSE Min(old)
      r1   == [r EXCEPT !.q.que[p] = b,
                        !.over = @ \cup IF que[p].bufs[s] = 0 THEN {} ELSE {<<s, que[p].bufs[s]>>}]
  IN IF ~Matched(b) THEN r1
     ELSE [r1 EXCEPT !.q.que = SubSeq(que, 1, from - 1) \o <<b>> \o SubSeq(que, p + 1, Len(que)),
                     !.q.expected = Idx(n) + post_frame_skip,
                     !.q.match_cnt = @ + 1,
                     !.free = @ \cup FramesOf(SubSeq(que, from, p - 1))]

\* It starts a superbuffer, before the first unmatched one with a larger
\* number; when there are too many, the first that is older is released, or
\* else the frame itself.
Insert(r, s, n) ==
  LET que   == r.q.que
      old   == {i \in Unmatched(que) : que[i].idx < Idx(n)}
      full  == Cardinality(Unmatched(que)) > max_unmatched_frames
      kept  == IF full THEN RemoveAt(que, Min(old)) ELSE que
      large == {i \in Unmatched(kept) : kept[i].idx > Idx(n)}
      b     == [idx |-> Idx(n), bufs |-> [t \in Streams |-> IF t = s THEN n ELSE 0]]
  IN IF full /\ old = {} THEN Release(r, s, n)
     ELSE [r EXCEPT !.q.que = IF large = {} THEN Append(kept, b) ELSE InsertAt(kept, Min(large), b),
                    !.free = @ \cup IF full THEN FramesOf(<<que[Min(old)]>>) ELSE {}]

comp_and_enqueue(r, s, n, m) ==
  LET r1  == handle_metadata(r, s, n, m)
      hit == {i \in Unmatched(r1.q.que) : r1.q.que[i].idx = Idx(n)}
  IN CASE m.kind = "invalid" \/ Idx(n) < r1.q.expected -> Release(r1, s, n)
       [] OTHER -> IF hit = {} THEN Insert(r1, s, n) ELSE Join(r1, s, n, Min(hit))
-----------------------------------------------------------------------------
(* The channel's command thread.                                            *)

Start == [q |-> superQ, free |-> {}, over |-> {}]

\* What the operations released and forgot.
Settle(r) ==
  /\ refcnt' = BufDone({f \in r.free : ChannelReaches(f[1])})
  /\ forgotten' = forgotten \cup r.over \cup {f \in r.free : ~ChannelReaches(f[1])}
  /\ UNCHANGED leaked

\* The end of process_stream_buf(): superbuffers above the water mark go back
\* and, as long as some are wanted, matched ones go to the callback thread.
Dispatch(r, pending) ==
  LET t == Trim(r, water_mark)
      k == IF notify_mode = "CONTINUOUS" THEN Lead(t.q.que) ELSE Min({pending, Lead(t.q.que)})
  IN /\ Settle(t)
     /\ superQ' = DropFirst(t, k).q
     /\ cbCmds' = cbCmds \o [i \in 1 .. k |-> t.q.que[i].bufs]
     /\ pending_cnt' = IF notify_mode = "BURST" THEN pending - k ELSE pending

process_stream_buf ==
  /\ mmCmds # << >> /\ ~superQ.stuck
  /\ mmCmds' = Tail(mmCmds)
  /\ LET c == Head(mmCmds) IN
     \/ /\ c.cmd = "DATA"
        /\ \E m \in Metadata :
             /\ m.kind # "plain" => c.s = "meta" /\ (Linked => m.kind = "invalid")
             /\ Dispatch(comp_and_enqueue(Start, c.s, c.n, m), pending_cnt)
        /\ UNCHANGED halPc
     \/ /\ c.cmd = "REQ"
        /\ Dispatch(Trim(Start, look_back), c.n)
        /\ UNCHANGED halPc
     \/ /\ c.cmd = "FLUSH"
        /\ LET r == Flush(Start, c.s) IN
             /\ Settle(r)
             /\ superQ' = [r.q EXCEPT !.expected = c.n]
        /\ halPc' = IF halPc = "flush" THEN "run" ELSE "flushed"
        /\ UNCHANGED <<cbCmds, pending_cnt>>
  /\ UNCHANGED <<chType, resetAt, sensor, pollPc, appData, withHal, halCmds>>

\* dispatch_super_buf(): the callback thread calls the HAL.
dispatch_super_buf ==
  /\ cbCmds # << >>
  /\ cbCmds' = Tail(cbCmds)
  /\ withHal' = withHal \cup {Head(cbCmds)}
  /\ UNCHANGED <<chType, resetAt, sensor, refcnt, pollPc, appData, mmCmds, superQ, pending_cnt,
                 halCmds, halPc, histVars>>
-----------------------------------------------------------------------------
(* The HAL.                                                                 *)

\* QCameraChannel::bufDone() of a superbuffer that is no longer needed.
HalBufDone(bufs) ==
  /\ bufs \in withHal
  /\ withHal' = withHal \ {bufs}
  /\ refcnt' = BufDone({<<s, bufs[s]>> : s \in {t \in Streams : HalReaches(t)}})
  /\ leaked' = leaked \cup {<<s, bufs[s]>> : s \in {t \in Streams : ~HalReaches(t)}}
  /\ UNCHANGED <<chType, resetAt, sensor, pollPc, appData, mmCmds, cmdVars, halCmds, halPc,
                 forgotten>>

\* request_super_buf(), and with 0 cancel_super_buf_request().
request_super_buf(n) ==
  /\ halPc = "run" /\ ~Linked /\ halCmds < MaxCmds
  /\ halCmds' = halCmds + 1
  /\ mmCmds' = enqueue(mmCmds, [cmd |-> "REQ", n |-> n])
  /\ UNCHANGED <<chType, resetAt, sensor, refcnt, pollPc, appData, cmdVars, withHal, halPc, histVars>>

\* flush_super_buf_queue() when the lens has found its focus; it waits.
flush_super_buf_queue(n) ==
  /\ halPc = "run" /\ ~Linked /\ halCmds < MaxCmds
  /\ halCmds' = halCmds + 1
  /\ mmCmds' = enqueue(mmCmds, [cmd |-> "FLUSH", n |-> n, s |-> Streams])
  /\ halPc' = "flush"
  /\ UNCHANGED <<chType, resetAt, sensor, refcnt, pollPc, appData, cmdVars, withHal, histVars>>

\* Mutant: the borrowed stream is forgotten with frames of it in the queue.
UnlinkUnflushed ==
  /\ halPc = "run" /\ Linked
  /\ halPc' = "flushed"
  /\ UNCHANGED <<chType, resetAt, sensor, refcnt, pollPc, appData, mmCmds, cmdVars, withHal,
                 halCmds, histVars>>

\* mm_channel_stop() gives the borrowed stream up first: no frame of it is
\* sent any more, and those in the queue go back before it is forgotten.
unlink_stream ==
  /\ halPc = "run" /\ Linked
  /\ halPc' = "unlinked"
  /\ mmCmds' = enqueue(mmCmds, [cmd |-> "FLUSH", n |-> 0, s |-> {"meta"}])
  /\ UNCHANGED <<chType, resetAt, sensor, refcnt, pollPc, appData, cmdVars, withHal, halCmds, histVars>>

\* A stream of its own is stopped: the poll thread lets it go, the thread of
\* its callback ends with its work done, and no buffer has references left.
stop_stream(s) ==
  /\ ~(s = "meta" /\ Linked)
  /\ halPc = CASE s = "meta" -> "snapStopped" [] Linked -> "flushed" [] OTHER -> "run"
  /\ s = "meta" => pollPc = "idle" /\ appData = {}
  /\ halPc' = IF s = "meta" \/ Linked THEN "stopped" ELSE "snapStopped"
  /\ refcnt' = [refcnt EXCEPT ![s] = [n \in 1 .. MaxFrame |-> 0]]
  /\ UNCHANGED <<chType, resetAt, sensor, pollPc, appData, mmCmds, cmdVars, withHal, halCmds, histVars>>

\* The command and callback threads end with empty queues; what is left of
\* the superbuffers is freed, but still counted in match_cnt.
stop_threads ==
  /\ halPc = "stopped" /\ mmCmds = << >> /\ cbCmds = << >> /\ ~superQ.stuck
  /\ halPc' = "closed"
  /\ superQ' = [superQ EXCEPT !.que = << >>]
  /\ UNCHANGED <<chType, resetAt, sensor, refcnt, pollPc, appData, mmCmds, pending_cnt, cbCmds,
                 withHal, halCmds, histVars>>

MmNext ==
  \/ \E s \in Streams : \/ \E n \in 1 .. MaxFrame : data_notify(s, n)
                        \/ stop_stream(s)
  \/ notify_app
  \/ \E n \in appData : dispatch_app_data(n)
  \/ process_stream_buf \/ dispatch_super_buf
  \/ \E bufs \in withHal : HalBufDone(bufs)
  \/ \E n \in 0 .. MaxRequest : request_super_buf(n)
  \/ \E n \in 1 .. MaxFrame : flush_super_buf_queue(n)
  \/ unlink_stream \/ stop_threads
-----------------------------------------------------------------------------
\* Until the channel is closed, matched superbuffers lead the queue and
\* match_cnt is their number, so the loops of overflow and skip end; a burst
\* channel never holds more than the water mark after a command, nor more than
\* one unmatched superbuffer above the limit; unless the numbering starts anew,
\* a superbuffer the HAL gets holds the picture and the metadata of one and the
\* same frame (mm_channel_superbuf_comp_and_enqueue,
\* mm_channel_superbuf_bufdone_overflow).
BundlesLead ==
  /\ ~superQ.stuck
  /\ halPc # "closed" =>
       /\ superQ.match_cnt = Lead(superQ.que)
       /\ superQ.match_cnt + Cardinality(Unmatched(superQ.que)) = Len(superQ.que)
  /\ notify_mode = "BURST" => superQ.match_cnt <= water_mark
  /\ Cardinality(Unmatched(superQ.que)) <= max_unmatched_frames + 1
  /\ resetAt = 0 =>
       /\ \A i \in DOMAIN cbCmds : cbCmds[i]["snap"] = cbCmds[i]["meta"]
       /\ \A bufs \in withHal : bufs["snap"] = bufs["meta"]

\* The channel's references to a frame.
ChannelRefs(s, n) ==
  Cardinality({i \in DOMAIN mmCmds : mmCmds[i].cmd = "DATA" /\ mmCmds[i].s = s /\ mmCmds[i].n = n})
    + Cardinality({i \in DOMAIN superQ.que : superQ.que[i].bufs[s] = n})
    + Cardinality({i \in DOMAIN cbCmds : cbCmds[i][s] = n})
    + Cardinality({bufs \in withHal : bufs[s] = n})
    + Cardinality(forgotten \cap {<<s, n>>}) + Cardinality(leaked \cap {<<s, n>>})

\* The references of the poll thread and of the stream's callback.
StreamRefs(s, n) ==
  IF s = "meta" /\ (n \in appData \/ (pollPc = "app" /\ n = sensor[s])) THEN 1 ELSE 0

\* While a stream runs, the reference count of every frame is the number of
\* places that will give it back, so no buffer returns to the kernel while
\* somebody reads it and none is given back twice.  The queue drops a frame
\* without giving it back only after the numbering has started anew, or a
\* picture just before its stream is stopped; the HAL fails to give one back
\* only to a metadata stream it no longer borrows (mm_stream_buf_done,
\* mm_stream_handle_rcvd_buf, mm_channel_stop).
RefsCounted ==
  /\ \A s \in Streams, n \in 1 .. MaxFrame :
       Streaming(s) => refcnt[s][n] = ChannelRefs(s, n) + StreamRefs(s, n)
  /\ \A f \in forgotten :
       Streaming(f[1]) => resetAt # 0 \/ (f[1] = "snap" /\ halPc = "flushed")
  /\ \A f \in leaked : Streaming(f[1]) => f[1] = "meta" /\ Linked /\ halPc # "run"
=============================================================================
