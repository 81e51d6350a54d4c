----------------------------- MODULE GslDataPath -----------------------------
(***************************************************************************)
(* The data path of a graph (gsl/src/gsl_datapath.c) with the calls of     *)
(* gsl_graph.c around it: gsl_graph_read and gsl_graph_write on the        *)
(* client's threads, the buffer-done handlers on GPR's thread, and start,  *)
(* stop, flush, close and configure on the thread that controls the graph. *)
(*                                                                         *)
(* Each direction has a ring of data buffers.  A buffer whose bit is set   *)
(* in buff_used_status is on its way to SPF, there, or on its way back; the*)
(* client takes them in turn from curr_buff_index and, in the blocking     *)
(* mode, sleeps on dp_signal when the next one is not back.  Out-of-band   *)
(* metadata goes along in a second ring.  In the shared memory mode the    *)
(* client owns the buffers and only the second ring is used.               *)
(***************************************************************************)
EXTENDS Integers, Sequences, FiniteSets, SequencesExt

CONSTANTS
  NumBuffs,    \* config.num_buffs of both directions
  Scenarios,   \* the configurations clients choose, and what may go wrong with each
  MaxRetries,  \* GSL_MAX_RETRIES
  MaxChunks,   \* bound: how many buffers one call moves
  MaxFaults    \* bound: how many kinds of faults in one behaviour

Dir == {"read", "write"}
Buff == 0 .. NumBuffs - 1
MdSize == 2 * NumBuffs       \* md_buff_list_size
NoMd == MdSize               \* sent without metadata
Format == MdSize + 1         \* no data but a media format, which has none either
Config == [mode : {"NONE", "BLOCKING", "NON_BLOCKING", "SHMEM"},
           shmem : BOOLEAN,  \* is_shmem_supported
           md : BOOLEAN,     \* max_metadata_size > 0, and the client passes metadata
           formats : BOOLEAN] \* the client writes media formats, too
Fault == {"SEND", "TIMEOUT", "WAIT", "SSR", "STOP", "REORDER", "CONFIG", "EARLY"}

ASSUME NumBuffsType == NumBuffs \in Nat \ {0}
ASSUME ScenariosType == Scenarios \subseteq [conf : [Dir -> Config], faults : SUBSET Fault]
ASSUME RetriesType == MaxRetries \in Nat /\ MaxChunks \in Nat \ {0}
ASSUME FaultsType == MaxFaults \in Nat

VARIABLES
  scenario, \* [conf, faults], fixed
  dp,       \* [Dir -> record]: struct gsl_data_path_info
  held,     \* [Dir -> sequence]: buffers sent and not yet taken back by GPR's thread
  slot,     \* [Buff -> entry]: the metadata last sent with a read buffer
  packet,   \* [Dir -> [Buff -> state]]: gsl_msg.payload without shared memory
  call,     \* [Dir -> record]: the client thread of the direction
  done,     \* the handler of a returned buffer on GPR's thread
  ctrl,     \* the thread that controls the graph
  graph,    \* [state, trans_sig]: graph_state and trans_state_change_sig
  gave_up   \* history: what has gone wrong so far

vars == <<scenario, dp, held, slot, packet, call, done, ctrl, graph, gave_up>>
buffers == <<held, slot, packet>>

NewDataPath == [used |-> {}, curr |-> 0, head |-> 0, tail |-> 0, acked |-> 0,
                signalled |-> FALSE, flags |-> {}]
IdleCall == [pc |-> "idle", buf |-> 0, md |-> NoMd, left |-> 0, tries |-> 0, rc |-> "OK"]
IdleDone == [pc |-> "idle", dir |-> "read", buf |-> 0]
IdleCtrl == [op |-> "none", pc |-> "idle", dir |-> "read", turn |-> 0, buf |-> 0, md |-> NoMd]

Init ==
  /\ scenario \in Scenarios
  /\ dp = [d \in Dir |-> NewDataPath]
  /\ held = [d \in Dir |-> <<>>]
  /\ slot = [b \in Buff |-> NoMd]
  /\ packet = [d \in Dir |-> [b \in Buff |-> "none"]]
  /\ call = [d \in Dir |-> IdleCall]
  /\ done = IdleDone /\ ctrl = IdleCtrl
  /\ graph = [state |-> "OPENED", trans_sig |-> FALSE]
  /\ gave_up = {}

conf == scenario.conf
Faults == scenario.faults

\* A direction that is not configured has no buffers.
Used(d) == conf[d].mode # "NONE"
Heap(d) == conf[d].mode \in {"BLOCKING", "NON_BLOCKING"}
Blocking(d) == conf[d].mode = "BLOCKING"
HasMd(d) == Used(d) /\ conf[d].shmem /\ conf[d].md
HasFormats(d) == d = "write" /\ conf[d].shmem /\ conf[d].formats
Down == graph.state = "ERROR"
Closed == graph.state = "CLOSED"
May(fault) == fault \in Faults /\ Cardinality((gave_up \ {"CLEAR"}) \cup {fault}) <= MaxFaults
HeldBuffs(d) == {e.buff : e \in Range(held[d])}

-----------------------------------------------------------------------------
(* Operations on struct gsl_data_path_info, each under its lock. *)

\* gsl_find_next_avail_buffer: only the buffer at curr_buff_index is tried.
IsAvail(r) == r.curr \notin r.used

Taken(r) == [r EXCEPT !.used = @ \cup {r.curr}, !.curr = (@ + 1) % NumBuffs]

\* Mutant of MarkedAvail: the bit of the next buffer is cleared.
MarkedNextAvail(r, b) == [r EXCEPT !.used = @ \ {(b + 1) % NumBuffs}]

\* gsl_mark_buffer_as_avail.
MarkedAvail(r, b) == [r EXCEPT !.used = @ \ {b}]

\* gsl_enqueue_internal_md_buff, gsl_dequeue_internal_md_buff (which does nothing on
\* an empty ring), gsl_store_md_status_from_spf and gsl_clear_internal_md_buff.
MdFull(r) == (r.head + 1) % MdSize = r.tail

Enqueued(r) == IF MdFull(r) THEN r ELSE [r EXCEPT !.head = (@ + 1) % MdSize]
NextEntry(r) == IF MdFull(r) THEN NoMd ELSE r.head
Dequeued(r) == IF r.tail = r.head THEN r ELSE [r EXCEPT !.tail = (@ + 1) % MdSize]
Acked(r) == [r EXCEPT !.acked = (@ + 1) % MdSize]

\* Mutant of MdCleared: the index of the entries SPF has filled stays.
MdClearedNotAcked(r) == [r EXCEPT !.head = 0, !.tail = 0]
MdCleared(r) == [r EXCEPT !.head = 0, !.tail = 0, !.acked = 0]

\* gsl_signal_set and what gsl_signal_timedwait takes.  Without buffers, and in the
\* shared memory mode, nobody ever waits for it: that it is set is left out.
Signalled(d, f) ==
  IF Heap(d) THEN [dp[d] EXCEPT !.signalled = TRUE, !.flags = @ \cup f] ELSE dp[d]
Woken(r) == [r EXCEPT !.signalled = FALSE, !.flags = {}]

\* gsl_find_next_avail_buffer, called repeatedly, gives out the buffers from
\* curr_buff_index on up to the first that is in use: so many of them.
At(r, i) == (r.curr + i) % NumBuffs
AvailLen(r) == {n \in 0 .. NumBuffs :
                  /\ \A i \in 0 .. n - 1 : At(r, i) \notin r.used
                  /\ n = NumBuffs \/ At(r, n) \in r.used}

-----------------------------------------------------------------------------
(* gsl_graph_read, gsl_graph_write, gsl_dp_read and gsl_dp_write. *)

\* gsl_dp_queue_read_buffers_to_spf is under way, at the end of start or of flush.
Queueing == ctrl.pc \in {"queue", "enqueue", "send"}

\* A client that reads from the heap before start or flush has queued the buffers: it
\* gets one that SPF has not filled, and takes its turn in the ring out of order.
Early(d) == d = "read" /\ Heap(d) /\ (graph.state # "STARTED" \/ Queueing)

\* stop_in_prog and flush_in_prog, which flush has cleared when it queues the buffers.
Refuses == ctrl.op \in {"stop", "flush"} /\ ~Queueing

\* The state of the graph is looked at for an error only.  A client makes no call on a
\* handle it is closing, and in the shared memory mode it passes a buffer of its own.
Begin(d) == \E n \in 1 .. MaxChunks, md \in {NoMd} \cup IF HasFormats(d) THEN {Format} ELSE {} :
  /\ call[d].pc = "idle" /\ ~Refuses /\ ctrl.op # "close" /\ ~Down /\ ~Closed /\ Used(d)
  /\ Heap(d) \/ (n = 1 /\ HeldBuffs(d) # Buff)
  /\ Early(d) => May("EARLY")
  /\ call' = [call EXCEPT ![d] = [IdleCall EXCEPT !.pc = "find", !.md = md, !.left = n]]
  /\ gave_up' = IF Early(d) THEN gave_up \cup {"EARLY"} ELSE gave_up
  /\ UNCHANGED <<scenario, dp, buffers, done, ctrl, graph>>

Ends(d, rc) == call' = [call EXCEPT ![d] = [IdleCall EXCEPT !.pc = "end", !.rc = rc]]

Find(d) ==
  /\ call[d].pc = "find" /\ Heap(d)
  /\ \/ /\ IsAvail(dp[d])
        /\ dp' = [dp EXCEPT ![d] = Taken(@)]
        /\ call' = [call EXCEPT ![d].buf = dp[d].curr, ![d].pc =
             IF HasMd(d) /\ call[d].md # Format THEN "copy" ELSE "send"]
     \/ /\ ~IsAvail(dp[d]) /\ UNCHANGED dp
        /\ IF Blocking(d) THEN call' = [call EXCEPT ![d].pc = "wait"]
                          ELSE Ends(d, "ENORESOURCE")
  /\ UNCHANGED <<scenario, buffers, done, ctrl, graph, gave_up>>

\* gsl_dp_find_buff_from_va.
FindShmem(d) == \E b \in Buff \ HeldBuffs(d) :
  /\ call[d].pc = "find" /\ ~Heap(d)
  /\ call' = [call EXCEPT ![d].buf = b, ![d].pc = IF HasMd(d) THEN "enqueue" ELSE "send"]
  /\ UNCHANGED <<scenario, dp, buffers, done, ctrl, graph, gave_up>>

MayRetry(d) == call[d].tries < MaxRetries

\* gsl_signal_timedwait has returned.
WaitReturns(d) ==
  /\ call[d].pc = "wait" /\ dp[d].signalled
  /\ dp' = [dp EXCEPT ![d] = Woken(@)]
  /\ CASE "CLOSE" \in dp[d].flags -> Ends(d, "EIODATA")
       [] "SSR" \in dp[d].flags /\ "CLOSE" \notin dp[d].flags -> Ends(d, "ESUBSYSRESET")
       [] OTHER -> IF MayRetry(d)
                   THEN call' = [call EXCEPT ![d].pc = "find", ![d].tries = @ + 1]
                   ELSE Ends(d, "ENOMEMORY")
  /\ UNCHANGED <<scenario, buffers, done, ctrl, graph, gave_up>>

WaitTimesOut(d) ==
  /\ call[d].pc = "wait" /\ ~dp[d].signalled /\ "TIMEOUT" \in Faults
  /\ Ends(d, "ETIMEOUT")
  /\ UNCHANGED <<scenario, dp, buffers, done, ctrl, graph, gave_up>>

\* In the heap modes the oldest entry is given back, to read with what SPF stored in
\* it.  If there is none, a read goes on without.
Copy(d) ==
  /\ call[d].pc = "copy"
  /\ dp' = [dp EXCEPT ![d] = Dequeued(@)]
  /\ call' = [call EXCEPT ![d].pc = "enqueue"]
  /\ UNCHANGED <<scenario, buffers, done, ctrl, graph, gave_up>>

\* The entry that goes along with the buffer.  In the shared memory mode one is taken
\* for a media format, too, although SPF is not told of it.  Without room for it a
\* read from the heap goes on without and every other call ends.
Enqueue(d) ==
  /\ call[d].pc = "enqueue"
  /\ dp' = [dp EXCEPT ![d] = Enqueued(@)]
  /\ IF MdFull(dp[d]) /\ ~(Heap(d) /\ d = "read")
     THEN Ends(d, "ENORESOURCE")
     ELSE call' = [call EXCEPT ![d].pc = "send",
                               ![d].md = IF @ = Format THEN @ ELSE NextEntry(dp[d])]
  /\ UNCHANGED <<scenario, buffers, done, ctrl, graph, gave_up>>

\* The packet that brought the data is freed once they are copied; to write, a new
\* packet is put in its place.
PacketUsed(d, b) ==
  IF conf[d].shmem THEN packet
  ELSE [packet EXCEPT ![d][b] = IF d = "read" THEN "freed" ELSE "none"]

\* gsl_dp_write_shmem, gsl_dp_read_shmem and the like, successfully.
SendOk(d) == LET b == call[d].buf md == call[d].md IN
  /\ call[d].pc = "send" /\ ~Down
  /\ held' = [held EXCEPT ![d] = Append(@, [buff |-> b, md |-> md])]
  /\ slot' = IF d = "read" THEN [slot EXCEPT ![b] = md] ELSE slot
  /\ packet' = PacketUsed(d, b)
  /\ IF call[d].left = 1 THEN Ends(d, "OK")
     ELSE call' = [call EXCEPT ![d] = [IdleCall EXCEPT !.pc = "find", !.left = call[d].left - 1,
                                                       !.md = IF md = Format THEN md ELSE NoMd]]
  /\ UNCHANGED <<scenario, dp, done, ctrl, graph, gave_up>>

\* ... or not: the buffer taken is not given back.
SendFails(d) ==
  /\ call[d].pc = "send" /\ (Down \/ May("SEND"))
  /\ packet' = PacketUsed(d, call[d].buf)
  /\ Ends(d, "EFAILED")
  /\ gave_up' = IF Down THEN gave_up ELSE gave_up \cup {"SEND"}
  /\ UNCHANGED <<scenario, dp, held, slot, done, ctrl, graph>>

\* read_in_prog or write_in_prog is cleared and whoever waits for that is told.
End(d) ==
  /\ call[d].pc = "end"
  /\ call' = [call EXCEPT ![d] = IdleCall]
  /\ graph' = [graph EXCEPT !.trans_sig = TRUE]
  /\ UNCHANGED <<scenario, dp, buffers, done, ctrl, gave_up>>

-----------------------------------------------------------------------------
(* GPR's thread: gsl_handle_read_buff_done, gsl_handle_write_buff_done and
   gsl_handle_media_format_buff_done, one packet after the other. *)

\* What is done before the client is told: the status of the metadata is stored in the
\* entry at md_buff_list_acked; in the shared memory mode the oldest entry goes to the
\* client with the buffer it has read.  A media format leaves the ring as it is.
OnPacket(d, e) ==
  CASE ~HasMd(d) \/ e.md = Format \/ d = "write"        -> dp[d]
    [] HasMd(d) /\ e.md # Format /\ d = "read" /\ Heap(d)  -> Acked(dp[d])
    [] HasMd(d) /\ e.md # Format /\ d = "read" /\ ~Heap(d) -> Dequeued(dp[d])

\* A buffer from the heap, and a media format in any mode, is marked and signalled; a
\* write in the shared memory mode gives its entry back once the client knows.
AfterPacket(d, e) ==
  CASE Heap(d) \/ e.md = Format                          -> "mark"
    [] ~Heap(d) /\ e.md # Format /\ d = "write" /\ HasMd(d) -> "free"
    [] ~Heap(d) /\ e.md # Format /\ (d = "read" \/ ~HasMd(d)) -> "idle"

\* SPF returns buffers in the order it got them, or not.
Receive(d) == \E i \in 1 .. Len(held[d]) : LET e == held[d][i] IN
  /\ done.pc = "idle" /\ ~Closed
  /\ i = 1 \/ "REORDER" \in Faults
  /\ dp' = [dp EXCEPT ![d] = OnPacket(d, e)]
  /\ held' = [held EXCEPT ![d] = RemoveAt(@, i)]
  /\ done' = IF AfterPacket(d, e) = "idle" THEN IdleDone
             ELSE [pc |-> AfterPacket(d, e), dir |-> d, buf |-> e.buff]
  /\ UNCHANGED <<scenario, slot, packet, call, ctrl, graph, gave_up>>

\* The end of gsl_handle_write_buff_done: "free oldest metadata shmem buffer if any".
FreeEntry ==
  /\ done.pc = "free" /\ ~Closed
  /\ dp' = [dp EXCEPT ![done.dir] = Dequeued(@)]
  /\ done' = IdleDone
  /\ UNCHANGED <<scenario, buffers, call, ctrl, graph, gave_up>>

\* Mutant of MarkDone: while the graph is stopped or flushed, a buffer is not marked.
MarkDoneUnlessAborted == LET d == done.dir IN
  /\ done.pc = "mark" /\ ~Closed
  /\ dp' = IF ctrl.op \in {"stop", "flush"} THEN dp
           ELSE [dp EXCEPT ![d] = MarkedAvail(@, done.buf)]
  /\ packet' = IF conf[d].shmem THEN packet
               ELSE [packet EXCEPT ![d][done.buf] = IF d = "read" THEN "kept" ELSE "freed"]
  /\ done' = [done EXCEPT !.pc = "signal", !.buf = 0]
  /\ UNCHANGED <<scenario, held, slot, call, ctrl, graph, gave_up>>

\* Without shared memory the packet of a read is kept with the buffer; that of a
\* write is freed when the handler has returned.
MarkDone == LET d == done.dir IN
  /\ done.pc = "mark" /\ ~Closed
  /\ dp' = [dp EXCEPT ![d] = MarkedAvail(@, done.buf)]
  /\ packet' = IF conf[d].shmem THEN packet
               ELSE [packet EXCEPT ![d][done.buf] = IF d = "read" THEN "kept" ELSE "freed"]
  /\ done' = [done EXCEPT !.pc = "signal", !.buf = 0]
  /\ UNCHANGED <<scenario, held, slot, call, ctrl, graph, gave_up>>

\* Mutant of SignalDone: only a blocking reader or writer is told.
SignalDoneBlocking ==
  /\ done.pc = "signal" /\ ~Closed
  /\ dp' = IF Blocking(done.dir)
           THEN [dp EXCEPT ![done.dir] = Signalled(done.dir, {"RSP"})] ELSE dp
  /\ done' = IdleDone
  /\ UNCHANGED <<scenario, buffers, call, ctrl, graph, gave_up>>

\* The client's callback, and then the signal.
SignalDone ==
  /\ done.pc = "signal" /\ ~Closed
  /\ dp' = [dp EXCEPT ![done.dir] = Signalled(done.dir, {"RSP"})]
  /\ done' = IdleDone
  /\ UNCHANGED <<scenario, buffers, call, ctrl, graph, gave_up>>

\* The subsystem goes down: what SPF holds is gone; both signals are set once.
Ssr ==
  /\ May("SSR") /\ ~Down /\ ~Closed
  /\ graph' = [graph EXCEPT !.state = "ERROR"]
  /\ dp' = [d \in Dir |-> Signalled(d, {"SSR"})]
  /\ held' = [d \in Dir |-> <<>>]
  /\ gave_up' = gave_up \cup {"SSR"}
  /\ UNCHANGED <<scenario, slot, packet, call, done, ctrl>>

-----------------------------------------------------------------------------
(* gsl_dp_queue_read_buffers_to_spf. *)

\* A turn of the loop, one for each buffer there is: the next one is taken if it is
\* available, ...
QueueTake == LET r == dp["read"] IN
  /\ ctrl.pc = "queue" /\ Heap("read") /\ ctrl.turn < NumBuffs
  /\ \/ /\ IsAvail(r)
        /\ dp' = [dp EXCEPT !["read"] = Taken(r)]
        /\ ctrl' = [ctrl EXCEPT !.buf = r.curr, !.md = NoMd,
                               !.pc = IF HasMd("read") THEN "enqueue" ELSE "send"]
     \/ /\ ~IsAvail(r) /\ UNCHANGED dp
        /\ ctrl' = [ctrl EXCEPT !.turn = @ + 1]
  /\ UNCHANGED <<scenario, buffers, call, done, graph, gave_up>>

\* ... gets an entry for its metadata, if there is one left, ...
QueueEntry ==
  /\ ctrl.pc = "enqueue"
  /\ dp' = [dp EXCEPT !["read"] = Enqueued(@)]
  /\ ctrl' = [ctrl EXCEPT !.pc = "send", !.md = NextEntry(dp["read"])]
  /\ UNCHANGED <<scenario, buffers, call, done, graph, gave_up>>

NextTurn == ctrl' = [ctrl EXCEPT !.pc = "queue", !.turn = @ + 1, !.buf = 0, !.md = NoMd]

\* ... and is sent to be filled, or lost; the loop goes on.
QueueSend ==
  /\ ctrl.pc = "send" /\ ~Down /\ NextTurn
  /\ held' = [held EXCEPT !["read"] = Append(@, [buff |-> ctrl.buf, md |-> ctrl.md])]
  /\ slot' = [slot EXCEPT ![ctrl.buf] = ctrl.md]
  /\ UNCHANGED <<scenario, dp, packet, call, done, graph, gave_up>>

QueueLoses ==
  /\ ctrl.pc = "send" /\ (Down \/ May("SEND")) /\ NextTurn
  /\ gave_up' = IF Down THEN gave_up ELSE gave_up \cup {"SEND"}
  /\ UNCHANGED <<scenario, dp, buffers, call, done, graph>>

\* The end of gsl_graph_start and of gsl_graph_flush.
QueueEnds ==
  /\ ctrl.pc = "queue" /\ (~Heap("read") \/ ctrl.turn = NumBuffs)
  /\ ctrl' = IdleCtrl
  /\ graph' = IF ctrl.op = "start" /\ ~Down THEN [graph EXCEPT !.state = "STARTED"] ELSE graph
  /\ UNCHANGED <<scenario, dp, buffers, call, done, gave_up>>

-----------------------------------------------------------------------------
(* The thread that controls the graph.  It holds the lock of the operation. *)

Idle == ctrl.op = "none" /\ ~Closed
Goto(pc) == ctrl' = [ctrl EXCEPT !.pc = pc]

\* gsl_graph_start, as far as the data path goes.
Start ==
  /\ Idle /\ graph.state \in {"OPENED", "STOPPED"}
  /\ ctrl' = [IdleCtrl EXCEPT !.op = "start", !.pc = "queue"]
  /\ UNCHANGED <<scenario, dp, buffers, call, done, graph, gave_up>>

\* gsl_dp_config_data_path with the same configuration again, which changes nothing
\* but this: buffers SPF still holds count as available.
Configured(r) == [r EXCEPT !.used = {}, !.curr = 0, !.head = 0, !.tail = 0]

Forgets(d) == held[d] # <<>> \/ (done.pc \in {"mark", "free"} /\ done.dir = d)

\* Bound: buffers are forgotten once.
Configure(d) ==
  /\ Idle /\ graph.state \in {"OPENED", "STOPPED"} /\ call[d].pc = "idle" /\ Used(d)
  /\ \/ ~Forgets(d) /\ UNCHANGED gave_up
     \/ /\ Forgets(d) /\ May("CONFIG") /\ "CONFIG" \notin gave_up
        /\ gave_up' = gave_up \cup {"CONFIG"}
  /\ dp' = [dp EXCEPT ![d] = Configured(@)]
  /\ UNCHANGED <<scenario, buffers, call, done, ctrl, graph>>

\* gsl_graph_stop, gsl_graph_flush.
Abort(op) ==
  /\ Idle /\ ~Down /\ (op = "stop" => graph.state = "STARTED")
  /\ ctrl' = [IdleCtrl EXCEPT !.op = op, !.pc = "abort"]
  /\ graph.state # "STARTED" => May("EARLY")
  /\ gave_up' = IF graph.state # "STARTED" THEN gave_up \cup {"EARLY"} ELSE gave_up
  /\ UNCHANGED <<scenario, dp, buffers, call, done, graph>>

\* Reads and writes in progress are woken up and waited for.
AbortCalls ==
  /\ ctrl.pc = "abort" /\ \E d \in Dir : call[d].pc # "idle"
  /\ dp' = [d \in Dir |-> Signalled(d, {"CLOSE"})]
  /\ Goto("trans")
  /\ UNCHANGED <<scenario, buffers, call, done, graph, gave_up>>

CallEnded ==
  /\ ctrl.pc = "trans" /\ graph.trans_sig
  /\ graph' = [graph EXCEPT !.trans_sig = FALSE]
  /\ Goto("abort")
  /\ UNCHANGED <<scenario, dp, buffers, call, done, gave_up>>

AbortTimesOut ==
  /\ ctrl.pc = "trans" /\ ~graph.trans_sig /\ May("WAIT")
  /\ Goto("command") /\ gave_up' = gave_up \cup {"WAIT"}
  /\ UNCHANGED <<scenario, dp, buffers, call, done, graph>>

Aborted ==
  /\ ctrl.pc = "abort" /\ \A d \in Dir : call[d].pc = "idle"
  /\ Goto("command")
  /\ UNCHANGED <<scenario, dp, buffers, call, done, graph, gave_up>>

\* The command goes to SPF; stop has set the state before.  A command that fails
\* ends the operation: the buffers are not waited for, nor if the subsystem goes down
\* once SPF has answered.
Command ==
  /\ ctrl.pc = "command"
  /\ graph' = IF ctrl.op = "stop" /\ ~Down THEN [graph EXCEPT !.state = "STOPPED"] ELSE graph
  /\ \/ ~Down /\ Goto("test") /\ UNCHANGED gave_up
     \/ Down /\ ctrl.op = "flush" /\ Goto("queue") /\ UNCHANGED gave_up
     \/ /\ Down \/ May("STOP")
        /\ ctrl' = IdleCtrl
        /\ gave_up' = IF Down THEN gave_up ELSE gave_up \cup {"STOP"}
  /\ UNCHANGED <<scenario, dp, buffers, call, done>>

\* gsl_graph_close, which gsl_close calls after gsl_graph_stop: it wakes whoever waits,
\* waits for the buffers unless the graph is in error, and frees the data path.
Close ==
  /\ Idle /\ graph.state # "STARTED" /\ \A d \in Dir : call[d].pc = "idle"
  /\ dp' = [d \in Dir |-> Signalled(d, {"CLOSE"})]
  /\ ctrl' = [IdleCtrl EXCEPT !.op = "close", !.pc = IF Down THEN "deinit" ELSE "test"]
  /\ UNCHANGED <<scenario, buffers, call, done, graph, gave_up>>

\* gsl_wait_for_all_buffs_to_be_avail, for one direction after the other.
Test ==
  /\ ctrl.pc = "test" /\ Goto(IF dp[ctrl.dir].used = {} THEN "clear" ELSE "asleep")
  /\ UNCHANGED <<scenario, dp, buffers, call, done, graph, gave_up>>

BuffsWake == LET d == ctrl.dir IN
  /\ ctrl.pc = "asleep" /\ dp[d].signalled
  /\ dp' = [dp EXCEPT ![d] = Woken(@)]
  /\ Goto(IF "SSR" \in dp[d].flags THEN "clear" ELSE "test")
  /\ UNCHANGED <<scenario, buffers, call, done, graph, gave_up>>

BuffsTimeOut ==
  /\ ctrl.pc = "asleep" /\ ~dp[ctrl.dir].signalled /\ May("WAIT")
  /\ Goto("clear") /\ gave_up' = gave_up \cup {"WAIT"}
  /\ UNCHANGED <<scenario, dp, buffers, call, done, graph>>

\* gsl_clear_internal_buf: the packets kept with the next n buffers are freed.
BuffsCleared(d, n) == [packet EXCEPT ![d] =
  [b \in Buff |-> IF ~conf[d].shmem /\ (b - dp[d].curr) % NumBuffs < n THEN "freed"
                  ELSE packet[d][b]]]
Passed(d, n) ==
  IF conf[d].shmem THEN MdCleared(dp[d]) ELSE [MdCleared(dp[d]) EXCEPT !.curr = At(dp[d], n)]

AfterClear ==
  CASE ctrl.dir = "read"                         -> [ctrl EXCEPT !.pc = "test", !.dir = "write"]
    [] ctrl.dir = "write" /\ ctrl.op = "stop"    -> IdleCtrl
    [] ctrl.dir = "write" /\ ctrl.op = "flush"   -> [ctrl EXCEPT !.pc = "queue"]
    [] ctrl.dir = "write" /\ ctrl.op = "close"   -> [ctrl EXCEPT !.pc = "deinit"]

Clear == LET d == ctrl.dir IN
  /\ ctrl.pc = "clear"
  /\ \E n \in AvailLen(dp[d]) :
       packet' = BuffsCleared(d, n) /\ dp' = [dp EXCEPT ![d] = Passed(d, n)]
  /\ ctrl' = AfterClear
  /\ gave_up' = IF Forgets(d) THEN gave_up \cup {"CLEAR"} ELSE gave_up
  /\ UNCHANGED <<scenario, held, slot, call, done, graph>>

\* gsl_data_path_deinit.
Deinit ==
  /\ ctrl.pc = "deinit" /\ ctrl' = IdleCtrl
  /\ graph' = [graph EXCEPT !.state = "CLOSED"]
  /\ UNCHANGED <<scenario, dp, buffers, call, done, gave_up>>

-----------------------------------------------------------------------------
CallStep(d) ==
  \/ Find(d) \/ FindShmem(d) \/ WaitReturns(d) \/ Copy(d) \/ Enqueue(d)
  \/ SendOk(d) \/ SendFails(d) \/ End(d)
DoneStep == MarkDone \/ SignalDone \/ FreeEntry
QueueStep == QueueTake \/ QueueEntry \/ QueueSend \/ QueueLoses \/ QueueEnds
CtrlStep ==
  \/ AbortCalls \/ CallEnded \/ Aborted \/ Command \/ Test \/ BuffsWake \/ Clear
  \/ QueueStep \/ Deinit

Next ==
  \/ \E d \in Dir : Begin(d) \/ CallStep(d) \/ WaitTimesOut(d) \/ Receive(d) \/ Configure(d)
  \/ \E op \in {"stop", "flush"} : Abort(op)
  \/ DoneStep \/ CtrlStep \/ Start \/ Close \/ Ssr \/ AbortTimesOut \/ BuffsTimeOut

Spec == Init /\ [][Next]_vars

\* Threads run on and SPF returns what it was sent.  No timeout is counted on.
FairSpec ==
  /\ Spec
  /\ \A d \in Dir : WF_vars(CallStep(d)) /\ SF_vars(Receive(d))
  /\ WF_vars(DoneStep) /\ WF_vars(CtrlStep)

-----------------------------------------------------------------------------
DataPath == [used : SUBSET Buff, curr : Buff, head : 0 .. MdSize - 1,
             tail : 0 .. MdSize - 1, acked : 0 .. MdSize - 1, signalled : BOOLEAN,
             flags : SUBSET {"RSP", "CLOSE", "SSR"}]
Result == {"OK", "ENORESOURCE", "EIODATA", "ESUBSYSRESET", "ENOMEMORY", "ETIMEOUT",
           "EFAILED"}

\* The type of every variable.
TypeOK ==
  /\ scenario \in Scenarios /\ dp \in [Dir -> DataPath]
  /\ \A d \in Dir : held[d] \in Seq([buff : Buff, md : 0 .. Format])
  /\ slot \in [Buff -> 0 .. Format]
  /\ packet \in [Dir -> [Buff -> {"none", "kept", "freed"}]]
  /\ call \in [Dir -> [pc : {"idle", "find", "wait", "copy", "enqueue", "send", "end"},
               buf : Buff, md : 0 .. Format,
               left : 0 .. MaxChunks, tries : 0 .. MaxRetries, rc : Result]]
  /\ done \in [pc : {"idle", "mark", "signal", "free"}, dir : Dir, buf : Buff]
  /\ ctrl \in [op : {"none", "start", "stop", "flush", "close"}, dir : Dir,
               pc : {"idle", "abort", "trans", "command", "test", "asleep", "clear",
                     "queue", "enqueue", "send", "deinit"},
               turn : 0 .. NumBuffs, buf : Buff, md : 0 .. NoMd]
  /\ graph \in [state : {"OPENED", "STARTED", "STOPPED", "ERROR", "CLOSED"},
                trans_sig : BOOLEAN]
  /\ gave_up \subseteq {"SEND", "WAIT", "STOP", "CONFIG", "CLEAR", "SSR", "EARLY"}

OnItsWay(d) == HeldBuffs(d) \cup IF done.pc = "mark" /\ done.dir = d THEN {done.buf} ELSE {}
CallHas(d) == IF call[d].pc \in {"copy", "enqueue", "send"} THEN {call[d].buf} ELSE {}
LoopHas(d) == IF d = "read" /\ ctrl.pc \in {"enqueue", "send"} THEN {ctrl.buf} ELSE {}
InHand(d) == CallHas(d) \cup LoopHas(d)

\* "GSL can only read/write buffers that are available" (gsl_mark_buffer_as_avail):
\* a buffer that SPF holds, or that is on its way back, is marked as used and is not
\* the one a call copies into or from, nor one that start or flush queues, and these
\* two differ, unless a configuration forgot it.
GslKeepsOff == \A d \in Dir :
  Heap(d) /\ "CONFIG" \notin gave_up =>
    /\ OnItsWay(d) \subseteq dp[d].used
    /\ InHand(d) \cap OnItsWay(d) = {} /\ InHand(d) \subseteq dp[d].used
    /\ CallHas(d) \cap LoopHas(d) = {}
    /\ Cardinality(HeldBuffs(d)) = Len(held[d])

\* No buffer is lost over timeouts, stop, flush and their races: one that is marked
\* as used will come back, unless a send failed or the subsystem went down.
BuffersComeBack == \A d \in Dir :
  Heap(d) /\ gave_up \cap {"SEND", "SSR", "CONFIG"} = {} =>
    dp[d].used = OnItsWay(d) \cup InHand(d)

\* "metadata buffers come in the order of FIFO" (gsl_dequeue_internal_md_buff): while
\* buffers do so too and nothing went wrong, the entry SPF's status is stored in, and
\* the one the client gets with a buffer it reads, are those sent with that buffer; the
\* entry that the next write gets is not one SPF still reads.
MetadataOfItsBuffer == \A d \in Dir :
  HasMd(d) /\ gave_up = {} /\ "REORDER" \notin Faults =>
    /\ held[d] # <<>> /\ d = "read" /\ ~Heap(d) => Head(held[d]).md = dp[d].tail
    /\ held[d] # <<>> /\ d = "read" /\ Heap(d) => Head(held[d]).md = dp[d].acked
    /\ call[d].pc = "copy" /\ d = "read" => slot[call[d].buf] = dp[d].tail
    /\ d = "write" => \A e \in Range(held[d]) : e.md # dp[d].head

\* Stop, flush and close end without a timeout, whatever calls are in progress and
\* whenever the buffers come back, if SPF returns what it was sent.
ControlEnds == ctrl.op # "none" ~> ctrl.op = "none" \/ gave_up \cap {"SEND", "WAIT"} # {}

\* "gsl_graph_close waits for all buffers to come back" (gsl_handle_buff_done_shmem):
\* the data path is not freed while GPR's thread is in a handler of it.
\* The code does not keep this: README, section 4.
HandlerUsesLiveDataPath == Closed /\ gave_up = {} => done.pc = "idle"

\* The second clause of MetadataOfItsBuffer, for a client that reads while start or flush
\* queues the buffers, too.  The code does not keep this: README, section 4.
MetadataOfItsBufferEarly ==
  HasMd("read") /\ Heap("read") /\ gave_up \subseteq {"EARLY"} /\ "REORDER" \notin Faults =>
    (held["read"] # <<>> => Head(held["read"]).md = dp["read"].acked)

\* "free oldest metadata shmem buffer if any" (gsl_handle_write_buff_done): when SPF has
\* returned all that was written, no entry is in use.  The code does not keep this for
\* media formats: README, section 4.
WrittenEntriesComeBack ==
  HasMd("write") /\ ~Heap("write") /\ gave_up = {} =>
    (held["write"] = <<>> /\ done.pc # "free" /\ call["write"].pc # "send" =>
       dp["write"].head = dp["write"].tail)
=============================================================================
