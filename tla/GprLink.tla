-------------------------------- MODULE GprLink --------------------------------
(***************************************************************************)
(* GPR between the clients of GSL and the Linux driver of a DSP: the pool  *)
(* of packets, the registered ports, the delivery of what the driver has   *)
(* received, and the data link with its receiver thread and its fixed      *)
(* number of receive buffers (gpr_drv.c, gpr_drv_island.c, gpr_memq,       *)
(* gpr_session.c, gpr_lx.c).                                               *)
(*                                                                         *)
(* A packet of the pool belongs to the thread that allocated it until it   *)
(* has been written to the driver.  A receive buffer belongs to the        *)
(* receiver thread until a callback keeps it; then to the client, who      *)
(* gives it back through the free function of the link.  Of GSL there is   *)
(* what gsl_send_spf_cmd and gsl_gpr_callback do with packets: one signal  *)
(* per client, with the expected token and the slot for the answer.        *)
(*                                                                         *)
(* Not here: packets between two ports of the same processor, the dynamic  *)
(* pool (it has no packets on this platform), several links (they share    *)
(* nothing), and the flags and the status of the signal (GslSignal).       *)
(***************************************************************************)
EXTENDS Naturals, FiniteSets, SequencesExt

CONSTANTS
  Client,     \* graphs: a port, a callback and a thread each
  Packet,     \* the packets of the static pool
  Buffer,     \* GPR_DL_LX_NO_OF_BUFFERS
  MaxCalls,   \* bound: commands
  MaxEvents,  \* bound: what SPF sends of its own accord
  None

ASSUME BoundsAssumption == MaxCalls \in Nat /\ MaxEvents \in Nat
ASSUME SetsAssumption == IsFiniteSet(Packet) /\ IsFiniteSet(Buffer)
ASSUME NoneAssumption == None \notin Client \cup Packet \cup Buffer

VARIABLES
  link,       \* where ipc_dl_lx_init or ipc_dl_lx_deinit is
  receiver,   \* the receiver thread: where it is, its buffer, what is in it
  buff_list,  \* the free buffers
  lost,       \* buffers nobody has any more
  inbox,      \* what the driver has received
  spf,        \* commands that SPF has not answered
  free_q,     \* the free packets
  token,      \* [Packet -> the token in its header]
  sessions,   \* the registered clients
  client,     \* [Client -> record]
  calls, events,
  scrubbed,   \* history: commands whose token another thread has cleared
  dropped,    \* history: commands whose answer was dropped while its sender waited
  misfreed    \* history: a client's slot has kept a buffer that has been freed

counters == <<calls, events>>
history == <<scrubbed, dropped, misfreed>>
vars == <<link, receiver, buff_list, lost, inbox, spf, free_q, token, sessions, client,
          counters, history>>

NoToken == 0
Token == 0 .. MaxCalls
Kinds == {"answer", "event", "failing", "short", "bad"}
NoMsg == [to |-> None, kind |-> "event", id |-> 0, token |-> NoToken]
AtRest == [pc |-> "top", buf |-> None, msg |-> NoMsg, freed |-> FALSE]
NoThread == [AtRest EXCEPT !.pc = "none"]
NewClient ==
  [pc |-> "out", packet |-> None, id |-> 0, expected |-> NoToken, slot |-> None,
   signalled |-> FALSE, answer |-> None]

Init ==
  /\ link = "off" /\ receiver = NoThread
  /\ buff_list = <<>> /\ lost = {}
  /\ inbox = <<>> /\ spf = {}
  /\ free_q = SetToSeq(Packet) /\ token = [p \in Packet |-> NoToken]
  /\ sessions = {} /\ client = [c \in Client |-> NewClient]
  /\ calls = 0 /\ events = 0
  /\ scrubbed = {} /\ dropped = {} /\ misfreed = FALSE

-----------------------------------------------------------------------------
(* The data link: init and deinit *)

\* gpr_dl_lx_local_init: the thread runs before the link knows the callback of GPR ...
StartsThread ==
  /\ link = "off"
  /\ link' = "thread" /\ buff_list' = SetToSeq(Buffer) /\ receiver' = AtRest
  /\ UNCHANGED <<lost, inbox, spf, free_q, token, sessions, client, counters, history>>

\* ... then rx_cb, and then the port that receive_done looks up.
Hooks ==
  /\ link = "thread" /\ link' = "hooked"
  /\ UNCHANGED <<receiver, buff_list, lost, inbox, spf, free_q, token, sessions, client,
                 counters, history>>

Publishes ==
  /\ link = "hooked" /\ link' = "up"
  /\ UNCHANGED <<receiver, buff_list, lost, inbox, spf, free_q, token, sessions, client,
                 counters, history>>

\* gpr_dl_lx_local_deinit: the port is forgotten, thread_exit is set, the pipe written;
\* GSL has closed everything by then.
Stops ==
  /\ link = "up" /\ \A c \in Client : client[c].pc = "out"
  /\ link' = "stopping"
  /\ UNCHANGED <<receiver, buff_list, lost, inbox, spf, free_q, token, sessions, client,
                 counters, history>>

Joins ==
  /\ link = "stopping" /\ receiver.pc = "none"
  /\ link' = "stopped"
  /\ UNCHANGED <<receiver, buff_list, lost, inbox, spf, free_q, token, sessions, client,
                 counters, history>>

\* Mutant of Put: without the search for the buffer in the list.
PutAlways(list, b) == IF b = None THEN list ELSE Append(list, b)

\* put_buffer: a buffer that is in the list is not put again.
Put(list, b) == IF b \in ToSet(list) \cup {None} THEN list ELSE Append(list, b)

\* __gpr_cmd_free of a receive buffer and of a second one, if they are there: without
\* the port put_buffer is not reached and what is not in the list by then never will be.
Frees(a, b) ==
  IF link = "up" THEN buff_list' = Put(Put(buff_list, a), b) /\ UNCHANGED lost
  ELSE lost' = lost \cup ({a, b} \ (ToSet(buff_list) \cup {None})) /\ UNCHANGED buff_list

Loses(b) == lost' = lost \cup {b} /\ UNCHANGED buff_list

-----------------------------------------------------------------------------
(* SPF and the driver *)

SpfAnswers == \E m \in spf :
  /\ spf' = spf \ {m}
  /\ inbox' = Append(inbox, m)
  /\ UNCHANGED <<link, receiver, buff_list, lost, free_q, token, sessions, client,
                 counters, history>>

\* An event; a buffer done that GSL cannot handle; a packet whose size is not the one
\* in its header; something that the driver reports and cannot hand over.
SpfSends == \E c \in Client, kind \in Kinds \ {"answer"} :
  /\ events < MaxEvents /\ link \notin {"off", "stopped"}
  /\ events' = events + 1
  /\ inbox' = Append(inbox, [NoMsg EXCEPT !.to = c, !.kind = kind])
  /\ UNCHANGED <<link, receiver, buff_list, lost, spf, free_q, token, sessions, client,
                 calls, history>>

-----------------------------------------------------------------------------
(* The receiver thread *)

At(pc) == receiver.pc = pc
Goes(pc) == receiver' = [receiver EXCEPT !.pc = pc]
Loops == receiver' = AtRest
Exits == receiver' = NoThread

Polls ==
  /\ At("top")
  /\ IF link = "stopping" THEN Exits ELSE Goes("poll")
  /\ UNCHANGED <<link, buff_list, lost, inbox, spf, free_q, token, sessions, client,
                 counters, history>>

\* Mutant of WokenByPipe: nobody writes to the pipe.
WokenByNothing == FALSE
WokenByPipe == inbox = <<>> /\ link = "stopping"

EndsPoll ==
  /\ At("poll") /\ WokenByPipe
  /\ Exits
  /\ UNCHANGED <<link, buff_list, lost, inbox, spf, free_q, token, sessions, client,
                 counters, history>>

\* get_buffer and read; without a free buffer the thread tries again and again.
Reads ==
  /\ At("poll") /\ inbox # <<>>
  /\ IF buff_list = <<>>
     THEN Goes("top") /\ UNCHANGED <<buff_list, inbox>>
     ELSE /\ receiver' = [pc |-> "received", buf |-> Head(buff_list), msg |-> Head(inbox),
                          freed |-> FALSE]
          /\ buff_list' = Tail(buff_list) /\ inbox' = Tail(inbox)
  /\ UNCHANGED <<link, lost, spf, free_q, token, sessions, client, counters, history>>

\* A read that fails.
ReadFails ==
  /\ At("received") /\ receiver.msg.kind = "bad"
  /\ Loops /\ buff_list' = Put(buff_list, receiver.buf)
  /\ UNCHANGED <<link, lost, inbox, spf, free_q, token, sessions, client, counters, history>>

\* No callback yet, or gpr_ipc_receive finds the size wrong: nobody frees the buffer.
Discards ==
  /\ At("received") /\ receiver.msg.kind # "bad"
  /\ link = "thread" \/ receiver.msg.kind = "short"
  /\ Loops /\ Loses(receiver.buf)
  /\ UNCHANGED <<link, inbox, spf, free_q, token, sessions, client, counters, history>>

\* gpr_local_send, up to the unlock of gpr_drv_task_lock.
LooksUp ==
  /\ At("received") /\ link # "thread" /\ receiver.msg.kind \notin {"bad", "short"}
  /\ Goes(IF receiver.msg.to \in sessions THEN "callback" ELSE "refused")
  /\ UNCHANGED <<link, buff_list, lost, inbox, spf, free_q, token, sessions, client,
                 counters, history>>

Callee == receiver.msg.to
Destroyed(c) == client[c].pc = "out"
Waiting(c) == client[c].pc \in {"written", "waiting"}

\* Mutant of Unwanted: an answer that nobody expects is not freed.
UnwantedKept == None
Unwanted == receiver.buf

\* gsl_gpr_callback with an answer, and gsl_signal_set: a packet that is still in the
\* slot is freed; one with another token than the expected is left to the callback,
\* which frees it, and the slot stays as it is.
Answers ==
  LET c == Callee
      pending == client[c].slot
  IN /\ At("callback") /\ receiver.msg.kind = "answer" /\ ~Destroyed(c)
     /\ Loops
     /\ IF receiver.msg.token = client[c].expected
        THEN /\ client' = [client EXCEPT ![c].slot = receiver.buf, ![c].signalled = TRUE]
             /\ Frees(pending, None)
             /\ UNCHANGED <<dropped, misfreed>>
        ELSE /\ Frees(pending, Unwanted)
             /\ misfreed' = (misfreed \/ pending # None)
             /\ dropped' = IF Waiting(c) /\ client[c].id = receiver.msg.id
                           THEN dropped \cup {receiver.msg.id} ELSE dropped
             /\ UNCHANGED client
     /\ UNCHANGED <<link, inbox, spf, free_q, token, sessions, counters, scrubbed>>

\* An event: the callback frees it.
Notifies ==
  /\ At("callback") /\ receiver.msg.kind = "event" /\ ~Destroyed(Callee)
  /\ Loops /\ Frees(receiver.buf, None)
  /\ UNCHANGED <<link, inbox, spf, free_q, token, sessions, client, counters, history>>

\* A callback that frees the packet, maybe twice, and returns an error.
Fails ==
  /\ At("callback") /\ receiver.msg.kind = "failing" /\ ~Destroyed(Callee)
  /\ Frees(receiver.buf, receiver.buf)
  /\ receiver' = [receiver EXCEPT !.pc = "refused", !.freed = TRUE]
  /\ UNCHANGED <<link, inbox, spf, free_q, token, sessions, client, counters, history>>

\* The client deregistered and freed its graph after the look-up: the callback works on
\* freed memory; what it does with the buffer is not known, here it keeps it.
CallsNobody ==
  /\ At("callback") /\ Destroyed(Callee)
  /\ Loops /\ Loses(receiver.buf)
  /\ UNCHANGED <<link, inbox, spf, free_q, token, sessions, client, counters, history>>

\* gpr_ipc_receive frees what could not be delivered.
PutsBack ==
  /\ At("refused")
  /\ Loops /\ Frees(receiver.buf, None)
  /\ UNCHANGED <<link, inbox, spf, free_q, token, sessions, client, counters, history>>

-----------------------------------------------------------------------------
(* The clients *)

Is(c, pc) == client[c].pc = pc
Step(c, pc) == client' = [client EXCEPT ![c].pc = pc]

Registers(c) ==
  /\ Is(c, "out") /\ link = "up"
  /\ sessions' = sessions \cup {c}
  /\ client' = [client EXCEPT ![c] = [NewClient EXCEPT !.pc = "idle"]]
  /\ UNCHANGED <<link, receiver, buff_list, lost, inbox, spf, free_q, token, counters, history>>

\* __gpr_cmd_alloc_ext takes the head of the queue; gsl_send_spf_cmd puts its token in.
Allocates(c) ==
  /\ Is(c, "idle") /\ free_q # <<>> /\ calls < MaxCalls
  /\ calls' = calls + 1
  /\ free_q' = Tail(free_q)
  /\ token' = [token EXCEPT ![Head(free_q)] = calls']
  /\ client' = [client EXCEPT ![c].pc = "filled", ![c].packet = Head(free_q), ![c].id = calls']
  /\ UNCHANGED <<link, receiver, buff_list, lost, inbox, spf, sessions, events, history>>

\* Mutant of Notes: the expected token is not noted before the command leaves.
NotesNothing(c) ==
  /\ Is(c, "filled")
  /\ Step(c, "noted")
  /\ UNCHANGED <<link, receiver, buff_list, lost, inbox, spf, free_q, token, sessions,
                 counters, history>>

Notes(c) ==
  /\ Is(c, "filled")
  /\ client' = [client EXCEPT ![c].pc = "noted", ![c].expected = token[client[c].packet]]
  /\ UNCHANGED <<link, receiver, buff_list, lost, inbox, spf, free_q, token, sessions,
                 counters, history>>

\* gpr_dl_lx_send writes to the driver ...
Writes(c) ==
  /\ Is(c, "noted")
  /\ spf' = spf \cup {[to |-> c, kind |-> "answer", id |-> client[c].id,
                       token |-> token[client[c].packet]]}
  /\ Step(c, "written")
  /\ UNCHANGED <<link, receiver, buff_list, lost, inbox, free_q, token, sessions,
                 counters, history>>

\* ... and if that fails the sender frees its packet.
WriteFails(c) ==
  /\ Is(c, "noted")
  /\ free_q' = Append(free_q, client[c].packet)
  /\ client' = [client EXCEPT ![c].pc = "idle", ![c].packet = None]
  /\ UNCHANGED <<link, receiver, buff_list, lost, inbox, spf, token, sessions, counters, history>>

\* gpr_ipc_send_done.
SendDone(c) ==
  /\ Is(c, "written")
  /\ free_q' = Append(free_q, client[c].packet)
  /\ Step(c, "waiting")
  /\ UNCHANGED <<link, receiver, buff_list, lost, inbox, spf, token, sessions, counters, history>>

\* REMOVE_DEBUG_TOKEN, after the wait: the packet was given away when it was sent.
Scrubs(c) ==
  LET p == client[c].packet IN
  /\ token' = [token EXCEPT ![p] = NoToken]
  /\ scrubbed' = scrubbed \cup
       {client[d].id : d \in {d \in Client \ {c} : client[d].packet = p /\ client[d].pc \in {"filled", "noted"}}}

\* gsl_signal_timedwait returns with the packet in the slot, also with an old one ...
Wakes(c) ==
  /\ Is(c, "waiting") /\ client[c].signalled
  /\ Scrubs(c)
  /\ client' = [client EXCEPT ![c] = [NewClient EXCEPT !.pc = "answered", !.answer = client[c].slot]]
  /\ UNCHANGED <<link, receiver, buff_list, lost, inbox, spf, free_q, sessions, counters,
                 dropped, misfreed>>

\* ... or without; an answer may still come before the token is forgotten.
TimesOut(c) ==
  /\ Is(c, "waiting") /\ ~client[c].signalled
  /\ Step(c, "timedout")
  /\ UNCHANGED <<link, receiver, buff_list, lost, inbox, spf, free_q, token, sessions,
                 counters, history>>

Forgets(c) ==
  /\ Is(c, "timedout")
  /\ Scrubs(c)
  /\ client' = [client EXCEPT ![c].pc = "idle", ![c].packet = None, ![c].id = 0,
                              ![c].expected = NoToken]
  /\ UNCHANGED <<link, receiver, buff_list, lost, inbox, spf, free_q, sessions, counters,
                 dropped, misfreed>>

FreesAnswer(c) ==
  /\ Is(c, "answered")
  /\ Frees(client[c].answer, None)
  /\ client' = [client EXCEPT ![c].pc = "idle", ![c].answer = None]
  /\ UNCHANGED <<link, receiver, inbox, spf, free_q, token, sessions, counters, history>>

\* gsl_graph_close deregisters, gsl_graph_deinit destroys the signals.
Deregisters(c) ==
  /\ Is(c, "idle")
  /\ sessions' = sessions \ {c}
  /\ Step(c, "closing")
  /\ UNCHANGED <<link, receiver, buff_list, lost, inbox, spf, free_q, token, counters, history>>

Destroys(c) ==
  /\ Is(c, "closing")
  /\ Frees(client[c].slot, None)
  /\ client' = [client EXCEPT ![c] = NewClient]
  /\ UNCHANGED <<link, receiver, inbox, spf, free_q, token, sessions, counters, history>>

-----------------------------------------------------------------------------
ReceiverStep ==
  \/ Polls \/ EndsPoll \/ Reads \/ ReadFails \/ Discards \/ LooksUp
  \/ Answers \/ Notifies \/ Fails \/ CallsNobody \/ PutsBack

\* What a client does once it has begun.
ClientStep(c) ==
  \/ Notes(c) \/ Writes(c) \/ WriteFails(c) \/ SendDone(c)
  \/ Wakes(c) \/ TimesOut(c) \/ Forgets(c) \/ FreesAnswer(c) \/ Destroys(c)

Next ==
  \/ StartsThread \/ Hooks \/ Publishes \/ Stops \/ Joins
  \/ SpfAnswers \/ SpfSends
  \/ ReceiverStep
  \/ \E c \in Client : Registers(c) \/ Allocates(c) \/ Deregisters(c) \/ ClientStep(c)

Spec == Init /\ [][Next]_vars

\* Threads are scheduled and waits end, by their timeout at the latest.  Nothing is
\* assumed of SPF, nor that a client begins another call.
Fairness ==
  /\ WF_vars(ReceiverStep) /\ WF_vars(Hooks) /\ WF_vars(Publishes) /\ WF_vars(Joins)
  /\ \A c \in Client : WF_vars(ClientStep(c))
FairSpec == Spec /\ Fairness

-----------------------------------------------------------------------------
Messages == [to : Client \cup {None}, kind : Kinds, id : Token, token : Token]
Bs == Buffer \cup {None}

\* Every variable has its type.
TypeOK ==
  /\ link \in {"off", "thread", "hooked", "up", "stopping", "stopped"}
  /\ receiver \in [pc : {"none", "top", "poll", "received", "callback", "refused"},
                   buf : Bs, msg : Messages, freed : BOOLEAN]
  /\ buff_list \in Seq(Buffer) /\ lost \subseteq Buffer
  /\ inbox \in Seq(Messages) /\ spf \subseteq Messages
  /\ free_q \in Seq(Packet) /\ token \in [Packet -> Token]
  /\ sessions \subseteq Client
  /\ client \in [Client -> [pc : {"out", "idle", "filled", "noted", "written", "waiting",
                                  "timedout", "answered", "closing"},
                            packet : Packet \cup {None}, id : Token, expected : Token,
                            slot : Bs, signalled : BOOLEAN, answer : Bs]]
  /\ calls \in 0 .. MaxCalls /\ events \in 0 .. MaxEvents
  /\ {scrubbed, dropped} \subseteq SUBSET (1 .. MaxCalls) /\ misfreed \in BOOLEAN

Places(s, x) == {i \in DOMAIN s : s[i] = x}

\* Who has buffer b: the list, the receiver, a client's slot or hand, nobody.
HoldersOf(b) ==
  ({"list"} \X Places(buff_list, b))
  \cup {<<"receiver", 0>> : i \in {i \in {0} : receiver.buf = b /\ ~receiver.freed}}
  \cup ({"slot"} \X {c \in Client : client[c].slot = b})
  \cup ({"answer"} \X {c \in Client : client[c].answer = b})
  \cup ({"lost"} \X (lost \cap {b}))

\* Who has packet p: the queue or the thread that has not sent it yet.
OwnersOf(p) ==
  ({"queue"} \X Places(free_q, p))
  \cup ({"sender"} \X {c \in Client : client[c].packet = p /\ client[c].pc \in {"filled", "noted", "written"}})

\* A receive buffer is with the link, with one client or nowhere, never in two places:
\* what a callback has freed before it refused it is freed again by gpr_ipc_receive, and
\* only put_buffer stands in between (gpr_lx.c:162).  A packet of the pool is in the
\* queue or with one sender.  The exception is a slot that has kept a freed buffer.
OneOwner ==
  /\ link # "off" /\ ~misfreed => \A b \in Buffer : Cardinality(HoldersOf(b)) = 1
  /\ \A p \in Packet : Cardinality(OwnersOf(p)) = 1

\* The answer to a command whose sender waits is not dropped (gsl_common.c:186, 104),
\* unless another sender has cleared the token in the packet before it left, the one it
\* had itself sent before (gsl_common.c:218).
AnswersAreTaken == dropped \subseteq scrubbed

\* Every buffer is lost, or lies unread in the signal of a client at rest.
Starved ==
  \A b \in Buffer : b \in lost \/ \E c \in Client : Is(c, "idle") /\ client[c].slot = b

\* What the driver has received is read in the end, although the buffers are few and
\* clients keep them (gpr_lx.c:250).
MessagesAreRead == inbox # <<>> ~> (inbox = <<>> \/ Starved \/ link = "stopped")

\* ipc_dl_lx_deinit returns: the receiver thread sees thread_exit or the pipe wherever
\* it is (gpr_lx.c:389-396).
LinkStops == link = "stopping" ~> link = "stopped"
=============================================================================
