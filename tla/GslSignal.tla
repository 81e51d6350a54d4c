------------------------------ MODULE GslSignal ------------------------------
(***************************************************************************)
(* How GSL waits for the answer to a command it sent to SPF                *)
(* (gsl/src/gsl_common.c: gsl_send_spf_cmd, gsl_signal_timedwait,          *)
(* gsl_signal_set; gsl_gpr_callback and gsl_graph_signal_event_all in      *)
(* gsl/src/gsl_graph.c).                                                   *)
(*                                                                         *)
(* A graph has one signal for each group of commands; the client sends the *)
(* commands of a group one after the other.  The sender notes the token of *)
(* its command in the signal and sleeps.  The GPR callback hands it the    *)
(* answer packet through the signal if the token is the expected one, and  *)
(* drops it otherwise; the callback for a subsystem restart (SSR) and the  *)
(* close of the graph wake every sleeper.  flags, status and the packet are*)
(* protected by graph_lock; the expected token is not.                     *)
(***************************************************************************)
EXTENDS Naturals, FiniteSets

CONSTANTS
  Sig,         \* the signals of the graph
  Opcode,      \* the commands the graph sends
  GroupOf,     \* the signal on which the answer to a command is awaited
  MaxToken     \* bound: how many commands are sent

ASSUME GroupOfType == GroupOf \in [Opcode -> Sig]
ASSUME MaxTokenType == MaxToken \in Nat

Token == 1 .. MaxToken
NoToken == 0      \* also: no packet
Event == {"SSR", "CLOSE"}
Flag == Event \cup {"RSP"}
Status == {"OK", "FAILED"}
Result == Status \cup {"TIMEOUT", "SSR", "ABORTED", "UNEXPECTED", "NOT_SENT"}

VARIABLES
  sig,           \* [Sig -> record]: the struct gsl_signal
  client,        \* [Sig -> record]: the thread that sends the group's commands
  graph_state,   \* "OPENED", or an error state a subsystem restart sets
  closing,       \* gsl_close has signalled that the graph goes away
  to_wake,       \* <<event, signal>>: wake-ups under way
  sent,          \* [Token -> opcode]: the commands sent so far
  spf,           \* the commands SPF has yet to answer
  answer,        \* [Token -> status]: what SPF answered
  packet,        \* [Token -> state]: the answer packet's memory
  late           \* history: a timeout or an event has ended a wait without its
                 \* answer, which may come too late

vars ==
  <<sig, client, graph_state, closing, to_wake, sent, spf, answer, packet, late>>
environment == <<graph_state, closing, to_wake>>
commands == <<sent, spf, answer>>

CreatedSignal == [signalled |-> FALSE, flags |-> {}, status |-> "OK",
                  gpr_packet |-> NoToken, expected |-> NoToken]

\* pc: "idle"; "admitted" past the handler's check of the state; "waiting";
\* "woken"; "leaving" the wait.  flags, status, rsp: what the wait returned; rc:
\* what the last command came to.  A history: reset, whether an SSR event fell into
\* the wait.
IdleClient == [pc |-> "idle", token |-> NoToken, timedout |-> FALSE, flags |-> {},
               status |-> "OK", rsp |-> NoToken, rc |-> "NOT_SENT",
               reset |-> FALSE]

Init ==
  /\ sig = [s \in Sig |-> CreatedSignal]
  /\ client = [s \in Sig |-> IdleClient]
  /\ graph_state = "OPENED" /\ closing = FALSE /\ to_wake = {}
  /\ sent = [t \in {} |-> ""] /\ spf = {} /\ answer = [t \in {} |-> ""]
  /\ packet = [t \in Token |-> "none"] /\ late = FALSE

-----------------------------------------------------------------------------
(* gsl_signal_set, under graph_lock. *)

\* __gpr_cmd_free of the packet with the answer to t.
Freed(pk, t) ==
  IF t = NoToken THEN pk
  ELSE [pk EXCEPT ![t] = IF @ \in {"flying", "kept"} THEN "freed" ELSE "freed twice"]

\* The events bring no packet; a packet must answer the command waited for.
Expects(s, t) == t = NoToken \/ sig[s].expected = t

\* Mutant of MergeFlags: the newest event replaces those not yet seen.
MergeFlagsReplace(s, f) == {f}
MergeFlags(s, f) == sig[s].flags \cup {f}

\* Mutant of SetFields: an event leaves the pending packet's pointer in place.
SetFieldsKeepPacket(s, f, st, t) ==
  [sig[s] EXCEPT !.flags = MergeFlags(s, f), !.status = st,
     !.signalled = @ \/ Expects(s, t),
     !.gpr_packet = IF t # NoToken /\ Expects(s, t) THEN t ELSE @]

\* The flag and the status are stored before the token is looked at; a packet that
\* is not expected sets no signal.
SetFields(s, f, st, t) ==
  [sig[s] EXCEPT !.flags = MergeFlags(s, f), !.status = st,
     !.signalled = @ \/ Expects(s, t),
     !.gpr_packet = IF Expects(s, t) THEN t ELSE @]

\* Mutant of FreePending: the pending packet is not freed.
FreePendingForgets(s) == packet

\* A packet nobody took is freed, whatever comes after it.
FreePending(s) == Freed(packet, sig[s].gpr_packet)

SignalSet(s, f, st, t) ==
  /\ sig' = [sig EXCEPT ![s] = SetFields(s, f, st, t)]
  /\ packet' = CASE t = NoToken      -> FreePending(s)
                 [] ~ Expects(s, t)  -> Freed(FreePending(s), t)
                 [] OTHER            -> [FreePending(s) EXCEPT ![t] = "kept"]

-----------------------------------------------------------------------------
(* The sender: gsl_send_spf_cmd_wait_for_basic_rsp. *)

\* A handler (gsl_ioctl and the calls like it) looks at the graph's state once.
Admit(s) ==
  /\ client[s].pc = "idle" /\ graph_state = "OPENED" /\ ~closing
  /\ client' = [client EXCEPT ![s].pc = "admitted"]
  /\ UNCHANGED <<sig, environment, commands, packet, late>>

\* The handler has no further command to send.
Leave(s) ==
  /\ client[s].pc = "admitted"
  /\ client' = [client EXCEPT ![s].pc = "idle"]
  /\ UNCHANGED <<sig, environment, commands, packet, late>>

\* What gsl_graph_close sends: CLOSE unless the graph is in error, and before it
\* DEREGISTER_CFG in any state.
MaySend(s, op) ==
  CASE op = "CLOSE"          -> client[s].pc = "idle" /\ graph_state # "ERROR"
    [] op = "DEREGISTER_CFG" -> client[s].pc = "idle"
    [] OTHER                 -> client[s].pc = "admitted"

\* Mutant of NoteToken: clears what an earlier event left in the signal.
NoteTokenClears(s, t) ==
  [sig EXCEPT ![s].expected = t, ![s].signalled = FALSE, ![s].flags = {}]

NoteToken(s, t) == [sig EXCEPT ![s].expected = t]

\* The token is noted before the command leaves; the sender sleeps unless GPR
\* refuses the packet.  A subsystem that is down never sees the command.
Send(s) == \E op \in Opcode :
  LET t == Cardinality(DOMAIN sent) + 1
      c == [IdleClient EXCEPT !.token = t]
  IN /\ GroupOf[op] = s /\ MaySend(s, op) /\ ~closing /\ t \in Token
     /\ sig' = NoteToken(s, t)
     /\ sent' = [u \in DOMAIN sent \cup {t} |-> IF u = t THEN op ELSE sent[u]]
     /\ \/ /\ spf' = IF graph_state = "ERROR" THEN spf ELSE spf \cup {t}
           /\ client' = [client EXCEPT ![s] = [c EXCEPT !.pc = "waiting"]]
        \/ client' = [client EXCEPT ![s] = c] /\ UNCHANGED spf
     /\ UNCHANGED <<environment, answer, packet, late>>

\* ar_osal_signal_timedwait returns; it clears nothing.
Wake(s) ==
  /\ client[s].pc = "waiting" /\ sig[s].signalled
  /\ client' = [client EXCEPT ![s].pc = "woken"]
  /\ UNCHANGED <<sig, environment, commands, packet, late>>

\* The wait may time out just as the signal is being set.
TimeOut(s) ==
  /\ client[s].pc = "waiting"
  /\ client' = [client EXCEPT ![s].pc = "leaving", ![s].timedout = TRUE]
  /\ late' = TRUE
  /\ UNCHANGED <<sig, environment, commands, packet>>

\* Mutant of TakenSignal: the signal is not cleared.
TakenSignalStaysSet(s) ==
  [CreatedSignal EXCEPT !.expected = sig[s].expected, !.signalled = TRUE]

TakenSignal(s) == [CreatedSignal EXCEPT !.expected = sig[s].expected]

\* gsl_signal_timedwait under graph_lock: take everything, clear the signal.
Take(s) ==
  /\ client[s].pc = "woken"
  /\ client' = [client EXCEPT ![s].pc = "leaving", ![s].flags = sig[s].flags,
                  ![s].status = sig[s].status, ![s].rsp = sig[s].gpr_packet]
  /\ sig' = [sig EXCEPT ![s] = TakenSignal(s)]
  /\ late' = (late \/ (sig[s].flags # {} /\ sig[s].gpr_packet = NoToken))
  /\ UNCHANGED <<environment, commands, packet>>

\* SPF's status, when it is an error, wins over all but the timeout; an answer
\* to a command of another kind is unexpected.
Outcome(c) ==
  IF c.timedout THEN "TIMEOUT"
  ELSE IF c.status # "OK" THEN c.status
  ELSE IF "CLOSE" \in c.flags THEN "ABORTED"
  ELSE IF "SSR" \in c.flags THEN "SSR"
  ELSE IF c.rsp # NoToken /\ sent[c.rsp] # sent[c.token] THEN "UNEXPECTED"
  ELSE "OK"

\* Outside the lock: forget the token, free the packet, return to the handler.
\* A handler may go on after a command that succeeded.
Return(s) ==
  LET c == client[s]
      goes_on == Outcome(c) = "OK" /\ sent[c.token] \notin {"CLOSE", "DEREGISTER_CFG"}
  IN /\ c.pc = "leaving"
     /\ sig' = [sig EXCEPT ![s].expected = NoToken]
     /\ packet' = Freed(packet, c.rsp)
     /\ client' = [client EXCEPT ![s] =
          [IdleClient EXCEPT !.pc = IF goes_on THEN "admitted" ELSE "idle",
             !.token = c.token, !.rc = Outcome(c), !.reset = c.reset]]
     /\ UNCHANGED <<environment, commands, late>>

-----------------------------------------------------------------------------
(* SPF and GPR, and the two events that wake every sleeper. *)

SpfAnswer == \E t \in spf, st \in Status :
  /\ spf' = spf \ {t}
  /\ answer' = [u \in DOMAIN answer \cup {t} |-> IF u = t THEN st ELSE answer[u]]
  /\ packet' = [packet EXCEPT ![t] = "flying"]
  /\ UNCHANGED <<sig, client, environment, sent, late>>

\* gsl_gpr_callback, on GPR's thread; answers arrive in any order.
GprCallback == \E t \in DOMAIN answer :
  /\ packet[t] = "flying"
  /\ SignalSet(GroupOf[sent[t]], "RSP", answer[t], t)
  /\ UNCHANGED <<client, environment, commands, late>>

\* gsl_main_ssr_callback: the state is set first, then each signal.  What SPF had
\* not yet answered may be lost.
SubsystemDown == \E st \in {"ERROR", "ERROR_ALLOW_CLEANUP"}, lost \in SUBSET spf :
  /\ graph_state = "OPENED"
  /\ graph_state' = st
  /\ spf' = spf \ lost
  /\ to_wake' = to_wake \cup ({"SSR"} \X Sig)
  /\ UNCHANGED <<sig, client, closing, sent, answer, packet, late>>

\* gsl_graph_close after its last command: "unblock any anyone waiting".
CloseGraph ==
  /\ ~closing
  /\ \A s \in Sig : client[s].pc \in {"waiting", "woken", "leaving"} =>
       sent[client[s].token] \notin {"CLOSE", "DEREGISTER_CFG"}
  /\ closing' = TRUE
  /\ to_wake' = to_wake \cup ({"CLOSE"} \X Sig)
  /\ UNCHANGED <<sig, client, graph_state, commands, packet, late>>

\* gsl_graph_signal_event_all, one signal at a time.
WakeSleeper == \E w \in to_wake :
  /\ to_wake' = to_wake \ {w}
  /\ SignalSet(w[2], w[1], "OK", NoToken)
  /\ LET hit == w[1] = "SSR" /\ client[w[2]].pc \in {"waiting", "woken"}
     IN client' = [client EXCEPT ![w[2]].reset = @ \/ hit]
  /\ UNCHANGED <<graph_state, closing, commands, late>>

-----------------------------------------------------------------------------
Sender(s) ==
  \/ Admit(s) \/ Leave(s) \/ Send(s) \/ Wake(s) \/ TimeOut(s) \/ Take(s) \/ Return(s)

Next ==
  \/ \E s \in Sig : Sender(s)
  \/ SpfAnswer \/ GprCallback \/ SubsystemDown \/ CloseGraph \/ WakeSleeper

Spec == Init /\ [][Next]_vars

\* A woken sender runs on; SPF answers what it has not lost; GPR's and the restart
\* callback's threads do what they have begun.
FairSpec ==
  /\ Spec
  /\ \A s \in Sig : WF_vars(Wake(s)) /\ WF_vars(Take(s)) /\ WF_vars(Return(s))
  /\ WF_vars(SpfAnswer) /\ WF_vars(GprCallback) /\ WF_vars(WakeSleeper)

-----------------------------------------------------------------------------
SignalRecord ==
  [signalled : BOOLEAN, flags : SUBSET Flag, status : Status,
   gpr_packet : Token \cup {NoToken}, expected : Token \cup {NoToken}]
PacketState == {"none", "flying", "kept", "freed", "freed twice"}
GraphState == {"OPENED", "ERROR", "ERROR_ALLOW_CLEANUP"}
ClientRecord ==
  [pc : {"idle", "admitted", "waiting", "woken", "leaving"},
   token : Token \cup {NoToken}, timedout : BOOLEAN, flags : SUBSET Flag,
   status : Status, rsp : Token \cup {NoToken}, rc : Result,
   reset : BOOLEAN]

\* The type of every variable; SPF answers only what was sent.
TypeOK ==
  /\ sig \in [Sig -> SignalRecord]
  /\ client \in [Sig -> ClientRecord]
  /\ graph_state \in GraphState /\ closing \in BOOLEAN
  /\ to_wake \subseteq Event \X Sig
  /\ DOMAIN sent \subseteq Token /\ \A t \in DOMAIN sent : sent[t] \in Opcode
  /\ spf \subseteq DOMAIN sent
  /\ DOMAIN answer \subseteq DOMAIN sent /\ \A t \in DOMAIN answer : answer[t] \in Status
  /\ packet \in [Token -> PacketState]
  /\ late \in BOOLEAN

\* A handler that is told "success" has SPF's word for that very command: no
\* answer to an earlier command, no event and no empty wake-up passes for it.  The
\* code does not keep this over late answers: README, section 4.
SuccessIsAlwaysReal == \A s \in Sig :
  LET c == client[s] IN
  c.pc \in {"idle", "admitted"} /\ c.rc = "OK" =>
    c.token \in DOMAIN answer /\ answer[c.token] = "OK"

\* It does as long as no timeout or event has ended a wait without its answer.
SuccessIsReal == ~late => SuccessIsAlwaysReal

\* A command during whose wait the subsystem went down is never reported as a
\* success, even if SPF's answer and the event both come before the sender runs.
SsrIsReported == \A s \in Sig :
  client[s].pc \in {"idle", "admitted"} /\ client[s].reset => client[s].rc # "OK"

\* Each answer packet the callback hands over is freed by someone: as long as it
\* is not, the signal or the sender still refers to it.
NoPacketLeak == \A t \in Token :
  packet[t] = "kept" => \E s \in Sig : t \in {sig[s].gpr_packet, client[s].rsp}

\* ... and by one party only: "do not free gpr packet in these cases as it is
\* passed to waiter" (gsl_gpr_callback).  Again the code keeps it as long as no
\* timeout or event has ended a wait without its answer.
NothingEverFreedTwice == \A t \in Token : packet[t] # "freed twice"
NothingFreedTwice == ~late => NothingEverFreedTwice

\* Every command returns to its handler, if SPF answers or the restart of the
\* subsystem is notified; no wake-up is lost and the timeout is not needed (a wait
\* may time out, but nothing says that it must).
EveryCommandReturns == \A s \in Sig :
  client[s].pc = "waiting" ~> client[s].pc \in {"idle", "admitted"}

\* gsl_signal_set on a packet that comes too late: "there is a delay packet
\* received, just ignore it".  The code does not keep this: README, section 4.
LatePacketsAreIgnored == \A s \in Sig :
  client[s].pc = "leaving" => client[s].rsp \in {NoToken, client[s].token}
=============================================================================
