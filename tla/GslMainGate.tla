----------------------------- MODULE GslMainGate -----------------------------
(***************************************************************************)
(* The gate of gsl_main.c between the client's calls and run-time graph    *)
(* modification (RTGM): struct gsl_rtgm_state_info, the helpers around it, *)
(* gsl_rtc_callback, which runs on the thread of the tuning tool (QACT),   *)
(* and the client's calls as far as the gate sees them.                    *)
(*                                                                         *)
(* QACT sends PREPARE_CHANGE_GRAPH for each graph it is about to change,   *)
(* then CHANGE_GRAPH for each in the same order.  PREPARE waits until no   *)
(* client call is in progress, counts itself in and stops the graph if it  *)
(* is started; CHANGE starts it again and counts itself out.  Meanwhile    *)
(* the client's calls are refused, dropped or blocked.                     *)
(***************************************************************************)
EXTENDS Integers, Sequences, FiniteSets, SequencesExt

CONSTANTS
  Client,       \* threads that call GSL
  Graph,        \* graph handles
  OwnerOf,      \* [Graph -> the client that opened it]
  Faults,       \* what may fail during RTGM: see RtgmStep
  MaxPrepared,  \* bound: how many PREPAREs QACT sends before the CHANGEs
  MaxInProg,    \* bound: PREPAREs that were never counted out
  MaxListed,    \* bound: entries of the restart list
  Rtc,          \* QACT's thread
  Free,         \* nobody: the holder of a free lock
  NoGraph       \* no graph

RtgmStep == {"STOP", "PREPARE", "CHANGE", "START"}

ASSUME GraphsType == IsFiniteSet(Graph)
ASSUME OwnersType == OwnerOf \in [Graph -> Client]
ASSUME FaultsType == Faults \subseteq RtgmStep
ASSUME BoundsType == {MaxPrepared, MaxInProg, MaxListed} \subseteq Nat \ {0}
ASSUME NamesAreDistinct == Rtc # Free /\ {Rtc, Free} \cap Client = {} /\ NoGraph \notin Graph

VARIABLES
  num_rtgm_in_prog,       \* struct gsl_rtgm_state_info: PREPAREs without CHANGE
  client_op_in_prog,      \* ... a client call is in progress
  signalled,              \* ... its signal, which has no lock of its own
  graph_hdl_lock,         \* Rtc, while it holds it over more than one step
  open_close_lock,        \* its holder
  graph_state,            \* [Graph -> state]
  restart_handle_list,    \* graphs that RTGM has stopped, in that order
  restart_list_position,  \* how many of them it has started again
  restart_list_room,      \* the entries the list was allocated for
  client,                 \* [Client -> its call]
  rtc,                    \* QACT's current request
  prepared,               \* prepared graphs QACT still has to change
  changing,               \* QACT has begun to send the CHANGEs
  wanted,                 \* history: the state the client left each graph in
  rtgm_failed             \* history: a request of RTGM has failed

gate == <<num_rtgm_in_prog, client_op_in_prog, signalled>>
locks == <<graph_hdl_lock, open_close_lock>>
restart == <<restart_handle_list, restart_list_position, restart_list_room>>
graphs == <<graph_state, wanted>>
qact == <<prepared, changing, rtgm_failed>>
vars == <<gate, locks, restart, graphs, qact, client, rtc>>

IdleClient == [pc |-> "idle", op |-> "none", graph |-> NoGraph]
IdleRtc == [pc |-> "idle", graph |-> NoGraph]

Init ==
  /\ num_rtgm_in_prog = 0 /\ client_op_in_prog = FALSE /\ signalled = FALSE
  /\ graph_hdl_lock = Free /\ open_close_lock = Free
  /\ graph_state = [g \in Graph |-> "CLOSED"] /\ wanted = graph_state
  /\ restart_handle_list = <<>>
  /\ restart_list_position = 0 /\ restart_list_room = 0
  /\ client = [c \in Client |-> IdleClient] /\ rtc = IdleRtc
  /\ prepared = <<>> /\ changing = FALSE /\ rtgm_failed = FALSE

ClientAt(c, label) == client[c].pc = label
ClientGoto(c, label) == client' = [client EXCEPT ![c].pc = label]
ClientReturns(c) == client' = [client EXCEPT ![c] = IdleClient]
RtcAt(label) == rtc.pc = label
RtcGoto(label) == rtc' = [rtc EXCEPT !.pc = label]

\* Everywhere but in GET_UC_INFO graph_hdl_lock is held over one step only.
HdlLockFree == graph_hdl_lock = Free

-----------------------------------------------------------------------------
(* The client's calls.  The graph operations themselves are those of GslGraph;
   here a call changes the state of its graph at most. *)

Ioctl == {"start", "stop"}
Dropped == {"set"}             \* gsl_set_cal, gsl_set_config, gsl_get_tagged_...
Blocking == {"read", "close"}  \* gsl_read, gsl_write, gsl_close

Call(c) == \E g \in Graph, op \in Ioctl \cup Dropped \cup Blocking :
  /\ ClientAt(c, "idle") /\ OwnerOf[g] = c
  /\ client' = [client EXCEPT ![c] = [pc |-> "gate", op |-> op, graph |-> g]]
  /\ UNCHANGED <<gate, locks, restart, graphs, qact, rtc>>

\* gsl_main_start_client_op and gsl_main_start_client_op_blocking: the call is let
\* in.
Admit(c) ==
  /\ ClientAt(c, "gate") /\ HdlLockFree /\ num_rtgm_in_prog = 0
  /\ client_op_in_prog' = TRUE
  /\ ClientGoto(c, "inside")
  /\ UNCHANGED <<num_rtgm_in_prog, signalled, locks, restart, graphs, qact, rtc>>

\* ... or not: gsl_ioctl fails and still goes through the end of the call, the
\* setters and getters return AR_EOK, the others wait.
Refuse(c) ==
  /\ ClientAt(c, "gate") /\ HdlLockFree /\ num_rtgm_in_prog > 0
  /\ \/ client[c].op \in Ioctl /\ ClientGoto(c, "end")
     \/ client[c].op \in Dropped /\ ClientReturns(c)
     \/ client[c].op \in Blocking /\ ClientGoto(c, "blocked")
  /\ UNCHANGED <<gate, locks, restart, graphs, qact, rtc>>

\* gsl_signal_timedwait: the wait returns, and then the signal is cleared.
ClientWakes(c) ==
  /\ ClientAt(c, "blocked") /\ signalled /\ ClientGoto(c, "clear")
  /\ UNCHANGED <<gate, locks, restart, graphs, qact, rtc>>

ClientClears(c) ==
  /\ ClientAt(c, "clear") /\ signalled' = FALSE /\ ClientGoto(c, "gate")
  /\ UNCHANGED <<num_rtgm_in_prog, client_op_in_prog, locks, restart, graphs, qact, rtc>>

\* The call returns the error and was never in progress.
ClientTimesOut(c) ==
  /\ ClientAt(c, "blocked") /\ ClientReturns(c)
  /\ UNCHANGED <<gate, locks, restart, graphs, qact, rtc>>

SetState(g, state) ==
  /\ graph_state' = [graph_state EXCEPT ![g] = state]
  /\ wanted' = [wanted EXCEPT ![g] = state]

\* The body of a call other than gsl_close; a handle that is not open is refused.
Work(c) == LET g == client[c].graph IN
  /\ ClientAt(c, "inside") /\ client[c].op # "close" /\ HdlLockFree
  /\ IF graph_state[g] = "CLOSED" \/ client[c].op \notin Ioctl
     THEN UNCHANGED graphs
     ELSE SetState(g, IF client[c].op = "start" THEN "STARTED" ELSE "OPENED")
  /\ ClientGoto(c, "end")
  /\ UNCHANGED <<gate, locks, restart, qact, rtc>>

\* gsl_close of a handle that is not open returns from between start and end.
CloseInvalid(c) ==
  /\ ClientAt(c, "inside") /\ client[c].op = "close" /\ HdlLockFree
  /\ graph_state[client[c].graph] = "CLOSED"
  /\ ClientReturns(c)
  /\ UNCHANGED <<gate, locks, restart, graphs, qact, rtc>>

CloseStop(c) ==
  /\ ClientAt(c, "inside") /\ client[c].op = "close" /\ HdlLockFree
  /\ graph_state[client[c].graph] # "CLOSED"
  /\ SetState(client[c].graph, "OPENED")
  /\ ClientGoto(c, "closing")
  /\ UNCHANGED <<gate, locks, restart, qact, rtc>>

\* gsl_graph_close, and gsl_open, under open_close_lock.
TakeOpenClose(c) ==
  /\ \/ ClientAt(c, "closing") /\ ClientGoto(c, "closed")
     \/ ClientAt(c, "opening") /\ ClientGoto(c, "opened")
  /\ open_close_lock = Free /\ open_close_lock' = c
  /\ UNCHANGED <<gate, graph_hdl_lock, restart, graphs, qact, rtc>>

CloseDone(c) ==
  /\ ClientAt(c, "closed") /\ open_close_lock' = Free
  /\ ClientGoto(c, "release")
  /\ UNCHANGED <<gate, graph_hdl_lock, restart, graphs, qact, rtc>>

\* release_graph_handle, gsl_graph_deinit, and the graph is freed.
Release(c) ==
  /\ ClientAt(c, "release") /\ HdlLockFree
  /\ SetState(client[c].graph, "CLOSED")
  /\ ClientGoto(c, "end")
  /\ UNCHANGED <<gate, locks, restart, qact, rtc>>

\* gsl_main_end_client_op.
EndClientOp(c) ==
  /\ ClientAt(c, "end") /\ HdlLockFree
  /\ client_op_in_prog' = FALSE /\ signalled' = TRUE
  /\ ClientReturns(c)
  /\ UNCHANGED <<num_rtgm_in_prog, locks, restart, graphs, qact, rtc>>

\* gsl_open does not pass the gate.
Open(c) == \E g \in Graph :
  /\ ClientAt(c, "idle") /\ OwnerOf[g] = c /\ graph_state[g] = "CLOSED" /\ HdlLockFree
  /\ client' = [client EXCEPT ![c] = [pc |-> "opening", op |-> "open", graph |-> g]]
  /\ UNCHANGED <<gate, locks, restart, graphs, qact, rtc>>

OpenDone(c) ==
  /\ ClientAt(c, "opened") /\ open_close_lock' = Free
  /\ SetState(client[c].graph, "OPENED")
  /\ ClientReturns(c)
  /\ UNCHANGED <<gate, graph_hdl_lock, restart, qact, rtc>>

-----------------------------------------------------------------------------
(* gsl_rtc_callback: GSL_RTC_PREPARE_CHANGE_GRAPH. *)

Prepare == \E g \in Graph :
  /\ RtcAt("idle") /\ ~changing /\ Len(prepared) < MaxPrepared
  /\ num_rtgm_in_prog < MaxInProg /\ Len(restart_handle_list) < MaxListed
  /\ rtc' = [pc |-> "prepare gate", graph |-> g]
  /\ UNCHANGED <<gate, locks, restart, graphs, qact, client>>

\* Mutant of PrepareGate: the flag is not looked at.
PrepareGateUnchecked ==
  /\ RtcAt("prepare gate") /\ num_rtgm_in_prog' = num_rtgm_in_prog + 1
  /\ RtcGoto("prepare lock")
  /\ UNCHANGED <<client_op_in_prog, signalled, locks, restart, graphs, qact, client>>

\* It waits for the client's call, or counts itself in.
PrepareGate ==
  /\ RtcAt("prepare gate")
  /\ \/ client_op_in_prog /\ RtcGoto("blocked") /\ UNCHANGED num_rtgm_in_prog
     \/ /\ ~client_op_in_prog /\ RtcGoto("prepare lock")
        /\ num_rtgm_in_prog' = num_rtgm_in_prog + 1
  /\ UNCHANGED <<client_op_in_prog, signalled, locks, restart, graphs, qact, client>>

RtcWakes ==
  /\ RtcAt("blocked") /\ signalled /\ RtcGoto("clear")
  /\ UNCHANGED <<gate, locks, restart, graphs, qact, client>>

RtcClears ==
  /\ RtcAt("clear") /\ signalled' = FALSE /\ RtcGoto("prepare gate")
  /\ UNCHANGED <<num_rtgm_in_prog, client_op_in_prog, locks, restart, graphs, qact, client>>

\* The request fails before it has counted itself in.
RtcTimesOut ==
  /\ RtcAt("blocked") /\ rtc' = IdleRtc
  /\ UNCHANGED <<gate, locks, restart, graphs, qact, client>>

\* Every other request, and PREPARE from here on, begins by taking the lock.
RtcTakesOpenClose ==
  /\ \/ RtcAt("prepare lock") /\ RtcGoto("prepare")
     \/ RtcAt("change lock") /\ RtcGoto("change")
     \/ RtcAt("request lock") /\ RtcGoto("request")
  /\ open_close_lock = Free /\ open_close_lock' = Rtc
  /\ UNCHANGED <<gate, graph_hdl_lock, restart, graphs, qact, client>>

\* A request that fails gives the lock back (PREPARE even twice) and no more: it
\* stays counted in.  QACT does not go on with the graph.
RtgmFails ==
  /\ open_close_lock' = Free /\ rtc' = IdleRtc
  /\ rtgm_failed' = TRUE
  /\ prepared' = IF changing THEN Tail(prepared) ELSE prepared
  /\ changing' = (changing /\ Len(prepared) > 1)

\* gsl_ctxt.num_graphs: the handles given out, those of a gsl_open under way included.
NumGraphs == Cardinality({g \in Graph : graph_state[g] # "CLOSED" \/
               \E c \in Client : client[c].op = "open" /\ client[c].graph = g})

\* The list is allocated for the first graph that is stopped, before the stop.
AllocateList ==
  restart_list_room' = IF restart_list_room = 0 THEN NumGraphs ELSE restart_list_room

\* A started graph is stopped and noted for the restart.
PrepareStop == LET g == rtc.graph IN
  /\ RtcAt("prepare")
  /\ \/ /\ graph_state[g] = "OPENED" /\ RtcGoto("prepare graph")
        /\ UNCHANGED <<restart, graph_state, open_close_lock, qact>>
     \/ /\ graph_state[g] = "STARTED" /\ RtcGoto("prepare graph")
        /\ AllocateList
        /\ graph_state' = [graph_state EXCEPT ![g] = "OPENED"]
        /\ restart_handle_list' = Append(restart_handle_list, g)
        /\ UNCHANGED <<restart_list_position, open_close_lock, qact>>
     \/ /\ graph_state[g] = "STARTED" /\ "STOP" \in Faults /\ RtgmFails
        /\ AllocateList
        /\ UNCHANGED <<restart_handle_list, restart_list_position, graph_state>>
     \/ /\ graph_state[g] = "CLOSED" /\ RtgmFails
        /\ UNCHANGED <<restart, graph_state>>
  /\ UNCHANGED <<gate, graph_hdl_lock, wanted, client>>

\* gsl_rtc_internal_prepare_change_graph.
PrepareGraph ==
  /\ RtcAt("prepare graph")
  /\ \/ /\ open_close_lock' = Free /\ rtc' = IdleRtc
        /\ prepared' = Append(prepared, rtc.graph)
        /\ UNCHANGED <<changing, rtgm_failed>>
     \/ "PREPARE" \in Faults /\ RtgmFails
  /\ UNCHANGED <<gate, graph_hdl_lock, restart, graphs, client>>

-----------------------------------------------------------------------------
(* GSL_RTC_CHANGE_GRAPH. *)

Change ==
  /\ RtcAt("idle") /\ prepared # <<>>
  /\ changing' = TRUE
  /\ rtc' = [pc |-> "change lock", graph |-> Head(prepared)]
  /\ UNCHANGED <<gate, locks, restart, graphs, prepared, rtgm_failed, client>>

\* gsl_rtc_internal_change_graph and gsl_graph_change_set_config_helper.
ChangeGraph ==
  /\ RtcAt("change")
  /\ \/ /\ graph_state[rtc.graph] # "CLOSED" /\ RtcGoto("restart")
        /\ UNCHANGED <<open_close_lock, qact>>
     \/ (graph_state[rtc.graph] = "CLOSED" \/ "CHANGE" \in Faults) /\ RtgmFails
  /\ UNCHANGED <<gate, graph_hdl_lock, restart, graphs, client>>

ToRestart ==
  /\ restart_list_position < Len(restart_handle_list)
  /\ restart_handle_list[restart_list_position + 1] = rtc.graph

\* Mutant of OneRestarted: the list is freed with the first restart.
OneRestartedFrees ==
  restart_handle_list' = <<>> /\ restart_list_position' = 0 /\ restart_list_room' = 0

\* The list is freed with the last one.
OneRestarted ==
  IF restart_list_position + 1 = Len(restart_handle_list)
  THEN restart_handle_list' = <<>> /\ restart_list_position' = 0 /\ restart_list_room' = 0
  ELSE /\ restart_list_position' = restart_list_position + 1
       /\ UNCHANGED <<restart_handle_list, restart_list_room>>

\* A failed start is logged only.
Restart == LET g == rtc.graph IN
  /\ RtcAt("restart") /\ RtcGoto("leave")
  /\ open_close_lock' = Free
  /\ \/ /\ ToRestart /\ OneRestarted
        /\ \/ /\ graph_state' = [graph_state EXCEPT ![g] = "STARTED"]
              /\ UNCHANGED rtgm_failed
           \/ /\ "START" \in Faults /\ rtgm_failed' = TRUE
              /\ UNCHANGED graph_state
     \/ ~ToRestart /\ UNCHANGED <<restart, graph_state, rtgm_failed>>
  /\ UNCHANGED <<gate, graph_hdl_lock, wanted, prepared, changing, client>>

\* Mutant of Leave: nobody is told that RTGM is over.
LeaveSilently ==
  /\ RtcAt("leave") /\ rtc' = IdleRtc
  /\ num_rtgm_in_prog' = num_rtgm_in_prog - 1
  /\ prepared' = Tail(prepared) /\ changing' = (Len(prepared) > 1)
  /\ UNCHANGED <<client_op_in_prog, signalled, locks, restart, graphs, rtgm_failed, client>>

Leave ==
  /\ RtcAt("leave") /\ rtc' = IdleRtc
  /\ num_rtgm_in_prog' = num_rtgm_in_prog - 1
  /\ signalled' = (signalled \/ num_rtgm_in_prog' = 0)
  /\ prepared' = Tail(prepared) /\ changing' = (Len(prepared) > 1)
  /\ UNCHANGED <<client_op_in_prog, locks, restart, graphs, rtgm_failed, client>>

-----------------------------------------------------------------------------
(* The requests outside RTGM: GSL_RTC_GET_UC_INFO and the calibration data
   (GSL_RTC_GET_PERSIST_DATA and so on). *)

Request ==
  /\ RtcAt("idle")
  /\ \/ /\ rtc' = [pc |-> "uc info", graph |-> NoGraph]
        /\ graph_hdl_lock' = Rtc
     \/ /\ \E g \in Graph : rtc' = [pc |-> "request lock", graph |-> g]
        /\ UNCHANGED graph_hdl_lock
  /\ UNCHANGED <<gate, open_close_lock, restart, graphs, qact, client>>

\* GET_UC_INFO holds graph_hdl_lock while it waits for open_close_lock.
UcInfo ==
  /\ RtcAt("uc info") /\ open_close_lock = Free
  /\ graph_hdl_lock' = Free /\ rtc' = IdleRtc
  /\ UNCHANGED <<gate, open_close_lock, restart, graphs, qact, client>>

\* The graph is looked up under open_close_lock and then used.
RequestLookUp ==
  /\ RtcAt("request")
  /\ \/ /\ graph_state[rtc.graph] # "CLOSED" /\ RtcGoto("using")
        /\ UNCHANGED open_close_lock
     \/ /\ graph_state[rtc.graph] = "CLOSED" /\ rtc' = IdleRtc
        /\ open_close_lock' = Free
  /\ UNCHANGED <<gate, graph_hdl_lock, restart, graphs, qact, client>>

RequestDone ==
  /\ RtcAt("using") /\ rtc' = IdleRtc /\ open_close_lock' = Free
  /\ UNCHANGED <<gate, graph_hdl_lock, restart, graphs, qact, client>>

-----------------------------------------------------------------------------
ClientStep(c) ==
  \/ Admit(c) \/ Refuse(c) \/ ClientWakes(c) \/ ClientClears(c) \/ Work(c)
  \/ CloseInvalid(c) \/ CloseStop(c) \/ TakeOpenClose(c) \/ CloseDone(c)
  \/ Release(c) \/ EndClientOp(c) \/ OpenDone(c)

RtcStep ==
  \/ PrepareGate \/ RtcWakes \/ RtcClears \/ RtcTakesOpenClose \/ PrepareStop
  \/ PrepareGraph \/ ChangeGraph \/ Restart \/ Leave \/ UcInfo
  \/ RequestLookUp \/ RequestDone

Next ==
  \/ \E c \in Client : Call(c) \/ Open(c) \/ ClientTimesOut(c) \/ ClientStep(c)
  \/ Prepare \/ Change \/ Request \/ RtcTimesOut \/ RtcStep

Spec == Init /\ [][Next]_vars

\* Threads run on, waiting for a lock included; QACT sends the CHANGEs of what it
\* has prepared.  No timeout is counted on.
FairSpec ==
  /\ Spec
  /\ \A c \in Client : SF_vars(ClientStep(c))
  /\ SF_vars(RtcStep) /\ SF_vars(Change)

-----------------------------------------------------------------------------
ClientPc == {"idle", "gate", "blocked", "clear", "inside", "closing", "closed",
             "release", "opening", "opened", "end"}
RtcPc == {"idle", "prepare gate", "blocked", "clear", "prepare lock", "prepare",
          "prepare graph", "change lock", "change", "restart", "leave", "uc info",
          "request lock", "request", "using"}
State == {"CLOSED", "OPENED", "STARTED"}

\* The type of every variable; num_rtgm_in_prog, which is unsigned, is never
\* counted below zero.
TypeOK ==
  /\ num_rtgm_in_prog \in 0 .. MaxInProg
  /\ {client_op_in_prog, signalled, changing, rtgm_failed} \subseteq BOOLEAN
  /\ graph_hdl_lock \in {Rtc, Free} /\ open_close_lock \in Client \cup {Rtc, Free}
  /\ {graph_state, wanted} \subseteq [Graph -> State]
  /\ restart_handle_list \in Seq(Graph) /\ prepared \in Seq(Graph)
  /\ restart_list_position \in 0 .. Len(restart_handle_list)
  /\ restart_list_room \in Nat
  /\ client \in [Client -> [pc : ClientPc, graph : Graph \cup {NoGraph},
                 op : {"none", "open"} \cup Ioctl \cup Dropped \cup Blocking]]
  /\ rtc \in [pc : RtcPc, graph : Graph \cup {NoGraph}]

Inside(c) == client[c].pc \in {"inside", "closing", "closed", "release"}

\* "check that no other client operation is in progress before starting RTGM, if it
\* is then wait for it to complete" (gsl_rtc_callback), and the client's calls the
\* other way round: no call works on a graph while RTGM is in progress.
RtgmExcludesClient == num_rtgm_in_prog > 0 => \A c \in Client : ~Inside(c)

\* "the graph would have been stopped by PREPARE_CHANGE_GRAPH so start it back again"
\* (gsl_rtc_callback): when RTGM is over every graph is as its client left it.
RestartedAfterRtgm ==
  num_rtgm_in_prog = 0 /\ ~rtgm_failed => graph_state = wanted

\* A call that waits for RTGM to end goes on once it has ended, before its timeout,
\* unless a request of RTGM has failed and stays counted in.
BlockedClientGoesOn == \A c \in Client :
  ClientAt(c, "blocked") ~> ~ClientAt(c, "blocked") \/ rtgm_failed

\* The restart list has room for each graph that is put on it: "max size is all
\* graphs" (gsl_rtc_callback).  The code does not keep this: README, section 4.
RestartListFits == Len(restart_handle_list) <= restart_list_room

\* open_close_lock is "used to serialize open and close operations": a graph that a
\* request has looked up under it is not freed while the request works on it.
\* The code does not keep this: README, section 4.
RtcUsesLiveGraphs ==
  rtc.pc \in {"prepare graph", "restart", "using"} => graph_state[rtc.graph] # "CLOSED"
=============================================================================
