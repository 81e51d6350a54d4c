------------------------------ MODULE GslGraph ------------------------------
(***************************************************************************)
(* How graph handles share subgraphs (gsl/src/gsl_graph.c and              *)
(* gsl_subgraph_pool.c).  Every graph has a list of GKV nodes; a node      *)
(* holds the subgraphs of its graph key vector.  The pool counts, for each *)
(* subgraph, the nodes that hold it (open_ref_cnt), that started it        *)
(* (start_ref_cnt) and that stopped it (stop_ref_cnt).  GSL commands the   *)
(* DSP framework (SPF) only for the subgraphs whose counts say that no     *)
(* other node is concerned.                                                *)
(*                                                                         *)
(* A client makes one call at a time on a handle; calls on different       *)
(* handles run concurrently.  Calls that start or stop subgraphs run under *)
(* start_stop_lock, calls that open or close them under open_close_lock,   *)
(* and each keeps its lock while it waits for SPF's answer.                *)
(***************************************************************************)
EXTENDS Naturals, FiniteSets

CONSTANTS
  SG,        \* subgraph ids
  Graph,     \* graph handles
  GKV,       \* graph key vectors known to ACDB
  SgsOf,     \* the subgraphs ACDB returns for a graph key vector
  GkvOf,     \* the graph key vectors the client of a handle ever selects
  Matching,  \* the subgraphs that match the properties a client passes
  Faults,    \* the SPF commands that may fail; a failed one changes nothing
  MaxRefs,   \* bound: nobody opens a subgraph whose counts leaked beyond it
  Free       \* nobody: the holder of a free lock

SpfCmd == {"OPEN", "SET_CFG", "CLOSE", "START", "SUSPEND", "STOP"}

ASSUME FiniteNodes == IsFiniteSet(Graph) /\ IsFiniteSet(GKV)
ASSUME SgsOfType == SgsOf \in [GKV -> SUBSET SG]
ASSUME GkvOfType == GkvOf \in [Graph -> SUBSET GKV]
ASSUME ParametersType == Matching \subseteq SG /\ Faults \subseteq SpfCmd
ASSUME MaxRefsType == MaxRefs \in Nat
ASSUME FreeIsNoGraph == Free \notin Graph

Node == Graph \X GKV

VARIABLES
  graph_state,    \* [Graph -> state]: graph->graph_state, "NONE" before gsl_open
  gkv_list,       \* the nodes linked in their graph's gkv_list
  sg_array,       \* [Node -> set]: the subgraphs the node has references to
  sg_start_mask,  \* [Node -> set]: the subgraphs whose start bit is set
  sg_stop_mask,   \* [Node -> set]: the subgraphs whose stop bit is set
  open_ref_cnt, start_ref_cnt, stop_ref_cnt,  \* [SG -> Nat]: the pool's counts
  start_stop_lock, open_close_lock,           \* the graph whose call holds it
  call,           \* [Graph -> record]: the client call running on the handle
  spf             \* [SG -> state]: the subgraph on the DSP

pool == <<open_ref_cnt, start_ref_cnt, stop_ref_cnt>>
masks == <<sg_start_mask, sg_stop_mask>>
locks == <<start_stop_lock, open_close_lock>>
vars == <<graph_state, gkv_list, sg_array, masks, pool, locks, call, spf>>

NodesOf(g) == {n \in gkv_list : n[1] = g}

-----------------------------------------------------------------------------
(* The calls a client has in progress.  todo: the nodes the call has yet to
   treat; cmd: the SPF command it waits for, about subgraphs sgs of node.
   ChangingOp are the calls of GslGraphChange. *)

ChangingOp == {"change", "close_props"}
SsOp == {"start", "suspend", "stop", "stop_props", "close:stop", "remove:stop"}
OcOp == {"open", "add", "close", "remove"} \cup ChangingOp
WaitOp == {"close:wait", "remove:wait"}
Op == {"idle"} \cup SsOp \cup OcOp \cup WaitOp

NoNode == <<>>
NoCmd == "none"
Call(op, todo, node) ==
  [op |-> op, todo |-> todo, node |-> node, cmd |-> NoCmd, sgs |-> {}]
CallRecord == [op : Op, todo : SUBSET Node, node : Node \cup {NoNode},
               cmd : SpfCmd \cup {NoCmd}, sgs : SUBSET SG]
Idle == Call("idle", {}, NoNode)

IsIdle(g) == call[g].op = "idle"
Working(g, op) == call[g].op = op /\ call[g].cmd = NoCmd
Waiting(g, op, cmd) == call[g].op = op /\ call[g].cmd = cmd

SetCall(g, c) == call' = [call EXCEPT ![g] = c]

\* gsl_send_spf_cmd_wait_for_basic_rsp: the call sleeps until SPF answers.
SendSpfCmd(g, n, cmd, sgs) ==
  SetCall(g, [op |-> call[g].op, todo |-> call[g].todo,
              node |-> n, cmd |-> cmd, sgs |-> sgs])

\* The call is done with node n and goes on to the others.
NextNode(g, n) ==
  SetCall(g, Call(call[g].op, call[g].todo \ {n},
                  IF call[g].op = "remove:stop" THEN n ELSE NoNode))

Init ==
  /\ graph_state = [g \in Graph |-> "NONE"]
  /\ gkv_list = {}
  /\ sg_array = [n \in Node |-> {}]
  /\ sg_start_mask = [n \in Node |-> {}]
  /\ sg_stop_mask = [n \in Node |-> {}]
  /\ open_ref_cnt = [s \in SG |-> 0]
  /\ start_ref_cnt = [s \in SG |-> 0]
  /\ stop_ref_cnt = [s \in SG |-> 0]
  /\ start_stop_lock = Free
  /\ open_close_lock = Free
  /\ call = [g \in Graph |-> Idle]
  /\ spf = [s \in SG |-> "CLOSED"]

-----------------------------------------------------------------------------
(* SPF, as the rest of GSL relies on it: a command it accepts moves every
   subgraph it names to one state. *)

SpfDoes(sgs, state) == spf' = [s \in SG |-> IF s \in sgs THEN state ELSE spf[s]]
SpfMayFail(cmd) == cmd \in Faults
\* A subgraph that an earlier close left open cannot be opened again.
SpfCanOpen(sgs) == \A s \in sgs : spf[s] = "CLOSED"

-----------------------------------------------------------------------------
(* The subgraph pool. *)

Bump(cnt, sgs) == [s \in SG |-> IF s \in sgs THEN cnt[s] + 1 ELSE cnt[s]]
Drop(cnt, sgs) ==
  [s \in SG |-> IF s \in sgs /\ cnt[s] > 0 THEN cnt[s] - 1 ELSE cnt[s]]

\* gsl_sg_pool_prune_sg_list: what only this node refers to.
Pruned(sgs) == {s \in sgs : open_ref_cnt[s] = 1}

\* gsl_sg_pool_remove: drop a reference, free the object with the last one.  The
\* pool creates objects zeroed, so a freed object's counts are those of the next.
PoolRemove(sgs) ==
  LET freed == {s \in sgs : open_ref_cnt[s] <= 1}
      Fresh(cnt) == [s \in SG |-> IF s \in freed THEN 0 ELSE cnt[s]]
  IN /\ open_ref_cnt' = Drop(open_ref_cnt, sgs)
     /\ start_ref_cnt' = Fresh(start_ref_cnt)
     /\ stop_ref_cnt' = Fresh(stop_ref_cnt)

-----------------------------------------------------------------------------
(* GSL_CMD_START: gsl_graph_start. *)

TakeSs(g, op, todo) ==
  /\ start_stop_lock = Free
  /\ start_stop_lock' = g
  /\ SetCall(g, Call(op, todo, NoNode))
  /\ UNCHANGED <<gkv_list, sg_array, masks, pool, open_close_lock, spf>>

ReleaseSs(g, c) ==
  /\ start_stop_lock' = Free
  /\ SetCall(g, c)
  /\ UNCHANGED open_close_lock

Start(g) ==
  /\ IsIdle(g) /\ graph_state[g] # "NONE"
  /\ TakeSs(g, "start", NodesOf(g))
  /\ UNCHANGED graph_state

StartList(n) == {s \in sg_array[n] : start_ref_cnt[s] = 0}

\* Every subgraph of n now counts n among those that started it.
CountStarted(n) ==
  /\ start_ref_cnt' = Bump(start_ref_cnt, sg_array[n] \ sg_start_mask[n])
  /\ sg_start_mask' = [sg_start_mask EXCEPT ![n] = sg_array[n]]
  /\ stop_ref_cnt' = Drop(stop_ref_cnt, sg_stop_mask[n])
  /\ sg_stop_mask' = [sg_stop_mask EXCEPT ![n] = {}]
  /\ UNCHANGED open_ref_cnt

StartNode(g) == \E n \in call[g].todo :
  /\ Working(g, "start")
  /\ \/ /\ sg_start_mask[n] = sg_array[n]
        /\ NextNode(g, n)
        /\ UNCHANGED <<masks, pool>>
     \/ /\ sg_start_mask[n] # sg_array[n] /\ StartList(n) = {}
        /\ CountStarted(n)
        /\ NextNode(g, n)
     \/ /\ sg_start_mask[n] # sg_array[n] /\ StartList(n) # {}
        /\ SendSpfCmd(g, n, "START", StartList(n))
        /\ UNCHANGED <<masks, pool>>
  /\ UNCHANGED <<graph_state, gkv_list, sg_array, locks, spf>>

StartOk(g) ==
  /\ Waiting(g, "start", "START")
  /\ SpfDoes(call[g].sgs, "RUNNING")
  /\ CountStarted(call[g].node)
  /\ NextNode(g, call[g].node)
  /\ UNCHANGED <<graph_state, gkv_list, sg_array, locks>>

\* The nodes started before the failing one stay started; so does the state.
StartFailed(g) ==
  /\ Waiting(g, "start", "START") /\ SpfMayFail("START")
  /\ ReleaseSs(g, Idle)
  /\ UNCHANGED <<graph_state, gkv_list, sg_array, masks, pool, spf>>

StartDone(g) ==
  /\ Working(g, "start") /\ call[g].todo = {}
  /\ graph_state' = [graph_state EXCEPT ![g] = "STARTED"]
  /\ ReleaseSs(g, Idle)
  /\ UNCHANGED <<gkv_list, sg_array, masks, pool, spf>>

-----------------------------------------------------------------------------
(* GSL_CMD_SUSPEND: gsl_graph_suspend. *)

Suspend(g) ==
  /\ IsIdle(g) /\ graph_state[g] = "STARTED"
  /\ TakeSs(g, "suspend", {n \in NodesOf(g) : sg_start_mask[n] # {}})
  /\ UNCHANGED graph_state

OnlyStarter(n) == {s \in sg_start_mask[n] : start_ref_cnt[s] = 1}
StopInsteadList(n) == {s \in OnlyStarter(n) : stop_ref_cnt[s] > 0}
SuspendList(n) == {s \in OnlyStarter(n) : stop_ref_cnt[s] = 0}

CountSuspended(n) ==
  /\ start_ref_cnt' = Drop(start_ref_cnt, sg_start_mask[n])
  /\ sg_start_mask' = [sg_start_mask EXCEPT ![n] = {}]
  /\ UNCHANGED <<open_ref_cnt, stop_ref_cnt, sg_stop_mask>>

\* gsl_graph_suspend_single_gkv after the subgraphs to stop were stopped.
SuspendRest(g, n) ==
  \/ /\ SuspendList(n) = {}
     /\ CountSuspended(n)
     /\ NextNode(g, n)
  \/ /\ SuspendList(n) # {}
     /\ SendSpfCmd(g, n, "SUSPEND", SuspendList(n))
     /\ UNCHANGED <<masks, pool>>

SuspendNode(g) == \E n \in call[g].todo :
  /\ Working(g, "suspend")
  /\ \/ StopInsteadList(n) = {} /\ SuspendRest(g, n)
     \/ /\ StopInsteadList(n) # {}
        /\ SendSpfCmd(g, n, "STOP", StopInsteadList(n))
        /\ UNCHANGED <<masks, pool>>
  /\ UNCHANGED <<graph_state, gkv_list, sg_array, locks, spf>>

StopInsteadOk(g) ==
  /\ Waiting(g, "suspend", "STOP")
  /\ SpfDoes(call[g].sgs, "STOPPED")
  /\ SuspendRest(g, call[g].node)
  /\ UNCHANGED <<graph_state, gkv_list, sg_array, locks>>

SuspendOk(g) ==
  /\ Waiting(g, "suspend", "SUSPEND")
  /\ SpfDoes(call[g].sgs, "SUSPENDED")
  /\ CountSuspended(call[g].node)
  /\ NextNode(g, call[g].node)
  /\ UNCHANGED <<graph_state, gkv_list, sg_array, locks>>

SuspendFailed(g) == \E cmd \in {"STOP", "SUSPEND"} :
  /\ Waiting(g, "suspend", cmd) /\ SpfMayFail(cmd)
  /\ ReleaseSs(g, Idle)
  /\ UNCHANGED <<graph_state, gkv_list, sg_array, masks, pool, spf>>

\* The graph's state stays STARTED.
SuspendDone(g) ==
  /\ Working(g, "suspend") /\ call[g].todo = {}
  /\ ReleaseSs(g, Idle)
  /\ UNCHANGED <<graph_state, gkv_list, sg_array, masks, pool, spf>>

-----------------------------------------------------------------------------
(* Stopping: gsl_graph_stop for GSL_CMD_STOP and for gsl_close,
   gsl_graph_stop_with_properties for GSL_CMD_STOP with properties, and the
   stop that comes first in gsl_graph_remove_old. *)

StoppingOp == {"stop", "stop_props", "close:stop", "remove:stop"}
Scope(op, n) == IF op = "stop_props" THEN sg_array[n] \cap Matching ELSE sg_array[n]

\* Mutant of StopList: forgets the other nodes that started the subgraph.
StopListOwnBitOnly(op, n) ==
  {s \in Scope(op, n) :
     s \in sg_start_mask[n] \/ (start_ref_cnt[s] = 0 /\ stop_ref_cnt[s] = 0)}

StopList(op, n) ==
  {s \in Scope(op, n) :
     \/ s \in sg_start_mask[n] /\ start_ref_cnt[s] = 1
     \/ start_ref_cnt[s] = 0 /\ stop_ref_cnt[s] = 0}

CountStopped(op, n) ==
  LET scope == Scope(op, n) IN
  /\ start_ref_cnt' = Drop(start_ref_cnt, scope \cap sg_start_mask[n])
  /\ sg_start_mask' = [sg_start_mask EXCEPT ![n] = @ \ scope]
  /\ stop_ref_cnt' = Bump(stop_ref_cnt, scope \ sg_stop_mask[n])
  /\ sg_stop_mask' = [sg_stop_mask EXCEPT ![n] = @ \cup scope]
  /\ UNCHANGED open_ref_cnt

\* The graph is STOPPED before the first subgraph is.
Stop(g) ==
  /\ IsIdle(g) /\ graph_state[g] = "STARTED"
  /\ graph_state' = [graph_state EXCEPT ![g] = "STOPPED"]
  /\ TakeSs(g, "stop", NodesOf(g))

StopWithProperties(g) == \E n \in NodesOf(g) :
  /\ IsIdle(g)
  /\ TakeSs(g, "stop_props", {n})
  /\ UNCHANGED graph_state

StopNode(g) == \E op \in StoppingOp, n \in call[g].todo :
  /\ Working(g, op)
  /\ \/ StopList(op, n) = {} /\ CountStopped(op, n) /\ NextNode(g, n)
     \/ /\ StopList(op, n) # {}
        /\ SendSpfCmd(g, n, "STOP", StopList(op, n))
        /\ UNCHANGED <<masks, pool>>
  /\ UNCHANGED <<graph_state, gkv_list, sg_array, locks, spf>>

StopOk(g) == \E op \in StoppingOp :
  /\ Waiting(g, op, "STOP")
  /\ SpfDoes(call[g].sgs, "STOPPED")
  /\ CountStopped(op, call[g].node)
  /\ NextNode(g, call[g].node)
  /\ UNCHANGED <<graph_state, gkv_list, sg_array, locks>>

\* What follows the stop: gsl_close and gsl_graph_remove_old go on to close.
AfterStop(g, op) ==
  CASE op = "close:stop"  -> Call("close:wait", {}, NoNode)
    [] op = "remove:stop" -> Call("remove:wait", {}, call[g].node)
    [] OTHER              -> Idle

\* The nodes after the failing one are not stopped at all.
StopFailed(g) == \E op \in StoppingOp :
  /\ Waiting(g, op, "STOP") /\ SpfMayFail("STOP")
  /\ ReleaseSs(g, AfterStop(g, op))
  /\ UNCHANGED <<graph_state, gkv_list, sg_array, masks, pool, spf>>

StopDone(g) == \E op \in StoppingOp :
  /\ Working(g, op) /\ call[g].todo = {}
  /\ ReleaseSs(g, AfterStop(g, op))
  /\ UNCHANGED <<graph_state, gkv_list, sg_array, masks, pool, spf>>

-----------------------------------------------------------------------------
(* Opening: gsl_open (gsl_graph_open) and GSL_CMD_ADD_GRAPH
   (gsl_graph_add_new), which both call gsl_graph_open_single_gkv. *)

\* Mutant of TakeOc: no open_close_lock, so opens and closes overlap.
TakeOcNoLock(g) == open_close_lock' = g

TakeOc(g) == open_close_lock = Free /\ open_close_lock' = g

ReleaseOc(g, c) ==
  /\ open_close_lock' = Free
  /\ SetCall(g, c)
  /\ UNCHANGED start_stop_lock

\* gsl_open with an empty graph key vector: nothing to open yet.
OpenEmpty(g) ==
  /\ IsIdle(g) /\ graph_state[g] = "NONE"
  /\ open_close_lock = Free
  /\ graph_state' = [graph_state EXCEPT ![g] = "OPENED"]
  /\ UNCHANGED <<gkv_list, sg_array, masks, pool, locks, call, spf>>

\* gsl_graph_add_and_prune_sgs_and_connections takes the references.  Which of
\* the connections between subgraphs are new is left open: an OPEN (and, below,
\* a CLOSE) with no subgraph is about connections only.
OpenGkv(g) == \E k \in GkvOf[g] :
  LET n == <<g, k>>
      op == IF graph_state[g] = "NONE" THEN "open" ELSE "add"
  IN /\ IsIdle(g) /\ n \notin gkv_list
     /\ \A s \in SgsOf[k] : start_ref_cnt[s] + stop_ref_cnt[s] <= MaxRefs
     /\ TakeOc(g)
     /\ graph_state' = [graph_state EXCEPT ![g] = IF op = "open" THEN "OPENED" ELSE @]
     /\ sg_array' = [sg_array EXCEPT ![n] = SgsOf[k]]
     /\ open_ref_cnt' = Bump(open_ref_cnt, SgsOf[k])
     /\ SetCall(g, Call(op, {n}, n))
     /\ UNCHANGED <<gkv_list, masks, start_ref_cnt, stop_ref_cnt,
                    start_stop_lock, spf>>

OpeningOp == {"open", "add"}

\* The node enters the graph's list; its masks were allocated zeroed.
LinkNode(g, n) ==
  /\ gkv_list' = gkv_list \cup {n}
  /\ ReleaseOc(g, Idle)
  /\ UNCHANGED <<graph_state, sg_array, masks, pool>>

OpenNode(g) == \E op \in OpeningOp, n \in call[g].todo :
  /\ Working(g, op)
  /\ \/ Pruned(sg_array[n]) = {} /\ LinkNode(g, n)
     \/ /\ SendSpfCmd(g, n, "OPEN", Pruned(sg_array[n]))
        /\ UNCHANGED <<graph_state, gkv_list, sg_array, masks, pool, locks>>
  /\ UNCHANGED spf

\* SPF has opened the subgraphs; gsl_graph_set_sg_cal calibrates them.
OpenOk(g) == \E op \in OpeningOp :
  /\ Waiting(g, op, "OPEN") /\ SpfCanOpen(call[g].sgs)
  /\ SpfDoes(call[g].sgs, "STOPPED")
  /\ \/ call[g].sgs = {} /\ LinkNode(g, call[g].node)
     \/ /\ call[g].sgs # {}
        /\ SendSpfCmd(g, call[g].node, "SET_CFG", call[g].sgs)
        /\ UNCHANGED <<graph_state, gkv_list, sg_array, masks, pool, locks>>

CalOk(g) == \E op \in OpeningOp :
  /\ Waiting(g, op, "SET_CFG")
  /\ LinkNode(g, call[g].node)
  /\ UNCHANGED spf

\* A graph whose calibration failed is closed again on SPF.
CalFailed(g) == \E op \in OpeningOp :
  /\ Waiting(g, op, "SET_CFG") /\ SpfMayFail("SET_CFG")
  /\ SendSpfCmd(g, call[g].node, "CLOSE", call[g].sgs)
  /\ UNCHANGED <<graph_state, gkv_list, sg_array, masks, pool, locks, spf>>

\* Mutant of UndoOpen: the error path returns without the unlock.
UndoOpenKeepsLock(g, op) ==
  /\ PoolRemove(sg_array[call[g].node])
  /\ sg_array' = [sg_array EXCEPT ![call[g].node] = {}]
  /\ graph_state' = [graph_state EXCEPT ![g] = IF op = "open" THEN "NONE" ELSE @]
  /\ SetCall(g, Idle)
  /\ UNCHANGED <<gkv_list, masks, locks>>

\* The references are dropped; a graph that gsl_open was opening is freed.
UndoOpen(g, op) ==
  /\ PoolRemove(sg_array[call[g].node])
  /\ sg_array' = [sg_array EXCEPT ![call[g].node] = {}]
  /\ graph_state' = [graph_state EXCEPT ![g] = IF op = "open" THEN "NONE" ELSE @]
  /\ ReleaseOc(g, Idle)
  /\ UNCHANGED <<gkv_list, masks>>

OpenFailed(g) == \E op \in OpeningOp :
  /\ \/ /\ Waiting(g, op, "OPEN")
        /\ SpfMayFail("OPEN") \/ ~SpfCanOpen(call[g].sgs)
        /\ UNCHANGED spf
     \/ Waiting(g, op, "CLOSE") /\ SpfDoes(call[g].sgs, "CLOSED")
     \/ Waiting(g, op, "CLOSE") /\ SpfMayFail("CLOSE") /\ UNCHANGED spf
  /\ UndoOpen(g, op)

-----------------------------------------------------------------------------
(* Closing: gsl_close, and GSL_CMD_REMOVE_GRAPH (gsl_graph_remove_old). *)

\* Mutant of Close: a started graph is closed without the stop that comes first.
CloseWithoutStop(g) ==
  /\ IsIdle(g) /\ graph_state[g] \in {"OPENED", "STARTED", "STOPPED"}
  /\ start_stop_lock = Free
  /\ SetCall(g, Call("close:wait", {}, NoNode))
  /\ UNCHANGED <<graph_state, gkv_list, sg_array, masks, pool, locks, spf>>

\* gsl_close: stop the graph if its state is STARTED, then close it.
Close(g) ==
  /\ IsIdle(g)
  /\ \/ /\ graph_state[g] = "STARTED"
        /\ graph_state' = [graph_state EXCEPT ![g] = "STOPPED"]
        /\ TakeSs(g, "close:stop", NodesOf(g))
     \/ /\ graph_state[g] \in {"OPENED", "STOPPED"} /\ start_stop_lock = Free
        /\ SetCall(g, Call("close:wait", {}, NoNode))
        /\ UNCHANGED <<graph_state, gkv_list, sg_array, masks, pool, locks, spf>>

\* gsl_graph_remove_old: stop the node if it started anything, then close it.
RemoveGraph(g) == \E n \in NodesOf(g) :
  /\ IsIdle(g)
  /\ \/ /\ sg_start_mask[n] # {}
        /\ start_stop_lock = Free
        /\ start_stop_lock' = g
        /\ SetCall(g, Call("remove:stop", {n}, n))
        /\ UNCHANGED open_close_lock
     \/ /\ sg_start_mask[n] = {} /\ start_stop_lock = Free
        /\ SetCall(g, Call("remove:wait", {}, n))
        /\ UNCHANGED locks
  /\ UNCHANGED <<graph_state, gkv_list, sg_array, masks, pool, spf>>

EnterClose(g) ==
  /\ TakeOc(g)
  /\ \/ call[g].op = "close:wait" /\ SetCall(g, Call("close", NodesOf(g), NoNode))
     \/ call[g].op = "remove:wait"
        /\ SetCall(g, Call("remove", {call[g].node}, call[g].node))
  /\ UNCHANGED <<graph_state, gkv_list, sg_array, masks, pool,
                 start_stop_lock, spf>>

ClosingOp == {"close", "remove"}

\* The tail of gsl_graph_close_single_gkv, and the node is unlinked and freed.
FreeNode(g, n) ==
  /\ PoolRemove(sg_array[n])
  /\ gkv_list' = gkv_list \ {n}
  /\ sg_array' = [sg_array EXCEPT ![n] = {}]
  /\ sg_start_mask' = [sg_start_mask EXCEPT ![n] = {}]
  /\ sg_stop_mask' = [sg_stop_mask EXCEPT ![n] = {}]
  /\ NextNode(g, n)

CloseNode(g) == \E op \in ClosingOp, n \in call[g].todo :
  /\ Working(g, op)
  /\ \/ Pruned(sg_array[n]) = {} /\ FreeNode(g, n)
     \/ /\ SendSpfCmd(g, n, "CLOSE", Pruned(sg_array[n]))
        /\ UNCHANGED <<gkv_list, sg_array, masks, pool>>
  /\ UNCHANGED <<graph_state, locks, spf>>

\* Whether SPF closed the subgraphs or not, GSL forgets them.
CloseAnswered(g) == \E op \in ClosingOp :
  /\ Waiting(g, op, "CLOSE")
  /\ \/ SpfDoes(call[g].sgs, "CLOSED")
     \/ SpfMayFail("CLOSE") /\ UNCHANGED spf
  /\ FreeNode(g, call[g].node)
  /\ UNCHANGED <<graph_state, locks>>

\* gsl_close frees the graph.
CloseDone(g) == \E op \in ClosingOp :
  /\ Working(g, op) /\ call[g].todo = {}
  /\ graph_state' = [graph_state EXCEPT ![g] = IF op = "close" THEN "NONE" ELSE @]
  /\ ReleaseOc(g, Idle)
  /\ UNCHANGED <<gkv_list, sg_array, masks, pool, spf>>

-----------------------------------------------------------------------------
\* What a client may call, and what a call in progress does next.
ClientCall(g) ==
  \/ Start(g) \/ Suspend(g) \/ Stop(g) \/ StopWithProperties(g)
  \/ OpenEmpty(g) \/ OpenGkv(g) \/ Close(g) \/ RemoveGraph(g)

CallStep(g) ==
  \/ StartNode(g) \/ StartOk(g) \/ StartFailed(g) \/ StartDone(g)
  \/ SuspendNode(g) \/ StopInsteadOk(g) \/ SuspendOk(g) \/ SuspendFailed(g)
  \/ SuspendDone(g)
  \/ StopNode(g) \/ StopOk(g) \/ StopFailed(g) \/ StopDone(g)
  \/ OpenNode(g) \/ OpenOk(g) \/ CalOk(g) \/ CalFailed(g) \/ OpenFailed(g)
  \/ EnterClose(g) \/ CloseNode(g) \/ CloseAnswered(g) \/ CloseDone(g)

Next == \E g \in Graph : ClientCall(g) \/ CallStep(g)

Spec == Init /\ [][Next]_vars

\* A call that runs does its next step: SPF answers, or the wait for it times out
\* (gsl_send_spf_cmd), and what the call does besides is straight-line code.
FairSpec == Spec /\ \A g \in Graph : WF_vars(CallStep(g))

-----------------------------------------------------------------------------
\* The type of every variable.  The counts are naturals, which unsigned counters that
\* are decremented once too often would not be.
TypeOK ==
  /\ graph_state \in [Graph -> {"NONE", "OPENED", "STARTED", "STOPPED"}]
  /\ gkv_list \subseteq Node
  /\ sg_array \in [Node -> SUBSET SG]
  /\ sg_start_mask \in [Node -> SUBSET SG]
  /\ sg_stop_mask \in [Node -> SUBSET SG]
  /\ open_ref_cnt \in [SG -> Nat]
  /\ start_ref_cnt \in [SG -> Nat]
  /\ stop_ref_cnt \in [SG -> Nat]
  /\ start_stop_lock \in Graph \cup {Free}
  /\ open_close_lock \in Graph \cup {Free}
  /\ call \in [Graph -> CallRecord]
  /\ spf \in [SG -> {"CLOSED", "STOPPED", "RUNNING", "SUSPENDED"}]

Holders(s) == {n \in Node : s \in sg_array[n]}
Starters(s) == {n \in Node : s \in sg_start_mask[n]}

\* The pool's open count is the number of nodes that hold the subgraph,
\* whatever fails: what gsl_sg_pool_add and gsl_sg_pool_remove keep between
\* them, over every path of gsl_graph_open_single_gkv and close_single_gkv.
OpenRefsExact == \A s \in SG : open_ref_cnt[s] = Cardinality(Holders(s))

\* A subgraph of a linked node stays open on SPF: no other handle's close, nor
\* the undoing of another handle's failed open, closes it.
HeldIsOpen ==
  \A n \in gkv_list : \A s \in sg_array[n] : spf[s] # "CLOSED"

\* A subgraph that a node has its start bit set for runs on SPF: no stop,
\* suspend or close through another node ever takes it away.  Only the node's
\* own suspend, which stops before it clears the bits, is ahead of the mask.
Suspending(n) == call[n[1]].op = "suspend" /\ call[n[1]].node = n
StartedKeepsRunning ==
  \A n \in Node : \A s \in sg_start_mask[n] : spf[s] = "RUNNING" \/ Suspending(n)

\* The start count never falls below the number of nodes that started the
\* subgraph, so a stop of one of them is not the last.
StartRefsCover == \A s \in SG : start_ref_cnt[s] >= Cardinality(Starters(s))

\* ... and it is that number: no start is forgotten or counted twice over starts,
\* suspends, stops and closes.  Refuted if a START or STOP may fail, because a node
\* closed without a stop leaves its counts: README, section 4.
StartRefsExact == \A s \in SG : start_ref_cnt[s] = Cardinality(Starters(s))

\* A subgraph runs only while a node has started it: "Stop graph if not already
\* done" (gsl_close).  Refuted if a START may fail: README, section 4.
NothingRunsUnowned ==
  \A s \in SG : spf[s] = "RUNNING" => Starters(s) # {}

\* The detailed calls implement the promise of SharedSubgraphs: a node holds its
\* subgraphs while it is linked, and each step of a call is a step of its node.
Sharing == INSTANCE SharedSubgraphs WITH
  User <- Node, state <- spf, started <- sg_start_mask,
  held <- [n \in Node |-> IF n \in gkv_list THEN sg_array[n] ELSE {}]
EveryHandleOnItsOwn == Sharing!Spec

\* Every path through a call, the failing ones too, gives its lock back.
LocksAreReleased ==
  /\ []<>(start_stop_lock = Free)
  /\ []<>(open_close_lock = Free)
=============================================================================
