--------------------------- MODULE GslGraph_proofs ---------------------------
(***************************************************************************)
(* Proofs about GslGraph and GslGraphChange, for every set of subgraphs,   *)
(* handles and key vectors.                                                *)
(*                                                                         *)
(* Over the plain calls (GslGraph!Spec): types, references and start       *)
(* counts whatever SPF commands fail, and the refinement of                *)
(* SharedSubgraphs if no SUSPEND fails.                                    *)
(*                                                                         *)
(* Over changes and partial closes as well (ChangeSpec): types and open    *)
(* references whatever fails, then start counts and what runs if SPF       *)
(* starts, suspends and stops what it is told to.  The lemmas of the plain *)
(* calls are stated for every handle that is not changing, so that both    *)
(* parts use them.                                                         *)
(***************************************************************************)
EXTENDS GslGraphChange, FiniteSetTheorems, TLAPS

-----------------------------------------------------------------------------
(* Type correctness.  TypeOK is not inductive: a call that goes back to its
   node needs to have one. *)

\* The nodes of call c on handle g are nodes of g, and a call that will look at
\* its node has set it.
OwnNodes(g, c) ==
  /\ c \in CallRecord
  /\ c.todo \subseteq {n \in Node : n[1] = g}
  /\ \/ c.cmd # NoCmd
     \/ c.op \in {"remove:stop", "remove:wait", "open", "add", "close_props"}
     => c.node \in {n \in Node : n[1] = g}

CallsOwnNodes == \A g \in Graph : OwnNodes(g, call[g])

TypeInv == TypeOK /\ CallsOwnNodes

\* Setting one call to a proper record keeps all calls proper.
LEMMA SetCallType ==
  ASSUME TypeInv, NEW g \in Graph, NEW c, OwnNodes(g, c), SetCall(g, c)
  PROVE  call' \in [Graph -> CallRecord] /\ CallsOwnNodes'
  BY DEF TypeInv, TypeOK, CallsOwnNodes, OwnNodes, SetCall

\* The records that the actions set: Idle, a call about to work on some nodes,
\* a call that waits for an answer about one, and a call past one of its nodes.
LEMMA IdleType ==
  ASSUME NEW g \in Graph
  PROVE  OwnNodes(g, Idle)
  BY DEF OwnNodes, CallRecord, Idle, Call, Op, NoCmd, SpfCmd

LEMMA CallType ==
  ASSUME NEW g \in Graph, NEW op \in Op, NEW todo \in SUBSET {n \in Node : n[1] = g},
         NEW node \in {NoNode} \cup {n \in Node : n[1] = g},
         op \in {"remove:stop", "remove:wait", "open", "add", "close_props"} => node \in Node
  PROVE  OwnNodes(g, Call(op, todo, node))
PROOF
  <1>1. NoNode \notin Node
    BY DEF NoNode, Node
  <1> QED
    BY <1>1 DEF OwnNodes, CallRecord, Call, NoCmd

LEMMA SendSpfCmdType ==
  ASSUME TypeInv, NEW g \in Graph, NEW n \in {n \in Node : n[1] = g},
         NEW cmd \in SpfCmd, NEW sgs \in SUBSET SG, SendSpfCmd(g, n, cmd, sgs)
  PROVE  call' \in [Graph -> CallRecord] /\ CallsOwnNodes'
PROOF
  <1> DEFINE c == [op |-> call[g].op, todo |-> call[g].todo,
                   node |-> n, cmd |-> cmd, sgs |-> sgs]
  <1>1. OwnNodes(g, c)
    BY DEF TypeInv, TypeOK, CallsOwnNodes, OwnNodes, CallRecord
  <1>2. SetCall(g, c)
    BY DEF SendSpfCmd
  <1> QED
    BY <1>1, <1>2, SetCallType

LEMMA NextNodeType ==
  ASSUME TypeInv, NEW g \in Graph, NEW n \in {n \in Node : n[1] = g},
         call[g].op \notin {"remove:wait", "open", "add", "close_props"}, NextNode(g, n)
  PROVE  call' \in [Graph -> CallRecord] /\ CallsOwnNodes'
PROOF
  <1> DEFINE op == call[g].op
             c == Call(op, call[g].todo \ {n},
                       IF op = "remove:stop" THEN n ELSE NoNode)
  <1>1. op \in Op /\ call[g].todo \ {n} \subseteq {m \in Node : m[1] = g}
    BY DEF TypeInv, CallsOwnNodes, OwnNodes, CallRecord
  <1>2. OwnNodes(g, c)
    BY <1>1, CallType
  <1>3. SetCall(g, c)
    BY DEF NextNode
  <1> QED
    BY <1>2, <1>3, SetCallType

\* The masks and the counts keep their types whatever is counted.
LEMMA CountsType ==
  ASSUME TypeInv, NEW n \in Node, NEW op,
         CountStarted(n) \/ CountSuspended(n) \/ CountStopped(op, n)
  PROVE  /\ sg_start_mask' \in [Node -> SUBSET SG]
         /\ sg_stop_mask' \in [Node -> SUBSET SG]
         /\ open_ref_cnt' \in [SG -> Nat]
         /\ start_ref_cnt' \in [SG -> Nat]
         /\ stop_ref_cnt' \in [SG -> Nat]
PROOF
  <1> USE DEF TypeInv, TypeOK
  <1>1. Scope(op, n) \in SUBSET SG
    BY DEF Scope
  <1>2. \A cnt \in [SG -> Nat], sgs \in SUBSET SG :
          Bump(cnt, sgs) \in [SG -> Nat] /\ Drop(cnt, sgs) \in [SG -> Nat]
    BY DEF Bump, Drop
  <1>3. CASE CountStarted(n)
    BY <1>2, <1>3 DEF CountStarted
  <1>4. CASE CountSuspended(n)
    BY <1>2, <1>4 DEF CountSuspended
  <1>5. CASE CountStopped(op, n)
    BY <1>1, <1>2, <1>5 DEF CountStopped
  <1> QED
    BY <1>3, <1>4, <1>5

LEMMA PoolRemoveType ==
  ASSUME TypeInv, NEW sgs \in SUBSET SG, PoolRemove(sgs)
  PROVE  /\ open_ref_cnt' \in [SG -> Nat]
         /\ start_ref_cnt' \in [SG -> Nat]
         /\ stop_ref_cnt' \in [SG -> Nat]
  BY DEF TypeInv, TypeOK, PoolRemove, Drop

LEMMA SpfDoesType ==
  ASSUME TypeInv, NEW sgs,
         NEW state \in {"CLOSED", "STOPPED", "RUNNING", "SUSPENDED"}, SpfDoes(sgs, state)
  PROVE  spf' \in [SG -> {"CLOSED", "STOPPED", "RUNNING", "SUSPENDED"}]
  BY DEF TypeInv, TypeOK, SpfDoes

\* What every step may rely on about the call that makes it.
LEMMA CallFacts ==
  ASSUME TypeInv, NEW g \in Graph
  PROVE  /\ call[g].op \in Op /\ call[g].sgs \in SUBSET SG
         /\ call[g].todo \subseteq {n \in Node : n[1] = g}
         /\ call[g].cmd # NoCmd => call[g].node \in {n \in Node : n[1] = g}
         /\ call[g].op \in {"remove:stop", "remove:wait", "open", "add", "close_props"}
              => call[g].node \in {n \in Node : n[1] = g}
  BY DEF TypeInv, CallsOwnNodes, OwnNodes, CallRecord

LEMMA TypeStart ==
  ASSUME TypeInv, NEW g \in Graph,
         \/ Start(g) \/ StartNode(g) \/ StartOk(g) \/ StartFailed(g) \/ StartDone(g)
  PROVE  TypeInv'
PROOF
  <1> USE CallFacts DEF TypeInv, TypeOK, masks, pool, locks
  <1>1. CASE Start(g)
    <2>1. OwnNodes(g, Call("start", NodesOf(g), NoNode))
      BY CallType DEF NodesOf, Op, SsOp
    <2> QED
      BY <1>1, <2>1, SetCallType DEF Start, TakeSs
  <1>2. CASE StartNode(g)
    <2> PICK n \in call[g].todo : StartNode(g)!(n)
      BY <1>2 DEF StartNode
    <2>1. call[g].op = "start" /\ n \in {m \in Node : m[1] = g}
      BY DEF Working
    <2>2. CASE NextNode(g, n)
      <3>1. call' \in [Graph -> CallRecord] /\ CallsOwnNodes'
        BY <2>1, <2>2, NextNodeType
      <3> QED
        BY <2>1, <3>1, CountsType
    <2>3. CASE SendSpfCmd(g, n, "START", StartList(n)) /\ UNCHANGED <<masks, pool>>
      <3>1. call' \in [Graph -> CallRecord] /\ CallsOwnNodes'
        BY <2>1, <2>3, SendSpfCmdType DEF StartList, SpfCmd
      <3> QED
        BY <2>3, <3>1
    <2> QED
      BY <2>2, <2>3
  <1>3. CASE StartOk(g)
    <2>1. call[g].op = "start" /\ call[g].node \in {m \in Node : m[1] = g}
      BY <1>3 DEF StartOk, Waiting, NoCmd
    <2>2. call' \in [Graph -> CallRecord] /\ CallsOwnNodes'
      BY <1>3, <2>1, NextNodeType DEF StartOk
    <2> QED
      BY <1>3, <2>1, <2>2, CountsType, SpfDoesType DEF StartOk
  <1>4. CASE StartFailed(g)
    BY <1>4, IdleType, SetCallType DEF StartFailed, ReleaseSs
  <1>5. CASE StartDone(g)
    BY <1>5, IdleType, SetCallType DEF StartDone, ReleaseSs
  <1> QED
    BY <1>1, <1>2, <1>3, <1>4, <1>5

LEMMA TypeSuspend ==
  ASSUME TypeInv, NEW g \in Graph,
         \/ Suspend(g) \/ SuspendNode(g) \/ StopInsteadOk(g) \/ SuspendOk(g)
         \/ SuspendFailed(g) \/ SuspendDone(g)
  PROVE  TypeInv'
PROOF
  <1> USE CallFacts DEF TypeInv, TypeOK, masks, pool, locks
  <1>1. ASSUME NEW n \in {m \in Node : m[1] = g}, call[g].op = "suspend",
               SuspendRest(g, n)
        PROVE  /\ call' \in [Graph -> CallRecord] /\ CallsOwnNodes'
               /\ sg_start_mask' \in [Node -> SUBSET SG]
               /\ sg_stop_mask' \in [Node -> SUBSET SG]
               /\ open_ref_cnt' \in [SG -> Nat]
               /\ start_ref_cnt' \in [SG -> Nat]
               /\ stop_ref_cnt' \in [SG -> Nat]
    <2>1. CASE CountSuspended(n) /\ NextNode(g, n)
      <3>1. call' \in [Graph -> CallRecord] /\ CallsOwnNodes'
        BY <1>1, <2>1, NextNodeType
      <3> QED
        BY <1>1, <2>1, <3>1, CountsType
    <2>2. CASE SendSpfCmd(g, n, "SUSPEND", SuspendList(n)) /\ UNCHANGED <<masks, pool>>
      <3>1. SuspendList(n) \in SUBSET SG
        BY <1>1 DEF SuspendList, OnlyStarter
      <3>2. call' \in [Graph -> CallRecord] /\ CallsOwnNodes'
        BY <1>1, <2>2, <3>1, SendSpfCmdType DEF SpfCmd
      <3> QED
        BY <2>2, <3>2
    <2> QED
      BY <1>1, <2>1, <2>2 DEF SuspendRest
  <1>2. CASE Suspend(g)
    <2>1. OwnNodes(g, Call("suspend", {n \in NodesOf(g) : sg_start_mask[n] # {}}, NoNode))
      BY CallType DEF NodesOf, Op, SsOp
    <2> QED
      BY <1>2, <2>1, SetCallType DEF Suspend, TakeSs
  <1>3. CASE SuspendNode(g)
    <2> PICK n \in call[g].todo : SuspendNode(g)!(n)
      BY <1>3 DEF SuspendNode
    <2>1. call[g].op = "suspend" /\ n \in {m \in Node : m[1] = g}
      BY DEF Working
    <2>2. CASE SuspendRest(g, n)
      BY <1>1, <2>1, <2>2
    <2>3. CASE SendSpfCmd(g, n, "STOP", StopInsteadList(n)) /\ UNCHANGED <<masks, pool>>
      <3>1. StopInsteadList(n) \in SUBSET SG
        BY <2>1 DEF StopInsteadList, OnlyStarter
      <3>2. call' \in [Graph -> CallRecord] /\ CallsOwnNodes'
        BY <2>1, <2>3, <3>1, SendSpfCmdType DEF SpfCmd
      <3> QED
        BY <2>3, <3>2
    <2> QED
      BY <2>2, <2>3
  <1>4. CASE StopInsteadOk(g)
    <2>1. call[g].op = "suspend" /\ call[g].node \in {m \in Node : m[1] = g}
      BY <1>4 DEF StopInsteadOk, Waiting, NoCmd
    <2> QED
      BY <1>1, <1>4, <2>1, SpfDoesType DEF StopInsteadOk
  <1>5. CASE SuspendOk(g)
    <2>1. call[g].op = "suspend" /\ call[g].node \in {m \in Node : m[1] = g}
      BY <1>5 DEF SuspendOk, Waiting, NoCmd
    <2>2. call' \in [Graph -> CallRecord] /\ CallsOwnNodes'
      BY <1>5, <2>1, NextNodeType DEF SuspendOk
    <2> QED
      BY <1>5, <2>1, <2>2, CountsType, SpfDoesType DEF SuspendOk
  <1>6. CASE SuspendFailed(g)
    BY <1>6, IdleType, SetCallType DEF SuspendFailed, ReleaseSs
  <1>7. CASE SuspendDone(g)
    BY <1>7, IdleType, SetCallType DEF SuspendDone, ReleaseSs
  <1> QED
    BY <1>2, <1>3, <1>4, <1>5, <1>6, <1>7

LEMMA TypeStop ==
  ASSUME TypeInv, NEW g \in Graph,
         \/ Stop(g) \/ StopWithProperties(g) \/ StopNode(g) \/ StopOk(g)
         \/ StopFailed(g) \/ StopDone(g)
  PROVE  TypeInv'
PROOF
  <1> USE CallFacts DEF TypeInv, TypeOK, masks, pool, locks
  <1>1. ASSUME NEW op \in StoppingOp, call[g].op = op
        PROVE  OwnNodes(g, AfterStop(g, op))
    <2>1. OwnNodes(g, Call("close:wait", {}, NoNode)) /\ OwnNodes(g, Idle)
      BY CallType, IdleType DEF Op, WaitOp
    <2>2. op = "remove:stop" => OwnNodes(g, Call("remove:wait", {}, call[g].node))
      BY <1>1, CallType DEF Op, WaitOp
    <2> QED
      BY <2>1, <2>2 DEF AfterStop, StoppingOp
  <1>2. CASE Stop(g)
    <2>1. OwnNodes(g, Call("stop", NodesOf(g), NoNode))
      BY CallType DEF NodesOf, Op, SsOp
    <2> QED
      BY <1>2, <2>1, SetCallType DEF Stop, TakeSs
  <1>3. CASE StopWithProperties(g)
    <2> PICK n \in NodesOf(g) : TakeSs(g, "stop_props", {n}) /\ UNCHANGED graph_state
      BY <1>3 DEF StopWithProperties
    <2>1. OwnNodes(g, Call("stop_props", {n}, NoNode))
      BY CallType DEF NodesOf, Op, SsOp
    <2> QED
      BY <2>1, SetCallType DEF TakeSs
  <1>4. CASE StopNode(g)
    <2> PICK op \in StoppingOp, n \in call[g].todo : StopNode(g)!(op, n)
      BY <1>4 DEF StopNode
    <2>1. call[g].op = op /\ n \in {m \in Node : m[1] = g}
      BY DEF Working
    <2>2. CASE CountStopped(op, n) /\ NextNode(g, n)
      <3>1. call' \in [Graph -> CallRecord] /\ CallsOwnNodes'
        BY <2>1, <2>2, NextNodeType DEF StoppingOp
      <3> QED
        BY <2>1, <2>2, <3>1, CountsType
    <2>3. CASE SendSpfCmd(g, n, "STOP", StopList(op, n)) /\ UNCHANGED <<masks, pool>>
      <3>1. StopList(op, n) \in SUBSET SG
        BY <2>1 DEF StopList, Scope
      <3>2. call' \in [Graph -> CallRecord] /\ CallsOwnNodes'
        BY <2>1, <2>3, <3>1, SendSpfCmdType DEF SpfCmd
      <3> QED
        BY <2>3, <3>2
    <2> QED
      BY <2>2, <2>3
  <1>5. CASE StopOk(g)
    <2> PICK op \in StoppingOp : StopOk(g)!(op)
      BY <1>5 DEF StopOk
    <2>1. call[g].op = op /\ call[g].node \in {m \in Node : m[1] = g}
      BY DEF Waiting, NoCmd
    <2>2. call' \in [Graph -> CallRecord] /\ CallsOwnNodes'
      BY <2>1, NextNodeType DEF StoppingOp
    <2> QED
      BY <2>1, <2>2, CountsType, SpfDoesType
  <1>6. CASE StopFailed(g)
    BY <1>1, <1>6, SetCallType DEF StopFailed, ReleaseSs, Waiting
  <1>7. CASE StopDone(g)
    BY <1>1, <1>7, SetCallType DEF StopDone, ReleaseSs, Working
  <1> QED
    BY <1>2, <1>3, <1>4, <1>5, <1>6, <1>7

LEMMA TypeOpen ==
  ASSUME TypeInv, NEW g \in Graph,
         \/ OpenEmpty(g) \/ OpenGkv(g) \/ OpenNode(g) \/ OpenOk(g) \/ CalOk(g)
         \/ CalFailed(g) \/ OpenFailed(g)
  PROVE  TypeInv'
PROOF
  <1> USE CallFacts DEF TypeInv, TypeOK, masks, pool, locks
  <1>1. ASSUME NEW n \in Node, LinkNode(g, n), UNCHANGED spf \/ SpfDoes({}, "STOPPED")
        PROVE  TypeInv'
    <2>1. spf' \in [SG -> {"CLOSED", "STOPPED", "RUNNING", "SUSPENDED"}]
      BY <1>1, SpfDoesType
    <2> QED
      BY <1>1, <2>1, IdleType, SetCallType DEF LinkNode, ReleaseOc
  <1>2. CASE OpenEmpty(g)
    BY <1>2 DEF OpenEmpty, CallsOwnNodes
  <1>3. CASE OpenGkv(g)
    <2> DEFINE op == IF graph_state[g] = "NONE" THEN "open" ELSE "add"
    <2> PICK k \in GkvOf[g] :
               /\ graph_state' = [graph_state EXCEPT ![g] =
                                    IF op = "open" THEN "OPENED" ELSE @]
               /\ open_close_lock' = g
               /\ sg_array' = [sg_array EXCEPT ![<<g, k>>] = SgsOf[k]]
               /\ open_ref_cnt' = Bump(open_ref_cnt, SgsOf[k])
               /\ SetCall(g, Call(op, {<<g, k>>}, <<g, k>>))
               /\ UNCHANGED <<gkv_list, masks, start_ref_cnt, stop_ref_cnt,
                              start_stop_lock, spf>>
      BY <1>3 DEF OpenGkv, TakeOc
    <2>1. k \in GKV /\ SgsOf[k] \in SUBSET SG
      BY GkvOfType, SgsOfType
    <2>2. <<g, k>> \in {n \in Node : n[1] = g}
      BY <2>1 DEF Node
    <2>3. OwnNodes(g, Call(op, {<<g, k>>}, <<g, k>>))
      <3>1. op \in Op
        BY DEF Op, OcOp, ChangingOp
      <3> DEFINE n == <<g, k>>
      <3>2. {n} \in SUBSET {m \in Node : m[1] = g}
        BY <2>2
      <3> HIDE DEF op, n, TypeInv
      <3>3. OwnNodes(g, Call(op, {n}, n))
        BY <2>2, <3>1, <3>2, CallType DEF n
      <3> QED
        BY <3>3 DEF n
    <2>4. call' \in [Graph -> CallRecord] /\ CallsOwnNodes'
      BY <2>3, SetCallType
    <2>5. open_ref_cnt' \in [SG -> Nat]
      BY DEF Bump
    <2> HIDE DEF op
    <2> QED
      BY <2>1, <2>4, <2>5
  <1>4. CASE OpenNode(g)
    <2> PICK op \in OpeningOp, n \in call[g].todo : OpenNode(g)!(op, n)
      BY <1>4 DEF OpenNode
    <2>1. n \in {m \in Node : m[1] = g}
      OBVIOUS
    <2>2. CASE LinkNode(g, n)
      BY <1>1, <2>1, <2>2
    <2>3. CASE /\ SendSpfCmd(g, n, "OPEN", Pruned(sg_array[n]))
               /\ UNCHANGED <<graph_state, gkv_list, sg_array, masks, pool, locks>>
      <3>1. Pruned(sg_array[n]) \in SUBSET SG
        BY <2>1 DEF Pruned
      <3>2. call' \in [Graph -> CallRecord] /\ CallsOwnNodes'
        BY <2>1, <2>3, <3>1, SendSpfCmdType DEF SpfCmd
      <3> QED
        BY <2>3, <3>2
    <2> QED
      BY <2>2, <2>3
  <1>5. CASE OpenOk(g)
    <2> PICK op \in OpeningOp : OpenOk(g)!(op)
      BY <1>5 DEF OpenOk
    <2>1. call[g].node \in {m \in Node : m[1] = g}
      BY DEF Waiting, NoCmd
    <2>2. CASE call[g].sgs = {} /\ LinkNode(g, call[g].node)
      BY <1>1, <2>1, <2>2
    <2>3. CASE /\ SendSpfCmd(g, call[g].node, "SET_CFG", call[g].sgs)
               /\ UNCHANGED <<graph_state, gkv_list, sg_array, masks, pool, locks>>
      <3>1. call' \in [Graph -> CallRecord] /\ CallsOwnNodes'
        BY <2>1, <2>3, SendSpfCmdType DEF SpfCmd
      <3> QED
        BY <2>3, <3>1, SpfDoesType
    <2> QED
      BY <2>2, <2>3
  <1>6. CASE CalOk(g)
    BY <1>1, <1>6 DEF CalOk, Waiting, NoCmd
  <1>7. CASE CalFailed(g)
    <2>1. call[g].node \in {m \in Node : m[1] = g}
      BY <1>7 DEF CalFailed, Waiting, NoCmd
    <2>2. SendSpfCmd(g, call[g].node, "CLOSE", call[g].sgs)
      BY <1>7 DEF CalFailed
    <2>3. call' \in [Graph -> CallRecord] /\ CallsOwnNodes'
      BY <2>1, <2>2, SendSpfCmdType DEF SpfCmd
    <2> QED
      BY <1>7, <2>3 DEF CalFailed
  <1>8. CASE OpenFailed(g)
    <2> PICK op \in OpeningOp : OpenFailed(g)!(op)
      BY <1>8 DEF OpenFailed
    <2>1. call[g].node \in Node
      BY DEF Waiting, NoCmd
    <2>2. spf' \in [SG -> {"CLOSED", "STOPPED", "RUNNING", "SUSPENDED"}]
      BY SpfDoesType
    <2>3. /\ open_ref_cnt' \in [SG -> Nat]
          /\ start_ref_cnt' \in [SG -> Nat]
          /\ stop_ref_cnt' \in [SG -> Nat]
      BY <2>1, PoolRemoveType DEF UndoOpen
    <2>4. call' \in [Graph -> CallRecord] /\ CallsOwnNodes'
      BY IdleType, SetCallType DEF UndoOpen, ReleaseOc
    <2> QED
      BY <2>2, <2>3, <2>4 DEF UndoOpen, ReleaseOc
  <1> QED
    BY <1>2, <1>3, <1>4, <1>5, <1>6, <1>7, <1>8

LEMMA TypeClose ==
  ASSUME TypeInv, NEW g \in Graph,
         \/ Close(g) \/ RemoveGraph(g) \/ EnterClose(g) \/ CloseNode(g)
         \/ CloseAnswered(g) \/ CloseDone(g)
  PROVE  TypeInv'
PROOF
  <1> USE CallFacts DEF TypeInv, TypeOK, masks, pool, locks
  <1>1. ASSUME NEW n \in {m \in Node : m[1] = g}, call[g].op \in ClosingOp, FreeNode(g, n),
               UNCHANGED <<graph_state, locks>>,
               UNCHANGED spf \/ SpfDoes(call[g].sgs, "CLOSED")
        PROVE  TypeInv'
    <2>1. spf' \in [SG -> {"CLOSED", "STOPPED", "RUNNING", "SUSPENDED"}]
      BY <1>1, SpfDoesType
    <2>2. /\ open_ref_cnt' \in [SG -> Nat]
          /\ start_ref_cnt' \in [SG -> Nat]
          /\ stop_ref_cnt' \in [SG -> Nat]
      BY <1>1, PoolRemoveType DEF FreeNode
    <2>3. call' \in [Graph -> CallRecord] /\ CallsOwnNodes'
      BY <1>1, NextNodeType DEF FreeNode, ClosingOp
    <2> QED
      BY <1>1, <2>1, <2>2, <2>3 DEF FreeNode
  <1>2. CASE Close(g)
    <2>1. /\ OwnNodes(g, Call("close:stop", NodesOf(g), NoNode))
          /\ OwnNodes(g, Call("close:wait", {}, NoNode))
      BY CallType DEF NodesOf, Op, SsOp, WaitOp
    <2> QED
      BY <1>2, <2>1, SetCallType DEF Close, TakeSs
  <1>3. CASE RemoveGraph(g)
    <2> PICK n \in NodesOf(g) : RemoveGraph(g)!(n)
      BY <1>3 DEF RemoveGraph
    <2>1. n \in {m \in Node : m[1] = g}
      BY DEF NodesOf
    <2>2. /\ OwnNodes(g, Call("remove:stop", {n}, n))
          /\ OwnNodes(g, Call("remove:wait", {}, n))
      BY <2>1, CallType DEF Op, SsOp, WaitOp
    <2>3. call' \in [Graph -> CallRecord] /\ CallsOwnNodes'
      BY <2>2, SetCallType
    <2> QED
      BY <2>3
  <1>4. CASE EnterClose(g)
    <2>1. OwnNodes(g, Call("close", NodesOf(g), NoNode))
      BY CallType DEF NodesOf, Op, OcOp, ChangingOp
    <2>2. call[g].op = "remove:wait"
            => OwnNodes(g, Call("remove", {call[g].node}, call[g].node))
      BY CallType DEF Op, OcOp, ChangingOp
    <2>3. call' \in [Graph -> CallRecord] /\ CallsOwnNodes'
      BY <1>4, <2>1, <2>2, SetCallType DEF EnterClose
    <2> QED
      BY <1>4, <2>3 DEF EnterClose, TakeOc
  <1>5. CASE CloseNode(g)
    <2> PICK op \in ClosingOp, n \in call[g].todo : CloseNode(g)!(op, n)
      BY <1>5 DEF CloseNode
    <2>1. n \in {m \in Node : m[1] = g}
      OBVIOUS
    <2>2. CASE FreeNode(g, n)
      BY <1>1, <2>1, <2>2 DEF Working
    <2>3. CASE /\ SendSpfCmd(g, n, "CLOSE", Pruned(sg_array[n]))
               /\ UNCHANGED <<gkv_list, sg_array, masks, pool>>
      <3>1. Pruned(sg_array[n]) \in SUBSET SG
        BY <2>1 DEF Pruned
      <3>2. call' \in [Graph -> CallRecord] /\ CallsOwnNodes'
        BY <2>1, <2>3, <3>1, SendSpfCmdType DEF SpfCmd
      <3> QED
        BY <2>3, <3>2
    <2> QED
      BY <2>2, <2>3
  <1>6. CASE CloseAnswered(g)
    BY <1>1, <1>6 DEF CloseAnswered, Waiting, NoCmd
  <1>7. CASE CloseDone(g)
    BY <1>7, IdleType, SetCallType DEF CloseDone, ReleaseOc
  <1> QED
    BY <1>2, <1>3, <1>4, <1>5, <1>6, <1>7

LEMMA TypeInit == Init => TypeInv
  BY IdleType DEF Init, TypeInv, TypeOK, CallsOwnNodes, OwnNodes

LEMMA TypeNext == TypeInv /\ [Next]_vars => TypeInv'
PROOF
  <1> SUFFICES ASSUME TypeInv, [Next]_vars PROVE TypeInv'
    OBVIOUS
  <1>1. CASE UNCHANGED vars
    BY <1>1 DEF vars, masks, pool, locks, TypeInv, TypeOK, CallsOwnNodes
  <1>2. ASSUME NEW g \in Graph, ClientCall(g) \/ CallStep(g) PROVE TypeInv'
    BY <1>2, TypeStart, TypeSuspend, TypeStop, TypeOpen, TypeClose
       DEF ClientCall, CallStep
  <1> QED
    BY <1>1, <1>2 DEF Next

\* Every variable keeps its type: no count falls below zero, nobody but a graph
\* holds a lock, and a call waits for one command about its own nodes.
THEOREM TypeCorrect == Spec => []TypeOK
PROOF
  <1>1. TypeInv => TypeOK
    BY DEF TypeInv
  <1> QED
    BY TypeInit, TypeNext, <1>1, PTL DEF Spec

-----------------------------------------------------------------------------
(* References and open subgraphs.  OpenRefsExact and HeldIsOpen hold together,
   because the call that opens or closes has the lock, because the subgraphs it
   waits for are the ones only its node holds, and because a node that is not
   in its graph's list holds nothing unless it is the one being opened. *)

OcLockHeld == \A g \in Graph : call[g].op \in OcOp <=> open_close_lock = g

OpensUnlinked == \A g \in Graph : call[g].op \in OpeningOp =>
  call[g].node \notin gkv_list /\ call[g].todo = {call[g].node}

WaitsForPruned == \A g \in Graph : call[g].cmd \in {"OPEN", "SET_CFG", "CLOSE"} =>
  /\ call[g].op \in OcOp
  /\ call[g].op \notin {"change", "close_props"}
       => call[g].sgs = Pruned(sg_array[call[g].node])

CalibratesOpen == \A g \in Graph : call[g].cmd = "SET_CFG" =>
  \A s \in call[g].sgs : spf[s] # "CLOSED"

Opening(n) == LET c == call[n[1]] IN \/ c.op \in OpeningOp /\ c.node = n
                                     \/ c.op = "change" /\ n \in c.todo
UnlinkedIsEmpty == \A n \in Node \ gkv_list : sg_array[n] = {} \/ Opening(n)

SharingInv ==
  /\ OcLockHeld /\ OpensUnlinked /\ WaitsForPruned /\ CalibratesOpen
  /\ UnlinkedIsEmpty /\ OpenRefsExact /\ HeldIsOpen

LEMMA HoldersFinite ==
  ASSUME NEW s \in SG
  PROVE  IsFiniteSet(Holders(s))
PROOF
  <1>1. IsFiniteSet(Node)
    BY FiniteNodes, FS_Product DEF Node
  <1>2. Holders(s) \subseteq Node
    BY DEF Holders
  <1> QED
    BY <1>1, <1>2, FS_Subset

\* A node that takes its references is counted once in each subgraph,
LEMMA AddRefs ==
  ASSUME TypeInv, OpenRefsExact, NEW n \in Node, sg_array[n] = {}, NEW sgs \in SUBSET SG,
         open_ref_cnt' = Bump(open_ref_cnt, sgs), sg_array' = [sg_array EXCEPT ![n] = sgs]
  PROVE  OpenRefsExact'
PROOF
  <1> SUFFICES ASSUME NEW s \in SG
               PROVE  open_ref_cnt'[s] = Cardinality(Holders(s)')
    BY DEF OpenRefsExact
  <1> USE DEF TypeInv, TypeOK
  <1>1. open_ref_cnt[s] = Cardinality(Holders(s)) /\ open_ref_cnt[s] \in Nat
    BY DEF OpenRefsExact
  <1>2. CASE s \in sgs
    <2>1. Holders(s)' = Holders(s) \cup {n} /\ n \notin Holders(s)
      BY <1>2 DEF Holders
    <2>2. Cardinality(Holders(s)') = Cardinality(Holders(s)) + 1
      BY <2>1, HoldersFinite, FS_AddElement
    <2> QED
      BY <1>1, <1>2, <2>2 DEF Bump
  <1>3. CASE s \notin sgs
    <2>1. Holders(s)' = Holders(s)
      BY <1>3 DEF Holders
    <2> QED
      BY <1>1, <1>3, <2>1 DEF Bump
  <1> QED
    BY <1>2, <1>3

\* and one that gives them back is not counted any more.
LEMMA RemoveRefs ==
  ASSUME TypeInv, OpenRefsExact, NEW n \in Node, PoolRemove(sg_array[n]),
         sg_array' = [sg_array EXCEPT ![n] = {}]
  PROVE  OpenRefsExact'
PROOF
  <1> SUFFICES ASSUME NEW s \in SG
               PROVE  open_ref_cnt'[s] = Cardinality(Holders(s)')
    BY DEF OpenRefsExact
  <1> USE DEF TypeInv, TypeOK
  <1>1. open_ref_cnt[s] = Cardinality(Holders(s)) /\ open_ref_cnt[s] \in Nat
    BY DEF OpenRefsExact
  <1>2. CASE s \in sg_array[n]
    <2>1. Holders(s)' = Holders(s) \ {n} /\ n \in Holders(s)
      BY <1>2 DEF Holders
    <2>2. Cardinality(Holders(s)') = Cardinality(Holders(s)) - 1
      BY <2>1, HoldersFinite, FS_RemoveElement
    <2>3. open_ref_cnt[s] # 0
      BY <1>1, <2>1, HoldersFinite, FS_EmptySet
    <2> QED
      BY <1>1, <1>2, <2>2, <2>3 DEF PoolRemove, Drop
  <1>3. CASE s \notin sg_array[n]
    <2>1. Holders(s)' = Holders(s)
      BY <1>3 DEF Holders
    <2> QED
      BY <1>1, <1>3, <2>1 DEF PoolRemove, Drop
  <1> QED
    BY <1>2, <1>3

\* What a node's prune keeps, no other node holds;
LEMMA PrunedIsOwn ==
  ASSUME TypeInv, OpenRefsExact, NEW n \in Node, NEW s \in Pruned(sg_array[n]),
         NEW m \in Node, s \in sg_array[m]
  PROVE  m = n
PROOF
  <1>1. s \in SG /\ s \in sg_array[n] /\ open_ref_cnt[s] = 1
    BY DEF Pruned, TypeInv, TypeOK
  <1>2. Cardinality(Holders(s)) = 1
    BY <1>1 DEF OpenRefsExact
  <1>3. PICK h : Holders(s) = {h}
    BY <1>1, <1>2, HoldersFinite, FS_Singleton
  <1> QED
    BY <1>1, <1>3 DEF Holders

\* what it leaves out, a linked node holds, so it is open.
LEMMA PrunedAwayIsOpen ==
  ASSUME TypeInv, SharingInv, NEW g \in Graph, call[g].op \in OpeningOp,
         NEW s \in sg_array[call[g].node] \ Pruned(sg_array[call[g].node])
  PROVE  spf[s] # "CLOSED"
PROOF
  <1> DEFINE n == call[g].node
  <1>1. n \in Node /\ s \in SG /\ open_ref_cnt[s] # 1
    BY CallFacts DEF OpeningOp, Pruned, TypeInv, TypeOK
  <1>2. PICK m \in Holders(s) : m # n
    <2>1. n \in Holders(s)
      BY <1>1 DEF Holders
    <2>2. Holders(s) # {n}
      BY <1>1, FS_Singleton DEF SharingInv, OpenRefsExact
    <2> QED
      BY <2>1, <2>2
  <1>3. m \in gkv_list
    <2> SUFFICES ASSUME m \notin gkv_list PROVE FALSE
      OBVIOUS
    <2>1. Opening(m)
      BY <1>2 DEF Holders, SharingInv, UnlinkedIsEmpty
    <2>2. m[1] \in Graph
      BY <1>2 DEF Holders, Node
    <2>3. open_close_lock = m[1] /\ open_close_lock = g
      BY <2>1, <2>2 DEF SharingInv, OcLockHeld, Opening, OpeningOp, OcOp, ChangingOp
    <2> QED
      BY <1>2, <2>1, <2>3 DEF OpeningOp, Opening
  <1> QED
    BY <1>2, <1>3 DEF Holders, SharingInv, HeldIsOpen

\* A step outside the open_close_lock that moves no reference and closes no
\* subgraph keeps the invariant.
StepAside(g) ==
  /\ UNCHANGED <<gkv_list, sg_array, open_ref_cnt, open_close_lock>>
  /\ \A h \in Graph \ {g} : call'[h] = call[h]
  /\ call[g].op \notin OcOp /\ call'[g].op \notin OcOp
  /\ call'[g].cmd \notin {"OPEN", "SET_CFG", "CLOSE"}
  /\ \A s \in SG : spf[s] # "CLOSED" => spf'[s] # "CLOSED"

LEMMA StepAsideKeeps ==
  ASSUME TypeInv, SharingInv, NEW g \in Graph, StepAside(g)
  PROVE  SharingInv'
PROOF
  <1> USE DEF StepAside, SharingInv
  <1>1. OcLockHeld'
    BY DEF OcLockHeld
  <1>2. OpensUnlinked'
    BY DEF OpensUnlinked, OpeningOp, OcOp, ChangingOp
  <1>3. WaitsForPruned'
    BY DEF WaitsForPruned, Pruned
  <1>4. CalibratesOpen'
    <2> SUFFICES ASSUME NEW h \in Graph, call'[h].cmd = "SET_CFG",
                        NEW s \in call'[h].sgs
                 PROVE  spf'[s] # "CLOSED"
      BY DEF CalibratesOpen
    <2>1. h # g /\ call'[h] = call[h]
      OBVIOUS
    <2>2. s \in SG
      BY <2>1, CallFacts
    <2> QED
      BY <2>1, <2>2 DEF CalibratesOpen
  <1>5. UnlinkedIsEmpty'
    <2> SUFFICES ASSUME NEW n \in Node, n \notin gkv_list
                 PROVE  sg_array[n] = {} \/ Opening(n)'
      BY DEF UnlinkedIsEmpty
    <2>1. n[1] \in Graph
      BY DEF Node
    <2> QED
      BY <2>1 DEF UnlinkedIsEmpty, Opening, OpeningOp, OcOp, ChangingOp
  <1>6. OpenRefsExact'
    BY DEF OpenRefsExact, Holders
  <1>7. HeldIsOpen'
    BY DEF HeldIsOpen, TypeInv, TypeOK
  <1> QED
    BY <1>1, <1>2, <1>3, <1>4, <1>5, <1>6, <1>7

LEMMA StartStopSide ==
  ASSUME TypeInv, NEW g \in Graph,
         \/ Start(g) \/ StartNode(g) \/ StartOk(g) \/ StartFailed(g) \/ StartDone(g)
         \/ Suspend(g) \/ SuspendNode(g) \/ StopInsteadOk(g) \/ SuspendOk(g)
         \/ SuspendFailed(g) \/ SuspendDone(g)
         \/ Stop(g) \/ StopWithProperties(g) \/ StopNode(g) \/ StopOk(g)
         \/ StopFailed(g) \/ StopDone(g)
         \/ Close(g) \/ RemoveGraph(g)
  PROVE  StepAside(g)
PROOF
  <1> USE CallFacts DEF StepAside, masks, pool, locks, SetCall, Call, NoCmd,
                        OcOp, ChangingOp, TypeInv, TypeOK
  <1>1. CASE Start(g) \/ Suspend(g) \/ Stop(g) \/ StopWithProperties(g)
    BY <1>1 DEF Start, Suspend, Stop, StopWithProperties, TakeSs, IsIdle
  <1>2. CASE Close(g) \/ RemoveGraph(g)
    BY <1>2 DEF Close, RemoveGraph, TakeSs, IsIdle
  <1>3. CASE StartNode(g)
    BY <1>3 DEF StartNode, Working, NextNode, CountStarted, SendSpfCmd
  <1>4. CASE StartOk(g)
    BY <1>4 DEF StartOk, Waiting, NextNode, CountStarted, SpfDoes
  <1>5. CASE StartFailed(g) \/ StartDone(g)
    BY <1>5 DEF StartFailed, StartDone, Working, Waiting, ReleaseSs, Idle
  <1>6. CASE SuspendNode(g)
    BY <1>6 DEF SuspendNode, SuspendRest, Working, NextNode, CountSuspended, SendSpfCmd
  <1>7. CASE StopInsteadOk(g)
    BY <1>7 DEF StopInsteadOk, SuspendRest, Waiting, NextNode, CountSuspended,
                SendSpfCmd, SpfDoes
  <1>8. CASE SuspendOk(g)
    BY <1>8 DEF SuspendOk, Waiting, NextNode, CountSuspended, SpfDoes
  <1>9. CASE SuspendFailed(g) \/ SuspendDone(g)
    BY <1>9 DEF SuspendFailed, SuspendDone, Working, Waiting, ReleaseSs, Idle
  <1>10. CASE StopNode(g)
    BY <1>10 DEF StopNode, StoppingOp, Working, NextNode, CountStopped, SendSpfCmd
  <1>11. CASE StopOk(g)
    BY <1>11 DEF StopOk, StoppingOp, Waiting, NextNode, CountStopped, SpfDoes
  <1>12. CASE StopFailed(g) \/ StopDone(g)
    BY <1>12 DEF StopFailed, StopDone, StoppingOp, Working, Waiting, ReleaseSs,
                 AfterStop, Idle
  <1> QED
    BY <1>1, <1>2, <1>3, <1>4, <1>5, <1>6, <1>7, <1>8, <1>9, <1>10, <1>11, <1>12

\* The other calls are not concerned by a step of the call with the lock.
LEMMA LockedStep ==
  ASSUME TypeInv, SharingInv, NEW g \in Graph, open_close_lock \in {g, Free},
         open_close_lock' \in {g, Free}, \A h \in Graph \ {g} : call'[h] = call[h],
         call'[g].op \in OcOp <=> open_close_lock' = g,
         call'[g].op \in OpeningOp
           => call'[g].node \notin gkv_list' /\ call'[g].todo = {call'[g].node},
         call'[g].cmd \in {"OPEN", "SET_CFG", "CLOSE"}
           => /\ call'[g].op \in OcOp
              /\ call'[g].op \notin {"change", "close_props"}
                   => call'[g].sgs = Pruned(sg_array[call[g].node])',
         call'[g].cmd = "SET_CFG" => \A s \in call'[g].sgs : spf'[s] # "CLOSED"
  PROVE  OcLockHeld' /\ OpensUnlinked' /\ WaitsForPruned' /\ CalibratesOpen'
PROOF
  <1> USE FreeIsNoGraph DEF SharingInv
  <1>1. \A h \in Graph \ {g} : call[h].op \notin OcOp
    BY DEF OcLockHeld
  <1>2. OcLockHeld'
    BY <1>1 DEF OcLockHeld
  <1>3. OpensUnlinked'
    BY <1>1 DEF OpensUnlinked, OpeningOp, OcOp, ChangingOp
  <1>4. WaitsForPruned'
    BY <1>1 DEF WaitsForPruned
  <1>5. CalibratesOpen'
    BY <1>1 DEF WaitsForPruned, CalibratesOpen
  <1> QED
    BY <1>2, <1>3, <1>4, <1>5

\* A node is linked once all its subgraphs are open.
LEMMA LinkKeeps ==
  ASSUME TypeInv, SharingInv, NEW g \in Graph, call[g].op \in OpeningOp,
         LinkNode(g, call[g].node), UNCHANGED spf,
         \A s \in Pruned(sg_array[call[g].node]) : spf[s] # "CLOSED"
  PROVE  SharingInv'
PROOF
  <1> DEFINE n == call[g].node
  <1> USE DEF SharingInv
  <1>0. n \in Node /\ n[1] = g
    BY CallFacts DEF OpeningOp
  <1>1. open_close_lock = g
    BY DEF OcLockHeld, OpeningOp, OcOp, ChangingOp
  <1>2. call' = [call EXCEPT ![g] = Idle] /\ open_close_lock' = Free
    BY DEF LinkNode, ReleaseOc, SetCall
  <1>3. OcLockHeld' /\ OpensUnlinked' /\ WaitsForPruned' /\ CalibratesOpen'
    BY <1>1, <1>2, LockedStep, FreeIsNoGraph
       DEF TypeInv, TypeOK, Idle, Call, NoCmd, OcOp, ChangingOp, OpeningOp
  <1>4. gkv_list' = gkv_list \cup {n} /\ UNCHANGED <<sg_array, open_ref_cnt>>
    BY DEF LinkNode, pool
  <1>5. UnlinkedIsEmpty'
    <2> SUFFICES ASSUME NEW m \in Node, m \notin gkv_list, m # n, sg_array[m] # {}
                 PROVE  Opening(m)'
      BY <1>4 DEF UnlinkedIsEmpty
    <2>1. m[1] \in Graph /\ Opening(m)
      BY DEF UnlinkedIsEmpty, Node
    <2>2. m[1] # g
      BY <2>1 DEF OpeningOp, Opening
    <2> QED
      BY <1>2, <2>1, <2>2 DEF Opening, TypeInv, TypeOK
  <1>6. OpenRefsExact'
    BY <1>4 DEF OpenRefsExact, Holders
  <1>7. HeldIsOpen'
    BY <1>4, PrunedAwayIsOpen DEF HeldIsOpen
  <1> QED
    BY <1>3, <1>5, <1>6, <1>7

\* A call with the lock that asks SPF about its node's own subgraphs.
LEMMA AskKeeps ==
  ASSUME TypeInv, SharingInv, NEW g \in Graph, call[g].op \in OcOp,
         NEW m \in {n \in Node : n[1] = g}, NEW cmd \in {"OPEN", "SET_CFG", "CLOSE"},
         SendSpfCmd(g, m, cmd, Pruned(sg_array[m])),
         call[g].op \in OpeningOp => m = call[g].node,
         UNCHANGED <<gkv_list, sg_array, open_ref_cnt, open_close_lock>>,
         \A s \in SG : spf[s] # "CLOSED" => spf'[s] # "CLOSED",
         cmd = "SET_CFG" => \A s \in Pruned(sg_array[m]) : spf'[s] # "CLOSED"
  PROVE  SharingInv'
PROOF
  <1> USE DEF SharingInv
  <1>1. open_close_lock = g
    BY DEF OcLockHeld
  <1>2. /\ \A h \in Graph \ {g} : call'[h] = call[h]
        /\ call'[g].op = call[g].op /\ call'[g].todo = call[g].todo
        /\ call'[g].node = m /\ call'[g].cmd = cmd
        /\ call'[g].sgs = Pruned(sg_array[m])
    BY DEF SendSpfCmd, SetCall, TypeInv, TypeOK
  <1>3. Pruned(sg_array[m])' = Pruned(sg_array[m])
    BY DEF Pruned
  <1>4. OcLockHeld' /\ OpensUnlinked' /\ WaitsForPruned' /\ CalibratesOpen'
    <2>1. call'[g].op \in OpeningOp
            => call'[g].node \notin gkv_list' /\ call'[g].todo = {call'[g].node}
      BY <1>2 DEF OpensUnlinked
    <2>2. call'[g].sgs = Pruned(sg_array[call[g].node])'
      BY <1>2, <1>3
    <2> QED
      BY <1>1, <1>2, <2>1, <2>2, LockedStep
  <1>5. UnlinkedIsEmpty'
    BY <1>2 DEF UnlinkedIsEmpty, Opening, Node
  <1>6. OpenRefsExact'
    BY DEF OpenRefsExact, Holders
  <1>7. HeldIsOpen'
    BY DEF HeldIsOpen, TypeInv, TypeOK
  <1> QED
    BY <1>4, <1>5, <1>6, <1>7

LEMMA OpenKeeps ==
  ASSUME TypeInv, SharingInv, NEW g \in Graph,
         \/ OpenEmpty(g) \/ OpenGkv(g) \/ OpenNode(g) \/ OpenOk(g) \/ CalOk(g)
         \/ CalFailed(g) \/ OpenFailed(g)
  PROVE  SharingInv'
PROOF
  <1> USE DEF SharingInv
  <1> DEFINE n == call[g].node
  <1>1. CASE OpenEmpty(g)
    BY <1>1 DEF OpenEmpty, pool, locks, OcLockHeld, OpensUnlinked, WaitsForPruned,
                CalibratesOpen, UnlinkedIsEmpty, Opening, OpenRefsExact, Holders,
                HeldIsOpen, Pruned
  <1>2. CASE OpenGkv(g)
    <2> DEFINE op == IF graph_state[g] = "NONE" THEN "open" ELSE "add"
    <2> PICK k \in GkvOf[g] :
               /\ IsIdle(g) /\ <<g, k>> \notin gkv_list /\ TakeOc(g)
               /\ sg_array' = [sg_array EXCEPT ![<<g, k>>] = SgsOf[k]]
               /\ open_ref_cnt' = Bump(open_ref_cnt, SgsOf[k])
               /\ call' = [call EXCEPT ![g] = Call(op, {<<g, k>>}, <<g, k>>)]
               /\ UNCHANGED <<gkv_list, masks, start_ref_cnt, stop_ref_cnt,
                              start_stop_lock, spf>>
      BY <1>2 DEF OpenGkv, SetCall
    <2> DEFINE m == <<g, k>>
    <2>1. m \in Node /\ m[1] = g /\ SgsOf[k] \in SUBSET SG
      BY GkvOfType, SgsOfType DEF Node
    <2>2. op \in OpeningOp
      BY DEF OpeningOp
    <2> HIDE DEF op
    <2>3. call'[g] = Call(op, {m}, m)
      BY DEF TypeInv, TypeOK
    <2>4. sg_array[m] = {}
      BY <2>1 DEF UnlinkedIsEmpty, Opening, IsIdle, OpeningOp
    <2>5. OcLockHeld' /\ OpensUnlinked' /\ WaitsForPruned' /\ CalibratesOpen'
      BY <2>2, <2>3, LockedStep, FreeIsNoGraph
         DEF TypeInv, TypeOK, TakeOc, Call, NoCmd, OcOp, ChangingOp, OpeningOp
    <2>6. UnlinkedIsEmpty'
      <3> SUFFICES ASSUME NEW q \in Node, q \notin gkv_list, sg_array'[q] # {}
                   PROVE  Opening(q)'
        BY DEF UnlinkedIsEmpty
      <3>1. CASE q = m
        BY <2>1, <2>2, <2>3, <3>1 DEF Opening, Call
      <3>2. CASE q # m
        <4>1. sg_array[q] # {} /\ q[1] \in Graph
          BY <3>2 DEF TypeInv, TypeOK, Node
        <4>2. Opening(q) /\ q[1] # g
          BY <4>1 DEF UnlinkedIsEmpty, Opening, IsIdle, OpeningOp
        <4> QED
          BY <4>1, <4>2 DEF Opening, TypeInv, TypeOK
      <3> QED
        BY <3>1, <3>2
    <2>7. OpenRefsExact'
      BY <2>1, <2>4, AddRefs
    <2>8. HeldIsOpen'
      BY DEF HeldIsOpen, TypeInv, TypeOK
    <2> QED
      BY <2>5, <2>6, <2>7, <2>8
  <1>3. CASE OpenNode(g)
    <2> PICK op \in OpeningOp, m \in call[g].todo : OpenNode(g)!(op, m)
      BY <1>3 DEF OpenNode
    <2>1. call[g].op = op /\ m = n /\ n \in {q \in Node : q[1] = g}
      BY CallFacts DEF Working, OpensUnlinked, OpeningOp
    <2>2. CASE Pruned(sg_array[m]) = {} /\ LinkNode(g, m)
      BY <2>1, <2>2, LinkKeeps
    <2>3. CASE /\ SendSpfCmd(g, m, "OPEN", Pruned(sg_array[m]))
               /\ UNCHANGED <<graph_state, gkv_list, sg_array, masks, pool, locks>>
      BY <2>1, <2>3, AskKeeps DEF OpeningOp, OcOp, ChangingOp, pool, locks
    <2> QED
      BY <2>2, <2>3
  <1>4. CASE OpenOk(g)
    <2> PICK op \in OpeningOp : OpenOk(g)!(op)
      BY <1>4 DEF OpenOk
    <2>1. /\ call[g].op = op /\ n \in {q \in Node : q[1] = g}
          /\ call[g].sgs = Pruned(sg_array[n])
      BY CallFacts DEF OpeningOp, Waiting, NoCmd, WaitsForPruned
    <2>2. CASE call[g].sgs = {} /\ LinkNode(g, n)
      <3>1. UNCHANGED spf
        BY <2>2 DEF SpfDoes, TypeInv, TypeOK
      <3> QED
        BY <2>1, <2>2, <3>1, LinkKeeps
    <2>3. CASE /\ SendSpfCmd(g, n, "SET_CFG", call[g].sgs)
               /\ UNCHANGED <<graph_state, gkv_list, sg_array, masks, pool, locks>>
      <3>1. /\ \A s \in SG : spf[s] # "CLOSED" => spf'[s] # "CLOSED"
            /\ \A s \in call[g].sgs : spf'[s] # "CLOSED"
        BY CallFacts DEF SpfDoes
      <3> QED
        BY <2>1, <2>3, <3>1, AskKeeps DEF OpeningOp, OcOp, ChangingOp, pool, locks
    <2> QED
      BY <2>2, <2>3
  <1>5. CASE CalOk(g)
    <2>1. /\ call[g].op \in OpeningOp
          /\ \A s \in Pruned(sg_array[n]) : spf[s] # "CLOSED"
      BY <1>5 DEF OpeningOp, CalOk, Waiting, WaitsForPruned, CalibratesOpen
    <2> QED
      BY <1>5, <2>1, LinkKeeps DEF CalOk
  <1>6. CASE CalFailed(g)
    <2>1. /\ call[g].op \in OpeningOp /\ n \in {q \in Node : q[1] = g}
          /\ call[g].sgs = Pruned(sg_array[n])
      BY <1>6, CallFacts DEF OpeningOp, CalFailed, Waiting, NoCmd, WaitsForPruned
    <2> QED
      BY <1>6, <2>1, AskKeeps DEF CalFailed, OpeningOp, OcOp, ChangingOp, pool, locks
  <1>7. CASE OpenFailed(g)
    <2>1. /\ call[g].op \in OpeningOp /\ n \in Node /\ n[1] = g /\ n \notin gkv_list
          /\ call[g].sgs = Pruned(sg_array[n]) /\ open_close_lock = g
      BY <1>7, CallFacts DEF OpenFailed, Waiting, NoCmd, WaitsForPruned, OcLockHeld,
                             OpeningOp, OpensUnlinked
    <2>2. /\ PoolRemove(sg_array[n]) /\ sg_array' = [sg_array EXCEPT ![n] = {}]
          /\ open_close_lock' = Free /\ call' = [call EXCEPT ![g] = Idle]
          /\ UNCHANGED gkv_list
          /\ UNCHANGED spf \/ SpfDoes(call[g].sgs, "CLOSED")
      BY <1>7 DEF OpenFailed, UndoOpen, ReleaseOc, SetCall
    <2>3. OcLockHeld' /\ OpensUnlinked' /\ WaitsForPruned' /\ CalibratesOpen'
      BY <2>1, <2>2, LockedStep, FreeIsNoGraph
         DEF TypeInv, TypeOK, Idle, Call, NoCmd, OcOp, ChangingOp, OpeningOp
    <2>4. UnlinkedIsEmpty'
      <3> SUFFICES ASSUME NEW m \in Node, m \notin gkv_list, m # n, sg_array[m] # {}
                   PROVE  Opening(m)'
        BY <2>1, <2>2 DEF UnlinkedIsEmpty, TypeInv, TypeOK
      <3>1. m[1] \in Graph /\ Opening(m)
        BY DEF UnlinkedIsEmpty, Node
      <3>2. m[1] # g
        BY <2>1, <3>1 DEF OpeningOp, Opening
      <3> QED
        BY <2>2, <3>1, <3>2 DEF Opening, TypeInv, TypeOK
    <2>5. OpenRefsExact'
      BY <2>1, <2>2, RemoveRefs
    <2>6. HeldIsOpen'
      <3> SUFFICES ASSUME NEW m \in gkv_list, NEW s \in sg_array[m]
                   PROVE  spf'[s] # "CLOSED"
        BY <2>1, <2>2 DEF HeldIsOpen, TypeInv, TypeOK
      <3>1. m \in Node /\ m # n /\ s \in SG
        BY <2>1 DEF TypeInv, TypeOK
      <3>2. s \notin call[g].sgs
        BY <2>1, <3>1, PrunedIsOwn
      <3>3. spf[s] # "CLOSED"
        BY DEF HeldIsOpen
      <3> QED
        BY <2>2, <3>1, <3>2, <3>3 DEF SpfDoes
    <2> QED
      BY <2>3, <2>4, <2>5, <2>6
  <1> QED
    BY <1>1, <1>2, <1>3, <1>4, <1>5, <1>6, <1>7

\* A node that is closed drops its references, and SPF may close what no other
\* node holds.
LEMMA FreeNodeKeeps ==
  ASSUME TypeInv, SharingInv, NEW g \in Graph, NEW n \in {m \in Node : m[1] = g},
         call[g].op \in ClosingOp, FreeNode(g, n), UNCHANGED open_close_lock,
         UNCHANGED spf \/ SpfDoes(Pruned(sg_array[n]), "CLOSED")
  PROVE  SharingInv'
PROOF
  <1> USE DEF SharingInv
  <1>1. open_close_lock = g
    BY DEF OcLockHeld, ClosingOp, OcOp, ChangingOp
  <1>2. /\ PoolRemove(sg_array[n]) /\ sg_array' = [sg_array EXCEPT ![n] = {}]
        /\ gkv_list' = gkv_list \ {n}
        /\ \A h \in Graph \ {g} : call'[h] = call[h]
        /\ call'[g].op = call[g].op /\ call'[g].cmd = NoCmd
    BY DEF FreeNode, NextNode, SetCall, Call, TypeInv, TypeOK
  <1>3. OcLockHeld' /\ OpensUnlinked' /\ WaitsForPruned' /\ CalibratesOpen'
    BY <1>1, <1>2, LockedStep DEF ClosingOp, OpeningOp, OcOp, ChangingOp, NoCmd
  <1>4. UnlinkedIsEmpty'
    <2> SUFFICES ASSUME NEW m \in Node, m \notin gkv_list, m # n, sg_array[m] # {}
                 PROVE  Opening(m)'
      BY <1>2 DEF UnlinkedIsEmpty, TypeInv, TypeOK
    <2>1. m[1] \in Graph /\ Opening(m)
      BY DEF UnlinkedIsEmpty, Node
    <2>2. m[1] # g
      BY <2>1 DEF Opening, OpeningOp, ClosingOp
    <2> QED
      BY <1>2, <2>1, <2>2 DEF Opening
  <1>5. OpenRefsExact'
    BY <1>2, RemoveRefs
  <1>6. HeldIsOpen'
    <2> SUFFICES ASSUME NEW m \in gkv_list, m # n, NEW s \in sg_array[m]
                 PROVE  spf'[s] # "CLOSED"
      BY <1>2 DEF HeldIsOpen, TypeInv, TypeOK
    <2>1. m \in Node /\ s \in SG
      BY DEF TypeInv, TypeOK
    <2>2. s \notin Pruned(sg_array[n])
      BY <2>1, PrunedIsOwn
    <2>3. spf[s] # "CLOSED"
      BY DEF HeldIsOpen
    <2> QED
      BY <2>1, <2>2, <2>3 DEF SpfDoes
  <1> QED
    BY <1>3, <1>4, <1>5, <1>6

LEMMA CloseKeeps ==
  ASSUME TypeInv, SharingInv, NEW g \in Graph,
         EnterClose(g) \/ CloseNode(g) \/ CloseAnswered(g) \/ CloseDone(g)
  PROVE  SharingInv'
PROOF
  <1> USE DEF SharingInv
  <1> DEFINE n == call[g].node
  <1>1. CASE EnterClose(g)
    <2>1. /\ open_close_lock = Free /\ open_close_lock' = g
          /\ UNCHANGED <<gkv_list, sg_array, open_ref_cnt, spf>>
          /\ call[g].op \in {"close:wait", "remove:wait"}
          /\ \A h \in Graph \ {g} : call'[h] = call[h]
          /\ call'[g].op \in ClosingOp /\ call'[g].cmd = NoCmd
      BY <1>1 DEF EnterClose, TakeOc, SetCall, Call, ClosingOp, pool, TypeInv, TypeOK
    <2>2. OcLockHeld' /\ OpensUnlinked' /\ WaitsForPruned' /\ CalibratesOpen'
      BY <2>1, LockedStep DEF ClosingOp, OpeningOp, OcOp, ChangingOp, NoCmd
    <2>3. UnlinkedIsEmpty'
      BY <2>1 DEF UnlinkedIsEmpty, Opening, OpeningOp, Node
    <2>4. OpenRefsExact' /\ HeldIsOpen'
      BY <2>1 DEF OpenRefsExact, Holders, HeldIsOpen
    <2> QED
      BY <2>2, <2>3, <2>4
  <1>2. CASE CloseNode(g)
    <2> PICK op \in ClosingOp, m \in call[g].todo : CloseNode(g)!(op, m)
      BY <1>2 DEF CloseNode
    <2>1. call[g].op = op /\ m \in {q \in Node : q[1] = g}
      BY CallFacts DEF Working
    <2>2. CASE FreeNode(g, m)
      BY <2>1, <2>2, FreeNodeKeeps DEF locks
    <2>3. CASE /\ SendSpfCmd(g, m, "CLOSE", Pruned(sg_array[m]))
               /\ UNCHANGED <<gkv_list, sg_array, masks, pool>>
      BY <2>1, <2>3, AskKeeps DEF ClosingOp, OpeningOp, OcOp, ChangingOp, pool, locks
    <2> QED
      BY <2>2, <2>3
  <1>3. CASE CloseAnswered(g)
    <2>1. /\ call[g].op \in ClosingOp /\ n \in {q \in Node : q[1] = g}
          /\ call[g].sgs = Pruned(sg_array[n])
      BY <1>3, CallFacts DEF ClosingOp, CloseAnswered, Waiting, NoCmd, WaitsForPruned
    <2> QED
      BY <1>3, <2>1, FreeNodeKeeps DEF CloseAnswered, locks
  <1>4. CASE CloseDone(g)
    <2>1. /\ open_close_lock = g /\ call[g].op \in ClosingOp
          /\ open_close_lock' = Free /\ call' = [call EXCEPT ![g] = Idle]
          /\ UNCHANGED <<gkv_list, sg_array, open_ref_cnt, spf>>
      BY <1>4 DEF CloseDone, Working, ReleaseOc, SetCall, pool, OcLockHeld,
                  ClosingOp, OcOp, ChangingOp
    <2>2. OcLockHeld' /\ OpensUnlinked' /\ WaitsForPruned' /\ CalibratesOpen'
      BY <2>1, LockedStep, FreeIsNoGraph
         DEF TypeInv, TypeOK, Idle, Call, OpeningOp, OcOp, ChangingOp, NoCmd
    <2>3. UnlinkedIsEmpty'
      BY <2>1 DEF UnlinkedIsEmpty, Opening, OpeningOp, ClosingOp, Node, TypeInv, TypeOK
    <2>4. OpenRefsExact' /\ HeldIsOpen'
      BY <2>1 DEF OpenRefsExact, Holders, HeldIsOpen
    <2> QED
      BY <2>2, <2>3, <2>4
  <1> QED
    BY <1>1, <1>2, <1>3, <1>4

LEMMA SharingInit == Init => SharingInv
PROOF
  <1> SUFFICES ASSUME Init PROVE SharingInv
    OBVIOUS
  <1> USE DEF Init
  <1>1. OcLockHeld /\ OpensUnlinked /\ WaitsForPruned /\ CalibratesOpen
    BY FreeIsNoGraph DEF OcLockHeld, OpensUnlinked, WaitsForPruned, CalibratesOpen,
                         Idle, Call, OcOp, ChangingOp, OpeningOp, NoCmd
  <1>2. UnlinkedIsEmpty /\ HeldIsOpen
    BY DEF UnlinkedIsEmpty, HeldIsOpen
  <1>3. OpenRefsExact
    <2> SUFFICES ASSUME NEW s \in SG PROVE Cardinality(Holders(s)) = 0
      BY DEF OpenRefsExact
    <2>1. Holders(s) = {}
      BY DEF Holders
    <2> QED
      BY <2>1, FS_EmptySet
  <1> QED
    BY <1>1, <1>2, <1>3 DEF SharingInv

LEMMA SharingNext == TypeInv /\ SharingInv /\ [Next]_vars => SharingInv'
PROOF
  <1> SUFFICES ASSUME TypeInv, SharingInv, [Next]_vars PROVE SharingInv'
    OBVIOUS
  <1>1. CASE UNCHANGED vars
    BY <1>1 DEF vars, pool, locks, SharingInv, OcLockHeld, OpensUnlinked,
                WaitsForPruned, CalibratesOpen, UnlinkedIsEmpty, Opening,
                OpenRefsExact, Holders, HeldIsOpen, Pruned
  <1>2. ASSUME NEW g \in Graph, ClientCall(g) \/ CallStep(g) PROVE SharingInv'
    BY <1>2, StartStopSide, StepAsideKeeps, OpenKeeps, CloseKeeps
       DEF ClientCall, CallStep
  <1> QED
    BY <1>1, <1>2 DEF Next

LEMMA SharingInvariant == Spec => [](TypeInv /\ SharingInv)
  BY TypeInit, TypeNext, SharingInit, SharingNext, PTL DEF Spec

\* The pool's open count is the number of nodes that hold the subgraph, over
\* every path of open, add, remove and close, the failing ones included.
THEOREM OpenRefsCorrect == Spec => []OpenRefsExact
PROOF
  <1>1. SharingInv => OpenRefsExact
    BY DEF SharingInv
  <1> QED
    BY SharingInvariant, <1>1, PTL

\* No close and no undone open takes a subgraph away from a linked node.
THEOREM HeldStaysOpen == Spec => []HeldIsOpen
PROOF
  <1>1. SharingInv => HeldIsOpen
    BY DEF SharingInv
  <1> QED
    BY SharingInvariant, <1>1, PTL
-----------------------------------------------------------------------------
(* Starting and stopping.  The start count covers the nodes that started the
   subgraph because whoever counts has start_stop_lock, and because a call that
   has open_close_lock resets only counts of subgraphs no other node holds. *)

SsLockHeld == \A g \in Graph : call[g].op \in SsOp <=> start_stop_lock = g

\* But for the node that is being opened, calls are about nodes of their list.
LinkedCalls == \A g \in Graph : call[g].op \notin OpeningOp =>
  /\ call[g].todo \subseteq gkv_list
  /\ call[g].cmd # NoCmd \/ call[g].op \in {"remove:stop", "remove:wait"}
       => call[g].node \in gkv_list

MasksWithin == \A n \in Node :
  sg_start_mask[n] \subseteq (IF n \in gkv_list THEN sg_array[n] ELSE {})

CountedIsHeld == \A s \in SG :
  start_ref_cnt[s] > 0 => \E n \in gkv_list : s \in sg_array[n]

\* The subgraphs a call waits for are still the ones it would ask for now.
AskedList(op, cmd, n) ==
  CASE op = "start" /\ cmd = "START"     -> StartList(n)
    [] op = "suspend" /\ cmd = "STOP"    -> StopInsteadList(n)
    [] op = "suspend" /\ cmd = "SUSPEND" -> SuspendList(n)
    [] OTHER                             -> StopList(op, n)
WaitsForAsked == \A g \in Graph : call[g].cmd \in {"START", "SUSPEND", "STOP"} =>
  /\ \/ call[g].op = "start" /\ call[g].cmd = "START"
     \/ call[g].op = "suspend" /\ call[g].cmd \in {"STOP", "SUSPEND"}
     \/ call[g].op \in StoppingOp /\ call[g].cmd = "STOP"
  /\ call[g].sgs = AskedList(call[g].op, call[g].cmd, call[g].node)

\* A counted subgraph runs, unless a suspend has stopped it and is about to
\* suspend the rest of its node.
HalfSuspended(s) == \E g \in Graph :
  Waiting(g, "suspend", "SUSPEND") /\ s \in StopInsteadList(call[g].node)
CountedRuns == \A s \in SG :
  start_ref_cnt[s] > 0 => spf[s] = "RUNNING" \/ HalfSuspended(s)

StartInv ==
  /\ SsLockHeld /\ LinkedCalls /\ MasksWithin /\ StartRefsCover /\ CountedIsHeld
  /\ WaitsForAsked /\ ("SUSPEND" \notin Faults => CountedRuns)

LEMMA StartersFinite ==
  ASSUME NEW s \in SG
  PROVE  IsFiniteSet(Starters(s)) /\ Cardinality(Starters(s)) \in Nat
PROOF
  <1>1. IsFiniteSet(Node)
    BY FiniteNodes, FS_Product DEF Node
  <1>2. Starters(s) \subseteq Node
    BY DEF Starters
  <1> QED
    BY <1>1, <1>2, FS_Subset, FS_CardinalityType

\* What a node has started is counted, and if it is counted once, for that node.
LEMMA StartedIsCounted ==
  ASSUME TypeInv, StartRefsCover, NEW n \in Node, NEW s \in sg_start_mask[n]
  PROVE  /\ s \in SG /\ start_ref_cnt[s] \in Nat \ {0}
         /\ start_ref_cnt[s] = 1 => \A m \in Node : s \in sg_start_mask[m] => m = n
PROOF
  <1>1. s \in SG /\ start_ref_cnt[s] \in Nat
    BY DEF TypeInv, TypeOK
  <1>2. n \in Starters(s) /\ IsFiniteSet(Starters(s)) /\ Cardinality(Starters(s)) \in Nat
    BY <1>1, StartersFinite DEF Starters
  <1>3. start_ref_cnt[s] >= Cardinality(Starters(s)) /\ Cardinality(Starters(s)) # 0
    BY <1>1, <1>2, FS_EmptySet DEF StartRefsCover
  <1>4. ASSUME start_ref_cnt[s] = 1, NEW m \in Node, s \in sg_start_mask[m]
        PROVE  m = n
    <2>1. Cardinality(Starters(s)) = 1
      BY <1>2, <1>3, <1>4
    <2>2. PICK h : Starters(s) = {h}
      BY <1>2, <2>1, FS_Singleton
    <2> QED
      BY <1>2, <1>4, <2>2 DEF Starters
  <1> QED
    BY <1>1, <1>2, <1>3, <1>4

\* All that counting does to the start bits of a node: it gets new ones, and each
\* subgraph's count goes up or down with its bit.
Recount(n, mask) ==
  /\ sg_start_mask' = [sg_start_mask EXCEPT ![n] = mask]
  /\ \A s \in SG :
       /\ s \in mask \ sg_start_mask[n] => start_ref_cnt'[s] = start_ref_cnt[s] + 1
       /\ s \in sg_start_mask[n] \ mask => start_ref_cnt'[s] = start_ref_cnt[s] - 1
       /\ (s \in mask <=> s \in sg_start_mask[n])
            => start_ref_cnt'[s] = start_ref_cnt[s]

LEMMA RecountCovers ==
  ASSUME TypeInv, StartRefsCover, NEW n \in Node, NEW mask \in SUBSET SG,
         Recount(n, mask)
  PROVE  StartRefsCover'
PROOF
  <1> SUFFICES ASSUME NEW s \in SG
               PROVE  start_ref_cnt'[s] >= Cardinality(Starters(s)')
    BY DEF StartRefsCover
  <1>1. /\ start_ref_cnt[s] >= Cardinality(Starters(s)) /\ start_ref_cnt[s] \in Nat
        /\ IsFiniteSet(Starters(s)) /\ Cardinality(Starters(s)) \in Nat
    BY StartersFinite DEF StartRefsCover, TypeInv, TypeOK
  <1>2. CASE s \in mask \ sg_start_mask[n]
    <2>1. Starters(s)' = Starters(s) \cup {n} /\ n \notin Starters(s)
      BY <1>2 DEF Starters, Recount, TypeInv, TypeOK
    <2>2. Cardinality(Starters(s)') = Cardinality(Starters(s)) + 1
      BY <1>1, <2>1, FS_AddElement
    <2> QED
      BY <1>1, <1>2, <2>2 DEF Recount
  <1>3. CASE s \in sg_start_mask[n] \ mask
    <2>1. Starters(s)' = Starters(s) \ {n} /\ n \in Starters(s)
      BY <1>3 DEF Starters, Recount, TypeInv, TypeOK
    <2>2. Cardinality(Starters(s)') = Cardinality(Starters(s)) - 1
      BY <1>1, <2>1, FS_RemoveElement
    <2> QED
      BY <1>1, <1>3, <2>2 DEF Recount
  <1>4. CASE s \in mask <=> s \in sg_start_mask[n]
    <2>1. Starters(s)' = Starters(s)
      BY <1>4 DEF Starters, Recount, TypeInv, TypeOK
    <2> QED
      BY <1>1, <1>4, <2>1 DEF Recount
  <1> QED
    BY <1>2, <1>3, <1>4

\* The three ways of counting are recounts.
LEMMA CountsAreRecounts ==
  ASSUME TypeInv, StartRefsCover, MasksWithin, NEW n \in gkv_list, NEW op
  PROVE  /\ CountStarted(n) => Recount(n, sg_array[n])
         /\ CountSuspended(n) => Recount(n, {})
         /\ CountStopped(op, n) => Recount(n, sg_start_mask[n] \ Scope(op, n))
PROOF
  <1> USE DEF TypeInv, TypeOK, Recount
  <1>1. n \in Node /\ sg_start_mask[n] \subseteq sg_array[n]
    BY DEF MasksWithin
  <1>2. \A s \in sg_start_mask[n] : start_ref_cnt[s] > 0
    BY <1>1, StartedIsCounted
  <1>3. CountStarted(n) => Recount(n, sg_array[n])
    BY <1>1 DEF CountStarted, Bump
  <1>4. CountSuspended(n) => Recount(n, {})
    BY <1>1, <1>2 DEF CountSuspended, Drop
  <1>5. CountStopped(op, n) => Recount(n, sg_start_mask[n] \ Scope(op, n))
    BY <1>1, <1>2 DEF CountStopped, Drop
  <1> QED
    BY <1>3, <1>4, <1>5

\* What a call asks SPF to stop or suspend, nobody else has started, and it is
\* part of what its node holds.
LEMMA AskedIsOwn ==
  ASSUME TypeInv, StartRefsCover, MasksWithin, NEW n \in gkv_list, NEW op, NEW s,
         \/ s \in StopInsteadList(n) \/ s \in SuspendList(n) \/ s \in StopList(op, n)
  PROVE  /\ s \in sg_array[n]
         /\ \A m \in Node : s \in sg_start_mask[m] => m = n
PROOF
  <1>1. n \in Node /\ sg_start_mask[n] \subseteq sg_array[n] /\ sg_array[n] \subseteq SG
    BY DEF MasksWithin, TypeInv, TypeOK
  <1>2. /\ s \in sg_array[n]
        /\ \/ s \in sg_start_mask[n] /\ start_ref_cnt[s] = 1
           \/ start_ref_cnt[s] = 0
    BY <1>1 DEF StopInsteadList, SuspendList, OnlyStarter, StopList, Scope
  <1> QED
    BY <1>1, <1>2, StartedIsCounted

\* A step of the call that holds start_stop_lock, or takes it, concerns no other
\* call that starts or stops.
LEMMA OthersNotInSs ==
  ASSUME StartInv, NEW g \in Graph, start_stop_lock \in {g, Free},
         NEW h \in Graph \ {g}
  PROVE  call[h].op \notin SsOp /\ call[h].cmd \notin {"START", "SUSPEND", "STOP"}
PROOF
  <1>1. call[h].op \notin SsOp
    BY FreeIsNoGraph DEF StartInv, SsLockHeld
  <1> QED
    BY <1>1 DEF StartInv, WaitsForAsked, StoppingOp, SsOp

\* Taking the lock, giving it back and going on to the next node move no count.
SsStep(g) ==
  /\ UNCHANGED <<gkv_list, sg_array, masks, pool, spf>>
  /\ start_stop_lock \in {g, Free} /\ start_stop_lock' \in {g, Free}
  /\ \A h \in Graph \ {g} : call'[h] = call[h]
  /\ call'[g].op \in SsOp <=> start_stop_lock' = g
  /\ call'[g].op \notin OpeningOp /\ call'[g].cmd = NoCmd
  /\ call'[g].todo \subseteq gkv_list
  /\ call'[g].op \in {"remove:stop", "remove:wait"} => call'[g].node \in gkv_list
  /\ Waiting(g, "suspend", "SUSPEND") => "SUSPEND" \in Faults

LEMMA SsStepKeeps ==
  ASSUME TypeInv, StartInv, NEW g \in Graph, SsStep(g)
  PROVE  StartInv'
PROOF
  <1> USE DEF SsStep, StartInv, masks, pool
  <1>1. SsLockHeld'
    BY OthersNotInSs, FreeIsNoGraph DEF SsLockHeld
  <1>2. LinkedCalls'
    BY DEF LinkedCalls
  <1>3. MasksWithin' /\ StartRefsCover' /\ CountedIsHeld'
    BY DEF MasksWithin, StartRefsCover, Starters, CountedIsHeld
  <1>4. WaitsForAsked'
    BY OthersNotInSs DEF WaitsForAsked, NoCmd
  <1>5. ASSUME "SUSPEND" \notin Faults PROVE CountedRuns'
    <2> SUFFICES ASSUME NEW s \in SG, start_ref_cnt[s] > 0 PROVE spf[s] = "RUNNING"
      BY DEF CountedRuns
    <2>1. ~HalfSuspended(s)
      BY <1>5, OthersNotInSs DEF HalfSuspended, Waiting
    <2> QED
      BY <1>5, <2>1 DEF CountedRuns
  <1> QED
    BY <1>1, <1>2, <1>3, <1>4, <1>5

\* So does asking SPF, with what it has already stopped on the way.
LEMMA SsAskKeeps ==
  ASSUME TypeInv, StartInv, NEW g \in Graph, start_stop_lock = g, call[g].op \in SsOp,
         NEW n \in gkv_list, NEW cmd,
         \/ call[g].op = "start" /\ cmd = "START"
         \/ call[g].op = "suspend" /\ cmd = "STOP"
         \/ call[g].op = "suspend" /\ cmd = "SUSPEND"
         \/ call[g].op \in StoppingOp /\ cmd = "STOP",
         SendSpfCmd(g, n, cmd, AskedList(call[g].op, cmd, n)),
         call[g].cmd # "SUSPEND",
         UNCHANGED <<gkv_list, sg_array, masks, pool, start_stop_lock>>,
         \/ UNCHANGED spf
         \/ cmd = "SUSPEND" /\ SpfDoes(StopInsteadList(n), "STOPPED")
  PROVE  StartInv'
PROOF
  <1> USE DEF StartInv, masks, pool
  <1>1. /\ \A h \in Graph \ {g} : call'[h] = call[h]
        /\ call'[g].op = call[g].op /\ call'[g].todo = call[g].todo
        /\ call'[g].node = n /\ call'[g].cmd = cmd
        /\ call'[g].sgs = AskedList(call[g].op, cmd, n)
    BY DEF SendSpfCmd, SetCall, TypeInv, TypeOK
  <1>2. SsLockHeld' /\ LinkedCalls'
    BY <1>1 DEF SsLockHeld, LinkedCalls, OpeningOp, SsOp
  <1>3. MasksWithin' /\ StartRefsCover' /\ CountedIsHeld'
    BY DEF MasksWithin, StartRefsCover, Starters, CountedIsHeld
  <1>4. \A op, m : /\ StartList(m)' = StartList(m)
                   /\ StopInsteadList(m)' = StopInsteadList(m)
                   /\ SuspendList(m)' = SuspendList(m)
                   /\ StopList(op, m)' = StopList(op, m)
    BY DEF StartList, StopInsteadList, SuspendList, OnlyStarter, StopList, Scope
  <1>5. WaitsForAsked'
    <2> SUFFICES ASSUME NEW h \in Graph, call'[h].cmd \in {"START", "SUSPEND", "STOP"}
                 PROVE  h = g
      BY <1>1, <1>4 DEF WaitsForAsked, AskedList
    <2> QED
      BY <1>1, OthersNotInSs
  <1>6. ASSUME "SUSPEND" \notin Faults PROVE CountedRuns'
    <2> SUFFICES ASSUME NEW s \in SG, start_ref_cnt[s] > 0
                 PROVE  spf'[s] = "RUNNING" \/ HalfSuspended(s)'
      BY DEF CountedRuns
    <2>1. ~HalfSuspended(s)
      BY <1>6, OthersNotInSs DEF HalfSuspended, Waiting
    <2>2. spf[s] = "RUNNING"
      BY <1>6, <2>1 DEF CountedRuns
    <2>3. CASE UNCHANGED spf
      BY <2>2, <2>3
    <2>4. CASE cmd = "SUSPEND" /\ SpfDoes(StopInsteadList(n), "STOPPED")
      <3>1. CASE s \in StopInsteadList(n)
        <4>1. Waiting(g, "suspend", "SUSPEND")' /\ call'[g].node = n
          BY <1>1, <2>4 DEF Waiting, StoppingOp
        <4> QED
          BY <1>4, <3>1, <4>1 DEF HalfSuspended
      <3>2. CASE s \notin StopInsteadList(n)
        BY <2>2, <2>4, <3>2 DEF SpfDoes
      <3> QED
        BY <3>1, <3>2
    <2> QED
      BY <2>3, <2>4
  <1> QED
    BY <1>2, <1>3, <1>5, <1>6

\* And so does counting, when what is still counted runs.
LEMMA CountKeeps ==
  ASSUME TypeInv, StartInv, NEW g \in Graph, start_stop_lock = g, call[g].op \in SsOp,
         NEW n \in gkv_list, NextNode(g, n),
         NEW mask \in SUBSET sg_array[n], Recount(n, mask),
         start_ref_cnt' \in [SG -> Nat],
         UNCHANGED <<gkv_list, sg_array, start_stop_lock>>,
         "SUSPEND" \notin Faults
           => \A s \in SG : start_ref_cnt'[s] > 0 => spf'[s] = "RUNNING"
  PROVE  StartInv'
PROOF
  <1> USE DEF StartInv
  <1>0. n \in Node /\ mask \in SUBSET SG
    BY DEF TypeInv, TypeOK
  <1>1. /\ \A h \in Graph \ {g} : call'[h] = call[h]
        /\ call'[g].op = call[g].op /\ call'[g].todo = call[g].todo \ {n}
        /\ call'[g].cmd = NoCmd
        /\ call[g].op = "remove:stop" => call'[g].node = n
    BY DEF NextNode, SetCall, Call, TypeInv, TypeOK
  <1>2. SsLockHeld' /\ LinkedCalls'
    BY <1>1 DEF SsLockHeld, LinkedCalls, OpeningOp, SsOp
  <1>3. MasksWithin'
    BY <1>0 DEF MasksWithin, Recount, TypeInv, TypeOK
  <1>4. StartRefsCover'
    BY <1>0, RecountCovers
  <1>5. CountedIsHeld'
    <2> SUFFICES ASSUME NEW s \in SG, start_ref_cnt'[s] > 0
                 PROVE  \E m \in gkv_list : s \in sg_array[m]
      BY DEF CountedIsHeld
    <2>1. CASE start_ref_cnt[s] > 0
      BY <2>1 DEF CountedIsHeld
    <2>2. CASE ~(start_ref_cnt[s] > 0)
      <3>1. start_ref_cnt[s] = 0
        BY <2>2 DEF TypeInv, TypeOK
      <3>2. s \notin sg_start_mask[n]
        BY <1>0, <3>1, StartedIsCounted
      <3>3. s \in mask
        BY <3>1, <3>2 DEF Recount
      <3> QED
        BY <3>3
    <2> QED
      BY <2>1, <2>2
  <1>6. WaitsForAsked'
    BY <1>1, OthersNotInSs DEF WaitsForAsked, NoCmd
  <1>7. "SUSPEND" \notin Faults => CountedRuns'
    BY DEF CountedRuns
  <1> QED
    BY <1>2, <1>3, <1>4, <1>5, <1>6, <1>7

\* What the call with the lock may take for granted about counted subgraphs.
LEMMA RunsUnderLock ==
  ASSUME TypeInv, StartInv, NEW g \in Graph, start_stop_lock \in {g, Free},
         "SUSPEND" \notin Faults, NEW s \in SG, start_ref_cnt[s] > 0
  PROVE  \/ spf[s] = "RUNNING"
         \/ Waiting(g, "suspend", "SUSPEND") /\ s \in StopInsteadList(call[g].node)
PROOF
  <1>1. HalfSuspended(s) => /\ Waiting(g, "suspend", "SUSPEND")
                            /\ s \in StopInsteadList(call[g].node)
    BY OthersNotInSs DEF HalfSuspended, Waiting
  <1> QED
    BY <1>1 DEF StartInv, CountedRuns

\* The call with the lock, and its node while it waits.
LEMMA SsFacts ==
  ASSUME TypeInv, StartInv, NEW g \in Graph, call[g].op \in SsOp
  PROVE  /\ start_stop_lock = g
         /\ call[g].todo \subseteq gkv_list
         /\ call[g].cmd # NoCmd => call[g].node \in gkv_list
         /\ call[g].cmd \in {"START", "SUSPEND", "STOP"}
              => call[g].sgs = AskedList(call[g].op, call[g].cmd, call[g].node)
  BY DEF StartInv, SsLockHeld, LinkedCalls, WaitsForAsked, OpeningOp, SsOp

LEMMA StartKeeps ==
  ASSUME TypeInv, StartInv, NEW g \in Graph,
         \/ Start(g) \/ StartNode(g) \/ StartOk(g) \/ StartFailed(g) \/ StartDone(g)
  PROVE  StartInv'
PROOF
  <1>1. CASE Start(g)
    <2>1. call' = [call EXCEPT ![g] = Call("start", NodesOf(g), NoNode)]
      BY <1>1 DEF Start, TakeSs, SetCall
    <2>2. SsStep(g)
      BY <1>1, <2>1 DEF Start, TakeSs, SsStep, IsIdle, Waiting, Call, NodesOf, masks,
                  pool, SsOp, OpeningOp, TypeInv, TypeOK
    <2> QED
      BY <2>2, SsStepKeeps
  <1>2. CASE StartNode(g)
    <2> PICK n \in call[g].todo : StartNode(g)!(n)
      BY <1>2 DEF StartNode
    <2>1. /\ call[g].op = "start" /\ call[g].op \in SsOp /\ call[g].cmd = NoCmd
          /\ UNCHANGED <<gkv_list, sg_array, start_stop_lock, spf>>
      BY DEF Working, SsOp, locks
    <2>2. start_stop_lock = g /\ call[g].todo \subseteq gkv_list /\ n \in gkv_list
      BY <2>1, SsFacts
    <2>3. CASE NextNode(g, n) /\ UNCHANGED <<masks, pool>>
      <3>1. SsStep(g)
        BY <2>1, <2>2, <2>3 DEF NextNode, SetCall, SsStep, Waiting, Call, SsOp, OpeningOp,
                    NoCmd, TypeInv, TypeOK
      <3> QED
        BY <3>1, SsStepKeeps
    <2>4. CASE StartList(n) = {} /\ CountStarted(n) /\ NextNode(g, n)
      <3>1. n \in Node /\ sg_array[n] \subseteq SG
        BY <2>2 DEF TypeInv, TypeOK
      <3>2. Recount(n, sg_array[n])
        BY <2>2, <2>4, CountsAreRecounts DEF StartInv
      <3>3. start_ref_cnt' \in [SG -> Nat]
        BY <2>4, <3>1, CountsType
      <3>4. ASSUME "SUSPEND" \notin Faults, NEW s \in SG, start_ref_cnt'[s] > 0
            PROVE  spf'[s] = "RUNNING"
        <4>1. start_ref_cnt[s] > 0
          BY <2>4, <3>4 DEF CountStarted, Bump, StartList, TypeInv, TypeOK
        <4> QED
          BY <2>1, <2>2, <3>4, <4>1, RunsUnderLock DEF Waiting
      <3> QED
        BY <2>1, <2>2, <2>4, <3>2, <3>3, <3>4, CountKeeps
    <2>5. CASE SendSpfCmd(g, n, "START", StartList(n)) /\ UNCHANGED <<masks, pool>>
      <3>1. AskedList(call[g].op, "START", n) = StartList(n)
        BY <2>1 DEF AskedList
      <3> QED
        BY <2>1, <2>2, <2>5, <3>1, SsAskKeeps DEF NoCmd
    <2> QED
      BY <2>3, <2>4, <2>5
  <1>3. CASE StartOk(g)
    <2> DEFINE n == call[g].node
    <2>1. /\ call[g].op = "start" /\ call[g].op \in SsOp /\ call[g].cmd = "START"
          /\ UNCHANGED <<gkv_list, sg_array, start_stop_lock>>
          /\ SpfDoes(call[g].sgs, "RUNNING") /\ CountStarted(n) /\ NextNode(g, n)
      BY <1>3 DEF StartOk, Waiting, SsOp, locks
    <2>2. start_stop_lock = g /\ n \in gkv_list /\ call[g].sgs = StartList(n)
      BY <2>1, SsFacts DEF AskedList, NoCmd
    <2>3. n \in Node /\ sg_array[n] \subseteq SG
      BY <2>2 DEF TypeInv, TypeOK
    <2>4. Recount(n, sg_array[n])
      BY <2>1, <2>2, CountsAreRecounts DEF StartInv
    <2>5. start_ref_cnt' \in [SG -> Nat]
      BY <2>1, <2>3, CountsType
    <2>6. ASSUME "SUSPEND" \notin Faults, NEW s \in SG, start_ref_cnt'[s] > 0
          PROVE  spf'[s] = "RUNNING"
      <3>1. CASE s \in StartList(n)
        BY <2>1, <2>2, <3>1 DEF SpfDoes
      <3>2. CASE s \notin StartList(n)
        <4>1. start_ref_cnt[s] > 0
          BY <2>1, <2>6, <3>2 DEF CountStarted, Bump, StartList, TypeInv, TypeOK
        <4>2. spf[s] = "RUNNING"
          BY <2>1, <2>2, <2>6, <4>1, RunsUnderLock DEF Waiting
        <4> QED
          BY <2>1, <2>2, <3>2, <4>2 DEF SpfDoes
      <3> QED
        BY <3>1, <3>2
    <2> HIDE DEF n
    <2> QED
      BY <2>1, <2>2, <2>4, <2>5, <2>6, CountKeeps
  <1>4. CASE StartFailed(g) \/ StartDone(g)
    <2>1. /\ call[g].op = "start" /\ call[g].op \in SsOp
          /\ call' = [call EXCEPT ![g] = Idle] /\ start_stop_lock' = Free
          /\ UNCHANGED <<gkv_list, sg_array, masks, pool, spf>>
      BY <1>4 DEF StartFailed, StartDone, Waiting, Working, SsOp, ReleaseSs, SetCall
    <2>2. SsStep(g)
      BY <2>1, SsFacts, FreeIsNoGraph DEF SsStep, Waiting, Idle, Call, SsOp, OpeningOp,
         TypeInv, TypeOK
    <2> QED
      BY <2>2, SsStepKeeps
  <1> QED
    BY <1>1, <1>2, <1>3, <1>4

\* What is still counted when a suspend has let go of its node runs.
LEMMA SuspendRuns ==
  ASSUME TypeInv, StartInv, NEW g \in Graph, start_stop_lock = g, NEW n \in gkv_list,
         call[g].cmd = "SUSPEND" => call[g].node = n,
         "SUSPEND" \notin Faults, CountSuspended(n), NEW sgs, NEW state,
         sgs \subseteq OnlyStarter(n), SpfDoes(sgs, state) \/ UNCHANGED spf,
         NEW s \in SG, start_ref_cnt'[s] > 0
  PROVE  spf'[s] = "RUNNING"
PROOF
  <1>1. n \in Node /\ sg_start_mask[n] \subseteq SG /\ start_ref_cnt[s] \in Nat
    BY DEF TypeInv, TypeOK
  <1>2. start_ref_cnt[s] > 0 /\ s \notin OnlyStarter(n)
    BY <1>1 DEF CountSuspended, Drop, OnlyStarter
  <1>3. spf[s] = "RUNNING"
    BY <1>2, RunsUnderLock DEF StopInsteadList, Waiting
  <1> QED
    BY <1>2, <1>3 DEF SpfDoes

LEMMA SuspendRestKeeps ==
  ASSUME TypeInv, StartInv, NEW g \in Graph, call[g].op = "suspend",
         call[g].cmd # "SUSPEND", NEW n \in gkv_list, SuspendRest(g, n),
         UNCHANGED <<gkv_list, sg_array, start_stop_lock>>,
         \/ UNCHANGED spf /\ StopInsteadList(n) = {}
         \/ SpfDoes(StopInsteadList(n), "STOPPED")
  PROVE  StartInv'
PROOF
  <1>1. call[g].op \in SsOp /\ start_stop_lock = g
    BY SsFacts DEF SsOp
  <1>2. n \in Node /\ StopInsteadList(n) \subseteq OnlyStarter(n)
    BY DEF StopInsteadList, TypeInv, TypeOK
  <1>3. CASE CountSuspended(n) /\ NextNode(g, n)
    <2>1. Recount(n, {})
      BY <1>3, CountsAreRecounts DEF StartInv
    <2>2. start_ref_cnt' \in [SG -> Nat]
      BY <1>2, <1>3, CountsType
    <2>3. ASSUME "SUSPEND" \notin Faults, NEW s \in SG, start_ref_cnt'[s] > 0
          PROVE  spf'[s] = "RUNNING"
      BY <1>1, <1>2, <1>3, <2>3, SuspendRuns
    <2> QED
      BY <1>1, <1>3, <2>1, <2>2, <2>3, CountKeeps
  <1>4. CASE SendSpfCmd(g, n, "SUSPEND", SuspendList(n)) /\ UNCHANGED <<masks, pool>>
    <2>1. AskedList(call[g].op, "SUSPEND", n) = SuspendList(n)
      BY DEF AskedList
    <2> QED
      BY <1>1, <1>4, <2>1, SsAskKeeps
  <1> QED
    BY <1>3, <1>4 DEF SuspendRest

LEMMA SuspendKeeps ==
  ASSUME TypeInv, StartInv, NEW g \in Graph,
         \/ Suspend(g) \/ SuspendNode(g) \/ StopInsteadOk(g) \/ SuspendOk(g)
         \/ SuspendFailed(g) \/ SuspendDone(g)
  PROVE  StartInv'
PROOF
  <1> DEFINE n == call[g].node
  <1>1. CASE Suspend(g)
    <2>1. call' = [call EXCEPT ![g] =
                     Call("suspend", {m \in NodesOf(g) : sg_start_mask[m] # {}}, NoNode)]
      BY <1>1 DEF Suspend, TakeSs, SetCall
    <2>2. SsStep(g)
      BY <1>1, <2>1 DEF Suspend, TakeSs, SsStep, IsIdle, Waiting, Call, NodesOf, masks,
                  pool, SsOp, OpeningOp, TypeInv, TypeOK
    <2> QED
      BY <2>2, SsStepKeeps
  <1>2. CASE SuspendNode(g)
    <2> PICK m \in call[g].todo : SuspendNode(g)!(m)
      BY <1>2 DEF SuspendNode
    <2>1. /\ call[g].op = "suspend" /\ call[g].op \in SsOp /\ call[g].cmd = NoCmd
          /\ UNCHANGED <<gkv_list, sg_array, start_stop_lock, spf>>
      BY DEF Working, SsOp, locks
    <2>2. start_stop_lock = g /\ m \in gkv_list
      BY <2>1, SsFacts
    <2>3. CASE StopInsteadList(m) = {} /\ SuspendRest(g, m)
      BY <2>1, <2>2, <2>3, SuspendRestKeeps DEF NoCmd
    <2>4. CASE SendSpfCmd(g, m, "STOP", StopInsteadList(m)) /\ UNCHANGED <<masks, pool>>
      <3>1. AskedList(call[g].op, "STOP", m) = StopInsteadList(m)
        BY <2>1 DEF AskedList
      <3> QED
        BY <2>1, <2>2, <2>4, <3>1, SsAskKeeps DEF NoCmd
    <2> QED
      BY <2>3, <2>4
  <1>3. CASE StopInsteadOk(g)
    <2>1. /\ call[g].op = "suspend" /\ call[g].op \in SsOp /\ call[g].cmd = "STOP"
          /\ UNCHANGED <<gkv_list, sg_array, start_stop_lock>>
          /\ SpfDoes(call[g].sgs, "STOPPED") /\ SuspendRest(g, n)
      BY <1>3 DEF StopInsteadOk, Waiting, SsOp, locks
    <2>2. n \in gkv_list /\ call[g].sgs = StopInsteadList(n)
      BY <2>1, SsFacts DEF AskedList, NoCmd
    <2> HIDE DEF n
    <2> QED
      BY <2>1, <2>2, SuspendRestKeeps
  <1>4. CASE SuspendOk(g)
    <2>1. /\ call[g].op = "suspend" /\ call[g].op \in SsOp /\ call[g].cmd = "SUSPEND"
          /\ UNCHANGED <<gkv_list, sg_array, start_stop_lock>>
          /\ SpfDoes(call[g].sgs, "SUSPENDED") /\ CountSuspended(n) /\ NextNode(g, n)
      BY <1>4 DEF SuspendOk, Waiting, SsOp, locks
    <2>2. start_stop_lock = g /\ n \in gkv_list /\ call[g].sgs = SuspendList(n)
      BY <2>1, SsFacts DEF AskedList, NoCmd
    <2>3. n \in Node /\ SuspendList(n) \subseteq OnlyStarter(n)
      BY <2>2 DEF SuspendList, TypeInv, TypeOK
    <2>4. Recount(n, {})
      BY <2>1, <2>2, CountsAreRecounts DEF StartInv
    <2>5. start_ref_cnt' \in [SG -> Nat]
      BY <2>1, <2>3, CountsType
    <2>6. ASSUME "SUSPEND" \notin Faults, NEW s \in SG, start_ref_cnt'[s] > 0
          PROVE  spf'[s] = "RUNNING"
      BY <2>1, <2>2, <2>3, <2>6, SuspendRuns
    <2> HIDE DEF n
    <2> QED
      BY <2>1, <2>2, <2>4, <2>5, <2>6, CountKeeps
  <1>5. CASE SuspendFailed(g) \/ SuspendDone(g)
    <2>1. /\ call[g].op = "suspend" /\ call[g].op \in SsOp
          /\ call' = [call EXCEPT ![g] = Idle] /\ start_stop_lock' = Free
          /\ UNCHANGED <<gkv_list, sg_array, masks, pool, spf>>
          /\ call[g].cmd = "SUSPEND" => "SUSPEND" \in Faults
      BY <1>5 DEF SuspendFailed, SuspendDone, SpfMayFail, Waiting, Working, NoCmd, SsOp,
                  ReleaseSs, SetCall
    <2>2. SsStep(g)
      BY <2>1, SsFacts, FreeIsNoGraph DEF SsStep, Waiting, Idle, Call, SsOp, OpeningOp,
         TypeInv, TypeOK
    <2> QED
      BY <2>2, SsStepKeeps
  <1> QED
    BY <1>1, <1>2, <1>3, <1>4, <1>5

\* What is still counted when a stop has let go of its node runs.
LEMMA StopRuns ==
  ASSUME TypeInv, StartInv, NEW g \in Graph, start_stop_lock = g,
         call[g].op \in StoppingOp, NEW n \in gkv_list,
         "SUSPEND" \notin Faults, CountStopped(call[g].op, n),
         \/ UNCHANGED spf /\ StopList(call[g].op, n) = {}
         \/ SpfDoes(StopList(call[g].op, n), "STOPPED"),
         NEW s \in SG, start_ref_cnt'[s] > 0
  PROVE  spf'[s] = "RUNNING"
PROOF
  <1>1. n \in Node /\ start_ref_cnt[s] \in Nat
    BY DEF TypeInv, TypeOK
  <1>2. start_ref_cnt[s] > 0 /\ s \notin StopList(call[g].op, n)
    BY <1>1 DEF CountStopped, Drop, StopList
  <1>3. spf[s] = "RUNNING"
    BY <1>2, RunsUnderLock DEF Waiting, StoppingOp
  <1> QED
    BY <1>2, <1>3 DEF SpfDoes

LEMMA StopKeeps ==
  ASSUME TypeInv, StartInv, NEW g \in Graph,
         \/ Stop(g) \/ StopWithProperties(g) \/ StopNode(g) \/ StopOk(g)
         \/ StopFailed(g) \/ StopDone(g)
  PROVE  StartInv'
PROOF
  <1> DEFINE op == call[g].op
  <1>1. CASE Stop(g) \/ StopWithProperties(g)
    <2>1. PICK o \in {"stop", "stop_props"}, todo \in SUBSET NodesOf(g) :
            IsIdle(g) /\ TakeSs(g, o, todo)
      BY <1>1 DEF Stop, StopWithProperties
    <2>2. call' = [call EXCEPT ![g] = Call(o, todo, NoNode)]
      BY <2>1 DEF TakeSs, SetCall
    <2>3. SsStep(g)
      BY <2>1, <2>2 DEF TakeSs, SsStep, IsIdle, Waiting, Call, NodesOf, masks,
                  pool, SsOp, OpeningOp, TypeInv, TypeOK
    <2> QED
      BY <2>3, SsStepKeeps
  <1>2. ASSUME NEW n \in gkv_list, op \in StoppingOp, CountStopped(op, n), NextNode(g, n),
               UNCHANGED <<gkv_list, sg_array, start_stop_lock>>,
               \/ UNCHANGED spf /\ StopList(op, n) = {}
               \/ SpfDoes(StopList(op, n), "STOPPED")
        PROVE  StartInv'
    <2>1. call[g].op \in SsOp /\ start_stop_lock = g
      BY <1>2, SsFacts DEF StoppingOp, SsOp
    <2>2. n \in Node /\ sg_start_mask[n] \subseteq sg_array[n]
      BY <1>2 DEF StartInv, MasksWithin, TypeInv, TypeOK
    <2>3. Recount(n, sg_start_mask[n] \ Scope(op, n))
      BY <1>2, CountsAreRecounts DEF StartInv
    <2>4. start_ref_cnt' \in [SG -> Nat]
      BY <1>2, <2>2, CountsType
    <2>5. ASSUME "SUSPEND" \notin Faults, NEW s \in SG, start_ref_cnt'[s] > 0
          PROVE  spf'[s] = "RUNNING"
      BY <1>2, <2>1, <2>5, StopRuns
    <2> DEFINE mask == sg_start_mask[n] \ Scope(op, n)
    <2>6. mask \in SUBSET sg_array[n]
      BY <2>2
    <2> HIDE DEF mask
    <2>7. Recount(n, mask)
      BY <2>3 DEF mask
    <2> QED
      BY <1>2, <2>1, <2>4, <2>5, <2>6, <2>7, CountKeeps
  <1>3. CASE StopNode(g)
    <2> PICK o \in StoppingOp, n \in call[g].todo : StopNode(g)!(o, n)
      BY <1>3 DEF StopNode
    <2>1. /\ op = o /\ call[g].op \in SsOp /\ call[g].cmd = NoCmd
          /\ UNCHANGED <<gkv_list, sg_array, start_stop_lock, spf>>
      BY DEF Working, SsOp, StoppingOp, locks
    <2>2. start_stop_lock = g /\ n \in gkv_list
      BY <2>1, SsFacts
    <2>3. CASE StopList(op, n) = {} /\ CountStopped(op, n) /\ NextNode(g, n)
      BY <1>2, <2>1, <2>2, <2>3
    <2>4. CASE SendSpfCmd(g, n, "STOP", StopList(op, n)) /\ UNCHANGED <<masks, pool>>
      <3>1. AskedList(call[g].op, "STOP", n) = StopList(op, n)
        BY <2>1 DEF AskedList, StoppingOp
      <3> QED
        BY <2>1, <2>2, <2>4, <3>1, SsAskKeeps DEF NoCmd
    <2> QED
      BY <2>1, <2>3, <2>4
  <1>4. CASE StopOk(g)
    <2> PICK o \in StoppingOp : StopOk(g)!(o)
      BY <1>4 DEF StopOk
    <2>1. /\ op = o /\ call[g].op \in SsOp /\ call[g].cmd = "STOP"
          /\ UNCHANGED <<gkv_list, sg_array, start_stop_lock>>
      BY DEF Waiting, SsOp, StoppingOp, locks
    <2>2. call[g].node \in gkv_list /\ call[g].sgs = StopList(op, call[g].node)
      BY <2>1, SsFacts DEF AskedList, StoppingOp, NoCmd
    <2> QED
      BY <1>2, <2>1, <2>2
  <1>5. CASE StopFailed(g) \/ StopDone(g)
    <2>1. /\ op \in StoppingOp /\ call[g].op \in SsOp
          /\ call' = [call EXCEPT ![g] = AfterStop(g, op)] /\ start_stop_lock' = Free
          /\ UNCHANGED <<gkv_list, sg_array, masks, pool, spf>>
      BY <1>5 DEF StopFailed, StopDone, Waiting, Working, StoppingOp, SsOp, ReleaseSs,
                  SetCall
    <2>2. op = "remove:stop" => call[g].node \in gkv_list
      BY DEF StartInv, LinkedCalls, OpeningOp
    <2>3. /\ AfterStop(g, op).op \in {"close:wait", "remove:wait", "idle"}
          /\ AfterStop(g, op).op = "remove:wait" => AfterStop(g, op).node \in gkv_list
          /\ AfterStop(g, op).todo = {} /\ AfterStop(g, op).cmd = NoCmd
      BY <2>1, <2>2 DEF AfterStop, Idle, Call
    <2> DEFINE after == AfterStop(g, op)
    <2> HIDE DEF after
    <2>4. SsStep(g)
      BY <2>1, <2>3, SsFacts, FreeIsNoGraph DEF SsStep, Waiting, SsOp, StoppingOp,
         OpeningOp, TypeInv, TypeOK
    <2> QED
      BY <2>4, SsStepKeeps
  <1> QED
    BY <1>1, <1>2, <1>3, <1>4, <1>5

\* A step beside start_stop_lock that leaves linked nodes, their counts and their
\* subgraphs alone.
Quiet(g) ==
  /\ UNCHANGED <<sg_start_mask, start_ref_cnt, stop_ref_cnt, start_stop_lock>>
  /\ gkv_list \subseteq gkv_list'
  /\ \A n \in gkv_list :
       sg_array'[n] = sg_array[n] /\ \A s \in sg_array[n] : spf'[s] = spf[s]
  /\ \A h \in Graph \ {g} : call'[h] = call[h]
  /\ call[g].op \notin SsOp /\ call'[g].op \notin SsOp
  /\ call'[g].cmd \notin {"START", "SUSPEND", "STOP"}
  /\ call'[g].op \notin OpeningOp =>
       /\ call'[g].todo \subseteq gkv_list'
       /\ call'[g].cmd # NoCmd \/ call'[g].op \in {"remove:stop", "remove:wait"}
            => call'[g].node \in gkv_list'

LEMMA QuietKeeps ==
  ASSUME TypeInv, StartInv, NEW g \in Graph, Quiet(g)
  PROVE  StartInv'
PROOF
  <1> USE DEF Quiet, StartInv
  <1>0. gkv_list \subseteq Node
    BY DEF TypeInv, TypeOK
  <1>1. SsLockHeld' /\ LinkedCalls'
    BY DEF SsLockHeld, LinkedCalls
  <1>2. MasksWithin' /\ StartRefsCover' /\ CountedIsHeld'
    BY <1>0 DEF MasksWithin, StartRefsCover, Starters, CountedIsHeld
  <1>3. \A op, n : n \in gkv_list => /\ StartList(n)' = StartList(n)
                                     /\ StopInsteadList(n)' = StopInsteadList(n)
                                     /\ SuspendList(n)' = SuspendList(n)
                                     /\ StopList(op, n)' = StopList(op, n)
    BY DEF StartList, StopInsteadList, SuspendList, OnlyStarter, StopList, Scope
  <1>4. ASSUME NEW h \in Graph, call[h].cmd \in {"START", "SUSPEND", "STOP"}
        PROVE  h # g /\ call[h].node \in gkv_list
    <2>1. call[h].op \in SsOp
      BY <1>4 DEF WaitsForAsked, SsOp, StoppingOp
    <2> QED
      BY <1>4, <2>1, SsFacts DEF NoCmd
  <1>5. WaitsForAsked'
    <2> SUFFICES ASSUME NEW h \in Graph, call[h].cmd \in {"START", "SUSPEND", "STOP"},
                        call'[h] = call[h]
                 PROVE  AskedList(call[h].op, call[h].cmd, call[h].node)'
                          = AskedList(call[h].op, call[h].cmd, call[h].node)
      BY DEF WaitsForAsked
    <2> QED
      BY <1>3, <1>4 DEF AskedList
  <1>6. ASSUME "SUSPEND" \notin Faults PROVE CountedRuns'
    <2> SUFFICES ASSUME NEW s \in SG, start_ref_cnt[s] > 0
                 PROVE  spf'[s] = "RUNNING" \/ HalfSuspended(s)'
      BY DEF CountedRuns
    <2>1. PICK n \in gkv_list : s \in sg_array[n]
      BY DEF CountedIsHeld
    <2>2. HalfSuspended(s) => HalfSuspended(s)'
      BY <1>3, <1>4 DEF HalfSuspended, Waiting
    <2> QED
      BY <1>6, <2>1, <2>2 DEF CountedRuns
  <1> QED
    BY <1>1, <1>2, <1>5, <1>6

\* What a node's close frees or closes, no other node holds.
LEMMA FreedIsOwn ==
  ASSUME TypeInv, SharingInv, NEW n \in Node, NEW m \in Node, m # n,
         NEW s \in sg_array[m]
  PROVE  s \notin Pruned(sg_array[n]) /\ (s \in sg_array[n] => ~(open_ref_cnt[s] <= 1))
PROOF
  <1>1. s \notin Pruned(sg_array[n])
    BY PrunedIsOwn DEF SharingInv
  <1>2. ASSUME s \in sg_array[n] PROVE open_ref_cnt[s] # 0
    <2>1. s \in SG /\ n \in Holders(s)
      BY <1>2 DEF Holders, TypeInv, TypeOK
    <2> QED
      BY <2>1, HoldersFinite, FS_EmptySet DEF SharingInv, OpenRefsExact
  <1> QED
    BY <1>1, <1>2 DEF Pruned, TypeInv, TypeOK

\* What it does not free, another linked node holds.
LEMMA KeptIsHeld ==
  ASSUME TypeInv, SharingInv, NEW g \in Graph, call[g].op \in ClosingOp,
         NEW n \in Node, NEW s \in sg_array[n], ~(open_ref_cnt[s] <= 1)
  PROVE  \E m \in gkv_list \ {n} : s \in sg_array[m]
PROOF
  <1>1. s \in SG /\ n \in Holders(s)
    BY DEF Holders, TypeInv, TypeOK
  <1>2. Holders(s) # {n}
    <2> SUFFICES ASSUME Holders(s) = {n} PROVE open_ref_cnt[s] = 1
      OBVIOUS
    <2>1. Cardinality(Holders(s)) = 1
      BY FS_Singleton
    <2> QED
      BY <1>1, <2>1 DEF SharingInv, OpenRefsExact
  <1>3. PICK m \in Holders(s) : m # n
    BY <1>1, <1>2
  <1>4. m \in Node /\ m[1] \in Graph /\ s \in sg_array[m]
    BY <1>3 DEF Holders, Node
  <1>5. m \in gkv_list
    <2> SUFFICES ASSUME m \notin gkv_list PROVE FALSE
      OBVIOUS
    <2>1. Opening(m)
      BY <1>4 DEF SharingInv, UnlinkedIsEmpty
    <2>2. open_close_lock = m[1] /\ open_close_lock = g
      BY <1>4, <2>1 DEF SharingInv, OcLockHeld, Opening, OpeningOp, ClosingOp, OcOp, ChangingOp
    <2> QED
      BY <2>1, <2>2 DEF Opening, OpeningOp, ClosingOp
  <1> QED
    BY <1>3, <1>4, <1>5

\* A call gives up a node: one it has closed, or one it could not open.
Drops(g, n) ==
  /\ PoolRemove(sg_array[n])
  /\ sg_array' = [sg_array EXCEPT ![n] = {}]
  /\ gkv_list' = gkv_list \ {n}
  /\ sg_start_mask' = [sg_start_mask EXCEPT ![n] = {}]
  /\ UNCHANGED start_stop_lock
  /\ \A s \in SG \ Pruned(sg_array[n]) : spf'[s] = spf[s]
  /\ \A h \in Graph \ {g} : call'[h] = call[h]
  /\ call[g].op \notin SsOp /\ call'[g].op \notin SsOp
  /\ call'[g].op \notin OpeningOp \cup {"remove:wait"} /\ call'[g].cmd = NoCmd
  /\ call'[g].todo \subseteq gkv_list'

LEMMA DropKeeps ==
  ASSUME TypeInv, SharingInv, StartInv, NEW g \in Graph, NEW n \in Node, n[1] = g,
         call[g].op \in ClosingOp \/ n \notin gkv_list, call[g].op \in OcOp, Drops(g, n)
  PROVE  StartInv'
PROOF
  <1> USE DEF StartInv
  <1>1. SsLockHeld'
    BY DEF SsLockHeld, Drops
  <1>2. LinkedCalls'
    <2> SUFFICES ASSUME NEW h \in Graph \ {g}, call[h].op \notin OpeningOp
                 PROVE  /\ call[h].todo \subseteq gkv_list \ {n}
                        /\ \/ call[h].cmd # NoCmd
                           \/ call[h].op \in {"remove:stop", "remove:wait"}
                           => call[h].node \in gkv_list \ {n}
      BY DEF LinkedCalls, Drops, SsOp
    <2> QED
      BY CallFacts DEF LinkedCalls
  <1>3. MasksWithin'
    BY DEF MasksWithin, Drops, TypeInv, TypeOK
  <1>4. \A m \in Node \ {n}, s \in SG : s \in sg_array[m] =>
          /\ start_ref_cnt'[s] = start_ref_cnt[s] /\ stop_ref_cnt'[s] = stop_ref_cnt[s]
          /\ spf'[s] = spf[s]
    BY FreedIsOwn DEF Drops, PoolRemove, Pruned
  <1>5. \A s \in SG : start_ref_cnt'[s] # 0 =>
          /\ start_ref_cnt'[s] = start_ref_cnt[s]
          /\ s \in sg_array[n] => ~(open_ref_cnt[s] <= 1)
    BY DEF Drops, PoolRemove
  <1>6. CountedIsHeld'
    <2> SUFFICES ASSUME NEW s \in SG, start_ref_cnt'[s] > 0
                 PROVE  \E m \in gkv_list \ {n} : s \in sg_array[m]
      BY DEF CountedIsHeld, Drops, TypeInv, TypeOK
    <2>1. start_ref_cnt'[s] = start_ref_cnt[s] /\ start_ref_cnt'[s] # 0
      <3>1. start_ref_cnt'[s] # 0
        OBVIOUS
      <3> QED
        BY <1>5, <3>1
    <2>2. PICK m \in gkv_list : s \in sg_array[m]
      BY <2>1 DEF CountedIsHeld
    <2>3. CASE m = n
      <3>1. ~(open_ref_cnt[s] <= 1)
        BY <1>5, <2>1, <2>2, <2>3
      <3> QED
        BY <2>2, <2>3, <3>1, KeptIsHeld
    <2>4. CASE m # n
      BY <2>2, <2>4
    <2> QED
      BY <2>3, <2>4
  <1>7. StartRefsCover'
    <2> SUFFICES ASSUME NEW s \in SG
                 PROVE  start_ref_cnt'[s] >= Cardinality(Starters(s)')
      BY DEF StartRefsCover
    <2>1. Starters(s)' \subseteq Starters(s) \ {n}
      BY DEF Starters, Drops, TypeInv, TypeOK
    <2>2. /\ IsFiniteSet(Starters(s)) /\ start_ref_cnt[s] >= Cardinality(Starters(s))
          /\ start_ref_cnt[s] \in Nat /\ Cardinality(Starters(s)) \in Nat
      BY StartersFinite DEF StartRefsCover, TypeInv, TypeOK
    <2>3. CASE s \in sg_array[n] /\ open_ref_cnt[s] <= 1
      <3>1. Starters(s)' = {}
        <4> SUFFICES ASSUME NEW m \in Starters(s), m # n PROVE FALSE
          BY <2>1
        <4>1. m \in Node /\ s \in sg_array[m]
          BY DEF Starters, MasksWithin
        <4> QED
          BY <2>3, <4>1, FreedIsOwn
      <3>2. start_ref_cnt'[s] = 0
        BY <2>3 DEF Drops, PoolRemove
      <3> QED
        BY <3>1, <3>2, FS_EmptySet
    <2>4. CASE ~(s \in sg_array[n] /\ open_ref_cnt[s] <= 1)
      <3>1. start_ref_cnt'[s] = start_ref_cnt[s]
        BY <2>4 DEF Drops, PoolRemove
      <3>2. /\ Cardinality(Starters(s)') <= Cardinality(Starters(s))
            /\ IsFiniteSet(Starters(s)')
        BY <2>1, <2>2, FS_Subset
      <3>3. Cardinality(Starters(s)') \in Nat
        BY <3>2, FS_CardinalityType
      <3> QED
        BY <2>2, <3>1, <3>2, <3>3
    <2> QED
      BY <2>3, <2>4
  <1>8. ASSUME NEW h \in Graph, call[h].cmd \in {"START", "SUSPEND", "STOP"}
        PROVE  /\ h # g /\ call'[h] = call[h] /\ call[h].node \in gkv_list \ {n}
               /\ call[h].node \in Node
    <2>1. call[h].op \in SsOp
      BY <1>8 DEF WaitsForAsked, SsOp, StoppingOp
    <2> QED
      BY <1>8, <2>1, SsFacts, CallFacts DEF NoCmd, Drops
  <1>9. \A op, m : m \in gkv_list \ {n} => /\ StartList(m)' = StartList(m)
                                           /\ StopInsteadList(m)' = StopInsteadList(m)
                                           /\ SuspendList(m)' = SuspendList(m)
                                           /\ StopList(op, m)' = StopList(op, m)
    <2> SUFFICES ASSUME NEW op, NEW m \in gkv_list \ {n}
                 PROVE  /\ StartList(m)' = StartList(m)
                        /\ StopInsteadList(m)' = StopInsteadList(m)
                        /\ SuspendList(m)' = SuspendList(m)
                        /\ StopList(op, m)' = StopList(op, m)
      OBVIOUS
    <2>1. /\ m \in Node /\ sg_array[m] \subseteq SG /\ sg_start_mask[m] \subseteq sg_array[m]
          /\ sg_array'[m] = sg_array[m] /\ sg_start_mask'[m] = sg_start_mask[m]
      BY DEF MasksWithin, Drops, TypeInv, TypeOK
    <2>2. \A s \in sg_array[m] : /\ start_ref_cnt'[s] = start_ref_cnt[s]
                                 /\ stop_ref_cnt'[s] = stop_ref_cnt[s]
      BY <1>4, <2>1
    <2> QED
      BY <2>1, <2>2 DEF StartList, StopInsteadList, SuspendList, OnlyStarter, StopList, Scope
  <1>10. WaitsForAsked'
    <2> SUFFICES ASSUME NEW h \in Graph, call[h].cmd \in {"START", "SUSPEND", "STOP"},
                        call'[h] = call[h]
                 PROVE  AskedList(call[h].op, call[h].cmd, call[h].node)'
                          = AskedList(call[h].op, call[h].cmd, call[h].node)
      BY DEF WaitsForAsked, Drops, NoCmd
    <2> QED
      BY <1>8, <1>9 DEF AskedList
  <1>11. ASSUME "SUSPEND" \notin Faults PROVE CountedRuns'
    <2> SUFFICES ASSUME NEW s \in SG, start_ref_cnt'[s] > 0
                 PROVE  spf'[s] = "RUNNING" \/ HalfSuspended(s)'
      BY DEF CountedRuns
    <2>1. PICK m \in gkv_list' : s \in sg_array'[m]
      BY <1>6 DEF CountedIsHeld
    <2>2. m \in Node \ {n} /\ s \in sg_array[m]
      BY <2>1 DEF Drops, TypeInv, TypeOK
    <2>3. start_ref_cnt[s] > 0 /\ spf'[s] = spf[s]
      BY <1>4, <2>2
    <2>4. HalfSuspended(s) => HalfSuspended(s)'
      BY <1>8, <1>9 DEF HalfSuspended, Waiting
    <2> QED
      BY <1>11, <2>3, <2>4 DEF CountedRuns
  <1> QED
    BY <1>1, <1>2, <1>3, <1>6, <1>7, <1>10, <1>11

LEMMA OpenKeepsStarts ==
  ASSUME TypeInv, SharingInv, StartInv, NEW g \in Graph,
         \/ OpenEmpty(g) \/ OpenGkv(g) \/ OpenNode(g) \/ OpenOk(g) \/ CalOk(g)
         \/ CalFailed(g) \/ OpenFailed(g)
  PROVE  StartInv'
PROOF
  <1> DEFINE n == call[g].node
  <1> USE DEF masks, pool, locks
  <1>1. CASE OpenEmpty(g)
    <2>1. /\ call[g].todo \subseteq gkv_list /\ call[g].op = "idle"
          /\ call[g].cmd \notin {"START", "SUSPEND", "STOP"}
      BY <1>1 DEF OpenEmpty, IsIdle, StartInv, LinkedCalls, OpeningOp, WaitsForAsked,
                  StoppingOp
    <2>2. Quiet(g)
      BY <1>1, <2>1 DEF OpenEmpty, Quiet, StartInv, LinkedCalls, SsOp, OpeningOp
    <2> QED
      BY <2>2, QuietKeeps
  <1>2. CASE OpenGkv(g)
    <2> PICK k \in GkvOf[g], op \in OpeningOp :
               /\ IsIdle(g) /\ <<g, k>> \notin gkv_list
               /\ sg_array' = [sg_array EXCEPT ![<<g, k>>] = SgsOf[k]]
               /\ call' = [call EXCEPT ![g] = Call(op, {<<g, k>>}, <<g, k>>)]
               /\ UNCHANGED <<gkv_list, masks, start_ref_cnt, stop_ref_cnt,
                              start_stop_lock, spf>>
      BY <1>2 DEF OpenGkv, SetCall, OpeningOp
    <2> DEFINE m == <<g, k>>
    <2>1. m \notin gkv_list /\ \A q \in gkv_list : q \in Node /\ sg_array'[q] = sg_array[q]
      BY DEF TypeInv, TypeOK
    <2> HIDE DEF m
    <2>2. call'[g].op = op /\ call'[g].cmd = NoCmd /\ \A h \in Graph \ {g} : call'[h] = call[h]
      BY DEF Call, TypeInv, TypeOK
    <2>3. Quiet(g)
      BY <2>1, <2>2 DEF Quiet, IsIdle, SsOp, OpeningOp, NoCmd
    <2> QED
      BY <2>3, QuietKeeps
  \* Linking a node, and asking SPF about one that is not linked, are quiet.
  <1>3. ASSUME call[g].op \in OpeningOp, LinkNode(g, n), UNCHANGED spf
        PROVE  StartInv'
    <2>1. /\ gkv_list \subseteq gkv_list'
          /\ UNCHANGED <<sg_array, masks, pool, start_stop_lock>>
          /\ call' = [call EXCEPT ![g] = Idle]
      BY <1>3 DEF LinkNode, ReleaseOc, SetCall
    <2>2. Quiet(g)
      BY <1>3, <2>1 DEF Quiet, Idle, Call, NoCmd, SsOp, OpeningOp, TypeInv, TypeOK
    <2> QED
      BY <2>2, QuietKeeps
  <1>4. ASSUME call[g].op \in OpeningOp, NEW cmd \in {"OPEN", "SET_CFG", "CLOSE"}, NEW sgs,
               SendSpfCmd(g, n, cmd, sgs),
               UNCHANGED <<graph_state, gkv_list, sg_array, masks, pool, locks>>,
               \A s \in SG \ Pruned(sg_array[n]) : spf'[s] = spf[s]
        PROVE  StartInv'
    <2>1. /\ call'[g].op = call[g].op /\ call'[g].cmd = cmd
          /\ \A h \in Graph \ {g} : call'[h] = call[h]
      BY <1>4 DEF SendSpfCmd, SetCall, TypeInv, TypeOK
    <2>2. n \notin gkv_list /\ n \in Node
      BY <1>4, CallFacts DEF SharingInv, OpensUnlinked, OpeningOp
    <2>3. ASSUME NEW m \in gkv_list, NEW s \in sg_array[m] PROVE spf'[s] = spf[s]
      <3>1. m \in Node /\ s \in SG /\ m # n
        BY <2>2, <2>3 DEF TypeInv, TypeOK
      <3>2. s \notin Pruned(sg_array[n])
        BY <2>2, <2>3, <3>1, FreedIsOwn
      <3> QED
        BY <1>4, <3>1, <3>2
    <2> HIDE DEF n
    <2>4. Quiet(g)
      BY <1>4, <2>1, <2>3 DEF Quiet, SsOp, OpeningOp
    <2> QED
      BY <2>4, QuietKeeps
  <1>5. CASE OpenNode(g)
    <2> PICK op \in OpeningOp, m \in call[g].todo : OpenNode(g)!(op, m)
      BY <1>5 DEF OpenNode
    <2>1. call[g].op \in OpeningOp /\ m = n
      BY DEF Working, SharingInv, OpensUnlinked
    <2> QED
      BY <1>3, <1>4, <2>1
  <1>6. CASE OpenOk(g)
    <2> PICK op \in OpeningOp : OpenOk(g)!(op)
      BY <1>6 DEF OpenOk
    <2>1. call[g].op \in OpeningOp /\ call[g].sgs = Pruned(sg_array[n])
      BY DEF OpeningOp, Waiting, SharingInv, WaitsForPruned
    <2>2. CASE call[g].sgs = {} /\ LinkNode(g, n)
      <3>1. UNCHANGED spf
        BY <2>2 DEF SpfDoes, TypeInv, TypeOK
      <3> QED
        BY <1>3, <2>1, <2>2, <3>1
    <2>3. CASE /\ SendSpfCmd(g, n, "SET_CFG", call[g].sgs)
               /\ UNCHANGED <<graph_state, gkv_list, sg_array, masks, pool, locks>>
      <3>1. \A s \in SG \ Pruned(sg_array[n]) : spf'[s] = spf[s]
        BY <2>1 DEF SpfDoes
      <3> QED
        BY <1>4, <2>1, <2>3, <3>1
    <2> QED
      BY <2>2, <2>3
  <1>7. CASE CalOk(g)
    BY <1>3, <1>7 DEF CalOk, Waiting
  <1>8. CASE CalFailed(g)
    BY <1>4, <1>8 DEF CalFailed, Waiting
  <1>9. CASE OpenFailed(g)
    <2>1. /\ call[g].op \in OpeningOp /\ call[g].op \in OcOp /\ n \in Node /\ n[1] = g
          /\ n \notin gkv_list /\ call[g].sgs = Pruned(sg_array[n])
      BY <1>9, CallFacts DEF OpenFailed, Waiting, NoCmd, SharingInv, WaitsForPruned,
                             OpeningOp, OcOp, ChangingOp, OpensUnlinked
    <2>2. /\ PoolRemove(sg_array[n]) /\ sg_array' = [sg_array EXCEPT ![n] = {}]
          /\ call' = [call EXCEPT ![g] = Idle] /\ UNCHANGED <<gkv_list, masks, start_stop_lock>>
          /\ UNCHANGED spf \/ SpfDoes(call[g].sgs, "CLOSED")
      BY <1>9 DEF OpenFailed, UndoOpen, ReleaseOc, SetCall
    <2>3. sg_start_mask[n] = {}
      BY <2>1 DEF StartInv, MasksWithin
    <2>4. sg_start_mask' = [sg_start_mask EXCEPT ![n] = {}]
      BY <2>1, <2>2, <2>3 DEF TypeInv, TypeOK
    <2>5. /\ call'[g].op = "idle" /\ call'[g].todo = {} /\ call'[g].cmd = NoCmd
          /\ \A h \in Graph \ {g} : call'[h] = call[h]
      BY <2>2 DEF Idle, Call, TypeInv, TypeOK
    <2>6. \A s \in SG \ Pruned(sg_array[n]) : spf'[s] = spf[s]
      BY <2>1, <2>2 DEF SpfDoes
    <2> HIDE DEF n
    <2>7. gkv_list' = gkv_list \ {n}
      BY <2>1, <2>2
    <2>8. Drops(g, n)
      BY <2>1, <2>2, <2>4, <2>5, <2>6, <2>7 DEF Drops, NoCmd, SsOp, OpeningOp
    <2> QED
      BY <2>1, <2>8, DropKeeps
  <1> QED
    BY <1>1, <1>2, <1>5, <1>6, <1>7, <1>8, <1>9

LEMMA FreeNodeKeepsStarts ==
  ASSUME TypeInv, SharingInv, StartInv, NEW g \in Graph,
         NEW n \in {m \in Node : m[1] = g}, call[g].op \in ClosingOp, FreeNode(g, n),
         UNCHANGED start_stop_lock,
         UNCHANGED spf \/ SpfDoes(Pruned(sg_array[n]), "CLOSED")
  PROVE  StartInv'
PROOF
  <1>1. call[g].op \in OcOp \ SsOp /\ call[g].todo \subseteq gkv_list
    BY DEF ClosingOp, OcOp, ChangingOp, SsOp, StartInv, LinkedCalls, OpeningOp
  <1>2. /\ PoolRemove(sg_array[n]) /\ sg_array' = [sg_array EXCEPT ![n] = {}]
        /\ sg_start_mask' = [sg_start_mask EXCEPT ![n] = {}]
        /\ gkv_list' = gkv_list \ {n}
        /\ \A h \in Graph \ {g} : call'[h] = call[h]
        /\ call'[g].op = call[g].op /\ call'[g].cmd = NoCmd
        /\ call'[g].todo = call[g].todo \ {n}
    BY DEF FreeNode, NextNode, SetCall, Call, TypeInv, TypeOK
  <1>3. \A s \in SG \ Pruned(sg_array[n]) : spf'[s] = spf[s]
    BY DEF SpfDoes
  <1>4. Drops(g, n)
    BY <1>1, <1>2, <1>3 DEF Drops, ClosingOp, OpeningOp
  <1> QED
    BY <1>1, <1>4, DropKeeps

LEMMA CloseKeepsStarts ==
  ASSUME TypeInv, SharingInv, StartInv, NEW g \in Graph,
         \/ Close(g) \/ RemoveGraph(g)
         \/ EnterClose(g) \/ CloseNode(g) \/ CloseAnswered(g) \/ CloseDone(g)
  PROVE  StartInv'
PROOF
  <1> USE DEF masks, pool, locks
  <1>1. ASSUME NEW op \in {"close:stop", "remove:stop"}, NEW todo \in SUBSET NodesOf(g),
               NEW node, op = "remove:stop" => node \in gkv_list, IsIdle(g),
               start_stop_lock = Free, start_stop_lock' = g,
               call' = [call EXCEPT ![g] = Call(op, todo, node)],
               UNCHANGED <<gkv_list, sg_array, masks, pool, spf>>
        PROVE  StartInv'
    <2>1. SsStep(g)
      BY <1>1 DEF SsStep, IsIdle, Waiting, Call, NodesOf, SsOp, OpeningOp, TypeInv, TypeOK
    <2> QED
      BY <2>1, SsStepKeeps
  \* The call goes on beside the lock, about linked nodes.
  <1>2. ASSUME NEW op \in {"close:wait", "remove:wait", "close", "remove", "idle"},
               NEW todo \in SUBSET gkv_list, NEW node,
               op = "remove:wait" => node \in gkv_list, call[g].op \notin SsOp,
               call' = [call EXCEPT ![g] = Call(op, todo, node)],
               UNCHANGED <<gkv_list, sg_array, masks, pool, spf, start_stop_lock>>
        PROVE  StartInv'
    <2>1. /\ call'[g].op = op /\ call'[g].todo = todo /\ call'[g].node = node
          /\ call'[g].cmd = NoCmd /\ \A h \in Graph \ {g} : call'[h] = call[h]
      BY <1>2 DEF Call, TypeInv, TypeOK
    <2>2. Quiet(g)
      BY <1>2, <2>1 DEF Quiet, NoCmd, SsOp, OpeningOp
    <2> QED
      BY <2>2, QuietKeeps
  <1>3. CASE Close(g)
    <2>1. CASE IsIdle(g) /\ TakeSs(g, "close:stop", NodesOf(g))
      BY <1>1, <2>1 DEF TakeSs, SetCall
    <2>2. CASE /\ IsIdle(g) /\ SetCall(g, Call("close:wait", {}, NoNode))
               /\ UNCHANGED <<graph_state, gkv_list, sg_array, masks, pool, locks, spf>>
      BY <1>2, <2>2 DEF IsIdle, SetCall, SsOp
    <2> QED
      BY <1>3, <2>1, <2>2 DEF Close
  <1>4. CASE RemoveGraph(g)
    <2> PICK n \in NodesOf(g) : RemoveGraph(g)!(n)
      BY <1>4 DEF RemoveGraph
    <2>1. n \in gkv_list
      BY DEF NodesOf
    <2>2. CASE /\ start_stop_lock = Free /\ start_stop_lock' = g
               /\ SetCall(g, Call("remove:stop", {n}, n))
      BY <1>1, <2>1, <2>2 DEF SetCall
    <2>3. CASE SetCall(g, Call("remove:wait", {}, n)) /\ UNCHANGED locks
      BY <1>2, <2>1, <2>3 DEF IsIdle, SetCall, SsOp
    <2> QED
      BY <2>2, <2>3
  <1>5. CASE EnterClose(g)
    <2>1. /\ call[g].op \in {"close:wait", "remove:wait"}
          /\ call[g].op = "remove:wait" => call[g].node \in gkv_list
      BY <1>5 DEF EnterClose, StartInv, LinkedCalls, OpeningOp
    <2>2. \/ SetCall(g, Call("close", NodesOf(g), NoNode))
          \/ /\ call[g].op = "remove:wait"
             /\ SetCall(g, Call("remove", {call[g].node}, call[g].node))
      BY <1>5 DEF EnterClose
    <2>3. UNCHANGED <<gkv_list, sg_array, masks, pool, spf, start_stop_lock>>
      BY <1>5 DEF EnterClose
    <2>4. CASE SetCall(g, Call("close", NodesOf(g), NoNode))
      BY <1>2, <2>1, <2>3, <2>4 DEF SetCall, NodesOf, SsOp
    <2>5. CASE /\ call[g].op = "remove:wait"
               /\ SetCall(g, Call("remove", {call[g].node}, call[g].node))
      BY <1>2, <2>1, <2>3, <2>5 DEF SetCall, SsOp
    <2> QED
      BY <2>2, <2>4, <2>5
  <1>6. CASE CloseNode(g)
    <2> PICK op \in ClosingOp, n \in call[g].todo : CloseNode(g)!(op, n)
      BY <1>6 DEF CloseNode
    <2>1. /\ call[g].op = op /\ n \in {q \in Node : q[1] = g} /\ n \in gkv_list
          /\ call[g].todo \subseteq gkv_list
      BY CallFacts DEF Working, StartInv, LinkedCalls, ClosingOp, OpeningOp
    <2>2. CASE FreeNode(g, n)
      BY <2>1, <2>2, FreeNodeKeepsStarts
    <2>3. CASE /\ SendSpfCmd(g, n, "CLOSE", Pruned(sg_array[n]))
               /\ UNCHANGED <<gkv_list, sg_array, masks, pool>>
      <3>1. /\ call'[g].op = op /\ call'[g].todo = call[g].todo /\ call'[g].node = n
            /\ call'[g].cmd = "CLOSE" /\ \A h \in Graph \ {g} : call'[h] = call[h]
        BY <2>1, <2>3 DEF SendSpfCmd, SetCall, TypeInv, TypeOK
      <3>2. Quiet(g)
        BY <2>1, <2>3, <3>1 DEF Quiet, ClosingOp, OpeningOp, SsOp
      <3> QED
        BY <3>2, QuietKeeps
    <2> QED
      BY <2>2, <2>3
  <1>7. CASE CloseAnswered(g)
    <2>1. /\ call[g].op \in ClosingOp /\ call[g].node \in {q \in Node : q[1] = g}
          /\ call[g].sgs = Pruned(sg_array[call[g].node])
      BY <1>7, CallFacts
         DEF ClosingOp, CloseAnswered, Waiting, NoCmd, SharingInv, WaitsForPruned
    <2> QED
      BY <1>7, <2>1, FreeNodeKeepsStarts DEF CloseAnswered
  <1>8. CASE CloseDone(g)
    BY <1>2, <1>8 DEF CloseDone, Working, ReleaseOc, SetCall, Idle, ClosingOp, SsOp
  <1> QED
    BY <1>3, <1>4, <1>5, <1>6, <1>7, <1>8

LEMMA StartInit == Init => StartInv
PROOF
  <1> SUFFICES ASSUME Init PROVE StartInv
    OBVIOUS
  <1> USE DEF Init
  <1>1. SsLockHeld /\ LinkedCalls /\ MasksWithin /\ CountedIsHeld /\ WaitsForAsked
    BY FreeIsNoGraph DEF SsLockHeld, LinkedCalls, MasksWithin, CountedIsHeld,
                         WaitsForAsked, Idle, Call, NoCmd, SsOp, OpeningOp
  <1>2. CountedRuns
    BY DEF CountedRuns
  <1>3. StartRefsCover
    <2> SUFFICES ASSUME NEW s \in SG PROVE Cardinality(Starters(s)) = 0
      BY DEF StartRefsCover
    <2>1. Starters(s) = {}
      BY DEF Starters
    <2> QED
      BY <2>1, FS_EmptySet
  <1> QED
    BY <1>1, <1>2, <1>3 DEF StartInv

LEMMA StartNext == TypeInv /\ SharingInv /\ StartInv /\ [Next]_vars => StartInv'
PROOF
  <1> SUFFICES ASSUME TypeInv, SharingInv, StartInv, [Next]_vars PROVE StartInv'
    OBVIOUS
  <1>1. CASE UNCHANGED vars
    <2> USE <1>1 DEF vars, masks, pool, locks, StartInv
    <2>1. SsLockHeld' /\ LinkedCalls' /\ MasksWithin' /\ StartRefsCover' /\ CountedIsHeld'
      BY DEF SsLockHeld, LinkedCalls, MasksWithin, StartRefsCover, Starters, CountedIsHeld
    <2>2. WaitsForAsked'
      BY DEF WaitsForAsked, AskedList, StartList, StopInsteadList, SuspendList,
             OnlyStarter, StopList, Scope
    <2>3. CountedRuns => CountedRuns'
      BY DEF CountedRuns, HalfSuspended, Waiting, StopInsteadList, OnlyStarter
    <2> QED
      BY <2>1, <2>2, <2>3
  <1>2. ASSUME NEW g \in Graph, ClientCall(g) \/ CallStep(g) PROVE StartInv'
    BY <1>2, StartKeeps, SuspendKeeps, StopKeeps, OpenKeepsStarts, CloseKeepsStarts
       DEF ClientCall, CallStep
  <1> QED
    BY <1>1, <1>2 DEF Next

LEMMA StartInvariant == Spec => [](TypeInv /\ SharingInv /\ StartInv)
  BY TypeInit, TypeNext, SharingInit, SharingNext, StartInit, StartNext, PTL DEF Spec

\* The start count never falls below the number of nodes that started the
\* subgraph, whatever commands fail: gsl_graph_stop and gsl_graph_suspend of one
\* node never take the count for the last.
THEOREM StartRefsCovered == Spec => []StartRefsCover
PROOF
  <1>1. StartInv => StartRefsCover
    BY DEF StartInv
  <1> QED
    BY StartInvariant, <1>1, PTL

\* A subgraph that a node has its start bit set for runs on SPF, but for the node's
\* own suspend: no stop, suspend or close through another node takes it away.
\* (If SUSPEND may fail this is refuted: README, section 4.)
THEOREM StartedRuns ==
  ASSUME "SUSPEND" \notin Faults
  PROVE  Spec => []StartedKeepsRunning
PROOF
  <1>1. TypeInv /\ StartInv => StartedKeepsRunning
    <2> SUFFICES ASSUME TypeInv, StartInv, NEW n \in Node, NEW s \in sg_start_mask[n],
                        spf[s] # "RUNNING"
                 PROVE  Suspending(n)
      BY DEF StartedKeepsRunning
    <2>1. /\ s \in SG /\ start_ref_cnt[s] > 0
          /\ start_ref_cnt[s] = 1 => \A m \in Node : s \in sg_start_mask[m] => m = n
      BY StartedIsCounted DEF StartInv
    <2>2. HalfSuspended(s)
      BY <2>1 DEF StartInv, CountedRuns
    <2>3. PICK g \in Graph : /\ Waiting(g, "suspend", "SUSPEND")
                             /\ s \in StopInsteadList(call[g].node)
      BY <2>2 DEF HalfSuspended
    <2>4. call[g].node \in Node /\ call[g].node[1] = g
      BY <2>3, CallFacts DEF Waiting, NoCmd
    <2>5. call[g].node = n
      BY <2>1, <2>3, <2>4 DEF StopInsteadList, OnlyStarter
    <2> QED
      BY <2>3, <2>4, <2>5 DEF Suspending, Waiting
  <1> QED
    BY StartInvariant, <1>1, PTL

-----------------------------------------------------------------------------
(* Refinement.  Each step of a call is a step of the user its node stands for in
   SharedSubgraphs, or a stutter: a user holds what its node has references to once
   the node is linked. *)

LEMMA SharingStutters ==
  ASSUME TypeInv, UNCHANGED <<gkv_list, sg_start_mask, spf>>,
         \A n \in gkv_list : sg_array'[n] = sg_array[n]
  PROVE  [Sharing!Next]_(Sharing!uvars)
  BY DEF Sharing!uvars

\* A node that has counted its start: what was not asked for was running.
LEMMA StartRefines ==
  ASSUME TypeInv, StartInv, "SUSPEND" \notin Faults, NEW g \in Graph,
         start_stop_lock = g, call[g].op = "start", NEW n \in gkv_list, CountStarted(n),
         \/ UNCHANGED spf /\ StartList(n) = {}
         \/ SpfDoes(StartList(n), "RUNNING"),
         UNCHANGED <<gkv_list, sg_array>>
  PROVE  [Sharing!Next]_(Sharing!uvars)
PROOF
  <1>1. n \in Node /\ sg_array[n] \subseteq SG /\ StartList(n) \subseteq sg_array[n]
    BY DEF StartList, TypeInv, TypeOK
  <1>2. \A s \in sg_array[n] \ StartList(n) : spf[s] = "RUNNING"
    <2> SUFFICES ASSUME NEW s \in sg_array[n] \ StartList(n) PROVE spf[s] = "RUNNING"
      OBVIOUS
    <2>1. s \in SG /\ start_ref_cnt[s] > 0
      BY <1>1 DEF StartList, TypeInv, TypeOK
    <2> QED
      BY <2>1, RunsUnderLock DEF Waiting
  <1>3. spf' = [s \in SG |-> IF s \in sg_array[n] THEN "RUNNING" ELSE spf[s]]
    <2>1. spf = [s \in SG |-> spf[s]]
      BY DEF TypeInv, TypeOK
    <2>2. CASE UNCHANGED spf /\ StartList(n) = {}
      BY <1>2, <2>1, <2>2
    <2>3. CASE SpfDoes(StartList(n), "RUNNING")
      BY <1>1, <1>2, <2>3 DEF SpfDoes
    <2> QED
      BY <2>2, <2>3
  <1>4. Sharing!Start(n)
    BY <1>1, <1>3 DEF Sharing!Start, Sharing!Becomes, CountStarted
  <1> QED
    BY <1>1, <1>4 DEF Sharing!Next

\* A node that keeps some of its start bits: SPF stops or suspends only what no
\* other node has started.
LEMMA HaltRefines ==
  ASSUME TypeInv, NEW n \in gkv_list, NEW sgs \in SUBSET sg_array[n],
         \A s \in sgs, m \in Node : s \in sg_start_mask[m] => m = n,
         NEW st \in {"STOPPED", "SUSPENDED"}, SpfDoes(sgs, st),
         NEW kept \in SUBSET sg_start_mask[n],
         sg_start_mask' = [sg_start_mask EXCEPT ![n] = kept],
         UNCHANGED <<gkv_list, sg_array>>
  PROVE  [Sharing!Next]_(Sharing!uvars)
PROOF
  <1>1. n \in Node /\ sgs \in SUBSET SG /\ kept \in SUBSET SG
    BY DEF TypeInv, TypeOK
  <1>2. Sharing!Halt(n, sgs, kept, st)
    BY <1>1 DEF Sharing!Halt, Sharing!Becomes, Sharing!StartedByOther, SpfDoes
  <1> QED
    BY <1>1, <1>2 DEF Sharing!Next

\* SPF has stopped or suspended nothing, or what it was asked to.
LEMMA AskedHaltRefines ==
  ASSUME TypeInv, StartInv, NEW n \in gkv_list, NEW op, NEW sgs,
         \A s \in sgs :
           s \in StopInsteadList(n) \/ s \in SuspendList(n) \/ s \in StopList(op, n),
         NEW st \in {"STOPPED", "SUSPENDED"},
         SpfDoes(sgs, st),
         \/ CountSuspended(n) \/ CountStopped(op, n) \/ UNCHANGED masks,
         UNCHANGED <<gkv_list, sg_array>>
  PROVE  [Sharing!Next]_(Sharing!uvars)
PROOF
  <1>1. PICK kept \in SUBSET sg_start_mask[n] :
               sg_start_mask' = [sg_start_mask EXCEPT ![n] = kept]
    <2>1. CASE CountSuspended(n)
      BY <2>1 DEF CountSuspended
    <2>2. CASE CountStopped(op, n)
      <3>1. sg_start_mask[n] \ Scope(op, n) \in SUBSET sg_start_mask[n]
        OBVIOUS
      <3> QED
        BY <2>2, <3>1 DEF CountStopped
    <2>3. CASE UNCHANGED masks
      <3>1. sg_start_mask' = [sg_start_mask EXCEPT ![n] = sg_start_mask[n]]
        BY <2>3 DEF masks, TypeInv, TypeOK
      <3> QED
        BY <3>1
    <2> QED
      BY <2>1, <2>2, <2>3
  <1>2. \A s \in sgs : /\ s \in sg_array[n]
                       /\ \A m \in Node : s \in sg_start_mask[m] => m = n
    BY AskedIsOwn DEF StartInv
  <1>3. sgs \in SUBSET sg_array[n]
    BY <1>2
  <1> QED
    BY <1>1, <1>2, <1>3, HaltRefines

\* A node that is linked: all its subgraphs are open.
LEMMA LinkRefines ==
  ASSUME TypeInv, SharingInv, NEW g \in Graph, call[g].op \in OpeningOp,
         LinkNode(g, call[g].node), UNCHANGED spf,
         \A s \in Pruned(sg_array[call[g].node]) : spf[s] # "CLOSED"
  PROVE  [Sharing!Next]_(Sharing!uvars)
PROOF
  <1>1. PICK n \in Node, sgs \in SUBSET SG :
               n = call[g].node /\ n \notin gkv_list /\ sgs = sg_array[n]
    BY CallFacts DEF SharingInv, OpensUnlinked, OpeningOp, TypeInv, TypeOK
  <1>2. \A s \in sgs : spf[s] # "CLOSED"
    BY <1>1, PrunedAwayIsOpen
  <1>3. gkv_list' = gkv_list \cup {n} /\ UNCHANGED <<sg_array, sg_start_mask>>
    BY <1>1 DEF LinkNode, masks
  <1>4. Sharing!Hold(n, sgs)
    BY <1>1, <1>2, <1>3 DEF Sharing!Hold
  <1> QED
    BY <1>4 DEF Sharing!Next

\* A node that is closed: SPF closed what no other node holds, or nothing.
LEMMA FreeNodeRefines ==
  ASSUME TypeInv, SharingInv, NEW g \in Graph, NEW n \in gkv_list, FreeNode(g, n),
         UNCHANGED spf \/ SpfDoes(Pruned(sg_array[n]), "CLOSED")
  PROVE  [Sharing!Next]_(Sharing!uvars)
PROOF
  <1>1. PICK sgs \in {{}, Pruned(sg_array[n])} : SpfDoes(sgs, "CLOSED")
    <2>1. spf = [s \in SG |-> spf[s]]
      BY DEF TypeInv, TypeOK
    <2> QED
      BY <2>1 DEF SpfDoes
  <1>2. n \in Node /\ sgs \subseteq sg_array[n] /\ sgs \in SUBSET SG
    BY DEF Pruned, TypeInv, TypeOK
  <1>3. \A s \in sgs, m \in Node : s \in sg_array[m] => m = n
    BY <1>2, PrunedIsOwn DEF SharingInv
  <1>4. Sharing!Close(n, sgs)
    BY <1>1, <1>2, <1>3
       DEF Sharing!Close, Sharing!Becomes, Sharing!HeldByOther, FreeNode, SpfDoes,
           TypeInv, TypeOK
  <1> QED
    BY <1>2, <1>4 DEF Sharing!Next

LEMMA StartStopRefines ==
  ASSUME TypeInv, StartInv, "SUSPEND" \notin Faults, NEW g \in Graph,
         \/ Start(g) \/ StartNode(g) \/ StartOk(g) \/ StartFailed(g) \/ StartDone(g)
         \/ Suspend(g) \/ SuspendNode(g) \/ StopInsteadOk(g) \/ SuspendOk(g)
         \/ SuspendFailed(g) \/ SuspendDone(g)
         \/ Stop(g) \/ StopWithProperties(g) \/ StopNode(g) \/ StopOk(g)
         \/ StopFailed(g) \/ StopDone(g)
  PROVE  [Sharing!Next]_(Sharing!uvars)
PROOF
  <1> DEFINE node == call[g].node
  <1> USE DEF masks
  <1>0. UNCHANGED spf => SpfDoes({}, "STOPPED")
    BY DEF SpfDoes, TypeInv, TypeOK
  <1>1. CASE \/ Start(g) \/ StartFailed(g) \/ StartDone(g)
             \/ Suspend(g) \/ SuspendFailed(g) \/ SuspendDone(g)
             \/ Stop(g) \/ StopWithProperties(g) \/ StopFailed(g) \/ StopDone(g)
    <2>1. UNCHANGED <<gkv_list, sg_array, sg_start_mask, spf>>
      BY <1>1 DEF Start, StartFailed, StartDone, Suspend, SuspendFailed, SuspendDone,
                  Stop, StopWithProperties, StopFailed, StopDone, TakeSs
    <2> QED
      BY <2>1, SharingStutters
  <1>2. CASE StartNode(g)
    <2> PICK n \in call[g].todo : StartNode(g)!(n)
      BY <1>2 DEF StartNode
    <2>1. start_stop_lock = g /\ n \in gkv_list /\ call[g].op = "start"
      BY SsFacts DEF Working, SsOp
    <2>2. CASE UNCHANGED masks
      BY <2>2, SharingStutters
    <2>3. CASE StartList(n) = {} /\ CountStarted(n)
      BY <2>1, <2>3, StartRefines
    <2> QED
      BY <2>2, <2>3
  <1>3. CASE StartOk(g)
    <2>1. /\ start_stop_lock = g /\ node \in gkv_list /\ call[g].op = "start"
          /\ call[g].sgs = StartList(node)
      BY <1>3, SsFacts DEF StartOk, Waiting, AskedList, NoCmd, SsOp
    <2> QED
      BY <1>3, <2>1, StartRefines DEF StartOk
  <1>4. ASSUME NEW n \in gkv_list, SuspendRest(g, n), UNCHANGED <<gkv_list, sg_array>>,
               \/ UNCHANGED spf
               \/ SpfDoes(StopInsteadList(n), "STOPPED")
        PROVE  [Sharing!Next]_(Sharing!uvars)
    <2>1. CountSuspended(n) \/ UNCHANGED masks
      BY <1>4 DEF SuspendRest
    <2>2. CASE UNCHANGED spf
      BY <1>0, <1>4, <2>1, <2>2, AskedHaltRefines
    <2>3. CASE SpfDoes(StopInsteadList(n), "STOPPED")
      <3>1. PICK sgs : sgs = StopInsteadList(n) /\ SpfDoes(sgs, "STOPPED")
        BY <2>3 DEF SpfDoes
      <3>2. \A s \in sgs : s \in StopInsteadList(n)
        BY <3>1
      <3> QED
        BY <1>4, <2>1, <3>1, <3>2, AskedHaltRefines
    <2> QED
      BY <1>4, <2>2, <2>3
  <1>5. CASE SuspendNode(g)
    <2> PICK n \in call[g].todo : SuspendNode(g)!(n)
      BY <1>5 DEF SuspendNode
    <2>1. n \in gkv_list
      BY SsFacts DEF Working, SsOp
    <2>2. CASE UNCHANGED masks
      BY <2>2, SharingStutters
    <2>3. CASE SuspendRest(g, n)
      BY <1>4, <2>1, <2>3
    <2> QED
      BY <2>2, <2>3
  <1>6. CASE StopInsteadOk(g)
    <2>1. node \in gkv_list /\ call[g].sgs = StopInsteadList(node)
      BY <1>6, SsFacts DEF StopInsteadOk, Waiting, AskedList, NoCmd, SsOp
    <2> QED
      BY <1>4, <1>6, <2>1 DEF StopInsteadOk
  <1>7. CASE SuspendOk(g)
    <2>0. node \in gkv_list /\ call[g].sgs = SuspendList(node)
      BY <1>7, SsFacts DEF SuspendOk, Waiting, AskedList, NoCmd, SsOp
    <2>1. PICK n, sgs : /\ n \in gkv_list /\ n = node
                        /\ sgs = SuspendList(n) /\ call[g].sgs = sgs
      BY <2>0
    <2>2. /\ SpfDoes(sgs, "SUSPENDED") /\ CountSuspended(n)
          /\ UNCHANGED <<gkv_list, sg_array>>
      BY <1>7, <2>1 DEF SuspendOk
    <2>3. \A s \in sgs : s \in SuspendList(n)
      BY <2>1
    <2> QED
      BY <2>1, <2>2, <2>3, AskedHaltRefines
  <1>8. CASE StopNode(g)
    <2> PICK op \in StoppingOp, n \in call[g].todo : StopNode(g)!(op, n)
      BY <1>8 DEF StopNode
    <2>1. n \in gkv_list
      BY SsFacts DEF Working, StoppingOp, SsOp
    <2>2. CASE UNCHANGED masks
      BY <2>2, SharingStutters
    <2>3. CASE CountStopped(op, n)
      BY <1>0, <2>1, <2>3, AskedHaltRefines
    <2> QED
      BY <2>2, <2>3
  <1>9. CASE StopOk(g)
    <2> PICK op \in StoppingOp : StopOk(g)!(op)
      BY <1>9 DEF StopOk
    <2>0. node \in gkv_list /\ call[g].sgs = StopList(op, node)
      BY SsFacts DEF Waiting, AskedList, StoppingOp, NoCmd, SsOp
    <2>1. PICK n, sgs : /\ n \in gkv_list /\ n = node
                        /\ sgs = StopList(op, n) /\ call[g].sgs = sgs
      BY <2>0
    <2>2. /\ SpfDoes(sgs, "STOPPED") /\ CountStopped(op, n)
          /\ UNCHANGED <<gkv_list, sg_array>>
      BY <2>1
    <2>3. \A s \in sgs : s \in StopList(op, n)
      BY <2>1
    <2> QED
      BY <2>1, <2>2, <2>3, AskedHaltRefines
  <1> QED
    BY <1>1, <1>2, <1>3, <1>5, <1>6, <1>7, <1>8, <1>9

LEMMA OpenRefines ==
  ASSUME TypeInv, SharingInv, StartInv, NEW g \in Graph,
         \/ OpenEmpty(g) \/ OpenGkv(g) \/ OpenNode(g) \/ OpenOk(g) \/ CalOk(g)
         \/ CalFailed(g) \/ OpenFailed(g)
  PROVE  [Sharing!Next]_(Sharing!uvars)
PROOF
  <1> DEFINE n == call[g].node
  <1> USE DEF masks
  <1>1. CASE OpenEmpty(g) \/ CalFailed(g)
    BY <1>1, SharingStutters DEF OpenEmpty, CalFailed
  <1>2. CASE OpenGkv(g)
    <2>1. PICK k \in GkvOf[g] : /\ <<g, k>> \notin gkv_list
                                /\ sg_array' = [sg_array EXCEPT ![<<g, k>>] = SgsOf[k]]
                                /\ UNCHANGED <<gkv_list, sg_start_mask, spf>>
      BY <1>2 DEF OpenGkv
    <2> DEFINE m == <<g, k>>
    <2> HIDE DEF m
    <2>2. m \notin gkv_list /\ sg_array' = [sg_array EXCEPT ![m] = SgsOf[k]]
      BY <2>1 DEF m
    <2>3. \A q \in gkv_list : sg_array'[q] = sg_array[q]
      BY <2>2 DEF TypeInv, TypeOK
    <2> QED
      BY <2>1, <2>3, SharingStutters
  <1>3. CASE OpenNode(g)
    <2> PICK op \in OpeningOp, m \in call[g].todo : OpenNode(g)!(op, m)
      BY <1>3 DEF OpenNode
    <2>1. call[g].op \in OpeningOp /\ m = n
      BY DEF Working, SharingInv, OpensUnlinked
    <2>2. CASE Pruned(sg_array[m]) = {} /\ LinkNode(g, m)
      BY <2>1, <2>2, LinkRefines
    <2>3. CASE UNCHANGED <<graph_state, gkv_list, sg_array, masks, pool, locks>>
      BY <2>3, SharingStutters
    <2> QED
      BY <2>2, <2>3
  <1>4. CASE OpenOk(g)
    <2> PICK op \in OpeningOp : OpenOk(g)!(op)
      BY <1>4 DEF OpenOk
    <2>1. call[g].op \in OpeningOp /\ call[g].sgs = Pruned(sg_array[n])
      BY DEF OpeningOp, Waiting, SharingInv, WaitsForPruned
    <2>2. CASE call[g].sgs = {} /\ LinkNode(g, n)
      <3>1. UNCHANGED spf
        BY <2>2 DEF SpfDoes, TypeInv, TypeOK
      <3> QED
        BY <2>1, <2>2, <3>1, LinkRefines
    <2>3. CASE UNCHANGED <<graph_state, gkv_list, sg_array, masks, pool, locks>>
      <3>1. Sharing!Prepare(call[g].sgs)
        BY <2>3 DEF Sharing!Prepare, Sharing!Becomes, SpfCanOpen, SpfDoes
      <3>2. call[g].sgs \in SUBSET SG
        BY CallFacts
      <3> QED
        BY <3>1, <3>2 DEF Sharing!Next
    <2> QED
      BY <2>2, <2>3
  <1>5. CASE CalOk(g)
    <2>1. /\ call[g].op \in OpeningOp
          /\ \A s \in Pruned(sg_array[n]) : spf[s] # "CLOSED"
      BY <1>5 DEF OpeningOp, CalOk, Waiting, SharingInv, WaitsForPruned, CalibratesOpen
    <2> QED
      BY <1>5, <2>1, LinkRefines DEF CalOk
  <1>6. CASE OpenFailed(g)
    <2>1. /\ n \in Node /\ n \notin gkv_list /\ call[g].sgs = Pruned(sg_array[n])
      BY <1>6, CallFacts DEF OpenFailed, Waiting, NoCmd, SharingInv, WaitsForPruned,
                             OpeningOp, OpensUnlinked
    <2>2. /\ sg_array' = [sg_array EXCEPT ![n] = {}]
          /\ UNCHANGED <<gkv_list, sg_start_mask>>
          /\ UNCHANGED spf \/ SpfDoes(call[g].sgs, "CLOSED")
      BY <1>6 DEF OpenFailed, UndoOpen
    <2> HIDE DEF n
    <2>3. \A m \in gkv_list : sg_array'[m] = sg_array[m]
      BY <2>1, <2>2 DEF TypeInv, TypeOK
    <2>4. CASE UNCHANGED spf
      BY <2>2, <2>3, <2>4, SharingStutters
    <2>5. CASE SpfDoes(call[g].sgs, "CLOSED")
      <3> DEFINE sgs == Pruned(sg_array[n])
      <3>1. sgs \in SUBSET SG
        BY <2>1 DEF Pruned, TypeInv, TypeOK
      <3>2. ASSUME NEW s \in sgs, NEW m \in Node
            PROVE  (m \in gkv_list => s \notin sg_array[m]) /\ s \notin sg_start_mask[m]
        BY <2>1, <3>2, PrunedIsOwn DEF SharingInv, StartInv, MasksWithin
      <3> HIDE DEF sgs
      <3>3. Sharing!Abandon(sgs)
        BY <2>1, <2>2, <2>3, <2>5, <3>2
           DEF Sharing!Abandon, Sharing!Becomes, SpfDoes, sgs
      <3> QED
        BY <3>1, <3>3 DEF Sharing!Next
    <2> QED
      BY <2>2, <2>4, <2>5
  <1> QED
    BY <1>1, <1>2, <1>3, <1>4, <1>5, <1>6

LEMMA CloseRefines ==
  ASSUME TypeInv, SharingInv, StartInv, NEW g \in Graph,
         \/ Close(g) \/ RemoveGraph(g)
         \/ EnterClose(g) \/ CloseNode(g) \/ CloseAnswered(g) \/ CloseDone(g)
  PROVE  [Sharing!Next]_(Sharing!uvars)
PROOF
  <1> USE DEF masks
  <1>1. CASE Close(g) \/ RemoveGraph(g) \/ EnterClose(g) \/ CloseDone(g)
    <2>1. UNCHANGED <<gkv_list, sg_array, sg_start_mask, spf>>
      BY <1>1 DEF Close, RemoveGraph, EnterClose, CloseDone, TakeSs
    <2> QED
      BY <2>1, SharingStutters
  <1>2. CASE CloseNode(g)
    <2> PICK op \in ClosingOp, n \in call[g].todo : CloseNode(g)!(op, n)
      BY <1>2 DEF CloseNode
    <2>1. n \in gkv_list
      BY DEF Working, StartInv, LinkedCalls, ClosingOp, OpeningOp
    <2>2. CASE FreeNode(g, n)
      BY <2>1, <2>2, FreeNodeRefines
    <2>3. CASE UNCHANGED <<gkv_list, sg_array, masks, pool>>
      BY <2>3, SharingStutters
    <2> QED
      BY <2>2, <2>3
  <1>3. CASE CloseAnswered(g)
    <2>1. call[g].node \in gkv_list /\ call[g].sgs = Pruned(sg_array[call[g].node])
      BY <1>3 DEF CloseAnswered, Waiting, NoCmd, SharingInv, WaitsForPruned, StartInv,
                  LinkedCalls, ClosingOp, OpeningOp
    <2> QED
      BY <1>3, <2>1, FreeNodeRefines DEF CloseAnswered
  <1> QED
    BY <1>1, <1>2, <1>3

LEMMA SharingStarts == Init => Sharing!Init
  BY DEF Init, Sharing!Init

LEMMA SharingSteps ==
  ASSUME "SUSPEND" \notin Faults
  PROVE  TypeInv /\ SharingInv /\ StartInv /\ [Next]_vars
           => [Sharing!Next]_(Sharing!uvars)
PROOF
  <1> SUFFICES ASSUME TypeInv, SharingInv, StartInv, [Next]_vars
               PROVE  [Sharing!Next]_(Sharing!uvars)
    OBVIOUS
  <1>1. CASE UNCHANGED vars
    BY <1>1, SharingStutters DEF vars, masks
  <1>2. ASSUME NEW g \in Graph, ClientCall(g) \/ CallStep(g)
        PROVE  [Sharing!Next]_(Sharing!uvars)
    BY <1>2, StartStopRefines, OpenRefines, CloseRefines DEF ClientCall, CallStep
  <1> QED
    BY <1>1, <1>2 DEF Next

\* The handles share subgraphs as if each had its own: no user closes what another
\* one holds or halts what another one has started, over every interleaving of
\* gsl_open, gsl_close and the start, suspend, stop, add and remove commands, if any
\* command of SPF but SUSPEND may fail.
THEOREM SharingRefined ==
  ASSUME "SUSPEND" \notin Faults
  PROVE  Spec => EveryHandleOnItsOwn
  BY StartInvariant, SharingStarts, SharingSteps, PTL
     DEF Spec, EveryHandleOnItsOwn, Sharing!Spec

-----------------------------------------------------------------------------
(* Changes and partial closes: types. *)

ChangeVarsType ==
  /\ pruned_sgids \in [Graph -> SUBSET SG]
  /\ stray \in [Node -> 0 .. Cardinality(SG)] /\ astray \subseteq SG

\* Noting keeps the types of stray and astray.
LEMMA NotingType ==
  ASSUME ChangeVarsType, NEW stays \in [Node -> 0 .. Cardinality(SG)],
         NEW lost \in SUBSET SG, Noting(stays, lost)
  PROVE  stray' \in [Node -> 0 .. Cardinality(SG)] /\ astray' \subseteq SG
PROOF
  <1>1. 0 \in 0 .. Cardinality(SG)
    BY OrderType, FS_CardinalityType
  <1> QED
    BY <1>1 DEF Noting, ChangeVarsType

\* The steps of GslGraph keep the types, those of a changed handle too.
LEMMA TypePlain ==
  ASSUME TypeInv, ChangeVarsType, NEW g \in Graph, PlainStep(g)
  PROVE  TypeInv' /\ ChangeVarsType'
PROOF
  <1>1. TypeInv'
    BY TypeStart, TypeSuspend, TypeStop, TypeOpen, TypeClose
       DEF PlainStep, ClientCall, CallStep
  <1>2. Noting(stray, {}) /\ UNCHANGED pruned_sgids
    BY DEF PlainStep, NothingAstray
  <1>3. ChangeVarsType'
    BY <1>2, NotingType DEF ChangeVarsType
  <1> QED
    BY <1>1, <1>3

\* The new node of a change; the others are linked.
LEMMA NewNodeIs ==
  ASSUME NEW g \in Graph, NEW n, call[g].todo \ gkv_list = {n}
  PROVE  NewNode(g) = n
PROOF
  <1>1. \A m : m \in call[g].todo /\ m \notin gkv_list <=> m = n
    OBVIOUS
  <1> QED
    BY <1>1 DEF NewNode

\* A call waits for an answer about a node it has yet to treat, and a change has one new
\* node among those.
AboutTodo(c) == c.cmd # NoCmd => c.node \in c.todo
ChangesOwn == \A g \in Graph :
  /\ AboutTodo(call[g])
  /\ call[g].op = "change" => \E n \in Node : call[g].todo \ gkv_list = {n}

\* So does taking the new node in place of the old ones ...
LEMMA TypeReplace ==
  ASSUME TypeInv, ChangeVarsType, NEW g \in Graph, call[g].op = "change",
         NEW n \in Node, call[g].todo \ gkv_list = {n},
         NEW old \in call[g].todo, ReplaceNode(g, old), UNCHANGED <<graph_state, locks>>,
         spf' \in [SG -> {"CLOSED", "STOPPED", "RUNNING", "SUSPENDED"}]
  PROVE  TypeInv' /\ ChangeVarsType'
PROOF
  <1> USE DEF TypeInv, TypeOK, locks
  <1>1. old \in {m \in Node : m[1] = g}
    BY CallFacts
  <1>2. /\ open_ref_cnt' \in [SG -> Nat]
        /\ start_ref_cnt' \in [SG -> Nat]
        /\ stop_ref_cnt' \in [SG -> Nat]
    BY <1>1, PoolRemoveType DEF ReplaceNode
  <1>3. call' \in [Graph -> CallRecord] /\ CallsOwnNodes'
    BY <1>1, NextNodeType DEF ReplaceNode
  <1>4. NewNode(g) = n
    BY NewNodeIs
  <1>5. ChangeVarsType'
    <2>1. PICK lost \in SUBSET SG : Noting(stray, lost)
      BY <1>1, <1>4 DEF ReplaceNode
    <2> QED
      BY <2>1, NotingType DEF ChangeVarsType, ReplaceNode
  <1> QED
    BY <1>1, <1>2, <1>3, <1>4, <1>5 DEF ReplaceNode

\* ... keeping the references of what the new graph has already ...
LEMMA TypeKeep ==
  ASSUME TypeInv, ChangeVarsType, NEW g \in Graph, NEW n \in Node, KeepExisting(g, n)
  PROVE  /\ gkv_list' \subseteq Node /\ sg_array' \in [Node -> SUBSET SG]
         /\ sg_start_mask' \in [Node -> SUBSET SG] /\ sg_stop_mask' \in [Node -> SUBSET SG]
         /\ open_ref_cnt' \in [SG -> Nat]
         /\ start_ref_cnt' \in [SG -> Nat]
         /\ stop_ref_cnt' \in [SG -> Nat]
         /\ stray' \in [Node -> 0 .. Cardinality(SG)] /\ astray' \subseteq SG
PROOF
  <1> USE DEF TypeInv, TypeOK
  <1> DEFINE all == sg_array[n]
             kept == all \ pruned_sgids[g]
             Now(mask) == {s \in kept : \E t \in mask : Pos(t, all) = Pos(s, kept)}
             beyond == {t \in sg_start_mask[n] : Pos(t, all) > Cardinality(kept)}
             before == sg_start_mask[n]
  <1>1. /\ PoolRemove(pruned_sgids[g])
        /\ gkv_list' = gkv_list \cup {n}
        /\ sg_array' = [sg_array EXCEPT ![n] = kept]
        /\ sg_start_mask' = [sg_start_mask EXCEPT ![n] = Now(sg_start_mask[n])]
        /\ sg_stop_mask' = [sg_stop_mask EXCEPT ![n] = Now(sg_stop_mask[n])]
        /\ Noting([stray EXCEPT ![n] = Cardinality(beyond)],
                  (before \ Now(before)) \cup (Now(before) \ before))
    BY DEF KeepExisting
  <1>2. kept \in SUBSET SG /\ pruned_sgids[g] \in SUBSET SG
    BY DEF ChangeVarsType
  <1>3. \A mask : Now(mask) \in SUBSET SG
    BY <1>2
  <1>4. Cardinality(beyond) \in 0 .. Cardinality(SG)
    <2>1. beyond \subseteq SG
      OBVIOUS
    <2> HIDE DEF beyond
    <2> QED
      BY <2>1, OrderType, FS_Subset, FS_CardinalityType
  <1> HIDE DEF Now, beyond, kept
  <1>5. stray' \in [Node -> 0 .. Cardinality(SG)] /\ astray' \subseteq SG
    <2> DEFINE lost == (before \ Now(before)) \cup (Now(before) \ before)
               stays == [stray EXCEPT ![n] = Cardinality(beyond)]
    <2>1. lost \in SUBSET SG /\ stays \in [Node -> 0 .. Cardinality(SG)]
      BY <1>3, <1>4 DEF ChangeVarsType
    <2>2. Noting(stays, lost)
      BY <1>1
    <2> HIDE DEF lost, stays
    <2> QED
      BY <2>1, <2>2, NotingType
  <1> QED
    BY <1>1, <1>2, <1>3, <1>5, PoolRemoveType

\* ... and moving the start bits of what a node keeps down over what it loses.
LEMMA TypeRemoveMatching ==
  ASSUME TypeInv, ChangeVarsType, NEW g \in Graph, NEW n \in Node, RemoveMatching(g, n),
         UNCHANGED graph_state,
         spf' \in [SG -> {"CLOSED", "STOPPED", "RUNNING", "SUSPENDED"}]
  PROVE  TypeInv' /\ ChangeVarsType'
PROOF
  <1> USE DEF TypeInv, TypeOK
  <1>1. \A mask : MovedDown(mask, sg_array[n], Matching) \in SUBSET SG
    BY DEF MovedDown
  <1>2. PICK lost \in SUBSET SG : Noting(stray, lost)
    BY <1>1 DEF RemoveMatching
  <1>3. stray' \in [Node -> 0 .. Cardinality(SG)] /\ astray' \subseteq SG
    BY <1>2, NotingType DEF ChangeVarsType
  <1>4. ChangeVarsType'
    BY <1>3 DEF ChangeVarsType, RemoveMatching
  <1>5. /\ open_ref_cnt' \in [SG -> Nat]
        /\ start_ref_cnt' \in [SG -> Nat]
        /\ stop_ref_cnt' \in [SG -> Nat]
    BY PoolRemoveType DEF RemoveMatching
  <1>6. call' \in [Graph -> CallRecord] /\ CallsOwnNodes'
    BY IdleType, SetCallType DEF RemoveMatching, ReleaseOc
  <1> QED
    BY <1>1, <1>4, <1>5, <1>6 DEF RemoveMatching, ReleaseOc

\* Every step of a change keeps the types,
LEMMA TypeChange ==
  ASSUME TypeInv, ChangeVarsType, ChangesOwn, NEW g \in Graph,
         \/ ChangeGraph(g) \/ ChangeCloses(g) \/ ChangeClosed(g) \/ ChangeOpens(g)
         \/ ChangeOpened(g) \/ ChangeCalOk(g) \/ ChangeCalFailed(g) \/ ChangeFailed(g)
  PROVE  TypeInv' /\ ChangeVarsType'
PROOF
  <1> USE CallFacts DEF TypeInv, TypeOK, masks, pool, locks, cvars
  <1>1. ASSUME NEW m \in {m \in Node : m[1] = g}, NEW cmd \in SpfCmd, NEW sgs \in SUBSET SG,
               SendSpfCmd(g, m, cmd, sgs),
               UNCHANGED <<graph_state, gkv_list, sg_array, masks, pool, locks, cvars>>,
               spf' \in [SG -> {"CLOSED", "STOPPED", "RUNNING", "SUSPENDED"}]
        PROVE  TypeInv' /\ ChangeVarsType'
    <2>1. call' \in [Graph -> CallRecord] /\ CallsOwnNodes'
      BY <1>1, SendSpfCmdType
    <2> QED
      BY <1>1, <2>1 DEF ChangeVarsType
  <1>2. ASSUME NEW m \in Node, ChangeDone(g, m),
               spf' \in [SG -> {"CLOSED", "STOPPED", "RUNNING", "SUSPENDED"}]
        PROVE  TypeInv' /\ ChangeVarsType'
    <2>1. call' \in [Graph -> CallRecord] /\ CallsOwnNodes'
      BY <1>2, IdleType, SetCallType DEF ChangeDone, LinkNode, ReleaseOc
    <2>2. Noting(stray, {}) /\ pruned_sgids' = [pruned_sgids EXCEPT ![g] = {}]
      BY <1>2 DEF ChangeDone, NothingAstray
    <2>3. ChangeVarsType'
      BY <2>2, NotingType DEF ChangeVarsType
    <2> QED
      BY <1>2, <2>1, <2>3 DEF ChangeDone, LinkNode, ReleaseOc
  <1>3. CASE ChangeGraph(g)
    <2>0. PICK k \in GkvOf[g] : ChangeGraph(g)!(k)
      BY <1>3 DEF ChangeGraph
    <2> DEFINE n == <<g, k>>
               opens == {s \in SgsOf[k] : open_ref_cnt[s] = 0}
    <2>1. n \in {m \in Node : m[1] = g} /\ SgsOf[k] \in SUBSET SG
      BY GkvOfType, SgsOfType DEF Node
    <2>2. /\ open_close_lock' = g /\ sg_array' = [sg_array EXCEPT ![n] = SgsOf[k]]
          /\ open_ref_cnt' = Bump(open_ref_cnt, SgsOf[k])
          /\ pruned_sgids' = [pruned_sgids EXCEPT ![g] = opens]
          /\ SetCall(g, Call("change", NodesOf(g) \cup {n}, NoNode))
          /\ UNCHANGED <<graph_state, gkv_list, masks, start_ref_cnt, stop_ref_cnt,
                         start_stop_lock, spf, stray, astray>>
      BY <2>0 DEF TakeOc
    <2>3. opens \in SUBSET SG
      BY <2>1
    <2> HIDE DEF n, opens
    <2>4. OwnNodes(g, Call("change", NodesOf(g) \cup {n}, NoNode))
      <3>1. NodesOf(g) \cup {n} \in SUBSET {m \in Node : m[1] = g}
        BY <2>1 DEF NodesOf
      <3> QED
        BY <3>1, CallType DEF Op, OcOp, ChangingOp
    <2>5. call' \in [Graph -> CallRecord] /\ CallsOwnNodes'
      BY <2>2, <2>4, SetCallType
    <2>6. open_ref_cnt' \in [SG -> Nat]
      BY <2>2 DEF Bump
    <2>7. ChangeVarsType'
      BY <2>2, <2>3 DEF ChangeVarsType
    <2> QED
      BY <2>1, <2>2, <2>5, <2>6, <2>7
  <1>4. CASE ChangeCloses(g)
    <2> PICK old \in OldNodes(g) : ChangeCloses(g)!(old)
      BY <1>4 DEF ChangeCloses
    <2>1. call[g].op = "change" /\ old \in call[g].todo /\ old \in {m \in Node : m[1] = g}
      BY DEF Working, OldNodes
    <2>2. CASE ReplaceNode(g, old)
      BY <2>1, <2>2, TypeReplace DEF ChangesOwn
    <2>3. CASE /\ SendSpfCmd(g, old, "CLOSE", Pruned(sg_array[old]))
               /\ UNCHANGED <<gkv_list, sg_array, masks, pool, cvars>>
      <3>1. Pruned(sg_array[old]) \in SUBSET SG
        BY <2>1 DEF Pruned
      <3> QED
        BY <1>1, <2>1, <2>3, <3>1 DEF SpfCmd
    <2> QED
      BY <2>2, <2>3
  <1>5. CASE ChangeClosed(g)
    <2>1. call[g].op = "change" /\ call[g].cmd # NoCmd
      BY <1>5 DEF ChangeClosed, Waiting, NoCmd
    <2>2. spf' \in [SG -> {"CLOSED", "STOPPED", "RUNNING", "SUSPENDED"}]
      BY <1>5, SpfDoesType DEF ChangeClosed
    <2>3. call[g].node \in call[g].todo
      BY <1>5, <2>1 DEF ChangeClosed, ChangesOwn, AboutTodo
    <2> QED
      BY <1>5, <2>1, <2>2, <2>3, TypeReplace DEF ChangeClosed, ChangesOwn
  <1>6. CASE ChangeOpens(g)
    <2>1. PICK n \in Node : call[g].todo \ gkv_list = {n}
      BY <1>6 DEF ChangeOpens, Working, ChangesOwn
    <2>2. NewNode(g) = n /\ n \in {m \in Node : m[1] = g}
      BY <2>1, NewNodeIs
    <2>3. pruned_sgids[g] \in SUBSET SG
      BY DEF ChangeVarsType
    <2> QED
      BY <1>1, <1>2, <1>6, <2>2, <2>3 DEF ChangeOpens, SpfCmd
  <1>7. CASE ChangeOpened(g)
    <2>1. call[g].cmd # NoCmd
      BY <1>7 DEF ChangeOpened, Waiting, NoCmd
    <2>2. spf' \in [SG -> {"CLOSED", "STOPPED", "RUNNING", "SUSPENDED"}]
      BY <1>7, SpfDoesType DEF ChangeOpened
    <2> QED
      BY <1>1, <1>2, <1>7, <2>1, <2>2 DEF ChangeOpened, SpfCmd
  <1>8. CASE ChangeCalOk(g)
    BY <1>2, <1>8 DEF ChangeCalOk, Waiting, NoCmd
  <1>9. CASE ChangeCalFailed(g)
    BY <1>1, <1>9 DEF ChangeCalFailed, Waiting, NoCmd, SpfCmd
  <1>10. CASE ChangeFailed(g)
    <2>1. call[g].node \in Node
      BY <1>10 DEF ChangeFailed, Waiting, NoCmd
    <2>2. spf' \in [SG -> {"CLOSED", "STOPPED", "RUNNING", "SUSPENDED"}]
      BY <1>10, SpfDoesType DEF ChangeFailed
    <2>3. call' \in [Graph -> CallRecord] /\ CallsOwnNodes'
      BY <1>10, IdleType, SetCallType DEF ChangeFailed, ReleaseOc
    <2>4. KeepExisting(g, call[g].node)
      BY <1>10 DEF ChangeFailed
    <2>5. pruned_sgids' \in [Graph -> SUBSET SG]
      BY <1>10 DEF ChangeFailed, ChangeVarsType
    <2>6. /\ UNCHANGED <<graph_state, start_stop_lock>> /\ open_close_lock' = Free
      BY <1>10 DEF ChangeFailed, ReleaseOc
    <2> QED
      BY <2>1, <2>2, <2>3, <2>4, <2>5, <2>6, TypeKeep DEF ChangeVarsType
  <1> QED
    BY <1>3, <1>4, <1>5, <1>6, <1>7, <1>8, <1>9, <1>10

\* and every step of a partial close.
LEMMA TypePartial ==
  ASSUME TypeInv, ChangeVarsType, NEW g \in Graph,
         \/ CloseWithProperties(g) \/ ClosesMatching(g) \/ ClosedMatching(g)
         \/ StartsStrayed(g) \/ RemovesAfterStop(g)
  PROVE  TypeInv' /\ ChangeVarsType'
PROOF
  <1> USE CallFacts DEF TypeInv, TypeOK, masks, pool, locks, cvars
  <1>1. CASE CloseWithProperties(g)
    <2> PICK n \in NodesOf(g) : CloseWithProperties(g)!(n)
      BY <1>1 DEF CloseWithProperties
    <2>1. n \in {m \in Node : m[1] = g}
      BY DEF NodesOf
    <2>2. OwnNodes(g, Call("close_props", {n}, n))
      BY <2>1, CallType DEF Op, OcOp, ChangingOp
    <2>3. call' \in [Graph -> CallRecord] /\ CallsOwnNodes'
      BY <2>2, SetCallType
    <2> QED
      BY <2>3 DEF TakeOc, ChangeVarsType
  <1>2. CASE ClosesMatching(g)
    <2> DEFINE n == call[g].node
               sgs == Pruned(sg_array[n] \cap Matching)
    <2>1. n \in {m \in Node : m[1] = g} /\ sgs \in SUBSET SG
      BY <1>2 DEF ClosesMatching, Working, Pruned
    <2>2. CASE RemoveMatching(g, n)
      BY <1>2, <2>1, <2>2, TypeRemoveMatching DEF ClosesMatching
    <2>3. CASE /\ SendSpfCmd(g, n, "CLOSE", sgs)
               /\ UNCHANGED <<gkv_list, sg_array, masks, pool, locks, cvars>>
      <3>1. call' \in [Graph -> CallRecord] /\ CallsOwnNodes'
        BY <2>1, <2>3, SendSpfCmdType DEF SpfCmd
      <3> QED
        BY <1>2, <2>3, <3>1 DEF ClosesMatching, ChangeVarsType
    <2> QED
      BY <1>2, <2>2, <2>3 DEF ClosesMatching
  <1>3. CASE ClosedMatching(g)
    <2>1. call[g].node \in Node
      BY <1>3 DEF ClosedMatching, Waiting, NoCmd
    <2>2. spf' \in [SG -> {"CLOSED", "STOPPED", "RUNNING", "SUSPENDED"}]
      BY <1>3, SpfDoesType DEF ClosedMatching
    <2> QED
      BY <1>3, <2>1, <2>2, TypeRemoveMatching DEF ClosedMatching
  <1>4. CASE StartsStrayed(g)
    <2> PICK n \in Strayed(g) : StartsStrayed(g)!(n)
      BY <1>4 DEF StartsStrayed
    <2>1. call[g].op = "start" /\ n \in {m \in Node : m[1] = g}
      BY DEF Strayed, Working
    <2>2. ChangeVarsType'
      BY NotingType DEF ChangeVarsType, NothingAstray
    <2>3. CASE NextNode(g, n)
      <3>1. call' \in [Graph -> CallRecord] /\ CallsOwnNodes'
        BY <2>1, <2>3, NextNodeType
      <3> QED
        BY <2>1, <2>2, <3>1, CountsType
    <2>4. CASE SendSpfCmd(g, n, "START", StartList(n)) /\ UNCHANGED <<masks, pool>>
      <3>1. call' \in [Graph -> CallRecord] /\ CallsOwnNodes'
        BY <2>1, <2>4, SendSpfCmdType DEF StartList, SpfCmd
      <3> QED
        BY <2>2, <2>4, <3>1
    <2> QED
      BY <2>3, <2>4
  <1>5. CASE RemovesAfterStop(g)
    <2> PICK n \in NodesOf(g) : RemovesAfterStop(g)!(n)
      BY <1>5 DEF RemovesAfterStop
    <2>1. n \in {m \in Node : m[1] = g}
      BY DEF NodesOf
    <2>2. OwnNodes(g, Call("remove:stop", {n}, n))
      BY <2>1, CallType DEF Op, SsOp
    <2>3. call' \in [Graph -> CallRecord] /\ CallsOwnNodes'
      BY <2>2, SetCallType
    <2> QED
      BY <2>3 DEF ChangeVarsType
  <1> QED
    BY <1>1, <1>2, <1>3, <1>4, <1>5

-----------------------------------------------------------------------------
(* Changes and partial closes: references and open subgraphs. *)

\* The steps of GslGraph set the calls it has itself, and no other.
LEMMA PlainCalls ==
  ASSUME TypeInv, NEW g \in Graph, AboutTodo(call[g]), ClientCall(g) \/ CallStep(g)
  PROVE  /\ \A h \in Graph \ {g} : call'[h] = call[h]
         /\ AboutTodo(call'[g])
         /\ call[g].op \notin ChangingOp /\ call'[g].op \notin ChangingOp
PROOF
  <1> USE DEF SetCall, Call, Idle, NoCmd, ChangingOp, AboutTodo, TypeInv, TypeOK
  <1>1. CASE Start(g) \/ Suspend(g) \/ Stop(g) \/ StopWithProperties(g)
    BY <1>1 DEF Start, Suspend, Stop, StopWithProperties, TakeSs, IsIdle
  <1>2. CASE OpenGkv(g)
    <2> DEFINE op == IF graph_state[g] = "NONE" THEN "open" ELSE "add"
    <2>1. PICK k \in GkvOf[g] :
               IsIdle(g) /\ call' = [call EXCEPT ![g] = Call(op, {<<g, k>>}, <<g, k>>)]
      BY <1>2 DEF OpenGkv
    <2>2. op \in OpeningOp
      BY DEF OpeningOp
    <2> HIDE DEF op
    <2> QED
      BY <2>1, <2>2 DEF OpeningOp, IsIdle
  <1>11. CASE OpenEmpty(g) \/ Close(g) \/ RemoveGraph(g)
    BY <1>11 DEF OpenEmpty, Close, RemoveGraph, TakeSs, IsIdle
  <1>3. CASE StartNode(g) \/ StartOk(g)
    BY <1>3 DEF StartNode, StartOk, Working, Waiting, NextNode, SendSpfCmd
  <1>4. CASE \/ StartFailed(g) \/ StartDone(g) \/ SuspendFailed(g) \/ SuspendDone(g)
    BY <1>4 DEF StartFailed, StartDone, SuspendFailed, SuspendDone, Working, Waiting,
                ReleaseSs
  <1>5. CASE SuspendNode(g) \/ StopInsteadOk(g) \/ SuspendOk(g)
    BY <1>5 DEF SuspendNode, StopInsteadOk, SuspendOk, SuspendRest, Working, Waiting,
                NextNode, SendSpfCmd
  <1>6. CASE StopNode(g) \/ StopOk(g)
    BY <1>6 DEF StopNode, StopOk, StoppingOp, Working, Waiting, NextNode, SendSpfCmd
  <1>7. CASE StopFailed(g) \/ StopDone(g)
    BY <1>7 DEF StopFailed, StopDone, StoppingOp, Working, Waiting, ReleaseSs, AfterStop
  <1>8. CASE OpenNode(g) \/ OpenOk(g) \/ CalOk(g) \/ CalFailed(g)
    BY <1>8 DEF OpenNode, OpenOk, CalOk, CalFailed, OpeningOp, Working, Waiting, LinkNode,
                ReleaseOc, SendSpfCmd
  <1>9. CASE OpenFailed(g)
    BY <1>9 DEF OpenFailed, UndoOpen, OpeningOp, Waiting, ReleaseOc
  <1>10. CASE EnterClose(g) \/ CloseNode(g) \/ CloseAnswered(g) \/ CloseDone(g)
    BY <1>10 DEF EnterClose, CloseNode, CloseAnswered, CloseDone, ClosingOp, Working,
                 Waiting, FreeNode, NextNode, ReleaseOc, SendSpfCmd
  <1> QED
    BY <1>1, <1>2, <1>3, <1>4, <1>5, <1>6, <1>7, <1>8, <1>9, <1>10, <1>11
       DEF ClientCall, CallStep

\* A change on handle g has one node to link, n: it opens on SPF what no other node
\* holds, the rest is open, and it waits for an answer about an old node or about n.
ChangeOf(g, n) ==
  /\ call[g].todo \ gkv_list = {n}
  /\ pruned_sgids[g] \subseteq sg_array[n]
  /\ \A s \in sg_array[n] : IF s \in pruned_sgids[g] THEN Holders(s) = {n}
                                                     ELSE spf[s] # "CLOSED"
  /\ call[g].cmd \in {NoCmd, "OPEN", "SET_CFG", "CLOSE"}
  /\ call[g].cmd # NoCmd =>
       \/ /\ call[g].node \in gkv_list /\ call[g].cmd = "CLOSE"
          /\ call[g].sgs = Pruned(sg_array[call[g].node])
       \/ call[g].node = n /\ call[g].sgs = pruned_sgids[g]

PartOf(g) ==
  /\ call[g].node \in call[g].todo
  /\ call[g].cmd # NoCmd => /\ call[g].cmd = "CLOSE"
                            /\ call[g].sgs = Pruned(sg_array[call[g].node] \cap Matching)

ChangesInv == \A g \in Graph :
  /\ AboutTodo(call[g])
  /\ call[g].op = "change" => \E n \in Node : ChangeOf(g, n)
  /\ call[g].op = "close_props" => PartOf(g)

\* What the invariant says of changes implies that each works on its own nodes.
LEMMA ChangesAreOwn == ChangesInv => ChangesOwn
  BY DEF ChangesInv, ChangesOwn, ChangeOf

\* A step beside open_close_lock leaves a change of another handle alone.
LEMMA AsideKeepsChanges ==
  ASSUME TypeInv, ChangeVarsType, SharingInv, ChangesInv, NEW g \in Graph, StepAside(g),
         AboutTodo(call'[g]), UNCHANGED pruned_sgids
  PROVE  ChangesInv'
PROOF
  <1> SUFFICES ASSUME NEW h \in Graph
               PROVE  /\ AboutTodo(call'[h])
                      /\ call'[h].op = "change" => \E n \in Node : ChangeOf(h, n)'
                      /\ call'[h].op = "close_props" => PartOf(h)'
    BY DEF ChangesInv
  <1>1. CASE h = g
    BY <1>1 DEF StepAside, OcOp, ChangingOp
  <1>2. CASE h # g
    <2>1. call'[h] = call[h] /\ UNCHANGED <<gkv_list, sg_array, open_ref_cnt>>
      BY <1>2 DEF StepAside
    <2>2. \A sgs : Pruned(sgs)' = Pruned(sgs)
      BY <2>1 DEF Pruned
    <2>3. ASSUME NEW n \in Node, ChangeOf(h, n) PROVE ChangeOf(h, n)'
      <3>1. \A s \in sg_array[n] : s \in SG
        BY DEF TypeInv, TypeOK
      <3>2. \A s \in sg_array[n] : spf[s] # "CLOSED" => spf'[s] # "CLOSED"
        BY <3>1 DEF StepAside
      <3>3. \A s : Holders(s)' = Holders(s)
        BY <2>1 DEF Holders
      <3> QED
        BY <2>1, <2>2, <2>3, <3>2, <3>3 DEF ChangeOf
    <2> QED
      BY <2>1, <2>2, <2>3 DEF ChangesInv, PartOf
  <1> QED
    BY <1>1, <1>2

\* A step of the call that has open_close_lock, or takes it, concerns no other change.
LEMMA LockedKeepsChanges ==
  ASSUME SharingInv, ChangesInv, NEW g \in Graph, open_close_lock \in {g, Free},
         \A h \in Graph \ {g} : call'[h] = call[h], AboutTodo(call'[g]),
         call'[g].op = "change" => \E n \in Node : ChangeOf(g, n)',
         call'[g].op = "close_props" => PartOf(g)'
  PROVE  ChangesInv'
PROOF
  <1>1. \A h \in Graph \ {g} : call[h].op \notin ChangingOp
    BY FreeIsNoGraph DEF SharingInv, OcLockHeld, OcOp
  <1> QED
    BY <1>1 DEF ChangesInv, ChangingOp

\* The steps of GslGraph keep the references exact next to changes of other handles.
LEMMA PlainKeepsSharing ==
  ASSUME TypeInv, ChangeVarsType, SharingInv, ChangesInv, NEW g \in Graph, PlainStep(g)
  PROVE  SharingInv' /\ ChangesInv'
PROOF
  <1>1. ClientCall(g) \/ CallStep(g)
    BY DEF PlainStep
  <1>2. UNCHANGED pruned_sgids
    BY DEF PlainStep
  <1>3. /\ \A h \in Graph \ {g} : call'[h] = call[h]
        /\ AboutTodo(call'[g]) /\ call'[g].op \notin ChangingOp
    BY <1>1, PlainCalls DEF ChangesInv
  <1>4. CASE StepAside(g)
    BY <1>2, <1>3, <1>4, StepAsideKeeps, AsideKeepsChanges
  <1>5. CASE \/ OpenEmpty(g) \/ OpenGkv(g) \/ OpenNode(g) \/ OpenOk(g) \/ CalOk(g)
             \/ CalFailed(g) \/ OpenFailed(g)
             \/ EnterClose(g) \/ CloseNode(g) \/ CloseAnswered(g) \/ CloseDone(g)
    <2>1. open_close_lock = Free \/ call[g].op \in OcOp
      BY <1>5 DEF OpenEmpty, OpenGkv, TakeOc, OpenNode, OpenOk, CalOk, CalFailed, OpenFailed,
                  EnterClose, CloseNode, CloseAnswered, CloseDone, Working, Waiting,
                  OpeningOp, ClosingOp, OcOp
    <2>2. open_close_lock \in {g, Free}
      BY <2>1 DEF SharingInv, OcLockHeld
    <2>3. ChangesInv'
      BY <1>3, <2>2, LockedKeepsChanges DEF ChangingOp
    <2>4. SharingInv'
      BY <1>5, OpenKeeps, CloseKeeps
    <2> QED
      BY <2>3, <2>4
  <1> QED
    BY <1>1, <1>4, <1>5, StartStopSide DEF ClientCall, CallStep

\* A node that gives back some of its references is not counted in those any more.
LEMMA RemoveSomeRefs ==
  ASSUME TypeInv, OpenRefsExact, NEW n \in Node, NEW sgs \in SUBSET sg_array[n],
         PoolRemove(sgs), sg_array' = [sg_array EXCEPT ![n] = @ \ sgs]
  PROVE  OpenRefsExact'
PROOF
  <1> SUFFICES ASSUME NEW s \in SG
               PROVE  open_ref_cnt'[s] = Cardinality(Holders(s)')
    BY DEF OpenRefsExact
  <1> USE DEF TypeInv, TypeOK
  <1>1. open_ref_cnt[s] = Cardinality(Holders(s)) /\ open_ref_cnt[s] \in Nat
    BY DEF OpenRefsExact
  <1>2. CASE s \in sgs
    <2>1. Holders(s)' = Holders(s) \ {n} /\ n \in Holders(s)
      BY <1>2 DEF Holders
    <2>2. Cardinality(Holders(s)') = Cardinality(Holders(s)) - 1
      BY <2>1, HoldersFinite, FS_RemoveElement
    <2>3. open_ref_cnt[s] # 0
      BY <1>1, <2>1, HoldersFinite, FS_EmptySet
    <2> QED
      BY <1>1, <1>2, <2>2, <2>3 DEF PoolRemove, Drop
  <1>3. CASE s \notin sgs
    <2>1. Holders(s)' = Holders(s)
      BY <1>3 DEF Holders
    <2> QED
      BY <1>1, <1>3, <2>1 DEF PoolRemove, Drop
  <1> QED
    BY <1>2, <1>3

\* A change begins when nothing is being opened: what its new node shares is open, and
\* the rest nobody holds.
LEMMA ChangeBegins ==
  ASSUME TypeInv, ChangeVarsType, SharingInv, ChangesInv, NEW g \in Graph, ChangeGraph(g)
  PROVE  SharingInv' /\ ChangesInv'
PROOF
  <1>0. PICK k \in GkvOf[g] : ChangeGraph(g)!(k)
    BY DEF ChangeGraph
  <1> PICK n : n = <<g, k>>
    OBVIOUS
  <1> PICK sgs : sgs = SgsOf[k]
    OBVIOUS
  <1> PICK opens : opens = {s \in sgs : open_ref_cnt[s] = 0}
    OBVIOUS
  <1>1. n \in Node /\ n[1] = g /\ sgs \in SUBSET SG
    BY GkvOfType, SgsOfType DEF Node
  <1>2. /\ call[g].op = "idle" /\ n \notin gkv_list
        /\ open_close_lock = Free /\ open_close_lock' = g
        /\ sg_array' = [sg_array EXCEPT ![n] = sgs]
        /\ open_ref_cnt' = Bump(open_ref_cnt, sgs)
        /\ pruned_sgids' = [pruned_sgids EXCEPT ![g] = opens]
        /\ call' = [call EXCEPT ![g] = Call("change", NodesOf(g) \cup {n}, NoNode)]
        /\ UNCHANGED <<gkv_list, spf>>
    BY <1>0 DEF TakeOc, SetCall, IsIdle
  <1>3. /\ \A h \in Graph \ {g} : call'[h] = call[h]
        /\ call'[g].op = "change" /\ call'[g].cmd = NoCmd
        /\ call'[g].todo = NodesOf(g) \cup {n}
    BY <1>2 DEF TypeInv, TypeOK, Call
  <1> USE DEF SharingInv
  <1>4. \A m \in Node : ~Opening(m)
    BY <1>2, FreeIsNoGraph DEF OcLockHeld, Opening, OpeningOp, OcOp, ChangingOp, Node
  <1>5. sg_array[n] = {}
    BY <1>1, <1>2, <1>4 DEF UnlinkedIsEmpty
  <1>6. OcLockHeld' /\ OpensUnlinked' /\ WaitsForPruned' /\ CalibratesOpen'
    BY <1>2, <1>3, LockedStep DEF NoCmd, OcOp, ChangingOp, OpeningOp
  <1>7. UnlinkedIsEmpty'
    <2> SUFFICES ASSUME NEW m \in Node, m \notin gkv_list, m # n PROVE sg_array[m] = {}
      BY <1>1, <1>2, <1>3 DEF UnlinkedIsEmpty, Opening, TypeInv, TypeOK
    <2> QED
      BY <1>4 DEF UnlinkedIsEmpty
  <1>8. OpenRefsExact'
    BY <1>1, <1>2, <1>5, AddRefs
  <1>9. HeldIsOpen'
    BY <1>2 DEF HeldIsOpen, TypeInv, TypeOK
  <1>10. ChangeOf(g, n)'
    <2>1. pruned_sgids'[g] = opens /\ sg_array'[n] = sgs
      BY <1>1, <1>2 DEF ChangeVarsType, TypeInv, TypeOK
    <2>2. call'[g].todo \ gkv_list' = {n}
      BY <1>2, <1>3 DEF NodesOf
    <2>3. ASSUME NEW s \in sgs, s \in opens PROVE Holders(s)' = {n}
      <3>1. s \in SG /\ Cardinality(Holders(s)) = 0
        BY <1>1, <2>3 DEF OpenRefsExact
      <3>2. Holders(s) = {}
        BY <3>1, HoldersFinite, FS_EmptySet
      <3> QED
        BY <1>1, <1>2, <2>3, <3>2 DEF Holders, TypeInv, TypeOK
    <2>4. ASSUME NEW s \in sgs, s \notin opens PROVE spf[s] # "CLOSED"
      <3>1. s \in SG /\ open_ref_cnt[s] # 0
        BY <1>1, <2>4
      <3>2. Holders(s) # {}
        BY <3>1, FS_EmptySet DEF OpenRefsExact
      <3>3. PICK m \in Node : s \in sg_array[m]
        BY <3>2 DEF Holders
      <3>4. m \in gkv_list
        BY <1>4, <3>3 DEF UnlinkedIsEmpty
      <3> QED
        BY <3>3, <3>4 DEF HeldIsOpen
    <2>5. pruned_sgids'[g] \subseteq sg_array'[n]
      BY <2>1
    <2>6. \A s \in sg_array'[n] : IF s \in pruned_sgids'[g] THEN Holders(s)' = {n}
                                                           ELSE spf'[s] # "CLOSED"
      BY <1>2, <2>1, <2>3, <2>4
    <2> QED
      BY <1>3, <2>2, <2>5, <2>6 DEF ChangeOf
  <1>11. ChangesInv'
    BY <1>1, <1>2, <1>3, <1>10, LockedKeepsChanges DEF AboutTodo
  <1> QED
    BY <1>6, <1>7, <1>8, <1>9, <1>11

\* What the call of a change may take for granted.
LEMMA ChangeFacts ==
  ASSUME TypeInv, SharingInv, ChangesInv, NEW g \in Graph, call[g].op = "change"
  PROVE  /\ open_close_lock = g
         /\ \E n \in Node : n[1] = g /\ NewNode(g) = n /\ ChangeOf(g, n)
PROOF
  <1>1. open_close_lock = g
    BY DEF SharingInv, OcLockHeld, OcOp, ChangingOp
  <1>2. PICK n \in Node : ChangeOf(g, n)
    BY DEF ChangesInv
  <1>3. n[1] = g /\ NewNode(g) = n
    BY <1>2, NewNodeIs, CallFacts DEF ChangeOf
  <1> QED
    BY <1>1, <1>2, <1>3

\* A change asks SPF about an old node, or about what it has to open.
LEMMA ChangeAsks ==
  ASSUME TypeInv, ChangeVarsType, SharingInv, ChangesInv, NEW g \in Graph,
         call[g].op = "change", NEW n \in Node, ChangeOf(g, n),
         NEW m, NEW cmd \in {"OPEN", "SET_CFG", "CLOSE"}, NEW sgs, SendSpfCmd(g, m, cmd, sgs),
         \/ m \in OldNodes(g) /\ cmd = "CLOSE" /\ sgs = Pruned(sg_array[m])
         \/ m = n /\ sgs = pruned_sgids[g],
         UNCHANGED <<gkv_list, sg_array, pool, locks, cvars>>,
         \A s \in SG : spf[s] # "CLOSED" => spf'[s] # "CLOSED",
         cmd = "SET_CFG" => \A s \in sgs : spf'[s] # "CLOSED"
  PROVE  SharingInv' /\ ChangesInv'
PROOF
  <1> USE DEF SharingInv, pool, locks, cvars
  <1>1. open_close_lock = g
    BY ChangeFacts
  <1>2. /\ \A h \in Graph \ {g} : call'[h] = call[h]
        /\ call'[g].op = "change" /\ call'[g].todo = call[g].todo
        /\ call'[g].node = m /\ call'[g].cmd = cmd /\ call'[g].sgs = sgs
    BY DEF SendSpfCmd, SetCall, TypeInv, TypeOK
  <1>3. OcLockHeld' /\ OpensUnlinked' /\ WaitsForPruned' /\ CalibratesOpen'
    BY <1>1, <1>2, LockedStep DEF OcOp, ChangingOp, OpeningOp
  <1>4. UnlinkedIsEmpty'
    BY <1>2 DEF UnlinkedIsEmpty, Opening, Node, OpeningOp
  <1>5. OpenRefsExact'
    BY DEF OpenRefsExact, Holders
  <1>6. HeldIsOpen'
    BY DEF HeldIsOpen, TypeInv, TypeOK
  <1>7. ChangeOf(g, n)' /\ AboutTodo(call'[g])
    <2>1. Pruned(sg_array[m])' = Pruned(sg_array[m])
      BY DEF Pruned
    <2>2. \A s : Holders(s)' = Holders(s)
      BY DEF Holders
    <2>3. \A s \in sg_array[n] : s \in SG
      BY DEF TypeInv, TypeOK
    <2>4. m \in call[g].todo
      BY DEF ChangeOf, OldNodes
    <2> QED
      BY <1>2, <2>1, <2>2, <2>3, <2>4 DEF ChangeOf, AboutTodo, OldNodes
  <1>8. ChangesInv'
    BY <1>1, <1>2, <1>7, LockedKeepsChanges
  <1> QED
    BY <1>3, <1>4, <1>5, <1>6, <1>8

\* An old node goes, and SPF closes what only it held: nothing of the new one.
LEMMA ReplaceKeeps ==
  ASSUME TypeInv, ChangeVarsType, SharingInv, ChangesInv, NEW g \in Graph,
         call[g].op = "change", NEW old \in OldNodes(g), ReplaceNode(g, old),
         UNCHANGED open_close_lock,
         UNCHANGED spf \/ SpfDoes(Pruned(sg_array[old]), "CLOSED")
  PROVE  SharingInv' /\ ChangesInv'
PROOF
  <1> USE DEF SharingInv
  <1>0. PICK n \in Node : n[1] = g /\ open_close_lock = g /\ ChangeOf(g, n)
    BY ChangeFacts
  <1>1. /\ old \in Node /\ old[1] = g /\ old \in call[g].todo /\ old \in gkv_list
        /\ n \notin gkv_list /\ n # old
    BY <1>0, CallFacts DEF OldNodes, ChangeOf
  <1>2. /\ PoolRemove(sg_array[old]) /\ sg_array' = [sg_array EXCEPT ![old] = {}]
        /\ gkv_list' = gkv_list \ {old} /\ UNCHANGED pruned_sgids
        /\ \A h \in Graph \ {g} : call'[h] = call[h]
        /\ call'[g].op = "change" /\ call'[g].cmd = NoCmd
        /\ call'[g].todo = call[g].todo \ {old}
    BY DEF ReplaceNode, NextNode, SetCall, Call, TypeInv, TypeOK
  <1>3. OcLockHeld' /\ OpensUnlinked' /\ WaitsForPruned' /\ CalibratesOpen'
    BY <1>0, <1>2, LockedStep DEF OpeningOp, OcOp, ChangingOp, NoCmd
  <1>4. UnlinkedIsEmpty'
    <2> SUFFICES ASSUME NEW m \in Node, m \notin gkv_list, m # old, sg_array[m] # {}
                 PROVE  Opening(m)'
      BY <1>1, <1>2 DEF UnlinkedIsEmpty, TypeInv, TypeOK
    <2>1. m[1] \in Graph /\ Opening(m)
      BY DEF UnlinkedIsEmpty, Node
    <2> QED
      BY <1>2, <2>1 DEF Opening, OpeningOp
  <1>5. OpenRefsExact'
    BY <1>1, <1>2, RemoveRefs
  <1>6. \A m \in Node : \A s \in sg_array[m] :
           m # old /\ spf[s] # "CLOSED" => spf'[s] # "CLOSED"
    <2> SUFFICES ASSUME NEW m \in Node, m # old, NEW s \in sg_array[m], spf[s] # "CLOSED"
                 PROVE  spf'[s] # "CLOSED"
      OBVIOUS
    <2>1. s \in SG /\ s \notin Pruned(sg_array[old])
      BY <1>1, PrunedIsOwn DEF TypeInv, TypeOK
    <2> QED
      BY <2>1 DEF SpfDoes
  <1>7. HeldIsOpen'
    BY <1>1, <1>2, <1>6 DEF HeldIsOpen, TypeInv, TypeOK
  <1>8. ChangeOf(g, n)'
    <2>1. pruned_sgids'[g] = pruned_sgids[g] /\ sg_array'[n] = sg_array[n]
      BY <1>1, <1>2 DEF TypeInv, TypeOK
    <2>2. call'[g].todo \ gkv_list' = {n}
      BY <1>0, <1>1, <1>2 DEF ChangeOf
    <2>3. \A s \in sg_array[n] : s \in pruned_sgids[g] => Holders(s)' = {n}
      <3> SUFFICES ASSUME NEW s \in sg_array[n], s \in pruned_sgids[g]
                   PROVE  Holders(s)' = {n}
        OBVIOUS
      <3>1. Holders(s) = {n}
        BY <1>0 DEF ChangeOf
      <3> QED
        BY <1>1, <1>2, <3>1 DEF Holders, TypeInv, TypeOK
    <2>4. \A s \in sg_array[n] : s \notin pruned_sgids[g] => spf'[s] # "CLOSED"
      BY <1>0, <1>1, <1>6 DEF ChangeOf
    <2> QED
      BY <1>0, <1>2, <2>1, <2>2, <2>3, <2>4 DEF ChangeOf
  <1>9. ChangesInv'
    BY <1>0, <1>2, <1>8, LockedKeepsChanges DEF AboutTodo
  <1> QED
    BY <1>3, <1>4, <1>5, <1>7, <1>9

\* The end of a change, whether all of its new node is linked or what was open before.
LEMMA ChangeEnds ==
  ASSUME TypeInv, SharingInv, ChangesInv, NEW g \in Graph, call[g].op = "change",
         NEW n \in Node, n[1] = g, ChangeOf(g, n), NEW kept \in SUBSET sg_array[n],
         gkv_list' = gkv_list \cup {n}, sg_array' = [sg_array EXCEPT ![n] = kept],
         OpenRefsExact', ReleaseOc(g, Idle),
         \A m \in gkv_list : \A s \in sg_array[m] : spf'[s] # "CLOSED",
         \A s \in kept : spf'[s] # "CLOSED"
  PROVE  SharingInv' /\ ChangesInv'
PROOF
  <1> USE DEF SharingInv
  <1>1. open_close_lock = g
    BY ChangeFacts
  <1>2. /\ open_close_lock' = Free /\ call'[g] = Idle
        /\ \A h \in Graph \ {g} : call'[h] = call[h]
    BY DEF ReleaseOc, SetCall, TypeInv, TypeOK
  <1>3. OcLockHeld' /\ OpensUnlinked' /\ WaitsForPruned' /\ CalibratesOpen'
    BY <1>1, <1>2, LockedStep, FreeIsNoGraph
       DEF Idle, Call, OpeningOp, OcOp, ChangingOp, NoCmd
  <1>4. UnlinkedIsEmpty'
    <2> SUFFICES ASSUME NEW m \in Node, m \notin gkv_list, m # n, sg_array[m] # {}
                 PROVE  Opening(m)'
      BY DEF UnlinkedIsEmpty, TypeInv, TypeOK
    <2>1. m[1] \in Graph /\ Opening(m)
      BY DEF UnlinkedIsEmpty, Node
    <2>2. m[1] # g
      BY <2>1 DEF Opening, OpeningOp, ChangeOf
    <2> QED
      BY <1>2, <2>1, <2>2 DEF Opening
  <1>5. HeldIsOpen'
    BY DEF HeldIsOpen, TypeInv, TypeOK
  <1>6. ChangesInv'
    BY <1>1, <1>2, LockedKeepsChanges DEF AboutTodo, Idle, Call
  <1> QED
    BY <1>3, <1>4, <1>5, <1>6

\* The steps of a change and of a partial close keep them.
LEMMA ChangeKeepsSharing ==
  ASSUME TypeInv, ChangeVarsType, SharingInv, ChangesInv, NEW g \in Graph,
         \/ ChangeCloses(g) \/ ChangeClosed(g) \/ ChangeOpens(g) \/ ChangeOpened(g)
         \/ ChangeCalOk(g) \/ ChangeCalFailed(g) \/ ChangeFailed(g)
  PROVE  SharingInv' /\ ChangesInv'
PROOF
  <1>0. call[g].op = "change"
    BY DEF ChangeCloses, ChangeClosed, ChangeOpens, ChangeOpened, ChangeCalOk,
           ChangeCalFailed, ChangeFailed, Working, Waiting
  <1>1. PICK n \in Node : n[1] = g /\ NewNode(g) = n /\ ChangeOf(g, n)
    BY <1>0, ChangeFacts
  <1>2. n \notin gkv_list /\ sg_array[n] \in SUBSET SG
    BY <1>1 DEF ChangeOf, TypeInv, TypeOK
  <1>3. call[g].cmd # NoCmd => call[g].node \in call[g].todo
    BY DEF ChangesInv, AboutTodo
  \* The node is linked with all it has, once that is open.
  <1>4. ASSUME ChangeDone(g, n), UNCHANGED spf, \A s \in pruned_sgids[g] : spf[s] # "CLOSED"
        PROVE  SharingInv' /\ ChangesInv'
    <2>1. /\ gkv_list' = gkv_list \cup {n} /\ ReleaseOc(g, Idle)
          /\ UNCHANGED <<sg_array, open_ref_cnt>>
      BY <1>4 DEF ChangeDone, LinkNode, pool
    <2>2. sg_array' = [sg_array EXCEPT ![n] = sg_array[n]]
      BY <2>1 DEF TypeInv, TypeOK
    <2>3. OpenRefsExact'
      BY <2>1 DEF SharingInv, OpenRefsExact, Holders
    <2>4. \A m \in gkv_list : \A s \in sg_array[m] : spf'[s] # "CLOSED"
      BY <1>4 DEF SharingInv, HeldIsOpen
    <2>5. \A s \in sg_array[n] : spf'[s] # "CLOSED"
      BY <1>1, <1>4 DEF ChangeOf
    <2> QED
      BY <1>0, <1>1, <2>1, <2>2, <2>3, <2>4, <2>5, ChangeEnds
  <1>5. ASSUME call[g].node \notin gkv_list, call[g].cmd # NoCmd
        PROVE  call[g].node = n /\ call[g].sgs = pruned_sgids[g]
    BY <1>1, <1>5 DEF ChangeOf
  <1>6. CASE ChangeCloses(g)
    <2>1. PICK old \in OldNodes(g) : ChangeCloses(g)!(old)
      BY <1>6 DEF ChangeCloses
    <2>2. CASE ReplaceNode(g, old)
      BY <1>0, <2>1, <2>2, ReplaceKeeps DEF locks
    <2>3. CASE /\ SendSpfCmd(g, old, "CLOSE", Pruned(sg_array[old]))
               /\ UNCHANGED <<gkv_list, sg_array, masks, pool, cvars>>
      BY <1>0, <1>1, <2>1, <2>3, ChangeAsks
    <2> QED
      BY <2>1, <2>2, <2>3
  <1>7. CASE ChangeClosed(g)
    <2>1. call[g].node \in OldNodes(g) /\ call[g].sgs = Pruned(sg_array[call[g].node])
      BY <1>1, <1>2, <1>3, <1>7 DEF ChangeClosed, Waiting, NoCmd, ChangeOf, OldNodes
    <2> QED
      BY <1>0, <1>7, <2>1, ReplaceKeeps DEF ChangeClosed, locks
  <1>8. CASE ChangeOpens(g)
    BY <1>0, <1>1, <1>4, <1>8, ChangeAsks DEF ChangeOpens
  <1>9. CASE ChangeOpened(g)
    <2>1. call[g].node = n /\ call[g].sgs = pruned_sgids[g]
      BY <1>1, <1>9 DEF ChangeOpened, Waiting, NoCmd, ChangeOf
    <2>2. SpfDoes(call[g].sgs, "STOPPED")
      BY <1>9 DEF ChangeOpened
    <2>3. CASE call[g].sgs = {} /\ ChangeDone(g, call[g].node)
      <3>1. UNCHANGED spf
        BY <2>2, <2>3 DEF SpfDoes, TypeInv, TypeOK
      <3> QED
        BY <1>4, <2>1, <2>3, <3>1
    <2>4. CASE /\ SendSpfCmd(g, call[g].node, "SET_CFG", call[g].sgs)
               /\ UNCHANGED <<graph_state, gkv_list, sg_array, masks, pool, locks, cvars>>
      <3>1. /\ \A s \in SG : spf[s] # "CLOSED" => spf'[s] # "CLOSED"
            /\ \A s \in call[g].sgs : spf'[s] # "CLOSED"
        BY <2>2, CallFacts DEF SpfDoes
      <3> QED
        BY <1>0, <1>1, <2>1, <2>4, <3>1, ChangeAsks
    <2> QED
      BY <1>9, <2>3, <2>4 DEF ChangeOpened
  <1>10. CASE ChangeCalOk(g)
    <2>1. call[g].node = n /\ call[g].sgs = pruned_sgids[g] /\ call[g].cmd = "SET_CFG"
      BY <1>1, <1>10 DEF ChangeCalOk, Waiting, NoCmd, ChangeOf
    <2>2. \A s \in pruned_sgids[g] : spf[s] # "CLOSED"
      BY <2>1 DEF SharingInv, CalibratesOpen
    <2> QED
      BY <1>4, <1>10, <2>1, <2>2 DEF ChangeCalOk
  <1>11. CASE ChangeCalFailed(g)
    <2>1. call[g].node = n /\ call[g].sgs = pruned_sgids[g]
      BY <1>1, <1>11 DEF ChangeCalFailed, Waiting, NoCmd, ChangeOf
    <2> QED
      BY <1>0, <1>1, <1>11, <2>1, ChangeAsks DEF ChangeCalFailed
  <1>12. CASE ChangeFailed(g)
    <2>1. call[g].node = n /\ call[g].sgs = pruned_sgids[g]
      BY <1>1, <1>12 DEF ChangeFailed, Waiting, NoCmd, ChangeOf
    <2>2. UNCHANGED spf \/ SpfDoes(pruned_sgids[g], "CLOSED")
      BY <1>12, <2>1 DEF ChangeFailed
    <2> PICK kept : kept = sg_array[n] \ pruned_sgids[g]
      OBVIOUS
    <2>3. /\ PoolRemove(pruned_sgids[g]) /\ gkv_list' = gkv_list \cup {n}
          /\ sg_array' = [sg_array EXCEPT ![n] = kept]
      BY <1>12, <2>1 DEF ChangeFailed, KeepExisting
    <2>4. ReleaseOc(g, Idle)
      BY <1>12 DEF ChangeFailed
    <2>5. pruned_sgids[g] \in SUBSET sg_array[n]
      BY <1>1 DEF ChangeOf
    <2>6. OpenRefsExact'
      BY <2>3, <2>5, RemoveSomeRefs DEF SharingInv
    <2>7. \A m \in gkv_list : \A s \in sg_array[m] : spf'[s] # "CLOSED"
      <3> SUFFICES ASSUME NEW m \in gkv_list, NEW s \in sg_array[m] PROVE spf'[s] # "CLOSED"
        OBVIOUS
      <3>1. m \in Node /\ s \in SG /\ spf[s] # "CLOSED"
        BY DEF TypeInv, TypeOK, SharingInv, HeldIsOpen
      <3>2. s \notin pruned_sgids[g]
        BY <1>1, <1>2, <2>5, <3>1 DEF ChangeOf, Holders
      <3> QED
        BY <2>2, <3>1, <3>2 DEF SpfDoes
    <2>8. \A s \in kept : spf'[s] # "CLOSED"
      BY <1>1, <1>2, <2>2 DEF ChangeOf, SpfDoes
    <2>9. kept \in SUBSET sg_array[n]
      OBVIOUS
    <2> QED
      BY <1>0, <1>1, <2>3, <2>4, <2>6, <2>7, <2>8, <2>9, ChangeEnds
  <1> QED
    BY <1>6, <1>7, <1>8, <1>9, <1>10, <1>11, <1>12

\* A partial close takes subgraphs out of one node, and SPF closes those that no other
\* node holds.
LEMMA PartialKeepsSharing ==
  ASSUME TypeInv, ChangeVarsType, SharingInv, ChangesInv, NEW g \in Graph,
         CloseWithProperties(g) \/ ClosesMatching(g) \/ ClosedMatching(g)
  PROVE  SharingInv' /\ ChangesInv'
PROOF
  <1> USE DEF SharingInv
  <1> PICK n : n = call[g].node
    OBVIOUS
  <1>1. CASE CloseWithProperties(g)
    <2>0. PICK m \in NodesOf(g) : CloseWithProperties(g)!(m)
      BY <1>1 DEF CloseWithProperties
    <2>1. /\ open_close_lock = Free /\ open_close_lock' = g /\ call[g].op = "idle"
          /\ \A h \in Graph \ {g} : call'[h] = call[h]
          /\ call'[g] = Call("close_props", {m}, m)
          /\ UNCHANGED <<gkv_list, sg_array, open_ref_cnt, spf>>
      BY <2>0 DEF TakeOc, IsIdle, SetCall, pool, TypeInv, TypeOK
    <2>2. OcLockHeld' /\ OpensUnlinked' /\ WaitsForPruned' /\ CalibratesOpen'
      BY <2>1, LockedStep DEF Call, OpeningOp, OcOp, ChangingOp, NoCmd
    <2>3. UnlinkedIsEmpty'
      BY <2>1 DEF UnlinkedIsEmpty, Opening, OpeningOp, Node
    <2>4. OpenRefsExact' /\ HeldIsOpen'
      BY <2>1 DEF OpenRefsExact, Holders, HeldIsOpen
    <2>5. ChangesInv'
      <3>1. /\ call'[g].op = "close_props" /\ call'[g].cmd = NoCmd
            /\ call'[g].node \in call'[g].todo
        BY <2>1 DEF Call
      <3>2. AboutTodo(call'[g]) /\ PartOf(g)'
        BY <3>1 DEF AboutTodo, PartOf
      <3> QED
        BY <2>1, <3>1, <3>2, LockedKeepsChanges
    <2> QED
      BY <2>2, <2>3, <2>4, <2>5
  <1>2. ASSUME call[g].op = "close_props", RemoveMatching(g, n),
               \/ UNCHANGED spf
               \/ SpfDoes(Pruned(sg_array[n] \cap Matching), "CLOSED")
        PROVE  SharingInv' /\ ChangesInv'
    <2>0. n \in Node /\ n[1] = g /\ open_close_lock = g
      BY <1>2, CallFacts DEF OcLockHeld, OcOp, ChangingOp
    <2> PICK sgs : sgs = sg_array[n] \cap Matching
      OBVIOUS
    <2>1. /\ PoolRemove(sgs) /\ sg_array' = [sg_array EXCEPT ![n] = @ \ sgs]
          /\ open_close_lock' = Free /\ call'[g] = Idle
          /\ \A h \in Graph \ {g} : call'[h] = call[h]
          /\ UNCHANGED gkv_list
      <3>1. sg_array' = [sg_array EXCEPT ![n] = @ \ Matching]
        BY <1>2 DEF RemoveMatching
      <3>2. sg_array[n] \ Matching = sg_array[n] \ sgs
        OBVIOUS
      <3>3. sg_array' = [sg_array EXCEPT ![n] = @ \ sgs]
        BY <3>1, <3>2
      <3> QED
        BY <1>2, <3>3 DEF RemoveMatching, ReleaseOc, SetCall, TypeInv, TypeOK
    <2>2. OcLockHeld' /\ OpensUnlinked' /\ WaitsForPruned' /\ CalibratesOpen'
      BY <2>0, <2>1, LockedStep, FreeIsNoGraph
         DEF Idle, Call, OpeningOp, OcOp, ChangingOp, NoCmd
    <2>3. UnlinkedIsEmpty'
      <3> SUFFICES ASSUME NEW m \in Node, m \notin gkv_list, sg_array'[m] # {}
                   PROVE  Opening(m)'
        BY <2>1 DEF UnlinkedIsEmpty
      <3>1. sg_array[m] # {} /\ m[1] \in Graph
        BY <2>0, <2>1 DEF TypeInv, TypeOK, Node
      <3>2. Opening(m) /\ m[1] # g
        BY <1>2, <3>1 DEF UnlinkedIsEmpty, Opening, OpeningOp
      <3> QED
        BY <2>1, <3>1, <3>2 DEF Opening
    <2>4. OpenRefsExact'
      BY <2>0, <2>1, RemoveSomeRefs
    <2>5. HeldIsOpen'
      <3> SUFFICES ASSUME NEW m \in gkv_list, NEW s \in sg_array'[m] PROVE spf'[s] # "CLOSED"
        BY <2>1 DEF HeldIsOpen
      <3>1. m \in Node /\ s \in SG /\ s \in sg_array[m] /\ spf[s] # "CLOSED"
        BY <2>0, <2>1 DEF TypeInv, TypeOK, HeldIsOpen
      <3>2. s \notin Pruned(sgs)
        <4>1. CASE m = n
          BY <2>0, <2>1, <3>1, <4>1 DEF Pruned, TypeInv, TypeOK
        <4>2. CASE m # n
          <5>1. s \notin Pruned(sg_array[n])
            BY <2>0, <3>1, <4>2, PrunedIsOwn
          <5> QED
            BY <5>1 DEF Pruned
        <4> QED
          BY <4>1, <4>2
      <3> QED
        BY <1>2, <3>1, <3>2 DEF SpfDoes
    <2>6. ChangesInv'
      BY <2>0, <2>1, LockedKeepsChanges DEF AboutTodo, Idle, Call
    <2> QED
      BY <2>2, <2>3, <2>4, <2>5, <2>6
  <1>3. CASE ClosesMatching(g)
    <2>0. /\ call[g].op = "close_props" /\ call[g].cmd = NoCmd /\ UNCHANGED spf
          /\ n \in Node /\ n[1] = g
      BY <1>3, CallFacts DEF ClosesMatching, Working
    <2> PICK sgs : sgs = Pruned(sg_array[n] \cap Matching)
      OBVIOUS
    <2>1. CASE RemoveMatching(g, n)
      BY <1>2, <2>0, <2>1
    <2>2. CASE /\ SendSpfCmd(g, n, "CLOSE", sgs)
               /\ UNCHANGED <<gkv_list, sg_array, masks, pool, locks, cvars>>
      <3>1. /\ open_close_lock = g
            /\ \A h \in Graph \ {g} : call'[h] = call[h]
            /\ call'[g] = [op |-> "close_props", todo |-> call[g].todo, node |-> n,
                           cmd |-> "CLOSE", sgs |-> sgs]
            /\ UNCHANGED <<gkv_list, sg_array, open_ref_cnt, open_close_lock>>
        BY <2>0, <2>2 DEF SendSpfCmd, SetCall, OcLockHeld, OcOp, ChangingOp, pool, locks,
                          TypeInv, TypeOK
      <3>2. OcLockHeld' /\ OpensUnlinked' /\ WaitsForPruned' /\ CalibratesOpen'
        BY <3>1, LockedStep DEF OpeningOp, OcOp, ChangingOp
      <3>3. UnlinkedIsEmpty'
        BY <2>0, <3>1 DEF UnlinkedIsEmpty, Opening, OpeningOp, Node
      <3>4. OpenRefsExact' /\ HeldIsOpen'
        BY <2>0, <3>1 DEF OpenRefsExact, Holders, HeldIsOpen
      <3>5. ChangesInv'
        <4>1. PartOf(g)'
          BY <2>0, <3>1 DEF ChangesInv, PartOf, Pruned
        <4>2. AboutTodo(call'[g])
          BY <2>0, <3>1 DEF AboutTodo, ChangesInv, PartOf
        <4> QED
          BY <3>1, <4>1, <4>2, LockedKeepsChanges
      <3> QED
        BY <3>2, <3>3, <3>4, <3>5
    <2> QED
      BY <1>3, <2>1, <2>2 DEF ClosesMatching
  <1>4. CASE ClosedMatching(g)
    <2>1. call[g].op = "close_props" /\ call[g].sgs = Pruned(sg_array[n] \cap Matching)
      BY <1>4 DEF ClosedMatching, Waiting, NoCmd, ChangesInv, PartOf
    <2> QED
      BY <1>2, <1>4, <2>1 DEF ClosedMatching
  <1> QED
    BY <1>1, <1>3, <1>4

\* The starts and stops of nodes with stray bits are steps beside open_close_lock.
LEMMA StrayedKeepsSharing ==
  ASSUME TypeInv, ChangeVarsType, SharingInv, ChangesInv, NEW g \in Graph,
         StartsStrayed(g) \/ RemovesAfterStop(g)
  PROVE  SharingInv' /\ ChangesInv'
PROOF
  <1> USE DEF masks, pool, locks, cvars
  <1>1. CASE StartsStrayed(g)
    <2> PICK n \in Strayed(g) : StartsStrayed(g)!(n)
      BY <1>1 DEF StartsStrayed
    <2>1. /\ UNCHANGED <<gkv_list, sg_array, open_ref_cnt, locks, spf, pruned_sgids>>
          /\ call[g].op = "start" /\ n \in call[g].todo
      BY DEF Strayed, Working, CountStarted
    <2>2. /\ \A h \in Graph \ {g} : call'[h] = call[h]
          /\ call'[g].op = "start" /\ call'[g].cmd \in {NoCmd, "START"}
          /\ AboutTodo(call'[g])
      <3>1. CASE NextNode(g, n)
        BY <2>1, <3>1 DEF NextNode, SetCall, Call, AboutTodo, TypeInv, TypeOK
      <3>2. CASE SendSpfCmd(g, n, "START", StartList(n))
        BY <2>1, <3>2 DEF SendSpfCmd, SetCall, AboutTodo, TypeInv, TypeOK
      <3> QED
        BY <3>1, <3>2
    <2>3. StepAside(g)
      BY <2>1, <2>2 DEF StepAside, OcOp, ChangingOp, NoCmd
    <2> QED
      BY <2>1, <2>2, <2>3, StepAsideKeeps, AsideKeepsChanges
  <1>2. CASE RemovesAfterStop(g)
    <2> PICK n \in NodesOf(g) : RemovesAfterStop(g)!(n)
      BY <1>2 DEF RemovesAfterStop
    <2>1. /\ UNCHANGED <<gkv_list, sg_array, open_ref_cnt, open_close_lock, spf, pruned_sgids>>
          /\ call[g].op = "idle"
          /\ \A h \in Graph \ {g} : call'[h] = call[h]
          /\ call'[g] = Call("remove:stop", {n}, n)
      BY DEF SetCall, IsIdle, TypeInv, TypeOK
    <2>2. StepAside(g)
      BY <2>1 DEF StepAside, OcOp, ChangingOp, NoCmd, Call
    <2>3. AboutTodo(call'[g])
      BY <2>1 DEF AboutTodo, Call
    <2> QED
      BY <2>1, <2>2, <2>3, StepAsideKeeps, AsideKeepsChanges
  <1> QED
    BY <1>1, <1>2

ChangeSharingInv == TypeInv /\ ChangeVarsType /\ SharingInv /\ ChangesInv

\* The invariant holds at first, is kept by every step and so always holds.
LEMMA ChangeSharingInit == ChangeInit => ChangeSharingInv
PROOF
  <1> SUFFICES ASSUME ChangeInit PROVE ChangeSharingInv
    OBVIOUS
  <1>1. TypeInv /\ SharingInv
    BY TypeInit, SharingInit DEF ChangeInit
  <1>2. ChangeVarsType
    <2>1. 0 \in 0 .. Cardinality(SG)
      BY OrderType, FS_CardinalityType
    <2> QED
      BY <2>1 DEF ChangeInit, ChangeVarsType
  <1>3. ChangesInv
    BY DEF ChangeInit, Init, ChangesInv, AboutTodo, Idle, Call
  <1> QED
    BY <1>1, <1>2, <1>3 DEF ChangeSharingInv

LEMMA ChangeSharingNext == ChangeSharingInv /\ [ChangeNext]_allvars => ChangeSharingInv'
PROOF
  <1> SUFFICES ASSUME ChangeSharingInv, [ChangeNext]_allvars PROVE ChangeSharingInv'
    OBVIOUS
  <1> USE DEF ChangeSharingInv
  <1>1. CASE UNCHANGED allvars
    <2>1. TypeInv'
      BY <1>1, TypeNext DEF allvars
    <2>2. SharingInv'
      BY <1>1, SharingNext DEF allvars
    <2>3. ChangeVarsType'
      BY <1>1 DEF allvars, cvars, ChangeVarsType
    <2>4. ChangesInv'
      BY <1>1 DEF allvars, vars, cvars, pool, ChangesInv, ChangeOf, PartOf, Holders, Pruned
    <2> QED
      BY <2>1, <2>2, <2>3, <2>4
  <1>2. ASSUME NEW g \in Graph, PlainStep(g) PROVE ChangeSharingInv'
    BY <1>2, TypePlain, PlainKeepsSharing
  <1>3. ASSUME NEW g \in Graph,
               \/ ChangeGraph(g) \/ ChangeCloses(g) \/ ChangeClosed(g) \/ ChangeOpens(g)
               \/ ChangeOpened(g) \/ ChangeCalOk(g) \/ ChangeCalFailed(g) \/ ChangeFailed(g)
        PROVE  ChangeSharingInv'
    BY <1>3, TypeChange, ChangesAreOwn, ChangeBegins, ChangeKeepsSharing
  <1>4. ASSUME NEW g \in Graph,
               \/ CloseWithProperties(g) \/ ClosesMatching(g) \/ ClosedMatching(g)
               \/ StartsStrayed(g) \/ RemovesAfterStop(g)
        PROVE  ChangeSharingInv'
    BY <1>4, TypePartial, PartialKeepsSharing, StrayedKeepsSharing
  <1> QED
    BY <1>1, <1>2, <1>3, <1>4 DEF ChangeNext, ChangeStep

LEMMA ChangeSharingInvariant == ChangeSpec => []ChangeSharingInv
  BY ChangeSharingInit, ChangeSharingNext, PTL DEF ChangeSpec

\* The open counts stay exact when a change moves subgraphs from node to node and when a
\* partial close takes them out of one.
THEOREM OpenRefsCorrectOverChanges == ChangeSpec => []OpenRefsExact
PROOF
  <1>1. ChangeSharingInv => OpenRefsExact
    BY DEF ChangeSharingInv, SharingInv
  <1> QED
    BY ChangeSharingInvariant, <1>1, PTL

\* No change closes what a node of this or of another handle holds, whatever fails.
THEOREM HeldStaysOpenOverChanges == ChangeSpec => []HeldIsOpen
PROOF
  <1>1. ChangeSharingInv => HeldIsOpen
    BY DEF ChangeSharingInv, SharingInv
  <1> QED
    BY ChangeSharingInvariant, <1>1, PTL

-----------------------------------------------------------------------------
(* Changes and partial closes: starts and stops.  The counts follow the start bits of
   every subgraph that is not astray, if SPF starts, suspends and stops what it is told
   to; whether it opens, calibrates and closes does not matter. *)

StartsDoNotFail == {"START", "SUSPEND", "STOP"} \cap Faults = {}

\* A call is about linked nodes unless it opens one, a node has bits for subgraphs it
\* holds, and only the new node of a change has bits before it is linked; these are not
\* for what is still to be opened.
LinkedCall(c) == c.op \notin OpeningOp \cup {"change"} =>
  /\ c.todo \subseteq gkv_list
  /\ c.cmd # NoCmd \/ c.op \in {"remove:stop", "remove:wait"} => c.node \in gkv_list
InPlace(g) ==
  /\ LinkedCall(call[g])
  /\ \A n \in Node : n[1] = g =>
       /\ sg_start_mask[n] \cup sg_stop_mask[n] \subseteq sg_array[n]
       /\ n \notin gkv_list =>
            /\ \/ call[g].op = "change" /\ n \in call[g].todo
               \/ sg_start_mask[n] \cup sg_stop_mask[n] = {}
            /\ sg_start_mask[n] \cap pruned_sgids[g] = {}

\* The subgraphs a call waits for are the ones it would ask for now; what a suspend has
\* stopped stays so until it has suspended the rest.
Asks(g) ==
  /\ call[g].cmd \in {"START", "SUSPEND", "STOP"} =>
       /\ \/ call[g].op = "start" /\ call[g].cmd = "START"
          \/ call[g].op = "suspend" /\ call[g].cmd \in {"STOP", "SUSPEND"}
          \/ call[g].op \in StoppingOp /\ call[g].cmd = "STOP"
       /\ call[g].sgs = AskedList(call[g].op, call[g].cmd, call[g].node)
  /\ Waiting(g, "suspend", "SUSPEND") =>
       \A s \in StopInsteadList(call[g].node) : spf[s] # "RUNNING"

\* Only a graph that is STARTED, or is being started or stopped, has start bits: a node
\* that is closed has none left.
ByState(g) ==
  /\ \A n \in Node : n[1] = g /\ sg_start_mask[n] # {} =>
       \/ graph_state[g] = "STARTED" \/ call[g].op = "start"
       \/ call[g].op \in {"stop", "close:stop"} /\ n \in call[g].todo
  /\ call[g].op \in {"open", "stop", "close:stop", "close:wait", "close"}
       => graph_state[g] # "STARTED"
  /\ call[g].op = "remove:stop" /\ sg_start_mask[call[g].node] # {}
       => call[g].node \in call[g].todo
  /\ call[g].op = "remove:wait" => sg_start_mask[call[g].node] = {}
  /\ call[g].op = "remove" => \A n \in call[g].todo : sg_start_mask[n] = {}

Follows(s) ==
  /\ start_ref_cnt[s] = Cardinality(Starters(s))
  /\ start_ref_cnt[s] > 0 => spf[s] = "RUNNING" \/ HalfSuspended(s)
  /\ spf[s] = "RUNNING" => Starters(s) # {}

GoneIsNotStarted == \A s \in SG : open_ref_cnt[s] = 0 => start_ref_cnt[s] = 0

FollowInv ==
  /\ SsLockHeld /\ GoneIsNotStarted
  /\ \A g \in Graph : InPlace(g) /\ Asks(g) /\ (StartsDoNotFail => ByState(g))
  /\ StartsDoNotFail => \A s \in SG \ astray : Follows(s)

\* What a node holds is counted, and what nobody holds nobody has started.
HeldCounted == \A n \in Node : \A s \in sg_array[n] : s \in SG /\ open_ref_cnt[s] # 0
AllInPlace == \A g \in Graph : InPlace(g)
GoneHasNoStarters == \A s \in SG : open_ref_cnt[s] = 0 => Starters(s) = {}

\* A subgraph that a node holds has an open reference,
LEMMA HeldIsCounted == TypeInv /\ OpenRefsExact => HeldCounted
PROOF
  <1> SUFFICES ASSUME TypeInv, OpenRefsExact, NEW n \in Node, NEW s \in sg_array[n]
               PROVE  s \in SG /\ open_ref_cnt[s] # 0
    BY DEF HeldCounted
  <1>1. s \in SG /\ n \in Holders(s)
    BY DEF Holders, TypeInv, TypeOK
  <1> QED
    BY <1>1, HoldersFinite, FS_EmptySet DEF OpenRefsExact

\* so one without references is started by nobody.
LEMMA StartedIsHeld == TypeInv /\ OpenRefsExact /\ AllInPlace => GoneHasNoStarters
PROOF
  <1> SUFFICES ASSUME TypeInv, OpenRefsExact, AllInPlace PROVE GoneHasNoStarters
    OBVIOUS
  <1>1. \A n \in Node : sg_start_mask[n] \subseteq sg_array[n]
    BY DEF AllInPlace, InPlace, Node
  <1> QED
    BY <1>1, HeldIsCounted DEF HeldCounted, GoneHasNoStarters, Starters

\* A step of the call on g leaves the nodes of other handles alone.
Frame(g) ==
  /\ \A h \in Graph \ {g} : /\ call'[h] = call[h] /\ graph_state'[h] = graph_state[h]
                             /\ pruned_sgids'[h] = pruned_sgids[h]
  /\ \A n \in Node : n[1] # g =>
       /\ n \in gkv_list' <=> n \in gkv_list
       /\ sg_array'[n] = sg_array[n]
       /\ sg_start_mask'[n] = sg_start_mask[n] /\ sg_stop_mask'[n] = sg_stop_mask[n]

SsLockMoves(g) ==
  \/ /\ UNCHANGED start_stop_lock
     /\ call'[g].op \in SsOp <=> call[g].op \in SsOp
  \/ /\ start_stop_lock \in {g, Free} /\ start_stop_lock' \in {g, Free}
     /\ call'[g].op \in SsOp <=> start_stop_lock' = g

\* As many nodes have started s as before: the same, or one in place of another.
SameStarters(s) ==
  \/ Starters(s)' = Starters(s)
  \/ \E a \in Starters(s), b \in Node \ Starters(s) :
       Starters(s)' = (Starters(s) \ {a}) \cup {b}

\* A step that counts no start: what it takes from the pool nobody holds any more, it
\* runs nothing, and it stops only what nobody has started or a suspend lets go of.
Beside(g, lost) ==
  /\ Frame(g) /\ SsLockMoves(g) /\ InPlace(g)' /\ Asks(g)'
  /\ \A s \in SG : \/ start_ref_cnt'[s] = start_ref_cnt[s] /\ stop_ref_cnt'[s] = stop_ref_cnt[s]
                   \/ start_ref_cnt'[s] = 0 /\ open_ref_cnt'[s] = 0
  /\ \A s \in SG : open_ref_cnt'[s] = 0 => open_ref_cnt[s] = 0 \/ start_ref_cnt'[s] = 0
  /\ \A s \in astray \cup lost : s \in astray' \/ (open_ref_cnt'[s] = 0 /\ spf'[s] # "RUNNING")
  /\ \A s \in SG : \/ spf'[s] = spf[s]
                   \/ spf'[s] = "CLOSED" /\ open_ref_cnt'[s] = 0
                   \/ spf'[s] = "STOPPED" /\ (Starters(s) = {} \/ HalfSuspended(s)')
  /\ StartsDoNotFail => /\ ByState(g)' /\ ~Waiting(g, "suspend", "SUSPEND")
                        /\ \A s \in SG \ (astray \cup lost) : SameStarters(s)

\* The masks stay in place if no node's masks and subgraphs change.
LEMMA FrameInPlace ==
  ASSUME TypeInv, TypeInv', NEW g \in Graph, Frame(g), NEW h \in Graph \ {g}
  PROVE  /\ InPlace(h) => InPlace(h)'
         /\ ByState(h) /\ InPlace(h) => ByState(h)'
PROOF
  <1>1. /\ call'[h] = call[h] /\ graph_state'[h] = graph_state[h]
        /\ pruned_sgids'[h] = pruned_sgids[h]
        /\ \A n \in Node : n[1] = h =>
             /\ n \in gkv_list' <=> n \in gkv_list
             /\ sg_array'[n] = sg_array[n]
             /\ sg_start_mask'[n] = sg_start_mask[n] /\ sg_stop_mask'[n] = sg_stop_mask[n]
    BY DEF Frame
  <1>2. /\ call[h].todo \subseteq {n \in Node : n[1] = h}
        /\ \/ call[h].cmd # NoCmd \/ call[h].op \in {"remove:stop", "remove:wait"}
           => call[h].node \in {n \in Node : n[1] = h}
    BY CallFacts
  <1>3. LinkedCall(call[h]) => LinkedCall(call[h])'
    BY <1>1, <1>2 DEF LinkedCall
  <1>4. InPlace(h) => InPlace(h)'
    BY <1>1, <1>3 DEF InPlace
  <1>5. ByState(h) => ByState(h)'
    BY <1>1, <1>2 DEF ByState
  <1> QED
    BY <1>4, <1>5

\* The lists another handle's call asks SPF about stay as they are while its node's
\* subgraphs keep their counts.
LEMMA AskedListStays ==
  ASSUME NEW n, sg_array'[n] = sg_array[n], sg_start_mask'[n] = sg_start_mask[n],
         sg_start_mask[n] \subseteq sg_array[n],
         \A s \in sg_array[n] : /\ start_ref_cnt'[s] = start_ref_cnt[s]
                                /\ stop_ref_cnt'[s] = stop_ref_cnt[s],
         NEW op, NEW cmd
  PROVE  /\ AskedList(op, cmd, n)' = AskedList(op, cmd, n)
         /\ StopInsteadList(n)' = StopInsteadList(n)
PROOF
  <1>1. /\ StartList(n)' = StartList(n) /\ StopInsteadList(n)' = StopInsteadList(n)
        /\ SuspendList(n)' = SuspendList(n) /\ StopList(op, n)' = StopList(op, n)
    BY DEF StartList, StopInsteadList, SuspendList, OnlyStarter, StopList, Scope
  <1> QED
    BY <1>1 DEF AskedList

\* A call that waits for the answer to a start, suspend or stop.
LEMMA AskingFacts ==
  ASSUME TypeInv, NEW h \in Graph, InPlace(h), Asks(h),
         call[h].cmd \in {"START", "SUSPEND", "STOP"}
  PROVE  /\ call[h].op \in SsOp /\ call[h].node \in gkv_list
         /\ call[h].node \in Node /\ call[h].node[1] = h
         /\ sg_start_mask[call[h].node] \subseteq sg_array[call[h].node]
PROOF
  <1>1. call[h].op \in SsOp \ (OpeningOp \cup {"change"}) /\ call[h].cmd # NoCmd
    BY DEF Asks, SsOp, StoppingOp, OpeningOp, NoCmd
  <1> QED
    BY <1>1, CallFacts DEF InPlace, LinkedCall

\* The same starters are counted the same.
LEMMA SameStartersCount ==
  ASSUME NEW s \in SG, SameStarters(s)
  PROVE  /\ Cardinality(Starters(s)') = Cardinality(Starters(s))
         /\ Starters(s) # {} => Starters(s)' # {}
PROOF
  <1>1. CASE Starters(s)' = Starters(s)
    BY <1>1
  <1>2. ASSUME NEW a \in Starters(s), NEW b \in Node \ Starters(s),
               Starters(s)' = (Starters(s) \ {a}) \cup {b}
        PROVE  Cardinality(Starters(s)') = Cardinality(Starters(s)) /\ Starters(s)' # {}
    <2> PICK T : T = Starters(s) \ {a}
      OBVIOUS
    <2>1. IsFiniteSet(Starters(s)) /\ Cardinality(Starters(s)) \in Nat
      BY StartersFinite
    <2>2. IsFiniteSet(T) /\ Cardinality(T) = Cardinality(Starters(s)) - 1
      BY <1>2, <2>1, FS_RemoveElement
    <2>3. b \notin T
      BY <1>2
    <2>4. Cardinality(T \cup {b}) = Cardinality(T) + 1
      BY <2>2, <2>3, FS_AddElement
    <2> QED
      BY <1>2, <2>1, <2>2, <2>4
  <1> QED
    BY <1>1, <1>2 DEF SameStarters

\* A step that leaves the masks, the counts and what SPF runs alone keeps every count.
LEMMA BesideKeeps ==
  ASSUME ChangeSharingInv, ChangeSharingInv', FollowInv, NEW g \in Graph,
         NEW lost \in SUBSET SG, Beside(g, lost)
  PROVE  FollowInv'
PROOF
  <1> USE DEF FollowInv
  <1>0. TypeInv /\ TypeInv' /\ OpenRefsExact' /\ Frame(g)
    BY DEF ChangeSharingInv, SharingInv, Beside
  <1>1. SsLockHeld'
    BY <1>0, FreeIsNoGraph DEF Beside, SsLockMoves, SsLockHeld, Frame
  <1>2. AllInPlace' /\ \A h \in Graph : InPlace(h)'
    BY <1>0, FrameInPlace DEF Beside, AllInPlace
  <1>10. GoneHasNoStarters'
    BY <1>0, <1>2, StartedIsHeld, PTL
  <1>3. \A n \in Node : \A s \in sg_array'[n] :
          start_ref_cnt'[s] = start_ref_cnt[s] /\ stop_ref_cnt'[s] = stop_ref_cnt[s]
    <2>1. HeldCounted'
      BY <1>0, HeldIsCounted, PTL
    <2> QED
      BY <2>1 DEF HeldCounted, Beside
  <1>4. ASSUME NEW h \in Graph \ {g}, call[h].cmd \in {"START", "SUSPEND", "STOP"}
        PROVE  /\ AskedList(call[h].op, call[h].cmd, call[h].node)'
                    = AskedList(call[h].op, call[h].cmd, call[h].node)
               /\ StopInsteadList(call[h].node)' = StopInsteadList(call[h].node)
               /\ call'[h] = call[h]
    <2> PICK n, op, cmd : n = call[h].node /\ op = call[h].op /\ cmd = call[h].cmd
      OBVIOUS
    <2>1. n \in Node /\ n[1] = h /\ sg_start_mask[n] \subseteq sg_array[n]
      BY <1>0, <1>4, AskingFacts
    <2>2. /\ sg_array'[n] = sg_array[n] /\ sg_start_mask'[n] = sg_start_mask[n]
          /\ call'[h] = call[h]
      BY <1>0, <2>1 DEF Frame
    <2>3. /\ AskedList(op, cmd, n)' = AskedList(op, cmd, n)
          /\ StopInsteadList(n)' = StopInsteadList(n)
      BY <1>3, <2>1, <2>2, AskedListStays
    <2>4. /\ AskedList(call[h].op, call[h].cmd, call[h].node)' = AskedList(op, cmd, n)'
          /\ StopInsteadList(call[h].node)' = StopInsteadList(n)'
      BY <2>2
    <2> QED
      BY <2>2, <2>3, <2>4
  <1>5. \A s \in SG : spf'[s] = "RUNNING" => spf[s] = "RUNNING"
    BY DEF Beside
  <1>6. \A h \in Graph : Asks(h)'
    <2> SUFFICES ASSUME NEW h \in Graph, h # g PROVE Asks(h)'
      BY DEF Beside
    <2>1. call'[h] = call[h]
      BY <1>0 DEF Frame
    <2>2. CASE call[h].cmd \in {"START", "SUSPEND", "STOP"}
      <3>1. \A s \in StopInsteadList(call[h].node) : s \in SG
        BY <1>0, <2>2, AskingFacts DEF StopInsteadList, OnlyStarter, TypeInv, TypeOK
      <3> QED
        BY <1>4, <1>5, <2>1, <2>2, <3>1 DEF Asks, Waiting
    <2>3. CASE call[h].cmd \notin {"START", "SUSPEND", "STOP"}
      BY <2>1, <2>3 DEF Asks, Waiting
    <2> QED
      BY <2>2, <2>3
  <1>7. GoneIsNotStarted'
    BY DEF Beside, GoneIsNotStarted
  <1>8. ASSUME StartsDoNotFail PROVE \A h \in Graph : ByState(h)'
    BY <1>0, <1>8, FrameInPlace DEF Beside
  <1>9. ASSUME StartsDoNotFail, NEW s \in SG \ astray' PROVE Follows(s)'
    <2>1. CASE open_ref_cnt'[s] = 0 /\ spf'[s] # "RUNNING"
      <3>1. Starters(s)' = {}
        BY <1>10, <2>1 DEF GoneHasNoStarters
      <3>2. start_ref_cnt'[s] = 0
        BY <1>7, <2>1 DEF GoneIsNotStarted
      <3>3. start_ref_cnt'[s] = Cardinality(Starters(s)')
        BY <3>1, <3>2, FS_EmptySet
      <3> QED
        BY <2>1, <3>2, <3>3 DEF Follows
    <2>2. CASE ~(open_ref_cnt'[s] = 0 /\ spf'[s] # "RUNNING")
      <3>1. s \notin astray \cup lost
        BY <1>9, <2>2 DEF Beside
      <3>2. Follows(s) /\ SameStarters(s)
        BY <1>9, <3>1 DEF Beside
      <3>3. /\ Cardinality(Starters(s)') = Cardinality(Starters(s))
            /\ Starters(s) # {} => Starters(s)' # {}
        BY <3>2, SameStartersCount
      <3>4. spf'[s] = "RUNNING" => Starters(s)' # {}
        BY <1>5, <3>2, <3>3 DEF Follows
      <3>5. CASE open_ref_cnt'[s] = 0
        <4>1. Starters(s)' = {}
          BY <1>10, <3>5 DEF GoneHasNoStarters
        <4> QED
          BY <2>2, <3>4, <3>5, <4>1
      <3>6. CASE open_ref_cnt'[s] # 0
        <4>1. start_ref_cnt'[s] = start_ref_cnt[s]
          BY <3>6 DEF Beside
        <4>2. start_ref_cnt'[s] = Cardinality(Starters(s)')
          BY <3>2, <3>3, <4>1 DEF Follows
        <4>3. ASSUME start_ref_cnt'[s] > 0 PROVE spf'[s] = "RUNNING" \/ HalfSuspended(s)'
          <5>1. spf[s] = "RUNNING" \/ HalfSuspended(s)
            BY <3>2, <4>1, <4>3 DEF Follows
          <5>2. CASE spf[s] = "RUNNING"
            <6>1. Starters(s) # {}
              BY <3>2, <5>2 DEF Follows
            <6> QED
              BY <3>6, <5>2, <6>1 DEF Beside
          <5>3. CASE HalfSuspended(s)
            <6>1. PICK h \in Graph : /\ Waiting(h, "suspend", "SUSPEND")
                                     /\ s \in StopInsteadList(call[h].node)
              BY <5>3 DEF HalfSuspended
            <6>2. h # g
              BY <1>9, <6>1 DEF Beside
            <6>3. /\ StopInsteadList(call[h].node)' = StopInsteadList(call[h].node)
                  /\ call'[h] = call[h]
              BY <1>4, <6>1, <6>2 DEF Waiting
            <6> QED
              BY <6>1, <6>3 DEF HalfSuspended, Waiting
          <5> QED
            BY <5>1, <5>2, <5>3
        <4> QED
          BY <3>4, <4>2, <4>3 DEF Follows
      <3> QED
        BY <3>5, <3>6
    <2> QED
      BY <2>1, <2>2
  <1> QED
    BY <1>1, <1>2, <1>6, <1>7, <1>8, <1>9

\* A step that counts starts and stops moves the count of a subgraph with the bit of its
\* node, and what is counted afterwards is what runs.
Counted(n, s) ==
  /\ s \in sg_start_mask'[n] \ sg_start_mask[n] => start_ref_cnt'[s] = start_ref_cnt[s] + 1
  /\ s \in sg_start_mask[n] \ sg_start_mask'[n] => start_ref_cnt'[s] = start_ref_cnt[s] - 1
  /\ (s \in sg_start_mask'[n] <=> s \in sg_start_mask[n])
       => start_ref_cnt'[s] = start_ref_cnt[s]
  /\ start_ref_cnt'[s] > 0 => spf'[s] = "RUNNING"
  /\ spf'[s] = "RUNNING" => Starters(s)' # {}

OnlyOfNode(n) ==
  /\ \A m \in Node \ {n} : sg_start_mask'[m] = sg_start_mask[m]
                          /\ sg_stop_mask'[m] = sg_stop_mask[m]
  /\ sg_start_mask'[n] \cup sg_stop_mask'[n] \subseteq sg_array[n]

\* A subgraph whose start the call has counted follows its starters.
LEMMA CountedFollows ==
  ASSUME TypeInv, NEW n \in Node, OnlyOfNode(n), NEW s \in SG, Follows(s), Counted(n, s)
  PROVE  Follows(s)'
PROOF
  <1>1. /\ IsFiniteSet(Starters(s)) /\ Cardinality(Starters(s)) \in Nat
        /\ start_ref_cnt[s] = Cardinality(Starters(s))
    BY StartersFinite DEF Follows
  <1>2. start_ref_cnt'[s] = Cardinality(Starters(s)')
    <2>1. CASE s \in sg_start_mask'[n] \ sg_start_mask[n]
      <3>1. Starters(s)' = Starters(s) \cup {n} /\ n \notin Starters(s)
        BY <2>1 DEF Starters, OnlyOfNode
      <3>2. Cardinality(Starters(s)') = Cardinality(Starters(s)) + 1
        BY <1>1, <3>1, FS_AddElement
      <3>3. start_ref_cnt'[s] = start_ref_cnt[s] + 1
        BY <2>1 DEF Counted
      <3> QED
        BY <1>1, <3>2, <3>3
    <2>2. CASE s \in sg_start_mask[n] \ sg_start_mask'[n]
      <3>1. Starters(s)' = Starters(s) \ {n} /\ n \in Starters(s)
        BY <2>2 DEF Starters, OnlyOfNode
      <3>2. Cardinality(Starters(s)') = Cardinality(Starters(s)) - 1
        BY <1>1, <3>1, FS_RemoveElement
      <3>3. start_ref_cnt'[s] = start_ref_cnt[s] - 1
        BY <2>2 DEF Counted
      <3> QED
        BY <1>1, <3>2, <3>3
    <2>3. CASE s \in sg_start_mask'[n] <=> s \in sg_start_mask[n]
      <3>1. Starters(s)' = Starters(s)
        BY <2>3 DEF Starters, OnlyOfNode
      <3>2. start_ref_cnt'[s] = start_ref_cnt[s]
        BY <2>3 DEF Counted
      <3> QED
        BY <1>1, <3>1, <3>2
    <2> QED
      BY <2>1, <2>2, <2>3
  <1> QED
    BY <1>2 DEF Counted, Follows

\* A call that counts at one node keeps the invariant of the start counts.
LEMMA CountingKeeps ==
  ASSUME ChangeSharingInv, ChangeSharingInv', FollowInv, NEW g \in Graph,
         start_stop_lock = g, call[g].op \in SsOp, NEW n \in gkv_list, n[1] = g,
         NextNode(g, n), OnlyOfNode(n),
         UNCHANGED <<graph_state, gkv_list, sg_array, open_ref_cnt, start_stop_lock,
                     pruned_sgids>>,
         \A s \in astray : s \in astray' \/ (open_ref_cnt'[s] = 0 /\ spf'[s] # "RUNNING"),
         \A s \in SG \ sg_array[n] : start_ref_cnt'[s] = start_ref_cnt[s],
         call[g].op # "start" => sg_start_mask'[n] \subseteq sg_start_mask[n],
         call[g].op \in {"stop", "close:stop", "remove:stop"} => sg_start_mask'[n] = {},
         StartsDoNotFail => \A s \in SG \ astray : Counted(n, s)
  PROVE  FollowInv'
PROOF
  <1> USE DEF FollowInv
  <1>0. TypeInv /\ TypeInv' /\ OpenRefsExact /\ OpenRefsExact' /\ n \in Node
    BY DEF ChangeSharingInv, SharingInv, TypeInv, TypeOK
  <1>1. /\ \A h \in Graph \ {g} : call'[h] = call[h]
        /\ call'[g].op = call[g].op /\ call'[g].todo = call[g].todo \ {n}
        /\ call'[g].cmd = NoCmd
        /\ call[g].op = "remove:stop" => call'[g].node = n
    BY <1>0 DEF NextNode, SetCall, Call, TypeInv, TypeOK
  <1>2. Frame(g)
    BY <1>1 DEF Frame, OnlyOfNode
  <1>3. SsLockHeld'
    BY <1>1 DEF SsLockHeld
  <1>4. InPlace(g)'
    <2>1. LinkedCall(call[g])'
      BY <1>1 DEF InPlace, LinkedCall, SsOp, OpeningOp
    <2>2. \A m \in Node \ {n} : m[1] = g /\ m \notin gkv_list =>
            sg_start_mask[m] \cup sg_stop_mask[m] = {}
      BY DEF InPlace, SsOp
    <2>3. ASSUME NEW m \in Node, m[1] = g
          PROVE  /\ sg_start_mask'[m] \cup sg_stop_mask'[m] \subseteq sg_array[m]
                 /\ m \notin gkv_list => sg_start_mask'[m] \cup sg_stop_mask'[m] = {}
      BY <2>2, <2>3 DEF OnlyOfNode, InPlace
    <2> QED
      BY <2>1, <2>3 DEF InPlace
  <1>5. AllInPlace' /\ \A h \in Graph : InPlace(h)'
    BY <1>0, <1>2, <1>4, FrameInPlace DEF AllInPlace
  <1>6. \A h \in Graph : Asks(h)'
    <2>1. \A h \in Graph \ {g} : call[h].op \notin SsOp
      BY DEF SsLockHeld
    <2>2. \A h \in Graph \ {g} : call[h].cmd \notin {"START", "SUSPEND", "STOP"}
      BY <1>0, <2>1, AskingFacts
    <2> QED
      BY <1>1, <2>1, <2>2 DEF Asks, Waiting, NoCmd, SsOp
  <1>7. GoneIsNotStarted'
    <2>1. \A s \in SG : open_ref_cnt[s] = 0 => s \notin sg_array[n]
      BY <1>0, HeldIsCounted DEF HeldCounted
    <2> QED
      BY <2>1 DEF GoneIsNotStarted
  <1>8. ASSUME StartsDoNotFail PROVE \A h \in Graph : ByState(h)'
    <2>1. ByState(g)'
      <3>1. ASSUME NEW m \in Node, m[1] = g, sg_start_mask'[m] # {}
            PROVE  \/ graph_state[g] = "STARTED" \/ call[g].op = "start"
                   \/ call[g].op \in {"stop", "close:stop"} /\ m \in call[g].todo \ {n}
        <4>1. CASE m = n
          BY <1>8, <3>1, <4>1 DEF ByState
        <4>2. CASE m # n
          BY <1>8, <3>1, <4>2 DEF ByState, OnlyOfNode
        <4> QED
          BY <4>1, <4>2
      <3> QED
        BY <1>1, <1>8, <3>1 DEF ByState, SsOp
    <2> QED
      BY <1>0, <1>2, <1>8, <2>1, FrameInPlace
  <1>9. ASSUME StartsDoNotFail, NEW s \in SG \ astray' PROVE Follows(s)'
    <2>1. CASE s \in astray
      <3>1. open_ref_cnt'[s] = 0 /\ spf'[s] # "RUNNING"
        BY <1>9, <2>1
      <3>2. GoneHasNoStarters'
        BY <1>0, <1>5, StartedIsHeld, PTL
      <3>3. Starters(s)' = {} /\ start_ref_cnt'[s] = 0
        BY <1>7, <3>1, <3>2 DEF GoneHasNoStarters, GoneIsNotStarted
      <3>4. start_ref_cnt'[s] = Cardinality(Starters(s)')
        BY <3>3, FS_EmptySet
      <3> QED
        BY <3>1, <3>3, <3>4 DEF Follows
    <2>2. CASE s \notin astray
      BY <1>0, <1>9, <2>2, CountedFollows
    <2> QED
      BY <2>1, <2>2
  <1> QED
    BY <1>3, <1>5, <1>6, <1>7, <1>8, <1>9

\* What is started is counted; a count of one is of one node only.
LEMMA FollowedStarts ==
  ASSUME TypeInv, NEW s \in SG, Follows(s), NEW n \in Node, s \in sg_start_mask[n]
  PROVE  /\ start_ref_cnt[s] \in Nat \ {0}
         /\ start_ref_cnt[s] # 1 => \E m \in Node \ {n} : s \in sg_start_mask[m]
         /\ start_ref_cnt[s] = 1 => \A m \in Node : s \in sg_start_mask[m] => m = n
PROOF
  <1>1. n \in Starters(s) /\ IsFiniteSet(Starters(s)) /\ Cardinality(Starters(s)) \in Nat
    BY StartersFinite DEF Starters
  <1>2. start_ref_cnt[s] = Cardinality(Starters(s)) /\ Cardinality(Starters(s)) # 0
    BY <1>1, FS_EmptySet DEF Follows
  <1>3. ASSUME start_ref_cnt[s] # 1 PROVE \E m \in Node \ {n} : s \in sg_start_mask[m]
    <2>1. Starters(s) # {n}
      BY <1>2, <1>3, FS_Singleton
    <2> QED
      BY <1>1, <2>1 DEF Starters
  <1>4. ASSUME start_ref_cnt[s] = 1, NEW m \in Node, s \in sg_start_mask[m] PROVE m = n
    <2>1. PICK h : Starters(s) = {h}
      BY <1>1, <1>2, <1>4, FS_Singleton
    <2> QED
      BY <1>1, <1>4, <2>1 DEF Starters
  <1> QED
    BY <1>1, <1>2, <1>3, <1>4

\* What is counted runs, as far as the call with the lock can tell.
LEMMA FollowedRuns ==
  ASSUME TypeInv, FollowInv, NEW g \in Graph, start_stop_lock = g, NEW s \in SG, Follows(s),
         start_ref_cnt[s] > 0
  PROVE  \/ spf[s] = "RUNNING"
         \/ Waiting(g, "suspend", "SUSPEND") /\ s \in StopInsteadList(call[g].node)
PROOF
  <1>1. ASSUME NEW h \in Graph, Waiting(h, "suspend", "SUSPEND") PROVE h = g
    BY <1>1 DEF Waiting, SsOp, FollowInv, SsLockHeld
  <1> QED
    BY <1>1 DEF Follows, HalfSuspended

-----------------------------------------------------------------------------
(* Changes and partial closes: what each step does to the start counts. *)

\* Counting the starts, the suspends and the stops of a node.
LEMMA StartedCounted ==
  ASSUME TypeInv, FollowInv, NEW g \in Graph, start_stop_lock = g, call[g].op = "start",
         NEW n \in Node, sg_start_mask[n] \subseteq sg_array[n], CountStarted(n),
         \/ UNCHANGED spf /\ StartList(n) = {}
         \/ SpfDoes(StartList(n), "RUNNING"),
         NEW s \in SG, Follows(s)
  PROVE  Counted(n, s)
PROOF
  <1>1. /\ sg_start_mask'[n] = sg_array[n]
        /\ \A m \in Node : sg_start_mask[m] \subseteq sg_start_mask'[m]
        /\ start_ref_cnt'[s] = IF s \in sg_array[n] \ sg_start_mask[n]
                               THEN start_ref_cnt[s] + 1 ELSE start_ref_cnt[s]
    BY DEF CountStarted, Bump, TypeInv, TypeOK
  <1>2. start_ref_cnt[s] \in Nat
    BY DEF TypeInv, TypeOK
  <1>3. CASE s \in StartList(n)
    <2>1. spf'[s] = "RUNNING" /\ s \in sg_array[n]
      BY <1>3 DEF SpfDoes, StartList
    <2> QED
      BY <1>1, <2>1 DEF Counted, Starters
  <1>4. CASE s \notin StartList(n)
    <2>1. spf'[s] = spf[s] /\ (s \in sg_array[n] => start_ref_cnt[s] # 0)
      BY <1>4 DEF SpfDoes, StartList
    <2>2. start_ref_cnt[s] # 0 => spf[s] = "RUNNING"
      BY <1>2, FollowedRuns DEF Waiting
    <2>3. start_ref_cnt'[s] > 0 => spf'[s] = "RUNNING"
      BY <1>1, <1>2, <2>1, <2>2
    <2>4. spf'[s] = "RUNNING" => Starters(s)' # {}
      BY <1>1, <2>1 DEF Follows, Starters
    <2> QED
      BY <1>1, <2>3, <2>4 DEF Counted
  <1> QED
    BY <1>3, <1>4

LEMMA SuspendedCounted ==
  ASSUME TypeInv, FollowInv, NEW g \in Graph, start_stop_lock = g, NEW n \in Node,
         call[g].cmd = "SUSPEND" => call[g].node = n, CountSuspended(n),
         NEW s \in SG, Follows(s),
         IF s \in OnlyStarter(n) THEN spf'[s] # "RUNNING" ELSE spf'[s] = spf[s]
  PROVE  Counted(n, s)
PROOF
  <1>1. /\ sg_start_mask'[n] = {}
        /\ \A m \in Node \ {n} : sg_start_mask'[m] = sg_start_mask[m]
        /\ start_ref_cnt'[s] = IF s \in sg_start_mask[n] /\ start_ref_cnt[s] > 0
                               THEN start_ref_cnt[s] - 1 ELSE start_ref_cnt[s]
    BY DEF CountSuspended, Drop, TypeInv, TypeOK
  <1>2. /\ start_ref_cnt[s] \in Nat
        /\ s \in sg_start_mask[n] =>
             /\ start_ref_cnt[s] # 0
             /\ start_ref_cnt[s] # 1 => \E m \in Node \ {n} : s \in sg_start_mask[m]
    BY FollowedStarts DEF TypeInv, TypeOK
  <1>3. CASE s \in OnlyStarter(n)
    <2>1. s \in sg_start_mask[n] /\ start_ref_cnt[s] = 1 /\ spf'[s] # "RUNNING"
      BY <1>3 DEF OnlyStarter
    <2> QED
      BY <1>1, <2>1 DEF Counted
  <1>4. CASE s \notin OnlyStarter(n)
    <2>1. spf'[s] = spf[s] /\ (s \in sg_start_mask[n] => start_ref_cnt[s] # 1)
      BY <1>4 DEF OnlyStarter
    <2>2. start_ref_cnt[s] # 0 => spf[s] = "RUNNING"
      BY <1>2, <1>4, FollowedRuns DEF Waiting, StopInsteadList
    <2>3. start_ref_cnt'[s] > 0 => spf'[s] = "RUNNING"
      BY <1>1, <1>2, <2>1, <2>2
    <2>4. spf'[s] = "RUNNING" => Starters(s)' # {}
      BY <1>1, <1>2, <2>1 DEF Follows, Starters
    <2>5. s \in sg_start_mask[n] => start_ref_cnt'[s] = start_ref_cnt[s] - 1
      BY <1>1, <1>2
    <2>6. s \notin sg_start_mask[n] => start_ref_cnt'[s] = start_ref_cnt[s]
      BY <1>1
    <2>7. s \notin sg_start_mask'[n]
      BY <1>1
    <2> QED
      BY <2>3, <2>4, <2>5, <2>6, <2>7 DEF Counted
  <1> QED
    BY <1>3, <1>4

LEMMA StoppedCounted ==
  ASSUME TypeInv, FollowInv, NEW g \in Graph, start_stop_lock = g,
         NEW op \in StoppingOp, call[g].op = op, NEW n \in Node, CountStopped(op, n),
         \/ UNCHANGED spf /\ StopList(op, n) = {}
         \/ SpfDoes(StopList(op, n), "STOPPED"),
         NEW s \in SG, Follows(s)
  PROVE  Counted(n, s)
PROOF
  <1>1. /\ sg_start_mask'[n] = sg_start_mask[n] \ Scope(op, n)
        /\ \A m \in Node \ {n} : sg_start_mask'[m] = sg_start_mask[m]
        /\ start_ref_cnt'[s] =
             IF s \in Scope(op, n) /\ s \in sg_start_mask[n] /\ start_ref_cnt[s] > 0
             THEN start_ref_cnt[s] - 1 ELSE start_ref_cnt[s]
    BY DEF CountStopped, Drop, TypeInv, TypeOK
  <1>2. /\ start_ref_cnt[s] \in Nat
        /\ s \in sg_start_mask[n] =>
             /\ start_ref_cnt[s] # 0
             /\ start_ref_cnt[s] # 1 => \E m \in Node \ {n} : s \in sg_start_mask[m]
    BY FollowedStarts DEF TypeInv, TypeOK
  <1>3. /\ s \in sg_start_mask[n] \ sg_start_mask'[n]
             => start_ref_cnt'[s] = start_ref_cnt[s] - 1
        /\ s \notin sg_start_mask'[n] \ sg_start_mask[n]
        /\ (s \in sg_start_mask'[n] <=> s \in sg_start_mask[n])
             => start_ref_cnt'[s] = start_ref_cnt[s]
    BY <1>1, <1>2
  <1>4. CASE s \in StopList(op, n)
    <2>1. /\ s \in Scope(op, n) /\ start_ref_cnt[s] \in {0, 1}
          /\ start_ref_cnt[s] = 1 => s \in sg_start_mask[n]
      BY <1>4 DEF StopList
    <2>2. start_ref_cnt'[s] = 0
      BY <1>1, <2>1
    <2>3. spf'[s] # "RUNNING"
      BY <1>4 DEF SpfDoes
    <2> QED
      BY <1>3, <2>2, <2>3 DEF Counted
  <1>5. CASE s \notin StopList(op, n)
    <2>1. /\ spf'[s] = spf[s]
          /\ s \in Scope(op, n) /\ s \in sg_start_mask[n] => start_ref_cnt[s] # 1
      BY <1>5 DEF SpfDoes, StopList
    <2>2. start_ref_cnt[s] # 0 => spf[s] = "RUNNING"
      BY <1>2, FollowedRuns DEF Waiting, StoppingOp
    <2>3. start_ref_cnt'[s] > 0 => spf'[s] = "RUNNING"
      BY <1>1, <1>2, <2>1, <2>2
    <2>4. spf'[s] = "RUNNING" => Starters(s)' # {}
      BY <1>1, <1>2, <2>1 DEF Follows, Starters
    <2> QED
      BY <1>3, <2>3, <2>4 DEF Counted
  <1> QED
    BY <1>4, <1>5

\* What is lost is astray, until it is gone.
LEMMA NotingKeeps ==
  ASSUME TypeInv', ChangeVarsType, NEW stays, NEW lost \in SUBSET SG, Noting(stays, lost)
  PROVE  \A s \in astray \cup lost :
           s \in astray' \/ (open_ref_cnt'[s] = 0 /\ spf'[s] # "RUNNING")
PROOF
  <1>1. \A s \in astray \cup lost : s \in SG /\ open_ref_cnt'[s] \in Nat
    BY DEF ChangeVarsType, TypeInv, TypeOK
  <1>2. \A s \in astray \cup lost : open_ref_cnt'[s] > 0 \/ open_ref_cnt'[s] = 0
    BY <1>1
  <1> QED
    BY <1>2 DEF Noting

\* The call that has start_stop_lock, and its nodes.
LEMMA SsHolds ==
  ASSUME TypeInv, FollowInv, NEW g \in Graph, call[g].op \in SsOp
  PROVE  /\ start_stop_lock = g
         /\ call[g].todo \subseteq {n \in gkv_list : n[1] = g}
         /\ call[g].cmd # NoCmd => call[g].node \in {n \in gkv_list : n[1] = g}
         /\ call[g].cmd \in {"START", "SUSPEND", "STOP"}
              => call[g].sgs = AskedList(call[g].op, call[g].cmd, call[g].node)
         /\ gkv_list \subseteq Node
         /\ \A n \in Node :
               n[1] = g => sg_start_mask[n] \cup sg_stop_mask[n] \subseteq sg_array[n]
PROOF
  <1>1. LinkedCall(call[g]) /\ call[g].op \notin OpeningOp \cup {"change"}
    BY DEF FollowInv, InPlace, SsOp, OpeningOp
  <1>2. call[g].cmd # NoCmd => call[g].node[1] = g
    BY CallFacts
  <1>3. \A n \in call[g].todo : n \in gkv_list /\ n[1] = g
    BY <1>1, CallFacts DEF LinkedCall
  <1> QED
    BY <1>1, <1>2, <1>3
       DEF FollowInv, SsLockHeld, LinkedCall, InPlace, Asks, TypeInv, TypeOK

CountsOf(g, n) ==
  /\ call[g].op \in SsOp /\ n \in gkv_list /\ n[1] = g
  /\ NextNode(g, n)
  /\ UNCHANGED <<graph_state, gkv_list, sg_array, locks, pruned_sgids>>
  /\ NothingAstray

\* The starts, suspends and stops keep the invariant when they count.
LEMMA StartCountKeeps ==
  ASSUME ChangeSharingInv, ChangeSharingInv', FollowInv, NEW g \in Graph, NEW n,
         call[g].op = "start", CountsOf(g, n), CountStarted(n),
         \/ UNCHANGED spf /\ StartList(n) = {}
         \/ SpfDoes(StartList(n), "RUNNING")
  PROVE  FollowInv'
PROOF
  <1> USE DEF CountsOf, locks
  <1>0. TypeInv /\ TypeInv' /\ ChangeVarsType
    BY DEF ChangeSharingInv
  <1>1. n \in Node /\ start_stop_lock = g /\ sg_start_mask[n] \subseteq sg_array[n]
    BY <1>0, SsHolds
  <1>2. \A s \in astray : s \in astray' \/ (open_ref_cnt'[s] = 0 /\ spf'[s] # "RUNNING")
    BY <1>0, NotingKeeps DEF NothingAstray
  <1>3. /\ OnlyOfNode(n) /\ UNCHANGED open_ref_cnt
        /\ \A s \in SG \ sg_array[n] : start_ref_cnt'[s] = start_ref_cnt[s]
    BY <1>0, <1>1 DEF CountStarted, Bump, OnlyOfNode, TypeInv, TypeOK
  <1>4. ASSUME StartsDoNotFail, NEW s \in SG \ astray PROVE Counted(n, s)
    BY <1>0, <1>1, <1>4, StartedCounted DEF FollowInv
  <1> QED
    BY <1>1, <1>2, <1>3, <1>4, CountingKeeps

LEMMA SuspendCountKeeps ==
  ASSUME ChangeSharingInv, ChangeSharingInv', FollowInv, NEW g \in Graph, NEW n,
         call[g].op = "suspend", CountsOf(g, n), CountSuspended(n),
         call[g].cmd = "SUSPEND" => call[g].node = n,
         \A s \in SG : IF s \in OnlyStarter(n) THEN spf'[s] # "RUNNING"
                                               ELSE spf'[s] = spf[s]
  PROVE  FollowInv'
PROOF
  <1> USE DEF CountsOf, locks
  <1>0. TypeInv /\ TypeInv' /\ ChangeVarsType
    BY DEF ChangeSharingInv
  <1>1. /\ n \in Node /\ start_stop_lock = g
        /\ sg_start_mask[n] \cup sg_stop_mask[n] \subseteq sg_array[n]
    BY <1>0, SsHolds
  <1>2. \A s \in astray : s \in astray' \/ (open_ref_cnt'[s] = 0 /\ spf'[s] # "RUNNING")
    BY <1>0, NotingKeeps DEF NothingAstray
  <1>3. /\ OnlyOfNode(n) /\ UNCHANGED open_ref_cnt /\ sg_start_mask'[n] = {}
        /\ \A s \in SG \ sg_array[n] : start_ref_cnt'[s] = start_ref_cnt[s]
    BY <1>0, <1>1 DEF CountSuspended, Drop, OnlyOfNode, TypeInv, TypeOK
  <1>4. ASSUME StartsDoNotFail, NEW s \in SG \ astray PROVE Counted(n, s)
    BY <1>0, <1>1, <1>4, SuspendedCounted DEF FollowInv
  <1> QED
    BY <1>1, <1>2, <1>3, <1>4, CountingKeeps

LEMMA StopCountKeeps ==
  ASSUME ChangeSharingInv, ChangeSharingInv', FollowInv, NEW g \in Graph, NEW n,
         NEW op \in StoppingOp, call[g].op = op, CountsOf(g, n), CountStopped(op, n),
         \/ UNCHANGED spf /\ StopList(op, n) = {}
         \/ SpfDoes(StopList(op, n), "STOPPED")
  PROVE  FollowInv'
PROOF
  <1> USE DEF CountsOf, locks
  <1>0. TypeInv /\ TypeInv' /\ ChangeVarsType
    BY DEF ChangeSharingInv
  <1>1. /\ n \in Node /\ start_stop_lock = g
        /\ sg_start_mask[n] \cup sg_stop_mask[n] \subseteq sg_array[n]
        /\ Scope(op, n) \subseteq sg_array[n]
        /\ op # "stop_props" => Scope(op, n) = sg_array[n]
    BY <1>0, SsHolds DEF Scope
  <1>2. \A s \in astray : s \in astray' \/ (open_ref_cnt'[s] = 0 /\ spf'[s] # "RUNNING")
    BY <1>0, NotingKeeps DEF NothingAstray
  <1>3. /\ OnlyOfNode(n) /\ UNCHANGED open_ref_cnt
        /\ sg_start_mask'[n] = sg_start_mask[n] \ Scope(op, n)
        /\ \A s \in SG \ sg_array[n] : start_ref_cnt'[s] = start_ref_cnt[s]
    BY <1>0, <1>1 DEF CountStopped, Drop, OnlyOfNode, TypeInv, TypeOK
  <1>4. ASSUME StartsDoNotFail, NEW s \in SG \ astray PROVE Counted(n, s)
    BY <1>0, <1>1, <1>4, StoppedCounted DEF FollowInv
  <1>5. op # "stop_props" => sg_start_mask'[n] = {}
    BY <1>1, <1>3
  <1> QED
    BY <1>1, <1>2, <1>3, <1>4, <1>5, CountingKeeps DEF StoppingOp

\* A call that asks SPF about one of its nodes.
LEMMA AskFollows ==
  ASSUME ChangeSharingInv, ChangeSharingInv', FollowInv, NEW g \in Graph,
         NEW n \in call[g].todo, NEW cmd \in SpfCmd, NEW sgs, SendSpfCmd(g, n, cmd, sgs),
         UNCHANGED <<graph_state, gkv_list, sg_array, masks, pool, locks, pruned_sgids>>,
         call[g].op # "remove:wait",
         \A s \in astray : s \in astray' \/ (open_ref_cnt'[s] = 0 /\ spf'[s] # "RUNNING"),
         cmd \in {"START", "SUSPEND", "STOP"} =>
           /\ \/ call[g].op = "start" /\ cmd = "START"
              \/ call[g].op = "suspend" /\ cmd \in {"STOP", "SUSPEND"}
              \/ call[g].op \in StoppingOp /\ cmd = "STOP"
           /\ sgs = AskedList(call[g].op, cmd, n),
         cmd = "SUSPEND" => \A s \in StopInsteadList(n) : spf'[s] # "RUNNING",
         ~Waiting(g, "suspend", "SUSPEND"),
         \A s \in SG : \/ spf'[s] = spf[s]
                       \/ /\ spf'[s] = "STOPPED"
                          /\ \/ Starters(s) = {}
                             \/ cmd = "SUSPEND" /\ s \in StopInsteadList(n)
  PROVE  FollowInv'
PROOF
  <1> USE DEF masks, pool, locks
  <1>0. TypeInv /\ TypeInv'
    BY DEF ChangeSharingInv
  <1>1. /\ \A h \in Graph \ {g} : call'[h] = call[h]
        /\ call'[g].op = call[g].op /\ call'[g].todo = call[g].todo
        /\ call'[g].node = n /\ call'[g].cmd = cmd /\ call'[g].sgs = sgs
    BY <1>0 DEF SendSpfCmd, SetCall, TypeInv, TypeOK
  <1>2. \A s : Starters(s)' = Starters(s)
    BY DEF Starters
  <1>3. /\ AskedList(call[g].op, cmd, n)' = AskedList(call'[g].op, cmd, n)
        /\ StopInsteadList(n)' = StopInsteadList(n)
    BY DEF AskedList, StartList, StopInsteadList, SuspendList, OnlyStarter, StopList, Scope
  <1>4. AskedList(call[g].op, call[g].cmd, call[g].node)' = AskedList(call[g].op, cmd, n)
    BY <1>1 DEF AskedList, StartList, StopInsteadList, SuspendList, OnlyStarter, StopList,
                Scope
  <1>5. StopInsteadList(call[g].node)' = StopInsteadList(n)
    BY <1>1 DEF StopInsteadList, OnlyStarter
  <1>6. Asks(g)'
    <2>1. call'[g].cmd \in {"START", "SUSPEND", "STOP"} =>
            /\ \/ call'[g].op = "start" /\ call'[g].cmd = "START"
               \/ call'[g].op = "suspend" /\ call'[g].cmd \in {"STOP", "SUSPEND"}
               \/ call'[g].op \in StoppingOp /\ call'[g].cmd = "STOP"
            /\ call'[g].sgs = AskedList(call[g].op, call[g].cmd, call[g].node)'
      BY <1>1, <1>4
    <2>2. Waiting(g, "suspend", "SUSPEND")' =>
            \A s \in StopInsteadList(call[g].node)' : spf'[s] # "RUNNING"
      BY <1>1, <1>5 DEF Waiting
    <2> QED
      BY <2>1, <2>2 DEF Asks
  <1>7. InPlace(g)'
    <2>1. LinkedCall(call[g])'
      BY <1>1 DEF FollowInv, InPlace, LinkedCall
    <2> QED
      BY <1>1, <2>1 DEF FollowInv, InPlace
  <1>8. SsLockMoves(g)
    BY <1>1 DEF SsLockMoves
  <1>9. Frame(g)
    BY <1>1 DEF Frame
  <1>10. ASSUME StartsDoNotFail PROVE ByState(g)'
    BY <1>1, <1>10 DEF FollowInv, ByState
  <1>11. ASSUME NEW s \in SG, cmd = "SUSPEND", s \in StopInsteadList(n) PROVE HalfSuspended(s)'
    <2>1. call[g].op = "suspend"
      BY <1>11 DEF StoppingOp
    <2>2. Waiting(g, "suspend", "SUSPEND")'
      BY <1>1, <1>11, <2>1 DEF Waiting
    <2> QED
      BY <1>5, <1>11, <2>2 DEF HalfSuspended
  <1>12. \A s \in SG : SameStarters(s)
    BY <1>2 DEF SameStarters
  <1>13. Beside(g, {})
    BY <1>6, <1>7, <1>8, <1>9, <1>10, <1>11, <1>12 DEF Beside
  <1> QED
    BY <1>13, BesideKeeps

\* A call that begins, goes on or ends without an answer to wait for.
LEMMA MoveFollows ==
  ASSUME ChangeSharingInv, ChangeSharingInv', FollowInv, NEW g \in Graph,
         NEW c, SetCall(g, c), c.cmd = NoCmd, c.op # "change", call[g].op # "change",
         LinkedCall(c), SsLockMoves(g),
         UNCHANGED <<gkv_list, sg_array, masks, pool, spf, pruned_sgids>>,
         \A h \in Graph \ {g} : graph_state'[h] = graph_state[h],
         \A s \in astray : s \in astray' \/ (open_ref_cnt'[s] = 0 /\ spf'[s] # "RUNNING"),
         StartsDoNotFail => ByState(g)' /\ ~Waiting(g, "suspend", "SUSPEND")
  PROVE  FollowInv'
PROOF
  <1> USE DEF masks, pool
  <1>0. TypeInv /\ TypeInv'
    BY DEF ChangeSharingInv
  <1>1. /\ \A h \in Graph \ {g} : call'[h] = call[h]
        /\ call'[g] = c
    BY <1>0 DEF SetCall, TypeInv, TypeOK
  <1>2. \A s \in SG : SameStarters(s)
    BY DEF Starters, SameStarters
  <1>3. Asks(g)'
    BY <1>1 DEF Asks, Waiting, NoCmd
  <1>4. InPlace(g)'
    <2>1. LinkedCall(call[g])'
      BY <1>1 DEF LinkedCall
    <2> QED
      BY <1>1, <2>1 DEF FollowInv, InPlace
  <1>5. Frame(g)
    BY <1>1 DEF Frame
  <1>6. Beside(g, {})
    BY <1>2, <1>3, <1>4, <1>5 DEF Beside
  <1> QED
    BY <1>6, BesideKeeps

\* A step of GslGraph, in which no subgraph goes astray.
Plainly == /\ ChangeSharingInv /\ ChangeSharingInv' /\ FollowInv
           /\ NothingAstray /\ UNCHANGED pruned_sgids

\* What a call that is not a change or a partial close may assume.
LEMMA PlainlyFacts ==
  ASSUME Plainly
  PROVE  /\ TypeInv /\ TypeInv'
         /\ \A s \in astray : s \in astray' \/ (open_ref_cnt'[s] = 0 /\ spf'[s] # "RUNNING")
PROOF
  <1>1. TypeInv /\ TypeInv' /\ ChangeVarsType
    BY DEF Plainly, ChangeSharingInv
  <1> QED
    BY <1>1, NotingKeeps DEF Plainly, NothingAstray

\* The calls of GslGraph keep the start counts: start,
LEMMA StartFollows ==
  ASSUME Plainly, NEW g \in Graph,
         \/ Start(g) \/ StartNode(g) \/ StartOk(g) \/ StartFailed(g) \/ StartDone(g)
  PROVE  FollowInv'
PROOF
  <1> USE PlainlyFacts DEF Plainly
  <1>0. StartsDoNotFail => ByState(g)
    BY DEF FollowInv
  <1>1. CASE Start(g)
    <2> DEFINE c == Call("start", NodesOf(g), NoNode)
    <2>1. /\ call[g].op = "idle" /\ SetCall(g, c)
          /\ start_stop_lock = Free /\ start_stop_lock' = g
          /\ UNCHANGED <<graph_state, gkv_list, sg_array, masks, pool, spf>>
      BY <1>1 DEF Start, TakeSs, IsIdle
    <2>2. call'[g] = c
      BY <2>1 DEF SetCall, TypeInv, TypeOK
    <2>3. c.op = "start" /\ c.cmd = NoCmd /\ LinkedCall(c)
      BY DEF Call, LinkedCall, NodesOf
    <2> HIDE DEF c
    <2>4. SsLockMoves(g)
      BY <2>1, <2>2, <2>3 DEF SsLockMoves, SsOp
    <2>5. ByState(g)' /\ ~Waiting(g, "suspend", "SUSPEND")
      BY <2>1, <2>2, <2>3 DEF ByState, Waiting
    <2> QED
      BY <2>1, <2>3, <2>4, <2>5, MoveFollows
  <1>2. CASE StartNode(g)
    <2>0. PICK n \in call[g].todo : StartNode(g)!(n)
      BY <1>2 DEF StartNode
    <2>1. /\ call[g].op = "start" /\ call[g].op \in SsOp /\ call[g].cmd = NoCmd
          /\ UNCHANGED <<graph_state, gkv_list, sg_array, locks, spf>>
      BY <2>0 DEF Working, SsOp
    <2>2. n \in gkv_list /\ n[1] = g
      BY <2>1, SsHolds
    <2>3. CASE NextNode(g, n) /\ UNCHANGED <<masks, pool>>
      <3> DEFINE c == Call("start", call[g].todo \ {n}, NoNode)
      <3>1. SetCall(g, c)
        BY <2>1, <2>3 DEF NextNode
      <3>2. call'[g] = c
        BY <3>1 DEF SetCall, TypeInv, TypeOK
      <3>3. c.op = "start" /\ c.cmd = NoCmd /\ LinkedCall(c)
        BY <2>1, SsHolds DEF Call, LinkedCall
      <3> HIDE DEF c
      <3>4. SsLockMoves(g)
        BY <2>1, <3>2, <3>3 DEF SsLockMoves, locks
      <3>5. ByState(g)' /\ ~Waiting(g, "suspend", "SUSPEND")
        BY <2>1, <2>3, <3>2, <3>3 DEF ByState, Waiting
      <3> QED
        BY <2>1, <2>3, <3>1, <3>3, <3>4, <3>5, MoveFollows
    <2>4. CASE StartList(n) = {} /\ CountStarted(n) /\ NextNode(g, n)
      BY <2>1, <2>2, <2>4, StartCountKeeps DEF CountsOf
    <2>5. CASE SendSpfCmd(g, n, "START", StartList(n)) /\ UNCHANGED <<masks, pool>>
      <3>1. AskedList(call[g].op, "START", n) = StartList(n)
        BY <2>1 DEF AskedList
      <3> QED
        BY <2>1, <2>5, <3>1, AskFollows DEF Waiting, SpfCmd
    <2> QED
      BY <2>0, <2>3, <2>4, <2>5
  <1>3. CASE StartOk(g)
    <2> PICK n : n = call[g].node
      OBVIOUS
    <2>1. /\ call[g].op = "start" /\ call[g].op \in SsOp /\ call[g].cmd = "START"
          /\ UNCHANGED <<graph_state, gkv_list, sg_array, locks>>
          /\ SpfDoes(call[g].sgs, "RUNNING") /\ CountStarted(n) /\ NextNode(g, n)
      BY <1>3 DEF StartOk, Waiting, SsOp
    <2>2. n \in gkv_list /\ n[1] = g /\ call[g].sgs = StartList(n)
      BY <2>1, SsHolds DEF AskedList, NoCmd
    <2> QED
      BY <2>1, <2>2, StartCountKeeps DEF CountsOf
  <1>4. CASE StartFailed(g) \/ StartDone(g)
    <2>1. /\ call[g].op = "start" /\ call[g].op \in SsOp
          /\ SetCall(g, Idle) /\ start_stop_lock' = Free
          /\ \A h \in Graph \ {g} : graph_state'[h] = graph_state[h]
          /\ StartsDoNotFail => graph_state'[g] = "STARTED"
          /\ UNCHANGED <<gkv_list, sg_array, masks, pool, spf>>
      BY <1>4 DEF StartFailed, StartDone, Waiting, Working, SsOp, ReleaseSs, SpfMayFail,
                  StartsDoNotFail, TypeInv, TypeOK
    <2>2. call'[g] = Idle /\ start_stop_lock = g
      BY <2>1, SsHolds DEF SetCall, TypeInv, TypeOK
    <2>3. Idle.op = "idle" /\ Idle.cmd = NoCmd /\ LinkedCall(Idle)
      BY DEF Call, Idle, LinkedCall
    <2>4. SsLockMoves(g)
      BY <2>1, <2>2, <2>3, FreeIsNoGraph DEF SsLockMoves, SsOp
    <2>5. StartsDoNotFail => ByState(g)' /\ ~Waiting(g, "suspend", "SUSPEND")
      BY <2>1, <2>2, <2>3 DEF ByState, Waiting
    <2> QED
      BY <2>1, <2>3, <2>4, <2>5, MoveFollows
  <1> QED
    BY <1>1, <1>2, <1>3, <1>4

\* the rest of a suspend after SPF has answered,
LEMMA SuspendRestFollows ==
  ASSUME Plainly, NEW g \in Graph, call[g].op = "suspend", call[g].cmd # "SUSPEND",
         NEW n \in call[g].todo, SuspendRest(g, n),
         UNCHANGED <<graph_state, gkv_list, sg_array, locks>>,
         \/ UNCHANGED spf /\ StopInsteadList(n) = {}
         \/ SpfDoes(StopInsteadList(n), "STOPPED")
  PROVE  FollowInv'
PROOF
  <1> USE PlainlyFacts DEF Plainly
  <1>1. /\ call[g].op \in SsOp /\ n \in gkv_list /\ n[1] = g /\ n \in Node
        /\ sg_start_mask[n] \subseteq SG
    BY SsHolds DEF SsOp, TypeInv, TypeOK
  <1>2. CASE SuspendList(n) = {} /\ CountSuspended(n) /\ NextNode(g, n)
    <2>1. StopInsteadList(n) = OnlyStarter(n)
      <3>1. \A s \in OnlyStarter(n) : stop_ref_cnt[s] \in Nat
        BY <1>1 DEF OnlyStarter, TypeInv, TypeOK
      <3>2. \A s \in OnlyStarter(n) : stop_ref_cnt[s] = 0 \/ stop_ref_cnt[s] > 0
        BY <3>1
      <3> QED
        BY <1>2, <3>2 DEF SuspendList, StopInsteadList
    <2>2. \A s \in SG : IF s \in OnlyStarter(n) THEN spf'[s] # "RUNNING"
                                                ELSE spf'[s] = spf[s]
      BY <2>1 DEF SpfDoes
    <2> QED
      BY <1>1, <1>2, <2>2, SuspendCountKeeps DEF CountsOf
  <1>3. CASE SendSpfCmd(g, n, "SUSPEND", SuspendList(n)) /\ UNCHANGED <<masks, pool>>
    <2>1. AskedList(call[g].op, "SUSPEND", n) = SuspendList(n)
      BY DEF AskedList
    <2>2. StopInsteadList(n) \subseteq SG
      BY <1>1 DEF StopInsteadList, OnlyStarter
    <2>3. /\ \A s \in StopInsteadList(n) : spf'[s] # "RUNNING"
          /\ \A s \in SG : spf'[s] = spf[s] \/ (spf'[s] = "STOPPED" /\ s \in StopInsteadList(n))
      BY <2>2 DEF SpfDoes
    <2> QED
      BY <1>3, <2>1, <2>3, AskFollows DEF Waiting, SpfCmd
  <1> QED
    BY <1>2, <1>3 DEF SuspendRest

\* suspend,
LEMMA SuspendFollows ==
  ASSUME Plainly, NEW g \in Graph,
         \/ Suspend(g) \/ SuspendNode(g) \/ StopInsteadOk(g) \/ SuspendOk(g)
         \/ SuspendFailed(g) \/ SuspendDone(g)
  PROVE  FollowInv'
PROOF
  <1> USE PlainlyFacts DEF Plainly
  <1>0. StartsDoNotFail => ByState(g)
    BY DEF FollowInv
  <1> PICK n : n = call[g].node
    OBVIOUS
  <1>00. call[g].cmd # NoCmd => n \in call[g].todo
    BY DEF ChangeSharingInv, ChangesInv, AboutTodo
  <1>1. CASE Suspend(g)
    <2> DEFINE c == Call("suspend", {m \in NodesOf(g) : sg_start_mask[m] # {}}, NoNode)
    <2>1. /\ call[g].op = "idle" /\ SetCall(g, c) /\ graph_state[g] = "STARTED"
          /\ start_stop_lock = Free /\ start_stop_lock' = g
          /\ UNCHANGED <<graph_state, gkv_list, sg_array, masks, pool, spf>>
      BY <1>1 DEF Suspend, TakeSs, IsIdle
    <2>2. call'[g] = c
      BY <2>1 DEF SetCall, TypeInv, TypeOK
    <2>3. c.op = "suspend" /\ c.cmd = NoCmd /\ LinkedCall(c)
      BY DEF Call, LinkedCall, NodesOf
    <2> HIDE DEF c
    <2>4. SsLockMoves(g)
      BY <2>1, <2>2, <2>3 DEF SsLockMoves, SsOp
    <2>5. ByState(g)' /\ ~Waiting(g, "suspend", "SUSPEND")
      BY <2>1, <2>2, <2>3 DEF ByState, Waiting
    <2> QED
      BY <2>1, <2>3, <2>4, <2>5, MoveFollows
  <1>2. CASE SuspendNode(g)
    <2>0. PICK m \in call[g].todo : SuspendNode(g)!(m)
      BY <1>2 DEF SuspendNode
    <2>1. /\ call[g].op = "suspend" /\ call[g].cmd = NoCmd
          /\ UNCHANGED <<graph_state, gkv_list, sg_array, locks, spf>>
      BY <2>0 DEF Working
    <2>2. CASE StopInsteadList(m) = {} /\ SuspendRest(g, m)
      BY <2>1, <2>2, SuspendRestFollows DEF NoCmd
    <2>3. CASE SendSpfCmd(g, m, "STOP", StopInsteadList(m)) /\ UNCHANGED <<masks, pool>>
      <3>1. AskedList(call[g].op, "STOP", m) = StopInsteadList(m)
        BY <2>1 DEF AskedList
      <3> QED
        BY <2>1, <2>3, <3>1, AskFollows DEF Waiting, SpfCmd, NoCmd
    <2> QED
      BY <2>0, <2>2, <2>3
  <1>3. CASE StopInsteadOk(g)
    <2>1. /\ call[g].op = "suspend" /\ call[g].op \in SsOp /\ call[g].cmd = "STOP"
          /\ UNCHANGED <<graph_state, gkv_list, sg_array, locks>>
          /\ SpfDoes(call[g].sgs, "STOPPED") /\ SuspendRest(g, n)
      BY <1>3 DEF StopInsteadOk, Waiting, SsOp
    <2>2. call[g].sgs = StopInsteadList(n)
      BY <2>1, SsHolds DEF AskedList
    <2> QED
      BY <1>00, <2>1, <2>2, SuspendRestFollows DEF NoCmd
  <1>4. CASE SuspendOk(g)
    <2>1. /\ call[g].op = "suspend" /\ call[g].op \in SsOp /\ call[g].cmd = "SUSPEND"
          /\ UNCHANGED <<graph_state, gkv_list, sg_array, locks>>
          /\ SpfDoes(call[g].sgs, "SUSPENDED") /\ CountSuspended(n) /\ NextNode(g, n)
      BY <1>4 DEF SuspendOk, Waiting, SsOp
    <2>2. /\ n \in gkv_list /\ n[1] = g /\ n \in Node /\ call[g].sgs = SuspendList(n)
          /\ sg_start_mask[n] \subseteq SG
      BY <2>1, SsHolds DEF AskedList, NoCmd, TypeInv, TypeOK
    <2>3. \A s \in StopInsteadList(n) : spf[s] # "RUNNING"
      BY <2>1 DEF FollowInv, Asks, Waiting
    <2>4. \A s \in OnlyStarter(n) : s \in StopInsteadList(n) \/ s \in SuspendList(n)
      <3>1. \A s \in OnlyStarter(n) : stop_ref_cnt[s] \in Nat
        BY <2>2 DEF OnlyStarter, TypeInv, TypeOK
      <3>2. \A s \in OnlyStarter(n) : stop_ref_cnt[s] = 0 \/ stop_ref_cnt[s] > 0
        BY <3>1
      <3> QED
        BY <3>2 DEF SuspendList, StopInsteadList
    <2>5. SuspendList(n) \subseteq OnlyStarter(n)
      BY DEF SuspendList
    <2>6. \A s \in SG : IF s \in OnlyStarter(n) THEN spf'[s] # "RUNNING"
                                                ELSE spf'[s] = spf[s]
      BY <2>1, <2>2, <2>3, <2>4, <2>5 DEF SpfDoes
    <2> QED
      BY <2>1, <2>2, <2>6, SuspendCountKeeps DEF CountsOf
  <1>5. CASE SuspendFailed(g) \/ SuspendDone(g)
    <2>1. /\ call[g].op = "suspend" /\ call[g].op \in SsOp
          /\ SetCall(g, Idle) /\ start_stop_lock' = Free
          /\ UNCHANGED <<graph_state, gkv_list, sg_array, masks, pool, spf>>
          /\ StartsDoNotFail => call[g].cmd = NoCmd
      BY <1>5 DEF SuspendFailed, SuspendDone, SpfMayFail, Waiting, Working, SsOp,
                  ReleaseSs, StartsDoNotFail
    <2>2. call'[g] = Idle /\ start_stop_lock = g
      BY <2>1, SsHolds DEF SetCall, TypeInv, TypeOK
    <2>3. Idle.op = "idle" /\ Idle.cmd = NoCmd /\ LinkedCall(Idle)
      BY DEF Call, Idle, LinkedCall
    <2>4. SsLockMoves(g)
      BY <2>1, <2>2, <2>3, FreeIsNoGraph DEF SsLockMoves, SsOp
    <2>5. StartsDoNotFail => ByState(g)' /\ ~Waiting(g, "suspend", "SUSPEND")
      BY <1>0, <2>1, <2>2, <2>3 DEF ByState, Waiting, NoCmd, masks
    <2> QED
      BY <2>1, <2>3, <2>4, <2>5, MoveFollows
  <1> QED
    BY <1>1, <1>2, <1>3, <1>4, <1>5

\* stop,
LEMMA StopFollows ==
  ASSUME Plainly, NEW g \in Graph,
         \/ Stop(g) \/ StopWithProperties(g) \/ StopNode(g) \/ StopOk(g)
         \/ StopFailed(g) \/ StopDone(g)
  PROVE  FollowInv'
PROOF
  <1> USE PlainlyFacts DEF Plainly
  <1>0. InPlace(g) /\ (StartsDoNotFail => ByState(g))
    BY DEF FollowInv
  <1> PICK op : op = call[g].op
    OBVIOUS
  <1>1. CASE Stop(g)
    <2> DEFINE c == Call("stop", NodesOf(g), NoNode)
    <2>1. /\ call[g].op = "idle" /\ SetCall(g, c)
          /\ graph_state' = [graph_state EXCEPT ![g] = "STOPPED"]
          /\ start_stop_lock = Free /\ start_stop_lock' = g
          /\ UNCHANGED <<gkv_list, sg_array, masks, pool, spf>>
      BY <1>1 DEF Stop, TakeSs, IsIdle
    <2>2. call'[g] = c /\ graph_state'[g] = "STOPPED"
      BY <2>1 DEF SetCall, TypeInv, TypeOK
    <2>3. c.op = "stop" /\ c.cmd = NoCmd /\ c.todo = NodesOf(g) /\ LinkedCall(c)
      BY DEF Call, LinkedCall, NodesOf
    <2> HIDE DEF c
    <2>4. SsLockMoves(g)
      BY <2>1, <2>2, <2>3 DEF SsLockMoves, SsOp
    <2>5. \A n \in Node : n[1] = g /\ sg_start_mask[n] # {} => n \in NodesOf(g)
      BY <1>0, <2>1 DEF InPlace, NodesOf
    <2>6. ByState(g)' /\ ~Waiting(g, "suspend", "SUSPEND")
      BY <2>1, <2>2, <2>3, <2>5 DEF ByState, Waiting, masks
    <2>7. \A h \in Graph \ {g} : graph_state'[h] = graph_state[h]
      BY <2>1 DEF TypeInv, TypeOK
    <2> QED
      BY <2>1, <2>3, <2>4, <2>6, <2>7, MoveFollows
  <1>2. CASE StopWithProperties(g)
    <2>0. PICK n \in NodesOf(g) : StopWithProperties(g)!(n)
      BY <1>2 DEF StopWithProperties
    <2> DEFINE c == Call("stop_props", {n}, NoNode)
    <2>1. /\ call[g].op = "idle" /\ SetCall(g, c)
          /\ start_stop_lock = Free /\ start_stop_lock' = g
          /\ UNCHANGED <<graph_state, gkv_list, sg_array, masks, pool, spf>>
      BY <2>0 DEF TakeSs, IsIdle
    <2>2. call'[g] = c
      BY <2>1 DEF SetCall, TypeInv, TypeOK
    <2>3. c.op = "stop_props" /\ c.cmd = NoCmd /\ LinkedCall(c)
      BY DEF Call, LinkedCall, NodesOf
    <2> HIDE DEF c
    <2>4. SsLockMoves(g)
      BY <2>1, <2>2, <2>3 DEF SsLockMoves, SsOp
    <2>5. StartsDoNotFail => ByState(g)' /\ ~Waiting(g, "suspend", "SUSPEND")
      BY <1>0, <2>1, <2>2, <2>3 DEF ByState, Waiting, masks
    <2> QED
      BY <2>1, <2>3, <2>4, <2>5, MoveFollows
  <1>3. CASE StopNode(g)
    <2>0. PICK o \in StoppingOp, n \in call[g].todo : StopNode(g)!(o, n)
      BY <1>3 DEF StopNode
    <2>1. /\ op = o /\ call[g].op \in SsOp /\ call[g].cmd = NoCmd
          /\ UNCHANGED <<graph_state, gkv_list, sg_array, locks, spf>>
      BY <2>0 DEF Working, SsOp, StoppingOp
    <2>2. n \in gkv_list /\ n[1] = g
      BY <2>1, SsHolds
    <2>3. CASE StopList(op, n) = {} /\ CountStopped(op, n) /\ NextNode(g, n)
      BY <2>1, <2>2, <2>3, StopCountKeeps DEF CountsOf
    <2>4. CASE SendSpfCmd(g, n, "STOP", StopList(op, n)) /\ UNCHANGED <<masks, pool>>
      <3>1. AskedList(call[g].op, "STOP", n) = StopList(op, n) /\ op # "remove:wait"
        BY <2>1 DEF AskedList, StoppingOp
      <3> QED
        BY <2>1, <2>4, <3>1, AskFollows DEF Waiting, SpfCmd, NoCmd
    <2> QED
      BY <2>0, <2>1, <2>3, <2>4
  <1>4. CASE StopOk(g)
    <2>0. PICK o \in StoppingOp : StopOk(g)!(o)
      BY <1>4 DEF StopOk
    <2> PICK n : n = call[g].node
      OBVIOUS
    <2>1. /\ op = o /\ call[g].op \in SsOp /\ call[g].cmd = "STOP"
          /\ UNCHANGED <<graph_state, gkv_list, sg_array, locks>>
          /\ SpfDoes(call[g].sgs, "STOPPED") /\ CountStopped(op, n) /\ NextNode(g, n)
      BY <2>0 DEF Waiting, SsOp, StoppingOp
    <2>2. n \in gkv_list /\ n[1] = g /\ call[g].sgs = StopList(op, n)
      BY <2>1, SsHolds DEF AskedList, StoppingOp, NoCmd
    <2> QED
      BY <2>1, <2>2, StopCountKeeps DEF CountsOf
  <1>5. CASE StopFailed(g) \/ StopDone(g)
    <2> PICK c : c = AfterStop(g, op)
      OBVIOUS
    <2>1. /\ op \in StoppingOp /\ SetCall(g, c) /\ start_stop_lock' = Free
          /\ UNCHANGED <<graph_state, gkv_list, sg_array, masks, pool, spf>>
          /\ StartsDoNotFail => call[g].todo = {}
      BY <1>5 DEF StopFailed, StopDone, Waiting, Working, ReleaseSs, SpfMayFail,
                  StartsDoNotFail
    <2>2. op \in SsOp /\ call'[g] = c /\ start_stop_lock = g
      BY <2>1, SsHolds DEF SetCall, StoppingOp, SsOp, TypeInv, TypeOK
    <2>3. /\ c.op = CASE op = "close:stop" -> "close:wait"
                      [] op = "remove:stop" -> "remove:wait" [] OTHER -> "idle"
          /\ c.cmd = NoCmd /\ c.todo = {}
          /\ op = "remove:stop" => c.node = call[g].node
      BY DEF AfterStop, Call, Idle
    <2>4. LinkedCall(c)
      BY <1>0, <2>1, <2>3 DEF InPlace, LinkedCall, StoppingOp, OpeningOp
    <2>5. SsLockMoves(g)
      BY <2>1, <2>2, <2>3, FreeIsNoGraph DEF SsLockMoves, SsOp, StoppingOp
    <2>6. StartsDoNotFail => ByState(g)' /\ ~Waiting(g, "suspend", "SUSPEND")
      BY <1>0, <2>1, <2>2, <2>3 DEF ByState, Waiting, masks, StoppingOp
    <2> QED
      BY <2>1, <2>3, <2>4, <2>5, <2>6, MoveFollows DEF StoppingOp
  <1> QED
    BY <1>1, <1>2, <1>3, <1>4, <1>5

\* What the pool gives up with references: the counts of what nobody holds any more.
LEMMA PoolRemoveBeside ==
  ASSUME TypeInv, NEW sgs \in SUBSET SG, PoolRemove(sgs)
  PROVE  /\ \A s \in SG : \/ /\ start_ref_cnt'[s] = start_ref_cnt[s]
                             /\ stop_ref_cnt'[s] = stop_ref_cnt[s]
                          \/ start_ref_cnt'[s] = 0 /\ open_ref_cnt'[s] = 0
         /\ \A s \in SG : open_ref_cnt'[s] = 0 => open_ref_cnt[s] = 0 \/ start_ref_cnt'[s] = 0
         /\ \A s \in sgs : open_ref_cnt[s] = 1 => open_ref_cnt'[s] = 0
PROOF
  <1> SUFFICES ASSUME NEW s \in SG
               PROVE  /\ \/ /\ start_ref_cnt'[s] = start_ref_cnt[s]
                            /\ stop_ref_cnt'[s] = stop_ref_cnt[s]
                         \/ start_ref_cnt'[s] = 0 /\ open_ref_cnt'[s] = 0
                      /\ open_ref_cnt'[s] = 0 => open_ref_cnt[s] = 0 \/ start_ref_cnt'[s] = 0
                      /\ s \in sgs /\ open_ref_cnt[s] = 1 => open_ref_cnt'[s] = 0
    OBVIOUS
  <1>1. /\ open_ref_cnt[s] \in Nat
        /\ open_ref_cnt'[s] = IF s \in sgs /\ open_ref_cnt[s] > 0
                              THEN open_ref_cnt[s] - 1 ELSE open_ref_cnt[s]
        /\ s \in sgs /\ open_ref_cnt[s] <= 1 => start_ref_cnt'[s] = 0 /\ stop_ref_cnt'[s] = 0
        /\ ~(s \in sgs /\ open_ref_cnt[s] <= 1) => /\ start_ref_cnt'[s] = start_ref_cnt[s]
                                                   /\ stop_ref_cnt'[s] = stop_ref_cnt[s]
    BY DEF PoolRemove, Drop, TypeInv, TypeOK
  <1>2. CASE s \in sgs /\ open_ref_cnt[s] <= 1
    BY <1>1, <1>2
  <1>3. CASE s \in sgs /\ ~(open_ref_cnt[s] <= 1)
    BY <1>1, <1>3
  <1>4. CASE s \notin sgs
    BY <1>1, <1>4
  <1> QED
    BY <1>2, <1>3, <1>4

\* A call that waits for nothing asks for nothing.
LEMMA NotAsking ==
  ASSUME NEW g, call'[g].cmd = NoCmd
  PROVE  Asks(g)'
  BY DEF Asks, Waiting, NoCmd

\* a handle without a call has asked SPF nothing,
LEMMA IdleAsksNothing ==
  ASSUME ChangeSharingInv, FollowInv, NEW g \in Graph, call[g].op = "idle"
  PROVE  call[g].cmd = NoCmd
PROOF
  <1>1. call[g].cmd \in SpfCmd \cup {NoCmd}
    BY DEF ChangeSharingInv, TypeInv, TypeOK, CallRecord
  <1>2. call[g].cmd \notin {"OPEN", "SET_CFG", "CLOSE"}
    BY DEF ChangeSharingInv, SharingInv, WaitsForPruned, OcOp, ChangingOp
  <1>3. call[g].cmd \notin {"START", "SUSPEND", "STOP"}
    BY DEF FollowInv, Asks, StoppingOp
  <1> QED
    BY <1>1, <1>2, <1>3 DEF SpfCmd

\* A node that was being opened is linked.
LEMMA LinkFollows ==
  ASSUME ChangeSharingInv, ChangeSharingInv', FollowInv, NEW g \in Graph, NEW n \in Node,
         n[1] = g, LinkNode(g, n), UNCHANGED spf,
         \/ call[g].op \in OpeningOp /\ UNCHANGED pruned_sgids
         \/ /\ call[g].op = "change" /\ call[g].todo \ gkv_list = {n}
            /\ pruned_sgids' = [pruned_sgids EXCEPT ![g] = {}],
         \A s \in astray : s \in astray' \/ (open_ref_cnt'[s] = 0 /\ spf'[s] # "RUNNING")
  PROVE  FollowInv'
PROOF
  <1> USE DEF LinkNode, ReleaseOc, masks, pool
  <1>0. /\ TypeInv /\ TypeInv' /\ pruned_sgids \in [Graph -> SUBSET SG] /\ InPlace(g)
        /\ StartsDoNotFail => ByState(g)
    BY DEF ChangeSharingInv, ChangeVarsType, FollowInv
  <1>1. /\ \A h \in Graph \ {g} : call'[h] = call[h] /\ pruned_sgids'[h] = pruned_sgids[h]
        /\ call'[g] = Idle /\ pruned_sgids'[g] \in {pruned_sgids[g], {}}
    BY <1>0 DEF SetCall, TypeInv, TypeOK
  <1>2. Idle.op = "idle" /\ Idle.cmd = NoCmd /\ Idle.todo = {}
    BY DEF Idle, Call
  <1>3. Frame(g)
    BY <1>1 DEF Frame
  <1>4. SsLockMoves(g)
    BY <1>1, <1>2 DEF SsLockMoves, SsOp, OpeningOp
  <1>5. InPlace(g)'
    <2>1. LinkedCall(call[g])'
      BY <1>1, <1>2 DEF LinkedCall
    <2>2. ASSUME NEW m \in Node, m[1] = g, m \notin gkv_list'
          PROVE  sg_start_mask[m] \cup sg_stop_mask[m] = {}
      BY <1>0, <2>2 DEF InPlace, OpeningOp
    <2> QED
      BY <1>0, <2>1, <2>2 DEF InPlace
  <1>6. Asks(g)'
    BY <1>1, <1>2, NotAsking
  <1>7. ASSUME StartsDoNotFail PROVE ByState(g)' /\ ~Waiting(g, "suspend", "SUSPEND")
    BY <1>0, <1>1, <1>2, <1>7 DEF ByState, Waiting, OpeningOp
  <1>8. \A s \in SG : SameStarters(s)
    BY DEF SameStarters, Starters
  <1>9. Beside(g, {})
    BY <1>3, <1>4, <1>5, <1>6, <1>7, <1>8 DEF Beside
  <1> QED
    BY <1>9, BesideKeeps

\* open,
LEMMA OpenFollows ==
  ASSUME Plainly, NEW g \in Graph,
         \/ OpenEmpty(g) \/ OpenGkv(g) \/ OpenNode(g) \/ OpenOk(g) \/ CalOk(g)
         \/ CalFailed(g) \/ OpenFailed(g)
  PROVE  FollowInv'
PROOF
  <1> USE PlainlyFacts DEF Plainly
  <1>0. /\ InPlace(g) /\ (StartsDoNotFail => ByState(g))
        /\ SharingInv
    BY DEF FollowInv, ChangeSharingInv
  <1> PICK n : n = call[g].node
    OBVIOUS
  <1>00. call[g].op \in OpeningOp =>
           /\ n \in Node /\ n[1] = g /\ n \notin gkv_list /\ call[g].todo = {n}
           /\ sg_start_mask[n] = {}
           /\ call[g].op # "remove:wait" /\ ~Waiting(g, "suspend", "SUSPEND")
    BY <1>0, CallFacts DEF SharingInv, OpensUnlinked, InPlace, OpeningOp, Waiting
  <1>000. call[g].cmd \in {"OPEN", "SET_CFG", "CLOSE"} /\ call[g].op \in OpeningOp
             => call[g].sgs = Pruned(sg_array[n])
    BY <1>0 DEF SharingInv, WaitsForPruned, OpeningOp
  <1>1. CASE OpenEmpty(g)
    <2>1. /\ call[g].op = "idle" /\ graph_state[g] = "NONE"
          /\ graph_state' = [graph_state EXCEPT ![g] = "OPENED"]
          /\ UNCHANGED <<gkv_list, sg_array, masks, pool, locks, call, spf>>
      BY <1>1 DEF OpenEmpty, IsIdle
    <2>2. SetCall(g, call[g])
      BY <2>1 DEF SetCall, TypeInv, TypeOK
    <2>3. call[g].cmd = NoCmd /\ LinkedCall(call[g])
      BY <1>0, <2>1, IdleAsksNothing DEF InPlace
    <2>4. SsLockMoves(g)
      BY <2>1 DEF SsLockMoves, locks
    <2>5. StartsDoNotFail => ByState(g)' /\ ~Waiting(g, "suspend", "SUSPEND")
      BY <1>0, <2>1 DEF ByState, Waiting, masks
    <2>6. \A h \in Graph \ {g} : graph_state'[h] = graph_state[h]
      BY <2>1 DEF TypeInv, TypeOK
    <2> QED
      BY <2>1, <2>2, <2>3, <2>4, <2>5, <2>6, MoveFollows
  <1>2. CASE OpenGkv(g)
    <2>0. PICK k \in GkvOf[g] : OpenGkv(g)!(k)
      BY <1>2 DEF OpenGkv
    <2> PICK m : m = <<g, k>>
      OBVIOUS
    <2> PICK op : op = IF graph_state[g] = "NONE" THEN "open" ELSE "add"
      OBVIOUS
    <2>1. /\ call[g].op = "idle" /\ m \notin gkv_list
          /\ graph_state' = [graph_state EXCEPT ![g] = IF op = "open" THEN "OPENED" ELSE @]
          /\ sg_array' = [sg_array EXCEPT ![m] = SgsOf[k]]
          /\ open_ref_cnt' = Bump(open_ref_cnt, SgsOf[k])
          /\ call' = [call EXCEPT ![g] = Call(op, {m}, m)]
          /\ UNCHANGED <<gkv_list, masks, start_ref_cnt, stop_ref_cnt, start_stop_lock, spf>>
      BY <2>0 DEF IsIdle, SetCall
    <2>2. m \in Node /\ m[1] = g
      BY GkvOfType DEF Node
    <2>3. /\ \A h \in Graph \ {g} : call'[h] = call[h] /\ graph_state'[h] = graph_state[h]
          /\ call'[g].op = op /\ call'[g].cmd = NoCmd
          /\ \A p \in Node \ {m} : sg_array'[p] = sg_array[p]
      BY <2>1 DEF TypeInv, TypeOK, Call
    <2>4. Frame(g)
      BY <2>1, <2>2, <2>3 DEF Frame, masks
    <2>5. SsLockMoves(g)
      BY <2>1, <2>3 DEF SsLockMoves, SsOp
    <2>6. InPlace(g)'
      <3>1. LinkedCall(call[g])'
        BY <2>3 DEF LinkedCall, OpeningOp
      <3>2. sg_start_mask[m] \cup sg_stop_mask[m] = {}
        BY <1>0, <2>1, <2>2 DEF InPlace
      <3> QED
        BY <1>0, <2>1, <2>3, <3>1, <3>2 DEF InPlace, masks
    <2>7. Asks(g)'
      BY <2>3, NotAsking
    <2>8. ASSUME NEW s \in SG, open_ref_cnt'[s] = 0 PROVE open_ref_cnt[s] = 0
      <3>1. open_ref_cnt[s] \in Nat
        BY DEF TypeInv, TypeOK
      <3>2. open_ref_cnt'[s] = IF s \in SgsOf[k] THEN open_ref_cnt[s] + 1 ELSE open_ref_cnt[s]
        BY <2>1 DEF Bump
      <3> QED
        BY <2>8, <3>1, <3>2
    <2>9. ASSUME StartsDoNotFail PROVE ByState(g)' /\ ~Waiting(g, "suspend", "SUSPEND")
      <3>1. graph_state'[g] = IF op = "open" THEN "OPENED" ELSE graph_state[g]
        BY <2>1 DEF TypeInv, TypeOK
      <3>2. \/ op = "open" /\ graph_state[g] = "NONE" /\ graph_state'[g] = "OPENED"
            \/ op = "add" /\ graph_state'[g] = graph_state[g]
        BY <3>1
      <3>3. ASSUME NEW p \in Node, p[1] = g, sg_start_mask'[p] # {}
            PROVE  graph_state'[g] = "STARTED"
        <4>1. graph_state[g] = "STARTED"
          BY <1>0, <2>1, <2>9, <3>3 DEF ByState, masks
        <4> QED
          BY <3>2, <4>1
      <3>4. call'[g].op = "open" => graph_state'[g] # "STARTED"
        BY <2>3, <3>2
      <3>5. call'[g].op \in {"open", "add"}
        BY <2>3, <3>2
      <3> QED
        BY <2>1, <3>3, <3>4, <3>5 DEF ByState, Waiting
    <2>10. \A s \in SG : SameStarters(s)
      BY <2>1 DEF SameStarters, Starters, masks
    <2>11. Beside(g, {})
      BY <2>1, <2>4, <2>5, <2>6, <2>7, <2>8, <2>9, <2>10 DEF Beside
    <2> QED
      BY <2>11, BesideKeeps
  <1>3. CASE OpenNode(g)
    <2>0. PICK op \in OpeningOp, m \in call[g].todo : OpenNode(g)!(op, m)
      BY <1>3 DEF OpenNode
    <2>1. call[g].op \in OpeningOp /\ m = n /\ UNCHANGED spf
      BY <1>00, <2>0 DEF Working
    <2>2. CASE LinkNode(g, m)
      BY <1>00, <2>1, <2>2, LinkFollows
    <2>3. CASE /\ SendSpfCmd(g, m, "OPEN", Pruned(sg_array[m]))
               /\ UNCHANGED <<graph_state, gkv_list, sg_array, masks, pool, locks>>
      BY <1>00, <2>1, <2>3, AskFollows DEF SpfCmd
    <2> QED
      BY <2>0, <2>2, <2>3
  <1>4. CASE OpenOk(g)
    <2>0. PICK op \in OpeningOp : OpenOk(g)!(op)
      BY <1>4 DEF OpenOk
    <2>1. /\ call[g].op \in OpeningOp /\ call[g].sgs = Pruned(sg_array[n])
          /\ SpfDoes(call[g].sgs, "STOPPED")
      BY <1>000, <2>0 DEF Waiting
    <2>2. CASE call[g].sgs = {} /\ LinkNode(g, n)
      <3>1. UNCHANGED spf
        BY <2>1, <2>2 DEF SpfDoes, TypeInv, TypeOK
      <3> QED
        BY <1>00, <2>1, <2>2, <3>1, LinkFollows
    <2>3. CASE /\ SendSpfCmd(g, n, "SET_CFG", call[g].sgs)
               /\ UNCHANGED <<graph_state, gkv_list, sg_array, masks, pool, locks>>
      <3>1. ASSUME NEW s \in SG, s \in call[g].sgs PROVE Starters(s) = {}
        <4>1. ASSUME NEW m \in Node, s \in sg_start_mask[m] PROVE m = n
          <5>1. s \in sg_array[m]
            <6>1. m[1] \in Graph
              BY DEF Node
            <6> QED
              BY <4>1, <6>1 DEF FollowInv, InPlace
          <5> QED
            BY <1>0, <1>00, <2>1, <3>1, <5>1, PrunedIsOwn DEF SharingInv
        <4> QED
          BY <1>00, <2>1, <4>1 DEF Starters
      <3>2. \A s \in SG : spf'[s] = spf[s] \/ (spf'[s] = "STOPPED" /\ Starters(s) = {})
        BY <2>1, <3>1 DEF SpfDoes
      <3> QED
        BY <1>00, <2>1, <2>3, <3>2, AskFollows DEF SpfCmd
    <2> QED
      BY <2>0, <2>2, <2>3
  <1>5. CASE CalOk(g)
    <2>1. call[g].op \in OpeningOp /\ LinkNode(g, n) /\ UNCHANGED spf
      BY <1>5 DEF CalOk, Waiting
    <2> QED
      BY <1>00, <2>1, LinkFollows
  <1>6. CASE CalFailed(g)
    <2>1. /\ call[g].op \in OpeningOp /\ SendSpfCmd(g, n, "CLOSE", call[g].sgs)
          /\ UNCHANGED <<graph_state, gkv_list, sg_array, masks, pool, locks, spf>>
      BY <1>6 DEF CalFailed, Waiting
    <2> QED
      BY <1>00, <2>1, AskFollows DEF SpfCmd
  <1>7. CASE OpenFailed(g)
    <2>0. PICK op \in OpeningOp : OpenFailed(g)!(op)
      BY <1>7 DEF OpenFailed
    <2>1. /\ call[g].op = op /\ UndoOpen(g, op) /\ call[g].sgs = Pruned(sg_array[n])
          /\ UNCHANGED spf \/ SpfDoes(call[g].sgs, "CLOSED")
      BY <1>000, <2>0 DEF Waiting
    <2>2. /\ PoolRemove(sg_array[n]) /\ sg_array' = [sg_array EXCEPT ![n] = {}]
          /\ graph_state' = [graph_state EXCEPT ![g] = IF op = "open" THEN "NONE" ELSE @]
          /\ call' = [call EXCEPT ![g] = Idle]
          /\ UNCHANGED <<gkv_list, masks, start_stop_lock>>
      BY <2>1 DEF UndoOpen, ReleaseOc, SetCall
    <2>3. /\ \A h \in Graph \ {g} : call'[h] = call[h] /\ graph_state'[h] = graph_state[h]
          /\ call'[g].op = "idle" /\ call'[g].cmd = NoCmd /\ call'[g].todo = {}
          /\ graph_state'[g] = IF op = "open" THEN "NONE" ELSE graph_state[g]
          /\ \A p \in Node \ {n} : sg_array'[p] = sg_array[p]
          /\ sg_array[n] \in SUBSET SG
      BY <1>00, <2>1, <2>2 DEF TypeInv, TypeOK, Call, Idle
    <2>4. Frame(g)
      BY <1>00, <2>1, <2>2, <2>3 DEF Frame, masks
    <2>5. SsLockMoves(g)
      BY <2>1, <2>2, <2>3 DEF SsLockMoves, SsOp, OpeningOp
    <2>6. InPlace(g)'
      <3>1. LinkedCall(call[g])'
        BY <2>3 DEF LinkedCall
      <3>2. sg_start_mask[n] \cup sg_stop_mask[n] = {} /\ call[g].op # "change"
        BY <1>0, <1>00, <2>1 DEF InPlace, OpeningOp
      <3> QED
        BY <1>0, <2>2, <2>3, <3>1, <3>2 DEF InPlace, masks
    <2>7. Asks(g)'
      BY <2>3, NotAsking
    <2>8. \A s \in SG : spf'[s] = spf[s] \/ (spf'[s] = "CLOSED" /\ open_ref_cnt'[s] = 0)
      BY <2>1, <2>2, <2>3, PoolRemoveBeside DEF SpfDoes, Pruned
    <2>9. ASSUME StartsDoNotFail PROVE ByState(g)' /\ ~Waiting(g, "suspend", "SUSPEND")
      BY <1>0, <1>00, <2>1, <2>2, <2>3, <2>9 DEF ByState, masks, OpeningOp
    <2>10. \A s \in SG : SameStarters(s)
      BY <2>2 DEF SameStarters, Starters, masks
    <2>11. Beside(g, {})
      BY <2>2, <2>3, <2>4, <2>5, <2>6, <2>7, <2>8, <2>9, <2>10, PoolRemoveBeside DEF Beside
    <2> QED
      BY <2>11, BesideKeeps
  <1> QED
    BY <1>1, <1>2, <1>3, <1>4, <1>5, <1>6, <1>7

\* A node is unlinked and freed: it has no start bits left.
LEMMA FreeFollows ==
  ASSUME Plainly, NEW g \in Graph, call[g].op \in ClosingOp, NEW n \in call[g].todo,
         FreeNode(g, n), UNCHANGED <<graph_state, locks>>,
         UNCHANGED spf \/ SpfDoes(Pruned(sg_array[n]), "CLOSED")
  PROVE  FollowInv'
PROOF
  <1> USE PlainlyFacts DEF Plainly, locks
  <1>0. InPlace(g) /\ (StartsDoNotFail => ByState(g))
    BY DEF FollowInv
  <1>1. n \in Node /\ n[1] = g /\ n \in gkv_list /\ sg_array[n] \in SUBSET SG
    BY <1>0, CallFacts DEF InPlace, LinkedCall, ClosingOp, OpeningOp, TypeInv, TypeOK
  <1>2. /\ \A h \in Graph \ {g} : call'[h] = call[h]
        /\ call'[g].op = call[g].op /\ call'[g].todo = call[g].todo \ {n}
        /\ call'[g].cmd = NoCmd
        /\ gkv_list' = gkv_list \ {n} /\ PoolRemove(sg_array[n])
    BY DEF FreeNode, NextNode, SetCall, Call, TypeInv, TypeOK
  <1>3. /\ \A m \in Node \ {n} : /\ sg_array'[m] = sg_array[m]
                                 /\ sg_start_mask'[m] = sg_start_mask[m]
                                 /\ sg_stop_mask'[m] = sg_stop_mask[m]
        /\ sg_array'[n] = {} /\ sg_start_mask'[n] = {} /\ sg_stop_mask'[n] = {}
    BY <1>1 DEF FreeNode, TypeInv, TypeOK
  <1>4. Frame(g)
    BY <1>1, <1>2, <1>3 DEF Frame
  <1>5. SsLockMoves(g)
    BY <1>2 DEF SsLockMoves
  <1>6. InPlace(g)'
    <2>1. LinkedCall(call[g])'
      BY <1>0, <1>2 DEF InPlace, LinkedCall, ClosingOp, OpeningOp
    <2> QED
      BY <1>0, <1>2, <1>3, <2>1 DEF InPlace, ClosingOp
  <1>7. Asks(g)'
    BY <1>2, NotAsking
  <1>8. \A s \in SG : spf'[s] = spf[s] \/ (spf'[s] = "CLOSED" /\ open_ref_cnt'[s] = 0)
    BY <1>1, <1>2, PoolRemoveBeside DEF SpfDoes, Pruned
  <1>9. ASSUME StartsDoNotFail PROVE sg_start_mask[n] = {}
    BY <1>0, <1>1, <1>9 DEF ByState, ClosingOp
  <1>10. ASSUME StartsDoNotFail PROVE ByState(g)' /\ ~Waiting(g, "suspend", "SUSPEND")
    BY <1>0, <1>2, <1>3, <1>10, CallFacts DEF ByState, Waiting, ClosingOp
  <1>11. ASSUME StartsDoNotFail, NEW s \in SG PROVE SameStarters(s)
    BY <1>3, <1>9, <1>11 DEF SameStarters, Starters
  <1>12. Beside(g, {})
    BY <1>1, <1>2, <1>4, <1>5, <1>6, <1>7, <1>8, <1>10, <1>11, PoolRemoveBeside DEF Beside
  <1> QED
    BY <1>12, BesideKeeps

\* gsl_graph_remove_old begins with the stop of its node, or without.
LEMMA RemoveFollows ==
  ASSUME ChangeSharingInv, ChangeSharingInv', FollowInv, NEW g \in Graph,
         call[g].op = "idle", NEW n \in NodesOf(g), NEW op, NEW todo,
         \/ op = "remove:stop" /\ todo = {n} /\ start_stop_lock' = g
         \/ /\ op = "remove:wait" /\ todo = {} /\ start_stop_lock' = Free
            /\ sg_start_mask[n] = {},
         start_stop_lock = Free, SetCall(g, Call(op, todo, n)),
         UNCHANGED <<graph_state, gkv_list, sg_array, masks, pool, spf, pruned_sgids>>,
         \A s \in astray : s \in astray' \/ (open_ref_cnt'[s] = 0 /\ spf'[s] # "RUNNING")
  PROVE  FollowInv'
PROOF
  <1>0. TypeInv /\ (StartsDoNotFail => ByState(g))
    BY DEF FollowInv, ChangeSharingInv
  <1> PICK c : c = Call(op, todo, n)
    OBVIOUS
  <1>1. call'[g] = c
    BY <1>0 DEF SetCall, TypeInv, TypeOK
  <1>2. c.op = op /\ c.cmd = NoCmd /\ c.todo = todo /\ c.node = n /\ LinkedCall(c)
    BY DEF Call, LinkedCall, NodesOf
  <1>3. SsLockMoves(g)
    BY <1>1, <1>2, FreeIsNoGraph DEF SsLockMoves, SsOp
  <1>4. StartsDoNotFail => ByState(g)' /\ ~Waiting(g, "suspend", "SUSPEND")
    BY <1>0, <1>1, <1>2 DEF ByState, Waiting, masks
  <1> QED
    BY <1>1, <1>2, <1>3, <1>4, MoveFollows

\* and close.
LEMMA CloseFollows ==
  ASSUME Plainly, NEW g \in Graph,
         \/ Close(g) \/ RemoveGraph(g) \/ EnterClose(g) \/ CloseNode(g)
         \/ CloseAnswered(g) \/ CloseDone(g)
  PROVE  FollowInv'
PROOF
  <1> USE PlainlyFacts DEF Plainly
  <1>0. InPlace(g) /\ (StartsDoNotFail => ByState(g)) /\ SharingInv
    BY DEF FollowInv, ChangeSharingInv
  <1>1. CASE Close(g)
    <2>0. call[g].op = "idle"
      BY <1>1 DEF Close, IsIdle
    <2>1. \A n \in Node : n[1] = g /\ sg_start_mask[n] # {} => n \in NodesOf(g)
      BY <1>0, <2>0 DEF InPlace, NodesOf
    <2>2. ASSUME graph_state' = [graph_state EXCEPT ![g] = "STOPPED"],
                 TakeSs(g, "close:stop", NodesOf(g))
          PROVE  FollowInv'
      <3> PICK c : c = Call("close:stop", NodesOf(g), NoNode)
        OBVIOUS
      <3>1. /\ SetCall(g, c) /\ start_stop_lock = Free /\ start_stop_lock' = g
            /\ UNCHANGED <<gkv_list, sg_array, masks, pool, spf>>
        BY <2>2 DEF TakeSs
      <3>2. /\ call'[g] = c /\ graph_state'[g] = "STOPPED"
            /\ \A h \in Graph \ {g} : graph_state'[h] = graph_state[h]
        BY <2>2, <3>1 DEF SetCall, TypeInv, TypeOK
      <3>3. c.op = "close:stop" /\ c.cmd = NoCmd /\ c.todo = NodesOf(g) /\ LinkedCall(c)
        BY DEF Call, LinkedCall, NodesOf
      <3>4. SsLockMoves(g)
        BY <2>0, <3>1, <3>2, <3>3 DEF SsLockMoves, SsOp
      <3>5. ByState(g)' /\ ~Waiting(g, "suspend", "SUSPEND")
        BY <2>0, <2>1, <3>1, <3>2, <3>3 DEF ByState, Waiting, masks
      <3> QED
        BY <2>0, <3>1, <3>2, <3>3, <3>4, <3>5, MoveFollows
    <2>3. ASSUME graph_state[g] # "STARTED", SetCall(g, Call("close:wait", {}, NoNode)),
                 UNCHANGED <<graph_state, gkv_list, sg_array, masks, pool, locks, spf>>
          PROVE  FollowInv'
      <3> PICK c : c = Call("close:wait", {}, NoNode)
        OBVIOUS
      <3>1. call'[g] = c
        BY <2>3 DEF SetCall, TypeInv, TypeOK
      <3>2. c.op = "close:wait" /\ c.cmd = NoCmd /\ LinkedCall(c)
        BY DEF Call, LinkedCall
      <3>3. SsLockMoves(g)
        BY <2>0, <2>3, <3>1, <3>2 DEF SsLockMoves, SsOp, locks
      <3>4. StartsDoNotFail => ByState(g)' /\ ~Waiting(g, "suspend", "SUSPEND")
        BY <1>0, <2>0, <2>3, <3>1, <3>2 DEF ByState, Waiting, masks
      <3> QED
        BY <2>0, <2>3, <3>2, <3>3, <3>4, MoveFollows
    <2> QED
      BY <1>1, <2>2, <2>3 DEF Close
  <1>2. CASE RemoveGraph(g)
    <2>0. PICK n \in NodesOf(g) : RemoveGraph(g)!(n)
      BY <1>2 DEF RemoveGraph
    <2>1. call[g].op = "idle"
      BY <2>0 DEF IsIdle
    <2>2. /\ start_stop_lock = Free
          /\ UNCHANGED <<graph_state, gkv_list, sg_array, masks, pool, spf>>
          /\ \/ SetCall(g, Call("remove:stop", {n}, n)) /\ start_stop_lock' = g
             \/ /\ SetCall(g, Call("remove:wait", {}, n)) /\ start_stop_lock' = Free
                /\ sg_start_mask[n] = {}
      BY <2>0 DEF locks
    <2> QED
      BY <2>1, <2>2, RemoveFollows
  <1>3. CASE EnterClose(g)
    <2> PICK n : n = call[g].node
      OBVIOUS
    <2> PICK c : c = IF call[g].op = "close:wait" THEN Call("close", NodesOf(g), NoNode)
                                                 ELSE Call("remove", {n}, n)
      OBVIOUS
    <2>1. /\ call[g].op \in {"close:wait", "remove:wait"} /\ SetCall(g, c)
          /\ UNCHANGED <<graph_state, gkv_list, sg_array, masks, pool, start_stop_lock, spf>>
      BY <1>3 DEF EnterClose
    <2>2. call'[g] = c
      BY <2>1 DEF SetCall, TypeInv, TypeOK
    <2>3. /\ c.cmd = NoCmd
          /\ \/ call[g].op = "close:wait" /\ c.op = "close" /\ c.todo = NodesOf(g)
             \/ call[g].op = "remove:wait" /\ c.op = "remove" /\ c.todo = {n}
      BY <2>1 DEF Call
    <2>4. LinkedCall(c)
      BY <1>0, <2>3 DEF InPlace, LinkedCall, NodesOf, OpeningOp
    <2>5. SsLockMoves(g)
      BY <2>1, <2>2, <2>3 DEF SsLockMoves, SsOp
    <2>6. StartsDoNotFail => ByState(g)' /\ ~Waiting(g, "suspend", "SUSPEND")
      BY <1>0, <2>1, <2>2, <2>3 DEF ByState, Waiting, masks
    <2> QED
      BY <2>1, <2>3, <2>4, <2>5, <2>6, MoveFollows
  <1>4. CASE CloseNode(g)
    <2>0. PICK op \in ClosingOp, n \in call[g].todo : CloseNode(g)!(op, n)
      BY <1>4 DEF CloseNode
    <2>1. call[g].op \in ClosingOp /\ UNCHANGED <<graph_state, locks, spf>>
      BY <2>0 DEF Working
    <2>2. CASE FreeNode(g, n)
      BY <2>1, <2>2, FreeFollows
    <2>3. CASE /\ SendSpfCmd(g, n, "CLOSE", Pruned(sg_array[n]))
               /\ UNCHANGED <<gkv_list, sg_array, masks, pool>>
      BY <2>1, <2>3, AskFollows DEF SpfCmd, ClosingOp, Waiting
    <2> QED
      BY <2>0, <2>2, <2>3
  <1>5. CASE CloseAnswered(g)
    <2> PICK n : n = call[g].node
      OBVIOUS
    <2>1. /\ call[g].op \in ClosingOp /\ call[g].cmd = "CLOSE" /\ FreeNode(g, n)
          /\ UNCHANGED <<graph_state, locks>>
          /\ UNCHANGED spf \/ SpfDoes(call[g].sgs, "CLOSED")
      BY <1>5 DEF CloseAnswered, Waiting
    <2>2. call[g].sgs = Pruned(sg_array[n]) /\ n \in call[g].todo
      BY <1>0, <2>1 DEF SharingInv, WaitsForPruned, ClosingOp, ChangeSharingInv, ChangesInv,
                        AboutTodo, NoCmd
    <2> QED
      BY <2>1, <2>2, FreeFollows
  <1>6. CASE CloseDone(g)
    <2>0. PICK op \in ClosingOp : CloseDone(g)!(op)
      BY <1>6 DEF CloseDone
    <2>1. /\ call[g].op = op /\ SetCall(g, Idle) /\ call[g].todo = {}
          /\ graph_state' = [graph_state EXCEPT ![g] = IF op = "close" THEN "NONE" ELSE @]
          /\ UNCHANGED <<gkv_list, sg_array, masks, pool, start_stop_lock, spf>>
      BY <2>0 DEF Working, ReleaseOc
    <2>2. /\ call'[g] = Idle
          /\ graph_state'[g] = IF op = "close" THEN "NONE" ELSE graph_state[g]
          /\ \A h \in Graph \ {g} : graph_state'[h] = graph_state[h]
      BY <2>1 DEF SetCall, TypeInv, TypeOK
    <2>3. Idle.op = "idle" /\ Idle.cmd = NoCmd /\ LinkedCall(Idle)
      BY DEF Call, Idle, LinkedCall
    <2>4. SsLockMoves(g)
      BY <2>1, <2>2, <2>3 DEF SsLockMoves, SsOp, ClosingOp
    <2>5. StartsDoNotFail => ByState(g)' /\ ~Waiting(g, "suspend", "SUSPEND")
      BY <1>0, <2>1, <2>2, <2>3 DEF ByState, Waiting, masks, ClosingOp
    <2> QED
      BY <2>1, <2>2, <2>3, <2>4, <2>5, MoveFollows DEF ClosingOp
  <1> QED
    BY <1>1, <1>2, <1>3, <1>4, <1>5, <1>6

-----------------------------------------------------------------------------
\* A change and a partial close move start bits.

\* A change keeps them as it hands the start bits on to the new node,
LEMMA ChangeBeginFollows ==
  ASSUME ChangeSharingInv, ChangeSharingInv', FollowInv, NEW g \in Graph, ChangeGraph(g)
  PROVE  FollowInv'
PROOF
  <1>0. /\ TypeInv /\ TypeInv' /\ ChangeVarsType /\ InPlace(g)
        /\ StartsDoNotFail => ByState(g)
    BY DEF FollowInv, ChangeSharingInv
  <1>00. PICK k \in GkvOf[g] : ChangeGraph(g)!(k)
    BY DEF ChangeGraph
  <1> PICK n : n = <<g, k>>
    OBVIOUS
  <1> PICK opens : opens = {s \in SgsOf[k] : open_ref_cnt[s] = 0}
    OBVIOUS
  <1>1. /\ call[g].op = "idle" /\ n \notin gkv_list
        /\ sg_array' = [sg_array EXCEPT ![n] = SgsOf[k]]
        /\ open_ref_cnt' = Bump(open_ref_cnt, SgsOf[k])
        /\ pruned_sgids' = [pruned_sgids EXCEPT ![g] = opens]
        /\ call' = [call EXCEPT ![g] = Call("change", NodesOf(g) \cup {n}, NoNode)]
        /\ UNCHANGED <<graph_state, gkv_list, masks, start_ref_cnt, stop_ref_cnt,
                       start_stop_lock, spf, astray>>
    BY <1>00 DEF IsIdle, SetCall
  <1>2. n \in Node /\ n[1] = g
    BY GkvOfType DEF Node
  <1>3. /\ \A h \in Graph \ {g} : call'[h] = call[h] /\ pruned_sgids'[h] = pruned_sgids[h]
        /\ call'[g].op = "change" /\ call'[g].cmd = NoCmd
        /\ \A p \in Node \ {n} : sg_array'[p] = sg_array[p]
    BY <1>0, <1>1 DEF TypeInv, TypeOK, ChangeVarsType, Call
  <1>4. Frame(g)
    BY <1>1, <1>2, <1>3 DEF Frame, masks
  <1>5. SsLockMoves(g)
    BY <1>1, <1>3 DEF SsLockMoves, SsOp
  <1>6. InPlace(g)'
    <2>1. LinkedCall(call[g])'
      BY <1>3 DEF LinkedCall
    <2>2. \A m \in Node : m[1] = g /\ m \notin gkv_list =>
            sg_start_mask[m] \cup sg_stop_mask[m] = {}
      BY <1>0, <1>1 DEF InPlace
    <2>3. sg_start_mask[n] \cup sg_stop_mask[n] = {}
      BY <1>1, <1>2, <2>2
    <2> QED
      BY <1>0, <1>1, <1>3, <2>1, <2>2, <2>3 DEF InPlace, masks
  <1>7. Asks(g)'
    BY <1>3, NotAsking
  <1>8. ASSUME NEW s \in SG, open_ref_cnt'[s] = 0 PROVE open_ref_cnt[s] = 0
    <2>1. open_ref_cnt[s] \in Nat
      BY <1>0 DEF TypeInv, TypeOK
    <2>2. open_ref_cnt'[s] = IF s \in SgsOf[k] THEN open_ref_cnt[s] + 1 ELSE open_ref_cnt[s]
      BY <1>1 DEF Bump
    <2> QED
      BY <1>8, <2>1, <2>2
  <1>9. ASSUME StartsDoNotFail PROVE ByState(g)' /\ ~Waiting(g, "suspend", "SUSPEND")
    BY <1>0, <1>1, <1>3, <1>9 DEF ByState, Waiting, masks
  <1>10. \A s \in SG : SameStarters(s)
    BY <1>1 DEF SameStarters, Starters, masks
  <1>11. Beside(g, {})
    BY <1>1, <1>4, <1>5, <1>6, <1>7, <1>8, <1>9, <1>10 DEF Beside
  <1> QED
    BY <1>11, BesideKeeps

\* The start bits of an old node go to the new one; what only the old one had is lost.
LEMMA ReplaceFollows ==
  ASSUME ChangeSharingInv, ChangeSharingInv', FollowInv, NEW g \in Graph,
         call[g].op = "change", NEW old \in OldNodes(g), ReplaceNode(g, old),
         UNCHANGED <<graph_state, locks>>,
         UNCHANGED spf \/ SpfDoes(Pruned(sg_array[old]), "CLOSED")
  PROVE  FollowInv'
PROOF
  <1>0. /\ TypeInv /\ TypeInv' /\ ChangeVarsType /\ SharingInv /\ ChangesInv
        /\ AllInPlace /\ InPlace(g)
        /\ StartsDoNotFail => ByState(g)
    BY DEF FollowInv, ChangeSharingInv, AllInPlace
  <1>1. PICK n \in Node : n[1] = g /\ NewNode(g) = n /\ ChangeOf(g, n)
    BY <1>0, ChangeFacts
  <1>2. /\ old \in Node /\ old[1] = g /\ old \in gkv_list /\ n \notin gkv_list /\ n # old
        /\ n \in call[g].todo /\ sg_array[old] \in SUBSET SG
    BY <1>0, <1>1, CallFacts DEF OldNodes, ChangeOf, TypeInv, TypeOK
  <1> PICK moved : moved = (sg_start_mask[old] \cap sg_array[n]) \ sg_start_mask[n]
    OBVIOUS
  <1> PICK lost : lost = sg_start_mask[old] \ moved
    OBVIOUS
  <1>3. /\ PoolRemove(sg_array[old]) /\ gkv_list' = gkv_list \ {old}
        /\ sg_array' = [sg_array EXCEPT ![old] = {}]
        /\ sg_start_mask' = [sg_start_mask EXCEPT ![old] = {}, ![n] = @ \cup moved]
        /\ sg_stop_mask' = [sg_stop_mask EXCEPT
                              ![old] = {}, ![n] = @ \cup (sg_stop_mask[old] \cap sg_array[n])]
        /\ NextNode(g, old) /\ Noting(stray, lost) /\ UNCHANGED pruned_sgids
    BY <1>1 DEF ReplaceNode
  <1>4. /\ \A h \in Graph \ {g} : call'[h] = call[h]
        /\ call'[g].op = "change" /\ call'[g].todo = call[g].todo \ {old}
        /\ call'[g].cmd = NoCmd
    BY <1>0, <1>3 DEF NextNode, SetCall, Call, TypeInv, TypeOK
  <1>5. /\ \A m \in Node \ {old} : sg_array'[m] = sg_array[m]
        /\ \A m \in Node \ {old, n} : /\ sg_start_mask'[m] = sg_start_mask[m]
                                      /\ sg_stop_mask'[m] = sg_stop_mask[m]
        /\ sg_array'[old] = {} /\ sg_start_mask'[old] = {} /\ sg_stop_mask'[old] = {}
        /\ sg_start_mask'[n] = sg_start_mask[n] \cup moved
        /\ sg_stop_mask'[n] = sg_stop_mask[n] \cup (sg_stop_mask[old] \cap sg_array[n])
    BY <1>0, <1>2, <1>3 DEF TypeInv, TypeOK
  <1>6. lost \in SUBSET SG
    BY <1>0, <1>2 DEF TypeInv, TypeOK
  <1>7. \A s \in astray \cup lost :
          s \in astray' \/ (open_ref_cnt'[s] = 0 /\ spf'[s] # "RUNNING")
    BY <1>0, <1>3, <1>6, NotingKeeps
  <1>8. Frame(g)
    BY <1>1, <1>2, <1>3, <1>4, <1>5 DEF Frame
  <1>9. SsLockMoves(g)
    BY <1>4 DEF SsLockMoves, locks
  <1>10. InPlace(g)'
    <2>1. LinkedCall(call[g])'
      BY <1>4 DEF LinkedCall
    <2>2. /\ sg_start_mask'[n] \cup sg_stop_mask'[n] \subseteq sg_array'[n]
          /\ n \in call'[g].todo
      BY <1>0, <1>1, <1>2, <1>4, <1>5 DEF InPlace
    <2>3. sg_start_mask'[n] \cap pruned_sgids[g] = {}
      <3>1. sg_start_mask[n] \cap pruned_sgids[g] = {}
        BY <1>0, <1>1, <1>2 DEF InPlace
      <3>2. ASSUME NEW s \in moved, s \in pruned_sgids[g] PROVE FALSE
        <4>1. s \in sg_array[old]
          BY <1>0, <1>2, <3>2 DEF InPlace
        <4>2. Holders(s) = {n}
          BY <1>1, <3>2 DEF ChangeOf
        <4> QED
          BY <1>2, <4>1, <4>2 DEF Holders
      <3> QED
        BY <1>5, <3>1, <3>2
    <2>4. ASSUME NEW m \in Node, m[1] = g, m # n, m # old
          PROVE  /\ sg_start_mask'[m] \cup sg_stop_mask'[m] \subseteq sg_array'[m]
                 /\ m \notin gkv_list' =>
                      /\ \/ call'[g].op = "change" /\ m \in call'[g].todo
                         \/ sg_start_mask'[m] \cup sg_stop_mask'[m] = {}
                      /\ sg_start_mask'[m] \cap pruned_sgids[g] = {}
      BY <1>0, <1>3, <1>4, <1>5, <2>4 DEF InPlace
    <2> QED
      BY <1>3, <1>4, <1>5, <2>1, <2>2, <2>3, <2>4 DEF InPlace
  <1>11. Asks(g)'
    BY <1>4, NotAsking
  <1>12. \A s \in SG : spf'[s] = spf[s] \/ (spf'[s] = "CLOSED" /\ open_ref_cnt'[s] = 0)
    BY <1>0, <1>2, <1>3, PoolRemoveBeside DEF SpfDoes, Pruned
  <1>13. ASSUME StartsDoNotFail PROVE ByState(g)' /\ ~Waiting(g, "suspend", "SUSPEND")
    <2>1. ASSUME NEW m \in Node, m[1] = g, sg_start_mask'[m] # {}
          PROVE  graph_state[g] = "STARTED"
      <3>1. sg_start_mask[m] # {} \/ sg_start_mask[old] # {}
        BY <1>5, <2>1
      <3> QED
        BY <1>0, <1>2, <1>13, <2>1, <3>1 DEF ByState
    <2> QED
      BY <1>4, <2>1 DEF ByState, Waiting
  <1>14. ASSUME NEW s \in SG, s \notin lost PROVE SameStarters(s)
    <2>1. CASE s \in sg_start_mask[old]
      <3>1. s \in moved /\ s \notin sg_start_mask[n]
        BY <1>14, <2>1
      <3>2. Starters(s)' = (Starters(s) \ {old}) \cup {n}
        BY <1>1, <1>2, <1>5, <3>1 DEF Starters
      <3>3. old \in Starters(s) /\ n \in Node \ Starters(s)
        BY <1>2, <2>1, <3>1 DEF Starters
      <3> QED
        BY <3>2, <3>3 DEF SameStarters
    <2>2. CASE s \notin sg_start_mask[old]
      <3>1. Starters(s)' = Starters(s)
        BY <1>2, <1>5, <2>2 DEF Starters
      <3> QED
        BY <3>1 DEF SameStarters
    <2> QED
      BY <2>1, <2>2
  <1>15. Beside(g, lost)
    BY <1>0, <1>2, <1>3, <1>7, <1>8, <1>9, <1>10, <1>11, <1>12, <1>13, <1>14,
       PoolRemoveBeside DEF Beside
  <1> QED
    BY <1>6, <1>15, BesideKeeps

\* A change that fails links its node with what was open before; the bits that its masks
\* lost or gained so are lost.
LEMMA KeepFollows ==
  ASSUME ChangeSharingInv, ChangeSharingInv', FollowInv, NEW g \in Graph,
         call[g].op = "change", NEW n \in Node, n[1] = g, ChangeOf(g, n),
         KeepExisting(g, n), pruned_sgids' = [pruned_sgids EXCEPT ![g] = {}],
         ReleaseOc(g, Idle), UNCHANGED graph_state,
         UNCHANGED spf \/ SpfDoes(pruned_sgids[g], "CLOSED")
  PROVE  FollowInv'
PROOF
  <1>0. /\ TypeInv /\ TypeInv' /\ ChangeVarsType /\ OpenRefsExact /\ InPlace(g)
        /\ StartsDoNotFail => ByState(g)
    BY DEF FollowInv, ChangeSharingInv, SharingInv
  <1>1. /\ n \notin gkv_list /\ pruned_sgids[g] \in SUBSET SG
        /\ call[g].todo \ gkv_list = {n}
        /\ \A s \in pruned_sgids[g] : s \in sg_array[n] /\ Holders(s) = {n}
    BY <1>0 DEF ChangeOf, ChangeVarsType
  <1> DEFINE all == sg_array[n]
             kept == all \ pruned_sgids[g]
             Now(mask) == {s \in kept : \E t \in mask : Pos(t, all) = Pos(s, kept)}
             beyond == {t \in sg_start_mask[n] : Pos(t, all) > Cardinality(kept)}
             before == sg_start_mask[n]
             lost == (before \ Now(before)) \cup (Now(before) \ before)
  <1>20. /\ sg_start_mask' = [sg_start_mask EXCEPT ![n] = Now(sg_start_mask[n])]
         /\ sg_stop_mask' = [sg_stop_mask EXCEPT ![n] = Now(sg_stop_mask[n])]
         /\ Noting([stray EXCEPT ![n] = Cardinality(beyond)], lost)
    BY DEF KeepExisting
  <1>21. \A mask : Now(mask) \subseteq kept /\ (mask = {} => Now(mask) = {})
    OBVIOUS
  <1> HIDE DEF Now, beyond
  <1>2. PICK starts, stops :
          /\ sg_start_mask' = [sg_start_mask EXCEPT ![n] = starts]
          /\ sg_stop_mask' = [sg_stop_mask EXCEPT ![n] = stops]
          /\ starts = Now(before) /\ starts \cup stops \subseteq kept
    BY <1>20, <1>21
  <1>3. before = {} => starts = {}
    BY <1>2, <1>21
  <1> PICK gone : gone = (before \ starts) \cup (starts \ before)
    OBVIOUS
  <1>4. gone = (before \ starts) \cup (starts \ before) /\ gone = lost
    BY <1>2
  <1>5. PICK stays : Noting(stays, gone)
    BY <1>4, <1>20
  <1>6. /\ PoolRemove(pruned_sgids[g]) /\ gkv_list' = gkv_list \cup {n}
        /\ sg_array' = [sg_array EXCEPT ![n] = kept]
    BY DEF KeepExisting
  <1> HIDE DEF lost
  <1>7. gone \in SUBSET SG
    BY <1>0, <1>2, <1>4 DEF TypeInv, TypeOK
  <1>8. \A s \in astray \cup gone :
          s \in astray' \/ (open_ref_cnt'[s] = 0 /\ spf'[s] # "RUNNING")
    BY <1>0, <1>5, <1>7, NotingKeeps
  <1>9. /\ \A h \in Graph \ {g} : call'[h] = call[h] /\ pruned_sgids'[h] = pruned_sgids[h]
        /\ call'[g] = Idle /\ pruned_sgids'[g] = {} /\ UNCHANGED start_stop_lock
        /\ Idle.op = "idle" /\ Idle.cmd = NoCmd /\ Idle.todo = {}
    BY <1>0 DEF ReleaseOc, SetCall, TypeInv, TypeOK, ChangeVarsType, Idle, Call
  <1>10. /\ \A m \in Node \ {n} : /\ sg_array'[m] = sg_array[m]
                                  /\ sg_start_mask'[m] = sg_start_mask[m]
                                  /\ sg_stop_mask'[m] = sg_stop_mask[m]
         /\ sg_array'[n] = kept /\ sg_start_mask'[n] = starts /\ sg_stop_mask'[n] = stops
    BY <1>0, <1>2, <1>6 DEF TypeInv, TypeOK
  <1>11. Frame(g)
    BY <1>6, <1>9, <1>10 DEF Frame
  <1>12. SsLockMoves(g)
    BY <1>9 DEF SsLockMoves, SsOp
  <1>13. InPlace(g)'
    <2>1. LinkedCall(call[g])'
      BY <1>9 DEF LinkedCall
    <2>2. ASSUME NEW m \in Node, m[1] = g, m \notin gkv_list'
          PROVE  sg_start_mask'[m] \cup sg_stop_mask'[m] = {}
      BY <1>0, <1>1, <1>6, <1>10, <2>2 DEF InPlace
    <2>3. \A m \in Node : m[1] = g =>
            sg_start_mask'[m] \cup sg_stop_mask'[m] \subseteq sg_array'[m]
      BY <1>0, <1>2, <1>10 DEF InPlace
    <2> QED
      BY <1>9, <2>1, <2>2, <2>3 DEF InPlace
  <1>14. Asks(g)'
    BY <1>9, NotAsking
  <1>15. \A s \in SG : spf'[s] = spf[s] \/ (spf'[s] = "CLOSED" /\ open_ref_cnt'[s] = 0)
    <2> SUFFICES ASSUME NEW s \in SG, s \in pruned_sgids[g] PROVE open_ref_cnt'[s] = 0
      BY <1>1 DEF SpfDoes
    <2>1. open_ref_cnt[s] = 1
      BY <1>0, <1>1, FS_Singleton DEF OpenRefsExact
    <2> QED
      BY <1>0, <1>1, <1>6, <2>1, PoolRemoveBeside
  <1>16. ASSUME StartsDoNotFail PROVE ByState(g)' /\ ~Waiting(g, "suspend", "SUSPEND")
    <2>1. ASSUME NEW m \in Node, m[1] = g, sg_start_mask'[m] # {}
          PROVE  graph_state[g] = "STARTED"
      <3>1. sg_start_mask[m] # {}
        BY <1>3, <1>10, <2>1
      <3> QED
        BY <1>0, <1>16, <2>1, <3>1 DEF ByState
    <2> QED
      BY <1>9, <2>1 DEF ByState, Waiting
  <1>17. ASSUME NEW s \in SG, s \notin gone PROVE SameStarters(s)
    <2>1. s \in sg_start_mask'[n] <=> s \in sg_start_mask[n]
      BY <1>4, <1>10, <1>17
    <2>2. Starters(s)' = Starters(s)
      BY <1>10, <2>1 DEF Starters
    <2> QED
      BY <2>2 DEF SameStarters
  <1>18. Beside(g, gone)
    BY <1>0, <1>1, <1>6, <1>8, <1>11, <1>12, <1>13, <1>14, <1>15, <1>16, <1>17,
       PoolRemoveBeside DEF Beside
  <1> QED
    BY <1>7, <1>18, BesideKeeps

\* A partial close moves bits down in the masks of its node; those of subgraphs that
\* lost or gained one so are lost.
LEMMA RemoveMatchingFollows ==
  ASSUME ChangeSharingInv, ChangeSharingInv', FollowInv, NEW g \in Graph,
         call[g].op = "close_props", NEW n, n = call[g].node, RemoveMatching(g, n),
         UNCHANGED graph_state,
         UNCHANGED spf \/ SpfDoes(Pruned(sg_array[n] \cap Matching), "CLOSED")
  PROVE  FollowInv'
PROOF
  <1>0. /\ TypeInv /\ TypeInv' /\ ChangeVarsType /\ InPlace(g) /\ PartOf(g)
        /\ StartsDoNotFail => ByState(g)
    BY DEF FollowInv, ChangeSharingInv, ChangesInv
  <1>1. n \in Node /\ n[1] = g /\ n \in gkv_list /\ sg_array[n] \in SUBSET SG
    BY <1>0, CallFacts DEF PartOf, InPlace, LinkedCall, OpeningOp, TypeInv, TypeOK
  <1> PICK before : before = sg_start_mask[n]
    OBVIOUS
  <1>2. PICK starts, stops :
          /\ sg_start_mask' = [sg_start_mask EXCEPT ![n] = starts]
          /\ sg_stop_mask' = [sg_stop_mask EXCEPT ![n] = stops]
          /\ starts = MovedDown(before, sg_array[n], Matching)
          /\ stops = MovedDown(sg_stop_mask[n], sg_array[n], Matching)
    BY <1>0, <1>1 DEF RemoveMatching, TypeInv, TypeOK
  <1>3. /\ before = {} => starts = {}
        /\ starts \cup stops \subseteq sg_array[n] \ Matching
    BY <1>2 DEF MovedDown
  <1>4. PICK gone : gone = (before \ starts) \cup (starts \ before)
    OBVIOUS
  <1>5. Noting(stray, gone)
    BY <1>2, <1>4 DEF RemoveMatching
  <1>6. /\ PoolRemove(sg_array[n] \cap Matching) /\ UNCHANGED <<gkv_list, pruned_sgids>>
        /\ sg_array' = [sg_array EXCEPT ![n] = @ \ Matching] /\ ReleaseOc(g, Idle)
    BY DEF RemoveMatching
  <1>7. gone \in SUBSET SG
    BY <1>0, <1>1, <1>3, <1>4 DEF TypeInv, TypeOK
  <1>8. \A s \in astray \cup gone :
          s \in astray' \/ (open_ref_cnt'[s] = 0 /\ spf'[s] # "RUNNING")
    BY <1>0, <1>5, <1>7, NotingKeeps
  <1>9. /\ \A h \in Graph \ {g} : call'[h] = call[h]
        /\ call'[g] = Idle /\ UNCHANGED start_stop_lock
        /\ Idle.op = "idle" /\ Idle.cmd = NoCmd /\ Idle.todo = {}
    BY <1>0, <1>6 DEF ReleaseOc, SetCall, TypeInv, TypeOK, Idle, Call
  <1>10. /\ \A m \in Node \ {n} : /\ sg_array'[m] = sg_array[m]
                                  /\ sg_start_mask'[m] = sg_start_mask[m]
                                  /\ sg_stop_mask'[m] = sg_stop_mask[m]
         /\ sg_array'[n] = sg_array[n] \ Matching
         /\ sg_start_mask'[n] = starts /\ sg_stop_mask'[n] = stops
    BY <1>0, <1>1, <1>2, <1>6 DEF TypeInv, TypeOK
  <1>11. Frame(g)
    BY <1>1, <1>6, <1>9, <1>10 DEF Frame
  <1>12. SsLockMoves(g)
    BY <1>9 DEF SsLockMoves, SsOp
  <1>13. InPlace(g)'
    <2>1. LinkedCall(call[g])'
      BY <1>9 DEF LinkedCall
    <2>2. ASSUME NEW m \in Node, m[1] = g, m \notin gkv_list'
          PROVE  sg_start_mask'[m] \cup sg_stop_mask'[m] = {}
      BY <1>0, <1>1, <1>6, <1>10, <2>2 DEF InPlace
    <2>3. \A m \in Node : m[1] = g =>
            sg_start_mask'[m] \cup sg_stop_mask'[m] \subseteq sg_array'[m]
      BY <1>0, <1>3, <1>10 DEF InPlace
    <2> QED
      BY <1>9, <2>1, <2>2, <2>3 DEF InPlace
  <1>14. Asks(g)'
    BY <1>9, NotAsking
  <1>15. \A s \in SG : spf'[s] = spf[s] \/ (spf'[s] = "CLOSED" /\ open_ref_cnt'[s] = 0)
    BY <1>0, <1>1, <1>6, PoolRemoveBeside DEF SpfDoes, Pruned
  <1>16. ASSUME StartsDoNotFail PROVE ByState(g)' /\ ~Waiting(g, "suspend", "SUSPEND")
    <2>1. ASSUME NEW m \in Node, m[1] = g, sg_start_mask'[m] # {}
          PROVE  graph_state[g] = "STARTED"
      <3>1. sg_start_mask[m] # {}
        BY <1>3, <1>10, <2>1
      <3> QED
        BY <1>0, <1>16, <2>1, <3>1 DEF ByState
    <2> QED
      BY <1>9, <2>1 DEF ByState, Waiting
  <1>17. ASSUME NEW s \in SG, s \notin gone PROVE SameStarters(s)
    <2>1. s \in sg_start_mask'[n] <=> s \in sg_start_mask[n]
      BY <1>4, <1>10, <1>17
    <2>2. Starters(s)' = Starters(s)
      BY <1>10, <2>1 DEF Starters
    <2> QED
      BY <2>2 DEF SameStarters
  <1>18. sg_array[n] \cap Matching \in SUBSET SG
    BY <1>1
  <1>19. Beside(g, gone)
    BY <1>0, <1>1, <1>6, <1>8, <1>11, <1>12, <1>13, <1>14, <1>15, <1>16, <1>17, <1>18,
       PoolRemoveBeside DEF Beside
  <1> QED
    BY <1>7, <1>19, BesideKeeps

\* as it closes the old nodes and opens what is new;
LEMMA ChangeFollows ==
  ASSUME ChangeSharingInv, ChangeSharingInv', FollowInv, NEW g \in Graph,
         \/ ChangeCloses(g) \/ ChangeClosed(g) \/ ChangeOpens(g) \/ ChangeOpened(g)
         \/ ChangeCalOk(g) \/ ChangeCalFailed(g) \/ ChangeFailed(g)
  PROVE  FollowInv'
PROOF
  <1>0. /\ TypeInv /\ TypeInv' /\ ChangeVarsType /\ SharingInv /\ ChangesInv
        /\ AllInPlace /\ InPlace(g)
    BY DEF FollowInv, ChangeSharingInv, AllInPlace
  <1>1. call[g].op = "change"
    BY DEF ChangeCloses, ChangeClosed, ChangeOpens, ChangeOpened, ChangeCalOk,
           ChangeCalFailed, ChangeFailed, Working, Waiting
  <1>2. PICK n \in Node : n[1] = g /\ NewNode(g) = n /\ ChangeOf(g, n)
    BY <1>0, <1>1, ChangeFacts
  <1>3. /\ n \notin gkv_list /\ n \in call[g].todo /\ call[g].todo \ gkv_list = {n}
        /\ pruned_sgids[g] \in SUBSET SG
    BY <1>0, <1>2 DEF ChangeOf, ChangeVarsType
  <1>4. ASSUME ChangeDone(g, n), UNCHANGED spf PROVE FollowInv'
    <2>1. \A s \in astray : s \in astray' \/ (open_ref_cnt'[s] = 0 /\ spf'[s] # "RUNNING")
      BY <1>0, <1>4, NotingKeeps DEF ChangeDone, NothingAstray
    <2> QED
      BY <1>1, <1>2, <1>3, <1>4, <2>1, LinkFollows DEF ChangeDone
  <1>5. ASSUME NEW m \in call[g].todo, NEW cmd \in {"OPEN", "SET_CFG", "CLOSE"}, NEW sgs,
               SendSpfCmd(g, m, cmd, sgs),
               UNCHANGED <<graph_state, gkv_list, sg_array, masks, pool, locks, cvars>>,
               \A s \in SG : \/ spf'[s] = spf[s]
                             \/ spf'[s] = "STOPPED" /\ Starters(s) = {}
        PROVE  FollowInv'
    BY <1>1, <1>5, AskFollows DEF SpfCmd, Waiting, cvars
  <1>6. CASE ChangeCloses(g)
    <2>0. PICK old \in OldNodes(g) : ChangeCloses(g)!(old)
      BY <1>6 DEF ChangeCloses
    <2>1. CASE ReplaceNode(g, old)
      BY <1>1, <2>0, <2>1, ReplaceFollows
    <2>2. CASE /\ SendSpfCmd(g, old, "CLOSE", Pruned(sg_array[old]))
               /\ UNCHANGED <<gkv_list, sg_array, masks, pool, cvars>>
      BY <1>5, <2>0, <2>2 DEF OldNodes
    <2> QED
      BY <2>0, <2>1, <2>2
  <1>7. CASE ChangeClosed(g)
    <2>1. call[g].cmd = "CLOSE" /\ call[g].node \in gkv_list /\ call[g].cmd # NoCmd
      BY <1>7 DEF ChangeClosed, Waiting, NoCmd
    <2>2. call[g].sgs = Pruned(sg_array[call[g].node]) /\ call[g].node \in OldNodes(g)
      BY <1>0, <1>2, <1>3, <2>1 DEF ChangeOf, ChangesInv, AboutTodo, OldNodes
    <2>3. /\ ReplaceNode(g, call[g].node) /\ UNCHANGED <<graph_state, locks>>
          /\ UNCHANGED spf \/ SpfDoes(Pruned(sg_array[call[g].node]), "CLOSED")
      BY <1>7, <2>2 DEF ChangeClosed
    <2> QED
      BY <1>1, <2>2, <2>3, ReplaceFollows
  <1>8. CASE ChangeOpens(g)
    BY <1>2, <1>3, <1>4, <1>5, <1>8 DEF ChangeOpens
  <1>9. CASE ChangeOpened(g)
    <2>1. call[g].node = n /\ call[g].sgs = pruned_sgids[g]
      BY <1>2, <1>9 DEF ChangeOpened, Waiting, NoCmd, ChangeOf
    <2>2. ASSUME NEW s \in SG, s \in call[g].sgs PROVE Starters(s) = {}
      <3>1. s \notin sg_start_mask[n] /\ Holders(s) = {n}
        BY <1>0, <1>2, <1>3, <2>1, <2>2 DEF InPlace, ChangeOf
      <3>2. ASSUME NEW m \in Node, s \in sg_start_mask[m] PROVE m = n
        <4>1. m[1] \in Graph
          BY DEF Node
        <4>2. s \in sg_array[m]
          BY <1>0, <3>2, <4>1 DEF AllInPlace, InPlace
        <4> QED
          BY <3>1, <4>2 DEF Holders
      <3> QED
        BY <3>1, <3>2 DEF Starters
    <2>3. SpfDoes(call[g].sgs, "STOPPED")
      BY <1>9 DEF ChangeOpened
    <2>4. CASE call[g].sgs = {} /\ ChangeDone(g, n)
      <3>1. UNCHANGED spf
        BY <1>0, <2>3, <2>4 DEF SpfDoes, TypeInv, TypeOK
      <3> QED
        BY <1>4, <2>4, <3>1
    <2>5. CASE /\ SendSpfCmd(g, n, "SET_CFG", call[g].sgs)
               /\ UNCHANGED <<graph_state, gkv_list, sg_array, masks, pool, locks, cvars>>
      <3>1. \A s \in SG : spf'[s] = spf[s] \/ (spf'[s] = "STOPPED" /\ Starters(s) = {})
        BY <2>2, <2>3 DEF SpfDoes
      <3> QED
        BY <1>3, <1>5, <2>5, <3>1
    <2> QED
      BY <1>9, <2>1, <2>4, <2>5 DEF ChangeOpened
  <1>10. CASE ChangeCalOk(g)
    <2>1. call[g].node = n
      BY <1>2, <1>10 DEF ChangeCalOk, Waiting, NoCmd, ChangeOf
    <2> QED
      BY <1>4, <1>10, <2>1 DEF ChangeCalOk
  <1>11. CASE ChangeCalFailed(g)
    <2>1. call[g].node = n
      BY <1>2, <1>11 DEF ChangeCalFailed, Waiting, NoCmd, ChangeOf
    <2> QED
      BY <1>3, <1>5, <1>11, <2>1 DEF ChangeCalFailed
  <1>12. CASE ChangeFailed(g)
    <2>1. call[g].node = n /\ call[g].sgs = pruned_sgids[g]
      BY <1>2, <1>12 DEF ChangeFailed, Waiting, NoCmd, ChangeOf
    <2>2. /\ KeepExisting(g, n) /\ pruned_sgids' = [pruned_sgids EXCEPT ![g] = {}]
          /\ ReleaseOc(g, Idle) /\ UNCHANGED graph_state
          /\ UNCHANGED spf \/ SpfDoes(pruned_sgids[g], "CLOSED")
      BY <1>12, <2>1 DEF ChangeFailed
    <2> QED
      BY <1>1, <1>2, <2>2, KeepFollows
  <1> QED
    BY <1>6, <1>7, <1>8, <1>9, <1>10, <1>11, <1>12

\* a partial close as it moves the start bits down,
LEMMA PartialFollows ==
  ASSUME ChangeSharingInv, ChangeSharingInv', FollowInv, NEW g \in Graph,
         CloseWithProperties(g) \/ ClosesMatching(g) \/ ClosedMatching(g)
  PROVE  FollowInv'
PROOF
  <1>0. /\ TypeInv /\ InPlace(g) /\ ChangesInv
        /\ StartsDoNotFail => ByState(g)
    BY DEF FollowInv, ChangeSharingInv
  <1> PICK n : n = call[g].node
    OBVIOUS
  <1>1. CASE CloseWithProperties(g)
    <2>0. PICK m \in NodesOf(g) : CloseWithProperties(g)!(m)
      BY <1>1 DEF CloseWithProperties
    <2> PICK c : c = Call("close_props", {m}, m)
      OBVIOUS
    <2>1. /\ call[g].op = "idle" /\ SetCall(g, c)
          /\ UNCHANGED <<graph_state, gkv_list, sg_array, masks, pool, start_stop_lock, spf,
                         cvars>>
      BY <2>0 DEF IsIdle
    <2>2. call'[g] = c
      BY <1>0, <2>1 DEF SetCall, TypeInv, TypeOK
    <2>3. c.op = "close_props" /\ c.cmd = NoCmd /\ LinkedCall(c)
      BY DEF Call, LinkedCall, NodesOf
    <2>4. SsLockMoves(g)
      BY <2>1, <2>2, <2>3 DEF SsLockMoves, SsOp
    <2>5. StartsDoNotFail => ByState(g)' /\ ~Waiting(g, "suspend", "SUSPEND")
      BY <1>0, <2>1, <2>2, <2>3 DEF ByState, Waiting, masks
    <2> QED
      BY <2>1, <2>3, <2>4, <2>5, MoveFollows DEF cvars
  <1>2. CASE ClosesMatching(g)
    <2> PICK sgs : sgs = Pruned(sg_array[n] \cap Matching)
      OBVIOUS
    <2>1. /\ call[g].op = "close_props" /\ UNCHANGED <<graph_state, spf>>
          /\ n \in call[g].todo
      BY <1>0, <1>2 DEF ClosesMatching, Working, ChangesInv, PartOf
    <2>2. CASE RemoveMatching(g, n)
      BY <2>1, <2>2, RemoveMatchingFollows
    <2>3. CASE /\ SendSpfCmd(g, n, "CLOSE", sgs)
               /\ UNCHANGED <<gkv_list, sg_array, masks, pool, locks, cvars>>
      BY <2>1, <2>3, AskFollows DEF SpfCmd, Waiting, cvars
    <2> QED
      BY <1>2, <2>2, <2>3 DEF ClosesMatching
  <1>3. CASE ClosedMatching(g)
    <2>1. call[g].op = "close_props" /\ call[g].sgs = Pruned(sg_array[n] \cap Matching)
      BY <1>0, <1>3 DEF ClosedMatching, Waiting, NoCmd, ChangesInv, PartOf
    <2>2. /\ RemoveMatching(g, n) /\ UNCHANGED graph_state
          /\ UNCHANGED spf \/ SpfDoes(Pruned(sg_array[n] \cap Matching), "CLOSED")
      BY <1>3, <2>1 DEF ClosedMatching
    <2> QED
      BY <2>1, <2>2, RemoveMatchingFollows
  <1> QED
    BY <1>1, <1>2, <1>3

\* whatever bits go astray of the subgraphs it takes out.
LEMMA StrayedFollows ==
  ASSUME ChangeSharingInv, ChangeSharingInv', FollowInv, NEW g \in Graph,
         StartsStrayed(g) \/ RemovesAfterStop(g)
  PROVE  FollowInv'
PROOF
  <1>0. TypeInv /\ (StartsDoNotFail => ByState(g))
    BY DEF FollowInv, ChangeSharingInv
  <1>1. CASE StartsStrayed(g)
    <2>0. PICK n \in Strayed(g) : StartsStrayed(g)!(n)
      BY <1>1 DEF StartsStrayed
    <2>1. /\ call[g].op = "start" /\ call[g].op \in SsOp /\ call[g].cmd = NoCmd
          /\ n \in call[g].todo
          /\ UNCHANGED <<graph_state, gkv_list, sg_array, locks, spf>>
          /\ Plainly
      BY <2>0 DEF Strayed, Working, SsOp, Plainly
    <2>2. n \in gkv_list /\ n[1] = g
      BY <1>0, <2>1, SsHolds
    <2>3. CASE NextNode(g, n) /\ UNCHANGED <<masks, pool>>
      <3> PICK c : c = Call("start", call[g].todo \ {n}, NoNode)
        OBVIOUS
      <3>1. SetCall(g, c)
        BY <2>1, <2>3 DEF NextNode
      <3>2. call'[g] = c
        BY <1>0, <3>1 DEF SetCall, TypeInv, TypeOK
      <3>3. c.op = "start" /\ c.cmd = NoCmd /\ LinkedCall(c)
        BY <1>0, <2>1, SsHolds DEF Call, LinkedCall
      <3>4. SsLockMoves(g)
        BY <2>1, <3>2, <3>3 DEF SsLockMoves, locks
      <3>5. ByState(g)' /\ ~Waiting(g, "suspend", "SUSPEND")
        BY <2>1, <2>3, <3>2, <3>3 DEF ByState, Waiting
      <3> QED
        BY <2>1, <2>3, <3>1, <3>3, <3>4, <3>5, PlainlyFacts, MoveFollows DEF Plainly
    <2>4. CASE StartList(n) = {} /\ CountStarted(n) /\ NextNode(g, n)
      BY <2>1, <2>2, <2>4, StartCountKeeps DEF CountsOf, Plainly
    <2>5. CASE SendSpfCmd(g, n, "START", StartList(n)) /\ UNCHANGED <<masks, pool>>
      <3>1. AskedList(call[g].op, "START", n) = StartList(n)
        BY <2>1 DEF AskedList
      <3> QED
        BY <2>1, <2>5, <3>1, PlainlyFacts, AskFollows DEF Waiting, SpfCmd, Plainly
    <2> QED
      BY <2>0, <2>3, <2>4, <2>5
  <1>2. CASE RemovesAfterStop(g)
    <2>0. PICK n \in NodesOf(g) : RemovesAfterStop(g)!(n)
      BY <1>2 DEF RemovesAfterStop
    <2>1. call[g].op = "idle" /\ UNCHANGED <<pruned_sgids, astray>>
      BY <2>0 DEF IsIdle, cvars
    <2> QED
      BY <2>0, <2>1, RemoveFollows
  <1> QED
    BY <1>1, <1>2

\* The invariant of the start counts holds at first, is kept by every step
LEMMA FollowInit == ChangeInit => FollowInv
PROOF
  <1> SUFFICES ASSUME ChangeInit PROVE FollowInv
    OBVIOUS
  <1> USE DEF ChangeInit, Init
  <1>1. \A g \in Graph : /\ call[g].op = "idle" /\ call[g].cmd = NoCmd /\ call[g].todo = {}
                         /\ graph_state[g] = "NONE"
    BY DEF Idle, Call
  <1>2. SsLockHeld
    BY <1>1, FreeIsNoGraph DEF SsLockHeld, SsOp
  <1>3. GoneIsNotStarted
    BY DEF GoneIsNotStarted
  <1>4. ASSUME NEW g \in Graph PROVE InPlace(g) /\ Asks(g) /\ ByState(g)
    BY <1>1 DEF InPlace, LinkedCall, Asks, Waiting, ByState, NoCmd
  <1>5. ASSUME NEW s \in SG PROVE Follows(s)
    <2>1. Starters(s) = {}
      BY DEF Starters
    <2> QED
      BY <2>1, FS_EmptySet DEF Follows
  <1> QED
    BY <1>2, <1>3, <1>4, <1>5 DEF FollowInv

\* given the references,
LEMMA FollowNext ==
  ChangeSharingInv /\ ChangeSharingInv' /\ FollowInv /\ [ChangeNext]_allvars => FollowInv'
PROOF
  <1> SUFFICES ASSUME ChangeSharingInv, ChangeSharingInv', FollowInv, [ChangeNext]_allvars
               PROVE  FollowInv'
    OBVIOUS
  <1>1. CASE UNCHANGED allvars
    <2>1. UNCHANGED <<graph_state, gkv_list, sg_array, sg_start_mask, sg_stop_mask,
                      open_ref_cnt, start_ref_cnt, stop_ref_cnt, start_stop_lock, call, spf,
                      pruned_sgids, astray>>
      BY <1>1 DEF allvars, vars, cvars, masks, pool, locks
    <2>2. \A s : Starters(s)' = Starters(s)
      BY <2>1 DEF Starters
    <2>3. \A n : StopInsteadList(n)' = StopInsteadList(n)
      BY <2>1 DEF StopInsteadList, OnlyStarter
    <2>4. /\ SsLockHeld' /\ GoneIsNotStarted'
      BY <2>1 DEF FollowInv, SsLockHeld, GoneIsNotStarted
    <2>5. ASSUME NEW g \in Graph
          PROVE  InPlace(g)' /\ Asks(g)' /\ (StartsDoNotFail => ByState(g)')
      <3>1. InPlace(g)'
        BY <2>1 DEF FollowInv, InPlace, LinkedCall
      <3>2. Asks(g)'
        BY <2>1 DEF FollowInv, Asks, Waiting, AskedList, StartList, StopInsteadList,
                    SuspendList, OnlyStarter, StopList, Scope
      <3>3. StartsDoNotFail => ByState(g)'
        BY <2>1 DEF FollowInv, ByState
      <3> QED
        BY <3>1, <3>2, <3>3
    <2>6. ASSUME StartsDoNotFail, NEW s \in SG \ astray PROVE Follows(s)'
      <3>1. Follows(s)
        BY <2>6 DEF FollowInv
      <3>2. HalfSuspended(s)' <=> HalfSuspended(s)
        BY <2>1 DEF HalfSuspended, Waiting, StopInsteadList, OnlyStarter
      <3> QED
        BY <2>1, <2>2, <3>1, <3>2 DEF Follows
    <2> QED
      BY <2>1, <2>4, <2>5, <2>6 DEF FollowInv
  <1>2. ASSUME NEW g \in Graph, PlainStep(g) PROVE FollowInv'
    <2>1. Plainly /\ (ClientCall(g) \/ CallStep(g))
      BY <1>2 DEF Plainly, PlainStep
    <2> QED
      BY <2>1, StartFollows, SuspendFollows, StopFollows, OpenFollows, CloseFollows
         DEF ClientCall, CallStep
  <1>3. ASSUME NEW g \in Graph,
               \/ ChangeGraph(g) \/ CloseWithProperties(g) \/ RemovesAfterStop(g)
               \/ ChangeStep(g)
        PROVE  FollowInv'
    BY <1>3, ChangeBeginFollows, ChangeFollows, PartialFollows, StrayedFollows
       DEF ChangeStep
  <1> QED
    BY <1>1, <1>2, <1>3 DEF ChangeNext

\* and always holds.
LEMMA FollowInvariant == ChangeSpec => [](ChangeSharingInv /\ FollowInv)
  BY ChangeSharingInit, ChangeSharingNext, FollowInit, FollowNext, PTL DEF ChangeSpec

\* The types hold over changes and partial closes too, whatever fails: the masks of a
\* node stay within its sg_array when bits are handed on, moved down or left in place.
THEOREM ChangeTypeCorrect == ChangeSpec => []ChangeTypeOK
PROOF
  <1>1. ChangeSharingInv /\ FollowInv => ChangeTypeOK
    <2> SUFFICES ASSUME ChangeSharingInv, FollowInv PROVE ChangeTypeOK
      OBVIOUS
    <2>1. \A n \in Node : n[1] \in Graph
      BY DEF Node
    <2>2. \A n \in Node : sg_start_mask[n] \cup sg_stop_mask[n] \subseteq sg_array[n]
      BY <2>1 DEF FollowInv, InPlace
    <2> QED
      BY <2>2 DEF ChangeTypeOK, ChangeSharingInv, ChangeVarsType, TypeInv, TypeOK
  <1> QED
    BY FollowInvariant, <1>1, PTL

\* While SPF starts, suspends and stops what it is told to, the start count of a subgraph
\* is the number of nodes that have its start bit, over changes and partial closes and
\* whichever open, calibration or close fails, unless its own bits went astray.
THEOREM StartRefsFollowed ==
  ASSUME {"START", "SUSPEND", "STOP"} \cap Faults = {}
  PROVE  ChangeSpec => []StartRefsFollow
PROOF
  <1>1. ChangeSharingInv /\ FollowInv => StartRefsFollow
    BY DEF FollowInv, StartsDoNotFail, Follows, StartRefsFollow, Starters
  <1> QED
    BY FollowInvariant, <1>1, PTL

\* What a node has started runs while other handles are changed or closed in part, and
\* across the change of its own: the new node inherits the start bits of the old one
\* before SPF could be told to stop or close anything they share.
THEOREM ChangeRunsOn ==
  ASSUME {"START", "SUSPEND", "STOP"} \cap Faults = {}
  PROVE  ChangeSpec => []ChangeKeepsRunning
PROOF
  <1>1. ChangeSharingInv /\ FollowInv => ChangeKeepsRunning
    <2> SUFFICES ASSUME ChangeSharingInv, FollowInv, NEW n \in Node,
                        NEW s \in sg_start_mask[n] \ astray, spf[s] # "RUNNING"
                 PROVE  Suspending(n)
      BY DEF ChangeKeepsRunning
    <2>1. TypeInv /\ s \in SG
      BY DEF ChangeSharingInv, TypeInv, TypeOK
    <2>2. Follows(s)
      BY <2>1 DEF FollowInv, StartsDoNotFail
    <2>3. /\ start_ref_cnt[s] \in Nat \ {0}
          /\ start_ref_cnt[s] = 1 => \A m \in Node : s \in sg_start_mask[m] => m = n
      BY <2>1, <2>2, FollowedStarts
    <2>4. start_ref_cnt[s] > 0
      BY <2>3
    <2>5. PICK g \in Graph : /\ Waiting(g, "suspend", "SUSPEND")
                             /\ s \in StopInsteadList(call[g].node)
      BY <2>2, <2>4 DEF Follows, HalfSuspended
    <2>6. call[g].node \in Node /\ call[g].node[1] = g
      BY <2>1, <2>5, CallFacts DEF Waiting, NoCmd
    <2>7. call[g].node = n
      BY <2>3, <2>5, <2>6 DEF StopInsteadList, OnlyStarter
    <2> QED
      BY <2>5, <2>6, <2>7 DEF Suspending, Waiting
  <1> QED
    BY FollowInvariant, <1>1, PTL

\* Nothing runs on SPF that no node has started, although a change closes the old nodes
\* of its handle without stopping them first.
THEOREM NothingRunsUnownedOverChanges ==
  ASSUME {"START", "SUSPEND", "STOP"} \cap Faults = {}
  PROVE  ChangeSpec => []NothingRunsUnownedAfterChange
PROOF
  <1>1. ChangeSharingInv /\ FollowInv => NothingRunsUnownedAfterChange
    BY DEF FollowInv, StartsDoNotFail, Follows, NothingRunsUnownedAfterChange
  <1> QED
    BY FollowInvariant, <1>1, PTL
=============================================================================
