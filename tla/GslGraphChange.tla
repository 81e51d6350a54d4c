--------------------------- MODULE GslGraphChange ---------------------------
(***************************************************************************)
(* GslGraph with the two calls that alter a graph in place:                *)
(* GSL_CMD_CHANGE_GRAPH replaces all GKV nodes of a handle by one new node *)
(* while SPF keeps what both need (gsl_graph_change), and                  *)
(* GSL_CMD_CLOSE_WITH_PROPS takes the subgraphs that match given           *)
(* properties out of a node (gsl_graph_close_with_properties).             *)
(*                                                                         *)
(* Both move subgraphs within or between the sg_arrays of nodes, and with  *)
(* them the bits of the start and stop masks, which belong to positions in *)
(* these arrays: here, and only here, their order matters.                 *)
(***************************************************************************)
EXTENDS GslGraph

CONSTANT Order   \* the rank of a subgraph in the lists ACDB returns, whatever the GKV

ASSUME OrderType ==
  /\ IsFiniteSet(SG) /\ Order \in [SG -> Nat]
  /\ \A s, t \in SG : Order[s] = Order[t] => s = t

VARIABLES
  pruned_sgids,  \* [Graph -> set]: what the change in progress has to open on SPF
  stray,         \* [Node -> Nat]: start bits at positions past the end of sg_array
  astray         \* history: subgraphs whose start bits a call of this module lost,
                 \* doubled or invented while the counts stayed

cvars == <<pruned_sgids, stray, astray>>
allvars == <<vars, cvars>>

ChangeInit ==
  /\ Init
  /\ pruned_sgids = [g \in Graph |-> {}]
  /\ stray = [n \in Node |-> 0] /\ astray = {}

\* The position of a subgraph, and of its mask bits, in an array of sgs.
Pos(s, sgs) == Cardinality({t \in sgs : Order[t] <= Order[s]})

\* A node starts with no bit past its end.  What is astray stays so until the pool has
\* freed the object and SPF does not run it.
Noting(stays, lost) ==
  /\ stray' = [n \in Node |-> IF n \in gkv_list' THEN stays[n] ELSE 0]
  /\ astray' = {s \in astray \cup lost : open_ref_cnt'[s] > 0 \/ spf'[s] = "RUNNING"}

NothingAstray == Noting(stray, {})

-----------------------------------------------------------------------------
(* GSL_CMD_CHANGE_GRAPH: gsl_graph_change.  todo holds the old nodes and the
   new one, which is not linked yet. *)

NewNode(g) == CHOOSE n \in call[g].todo : n \notin gkv_list
OldNodes(g) == call[g].todo \cap gkv_list

\* The new GKV is one the handle has not selected (a pair of both names a node).
\* The references of the new node come before those of the old ones go, so that what
\* both hold is not closed; what only the new one holds is to be opened.
ChangeGraph(g) == \E k \in GkvOf[g] :
  LET n == <<g, k>>
  IN /\ IsIdle(g) /\ graph_state[g] # "NONE" /\ n \notin gkv_list /\ SgsOf[k] # {}
     /\ \A s \in SgsOf[k] : start_ref_cnt[s] + stop_ref_cnt[s] <= MaxRefs
     /\ TakeOc(g)
     /\ sg_array' = [sg_array EXCEPT ![n] = SgsOf[k]]
     /\ open_ref_cnt' = Bump(open_ref_cnt, SgsOf[k])
     /\ pruned_sgids' = [pruned_sgids EXCEPT ![g] = {s \in SgsOf[k] : open_ref_cnt[s] = 0}]
     /\ SetCall(g, Call("change", NodesOf(g) \cup {n}, NoNode))
     /\ UNCHANGED <<graph_state, gkv_list, masks, start_ref_cnt, stop_ref_cnt,
                    start_stop_lock, spf, stray, astray>>

\* Mutant of ReplaceNode: the start bits of the old node are not handed on.
ReplaceNodeWithoutBits(g, old) ==
  LET n == NewNode(g)
      moved == (sg_start_mask[old] \cap sg_array[n]) \ sg_start_mask[n]
  IN /\ PoolRemove(sg_array[old])
     /\ gkv_list' = gkv_list \ {old}
     /\ sg_array' = [sg_array EXCEPT ![old] = {}]
     /\ sg_start_mask' = [sg_start_mask EXCEPT ![old] = {}]
     /\ sg_stop_mask' = [sg_stop_mask EXCEPT
                           ![old] = {}, ![n] = @ \cup (sg_stop_mask[old] \cap sg_array[n])]
     /\ NextNode(g, old)
     /\ Noting(stray, sg_start_mask[old] \ moved)
     /\ UNCHANGED pruned_sgids

\* gsl_transfer_sg_masks and the tail of gsl_graph_close_single_gkv.  The bits are in
\* fact moved before the CLOSE is sent, but nobody looks at a node that is not linked.
ReplaceNode(g, old) ==
  LET n == NewNode(g)
      moved == (sg_start_mask[old] \cap sg_array[n]) \ sg_start_mask[n]
  IN /\ PoolRemove(sg_array[old])
     /\ gkv_list' = gkv_list \ {old}
     /\ sg_array' = [sg_array EXCEPT ![old] = {}]
     /\ sg_start_mask' = [sg_start_mask EXCEPT ![old] = {}, ![n] = @ \cup moved]
     /\ sg_stop_mask' = [sg_stop_mask EXCEPT
                           ![old] = {}, ![n] = @ \cup (sg_stop_mask[old] \cap sg_array[n])]
     /\ NextNode(g, old)
     /\ Noting(stray, sg_start_mask[old] \ moved)
     /\ UNCHANGED pruned_sgids

ChangeCloses(g) == \E old \in OldNodes(g) :
  /\ Working(g, "change")
  /\ UNCHANGED <<graph_state, locks, spf>>
  /\ \/ Pruned(sg_array[old]) = {} /\ ReplaceNode(g, old)
     \/ /\ SendSpfCmd(g, old, "CLOSE", Pruned(sg_array[old]))
        /\ UNCHANGED <<gkv_list, sg_array, masks, pool, cvars>>

\* Whether SPF closed the subgraphs or not, the change goes on.
ChangeClosed(g) ==
  /\ Waiting(g, "change", "CLOSE") /\ call[g].node \in gkv_list
  /\ \/ SpfDoes(call[g].sgs, "CLOSED")
     \/ SpfMayFail("CLOSE") /\ UNCHANGED spf
  /\ ReplaceNode(g, call[g].node)
  /\ UNCHANGED <<graph_state, locks>>

ChangeDone(g, n) ==
  /\ LinkNode(g, n)
  /\ pruned_sgids' = [pruned_sgids EXCEPT ![g] = {}]
  /\ NothingAstray

ChangeOpens(g) ==
  LET n == NewNode(g)
  IN /\ Working(g, "change") /\ OldNodes(g) = {}
     /\ UNCHANGED spf
     /\ \/ pruned_sgids[g] = {} /\ ChangeDone(g, n)
        \/ /\ SendSpfCmd(g, n, "OPEN", pruned_sgids[g])
           /\ UNCHANGED <<graph_state, gkv_list, sg_array, masks, pool, locks, cvars>>

ChangeOpened(g) ==
  /\ Waiting(g, "change", "OPEN") /\ SpfCanOpen(call[g].sgs)
  /\ SpfDoes(call[g].sgs, "STOPPED")
  /\ \/ call[g].sgs = {} /\ ChangeDone(g, call[g].node)
     \/ /\ call[g].sgs # {}
        /\ SendSpfCmd(g, call[g].node, "SET_CFG", call[g].sgs)
        /\ UNCHANGED <<graph_state, gkv_list, sg_array, masks, pool, locks, cvars>>

ChangeCalOk(g) ==
  /\ Waiting(g, "change", "SET_CFG")
  /\ UNCHANGED spf
  /\ ChangeDone(g, call[g].node)

\* Mutant of ChangeCalFailed: closes the whole new node, not what was opened for it.
ChangeCalFailedClosesAll(g) ==
  /\ Waiting(g, "change", "SET_CFG") /\ SpfMayFail("SET_CFG")
  /\ SendSpfCmd(g, call[g].node, "CLOSE", sg_array[call[g].node])
  /\ UNCHANGED <<graph_state, gkv_list, sg_array, masks, pool, locks, spf, cvars>>

ChangeCalFailed(g) ==
  /\ Waiting(g, "change", "SET_CFG") /\ SpfMayFail("SET_CFG")
  /\ SendSpfCmd(g, call[g].node, "CLOSE", call[g].sgs)
  /\ UNCHANGED <<graph_state, gkv_list, sg_array, masks, pool, locks, spf, cvars>>

\* Mutant of KeepExisting: the node forgets what was not opened, the pool does not.
KeepExistingAndRefs(g, n) ==
  LET all == sg_array[n]
      kept == all \ pruned_sgids[g]
      Now(mask) == {s \in kept : \E t \in mask : Pos(t, all) = Pos(s, kept)}
      beyond == {t \in sg_start_mask[n] : Pos(t, all) > Cardinality(kept)}
      before == sg_start_mask[n]
  IN /\ UNCHANGED pool
     /\ gkv_list' = gkv_list \cup {n}
     /\ sg_array' = [sg_array EXCEPT ![n] = kept]
     /\ sg_start_mask' = [sg_start_mask EXCEPT ![n] = Now(@)]
     /\ sg_stop_mask' = [sg_stop_mask EXCEPT ![n] = Now(@)]
     /\ Noting([stray EXCEPT ![n] = Cardinality(beyond)],
               (before \ Now(before)) \cup (Now(before) \ before))

\* The new node is linked all the same, with what was open before: the references to
\* the rest are dropped.  Its masks stay as they were, so that a bit now stands for
\* the subgraph that has moved to its position, or for none.
KeepExisting(g, n) ==
  LET all == sg_array[n]
      kept == all \ pruned_sgids[g]
      Now(mask) == {s \in kept : \E t \in mask : Pos(t, all) = Pos(s, kept)}
      beyond == {t \in sg_start_mask[n] : Pos(t, all) > Cardinality(kept)}
      before == sg_start_mask[n]
  IN /\ PoolRemove(pruned_sgids[g])
     /\ gkv_list' = gkv_list \cup {n}
     /\ sg_array' = [sg_array EXCEPT ![n] = kept]
     /\ sg_start_mask' = [sg_start_mask EXCEPT ![n] = Now(@)]
     /\ sg_stop_mask' = [sg_stop_mask EXCEPT ![n] = Now(@)]
     /\ Noting([stray EXCEPT ![n] = Cardinality(beyond)],
               (before \ Now(before)) \cup (Now(before) \ before))

ChangeFailed(g) ==
  /\ \/ /\ Waiting(g, "change", "OPEN")
        /\ SpfMayFail("OPEN") \/ ~SpfCanOpen(call[g].sgs)
        /\ UNCHANGED spf
     \/ /\ Waiting(g, "change", "CLOSE") /\ call[g].node \notin gkv_list
        /\ SpfDoes(call[g].sgs, "CLOSED") \/ (SpfMayFail("CLOSE") /\ UNCHANGED spf)
  /\ KeepExisting(g, call[g].node)
  /\ pruned_sgids' = [pruned_sgids EXCEPT ![g] = {}]
  /\ ReleaseOc(g, Idle)
  /\ UNCHANGED graph_state

-----------------------------------------------------------------------------
(* GSL_CMD_CLOSE_WITH_PROPS: gsl_graph_close_with_properties. *)

CloseWithProperties(g) == \E n \in NodesOf(g) :
  /\ IsIdle(g)
  /\ TakeOc(g)
  /\ SetCall(g, Call("close_props", {n}, n))
  /\ UNCHANGED <<graph_state, gkv_list, sg_array, masks, pool, start_stop_lock, spf, cvars>>

\* The bits after the loop of gsl_graph_remove_sgs_w_props has taken gone out of the
\* array.  A turn moves those behind the subgraph down by one, but a bit that was set at
\* a position stays set there: in the end a subgraph has its bit if one was set anywhere
\* from its new position to its old one.
MovedDown(mask, all, gone) ==
  {s \in all \ gone : \E t \in mask :
     Pos(s, all \ gone) <= Pos(t, all) /\ Pos(t, all) <= Pos(s, all)}

RemoveMatching(g, n) ==
  LET Now(mask) == MovedDown(mask, sg_array[n], Matching)
      before == sg_start_mask[n]
  IN /\ PoolRemove(sg_array[n] \cap Matching)
     /\ sg_array' = [sg_array EXCEPT ![n] = @ \ Matching]
     /\ sg_start_mask' = [sg_start_mask EXCEPT ![n] = Now(@)]
     /\ sg_stop_mask' = [sg_stop_mask EXCEPT ![n] = Now(@)]
     /\ ReleaseOc(g, Idle)
     /\ UNCHANGED <<gkv_list, pruned_sgids>>
     /\ Noting(stray, (before \ Now(before)) \cup (Now(before) \ before))

ClosesMatching(g) ==
  LET n == call[g].node
      sgs == Pruned(sg_array[n] \cap Matching)
  IN /\ Working(g, "close_props")
     /\ UNCHANGED <<graph_state, spf>>
     /\ \/ sgs = {} /\ RemoveMatching(g, n)
        \/ /\ SendSpfCmd(g, n, "CLOSE", sgs)
           /\ UNCHANGED <<gkv_list, sg_array, masks, pool, locks, cvars>>

ClosedMatching(g) ==
  /\ Waiting(g, "close_props", "CLOSE")
  /\ SpfDoes(call[g].sgs, "CLOSED") \/ (SpfMayFail("CLOSE") /\ UNCHANGED spf)
  /\ RemoveMatching(g, call[g].node)
  /\ UNCHANGED graph_state

-----------------------------------------------------------------------------
(* The calls of GslGraph on a node with stray bits: gsl_graph_start compares the
   number of bits with that of subgraphs, gsl_graph_remove_old looks for any bit. *)

LooksStarted(n) == Cardinality(sg_start_mask[n]) + stray[n] = Cardinality(sg_array[n])
Strayed(g) == {n \in call[g].todo : Working(g, "start") /\ stray[n] > 0}

StartsStrayed(g) == \E n \in Strayed(g) :
  /\ \/ LooksStarted(n) /\ NextNode(g, n) /\ UNCHANGED <<masks, pool>>
     \/ /\ ~LooksStarted(n) /\ StartList(n) = {}
        /\ CountStarted(n)
        /\ NextNode(g, n)
     \/ /\ ~LooksStarted(n) /\ StartList(n) # {}
        /\ SendSpfCmd(g, n, "START", StartList(n))
        /\ UNCHANGED <<masks, pool>>
  /\ UNCHANGED <<graph_state, gkv_list, sg_array, locks, spf>>
  /\ NothingAstray /\ UNCHANGED pruned_sgids

RemovesAfterStop(g) == \E n \in NodesOf(g) :
  /\ IsIdle(g) /\ stray[n] > 0
  /\ start_stop_lock = Free /\ start_stop_lock' = g
  /\ SetCall(g, Call("remove:stop", {n}, n))
  /\ UNCHANGED <<graph_state, gkv_list, sg_array, masks, pool, open_close_lock, spf, cvars>>

\* RemoveGraph alone would not stop a node whose only bits are stray.
PlainStep(g) ==
  /\ Strayed(g) = {}
  /\ ClientCall(g) \/ CallStep(g)
  /\ \A n \in NodesOf(g) :
       IsIdle(g) /\ stray[n] > 0 => call'[g] # Call("remove:wait", {}, n)
  /\ NothingAstray /\ UNCHANGED pruned_sgids

ChangeStep(g) ==
  \/ ChangeCloses(g) \/ ChangeClosed(g) \/ ChangeOpens(g) \/ ChangeOpened(g)
  \/ ChangeCalOk(g) \/ ChangeCalFailed(g) \/ ChangeFailed(g)
  \/ ClosesMatching(g) \/ ClosedMatching(g) \/ StartsStrayed(g)

ChangeNext == \E g \in Graph :
  \/ PlainStep(g)
  \/ ChangeGraph(g) \/ CloseWithProperties(g) \/ RemovesAfterStop(g)
  \/ ChangeStep(g)

ChangeSpec == ChangeInit /\ [][ChangeNext]_allvars

-----------------------------------------------------------------------------
\* The type of every variable.
ChangeTypeOK ==
  /\ gkv_list \subseteq Node /\ sg_array \in [Node -> SUBSET SG]
  /\ \A n \in Node : sg_start_mask[n] \cup sg_stop_mask[n] \subseteq sg_array[n]
  /\ open_ref_cnt \in [SG -> Nat] /\ start_ref_cnt \in [SG -> Nat]
  /\ stop_ref_cnt \in [SG -> Nat]
  /\ call \in [Graph -> CallRecord]
  /\ pruned_sgids \in [Graph -> SUBSET SG]
  /\ stray \in [Node -> 0 .. Cardinality(SG)] /\ astray \subseteq SG

\* Over changes and partial closes too, whatever they share, and whichever open,
\* calibration or close fails, the start count is the number of nodes that started the
\* subgraph, unless its own bits went astray.
StartRefsFollow == \A s \in SG \ astray :
  start_ref_cnt[s] = Cardinality({n \in Node : s \in sg_start_mask[n]})

\* What a node started runs on while other handles are changed, or closed in part, and
\* across the change of its own: a subgraph of the old and of the new graph is neither
\* closed nor stopped in between.
ChangeKeepsRunning == \A n \in Node : \A s \in sg_start_mask[n] \ astray :
  spf[s] = "RUNNING" \/ Suspending(n)

\* Nothing runs that nobody has started, although a change closes the old nodes without
\* stopping them.
NothingRunsUnownedAfterChange ==
  \A s \in SG \ astray : spf[s] = "RUNNING" => Starters(s) # {}

\* "now we must adjust the GKV node to represent what is still open" (gsl_graph_change):
\* the masks of a node that was changed are those of its subgraphs.
\* The code does not keep this: README, section 4.
NothingGoesAstray == astray = {}
=============================================================================
