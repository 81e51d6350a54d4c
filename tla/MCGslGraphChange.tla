-------------------------- MODULE MCGslGraphChange --------------------------
(* Two handles: g1 may be changed from a path to the bare device and back, and may
   select both at once, g2 selects the bare device. *)
EXTENDS GslGraphChange, SequencesExt

CONSTANTS g1, g2

MCSgsOf ==
  [k \in GKV |-> SG \cap (IF k = "path" THEN {"stream", "device"} ELSE {"device"})]
MCGkvOf == [g \in Graph |-> IF g = g1 THEN {"path", "dev"} ELSE {"dev"}]
MCOrder == [s \in SG |-> IF s = "stream" THEN 1 ELSE 2]

-----------------------------------------------------------------------------
(* The loop of gsl_graph_remove_sgs_w_props turn by turn, on an array of positions. *)

WithoutOne(node, s) ==
  LET list == node.list
      at == CHOOSE i \in DOMAIN list : list[i] = s
  IN [list |-> Remove(list, s),
      bits |-> {list[i] : i \in {i \in DOMAIN list \ {at} :
                  list[i] \in node.bits \/ (i > at /\ list[i - 1] \in node.bits)}}]

Five == INSTANCE GslGraphChange WITH SG <- 1 .. 5, Order <- [i \in 1 .. 5 |-> i]

ASSUME MovesAsTheLoopDoes == \A gone, bits \in SUBSET (1 .. 5) :
  Five!MovedDown(bits, 1 .. 5, gone) =
    FoldLeft(WithoutOne, [list |-> [i \in 1 .. 5 |-> i], bits |-> bits],
             SetToSortSeq(gone, <)).bits
=============================================================================
