----------------------------- MODULE MCGslSignal -----------------------------
(* The three command groups of a graph (enum gsl_graph_sig); a run picks the
   commands that matter to its question. *)
EXTENDS GslSignal

MCGroupOf ==
  [op \in Opcode |-> CASE op \in {"START", "STOP"} -> "grp1"
                       [] op = "CLOSE"             -> "grp3"
                       [] OTHER                    -> "grp2"]
=============================================================================
