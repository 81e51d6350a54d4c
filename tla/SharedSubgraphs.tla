--------------------------- MODULE SharedSubgraphs ---------------------------
(***************************************************************************)
(* What GSL promises to the users of subgraphs they share: each user opens,*)
(* starts, halts and closes subgraphs as if they were its own, and no user *)
(* closes a subgraph that another one holds or halts one that another one  *)
(* has started.  A user is a GKV node of some graph handle.                *)
(***************************************************************************)
CONSTANTS SG, User

VARIABLES
  held,     \* [User -> set of subgraphs]: what the user has opened
  started,  \* [User -> set of subgraphs]: what it started and has not let go
  state     \* [SG -> state] on the DSP

uvars == <<held, started, state>>

Init ==
  /\ held = [u \in User |-> {}]
  /\ started = [u \in User |-> {}]
  /\ state = [s \in SG |-> "CLOSED"]

Becomes(sgs, st) == state' = [s \in SG |-> IF s \in sgs THEN st ELSE state[s]]
HeldByOther(u, s) == \E v \in User \ {u} : s \in held[v]
StartedByOther(u, s) == \E v \in User \ {u} : s \in started[v]

\* Subgraphs come up on the DSP on behalf of a user that does not hold them yet,
Prepare(sgs) ==
  /\ \A s \in sgs : state[s] = "CLOSED"
  /\ Becomes(sgs, "STOPPED")
  /\ UNCHANGED <<held, started>>

\* and go down again when the user does not get them after all.
Abandon(sgs) ==
  /\ \A s \in sgs, u \in User : s \notin held[u] /\ s \notin started[u]
  /\ Becomes(sgs, "CLOSED")
  /\ UNCHANGED <<held, started>>

Hold(u, sgs) ==
  /\ held[u] = {} /\ \A s \in sgs : state[s] # "CLOSED"
  /\ held' = [held EXCEPT ![u] = sgs]
  /\ UNCHANGED <<started, state>>

Start(u) ==
  /\ started' = [started EXCEPT ![u] = held[u]]
  /\ Becomes(held[u], "RUNNING")
  /\ UNCHANGED held

\* The user lets go of what it started; the DSP halts what nobody else started.
Halt(u, sgs, kept, st) ==
  /\ st \in {"STOPPED", "SUSPENDED"}
  /\ sgs \subseteq held[u] /\ kept \subseteq started[u]
  /\ \A s \in sgs : ~StartedByOther(u, s)
  /\ Becomes(sgs, st)
  /\ started' = [started EXCEPT ![u] = kept]
  /\ UNCHANGED held

Close(u, sgs) ==
  /\ sgs \subseteq held[u]
  /\ \A s \in sgs : ~HeldByOther(u, s)
  /\ Becomes(sgs, "CLOSED")
  /\ held' = [held EXCEPT ![u] = {}]
  /\ started' = [started EXCEPT ![u] = {}]

Next ==
  \/ \E sgs \in SUBSET SG : Prepare(sgs) \/ Abandon(sgs)
  \/ \E u \in User :
       \/ Start(u)
       \/ \E sgs \in SUBSET SG : Hold(u, sgs) \/ Close(u, sgs)
       \/ \E sgs, kept \in SUBSET SG, st \in {"STOPPED", "SUSPENDED"} :
            Halt(u, sgs, kept, st)

Spec == Init /\ [][Next]_uvars
=============================================================================
