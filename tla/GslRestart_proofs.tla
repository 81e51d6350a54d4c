-------------------------- MODULE GslRestart_proofs --------------------------
(***************************************************************************)
(* The safety of the restart of a subsystem, for any graphs, processors    *)
(* and bounds.                                                             *)
(*                                                                         *)
(* Most steps are a client's: they change the call and the graph of that   *)
(* client alone (OthersAreSame), so that what holds of one graph           *)
(* (GraphInv, LostIsKnown) is shown for that graph only.  The walk of the  *)
(* callback is the other actor: graph_hdl_lock keeps what it has to visit  *)
(* in the list (WalkInv).  RestartInv relates the notices in the queue to  *)
(* spf_restart.                                                            *)
(***************************************************************************)
EXTENDS GslRestart, TLAPS

\* Where the call of g is, or goes on when its wait or its update of the state is over.
Place(g) == IF call[g].pc \in {"waiting", "writing"} THEN call[g].then ELSE call[g].pc

Awaited == {"opened", "cal", "reset", "failed", "started", "stopped", "close_done"}
\* Places at which SPF has opened nothing for g.
Unopened == Fresh \cup Giving \cup {"attempt", "check", "send", "close_release", "close_deinit"}

\* g is in an error state, or was until a client's update overwrote it.
Shut(g) == InError(g) \/ g \in revived

\* The walk of the callback is going to name g to the client, or some walk has.
Named(g) == g \in told \/ (servreg.pc = "scan" /\ g \in servreg.handles)

\* The call of g: a wait is for the answer of some command, a write is of a state that
\* belongs to the place, and a try is left for each attempt.
CallOk(g) ==
  /\ Place(g) \in Places
  /\ call[g].pc = "waiting" => call[g].then \in Awaited
  /\ call[g].pc = "writing" =>
       \/ call[g].then \in {"reset_unlock", "failed_unlock"} /\ call[g].new = "IDLE"
       \/ call[g].then = "start_unlock" /\ call[g].new = "STARTED"
       \/ call[g].then = "stop" /\ call[g].new = "STOPPED"
  /\ Place(g) \in {"lock", "satellites", "load", "init", "attempt"} => call[g].tries # 0

\* A graph that has not been initialised is as gsl_mem_zalloc left it.
FreshIsBlank(g) ==
  Place(g) \in Fresh =>
    graph_state[g] = "IDLE" /\ ss_mask[g] = {} /\ events[g] = NoEvents

\* Signals exist from gsl_graph_init to gsl_graph_deinit, and a graph that is listed
\* without them is idle or in an error state.
SignalsWhileAlive(g) ==
  /\ Place(g) \notin Fresh \cup {"release"} => g \in signals_exist
  /\ Place(g) \in {"closed", "close_deinit"} => g \notin graph_list
  /\ call[g].pc \in Giving => graph_state[g] = "IDLE" \/ InError(g)

\* A reset is reported only to a graph that is shut.
ResetOnlyIfShut(g) ==
  /\ \A grp \in Grp : "SSR" \in events[g][grp] => Shut(g)
  /\ call[g].rc = "SSR" => Shut(g)
  /\ Place(g) \in {"reset", "reset_unlock"} => Shut(g)

\* Between gsl_graph_init and the end of a failed gsl_open or of gsl_close a graph is not
\* idle.
BusyIsNotIdle(g) == Place(g) \in Opening \cup Running => graph_state[g] # "IDLE" \/ g \in revived

\* The mask is set for as long as SPF may have the graph open.
MaskIsSet(g) ==
  /\ Place(g) \notin Fresh \cup {"attempt"} => ss_mask[g] = Mask(g)
  /\ DOMAIN opened_on[g] \subseteq Mask(g)
  /\ Place(g) \in Unopened => opened_on[g] = NeverOpened

\* The client is told of a graph that is shut, and of no other that it can still use.
NamedIfShut(g) ==
  /\ Shut(g) => Named(g)
  /\ Named(g) => Shut(g) \/ Place(g) \in Giving

GraphInv(g) ==
  /\ CallOk(g) /\ FreshIsBlank(g) /\ SignalsWhileAlive(g) /\ ResetOnlyIfShut(g)
  /\ BusyIsNotIdle(g) /\ MaskIsSet(g) /\ NamedIfShut(g)

\* The walk holds graph_hdl_lock, so that what it has yet to visit stays in the list.
WalkInv ==
  /\ graph_hdl_lock = (IF servreg.pc = "scan" THEN Servreg ELSE Free)
  /\ servreg.pc = "scan" => servreg.todo \subseteq graph_list
  /\ servreg.pc # "scan" => servreg.handles = {}
  /\ SignalsOutliveTheWalk

\* What g has opened on a processor that is gone is known to be lost, or will be.
LostIsKnown(g) ==
  \A p \in DOMAIN opened_on[g] : g \in graph_list /\ Lost(g, p) => Shut(g) \/ DownPending(g, p)

\* A restart that nobody has configured is on its way to spf_restart.
UpPending == Queued(Master, "UP") \/ (servreg.pc = "up" /\ servreg.proc = Master)

\* Whoever configures an incarnation of the master that is gone has been overtaken by
\* the news of the next one, or will be.
StaleIsOvertaken ==
  \A g \in Graph :
    Configuring(g) /\ alive[Master] /\ incarnation[Master] # call[g].sent
      => UpPending \/ overlapped

RestartInv == RestartIsRemembered /\ StaleIsOvertaken

RegistryInv ==
  /\ Master \in group
  /\ \A p \in Proc : ~alive[p] => p \in group
  /\ \A i \in DOMAIN notices : notices[i].proc \in group
  /\ servreg.proc \in group

CallsTyped == call \in [Graph -> Calls]

Functions ==
  /\ graph_state \in [Graph -> States] /\ ss_mask \in [Graph -> SUBSET Proc]
  /\ events \in [Graph -> [Grp -> SUBSET {"OK", "FAIL", "SSR"}]]
  /\ DOMAIN opened_on = Graph

-----------------------------------------------------------------------------
(* What the helpers do to the record of a call. *)

OthersWait(g) == \A h \in Graph \ {g} : call'[h] = call[h]

LEMMA GotoDoes ==
  ASSUME CallsTyped, NEW g \in Graph, NEW label, Goto(g, label)
  PROVE  /\ OthersWait(g) /\ call'[g].pc = label /\ call'[g].then = call[g].then
         /\ call'[g].rc = call[g].rc /\ call'[g].new = call[g].new
         /\ call'[g].tries = call[g].tries /\ call'[g].sent = call[g].sent
  BY DEF CallsTyped, Goto, Calls, OthersWait

LEMMA GotoWithDoes ==
  ASSUME CallsTyped, NEW g \in Graph, NEW label, NEW rc, GotoWith(g, label, rc)
  PROVE  /\ OthersWait(g) /\ call'[g].pc = label /\ call'[g].then = call[g].then
         /\ call'[g].rc = rc /\ call'[g].new = call[g].new
         /\ call'[g].tries = call[g].tries /\ call'[g].sent = call[g].sent
  BY DEF CallsTyped, GotoWith, Calls, OthersWait

LEMMA SendsDoes ==
  ASSUME CallsTyped, NEW g \in Graph, NEW grp, NEW next, Sends(g, grp, next)
  PROVE  /\ OthersWait(g) /\ call'[g].pc = "waiting" /\ call'[g].then = next
         /\ call'[g].rc = call[g].rc /\ call'[g].new = call[g].new
         /\ call'[g].tries = call[g].tries
  BY DEF CallsTyped, Sends, Calls, OthersWait

LEMMA ReturnsDoes ==
  ASSUME CallsTyped, NEW g \in Graph, NEW result, Returns(g, result)
  PROVE  /\ OthersWait(g) /\ call'[g].pc = call[g].then /\ call'[g].then = "none"
         /\ call'[g].rc = result /\ call'[g].tries = call[g].tries
  BY DEF CallsTyped, Returns, Calls, NoCall, OthersWait

LEMMA UpdatesDoes ==
  ASSUME CallsTyped, NEW g \in Graph, NEW new, NEW next, Updates(g, new, next)
  PROVE  /\ OthersWait(g) /\ call'[g].rc = "OK" /\ call'[g].tries = call[g].tries
         /\ \/ InError(g) /\ call'[g].pc = next
            \/ ~InError(g) /\ call'[g].pc = "writing" /\ call'[g].then = next /\ call'[g].new = new
  <1>1. CASE InError(g)
    BY <1>1, GotoWithDoes DEF Updates
  <1>2. CASE ~InError(g)
    BY <1>2 DEF CallsTyped, Updates, Calls, OthersWait
  <1> QED BY <1>1, <1>2

LEMMA CommandDoes ==
  ASSUME CallsTyped, NEW g \in Graph, NEW grp, NEW next, Command(g, grp, next)
  PROVE  /\ OthersWait(g) /\ call'[g].new = call[g].new /\ call'[g].tries = call[g].tries
         /\ \/ call'[g].pc = "waiting" /\ call'[g].then = next /\ call'[g].rc = call[g].rc
            \/ call'[g].pc = next /\ call'[g].rc = "FAIL"
  BY SendsDoes, GotoWithDoes DEF Command

LEMMA NoCallDoes ==
  ASSUME CallsTyped, NEW g \in Graph, NEW label, call' = [call EXCEPT ![g] = NoCall(label)]
  PROVE  /\ OthersWait(g) /\ call'[g].pc = label /\ call'[g].rc = "OK" /\ call'[g].tries = 0
  BY DEF CallsTyped, NoCall, OthersWait

-----------------------------------------------------------------------------
(* A step of one client leaves the others' graphs, the walk and the world alone. *)

Same(h) ==
  /\ call'[h] = call[h] /\ graph_state'[h] = graph_state[h] /\ ss_mask'[h] = ss_mask[h]
  /\ events'[h] = events[h] /\ opened_on'[h] = opened_on[h]
  /\ h \in graph_list' <=> h \in graph_list
  /\ h \in signals_exist' <=> h \in signals_exist
  /\ h \in told' <=> h \in told
  /\ h \in revived' <=> h \in revived

WorldKeeps == UNCHANGED <<world, registry, overlapped, graph_hdl_lock, bad_signal>>

ClientStep(g) ==
  \/ GetsHandle(g) \/ Start(g) \/ Stop(g) \/ CallStep(g)
  \/ SpfAnswers(g) \/ MainAnswer(g) \/ TimesOut(g)

\* The steps that change nothing of a graph but its call.
CallMoves(g) ==
  \/ Start(g) \/ Stop(g) \/ ReadsRestart(g) \/ SatellitesTimeOut(g) \/ Loads(g) \/ Checks(g)
  \/ SendsOpen(g) \/ SetsCal(g) \/ ReturnsOpen(g) \/ ClosesAgain(g) \/ EndsAttempt(g)
  \/ StartSends(g) \/ Started(g) \/ ReturnsStart(g) \/ StopSends(g) \/ EndsStop(g)
  \/ CloseLocks(g) \/ CloseSends(g) \/ TimesOut(g)

LEMMA MovesKeep ==
  ASSUME NEW g \in Graph, CallMoves(g)
  PROVE  WorldKeeps /\ UNCHANGED <<graph_list, graph_state, ss_mask, events, signals_exist>> /\ UNCHANGED history
  BY DEF CallMoves, WorldKeeps, world, registry, locks, graphs, history, restart,
         Start, Stop, ReadsRestart, SatellitesTimeOut, Loads, Checks, SendsOpen, SetsCal,
         ReturnsOpen, ClosesAgain, EndsAttempt, StartSends, Started, ReturnsStart, StopSends,
         EndsStop, CloseLocks, CloseSends, TimesOut, Unlocks

LEMMA MovesAreOwn ==
  ASSUME CallsTyped, NEW g \in Graph, CallMoves(g)
  PROVE  OthersWait(g)
  <1>1. ASSUME NEW label, Goto(g, label) PROVE OthersWait(g) BY <1>1, GotoDoes
  <1>2. ASSUME NEW grp, NEW next, Command(g, grp, next) PROVE OthersWait(g) BY <1>2, CommandDoes
  <1>3. ASSUME NEW new, NEW next, Updates(g, new, next) PROVE OthersWait(g) BY <1>3, UpdatesDoes
  <1>4. ASSUME NEW label, call' = [call EXCEPT ![g] = NoCall(label)] PROVE OthersWait(g) BY <1>4, NoCallDoes
  <1>5. ASSUME NEW result, Returns(g, result) PROVE OthersWait(g) BY <1>5, ReturnsDoes
  <1>6. CASE ReadsRestart(g) \/ SatellitesTimeOut(g) \/ Loads(g)
    BY <1>6, <1>1 DEF CallsTyped, OthersWait, ReadsRestart, SatellitesTimeOut, Loads, Calls
  <1>7. CASE Start(g) \/ Checks(g) \/ EndsAttempt(g) \/ CloseLocks(g)
    BY <1>7, <1>1 DEF Start, Checks, EndsAttempt, CloseLocks
  <1>8. CASE SendsOpen(g) \/ ClosesAgain(g) \/ StartSends(g) \/ StopSends(g)
    BY <1>8, <1>2 DEF SendsOpen, ClosesAgain, StartSends, StopSends
  <1>9. CASE SetsCal(g) \/ CloseSends(g)
    BY <1>9, <1>1, <1>2 DEF SetsCal, CloseSends
  <1>10. CASE Started(g) \/ Stop(g)
    BY <1>10, <1>1, <1>3 DEF Started, Stop
  <1>11. CASE ReturnsOpen(g) \/ ReturnsStart(g) \/ EndsStop(g)
    BY <1>11, <1>4 DEF ReturnsOpen, ReturnsStart, EndsStop
  <1>12. CASE TimesOut(g)
    BY <1>12, <1>5 DEF TimesOut
  <1> QED BY <1>6, <1>7, <1>8, <1>9, <1>10, <1>11, <1>12 DEF CallMoves

LEMMA OthersAreSame ==
  ASSUME CallsTyped, Functions, NEW g \in Graph, ClientStep(g)
  PROVE  WorldKeeps /\ \A h \in Graph \ {g} : Same(h)
  <1>1. CASE CallMoves(g)
    BY <1>1, MovesKeep, MovesAreOwn DEF OthersWait, Same, history
  <1>2. CASE GetsHandle(g)
    BY <1>2 DEF CallsTyped, GetsHandle, WorldKeeps, Same, world, registry, locks, restart, history
  <1>3. CASE InitsGraph(g)
    BY <1>3, GotoDoes DEF OthersWait, Functions, InitsGraph, WorldKeeps, Same, world, registry,
       locks, restart, history
  <1>4. CASE Attempts(g)
    BY <1>4 DEF CallsTyped, Functions, Attempts, WorldKeeps, Same, world, registry, locks,
       restart, history
  <1>5. CASE FailsOpen(g)
    BY <1>5, UpdatesDoes DEF OthersWait, Functions, FailsOpen, WorldKeeps, Same, world, registry,
       locks, restart, graphs
  <1>6. CASE DropsGraph(g) \/ FreesGraph(g)
    BY <1>6 DEF CallsTyped, Functions, DropsGraph, FreesGraph, Deinits, ReleasesHandle, Keeps,
       Frees, WorldKeeps, Same, world, registry, locks, restart, history
  <1>7. CASE EndsClose(g)
    BY <1>7, NoCallDoes DEF OthersWait, Functions, EndsClose, Unlocks, WorldKeeps, Same, world,
       registry, restart, graphs
  <1>8. CASE Wakes(g)
    BY <1>8, ReturnsDoes DEF OthersWait, Functions, Wakes, WorldKeeps, Same, world, registry,
       locks, restart, history
  <1>9. CASE WritesState(g)
    BY <1>9 DEF CallsTyped, Functions, WritesState, WorldKeeps, Same, world, registry, locks,
       restart, history
  <1>10. CASE SpfAnswers(g)
    BY <1>10 DEF Functions, SpfAnswers, WorldKeeps, Same, world, registry, locks, restart, history
  <1>11. CASE MainAnswer(g)
    BY <1>11 DEF MainAnswer, WorldKeeps, Same, world, registry, locks, restart, history, graphs
  <1> QED BY <1>1, <1>2, <1>3, <1>4, <1>5, <1>6, <1>7, <1>8, <1>9, <1>10, <1>11
          DEF ClientStep, CallStep, Opens, Starts, Closes, CallMoves

LEMMA SameKeeps ==
  ASSUME NEW h \in Graph, Same(h), GraphInv(h), UNCHANGED <<group, servreg>>
  PROVE  GraphInv(h)'
  BY DEF Same, GraphInv, CallOk, FreshIsBlank, SignalsWhileAlive, ResetOnlyIfShut,
         BusyIsNotIdle, MaskIsSet, NamedIfShut, Place, Shut, Named, InError, Mask

LEMMA SameStaysKnown ==
  ASSUME NEW h \in Graph, Same(h), LostIsKnown(h), UNCHANGED <<alive, incarnation, notices, servreg>>
  PROVE  LostIsKnown(h)'
  BY DEF Same, LostIsKnown, Lost, Shut, InError, DownPending, Queued

-----------------------------------------------------------------------------
(* The graph of the client that takes the step. *)


\* What a step that changes only the call of g does to it.
GoodMove(g) ==
  /\ CallOk(g)'
  /\ Place(g)' \in Fresh => Place(g) \in Fresh
  /\ Place(g)' \notin Fresh \cup {"release"} => Place(g) \notin Fresh \cup {"release"}
  /\ Place(g)' \in {"closed", "close_deinit"} => Place(g) \in {"closed", "close_deinit"}
  /\ call'[g].pc \in Giving => graph_state[g] = "IDLE" \/ InError(g)
  /\ call'[g].rc = "SSR" => Shut(g)
  /\ Place(g)' \in {"reset", "reset_unlock"} => Shut(g)
  /\ Place(g)' \in Opening \cup Running => Place(g) \in Opening \cup Running \/ Shut(g)
  /\ Place(g)' \notin Fresh \cup {"attempt"} => Place(g) \notin Fresh \cup {"attempt"}
  /\ Place(g)' \in Unopened => Place(g) \in Unopened
  /\ Place(g) \in Giving => Place(g)' \in Giving \/ Shut(g)

LEMMA GoodMoves ==
  ASSUME CallsTyped, NEW g \in Graph, CallMoves(g), GraphInv(g)
  PROVE  GoodMove(g)
  <1> USE DEF GoodMove, Place, At, Places, Fresh, Opening, Giving, Running, Awaited, Unopened
  <1>1. /\ CallOk(g) /\ SignalsWhileAlive(g) /\ ResetOnlyIfShut(g)
    BY DEF GraphInv
  <1>2. CASE ReadsRestart(g)
    <2>1. call'[g].pc \in {"load", "satellites", "init"}
      BY <1>2, GotoDoes DEF CallsTyped, Calls, ReadsRestart
    <2>2. call'[g].rc = call[g].rc /\ call'[g].tries = call[g].tries
      BY <1>2, GotoDoes DEF CallsTyped, Calls, ReadsRestart
    <2>3. call[g].pc = "lock"
      BY <1>2 DEF ReadsRestart
    <2> QED BY <1>1, <2>1, <2>2, <2>3 DEF CallOk, SignalsWhileAlive, ResetOnlyIfShut
  <1>3. CASE SatellitesTimeOut(g) \/ Loads(g)
    <2>1. call'[g].pc = "init" /\ call'[g].rc = call[g].rc /\ call'[g].tries = call[g].tries
      BY <1>3 DEF CallsTyped, Calls, SatellitesTimeOut, Loads
    <2>2. call[g].pc \in {"satellites", "load"}
      BY <1>3 DEF SatellitesTimeOut, Loads
    <2> QED BY <1>1, <2>1, <2>2 DEF CallOk, SignalsWhileAlive, ResetOnlyIfShut
  <1>4. CASE Start(g) \/ Checks(g) \/ CloseLocks(g)
    BY <1>1, <1>4, GotoDoes DEF Start, Checks, CloseLocks, CallOk, SignalsWhileAlive,
       ResetOnlyIfShut
  <1>5. CASE EndsAttempt(g)
    <2>1. call'[g].pc \in {"attempt", "deinit"} /\ call'[g].rc = call[g].rc /\ call'[g].tries = call[g].tries
      BY <1>5, GotoDoes DEF EndsAttempt
    <2>2. call'[g].pc = "attempt" => call[g].tries > 0 /\ call[g].pc = "reset_unlock"
      BY <1>5, GotoDoes DEF EndsAttempt
    <2>3. call[g].tries > 0 => call[g].tries # 0
      OBVIOUS
    <2> QED BY <1>1, <1>5, <2>1, <2>2, <2>3 DEF EndsAttempt, CallOk, SignalsWhileAlive,
               ResetOnlyIfShut
  <1>6. CASE SendsOpen(g)
    BY <1>1, <1>6, CommandDoes DEF SendsOpen, CallOk, SignalsWhileAlive, ResetOnlyIfShut
  <1>7. CASE SetsCal(g)
    BY <1>1, <1>7, CommandDoes, GotoDoes DEF SetsCal, CallOk, SignalsWhileAlive, ResetOnlyIfShut
  <1>8. CASE ClosesAgain(g)
    BY <1>1, <1>8, CommandDoes DEF ClosesAgain, Verdict, CallOk, SignalsWhileAlive, ResetOnlyIfShut
  <1>9. CASE ReturnsOpen(g) \/ ReturnsStart(g) \/ EndsStop(g)
    BY <1>1, <1>9, NoCallDoes DEF ReturnsOpen, ReturnsStart, EndsStop, CallOk, SignalsWhileAlive,
       ResetOnlyIfShut
  <1>10. CASE StartSends(g) \/ StopSends(g)
    BY <1>1, <1>10, CommandDoes DEF StartSends, StopSends, CallOk, SignalsWhileAlive,
       ResetOnlyIfShut
  <1>11. CASE Started(g)
    BY <1>1, <1>11, UpdatesDoes DEF Started, CallOk, SignalsWhileAlive, ResetOnlyIfShut
  <1>12. CASE Stop(g)
    BY <1>1, <1>12, UpdatesDoes, GotoDoes DEF Stop, CallOk, SignalsWhileAlive, ResetOnlyIfShut
  <1>13. CASE CloseSends(g)
    BY <1>1, <1>13, CommandDoes, GotoDoes DEF CloseSends, CallOk, SignalsWhileAlive, ResetOnlyIfShut
  <1>14. CASE TimesOut(g)
    BY <1>1, <1>14, ReturnsDoes DEF TimesOut, Waiting, CallOk, SignalsWhileAlive, ResetOnlyIfShut
  <1> QED BY <1>2, <1>3, <1>4, <1>5, <1>6, <1>7, <1>8, <1>9, <1>10, <1>11, <1>12, <1>13, <1>14
             DEF CallMoves

LEMMA MovesKeepGraph ==
  ASSUME CallsTyped, Functions, NEW g \in Graph, CallMoves(g), GraphInv(g)
  PROVE  GraphInv(g)'
  <1>1. /\ UNCHANGED <<group, servreg, graph_state, ss_mask, events, graph_list, signals_exist, told, revived>>
        /\ opened_on' = opened_on
    BY MovesKeep DEF WorldKeeps, world, registry, history
  <1>2. UNCHANGED <<InError(g), Shut(g), Named(g), Mask(g)>>
    BY <1>1 DEF InError, Shut, Named, Mask
  <1>3. GoodMove(g)
    BY GoodMoves
  <1>4. CallOk(g)' BY <1>3 DEF GoodMove
  <1>5. FreshIsBlank(g)' BY <1>1, <1>3 DEF GoodMove, GraphInv, FreshIsBlank
  <1>6. SignalsWhileAlive(g)' BY <1>1, <1>2, <1>3 DEF GoodMove, GraphInv, SignalsWhileAlive
  <1>7. ResetOnlyIfShut(g)' BY <1>1, <1>2, <1>3 DEF GoodMove, GraphInv, ResetOnlyIfShut
  <1>8. BusyIsNotIdle(g)' BY <1>1, <1>3 DEF GoodMove, GraphInv, BusyIsNotIdle, Shut, InError, ErrorStates
  <1>9. MaskIsSet(g)' BY <1>1, <1>2, <1>3 DEF GoodMove, GraphInv, MaskIsSet
  <1>10. NamedIfShut(g)' BY <1>1, <1>2, <1>3 DEF GoodMove, GraphInv, NamedIfShut
  <1> QED BY <1>4, <1>5, <1>6, <1>7, <1>8, <1>9, <1>10 DEF GraphInv

LEMMA GetsHandleKeeps ==
  ASSUME CallsTyped, Functions, WalkInv, NEW g \in Graph, GetsHandle(g), GraphInv(g), Tries # 0
  PROVE  GraphInv(g)'
  <1>1. /\ call[g].pc = "closed" /\ call'[g].pc = "lock" /\ call'[g].rc = "OK"
        /\ call'[g].tries = Tries
    BY DEF CallsTyped, GetsHandle, At, NoCall
  <1>2. UNCHANGED <<group, servreg, graph_state, ss_mask, events, signals_exist, told, revived,
  opened_on>>
    BY DEF GetsHandle, world, registry, history
  <1> QED BY <1>1, <1>2 DEF GraphInv, CallOk, FreshIsBlank, SignalsWhileAlive, ResetOnlyIfShut,
         BusyIsNotIdle, MaskIsSet, NamedIfShut, Place, Shut, Named, InError, Mask,
         Places, Fresh, Opening, Giving, Running, Unopened

LEMMA InitsGraphKeeps ==
  ASSUME CallsTyped, Functions, NEW g \in Graph, InitsGraph(g), GraphInv(g)
  PROVE  GraphInv(g)'
  <1>1. /\ call[g].pc = "init" /\ call'[g].pc = "attempt" /\ call'[g].rc = call[g].rc
        /\ call'[g].tries = call[g].tries
    BY GotoDoes DEF InitsGraph, At
  <1>2. UNCHANGED <<group, servreg, graph_list, ss_mask, events, told, revived, opened_on>>
    BY DEF InitsGraph, world, registry, history
  <1>3. graph_state'[g] = "OPENED" /\ g \in signals_exist'
    BY DEF InitsGraph, Functions
  <1>4. graph_state[g] = "IDLE" /\ events[g] = NoEvents /\ opened_on[g] = NeverOpened
    BY <1>1 DEF GraphInv, FreshIsBlank, MaskIsSet, Place, Fresh, Unopened
  <1>5. Shut(g)' <=> Shut(g)
    BY <1>2, <1>3, <1>4 DEF Shut, InError, ErrorStates
  <1>6. Named(g)' <=> Named(g)
    BY <1>2 DEF Named
  <1>7. CallOk(g)' /\ FreshIsBlank(g)' /\ SignalsWhileAlive(g)'
    BY <1>1, <1>3 DEF GraphInv, CallOk, FreshIsBlank, SignalsWhileAlive, Place, Places, Fresh,
       Opening, Giving, Running
  <1>8. ResetOnlyIfShut(g)'
    BY <1>1, <1>2, <1>5 DEF GraphInv, ResetOnlyIfShut, Place
  <1>9. BusyIsNotIdle(g)'
    BY <1>3 DEF BusyIsNotIdle
  <1>10. MaskIsSet(g)'
    BY <1>1, <1>2, <1>4 DEF GraphInv, MaskIsSet, Place, Fresh, Mask, NeverOpened
  <1>11. NamedIfShut(g)'
    BY <1>1, <1>5, <1>6 DEF GraphInv, NamedIfShut, Place, Giving
  <1> QED BY <1>7, <1>8, <1>9, <1>10, <1>11 DEF GraphInv

LEMMA AttemptsKeeps ==
  ASSUME CallsTyped, Functions, NEW g \in Graph, Attempts(g), GraphInv(g)
  PROVE  GraphInv(g)'
  <1>1. /\ call[g].pc = "attempt" /\ call'[g].pc = "check" /\ call'[g].rc = call[g].rc
    BY DEF CallsTyped, Calls, Attempts, At
  <1>2. UNCHANGED <<group, servreg, graph_list, graph_state, signals_exist, events, told, revived,
  opened_on>>
    BY DEF Attempts, world, registry, history
  <1>3. ss_mask'[g] = Mask(g) /\ Mask(g)' = Mask(g)
    BY <1>2 DEF Attempts, Functions, Mask
  <1> QED BY <1>1, <1>2, <1>3 DEF GraphInv, CallOk, FreshIsBlank, SignalsWhileAlive,
             ResetOnlyIfShut, BusyIsNotIdle, MaskIsSet, NamedIfShut, Place, Shut, Named,
             InError, Places, Fresh, Opening, Giving, Running, Unopened

LEMMA FailsOpenKeeps ==
  ASSUME CallsTyped, Functions, NEW g \in Graph, FailsOpen(g), GraphInv(g)
  PROVE  GraphInv(g)'
  <1>1. UNCHANGED <<group, servreg, graph_list, graph_state, signals_exist, ss_mask, events, told, revived>>
    BY DEF FailsOpen, world, registry, graphs
  <1>2. opened_on'[g] = NeverOpened
    BY DEF FailsOpen, Functions
  <1>3. call[g].pc \in {"opened", "cal", "reset", "failed"}
    BY DEF FailsOpen, At
  <1>4. PICK next \in {"reset_unlock", "failed_unlock"} :
          /\ Updates(g, "IDLE", next)
          /\ next = "reset_unlock" => call[g].pc = "reset" \/ call[g].rc = "SSR"
    BY DEF FailsOpen, Verdict, At
  <1>5. /\ call'[g].rc = "OK"
        /\ \/ InError(g) /\ call'[g].pc = next
           \/ ~InError(g) /\ call'[g].pc = "writing" /\ call'[g].then = next /\ call'[g].new = "IDLE"
    BY <1>4, UpdatesDoes
  <1>6. Place(g) = call[g].pc /\ Place(g)' = next
    BY <1>3, <1>5, <1>4 DEF Place
  <1>7. UNCHANGED <<InError(g), Shut(g), Named(g), Mask(g)>>
    BY <1>1 DEF InError, Shut, Named, Mask
  <1>8. CallOk(g)'
    BY <1>4, <1>5, <1>6 DEF CallOk, Places, Giving
  <1>9. SignalsWhileAlive(g)'
    BY <1>1, <1>3, <1>4, <1>5, <1>6, <1>7 DEF GraphInv, SignalsWhileAlive, Fresh, Giving
  <1>10. ResetOnlyIfShut(g)'
    BY <1>1, <1>3, <1>4, <1>5, <1>6, <1>7 DEF GraphInv, ResetOnlyIfShut
  <1>11. FreshIsBlank(g)' /\ BusyIsNotIdle(g)'
    BY <1>4, <1>6 DEF FreshIsBlank, BusyIsNotIdle, Fresh, Opening, Running
  <1>12. MaskIsSet(g)'
    BY <1>1, <1>2, <1>3, <1>6, <1>7 DEF GraphInv, MaskIsSet, Fresh, NeverOpened
  <1>13. NamedIfShut(g)'
    BY <1>1, <1>4, <1>6, <1>7 DEF GraphInv, NamedIfShut, Giving
  <1> QED BY <1>8, <1>9, <1>10, <1>11, <1>12, <1>13 DEF GraphInv

\* The graph is a zeroed object again.
LEMMA FreesKeeps ==
  ASSUME CallsTyped, Functions, NEW g \in Graph, Frees(g), HdlLockFree, WalkInv,
         UNCHANGED <<servreg, group>>, g \notin graph_list', opened_on' = opened_on,
         opened_on[g] = NeverOpened, Servreg # Free
  PROVE  GraphInv(g)'
  <1>1. /\ call'[g].pc = "closed" /\ call'[g].rc = "OK"
        /\ graph_state'[g] = "IDLE" /\ ss_mask'[g] = {} /\ events'[g] = NoEvents
        /\ g \notin told' /\ g \notin revived'
    BY NoCallDoes DEF Frees, Functions
  <1>2. servreg'.pc # "scan"
    BY DEF WalkInv, HdlLockFree
  <1>3. \A grp \in Grp : events'[g][grp] = {}
    BY <1>1 DEF NoEvents
  <1>4. ~Shut(g)' /\ ~Named(g)'
    BY <1>1, <1>2 DEF Shut, InError, ErrorStates, Named
  <1>5. Place(g)' = "closed"
    BY <1>1 DEF Place
  <1>6. CallOk(g)' /\ FreshIsBlank(g)' /\ BusyIsNotIdle(g)'
    BY <1>1, <1>5 DEF CallOk, FreshIsBlank, BusyIsNotIdle, Places, Fresh, Opening, Running
  <1>7. SignalsWhileAlive(g)'
    BY <1>1, <1>5 DEF SignalsWhileAlive, Fresh, Giving
  <1>8. ResetOnlyIfShut(g)' /\ NamedIfShut(g)'
    BY <1>1, <1>3, <1>4, <1>5 DEF ResetOnlyIfShut, NamedIfShut
  <1>9. MaskIsSet(g)'
    BY <1>5 DEF MaskIsSet, Fresh, Unopened, NeverOpened
  <1> QED BY <1>6, <1>7, <1>8, <1>9 DEF GraphInv

LEMMA EndsKeep ==
  ASSUME CallsTyped, Functions, NEW g \in Graph, DropsGraph(g) \/ FreesGraph(g), GraphInv(g), WalkInv,
         Servreg # Free
  PROVE  GraphInv(g)'
  <1>1. UNCHANGED <<group, servreg, opened_on>>
    BY DEF DropsGraph, FreesGraph, world, registry
  <1>2. CASE At(g, "deinit") /\ Deinits(g) /\ Keeps(g, "release")
    <2>1. /\ call[g].pc = "deinit" /\ call'[g].pc = "release" /\ call'[g].rc = "OK"
      BY <1>2, NoCallDoes DEF At, Keeps
    <2>2. UNCHANGED <<graph_list, graph_state, ss_mask, events, told, revived>>
      BY <1>2 DEF Deinits, Keeps
    <2> QED BY <1>1, <2>1, <2>2 DEF GraphInv, CallOk, FreshIsBlank, SignalsWhileAlive,
               ResetOnlyIfShut, BusyIsNotIdle, MaskIsSet, NamedIfShut, Place, Shut, Named,
               InError, Mask, Places, Fresh, Opening, Giving, Running, Unopened
  <1>3. CASE At(g, "release") /\ ReleasesHandle(g) /\ Frees(g)
    BY <1>1, <1>3, FreesKeeps DEF ReleasesHandle, At, GraphInv, MaskIsSet, Place, Unopened, Giving
  <1>4. CASE At(g, "close_release") /\ ReleasesHandle(g) /\ Keeps(g, "close_deinit")
    <2>1. /\ call[g].pc = "close_release" /\ call'[g].pc = "close_deinit" /\ call'[g].rc = "OK"
      BY <1>4, NoCallDoes DEF At, Keeps
    <2>2. UNCHANGED <<signals_exist, graph_state, ss_mask, events, told,
    revived>> /\ g \notin graph_list'
      BY <1>4 DEF ReleasesHandle, Keeps
    <2> QED BY <1>1, <2>1, <2>2 DEF GraphInv, CallOk, FreshIsBlank, SignalsWhileAlive,
               ResetOnlyIfShut, BusyIsNotIdle, MaskIsSet, NamedIfShut, Place, Shut, Named,
               InError, Mask, Places, Fresh, Opening, Giving, Running, Unopened
  <1>5. CASE At(g, "close_deinit") /\ Deinits(g) /\ Frees(g)
    <2>1. g \notin graph_list' /\ HdlLockFree /\ opened_on[g] = NeverOpened
      BY <1>5 DEF Deinits, At, GraphInv, SignalsWhileAlive, MaskIsSet, Place, Unopened
    <2> QED BY <1>1, <1>5, <2>1, FreesKeeps
  <1> QED BY <1>2, <1>3, <1>4, <1>5 DEF DropsGraph, FreesGraph

LEMMA EndsCloseKeeps ==
  ASSUME CallsTyped, Functions, NEW g \in Graph, EndsClose(g), GraphInv(g)
  PROVE  GraphInv(g)'
  <1>1. /\ call[g].pc = "close_done" /\ call'[g].pc = "close_release" /\ call'[g].rc = "OK"
    BY NoCallDoes DEF EndsClose, At
  <1>2. UNCHANGED <<group, servreg, graph_list, graph_state, signals_exist, ss_mask, events, told,
  revived>>
    BY DEF EndsClose, world, registry, graphs
  <1>3. opened_on'[g] = NeverOpened
    BY DEF EndsClose, Functions
  <1> QED BY <1>1, <1>2, <1>3 DEF GraphInv, CallOk, FreshIsBlank, SignalsWhileAlive,
             ResetOnlyIfShut, BusyIsNotIdle, MaskIsSet, NamedIfShut, Place, Shut, Named,
             InError, Mask, NeverOpened, Places, Fresh, Opening, Giving, Running, Unopened

LEMMA WakesKeeps ==
  ASSUME CallsTyped, Functions, NEW g \in Graph, Wakes(g), GraphInv(g)
  PROVE  GraphInv(g)'
  <1>1. PICK result : Returns(g, result) /\ (result = "SSR" => "SSR" \in events[g][call[g].grp])
    BY DEF Wakes
  <1>2. call[g].grp \in Grp
    BY DEF CallsTyped, Calls
  <1>3. /\ call[g].pc = "waiting" /\ call'[g].pc = call[g].then /\ call'[g].rc = result
    BY <1>1, ReturnsDoes DEF Wakes, Waiting
  <1>4. call[g].then \in Awaited
    BY <1>3 DEF GraphInv, CallOk
  <1>5. Place(g) = call[g].then /\ Place(g)' = Place(g)
    BY <1>3, <1>4 DEF Place, Awaited
  <1>6. UNCHANGED <<group, servreg, graph_list, graph_state, signals_exist, ss_mask, told,
  revived, opened_on>>
    BY DEF Wakes, world, registry, history
  <1>7. UNCHANGED <<InError(g), Shut(g), Named(g), Mask(g)>>
    BY <1>6 DEF InError, Shut, Named, Mask
  <1>8. \A grp \in Grp : events'[g][grp] \subseteq events[g][grp]
    BY DEF Wakes, Functions
  <1>9. call'[g].rc = "SSR" => Shut(g)
    BY <1>1, <1>2, <1>3 DEF GraphInv, ResetOnlyIfShut
  <1>10. CallOk(g)'
    BY <1>3, <1>4, <1>5 DEF GraphInv, CallOk, Awaited
  <1>11. FreshIsBlank(g)'
    BY <1>4, <1>5 DEF FreshIsBlank, Awaited, Fresh
  <1>12. SignalsWhileAlive(g)'
    BY <1>3, <1>4, <1>5, <1>6 DEF GraphInv, SignalsWhileAlive, Awaited, Giving
  <1>13. ResetOnlyIfShut(g)'
    BY <1>5, <1>7, <1>8, <1>9 DEF GraphInv, ResetOnlyIfShut
  <1>14. BusyIsNotIdle(g)' /\ MaskIsSet(g)' /\ NamedIfShut(g)'
    BY <1>5, <1>6, <1>7 DEF GraphInv, BusyIsNotIdle, MaskIsSet, NamedIfShut
  <1> QED BY <1>10, <1>11, <1>12, <1>13, <1>14 DEF GraphInv

LEMMA WritesStateKeeps ==
  ASSUME CallsTyped, Functions, NEW g \in Graph, WritesState(g), GraphInv(g)
  PROVE  GraphInv(g)'
  <1>1. /\ call[g].pc = "writing" /\ call'[g].pc = call[g].then /\ call'[g].rc = "OK"
        /\ call'[g].tries = call[g].tries
    BY DEF CallsTyped, WritesState, At, NoCall
  <1>2. /\ graph_state'[g] = call[g].new
        /\ g \in revived' <=> g \in revived \/ InError(g)
    BY DEF Functions, WritesState
  <1>3. UNCHANGED <<group, servreg, graph_list, events, signals_exist, ss_mask, told, opened_on>>
    BY DEF WritesState, world, registry
  <1>4. \/ call[g].then \in {"reset_unlock", "failed_unlock"} /\ call[g].new = "IDLE"
        \/ call[g].then = "start_unlock" /\ call[g].new = "STARTED"
        \/ call[g].then = "stop" /\ call[g].new = "STOPPED"
    BY <1>1 DEF GraphInv, CallOk
  <1>5. Place(g) = call[g].then /\ Place(g)' = Place(g)
    BY <1>1, <1>4 DEF Place
  <1>6. UNCHANGED <<Shut(g), Named(g), Mask(g)>>
    BY <1>2, <1>3, <1>4 DEF InError, ErrorStates, Shut, Named, Mask
  <1>7. CallOk(g)'
    BY <1>1, <1>4, <1>5 DEF GraphInv, CallOk
  <1>8. FreshIsBlank(g)'
    BY <1>4, <1>5 DEF FreshIsBlank, Fresh
  <1>9. SignalsWhileAlive(g)'
    BY <1>1, <1>2, <1>3, <1>4, <1>5 DEF GraphInv, SignalsWhileAlive, Giving
  <1>10. ResetOnlyIfShut(g)'
    BY <1>1, <1>3, <1>5, <1>6 DEF GraphInv, ResetOnlyIfShut
  <1>11. BusyIsNotIdle(g)'
    BY <1>2, <1>4, <1>5 DEF BusyIsNotIdle, Opening, Running
  <1>12. MaskIsSet(g)' /\ NamedIfShut(g)'
    BY <1>3, <1>5, <1>6 DEF GraphInv, MaskIsSet, NamedIfShut
  <1> QED BY <1>7, <1>8, <1>9, <1>10, <1>11, <1>12 DEF GraphInv

LEMMA SpfAnswersKeeps ==
  ASSUME CallsTyped, Functions, NEW g \in Graph, SpfAnswers(g), GraphInv(g)
  PROVE  GraphInv(g)'
  <1>1. PICK status \in {"OK", "FAIL"} :
          /\ events' = [events EXCEPT ![g][call[g].grp] = @ \cup {status}]
          /\ opened_on' = IF call[g].then = "opened" /\ status = "OK"
                          THEN [opened_on EXCEPT ![g] = [p \in Mask(g) |-> incarnation[p]]]
                          ELSE opened_on
    BY DEF SpfAnswers
  <1>2. UNCHANGED <<group, servreg, graph_list, graph_state, signals_exist, ss_mask, told,
  revived, call>>
    BY DEF SpfAnswers, world, registry
  <1>3. call[g].pc = "waiting" /\ call[g].then \in Awaited
    BY DEF SpfAnswers, Waiting, GraphInv, CallOk
  <1>4. UNCHANGED <<InError(g), Shut(g), Named(g), Mask(g), Place(g)>> /\ Place(g) = call[g].then
    BY <1>2, <1>3 DEF InError, Shut, Named, Mask, Place
  <1>5. \A grp \in Grp : "SSR" \in events'[g][grp] => "SSR" \in events[g][grp]
    BY <1>1 DEF Functions
  <1>6. \/ opened_on'[g] = opened_on[g]
        \/ DOMAIN opened_on'[g] = Mask(g) /\ call[g].then = "opened"
    BY <1>1 DEF Functions
  <1>7. CallOk(g)' /\ SignalsWhileAlive(g)' /\ BusyIsNotIdle(g)' /\ NamedIfShut(g)'
    BY <1>2, <1>4 DEF GraphInv, CallOk, SignalsWhileAlive, BusyIsNotIdle, NamedIfShut
  <1>8. FreshIsBlank(g)'
    BY <1>3, <1>4 DEF FreshIsBlank, Awaited, Fresh
  <1>9. ResetOnlyIfShut(g)'
    BY <1>2, <1>4, <1>5 DEF GraphInv, ResetOnlyIfShut
  <1>10. MaskIsSet(g)'
    BY <1>2, <1>3, <1>4, <1>6 DEF GraphInv, MaskIsSet, Unopened, Fresh, Giving
  <1> QED BY <1>7, <1>8, <1>9, <1>10 DEF GraphInv

LEMMA ClientKeepsGraph ==
  ASSUME CallsTyped, Functions, WalkInv, NEW g \in Graph, ClientStep(g), GraphInv(g)
  PROVE  GraphInv(g)'
  <1>1. Tries # 0 /\ Servreg # Free
    BY BoundsAssumption, NamesAssumption
  <1>3. CASE MainAnswer(g)
    <2> g \in Graph /\ Same(g) /\ UNCHANGED <<group, servreg>>
      BY <1>3 DEF MainAnswer, Same, world, registry, graphs, history
    <2> QED BY SameKeeps
  <1> QED BY <1>1, <1>3, MovesKeepGraph, GetsHandleKeeps, InitsGraphKeeps, AttemptsKeeps,
             FailsOpenKeeps, EndsKeep, EndsCloseKeeps, WakesKeeps, WritesStateKeeps,
             SpfAnswersKeeps DEF ClientStep, CallStep, Opens, Starts, Closes, CallMoves

-----------------------------------------------------------------------------
(* The callback of a notification. *)

ServregTyped ==
  servreg \in [pc : {"idle", "dn", "scan", "up"}, proc : Proc,
               todo : SUBSET Graph, handles : SUBSET Graph]

LEMMA QuietIsTyped ==
  /\ QuietServreg.pc = "idle" /\ QuietServreg.proc = Master
  /\ QuietServreg.todo = {} /\ QuietServreg.handles = {}
  BY DEF QuietServreg

\* Nothing of the graphs changes when the walk is not under way, before and after.
LEMMA OutsideTheWalk ==
  ASSUME UNCHANGED <<group, graphs, call, history>>, \A g \in Graph : GraphInv(g),
         \A g \in Graph : Named(g)' <=> Named(g)
  PROVE  \A g \in Graph : GraphInv(g)'
  BY DEF graphs, history, GraphInv, CallOk, FreshIsBlank, SignalsWhileAlive, ResetOnlyIfShut,
         BusyIsNotIdle, MaskIsSet, NamedIfShut, Place, Shut, InError, Mask

LEMMA StateChangesDoes ==
  ASSUME StateChanges
  PROVE  /\ servreg.pc = "idle" /\ notices # <<>> /\ notices' = Tail(notices)
         /\ servreg'.pc = (IF Head(notices).state = "DN" THEN "dn" ELSE "up")
         /\ servreg'.proc = Head(notices).proc
         /\ servreg'.todo = {} /\ servreg'.handles = {}
  BY DEF StateChanges, QuietServreg

LEMMA DownLocksDoes ==
  ASSUME ServregTyped, DownLocks
  PROVE  /\ servreg.pc = "dn" /\ servreg'.pc = "scan" /\ servreg'.proc = servreg.proc
         /\ servreg'.todo = graph_list /\ servreg'.handles = servreg.handles
  BY DEF DownLocks, ServregTyped

LEMMA DownScansDoes ==
  ASSUME ServregTyped, NEW g \in Graph, DownScans(g)
  PROVE  /\ servreg.pc = "scan" /\ servreg'.pc = "scan" /\ servreg'.proc = servreg.proc
         /\ g \in servreg.todo
         /\ servreg'.todo = servreg.todo \ {g} /\ servreg'.handles = Listed(g)
  BY DEF DownScans, ServregTyped

LEMMA ScanKeepsGraph ==
  ASSUME Functions, ServregTyped, NEW g \in Graph, DownScans(g), GraphInv(g), WalkInv
  PROVE  GraphInv(g)' /\ bad_signal' = FALSE
  <1>1. UNCHANGED <<group, call, graph_list, ss_mask, signals_exist, opened_on, told, revived>>
    BY DEF DownScans, world
  <1>2. g \in graph_list /\ servreg'.pc = "scan"
    BY DownScansDoes DEF WalkInv
  <1>3. UNCHANGED <<Place(g), Mask(g)>>
    BY <1>1 DEF Place, Mask
  <1>4. Named(g)' <=> Named(g) \/ ~Passed(g)
    BY <1>1, DownScansDoes DEF Named, Listed
  <1>5. CASE Passed(g) \/ Spared(g)
    <2>1. UNCHANGED <<graph_state, events, bad_signal>>
      BY <1>5 DEF DownScans
    <2>2. UNCHANGED <<InError(g), Shut(g)>>
      BY <1>1, <2>1 DEF InError, Shut
    <2>3. Place(g) \in Fresh => Passed(g)
      BY DEF GraphInv, FreshIsBlank, Passed
    <2>4. Place(g) \in Places
      BY DEF GraphInv, CallOk
    <2>5. ~Passed(g) => Shut(g) \/ Place(g) \in Giving
      BY <1>5, <2>3, <2>4 DEF GraphInv, BusyIsNotIdle, Spared, Shut, Places
    <2>6. NamedIfShut(g)'
      BY <1>3, <1>4, <2>2, <2>5 DEF GraphInv, NamedIfShut
    <2> QED BY <1>1, <1>3, <2>1, <2>2, <2>6 DEF GraphInv, CallOk, FreshIsBlank, SignalsWhileAlive,
               ResetOnlyIfShut, BusyIsNotIdle, MaskIsSet, WalkInv, SignalsOutliveTheWalk
  <1>6. CASE ~(Passed(g) \/ Spared(g))
    <2>1. /\ graph_state'[g] \in ErrorStates
          /\ bad_signal' = (bad_signal \/ g \notin signals_exist)
      BY <1>6 DEF DownScans, SignalAll, Functions, ErrorStates
    <2>2. graph_state[g] # "IDLE" /\ ~InError(g)
      BY <1>6 DEF Spared
    <2>3. InError(g)' /\ Shut(g)' /\ graph_state'[g] # "IDLE"
      BY <2>1 DEF InError, Shut, ErrorStates
    <2>4. Place(g) \notin Fresh \cup {"release"}
      <3>1. Place(g) \notin Fresh
        BY <2>2 DEF GraphInv, FreshIsBlank
      <3>2. Place(g) # "release"
        BY <2>2 DEF GraphInv, SignalsWhileAlive, CallOk, Place, Giving, Awaited
      <3> QED BY <3>1, <3>2
    <2>5. g \in signals_exist
      BY <2>4 DEF GraphInv, SignalsWhileAlive
    <2>6. CallOk(g)'
      BY <1>1, <1>3 DEF GraphInv, CallOk
    <2>7. FreshIsBlank(g)'
      BY <1>3, <2>4 DEF FreshIsBlank
    <2>8. SignalsWhileAlive(g)'
      BY <1>1, <1>3, <2>3 DEF GraphInv, SignalsWhileAlive
    <2>9. ResetOnlyIfShut(g)' /\ BusyIsNotIdle(g)'
      BY <2>3 DEF ResetOnlyIfShut, BusyIsNotIdle
    <2>10. MaskIsSet(g)'
      BY <1>1, <1>3 DEF GraphInv, MaskIsSet
    <2>11. NamedIfShut(g)'
      BY <1>4, <1>6, <2>3 DEF NamedIfShut
    <2> QED BY <2>1, <2>5, <2>6, <2>7, <2>8, <2>9, <2>10, <2>11
            DEF GraphInv, WalkInv, SignalsOutliveTheWalk
  <1> QED BY <1>5, <1>6

LEMMA ScanLeavesOthers ==
  ASSUME Functions, ServregTyped, NEW g \in Graph, DownScans(g),
         NEW h \in Graph, h # g, GraphInv(h)
  PROVE  GraphInv(h)'
  <1>1. UNCHANGED <<group, call, graph_list, ss_mask, signals_exist, opened_on, told, revived>>
    BY DEF DownScans, world
  <1>2. graph_state'[h] = graph_state[h] /\ events'[h] = events[h]
    BY DEF DownScans, SignalAll, Functions
  <1>3. Named(h)' <=> Named(h)
    BY <1>1, DownScansDoes DEF Named, Listed
  <1> QED BY <1>1, <1>2, <1>3 DEF GraphInv, CallOk, FreshIsBlank, SignalsWhileAlive,
             ResetOnlyIfShut, BusyIsNotIdle, MaskIsSet, NamedIfShut, Place, Shut, InError, Mask

LEMMA ServregKeepsGraphs ==
  ASSUME Functions, ServregTyped, ServregStep, WalkInv, \A g \in Graph : GraphInv(g), Servreg # Free
  PROVE  (\A g \in Graph : GraphInv(g)') /\ WalkInv'
  <1>1. CASE StateChanges
    <2>1. UNCHANGED <<group, graphs, call, history, graph_hdl_lock>>
      BY <1>1 DEF StateChanges, world, locks
    <2>2. servreg.pc # "scan" /\ servreg'.pc # "scan" /\ servreg'.handles = {}
      BY <1>1, StateChangesDoes
    <2>3. \A g \in Graph : Named(g)' <=> Named(g)
      BY <2>1, <2>2 DEF Named, history
    <2> QED BY <2>1, <2>2, <2>3, OutsideTheWalk DEF WalkInv, SignalsOutliveTheWalk, history
  <1>2. CASE DownLocks
    <2>1. UNCHANGED <<group, graphs, call, history>> /\ graph_hdl_lock' = Servreg
      BY <1>2 DEF DownLocks, world
    <2>2. servreg.pc # "scan" /\ servreg'.pc = "scan" /\ servreg'.handles = {} /\ servreg'.todo = graph_list
      BY <1>2, DownLocksDoes DEF WalkInv
    <2>3. \A g \in Graph : Named(g)' <=> Named(g)
      BY <2>1, <2>2 DEF Named, history
    <2> QED BY <2>1, <2>2, <2>3, OutsideTheWalk DEF WalkInv, SignalsOutliveTheWalk, history, graphs
  <1>3. ASSUME NEW g \in Graph, DownScans(g) PROVE (\A h \in Graph : GraphInv(h)') /\ WalkInv'
    <2>1. UNCHANGED <<graph_list, graph_hdl_lock>>
      BY <1>3 DEF DownScans, locks
    <2> QED BY <1>3, <2>1, DownScansDoes, ScanKeepsGraph, ScanLeavesOthers
               DEF WalkInv, SignalsOutliveTheWalk
  <1>4. CASE DownNotifies
    <2>1. /\ UNCHANGED <<group, graphs, call, opened_on, revived, bad_signal>> /\ graph_hdl_lock' = Free
          /\ servreg.pc = "scan" /\ servreg'.pc = "idle" /\ servreg'.handles = {}
          /\ told' = told \cup servreg.handles
      BY <1>4, QuietIsTyped DEF DownNotifies, world
    <2>2. \A g \in Graph : Named(g)' <=> Named(g)
      BY <2>1 DEF Named
    <2>3. \A g \in Graph : GraphInv(g)'
      BY <2>1, <2>2 DEF graphs, GraphInv, CallOk, FreshIsBlank, SignalsWhileAlive, ResetOnlyIfShut,
         BusyIsNotIdle, MaskIsSet, NamedIfShut, Place, Shut, InError, Mask
    <2> QED BY <2>1, <2>3 DEF WalkInv, SignalsOutliveTheWalk
  <1>5. CASE UpNotifies
    <2>1. /\ UNCHANGED <<group, graphs, call, history, graph_hdl_lock>>
          /\ servreg.pc = "up" /\ servreg'.pc = "idle" /\ servreg'.handles = {}
      BY <1>5, QuietIsTyped DEF UpNotifies, world, locks
    <2>2. \A g \in Graph : Named(g)' <=> Named(g)
      BY <2>1 DEF Named, history
    <2> QED BY <2>1, <2>2, OutsideTheWalk DEF WalkInv, SignalsOutliveTheWalk, history
  <1> QED BY <1>1, <1>2, <1>3, <1>4, <1>5 DEF ServregStep

\* A step of a processor, or of GPR's thread on its own.
OutsideStep == (\E p \in Proc : Crash(p) \/ Revive(p)) \/ GprGoesOn

LEMMA OutsideKeepsGraphs ==
  ASSUME OutsideStep, WalkInv, \A g \in Graph : GraphInv(g)
  PROVE  (\A g \in Graph : GraphInv(g)') /\ WalkInv'
  <1>1. UNCHANGED <<group, graphs, call, history, graph_hdl_lock, servreg>>
    BY DEF OutsideStep, Crash, Revive, GprGoesOn, world, registry, locks
  <1>2. \A g \in Graph : Named(g)' <=> Named(g)
    BY <1>1 DEF Named, history
  <1> QED BY <1>1, <1>2, OutsideTheWalk DEF WalkInv, SignalsOutliveTheWalk, history, graphs

LEMMA ClientKeepsWalk ==
  ASSUME CallsTyped, Functions, WalkInv, NEW g \in Graph, ClientStep(g), Servreg # Free
  PROVE  WalkInv'
  <1>1. UNCHANGED <<servreg, graph_hdl_lock, bad_signal>>
    BY OthersAreSame DEF WorldKeeps, registry
  <1>2. servreg.pc = "scan" => graph_list \subseteq graph_list'
    <2>1. CASE CallMoves(g)
      BY <2>1, MovesKeep
    <2>2. CASE DropsGraph(g) \/ FreesGraph(g)
      BY <2>2 DEF DropsGraph, FreesGraph, Deinits, ReleasesHandle, HdlLockFree, WalkInv
    <2>3. CASE ~(CallMoves(g) \/ DropsGraph(g) \/ FreesGraph(g))
      BY <2>3 DEF ClientStep, CallStep, Opens, Starts, Closes, CallMoves, GetsHandle, InitsGraph,
           Attempts, FailsOpen, EndsClose, Wakes, WritesState, SpfAnswers, MainAnswer, graphs
    <2> QED BY <2>1, <2>2, <2>3
  <1> QED BY <1>1, <1>2 DEF WalkInv, SignalsOutliveTheWalk

-----------------------------------------------------------------------------
(* The queue of notifications. *)

Notice == [proc : Proc, state : {"DN", "UP"}]
NoticesTyped == notices \in Seq(Notice)

LEMMA QueueGrows ==
  ASSUME NoticesTyped, NEW n \in Notice, notices' = Append(notices, n)
  PROVE  /\ \A p, s : Queued(p, s) => Queued(p, s)'
         /\ Queued(n.proc, n.state)'
         /\ \A p, s : Queued(p, s)' => Queued(p, s) \/ n = [proc |-> p, state |-> s]
         /\ NoticesTyped'
  <1>1. /\ Len(notices) \in Nat /\ DOMAIN notices = 1..Len(notices)
        /\ DOMAIN notices' = 1..(Len(notices) + 1)
        /\ notices'[Len(notices) + 1] = n
        /\ \A i \in DOMAIN notices : notices'[i] = notices[i]
    BY DEF NoticesTyped
  <1>2. n = [proc |-> n.proc, state |-> n.state]
    BY DEF Notice
  <1>3. ASSUME NEW p, NEW s, Queued(p, s) PROVE Queued(p, s)'
    <2>1. PICK i \in DOMAIN notices : notices[i] = [proc |-> p, state |-> s]
      BY <1>3 DEF Queued
    <2>2. i \in DOMAIN notices' /\ notices'[i] = [proc |-> p, state |-> s]
      BY <1>1, <2>1
    <2> QED BY <2>2 DEF Queued
  <1>4. Queued(n.proc, n.state)'
    <2>1. Len(notices) + 1 \in DOMAIN notices'
      BY <1>1
    <2> QED BY <1>1, <1>2, <2>1 DEF Queued
  <1>5. ASSUME NEW p, NEW s, Queued(p, s)' PROVE Queued(p, s) \/ n = [proc |-> p, state |-> s]
    <2>1. PICK i \in DOMAIN notices' : notices'[i] = [proc |-> p, state |-> s]
      BY <1>5 DEF Queued
    <2>2. i = Len(notices) + 1 \/ i \in DOMAIN notices
      BY <1>1
    <2> QED BY <1>1, <2>1, <2>2 DEF Queued
  <1>6. NoticesTyped'
    BY DEF NoticesTyped
  <1> QED BY <1>3, <1>4, <1>5, <1>6

LEMMA QueueShrinks ==
  ASSUME NoticesTyped, notices # <<>>, notices' = Tail(notices)
  PROVE  /\ Head(notices) \in Notice /\ \E i \in DOMAIN notices : notices[i] = Head(notices)
         /\ \A p, s : Queued(p, s) => Queued(p, s)' \/ Head(notices) = [proc |-> p, state |-> s]
         /\ \A i \in DOMAIN notices' : \E j \in DOMAIN notices : notices'[i] = notices[j]
         /\ NoticesTyped'
  <1>1. /\ Len(notices) \in Nat \ {0} /\ DOMAIN notices = 1..Len(notices)
        /\ Head(notices) = notices[1] /\ Head(notices) \in Notice
        /\ DOMAIN notices' = 1..(Len(notices) - 1)
        /\ \A i \in DOMAIN notices' : notices'[i] = notices[i + 1]
        /\ notices' \in Seq(Notice)
    BY DEF NoticesTyped
  <1>2. 1 \in DOMAIN notices
    BY <1>1
  <1>3. ASSUME NEW p, NEW s, Queued(p, s)
        PROVE  Queued(p, s)' \/ Head(notices) = [proc |-> p, state |-> s]
    <2>1. PICK i \in DOMAIN notices : notices[i] = [proc |-> p, state |-> s]
      BY <1>3 DEF Queued
    <2>2. CASE i = 1
      BY <1>1, <2>1, <2>2
    <2>3. CASE i # 1
      <3>1. i - 1 \in DOMAIN notices' /\ (i - 1) + 1 = i
        BY <1>1, <2>3
      <3>2. notices'[i - 1] = notices[i]
        BY <1>1, <3>1
      <3> QED BY <2>1, <3>1, <3>2 DEF Queued
    <2> QED BY <2>2, <2>3
  <1>4. \A i \in DOMAIN notices' : i + 1 \in DOMAIN notices
    BY <1>1
  <1>5. \A i \in DOMAIN notices' : \E j \in DOMAIN notices : notices'[i] = notices[j]
    BY <1>1, <1>4
  <1> QED BY <1>1, <1>2, <1>3, <1>5 DEF NoticesTyped

-----------------------------------------------------------------------------
(* A graph that a processor has lost is known to be lost. *)

LEMMA NothingOpenedIsKnown ==
  ASSUME NEW g, opened_on[g] = NeverOpened
  PROVE  LostIsKnown(g)
  BY DEF LostIsKnown, NeverOpened

LEMMA UnopenedIsKnown ==
  ASSUME NEW g \in Graph, Place(g) \in Unopened, GraphInv(g), opened_on'[g] = opened_on[g]
  PROVE  LostIsKnown(g)'
  BY DEF GraphInv, MaskIsSet, LostIsKnown, NeverOpened

LEMMA ShutStaysKnown ==
  ASSUME NEW g \in Graph, LostIsKnown(g), UNCHANGED <<alive, incarnation, notices, servreg>>,
         opened_on'[g] = opened_on[g], g \in graph_list' => g \in graph_list, Shut(g) => Shut(g)'
  PROVE  LostIsKnown(g)'
  BY DEF LostIsKnown, Lost, DownPending, Queued

LEMMA ClientKeepsKnown ==
  ASSUME CallsTyped, Functions, NEW g \in Graph, ClientStep(g), GraphInv(g), LostIsKnown(g), GraphInv(g)'
  PROVE  LostIsKnown(g)'
  <1>1. UNCHANGED <<alive, incarnation, notices, servreg>>
    BY OthersAreSame DEF WorldKeeps, world, registry
  <1>2. CASE CallMoves(g)
    <2>1. UNCHANGED <<graph_list, graph_state, revived>> /\ opened_on' = opened_on
      BY <1>2, MovesKeep DEF history
    <2> QED BY <1>1, <2>1, ShutStaysKnown DEF Shut, InError
  <1>3. CASE GetsHandle(g) \/ InitsGraph(g)
    <2>1. Place(g) \in Unopened /\ opened_on' = opened_on
      BY <1>3 DEF GetsHandle, InitsGraph, At, Place, Unopened, Fresh, history
    <2> QED BY <2>1, UnopenedIsKnown
  <1>4. CASE Attempts(g) \/ Wakes(g) \/ MainAnswer(g)
    <2>1. UNCHANGED <<graph_list, graph_state, revived>> /\ opened_on' = opened_on
      BY <1>4 DEF Attempts, Wakes, MainAnswer, history, graphs
    <2> QED BY <1>1, <2>1, ShutStaysKnown DEF Shut, InError
  <1>5. CASE FailsOpen(g) \/ EndsClose(g)
    <2>1. opened_on'[g] = NeverOpened
      BY <1>5 DEF FailsOpen, EndsClose, Functions
    <2> QED BY <2>1 DEF LostIsKnown, NeverOpened
  <1>6. CASE DropsGraph(g) \/ FreesGraph(g)
    <2>1. Place(g) \in Unopened /\ opened_on' = opened_on
      BY <1>6 DEF DropsGraph, FreesGraph, At, Place, Unopened, Giving
    <2> QED BY <2>1, UnopenedIsKnown
  <1>7. CASE WritesState(g)
    <2>1. UNCHANGED graph_list /\ opened_on' = opened_on /\ (Shut(g) => g \in revived')
      BY <1>7 DEF WritesState, Shut
    <2> QED BY <1>1, <2>1, ShutStaysKnown DEF Shut
  <1>8. CASE SpfAnswers(g)
    <2>1. /\ UNCHANGED <<graph_list, graph_state, revived>>
          /\ \/ opened_on' = opened_on
             \/ /\ opened_on' = [opened_on EXCEPT ![g] = [p \in Mask(g) |-> incarnation[p]]]
                /\ \A p \in Mask(g) : alive[p]
      BY <1>8 DEF SpfAnswers
    <2>2. CASE opened_on' = opened_on
      BY <1>1, <2>1, <2>2, ShutStaysKnown DEF Shut, InError
    <2>3. CASE /\ opened_on' = [opened_on EXCEPT ![g] = [p \in Mask(g) |-> incarnation[p]]]
               /\ \A p \in Mask(g) : alive[p]
      <3>1. opened_on'[g] = [p \in Mask(g) |-> incarnation[p]]
        BY <2>3 DEF Functions
      <3>2. \A p \in DOMAIN opened_on'[g] : ~Lost(g, p)'
        BY <1>1, <2>3, <3>1 DEF Lost
      <3> QED BY <3>2 DEF LostIsKnown
    <2> QED BY <2>1, <2>2, <2>3
  <1> QED BY <1>2, <1>3, <1>4, <1>5, <1>6, <1>7, <1>8
          DEF ClientStep, CallStep, Opens, Starts, Closes, CallMoves

LEMMA ServregKeepsKnown ==
  ASSUME Functions, ServregTyped, NoticesTyped, ServregStep, NEW g \in Graph, GraphInv(g), LostIsKnown(g)
  PROVE  LostIsKnown(g)'
  <1>1. UNCHANGED <<alive, incarnation, graph_list, opened_on, revived>>
    BY DEF ServregStep, StateChanges, DownLocks, DownScans, DownNotifies, UpNotifies, world,
       graphs, history
  <1>2. SUFFICES ASSUME NEW p \in DOMAIN opened_on[g], g \in graph_list, Lost(g, p)
                 PROVE  Shut(g)' \/ DownPending(g, p)'
    BY <1>1 DEF LostIsKnown, Lost
  <1>3. Shut(g) \/ DownPending(g, p)
    BY <1>2 DEF LostIsKnown
  <1>4. CASE StateChanges
    <2>1. UNCHANGED graph_state
      BY <1>4 DEF StateChanges, graphs
    <2>2. DownPending(g, p) => DownPending(g, p)'
      <3>1. servreg.pc = "idle"
        BY <1>4, StateChangesDoes
      <3>2. DownPending(g, p) => Queued(p, "DN")
        BY <3>1 DEF DownPending
      <3>3. Queued(p, "DN") => Queued(p, "DN")' \/ Head(notices) = [proc |-> p, state |-> "DN"]
        BY <1>4, StateChangesDoes, QueueShrinks
      <3>4. Head(notices) = [proc |-> p, state |-> "DN"] => servreg'.proc = p /\ servreg'.pc = "dn"
        BY <1>4, StateChangesDoes
      <3> QED BY <3>2, <3>3, <3>4 DEF DownPending
    <2> QED BY <1>1, <1>3, <2>1, <2>2 DEF Shut, InError
  <1>5. CASE DownLocks
    <2>1. UNCHANGED <<notices, graph_state>>
      BY <1>5 DEF DownLocks, graphs
    <2>2. DownPending(g, p) => DownPending(g, p)'
      BY <1>2, <1>5, <2>1, DownLocksDoes DEF DownPending, Queued
    <2> QED BY <1>1, <1>3, <2>1, <2>2 DEF Shut, InError
  <1>6. ASSUME NEW h \in Graph, DownScans(h) PROVE Shut(g)' \/ DownPending(g, p)'
    <2>1. /\ UNCHANGED notices /\ (InError(g) => InError(g)')
      <3>1. \/ graph_state'[g] = graph_state[g]
            \/ graph_state'[g] \in ErrorStates
        BY <1>6 DEF DownScans, Functions, ErrorStates
      <3> QED BY <1>6, <3>1 DEF DownScans, InError
    <2>2. CASE g = h /\ servreg.proc = p
      <3>1. Place(g) \notin Unopened /\ ss_mask[g] = Mask(g) /\ p \in Mask(g)
        BY DEF GraphInv, MaskIsSet, NeverOpened, Unopened
      <3>2. ~Passed(g)
        BY <2>2, <3>1 DEF Passed
      <3>3. CASE Spared(g)
        BY <1>1, <2>1, <3>1, <3>3 DEF Spared, GraphInv, BusyIsNotIdle, CallOk, Places, Unopened,
           Shut
      <3>4. CASE ~Spared(g)
        BY <1>6, <2>2, <3>2, <3>4 DEF DownScans, Functions, InError, ErrorStates, Shut
      <3> QED BY <3>3, <3>4
    <2>3. CASE ~(g = h /\ servreg.proc = p)
      <3>1. DownPending(g, p) => DownPending(g, p)'
        BY <1>6, <2>1, <2>3, DownScansDoes DEF DownPending, Queued
      <3> QED BY <1>1, <1>3, <2>1, <3>1 DEF Shut
    <2> QED BY <2>2, <2>3
  <1>7. CASE DownNotifies
    <2>1. UNCHANGED <<notices, graph_state>> /\ servreg.pc = "scan" /\ servreg.todo = {}
      BY <1>7 DEF DownNotifies, graphs
    <2>2. DownPending(g, p) => DownPending(g, p)'
      BY <2>1 DEF DownPending, Queued
    <2> QED BY <1>1, <1>3, <2>1, <2>2 DEF Shut, InError
  <1>8. CASE UpNotifies
    <2>1. UNCHANGED <<notices, graph_state>> /\ servreg.pc = "up"
      BY <1>8 DEF UpNotifies, graphs
    <2>2. DownPending(g, p) => DownPending(g, p)'
      BY <2>1 DEF DownPending, Queued
    <2> QED BY <1>1, <1>3, <2>1, <2>2 DEF Shut, InError
  <1> QED BY <1>4, <1>5, <1>6, <1>7, <1>8 DEF ServregStep

LEMMA OutsideKeepsKnown ==
  ASSUME NoticesTyped, OutsideStep, NEW g \in Graph, LostIsKnown(g), alive \in [Proc -> BOOLEAN],
         incarnation \in [Proc -> Nat \ {0}]
  PROVE  LostIsKnown(g)'
  <1>1. UNCHANGED <<graph_list, graph_state, opened_on, revived, servreg>>
    BY DEF OutsideStep, Crash, Revive, GprGoesOn, graphs, history, registry
  <1>2. Shut(g)' <=> Shut(g)
    BY <1>1 DEF Shut, InError
  <1>3. ASSUME NEW p \in Proc, Crash(p) PROVE LostIsKnown(g)'
    <2>1. /\ alive' = [alive EXCEPT ![p] = FALSE] /\ UNCHANGED incarnation
          /\ notices' = Append(notices, [proc |-> p, state |-> "DN"])
      BY <1>3 DEF Crash
    <2>2. Queued(p, "DN")' /\ \A q, s : Queued(q, s) => Queued(q, s)'
      BY <2>1, QueueGrows DEF Notice
    <2>3. \A q : DownPending(g, q) => DownPending(g, q)'
      BY <1>1, <2>2 DEF DownPending
    <2>4. DownPending(g, p)'
      BY <2>2 DEF DownPending
    <2>5. \A q : q # p /\ Lost(g, q)' => Lost(g, q)
      BY <1>1, <2>1 DEF Lost
    <2> QED BY <1>1, <1>2, <2>3, <2>4, <2>5 DEF LostIsKnown
  <1>4. ASSUME NEW p \in Proc, Revive(p) PROVE LostIsKnown(g)'
    <2>1. /\ ~alive[p] /\ alive' = [alive EXCEPT ![p] = TRUE]
          /\ incarnation' = [incarnation EXCEPT ![p] = @ + 1]
          /\ notices' = Append(notices, [proc |-> p, state |-> "UP"])
      BY <1>4 DEF Revive
    <2>2. \A q, s : Queued(q, s) => Queued(q, s)'
      BY <2>1, QueueGrows DEF Notice
    <2>3. \A q : DownPending(g, q) => DownPending(g, q)'
      BY <1>1, <2>2 DEF DownPending
    <2>4. \A q : Lost(g, q)' => Lost(g, q)
      BY <1>1, <2>1 DEF Lost
    <2> QED BY <1>1, <1>2, <2>3, <2>4 DEF LostIsKnown
  <1>5. CASE GprGoesOn
    <2>1. UNCHANGED <<alive, incarnation, notices>>
      BY <1>5 DEF GprGoesOn, world, registry
    <2> QED BY <1>1, <1>2, <2>1 DEF LostIsKnown, Lost, DownPending, Queued
  <1> QED BY <1>3, <1>4, <1>5 DEF OutsideStep

-----------------------------------------------------------------------------
(* Types. *)

TypeInv == TypeOK /\ RegistryInv

LEMMA TypesOfParts ==
  ASSUME TypeInv
  PROVE  CallsTyped /\ Functions /\ ServregTyped /\ NoticesTyped
  BY DEF TypeInv, TypeOK, CallsTyped, Functions, ServregTyped, NoticesTyped, Notice

\* A call keeps its type whatever helper sets it.
LEMMA NoCallTyped ==
  ASSUME NEW label \in Places
  PROVE  NoCall(label) \in Calls
  <1>1. 0 \in 0..Tries
    BY BoundsAssumption
  <1> QED BY <1>1 DEF NoCall, Calls, Grp

LEMMA NoCallWithTyped ==
  ASSUME NEW label \in Places, NEW rc \in {"OK", "SSR", "FAIL"}, NEW n \in 0..Tries
  PROVE  /\ [NoCall(label) EXCEPT !.tries = n] \in Calls
         /\ [NoCall(label) EXCEPT !.rc = rc, !.tries = n] \in Calls
  <1> DEFINE c == NoCall(label)
  <1>1. c \in Calls
    BY NoCallTyped
  <1> HIDE DEF c
  <1>2. [c EXCEPT !.tries = n] \in Calls
    BY <1>1 DEF Calls
  <1>3. [c EXCEPT !.rc = rc, !.tries = n] \in Calls
    BY <1>1 DEF Calls
  <1> QED BY <1>2, <1>3 DEF c

LEMMA SetTyped ==
  ASSUME CallsTyped, NEW g \in Graph, NEW c \in Calls, call' = [call EXCEPT ![g] = c]
  PROVE  CallsTyped'
  BY DEF CallsTyped

LEMMA GotoTyped ==
  ASSUME CallsTyped, NEW g \in Graph, NEW label \in Places, Goto(g, label)
  PROVE  CallsTyped'
  BY DEF CallsTyped, Calls, Goto

LEMMA GotoWithTyped ==
  ASSUME CallsTyped, NEW g \in Graph, NEW label \in Places, NEW rc \in {"OK", "FAIL"}, GotoWith(g, label, rc)
  PROVE  CallsTyped'
  <1> DEFINE c == [call[g] EXCEPT !.pc = label, !.rc = rc]
  <1>1. call[g] \in Calls
    BY DEF CallsTyped
  <1>2. c \in Calls
    BY <1>1 DEF Calls
  <1>3. call' = [call EXCEPT ![g] = c]
    BY DEF GotoWith
  <1> QED BY <1>2, <1>3, SetTyped

LEMMA SendsTyped ==
  ASSUME CallsTyped, NEW g \in Graph, NEW grp \in Grp, NEW next \in Places, Sends(g, grp, next),
         incarnation[Master] \in Nat
  PROVE  CallsTyped'
  <1> DEFINE clean == ~InError(g)
             c == [call[g] EXCEPT !.pc = "waiting", !.then = next, !.grp = grp,
                                  !.sent = incarnation[Master], !.clean = clean]
  <1>1. call[g] \in Calls /\ clean \in BOOLEAN
    BY DEF CallsTyped
  <1>2. call' = [call EXCEPT ![g] = c]
    BY DEF Sends
  <1> HIDE DEF clean
  <1>3. c \in Calls
    BY <1>1 DEF Calls
  <1> QED BY <1>2, <1>3, SetTyped

LEMMA CommandTyped ==
  ASSUME CallsTyped, NEW g \in Graph, NEW grp \in Grp, NEW next \in Places, Command(g, grp, next),
         incarnation[Master] \in Nat
  PROVE  CallsTyped'
  BY SendsTyped, GotoWithTyped DEF Command

LEMMA UpdatesTyped ==
  ASSUME CallsTyped, NEW g \in Graph, NEW new \in States, NEW next \in Places, Updates(g, new, next)
  PROVE  CallsTyped'
  <1>1. CASE InError(g)
    BY <1>1, GotoWithTyped DEF Updates
  <1>2. CASE ~InError(g)
    BY <1>2 DEF Updates, CallsTyped, Calls
  <1> QED BY <1>1, <1>2

LEMMA ReturnsTyped ==
  ASSUME CallsTyped, NEW g \in Graph, NEW rc \in {"OK", "SSR", "FAIL"}, Returns(g, rc),
         Waiting(g), CallOk(g)
  PROVE  CallsTyped'
  <1>1. call[g].then \in Places /\ call[g].tries \in 0..Tries
    BY DEF Waiting, CallOk, Awaited, Places, Opening, Running, CallsTyped, Calls
  <1>2. [NoCall(call[g].then) EXCEPT !.rc = rc, !.tries = call[g].tries] \in Calls
    BY <1>1, NoCallWithTyped
  <1> QED BY <1>2, SetTyped DEF Returns

LEMMA ClientKeepsCalls ==
  ASSUME CallsTyped, NEW g \in Graph, ClientStep(g), GraphInv(g), incarnation[Master] \in Nat
  PROVE  CallsTyped'
  <1> USE DEF Grp
  <1>1. CASE Start(g) \/ Checks(g) \/ EndsAttempt(g) \/ CloseLocks(g) \/ InitsGraph(g)
    <2>1. PICK label \in Places : Goto(g, label)
      BY <1>1 DEF Start, Checks, EndsAttempt, CloseLocks, InitsGraph, Places, Opening, Running,
         Giving
    <2> QED BY <2>1, GotoTyped
  <1>2. CASE SendsOpen(g) \/ StartSends(g) \/ StopSends(g) \/ ClosesAgain(g)
    <2>1. PICK grp \in Grp, label \in Places : Command(g, grp, label)
      BY <1>2 DEF SendsOpen, StartSends, StopSends, ClosesAgain, Verdict, Places, Opening, Running
    <2> QED BY <2>1, CommandTyped
  <1>3. CASE SetsCal(g) \/ CloseSends(g)
    <2>1. PICK grp \in Grp, label \in Places : Command(g, grp, label) \/ Goto(g, label)
      BY <1>3 DEF SetsCal, CloseSends, Places, Opening, Running
    <2> QED BY <2>1, CommandTyped, GotoTyped
  <1>4. CASE Started(g) \/ Stop(g) \/ FailsOpen(g)
    <2>1. PICK new \in States, label \in Places : Updates(g, new, label) \/ Goto(g, label)
      BY <1>4 DEF Started, Stop, FailsOpen, States, Places, Running, Giving
    <2> QED BY <2>1, UpdatesTyped, GotoTyped
  <1>6. CASE ReturnsOpen(g) \/ ReturnsStart(g) \/ EndsStop(g) \/ EndsClose(g) \/ DropsGraph(g) \/ FreesGraph(g)
    <2>1. PICK label \in Places : call' = [call EXCEPT ![g] = NoCall(label)]
      BY <1>6 DEF ReturnsOpen, ReturnsStart, EndsStop, EndsClose, DropsGraph, FreesGraph, Keeps,
         Frees, Places, Fresh, Running, Giving
    <2> QED BY <2>1, NoCallTyped, SetTyped
  <1>7. CASE TimesOut(g) \/ Wakes(g)
    <2>1. PICK rc \in {"OK", "SSR", "FAIL"} : Returns(g, rc)
      BY <1>7 DEF TimesOut, Wakes
    <2> QED BY <1>7, <2>1, ReturnsTyped DEF TimesOut, Wakes, GraphInv
  <1>8. CASE GetsHandle(g)
    <2>1. "lock" \in Places /\ Tries \in 0..Tries
      BY BoundsAssumption DEF Places, Fresh
    <2> QED BY <1>8, <2>1, NoCallWithTyped, SetTyped DEF GetsHandle
  <1>9. CASE WritesState(g)
    <2>1. call[g].then \in Places /\ call[g].tries \in 0..Tries
      BY <1>9 DEF WritesState, At, GraphInv, CallOk, Places, Giving, Running, CallsTyped, Calls
    <2>2. [NoCall(call[g].then) EXCEPT !.tries = call[g].tries] \in Calls
      BY <2>1, NoCallWithTyped
    <2> QED BY <1>9, <2>2, SetTyped DEF WritesState
  <1>10. CASE Attempts(g)
    <2>1. call[g].tries # 0
      BY <1>10 DEF Attempts, At, GraphInv, CallOk, Place
    <2>2. call[g].tries \in 0..Tries
      BY DEF CallsTyped, Calls
    <2>3. call[g].tries - 1 \in 0..Tries
      BY <2>1, <2>2, BoundsAssumption
    <2> QED BY <1>10, <2>3 DEF Attempts, CallsTyped, Calls, Places, Opening
  <1>11. CASE ReadsRestart(g)
    <2>1. PICK label \in Places, n \in Nat :
            \/ call' = [call EXCEPT ![g].pc = label, ![g].sent = n]
            \/ Goto(g, label)
      BY <1>11 DEF ReadsRestart, Places, Fresh
    <2>2. CASE call' = [call EXCEPT ![g].pc = label, ![g].sent = n]
      <3> DEFINE c == [call[g] EXCEPT !.pc = label, !.sent = n]
      <3>1. call[g] \in Calls
        BY DEF CallsTyped
      <3>2. c \in Calls
        BY <3>1 DEF Calls
      <3>3. call' = [call EXCEPT ![g] = c]
        BY <2>2
      <3> QED BY <3>2, <3>3, SetTyped
    <2> QED BY <2>1, <2>2, GotoTyped
  <1>12. CASE SatellitesTimeOut(g) \/ Loads(g)
    BY <1>12 DEF SatellitesTimeOut, Loads, CallsTyped, Calls, Places, Fresh
  <1>13. CASE SpfAnswers(g) \/ MainAnswer(g)
    BY <1>13 DEF SpfAnswers, MainAnswer, CallsTyped
  <1> QED BY <1>1, <1>2, <1>3, <1>4, <1>6, <1>7, <1>8, <1>9, <1>10, <1>11, <1>12, <1>13
          DEF ClientStep, CallStep, Opens, Starts, Closes

LEMMA ClientKeepsFunctions ==
  ASSUME CallsTyped, Functions, NEW g \in Graph, ClientStep(g), GraphInv(g), group \subseteq Proc
  PROVE  Functions'
  <1>1. CASE CallMoves(g)
    BY <1>1, MovesKeep DEF Functions, history
  <1>2. CASE GetsHandle(g) \/ MainAnswer(g)
    BY <1>2 DEF GetsHandle, MainAnswer, Functions, history, graphs
  <1>3. CASE InitsGraph(g) \/ Attempts(g)
    BY <1>3 DEF InitsGraph, Attempts, Functions, history, States, Mask
  <1>4. CASE FailsOpen(g) \/ EndsClose(g)
    BY <1>4 DEF FailsOpen, EndsClose, Functions, graphs
  <1>5. CASE DropsGraph(g) \/ FreesGraph(g)
    BY <1>5 DEF DropsGraph, FreesGraph, Keeps, Frees, Functions, States, NoEvents
  <1>6. CASE Wakes(g)
    BY <1>6 DEF Wakes, Functions, history
  <1>7. CASE WritesState(g)
    BY <1>7 DEF WritesState, Functions, At, GraphInv, CallOk, States
  <1>8. CASE SpfAnswers(g)
    BY <1>8 DEF SpfAnswers, Functions, CallsTyped, Calls
  <1> QED BY <1>1, <1>2, <1>3, <1>4, <1>5, <1>6, <1>7, <1>8
          DEF ClientStep, CallStep, Opens, Starts, Closes, CallMoves

\* The variables that hold sets of graphs, locks and flags.
SmallTypes ==
  /\ {spf_restart, configured, overlapped, gpr_blocked, bad_signal} \subseteq BOOLEAN
  /\ {open_close_lock, start_stop_lock} \subseteq Graph \cup {Free}
  /\ {graph_list, signals_exist, told, revived} \subseteq SUBSET Graph

LEMMA ClientKeepsSmall ==
  ASSUME NEW g \in Graph, ClientStep(g), SmallTypes, bad_signal' = bad_signal, overlapped' = overlapped
  PROVE  SmallTypes'
  <1> USE DEF SmallTypes
  <1>1. CASE CallMoves(g)
    <2>1. UNCHANGED <<graph_list, signals_exist, told, revived>>
      BY <1>1, MovesKeep DEF history
    <2>2. {spf_restart, configured, gpr_blocked}' \subseteq BOOLEAN
      BY <1>1 DEF CallMoves, restart, Start, Stop, ReadsRestart, SatellitesTimeOut, Loads,
         Checks, SendsOpen, SetsCal, ReturnsOpen, ClosesAgain, EndsAttempt, StartSends, Started,
         ReturnsStart, StopSends, EndsStop, CloseLocks, CloseSends, TimesOut, Reachable
    <2>3. {open_close_lock, start_stop_lock}' \subseteq Graph \cup {Free}
      BY <1>1 DEF CallMoves, locks, Unlocks, Start, Stop, ReadsRestart, SatellitesTimeOut,
         Loads, Checks, SendsOpen, SetsCal, ReturnsOpen, ClosesAgain, EndsAttempt, StartSends,
         Started, ReturnsStart, StopSends, EndsStop, CloseLocks, CloseSends, TimesOut
    <2> QED BY <2>1, <2>2, <2>3
  <1>2. CASE DropsGraph(g) \/ FreesGraph(g)
    BY <1>2 DEF DropsGraph, FreesGraph, Deinits, ReleasesHandle, Keeps, Frees, restart, locks
  <1>3. CASE GetsHandle(g) \/ InitsGraph(g) \/ Attempts(g) \/ WritesState(g)
    BY <1>3 DEF GetsHandle, InitsGraph, Attempts, WritesState, restart, locks, history
  <1>4. CASE FailsOpen(g) \/ EndsClose(g) \/ Wakes(g) \/ SpfAnswers(g) \/ MainAnswer(g)
    BY <1>4 DEF FailsOpen, EndsClose, Wakes, SpfAnswers, MainAnswer, Unlocks, restart, locks,
       history, graphs
  <1> QED BY <1>1, <1>2, <1>3, <1>4 DEF ClientStep, CallStep, Opens, Starts, Closes, CallMoves

WorldTyped ==
  /\ group \subseteq Proc /\ alive \in [Proc -> BOOLEAN] /\ incarnation \in [Proc -> Nat \ {0}]
  /\ crashes \in 0..MaxCrash /\ NoticesTyped /\ ServregTyped /\ ss_state_flags \subseteq group

LEMMA TypesAreThese ==
  TypeInv <=> /\ WorldTyped /\ SmallTypes /\ Functions /\ CallsTyped /\ RegistryInv
              /\ graph_hdl_lock = (IF servreg.pc = "scan" THEN Servreg ELSE Free)
  BY DEF TypeInv, TypeOK, WorldTyped, SmallTypes, Functions, CallsTyped, NoticesTyped,
     ServregTyped, Notice

LEMMA TypesFromThese ==
  ASSUME WorldTyped', SmallTypes', Functions', CallsTyped', RegistryInv',
         graph_hdl_lock' = (IF servreg'.pc = "scan" THEN Servreg ELSE Free)
  PROVE  TypeInv'
  BY DEF TypeInv, TypeOK, WorldTyped, SmallTypes, Functions, CallsTyped, NoticesTyped,
     ServregTyped, Notice

LEMMA ServregKeepsTypes ==
  ASSUME TypeInv, ServregStep, WalkInv'
  PROVE  TypeInv'
  <1>1. /\ WorldTyped /\ SmallTypes /\ Functions /\ CallsTyped /\ RegistryInv
        /\ NoticesTyped /\ ServregTyped
    BY TypesAreThese DEF WorldTyped
  <1>2. UNCHANGED <<world, open_close_lock, start_stop_lock, gpr_blocked, graph_list,
  signals_exist, ss_mask,
                    call, opened_on, revived, configured>>
    BY DEF ServregStep, StateChanges, DownLocks, DownScans, DownNotifies, UpNotifies, locks,
       graphs, history, restart
  <1>3. graph_hdl_lock' = (IF servreg'.pc = "scan" THEN Servreg ELSE Free)
    BY DEF WalkInv
  <1>4. CASE StateChanges
    <2>1. /\ Head(notices) \in Notice /\ Head(notices).proc \in group
          /\ \A i \in DOMAIN notices' : notices'[i].proc \in group
          /\ NoticesTyped'
      BY <1>1, <1>4, StateChangesDoes, QueueShrinks DEF RegistryInv
    <2>2. ServregTyped'
      BY <1>1, <1>4, <2>1 DEF StateChanges, QuietServreg, ServregTyped, Notice
    <2>3. ss_state_flags' \subseteq group
      BY <1>1, <1>4, <2>1 DEF StateChanges, WorldTyped
    <2>4. RegistryInv'
      BY <1>1, <1>2, <1>4, <2>1, StateChangesDoes DEF RegistryInv, world
    <2>5. UNCHANGED <<restart, graphs, history>>
      BY <1>4 DEF StateChanges
    <2>6. WorldTyped' /\ SmallTypes' /\ Functions' /\ CallsTyped'
      BY <1>1, <1>2, <2>1, <2>2, <2>3, <2>5
         DEF WorldTyped, world, SmallTypes, restart, graphs, history, Functions, CallsTyped
    <2> QED BY <1>3, <2>4, <2>6, TypesFromThese
  <1>5. CASE ~StateChanges
    <2>1. UNCHANGED <<notices, ss_state_flags>>
      BY <1>5 DEF ServregStep, DownLocks, DownScans, DownNotifies, UpNotifies
    <2>2. ServregTyped' /\ servreg'.proc \in group
      <3>1. CASE DownLocks
        BY <1>1, <3>1 DEF DownLocks, ServregTyped, SmallTypes, RegistryInv
      <3>2. ASSUME NEW g \in Graph, DownScans(g) PROVE ServregTyped' /\ servreg'.proc \in group
        BY <1>1, <3>2 DEF DownScans, Listed, ServregTyped, RegistryInv
      <3>3. CASE DownNotifies \/ UpNotifies
        BY <1>1, <3>3, MasterAssumption DEF DownNotifies, UpNotifies, QuietServreg, ServregTyped,
           RegistryInv
      <3> QED BY <1>5, <3>1, <3>2, <3>3 DEF ServregStep
    <2>3. RegistryInv' /\ WorldTyped'
      BY <1>1, <1>2, <2>1, <2>2 DEF RegistryInv, WorldTyped, world, NoticesTyped
    <2>4. Functions'
      <3>1. CASE DownLocks \/ DownNotifies \/ UpNotifies
        BY <1>1, <3>1 DEF DownLocks, DownNotifies, UpNotifies, Functions, graphs, history
      <3>2. ASSUME NEW g \in Graph, DownScans(g) PROVE Functions'
        <4>1. graph_state' \in [Graph -> States]
          BY <1>1, <3>2 DEF DownScans, Functions, States, ErrorStates
        <4>2. events' \in [Graph -> [Grp -> SUBSET {"OK", "FAIL", "SSR"}]]
          BY <1>1, <3>2 DEF DownScans, SignalAll, Functions
        <4>3. UNCHANGED <<ss_mask, opened_on>>
          BY <3>2 DEF DownScans
        <4> QED BY <1>1, <4>1, <4>2, <4>3 DEF Functions
      <3> QED BY <1>5, <3>1, <3>2 DEF ServregStep
    <2>5. bad_signal' \in BOOLEAN /\ told' \subseteq Graph /\ spf_restart' \in BOOLEAN /\ overlapped' \in BOOLEAN
      BY <1>1, <1>5 DEF ServregStep, DownLocks, DownScans, SignalAll, DownNotifies, UpNotifies,
         SmallTypes, ServregTyped, history, restart
    <2>6. SmallTypes' /\ CallsTyped'
      BY <1>1, <1>2, <2>5 DEF SmallTypes, CallsTyped
    <2> QED BY <1>3, <2>3, <2>4, <2>6, TypesFromThese
  <1> QED BY <1>4, <1>5

OutsideTypes ==
  /\ alive \in [Proc -> BOOLEAN] /\ incarnation \in [Proc -> Nat \ {0}] /\ crashes \in 0..MaxCrash
  /\ NoticesTyped /\ (\A p \in Proc : ~alive[p] => p \in group)
  /\ \A i \in DOMAIN notices : notices[i].proc \in group

LEMMA OutsideKeepsTypes ==
  ASSUME TypeInv, OutsideStep
  PROVE  TypeInv'
  <1>1. /\ WorldTyped /\ SmallTypes /\ Functions /\ CallsTyped /\ RegistryInv
        /\ NoticesTyped /\ ServregTyped
    BY TypesAreThese DEF WorldTyped
  <1>2. UNCHANGED <<group, servreg, ss_state_flags, spf_restart, locks, graphs, call, history>>
    BY DEF OutsideStep, Crash, Revive, GprGoesOn, registry, world, restart
  <1>3. graph_hdl_lock' = (IF servreg'.pc = "scan" THEN Servreg ELSE Free)
    BY <1>2, TypesAreThese DEF locks
  <1>4. SmallTypes' /\ Functions' /\ CallsTyped' /\ ServregTyped' /\ ss_state_flags' \subseteq group'
    <2>1. {configured, overlapped, gpr_blocked}' \subseteq BOOLEAN
      BY <1>1 DEF OutsideStep, Crash, Revive, GprGoesOn, SmallTypes, restart
    <2> QED BY <1>1, <1>2, <2>1 DEF SmallTypes, Functions, CallsTyped, ServregTyped, WorldTyped,
               locks, graphs, history
  <1>5. OutsideTypes'
    <2>1. ASSUME NEW p \in group, NEW s \in {"DN", "UP"},
                 notices' = Append(notices, [proc |-> p, state |-> s])
          PROVE  NoticesTyped' /\ \A i \in DOMAIN notices' : notices'[i].proc \in group
      <3>1. [proc |-> p, state |-> s] \in Notice
        BY <1>1 DEF Notice, WorldTyped
      <3>2. /\ Len(notices) \in Nat /\ DOMAIN notices = 1..Len(notices)
            /\ DOMAIN notices' = 1..(Len(notices) + 1)
            /\ notices'[Len(notices) + 1] = [proc |-> p, state |-> s]
            /\ \A i \in DOMAIN notices : notices'[i] = notices[i]
        BY <1>1, <2>1, <3>1 DEF NoticesTyped
      <3>3. \A i \in DOMAIN notices' : i \in DOMAIN notices \/ i = Len(notices) + 1
        BY <3>2
      <3> QED BY <1>1, <2>1, <3>1, <3>2, <3>3, QueueGrows DEF RegistryInv
    <2>2. ASSUME NEW p \in Proc, Crash(p) PROVE OutsideTypes'
      <3>1. p \in group /\ notices' = Append(notices, [proc |-> p, state |-> "DN"])
        BY <2>2 DEF Crash
      <3>2. /\ alive' \in [Proc -> BOOLEAN] /\ incarnation' \in [Proc -> Nat \ {0}] /\ crashes' \in 0..MaxCrash
            /\ \A q \in Proc : ~alive'[q] => q \in group'
        BY <1>1, <2>2, <1>2, BoundsAssumption DEF Crash, WorldTyped, RegistryInv
      <3> QED BY <1>2, <2>1, <3>1, <3>2 DEF OutsideTypes
    <2>3. ASSUME NEW p \in Proc, Revive(p) PROVE OutsideTypes'
      <3>1. p \in group /\ notices' = Append(notices, [proc |-> p, state |-> "UP"])
        BY <1>1, <2>3 DEF Revive, RegistryInv
      <3>2. /\ alive' \in [Proc -> BOOLEAN] /\ incarnation' \in [Proc -> Nat \ {0}] /\ crashes' \in 0..MaxCrash
            /\ \A q \in Proc : ~alive'[q] => q \in group'
        BY <1>1, <2>3, <1>2 DEF Revive, WorldTyped, RegistryInv
      <3> QED BY <1>2, <2>1, <3>1, <3>2 DEF OutsideTypes
    <2>4. CASE GprGoesOn
      BY <1>1, <2>4 DEF GprGoesOn, world, registry, WorldTyped, RegistryInv, NoticesTyped,
         OutsideTypes
    <2> QED BY <2>2, <2>3, <2>4 DEF OutsideStep
  <1>6. WorldTyped' /\ RegistryInv'
    BY <1>1, <1>2, <1>4, <1>5 DEF WorldTyped, RegistryInv, OutsideTypes
  <1> QED BY <1>3, <1>4, <1>6, TypesFromThese

LEMMA ClientKeepsTypes ==
  ASSUME TypeInv, NEW g \in Graph, ClientStep(g), GraphInv(g)
  PROVE  TypeInv'
  <1>1. /\ WorldTyped /\ SmallTypes /\ Functions /\ CallsTyped /\ RegistryInv
        /\ graph_hdl_lock = (IF servreg.pc = "scan" THEN Servreg ELSE Free)
    BY TypesAreThese
  <1>2. UNCHANGED <<world, registry, overlapped, graph_hdl_lock, bad_signal>>
    BY <1>1, OthersAreSame DEF WorldKeeps
  <1>3. WorldTyped' /\ RegistryInv' /\ graph_hdl_lock' = (IF servreg'.pc = "scan" THEN Servreg ELSE Free)
    BY <1>1, <1>2 DEF WorldTyped, RegistryInv, world, registry, NoticesTyped, ServregTyped
  <1>4. incarnation[Master] \in Nat /\ group \subseteq Proc
    BY <1>1, MasterAssumption DEF WorldTyped
  <1> QED BY <1>1, <1>2, <1>3, <1>4, TypesFromThese, ClientKeepsCalls, ClientKeepsFunctions,
             ClientKeepsSmall

-----------------------------------------------------------------------------
(* A restart that has not been configured is remembered. *)

\* Only ReadsRestart begins to configure the master.
LEMMA BeginsToConfigure ==
  ASSUME CallsTyped, NEW g \in Graph, ClientStep(g), GraphInv(g), Configuring(g)'
  PROVE  call'[g] = call[g] \/ (ReadsRestart(g) /\ (alive[Master] => call'[g].sent = incarnation[Master]))
  <1> SUFFICES ASSUME ~ReadsRestart(g), ~SpfAnswers(g), ~MainAnswer(g) PROVE FALSE
    <2>1. CASE ReadsRestart(g)
      BY <2>1, GotoDoes DEF ReadsRestart, CallsTyped, Calls, Configuring
    <2>2. CASE SpfAnswers(g) \/ MainAnswer(g)
      BY <2>2 DEF SpfAnswers, MainAnswer
    <2> QED BY <2>1, <2>2
  <1> USE DEF Configuring
  <1>1. CASE Start(g) \/ Checks(g) \/ EndsAttempt(g) \/ CloseLocks(g) \/ InitsGraph(g)
    BY <1>1, GotoDoes DEF Start, Checks, EndsAttempt, CloseLocks, InitsGraph
  <1>2. CASE SendsOpen(g) \/ StartSends(g) \/ StopSends(g) \/ ClosesAgain(g)
    BY <1>2, CommandDoes DEF SendsOpen, StartSends, StopSends, ClosesAgain, Verdict
  <1>3. CASE SetsCal(g) \/ CloseSends(g)
    BY <1>3, CommandDoes, GotoDoes DEF SetsCal, CloseSends
  <1>4. CASE Started(g) \/ Stop(g) \/ FailsOpen(g)
    BY <1>4, UpdatesDoes, GotoDoes DEF Started, Stop, FailsOpen
  <1>5. CASE ReturnsOpen(g) \/ ReturnsStart(g) \/ EndsStop(g) \/ EndsClose(g) \/ DropsGraph(g) \/ FreesGraph(g)
    BY <1>5, NoCallDoes DEF ReturnsOpen, ReturnsStart, EndsStop, EndsClose, DropsGraph,
       FreesGraph, Keeps, Frees
  <1>6. CASE TimesOut(g) \/ Wakes(g)
    BY <1>6, ReturnsDoes DEF TimesOut, Wakes, Waiting, GraphInv, CallOk, Awaited
  <1>7. CASE GetsHandle(g) \/ Attempts(g) \/ SatellitesTimeOut(g) \/ Loads(g)
    BY <1>7 DEF GetsHandle, Attempts, SatellitesTimeOut, Loads, NoCall, CallsTyped, Calls
  <1>8. CASE WritesState(g)
    BY <1>8 DEF WritesState, NoCall, At, CallsTyped, Calls, GraphInv, CallOk
  <1> QED BY <1>1, <1>2, <1>3, <1>4, <1>5, <1>6, <1>7, <1>8
          DEF ClientStep, CallStep, Opens, Starts, Closes

LEMMA ClientKeepsRestart ==
  ASSUME CallsTyped, Functions, NEW g \in Graph, ClientStep(g), GraphInv(g), RestartInv
  PROVE  RestartInv'
  <1>1. UNCHANGED <<alive, incarnation, notices, servreg, overlapped>> /\ \A h \in Graph \ {g} : call'[h] = call[h]
    BY OthersAreSame DEF WorldKeeps, world, registry, Same
  <1>2. UNCHANGED UpPending
    BY <1>1 DEF UpPending, Queued
  <1>3. StaleIsOvertaken'
    BY <1>1, <1>2, BeginsToConfigure DEF RestartInv, StaleIsOvertaken, Configuring
  <1>4. CASE Loads(g)
    <2>1. PICK loaded \in BOOLEAN :
            /\ spf_restart' = (spf_restart /\ ~loaded)
            /\ configured' = (configured \/ (loaded /\ Reachable(g)))
      BY <1>4 DEF Loads
    <2>2. Configuring(g)
      BY <1>4 DEF Loads, At, Configuring
    <2>3. CASE loaded
      <3>1. Reachable(g) \/ ~alive[Master] \/ UpPending \/ overlapped
        BY <2>2 DEF RestartInv, StaleIsOvertaken, Reachable
      <3>2. RestartIsRemembered'
        BY <1>1, <1>2, <2>1, <2>3, <3>1 DEF RestartIsRemembered, UpPending
      <3> QED BY <1>3, <3>2 DEF RestartInv
    <2>4. CASE ~loaded
      <3>1. (spf_restart' <=> spf_restart) /\ (configured' <=> configured)
        BY <2>1, <2>4, MasterAssumption
      <3> QED BY <1>1, <1>2, <1>3, <3>1 DEF RestartInv, RestartIsRemembered, UpPending
    <2> QED BY <2>3, <2>4
  <1>5. CASE ~Loads(g)
    <2>1. UNCHANGED <<spf_restart, configured>>
      BY <1>5 DEF ClientStep, CallStep, Opens, Starts, Closes, restart, GetsHandle, Start, Stop,
         ReadsRestart, SatellitesTimeOut, InitsGraph, Attempts, Checks, SendsOpen, SetsCal,
         ReturnsOpen, ClosesAgain, FailsOpen, EndsAttempt, DropsGraph, StartSends, Started,
         ReturnsStart, StopSends, EndsStop, CloseLocks, CloseSends, EndsClose, FreesGraph,
         Wakes, WritesState, SpfAnswers, MainAnswer, TimesOut
    <2> QED BY <1>1, <1>2, <1>3, <2>1 DEF RestartInv, RestartIsRemembered, UpPending
  <1> QED BY <1>4, <1>5

LEMMA ServregKeepsRestart ==
  ASSUME ServregTyped, NoticesTyped, ServregStep, RestartInv
  PROVE  RestartInv'
  <1>1. UNCHANGED <<alive, incarnation, call, configured>>
    BY DEF ServregStep, StateChanges, DownLocks, DownScans, DownNotifies, UpNotifies, world, restart
  <1>2. CASE StateChanges
    <2>1. UNCHANGED <<spf_restart, overlapped>>
      BY <1>2 DEF StateChanges, restart
    <2>2. UpPending => UpPending'
      <3>1. servreg.pc = "idle"
        BY <1>2, StateChangesDoes
      <3>2. UpPending => Queued(Master, "UP")' \/ Head(notices) = [proc |-> Master, state |-> "UP"]
        BY <1>2, <3>1, StateChangesDoes, QueueShrinks DEF UpPending
      <3>3. Head(notices) = [proc |-> Master,
      state |-> "UP"] => servreg'.pc = "up" /\ servreg'.proc = Master
        BY <1>2, StateChangesDoes
      <3> QED BY <3>2, <3>3 DEF UpPending
    <2> QED BY <1>1, <2>1, <2>2 DEF RestartInv, RestartIsRemembered, StaleIsOvertaken, UpPending,
               Configuring
  <1>3. CASE UpNotifies
    <2>1. /\ servreg.pc = "up" /\ UNCHANGED notices
          /\ spf_restart' = (spf_restart \/ servreg.proc = Master)
          /\ overlapped' = (overlapped \/ (servreg.proc = Master /\ \E g \in Graph : Configuring(g)))
      BY <1>3 DEF UpNotifies
    <2>2. UpPending => UpPending' \/ servreg.proc = Master
      BY <2>1 DEF UpPending, Queued
    <2>3. RestartIsRemembered'
      BY <1>1, <2>1, <2>2 DEF RestartInv, RestartIsRemembered, UpPending
    <2>4. StaleIsOvertaken'
      BY <1>1, <2>1, <2>2 DEF RestartInv, StaleIsOvertaken, Configuring
    <2> QED BY <2>3, <2>4 DEF RestartInv
  <1>4. CASE ~StateChanges /\ ~UpNotifies
    <2>1. UNCHANGED <<spf_restart, overlapped, notices>>
      BY <1>4 DEF ServregStep, DownLocks, DownScans, DownNotifies, restart
    <2>2. servreg.pc # "up"
      BY <1>4, DownLocksDoes, DownScansDoes DEF ServregStep, DownNotifies
    <2>3. UpPending => UpPending'
      BY <2>1, <2>2 DEF UpPending, Queued
    <2> QED BY <1>1, <2>1, <2>3 DEF RestartInv, RestartIsRemembered, StaleIsOvertaken, UpPending,
               Configuring
  <1> QED BY <1>2, <1>3, <1>4

LEMMA OutsideKeepsRestart ==
  ASSUME NoticesTyped, OutsideStep, RestartInv, alive \in [Proc -> BOOLEAN], incarnation \in [Proc -> Nat \ {0}]
  PROVE  RestartInv'
  <1>1. UNCHANGED <<servreg, spf_restart, call>>
    BY DEF OutsideStep, Crash, Revive, GprGoesOn, registry, restart
  <1>2. ASSUME NEW p \in Proc, Crash(p) PROVE RestartInv'
    <2>1. /\ alive' = [alive EXCEPT ![p] = FALSE] /\ UNCHANGED incarnation
          /\ notices' = Append(notices, [proc |-> p, state |-> "DN"])
          /\ configured' = (configured /\ p # Master) /\ overlapped' = (overlapped /\ p # Master)
      BY <1>2 DEF Crash
    <2>2. UpPending => UpPending'
      BY <1>1, <2>1, QueueGrows DEF UpPending, Notice
    <2>3. CASE p = Master
      BY <2>1, <2>3 DEF RestartInv, RestartIsRemembered, StaleIsOvertaken
    <2>4. CASE p # Master
      <3>1. alive'[Master] = alive[Master] /\ (configured' <=> configured) /\ (overlapped' <=> overlapped)
        BY <2>1, <2>4, MasterAssumption
      <3> QED BY <1>1, <2>1, <2>2, <3>1 DEF RestartInv, RestartIsRemembered, StaleIsOvertaken,
                 UpPending, Configuring
    <2> QED BY <2>3, <2>4
  <1>3. ASSUME NEW p \in Proc, Revive(p) PROVE RestartInv'
    <2>1. /\ alive' = [alive EXCEPT ![p] = TRUE] /\ incarnation' = [incarnation EXCEPT ![p] = @ + 1]
          /\ notices' = Append(notices, [proc |-> p, state |-> "UP"])
          /\ UNCHANGED <<configured, overlapped>>
      BY <1>3 DEF Revive, restart
    <2>2. UpPending => UpPending'
      BY <1>1, <2>1, QueueGrows DEF UpPending, Notice
    <2>3. CASE p = Master
      <3>1. UpPending'
        BY <2>1, <2>3, QueueGrows DEF UpPending, Notice
      <3> QED BY <3>1 DEF RestartInv, RestartIsRemembered, StaleIsOvertaken, UpPending
    <2>4. CASE p # Master
      <3>1. alive'[Master] = alive[Master] /\ incarnation'[Master] = incarnation[Master]
        BY <2>1, <2>4, MasterAssumption
      <3> QED BY <1>1, <2>1, <2>2, <3>1 DEF RestartInv, RestartIsRemembered, StaleIsOvertaken,
                 UpPending, Configuring
    <2> QED BY <2>3, <2>4
  <1>4. CASE GprGoesOn
    <2>1. UNCHANGED <<alive, incarnation, notices, configured, overlapped>>
      BY <1>4 DEF GprGoesOn, world, registry, restart
    <2> QED BY <1>1, <2>1 DEF RestartInv, RestartIsRemembered, StaleIsOvertaken, UpPending,
               Queued, Configuring
  <1> QED BY <1>2, <1>3, <1>4 DEF OutsideStep

-----------------------------------------------------------------------------
(* The inductive invariant and the theorems. *)

Inv ==
  /\ TypeInv /\ WalkInv /\ RestartInv
  /\ \A g \in Graph : GraphInv(g) /\ LostIsKnown(g)

LEMMA InitInv == Init => Inv
  <1> SUFFICES ASSUME Init PROVE Inv
    OBVIOUS
  <1> USE DEF Init, QuietServreg, NoCall
  <1>1. TypeInv
    <2>1. WorldTyped /\ RegistryInv
      BY MasterAssumption, BoundsAssumption DEF WorldTyped, NoticesTyped, Notice, ServregTyped,
         RegistryInv
    <2>2. SmallTypes /\ Functions
      BY DEF SmallTypes, Functions, States, NoEvents
    <2>3. CallsTyped
      BY NoCallTyped DEF CallsTyped, Places, Fresh
    <2>4. graph_hdl_lock = (IF servreg.pc = "scan" THEN Servreg ELSE Free)
      OBVIOUS
    <2> QED BY <2>1, <2>2, <2>3, <2>4, TypesAreThese
  <1>2. WalkInv
    BY DEF WalkInv, SignalsOutliveTheWalk
  <1>3. RestartInv
    BY DEF RestartInv, RestartIsRemembered, StaleIsOvertaken, Configuring
  <1>4. ASSUME NEW g \in Graph PROVE GraphInv(g) /\ LostIsKnown(g)
    <2>1. Place(g) = "closed" /\ ~Shut(g) /\ ~Named(g)
      BY DEF Place, Shut, InError, ErrorStates, Named
    <2>2. CallOk(g) /\ FreshIsBlank(g) /\ BusyIsNotIdle(g)
      BY <2>1 DEF CallOk, FreshIsBlank, BusyIsNotIdle, Places, Fresh, Opening, Running
    <2>3. SignalsWhileAlive(g) /\ NamedIfShut(g)
      BY <2>1 DEF SignalsWhileAlive, NamedIfShut, Fresh, Giving
    <2>4. ResetOnlyIfShut(g)
      BY <2>1 DEF ResetOnlyIfShut, NoEvents
    <2>5. MaskIsSet(g) /\ LostIsKnown(g)
      BY <2>1 DEF MaskIsSet, LostIsKnown, NeverOpened, Fresh
    <2> QED BY <2>2, <2>3, <2>4, <2>5 DEF GraphInv
  <1> QED BY <1>1, <1>2, <1>3, <1>4 DEF Inv

LEMMA NextInv == Inv /\ [Next]_vars => Inv'
  <1> SUFFICES ASSUME Inv, [Next]_vars PROVE Inv'
    OBVIOUS
  <1>1. /\ TypeInv /\ WalkInv /\ RestartInv
        /\ \A g \in Graph : GraphInv(g) /\ LostIsKnown(g)
    BY DEF Inv
  <1>2. CallsTyped /\ Functions /\ ServregTyped /\ NoticesTyped /\ Servreg # Free
    BY <1>1, TypesOfParts, NamesAssumption
  <1>3. ASSUME NEW g \in Graph, ClientStep(g) PROVE Inv'
    <2>1. GraphInv(g)' /\ LostIsKnown(g)'
      BY <1>1, <1>2, <1>3, ClientKeepsGraph, ClientKeepsKnown
    <2>2. UNCHANGED <<group, alive, incarnation, notices,
    servreg>> /\ \A h \in Graph \ {g} : Same(h)
      BY <1>2, <1>3, OthersAreSame DEF WorldKeeps, world, registry
    <2>3. \A h \in Graph \ {g} : GraphInv(h)' /\ LostIsKnown(h)'
      BY <1>1, <2>2, SameKeeps, SameStaysKnown
    <2>4. TypeInv' /\ WalkInv' /\ RestartInv'
      BY <1>1, <1>2, <1>3, ClientKeepsTypes, ClientKeepsWalk, ClientKeepsRestart
    <2> QED BY <2>1, <2>3, <2>4 DEF Inv
  <1>4. CASE ServregStep
    <2>1. (\A g \in Graph : GraphInv(g)') /\ WalkInv'
      BY <1>1, <1>2, <1>4, ServregKeepsGraphs
    <2>2. \A g \in Graph : LostIsKnown(g)'
      BY <1>1, <1>2, <1>4, ServregKeepsKnown
    <2>3. TypeInv' /\ RestartInv'
      BY <1>1, <1>2, <1>4, <2>1, ServregKeepsTypes, ServregKeepsRestart
    <2> QED BY <2>1, <2>2, <2>3 DEF Inv
  <1>5. CASE OutsideStep
    <2>1. (\A g \in Graph : GraphInv(g)') /\ WalkInv'
      BY <1>1, <1>5, OutsideKeepsGraphs
    <2>2. alive \in [Proc -> BOOLEAN] /\ incarnation \in [Proc -> Nat \ {0}]
      BY <1>1 DEF TypeInv, TypeOK
    <2>3. \A g \in Graph : LostIsKnown(g)'
      BY <1>1, <1>2, <1>5, <2>2, OutsideKeepsKnown
    <2>4. TypeInv' /\ RestartInv'
      BY <1>1, <1>2, <1>5, <2>2, OutsideKeepsTypes, OutsideKeepsRestart
    <2> QED BY <2>1, <2>3, <2>4 DEF Inv
  <1>6. CASE UNCHANGED vars
    <2>1. UNCHANGED <<group, alive, incarnation, crashes, notices, servreg, ss_state_flags, spf_restart,
                      configured, overlapped, open_close_lock, start_stop_lock, graph_hdl_lock, gpr_blocked,
                      graph_list, graph_state, ss_mask, events, signals_exist, call, opened_on, told, revived,
                      bad_signal>>
      BY <1>6 DEF vars, world, registry, restart, locks, graphs, history
    <2>2. \A g \in Graph : Same(g)
      BY <2>1 DEF Same
    <2>3. \A g \in Graph : GraphInv(g)' /\ LostIsKnown(g)'
      BY <1>1, <2>1, <2>2, SameKeeps, SameStaysKnown
    <2>4. TypeInv'
      <3>1. WorldTyped' /\ SmallTypes' /\ Functions' /\ CallsTyped' /\ RegistryInv'
            /\ graph_hdl_lock' = (IF servreg'.pc = "scan" THEN Servreg ELSE Free)
        BY <1>1, <2>1, TypesAreThese
           DEF WorldTyped, SmallTypes, Functions, CallsTyped, RegistryInv, NoticesTyped,
           ServregTyped
      <3> QED BY <3>1, TypesFromThese
    <2>5. WalkInv' /\ RestartInv'
      BY <1>1, <2>1 DEF WalkInv, SignalsOutliveTheWalk, RestartInv, RestartIsRemembered,
         StaleIsOvertaken, UpPending, Queued, Configuring
    <2> QED BY <2>3, <2>4, <2>5 DEF Inv
  <1> QED BY <1>3, <1>4, <1>5, <1>6 DEF Next, ClientStep, OutsideStep

LEMMA SpecInv == Spec => []Inv
  BY InitInv, NextInv, PTL DEF Spec

\* Every variable has its type (TypeOK), for any processors, graphs and bounds.
THEOREM TypeCorrect == Spec => []TypeOK
  <1>1. Inv => TypeOK
    BY DEF Inv, TypeInv
  <1> QED BY <1>1, SpecInv, PTL

\* gsl_main_ssr_callback never sets a signal that gsl_graph_deinit has destroyed: it walks
\* under graph_hdl_lock, and a graph that is listed without signals is idle or in an error
\* state, which the walk leaves alone.
THEOREM WalkIsSafe == Spec => []SignalsOutliveTheWalk
  <1>1. Inv => SignalsOutliveTheWalk
    BY DEF Inv, WalkInv
  <1> QED BY <1>1, SpecInv, PTL

\* A restart of the master that has not been configured stays in spf_restart, whatever
\* steps of gsl_open fail and however often the master restarts.
THEOREM RestartIsKept == Spec => []RestartIsRemembered
  <1>1. Inv => RestartIsRemembered
    BY DEF Inv, RestartInv
  <1> QED BY <1>1, SpecInv, PTL

\* No order of the notification and of the steps of gsl_open lets a graph slip through that
\* a processor has lost.
THEOREM LossIsKnown == Spec => []LostGraphsAreShut
  <1>1. Inv => LostGraphsAreShut
    <2> SUFFICES ASSUME Inv, NEW g \in graph_list, NEW p \in DOMAIN opened_on[g], Lost(g, p)
                 PROVE  InError(g) \/ DownPending(g, p) \/ g \in revived
      BY DEF LostGraphsAreShut
    <2>1. g \in Graph
      BY DEF Inv, TypeInv, TypeOK
    <2> QED BY <2>1 DEF Inv, LostIsKnown, Shut
  <1> QED BY <1>1, SpecInv, PTL

\* When the callback is done the client has been told of exactly those of its graphs that
\* are shut.
THEOREM ClientsAreTold == Spec => []ToldOfWhatIsShut
  <1>1. Inv => ToldOfWhatIsShut
    <2> SUFFICES ASSUME Inv, Quiet, NEW g \in Graph, Held(g)
                 PROVE  g \in told <=> InError(g) \/ g \in revived
      BY DEF ToldOfWhatIsShut
    <2>1. NamedIfShut(g)
      BY DEF Inv, GraphInv
    <2>2. servreg.pc # "scan" /\ Place(g) \notin Giving
      BY DEF Quiet, Held, Place, Giving
    <2> QED BY <2>1, <2>2 DEF NamedIfShut, Named, Shut
  <1> QED BY <1>1, SpecInv, PTL

=============================================================================
