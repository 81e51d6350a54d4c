------------------------------ MODULE GslRestart ------------------------------
(***************************************************************************)
(* The restart of a subsystem (SSR) while clients open, start and close    *)
(* graphs: the OSAL thread that runs servreg_callback and                  *)
(* gsl_main_ssr_callback, the state of the subsystems (gsl_spf_ss_state.c) *)
(* and the part of gsl_open, gsl_start and gsl_close that it races with.   *)
(*                                                                         *)
(* A graph needs the processors of its ss_mask: the master, to which its   *)
(* commands go, and maybe a satellite.  When one of them goes down the     *)
(* callback moves the graph to an error state, which it never leaves, and  *)
(* sets the event SSR on its signals, so that nobody waits for an answer   *)
(* that cannot come.  When the master is up again it sets spf_restart, and *)
(* the next gsl_open configures the new incarnation of SPF.                *)
(*                                                                         *)
(* What a graph holds in the pool is in GslGraph, tokens and late answers  *)
(* in GslSignal.  Not here: dynamic PDs, a failing allocation of the list  *)
(* of handles, and gsl_init (the initial state is the one it leaves).      *)
(***************************************************************************)
EXTENDS Naturals, Sequences, FiniteSets

CONSTANTS
  Graph,      \* graph objects; one client thread each
  Proc,       \* the processors of one group
  Master,     \* ... the one that runs the APM
  NeededBy,   \* [Graph -> the processors its subgraphs run on]
  Tries,      \* ss_retry_count
  MaxCrash,   \* bound: crashes of processors
  Servreg,    \* the thread of the notifications
  Free        \* the holder of a free lock

ASSUME MasterAssumption == Master \in Proc
ASSUME NeededByAssumption == NeededBy \in [Graph -> SUBSET Proc] /\ \A g \in Graph : Master \in NeededBy[g]
ASSUME BoundsAssumption == Tries \in Nat \ {0} /\ MaxCrash \in Nat
ASSUME NamesAssumption == Servreg # Free /\ {Servreg, Free} \cap Graph = {}

VARIABLES
  group,            \* the processors ACDB lists: the master and its static satellites
  alive,            \* [Proc -> it runs]
  incarnation,      \* [Proc -> how many times it has started]
  crashes,          \* how many crashes there were
  notices,          \* what the service registry has to tell, in order
  servreg,          \* the callback in progress
  ss_state_flags,   \* the processors that GSL believes to be up
  spf_restart,      \* the master has restarted and is to be configured
  open_close_lock, start_stop_lock, graph_hdl_lock,
  gpr_blocked,      \* the thread of GPR waits for open_close_lock
  graph_list,       \* graphs with a handle
  graph_state,      \* [Graph -> state]
  ss_mask,          \* [Graph -> processors whose restart concerns it]
  events,           \* [Graph -> [Grp -> what its signal has been set for]]
  signals_exist,    \* graphs whose signals have been created and not destroyed
  call,             \* [Graph -> the client's call]
  opened_on,        \* history: the incarnations SPF has opened the graph on
  told,             \* history: graphs whose handle was in a notification
  revived,          \* history: graphs whose error state was overwritten
  configured,       \* history: the master's incarnation has been configured
  overlapped,       \* history: ... it came up while another was being configured
  bad_signal        \* history: a destroyed signal has been set

world == <<group, alive, incarnation, crashes>>
locks == <<open_close_lock, start_stop_lock, graph_hdl_lock>>
graphs == <<graph_list, graph_state, ss_mask, events, signals_exist>>
restart == <<spf_restart, configured, overlapped>>
history == <<opened_on, told, revived, bad_signal>>
registry == <<notices, servreg, ss_state_flags>>
vars == <<world, registry, restart, locks, gpr_blocked, graphs, call, history>>

Grp == {"GRP1", "GRP2", "GRP3"}
ErrorStates == {"ERROR", "ERROR_ALLOW_CLEANUP"}
InError(g) == graph_state[g] \in ErrorStates
Mask(g) == NeededBy[g] \cap group
NoEvents == [grp \in Grp |-> {}]
NeverOpened == [p \in {} |-> 0]
QuietServreg == [pc |-> "idle", proc |-> Master, todo |-> {}, handles |-> {}]

\* A call: where it is, where it goes on after a wait or an update of the state,
\* its result so far, the tries left, the incarnation its command was sent to,
\* whether the graph was in good order then, and the state it is about to write.
NoCall(label) ==
  [pc |-> label, then |-> "none", rc |-> "OK", tries |-> 0, sent |-> 0,
   clean |-> FALSE, grp |-> "GRP1", new |-> "none"]

Init ==
  /\ group \in {G \in SUBSET Proc : Master \in G}
  /\ alive = [p \in Proc |-> TRUE] /\ incarnation = [p \in Proc |-> 1] /\ crashes = 0
  /\ notices = <<>> /\ servreg = QuietServreg
  /\ ss_state_flags = group
  /\ spf_restart = FALSE /\ configured = TRUE /\ overlapped = FALSE
  /\ open_close_lock = Free /\ start_stop_lock = Free /\ graph_hdl_lock = Free
  /\ gpr_blocked = FALSE
  /\ graph_list = {} /\ graph_state = [g \in Graph |-> "IDLE"]
  /\ ss_mask = [g \in Graph |-> {}] /\ events = [g \in Graph |-> NoEvents]
  /\ signals_exist = {}
  /\ call = [g \in Graph |-> NoCall("closed")]
  /\ opened_on = [g \in Graph |-> NeverOpened]
  /\ told = {} /\ revived = {} /\ bad_signal = FALSE

-----------------------------------------------------------------------------
(* The processors and the service registry *)

Crash(p) ==
  /\ p \in group /\ alive[p] /\ crashes < MaxCrash
  /\ alive' = [alive EXCEPT ![p] = FALSE] /\ crashes' = crashes + 1
  /\ notices' = Append(notices, [proc |-> p, state |-> "DN"])
  /\ configured' = (configured /\ p # Master)
  /\ overlapped' = (overlapped /\ p # Master)
  /\ UNCHANGED <<group, incarnation, servreg, ss_state_flags, spf_restart, locks,
                 gpr_blocked, graphs, call, history>>

Revive(p) ==
  /\ ~alive[p]
  /\ alive' = [alive EXCEPT ![p] = TRUE]
  /\ incarnation' = [incarnation EXCEPT ![p] = @ + 1]
  /\ notices' = Append(notices, [proc |-> p, state |-> "UP"])
  /\ UNCHANGED <<group, crashes, servreg, ss_state_flags, restart, locks, gpr_blocked,
                 graphs, call, history>>

\* servreg_callback, up to gsl_spf_ss_state_set.
StateChanges ==
  /\ servreg.pc = "idle" /\ notices # <<>>
  /\ LET n == Head(notices) IN
     IF n.state = "DN"
     THEN /\ ss_state_flags' = ss_state_flags \ {n.proc}
          /\ servreg' = [QuietServreg EXCEPT !.pc = "dn", !.proc = n.proc]
     ELSE /\ ss_state_flags' = ss_state_flags \cup {n.proc}
          /\ servreg' = [QuietServreg EXCEPT !.pc = "up", !.proc = n.proc]
  /\ notices' = Tail(notices)
  /\ UNCHANGED <<world, restart, locks, gpr_blocked, graphs, call, history>>

\* gsl_main_ssr_callback, a processor is down: graph_hdl_lock, the walk over the
\* graphs, and the callback of the client.
DownLocks ==
  /\ servreg.pc = "dn" /\ graph_hdl_lock = Free
  /\ graph_hdl_lock' = Servreg
  /\ servreg' = [servreg EXCEPT !.pc = "scan", !.todo = graph_list]
  /\ UNCHANGED <<world, notices, ss_state_flags, restart, open_close_lock,
                 start_stop_lock, gpr_blocked, graphs, call, history>>

\* Mutant of SignalAll: the signal of CLOSE is left out.
SignalTwo(g) ==
  /\ events' = [events EXCEPT ![g] = [grp \in Grp |-> IF grp = "GRP3" THEN @[grp] ELSE (@[grp] \ {"FAIL"}) \cup {"SSR"}]]
  /\ bad_signal' = (bad_signal \/ g \notin signals_exist)

\* gsl_graph_signal_event_all; gsl_signal_set also overwrites the status of an answer
\* that nobody has read yet.
SignalAll(g) ==
  /\ events' = [events EXCEPT ![g] = [grp \in Grp |-> (@[grp] \ {"FAIL"}) \cup {"SSR"}]]
  /\ bad_signal' = (bad_signal \/ g \notin signals_exist)

Passed(g) == servreg.proc \notin ss_mask[g]

\* Mutant of Spared: a graph that is idle is not left alone.
SparedInError(g) == InError(g)
Spared(g) == graph_state[g] = "IDLE" \/ InError(g)

\* Mutant of Listed: every graph is listed.
ListedAlways(g) == servreg.handles \cup {g}
Listed(g) == IF Passed(g) THEN servreg.handles ELSE servreg.handles \cup {g}

DownScans(g) ==
  /\ servreg.pc = "scan" /\ g \in servreg.todo
  /\ servreg' = [servreg EXCEPT !.todo = @ \ {g}, !.handles = Listed(g)]
  /\ IF Passed(g) \/ Spared(g)
     THEN UNCHANGED <<graph_state, events, bad_signal>>
     ELSE /\ graph_state' = [graph_state EXCEPT ![g] =
               IF servreg.proc = Master THEN "ERROR" ELSE "ERROR_ALLOW_CLEANUP"]
          /\ SignalAll(g)
  /\ UNCHANGED <<world, notices, ss_state_flags, restart, locks, gpr_blocked,
                 graph_list, ss_mask, signals_exist, call, opened_on, told, revived>>

DownNotifies ==
  /\ servreg.pc = "scan" /\ servreg.todo = {}
  /\ graph_hdl_lock' = Free
  /\ told' = told \cup servreg.handles
  /\ servreg' = QuietServreg
  /\ UNCHANGED <<world, notices, ss_state_flags, restart, open_close_lock,
                 start_stop_lock, gpr_blocked, graphs, call, opened_on, revived, bad_signal>>

Configuring(g) == call[g].pc \in {"satellites", "load"}

\* ... a processor is up again.
UpNotifies ==
  /\ servreg.pc = "up"
  /\ spf_restart' = (spf_restart \/ servreg.proc = Master)
  /\ overlapped' = (overlapped \/ (servreg.proc = Master /\ \E g \in Graph : Configuring(g)))
  /\ servreg' = QuietServreg
  /\ UNCHANGED <<world, notices, ss_state_flags, configured, locks, gpr_blocked,
                 graphs, call, history>>

-----------------------------------------------------------------------------
(* Commands to SPF: gsl_send_spf_cmd *)

At(g, label) == call[g].pc = label
Goto(g, label) == call' = [call EXCEPT ![g].pc = label]
GotoWith(g, label, rc) == call' = [call EXCEPT ![g].pc = label, ![g].rc = rc]
HdlLockFree == graph_hdl_lock = Free

\* The command leaves for the master as it is now; if that is down it is lost.
Sends(g, grp, next) ==
  call' = [call EXCEPT ![g].pc = "waiting", ![g].then = next, ![g].grp = grp,
                       ![g].sent = incarnation[Master], ![g].clean = ~InError(g)]

\* The wait is over.
Returns(g, result) ==
  call' = [call EXCEPT ![g] = [NoCall(call[g].then) EXCEPT !.rc = result, !.tries = call[g].tries]]

Waiting(g) == call[g].pc = "waiting"
Reachable(g) == alive[Master] /\ incarnation[Master] = call[g].sent

\* SPF answers a command and the thread of GPR sets the signal.  A graph can be
\* opened only while all its processors run.
SpfAnswers(g) == \E status \in {"OK", "FAIL"} :
  /\ Waiting(g) /\ Reachable(g) /\ ~gpr_blocked
  /\ events[g][call[g].grp] \cap {"OK", "FAIL"} = {}
  /\ status = "OK" => \A p \in Mask(g) : alive[p]
  /\ events' = [events EXCEPT ![g][call[g].grp] = @ \cup {status}]
  /\ opened_on' = IF call[g].then = "opened" /\ status = "OK"
                  THEN [opened_on EXCEPT ![g] = [p \in Mask(g) |-> incarnation[p]]]
                  ELSE opened_on
  /\ UNCHANGED <<world, registry, restart, locks, gpr_blocked, graph_list, graph_state,
                 ss_mask, signals_exist, call, told, revived, bad_signal>>

\* gsl_signal_timedwait returns: SSR comes before a good answer, a bad status before
\* SSR.
Wakes(g) ==
  /\ Waiting(g) /\ events[g][call[g].grp] # {}
  /\ LET flags == events[g][call[g].grp]
         result == IF "FAIL" \in flags THEN "FAIL" ELSE IF "SSR" \in flags THEN "SSR" ELSE "OK"
     IN Returns(g, result)
  /\ events' = [events EXCEPT ![g][call[g].grp] = {}]
  /\ UNCHANGED <<world, registry, restart, locks, gpr_blocked, graph_list, graph_state,
                 ss_mask, signals_exist, history>>

TimesOut(g) ==
  /\ Waiting(g) /\ events[g][call[g].grp] = {}
  /\ Returns(g, "FAIL")
  /\ UNCHANGED <<world, registry, restart, locks, gpr_blocked, graphs, history>>

\* gsl_graph_update_state: the state is read and then written, under no lock that
\* the callback takes.
Updates(g, new, next) ==
  IF InError(g) THEN GotoWith(g, next, "OK")
  ELSE call' = [call EXCEPT ![g].pc = "writing", ![g].then = next, ![g].rc = "OK", ![g].new = new]

WritesState(g) ==
  /\ At(g, "writing")
  /\ graph_state' = [graph_state EXCEPT ![g] = call[g].new]
  /\ revived' = IF InError(g) THEN revived \cup {g} ELSE revived
  /\ call' = [call EXCEPT ![g] = [NoCall(call[g].then) EXCEPT !.tries = call[g].tries]]
  /\ UNCHANGED <<world, registry, restart, locks, gpr_blocked, graph_list, ss_mask,
                 events, signals_exist, opened_on, told, bad_signal>>

-----------------------------------------------------------------------------
(* gsl_open *)

\* get_graph_handle, for a new struct gsl_graph.
GetsHandle(g) ==
  /\ At(g, "closed") /\ HdlLockFree
  /\ graph_list' = graph_list \cup {g}
  /\ call' = [call EXCEPT ![g] = [NoCall("lock") EXCEPT !.tries = Tries]]
  /\ UNCHANGED <<world, registry, restart, locks, gpr_blocked, graph_state, ss_mask,
                 events, signals_exist, history>>

\* The loop over spf_restart, under open_close_lock: gsl_send_spf_satellite_info has
\* nothing to send if the group has no satellite.
ReadsRestart(g) ==
  /\ At(g, "lock") /\ open_close_lock = Free
  /\ IF spf_restart
     THEN /\ open_close_lock' = g
          /\ call' = [call EXCEPT ![g].pc = IF group = {Master} THEN "load" ELSE "satellites",
                        ![g].sent = IF alive[Master] THEN incarnation[Master] ELSE 0]
     ELSE /\ Goto(g, "init") /\ UNCHANGED open_close_lock
  /\ UNCHANGED <<world, registry, restart, start_stop_lock, graph_hdl_lock, gpr_blocked,
                 graphs, history>>

\* SPF's answer: gsl_main_gpr_callback sets rsp_signal, whose lock is the
\* open_close_lock that gsl_open holds while it waits.
MainAnswer(g) ==
  /\ At(g, "satellites") /\ Reachable(g) /\ ~gpr_blocked
  /\ gpr_blocked' = TRUE
  /\ UNCHANGED <<world, registry, restart, locks, graphs, call, history>>

\* By then nobody expects the answer.
GprGoesOn ==
  /\ gpr_blocked /\ open_close_lock = Free
  /\ gpr_blocked' = FALSE
  /\ UNCHANGED <<world, registry, restart, locks, graphs, call, history>>

Unlocks(g) == open_close_lock' = Free /\ UNCHANGED <<start_stop_lock, graph_hdl_lock>>

SatellitesTimeOut(g) ==
  /\ At(g, "satellites")
  /\ Unlocks(g)
  /\ call' = [call EXCEPT ![g].pc = "init", ![g].sent = 0]
  /\ UNCHANGED <<world, registry, restart, gpr_blocked, graphs, history>>

\* Mutant of Loads: the flag is cleared whether the modules were loaded or not.
LoadsOnce(g) == \E loaded \in BOOLEAN :
  /\ At(g, "load")
  /\ spf_restart' = FALSE
  /\ configured' = (configured \/ (loaded /\ Reachable(g)))
  /\ Unlocks(g)
  /\ call' = [call EXCEPT ![g].pc = "init", ![g].sent = 0]
  /\ UNCHANGED <<world, registry, overlapped, gpr_blocked, graphs, history>>

\* The six tries of gsl_do_load_bootup_dyn_modules: only a success clears the flag.
Loads(g) == \E loaded \in BOOLEAN :
  /\ At(g, "load")
  /\ spf_restart' = (spf_restart /\ ~loaded)
  /\ configured' = (configured \/ (loaded /\ Reachable(g)))
  /\ Unlocks(g)
  /\ call' = [call EXCEPT ![g].pc = "init", ![g].sent = 0]
  /\ UNCHANGED <<world, registry, overlapped, gpr_blocked, graphs, history>>

\* gsl_graph_init, under graph_hdl_lock.
InitsGraph(g) ==
  /\ At(g, "init") /\ HdlLockFree
  /\ graph_state' = [graph_state EXCEPT ![g] = "OPENED"]
  /\ signals_exist' = signals_exist \cup {g}
  /\ Goto(g, "attempt")
  /\ UNCHANGED <<world, registry, restart, locks, gpr_blocked, graph_list, ss_mask,
                 events, history>>

\* Mutant of Attempts: the mask of the graph is not set before the state is read.
AttemptsUnmasked(g) ==
  /\ At(g, "attempt") /\ open_close_lock = Free
  /\ open_close_lock' = g
  /\ call' = [call EXCEPT ![g].pc = "check", ![g].tries = @ - 1]
  /\ UNCHANGED <<world, registry, restart, start_stop_lock, graph_hdl_lock, gpr_blocked,
                 graphs, history>>

\* gsl_graph_open and gsl_graph_open_single_gkv, up to the mask of the graph.
Attempts(g) ==
  /\ At(g, "attempt") /\ open_close_lock = Free
  /\ open_close_lock' = g
  /\ ss_mask' = [ss_mask EXCEPT ![g] = Mask(g)]
  /\ call' = [call EXCEPT ![g].pc = "check", ![g].tries = @ - 1]
  /\ UNCHANGED <<world, registry, restart, start_stop_lock, graph_hdl_lock, gpr_blocked,
                 graph_list, graph_state, events, signals_exist, history>>

Checks(g) ==
  /\ At(g, "check")
  /\ Goto(g, IF Mask(g) \subseteq ss_state_flags THEN "send" ELSE "failed")
  /\ UNCHANGED <<world, registry, restart, locks, gpr_blocked, graphs, history>>

\* A command, or the error of a link that is down.
Command(g, grp, next) ==
  \/ Sends(g, grp, next)
  \/ ~alive[Master] /\ GotoWith(g, next, "FAIL")

SendsOpen(g) ==
  /\ At(g, "send")
  /\ Command(g, "GRP1", "opened")
  /\ UNCHANGED <<world, registry, restart, locks, gpr_blocked, graphs, history>>

Ok(g) == call[g].rc = "OK"

\* gsl_graph_set_sg_cal; there may be no calibration to set.
SetsCal(g) ==
  /\ At(g, "opened") /\ Ok(g)
  /\ Command(g, "GRP2", "cal") \/ Goto(g, "cal")
  /\ UNCHANGED <<world, registry, restart, locks, gpr_blocked, graphs, history>>

ReturnsOpen(g) ==
  /\ At(g, "cal") /\ Ok(g)
  /\ Unlocks(g)
  /\ call' = [call EXCEPT ![g] = NoCall("held")]
  /\ UNCHANGED <<world, registry, restart, gpr_blocked, graphs, history>>

\* Only AR_ESUBSYSRESET makes gsl_open try again.
Verdict(g) == IF call[g].rc = "SSR" THEN "reset" ELSE "failed"

\* After a failed calibration the subgraphs are closed again, unless the master is
\* down; the result of that is dropped.
ClosesAgain(g) ==
  /\ At(g, "cal") /\ ~Ok(g) /\ graph_state[g] # "ERROR"
  /\ Command(g, "GRP3", Verdict(g))
  /\ UNCHANGED <<world, registry, restart, locks, gpr_blocked, graphs, history>>

\* dereg_cmd of gsl_graph_open ...
FailsOpen(g) ==
  /\ \/ At(g, "opened") /\ ~Ok(g)
     \/ At(g, "cal") /\ ~Ok(g) /\ graph_state[g] = "ERROR"
     \/ call[g].pc \in {"reset", "failed"}
  /\ LET verdict == IF call[g].pc \in {"reset", "failed"} THEN call[g].pc ELSE Verdict(g)
     IN Updates(g, "IDLE", IF verdict = "reset" THEN "reset_unlock" ELSE "failed_unlock")
  /\ opened_on' = [opened_on EXCEPT ![g] = NeverOpened]
  /\ UNCHANGED <<world, registry, restart, locks, gpr_blocked, graphs, told, revived, bad_signal>>

\* ... and the end of a try.
EndsAttempt(g) ==
  /\ call[g].pc \in {"reset_unlock", "failed_unlock"}
  /\ Unlocks(g)
  /\ Goto(g, IF At(g, "reset_unlock") /\ call[g].tries > 0 THEN "attempt" ELSE "deinit")
  /\ UNCHANGED <<world, registry, restart, gpr_blocked, graphs, history>>

\* gsl_graph_deinit and release_graph_handle, each under graph_hdl_lock.
Deinits(g) ==
  /\ HdlLockFree
  /\ signals_exist' = signals_exist \ {g}
  /\ UNCHANGED graph_list

ReleasesHandle(g) ==
  /\ HdlLockFree
  /\ graph_list' = graph_list \ {g}
  /\ UNCHANGED signals_exist

\* gsl_mem_free: the next graph starts from a zeroed object.
Frees(g) ==
  /\ call' = [call EXCEPT ![g] = NoCall("closed")]
  /\ graph_state' = [graph_state EXCEPT ![g] = "IDLE"]
  /\ ss_mask' = [ss_mask EXCEPT ![g] = {}]
  /\ events' = [events EXCEPT ![g] = NoEvents]
  /\ told' = told \ {g} /\ revived' = revived \ {g}

Keeps(g, next) ==
  /\ call' = [call EXCEPT ![g] = NoCall(next)]
  /\ UNCHANGED <<graph_state, ss_mask, events, told, revived>>

\* A failed gsl_open destroys the graph and then its handle, gsl_close the other way
\* round.
DropsGraph(g) ==
  /\ \/ At(g, "deinit") /\ Deinits(g) /\ Keeps(g, "release")
     \/ At(g, "release") /\ ReleasesHandle(g) /\ Frees(g)
  /\ UNCHANGED <<world, registry, restart, locks, gpr_blocked, opened_on, bad_signal>>

-----------------------------------------------------------------------------
(* gsl_start and gsl_close of an open graph *)

\* gsl_ioctl refuses a graph in an error state.
Start(g) ==
  /\ At(g, "held") /\ ~InError(g)
  /\ Goto(g, "start")
  /\ UNCHANGED <<world, registry, restart, locks, gpr_blocked, graphs, history>>

StartSends(g) ==
  /\ At(g, "start") /\ start_stop_lock = Free
  /\ start_stop_lock' = g
  /\ Command(g, "GRP1", "started")
  /\ UNCHANGED <<world, registry, restart, open_close_lock, graph_hdl_lock, gpr_blocked,
                 graphs, history>>

Started(g) ==
  /\ At(g, "started") /\ Ok(g)
  /\ Updates(g, "STARTED", "start_unlock")
  /\ UNCHANGED <<world, registry, restart, locks, gpr_blocked, graphs, history>>

ReturnsStart(g) ==
  /\ At(g, "start_unlock") \/ (At(g, "started") /\ ~Ok(g))
  /\ start_stop_lock' = Free
  /\ call' = [call EXCEPT ![g] = NoCall("held")]
  /\ UNCHANGED <<world, registry, restart, open_close_lock, graph_hdl_lock, gpr_blocked,
                 graphs, history>>

\* gsl_graph_stop does nothing for a graph that is not started.
Stop(g) ==
  /\ At(g, "held") /\ start_stop_lock = Free
  /\ IF graph_state[g] = "STARTED"
     THEN start_stop_lock' = g /\ Updates(g, "STOPPED", "stop")
     ELSE Goto(g, "close") /\ UNCHANGED start_stop_lock
  /\ UNCHANGED <<world, registry, restart, open_close_lock, graph_hdl_lock, gpr_blocked,
                 graphs, history>>

StopSends(g) ==
  /\ At(g, "stop")
  /\ Command(g, "GRP1", "stopped")
  /\ UNCHANGED <<world, registry, restart, locks, gpr_blocked, graphs, history>>

EndsStop(g) ==
  /\ At(g, "stopped")
  /\ start_stop_lock' = Free
  /\ call' = [call EXCEPT ![g] = NoCall("close")]
  /\ UNCHANGED <<world, registry, restart, open_close_lock, graph_hdl_lock, gpr_blocked,
                 graphs, history>>

\* gsl_graph_close: a graph whose master is down needs no command.
CloseLocks(g) ==
  /\ At(g, "close") /\ open_close_lock = Free
  /\ open_close_lock' = g
  /\ Goto(g, "close_send")
  /\ UNCHANGED <<world, registry, restart, start_stop_lock, graph_hdl_lock, gpr_blocked,
                 graphs, history>>

CloseSends(g) ==
  /\ At(g, "close_send")
  /\ IF graph_state[g] = "ERROR" THEN Goto(g, "close_done")
     ELSE Command(g, "GRP3", "close_done")
  /\ UNCHANGED <<world, registry, restart, locks, gpr_blocked, graphs, history>>

EndsClose(g) ==
  /\ At(g, "close_done")
  /\ Unlocks(g)
  /\ call' = [call EXCEPT ![g] = NoCall("close_release")]
  /\ opened_on' = [opened_on EXCEPT ![g] = NeverOpened]
  /\ UNCHANGED <<world, registry, restart, gpr_blocked, graphs, told, revived, bad_signal>>

FreesGraph(g) ==
  /\ \/ At(g, "close_release") /\ ReleasesHandle(g) /\ Keeps(g, "close_deinit")
     \/ At(g, "close_deinit") /\ Deinits(g) /\ Frees(g)
  /\ UNCHANGED <<world, registry, restart, locks, gpr_blocked, opened_on, bad_signal>>

-----------------------------------------------------------------------------
Opens(g) ==
  \/ ReadsRestart(g) \/ SatellitesTimeOut(g) \/ Loads(g)
  \/ InitsGraph(g) \/ Attempts(g) \/ Checks(g) \/ SendsOpen(g) \/ SetsCal(g)
  \/ ReturnsOpen(g) \/ ClosesAgain(g) \/ FailsOpen(g) \/ EndsAttempt(g)
  \/ DropsGraph(g)

Starts(g) == StartSends(g) \/ Started(g) \/ ReturnsStart(g)

Closes(g) ==
  \/ StopSends(g) \/ EndsStop(g)
  \/ CloseLocks(g) \/ CloseSends(g) \/ EndsClose(g) \/ FreesGraph(g)

CallStep(g) == Opens(g) \/ Starts(g) \/ Closes(g) \/ Wakes(g) \/ WritesState(g)

ServregStep == StateChanges \/ DownLocks \/ (\E g \in Graph : DownScans(g)) \/ DownNotifies \/ UpNotifies

Next ==
  \/ \E p \in Proc : Crash(p) \/ Revive(p)
  \/ ServregStep
  \/ GprGoesOn
  \/ \E g \in Graph :
       \/ GetsHandle(g) \/ Start(g) \/ Stop(g)
       \/ CallStep(g)
       \/ SpfAnswers(g) \/ MainAnswer(g) \/ TimesOut(g)

Spec == Init /\ [][Next]_vars

\* Threads are scheduled.  Nothing is assumed of SPF: it need not answer nor come up
\* again; nor of the timeouts of the commands of graphs.
Fairness ==
  /\ WF_vars(ServregStep) /\ WF_vars(GprGoesOn)
  /\ \A g \in Graph : WF_vars(CallStep(g))
FairSpec == Spec /\ Fairness

-----------------------------------------------------------------------------
States == {"IDLE", "OPENED", "STARTED", "STOPPED"} \cup ErrorStates

\* Where a call can be: before gsl_graph_init, in the tries of gsl_open, on the way out
\* of a try that failed, and in or between the calls on an open graph.
Fresh == {"closed", "lock", "satellites", "load", "init"}
Opening == {"attempt", "check", "send", "opened", "cal", "reset", "failed"}
Giving == {"reset_unlock", "failed_unlock", "deinit", "release"}
Running == {"held", "start", "started", "start_unlock", "stop", "stopped", "close",
            "close_send", "close_done", "close_release", "close_deinit"}
Places == Fresh \cup Opening \cup Giving \cup Running

Calls ==
  [pc : Places \cup {"waiting", "writing"}, then : Places \cup {"none"},
   rc : {"OK", "SSR", "FAIL"}, tries : 0..Tries, sent : Nat, clean : BOOLEAN, grp : Grp,
   new : States \cup {"none"}]

\* Every variable has its type, and a lock held for long has a holder that is inside.
TypeOK ==
  /\ group \subseteq Proc /\ alive \in [Proc -> BOOLEAN] /\ incarnation \in [Proc -> Nat \ {0}]
  /\ crashes \in 0..MaxCrash
  /\ notices \in Seq([proc : Proc, state : {"DN", "UP"}])
  /\ servreg \in [pc : {"idle", "dn", "scan", "up"}, proc : Proc,
                  todo : SUBSET Graph, handles : SUBSET Graph]
  /\ ss_state_flags \subseteq group
  /\ {spf_restart, configured, overlapped, gpr_blocked, bad_signal} \subseteq BOOLEAN
  /\ {open_close_lock, start_stop_lock} \subseteq Graph \cup {Free}
  /\ graph_hdl_lock = (IF servreg.pc = "scan" THEN Servreg ELSE Free)
  /\ {graph_list, signals_exist, told, revived} \subseteq SUBSET Graph
  /\ graph_state \in [Graph -> States] /\ ss_mask \in [Graph -> SUBSET Proc]
  /\ events \in [Graph -> [Grp -> SUBSET {"OK", "FAIL", "SSR"}]]
  /\ call \in [Graph -> Calls] /\ DOMAIN opened_on = Graph

Queued(p, state) == \E i \in DOMAIN notices : notices[i] = [proc |-> p, state |-> state]

\* The callback has yet to come to g with the news that p is down.
DownPending(g, p) ==
  \/ Queued(p, "DN")
  \/ servreg.proc = p /\ (servreg.pc = "dn" \/ (servreg.pc = "scan" /\ g \in servreg.todo))

\* p has lost what it opened for g.
Lost(g, p) == ~alive[p] \/ opened_on[g][p] # incarnation[p]

\* A graph that a processor has lost is shut: no order of the notification and of the
\* steps of gsl_open lets it slip through, because the mask of the graph is set before
\* the state of the subsystems is read (gsl_graph.c:3325, 3136).  The exception is a
\* graph whose error state was overwritten.
LostGraphsAreShut ==
  \A g \in graph_list : \A p \in DOMAIN opened_on[g] :
    Lost(g, p) => InError(g) \/ DownPending(g, p) \/ g \in revived

Held(g) == call[g].pc = "held"
Quiet == servreg.pc \in {"idle", "up"} /\ \A p \in Proc : ~Queued(p, "DN")

\* When the callback is done the client has been told of exactly those of its graphs
\* that are shut (handle_list of gsl_main_ssr_callback).
ToldOfWhatIsShut ==
  Quiet => \A g \in Graph : Held(g) => (g \in told <=> InError(g) \/ g \in revived)

\* A restart that has not been configured is not forgotten, whatever of its steps fail
\* (gsl_main.c:1247-1289), unless the master came up while a gsl_open was configuring
\* an earlier incarnation.
RestartIsRemembered ==
  alive[Master] /\ ~configured /\ ~Queued(Master, "UP") /\ ~(servreg.pc = "up" /\ servreg.proc = Master)
    => spf_restart \/ overlapped

\* The callback never sets a signal that has been destroyed, although a failed gsl_open
\* destroys those of a graph that is still in the list (gsl_main.c:1340-1347).
SignalsOutliveTheWalk == ~bad_signal

\* A call that waits for the answer of a master that is gone does not wait for its
\* timeout (gsl_graph_signal_event_all), if its graph was in good order when it sent
\* the command.
WaitersAreTold ==
  \A g \in Graph :
    (Waiting(g) /\ call[g].clean /\ ~Reachable(g)) ~> (~Waiting(g) \/ g \in revived)

\* "error is a sink state, once we go into this state we stay in it to block any
\* further operations on the graph" (gsl_graph.c:1451).  The code does not keep this: README,
\* section 4.
ErrorIsASink ==
  [][\A g \in graph_list : InError(g) => graph_state'[g] = graph_state[g]]_vars
=============================================================================
