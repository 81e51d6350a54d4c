------------------------- MODULE GslMainGate_proofs -------------------------
(***************************************************************************)
(* Proofs about the gate, whatever number of graphs, requests and faults:  *)
(* that it excludes RTGM and the calls of one client thread from each      *)
(* other; the types, for any number of clients; and that each graph RTGM   *)
(* has stopped is started again, unless a request fails.                   *)
(*                                                                         *)
(* The first invariant adds what one flag for all clients can promise only *)
(* if there is one: a call that works on a graph has the flag set.  The    *)
(* last one relates the restart list to what QACT still has to change.     *)
(***************************************************************************)
EXTENDS GslMainGate, FiniteSetTheorems, TLAPS

\* One thread calls GSL.
OneClient == \A c, d \in Client : c = d

ClientType ==
  client \in [Client -> [pc : ClientPc, graph : Graph \cup {NoGraph},
                         op : {"none", "open"} \cup Ioctl \cup Dropped \cup Blocking]]

FlagCoversCall == \A c \in Client : Inside(c) => client_op_in_prog

GateInv ==
  /\ num_rtgm_in_prog \in Int /\ ClientType
  /\ FlagCoversCall /\ RtgmExcludesClient

LEMMA GateInit == Init => GateInv
BY DEF Init, GateInv, ClientType, FlagCoversCall, RtgmExcludesClient, Inside,
       IdleClient, ClientPc

\* A step that leaves the counter, the flag and the client's call alone.
LEMMA GateUnchanged ==
  ASSUME GateInv, UNCHANGED <<num_rtgm_in_prog, client_op_in_prog, client>>
  PROVE  GateInv'
BY DEF GateInv, ClientType, FlagCoversCall, RtgmExcludesClient, Inside

\* A step that moves a call to where it works on no graph, or leaves it there.
LEMMA CallOutside ==
  ASSUME GateInv, NEW c \in Client,
         client' = [client EXCEPT ![c] = client'[c]],
         client'[c] \in [pc : ClientPc, graph : Graph \cup {NoGraph},
                         op : {"none", "open"} \cup Ioctl \cup Dropped \cup Blocking],
         Inside(c)' => Inside(c),
         UNCHANGED <<num_rtgm_in_prog, client_op_in_prog>>
  PROVE  GateInv'
<1>1. ClientType'
  BY DEF GateInv, ClientType
<1>2. \A d \in Client : Inside(d)' => Inside(d)
  BY DEF GateInv, ClientType, Inside
<1> QED
  BY <1>1, <1>2 DEF GateInv, FlagCoversCall, RtgmExcludesClient

\* The client's steps.
LEMMA ClientKeepsGate ==
  ASSUME OneClient, GateInv, NEW c \in Client,
         Call(c) \/ Open(c) \/ ClientTimesOut(c) \/ ClientStep(c)
  PROVE  GateInv'
<1> USE DEF ClientGoto, ClientReturns, IdleClient, Inside, ClientPc, ClientAt, gate
<1>1. ClientType BY DEF GateInv
<1>2. CASE Call(c)
  <2> PICK g \in Graph, op \in Ioctl \cup Dropped \cup Blocking : Call(c)!(g, op)
    BY <1>2 DEF Call
  <2> QED BY <1>1, CallOutside DEF ClientType
<1>3. CASE Open(c)
  <2> PICK g \in Graph : Open(c)!(g)
    BY <1>3 DEF Open
  <2> QED BY <1>1, CallOutside DEF ClientType
<1>4. CASE Admit(c)
  \* Nothing is counted in, and the flag is set.
  <2>1. ClientType' BY <1>1, <1>4 DEF Admit, ClientType
  <2>2. FlagCoversCall' BY <1>4 DEF Admit, FlagCoversCall
  <2>3. RtgmExcludesClient' BY <1>4 DEF Admit, RtgmExcludesClient
  <2> QED BY <1>4, <2>1, <2>2, <2>3 DEF Admit, GateInv
<1>5. CASE Refuse(c)
  BY <1>1, <1>5, CallOutside DEF Refuse, ClientType
<1>6. CASE ClientWakes(c) \/ ClientClears(c) \/ ClientTimesOut(c)
  BY <1>1, <1>6, CallOutside DEF ClientWakes, ClientClears, ClientTimesOut, ClientType
<1>7. CASE Work(c) \/ CloseInvalid(c) \/ CloseStop(c)
  BY <1>1, <1>7, CallOutside DEF Work, CloseInvalid, CloseStop, ClientType
<1>8. CASE TakeOpenClose(c)
  BY <1>1, <1>8, CallOutside DEF TakeOpenClose, ClientType
<1>9. CASE CloseDone(c) \/ Release(c) \/ OpenDone(c)
  BY <1>1, <1>9, CallOutside DEF CloseDone, Release, OpenDone, ClientType
<1>10. CASE EndClientOp(c)
  \* The flag is cleared: no other call can be inside.
  <2>1. ClientType' BY <1>1, <1>10 DEF EndClientOp, ClientType
  <2>2. ~Inside(c)' BY <1>1, <1>10 DEF EndClientOp, ClientType
  <2>3. \A d \in Client : ~Inside(d)' BY <2>2 DEF OneClient
  <2> QED BY <1>10, <2>1, <2>3 DEF EndClientOp, GateInv, FlagCoversCall, RtgmExcludesClient
<1> QED
  BY <1>2, <1>3, <1>4, <1>5, <1>6, <1>7, <1>8, <1>9, <1>10 DEF ClientStep

\* The steps of QACT's thread.
LEMMA RtcKeepsGate ==
  ASSUME GateInv, Prepare \/ Change \/ Request \/ RtcTimesOut \/ RtcStep
  PROVE  GateInv'
<1> USE DEF gate
<1>1. CASE Prepare \/ Change \/ Request \/ RtcTimesOut
  BY <1>1, GateUnchanged DEF Prepare, Change, Request, RtcTimesOut
<1>2. CASE PrepareGate
  \* It is counted in only while the flag is clear, so no call is inside.
  <2>1. ClientType' BY <1>2 DEF PrepareGate, GateInv, ClientType
  <2>2. FlagCoversCall' BY <1>2 DEF PrepareGate, GateInv, FlagCoversCall, Inside
  <2>3. RtgmExcludesClient'
    BY <1>2 DEF PrepareGate, GateInv, FlagCoversCall, RtgmExcludesClient, Inside
  <2>4. num_rtgm_in_prog' \in {num_rtgm_in_prog, num_rtgm_in_prog + 1}
    BY <1>2, Zenon DEF PrepareGate
  <2>5. num_rtgm_in_prog' \in Int BY <2>4 DEF GateInv
  <2> QED BY <2>1, <2>2, <2>3, <2>5 DEF GateInv
<1>3. CASE RtcWakes \/ RtcClears \/ RtcTakesOpenClose
  BY <1>3, GateUnchanged DEF RtcWakes, RtcClears, RtcTakesOpenClose
<1>4. CASE PrepareStop \/ PrepareGraph \/ ChangeGraph \/ Restart
  <2>1. CASE PrepareStop BY <2>1, GateUnchanged DEF PrepareStop
  <2>2. CASE PrepareGraph BY <2>2, GateUnchanged DEF PrepareGraph
  <2>3. CASE ChangeGraph BY <2>3, GateUnchanged DEF ChangeGraph
  <2>4. CASE Restart BY <2>4, GateUnchanged DEF Restart
  <2> QED BY <1>4, <2>1, <2>2, <2>3, <2>4
<1>5. CASE Leave
  BY <1>5 DEF Leave, GateInv, ClientType, FlagCoversCall, RtgmExcludesClient, Inside
<1>6. CASE UcInfo \/ RequestLookUp \/ RequestDone
  BY <1>6, GateUnchanged DEF UcInfo, RequestLookUp, RequestDone
<1> QED
  BY <1>1, <1>2, <1>3, <1>4, <1>5, <1>6 DEF RtcStep

\* With one client thread no call works on a graph while RTGM is in progress
\* (gsl_main_start_client_op and GSL_RTC_PREPARE_CHANGE_GRAPH), whatever fails and
\* however many graphs and requests there are.
THEOREM GateExcludes ==
  ASSUME OneClient
  PROVE  Spec => []RtgmExcludesClient
<1>1. Init => GateInv
  BY GateInit
<1>2. GateInv /\ [Next]_vars => GateInv'
  <2> SUFFICES ASSUME GateInv, [Next]_vars PROVE GateInv'
    OBVIOUS
  <2>1. CASE UNCHANGED vars
    BY <2>1, GateUnchanged DEF vars, gate
  <2>2. CASE Next
    BY <2>2, ClientKeepsGate, RtcKeepsGate DEF Next
  <2> QED BY <2>1, <2>2
<1>3. GateInv => RtgmExcludesClient
  BY DEF GateInv
<1> QED
  BY <1>1, <1>2, <1>3, PTL DEF Spec

-----------------------------------------------------------------------------
(* Types, and what each request of RTGM is counted for. *)

Counting == {"prepare lock", "prepare", "prepare graph"}
Preparing == {"prepare gate", "blocked", "clear"} \cup Counting
Changing == {"change lock", "change", "restart", "leave"}

\* QACT prepares before it changes, and changes what it has prepared first.
RequestOK ==
  /\ rtc.pc \in Preparing => ~changing /\ rtc.graph \in Graph
  /\ rtc.pc \in Changing => changing /\ prepared # <<>> /\ rtc.graph = Head(prepared)

\* Each PREPARE that was counted in and whose CHANGE is to come is counted; a request
\* that failed stays counted in.
CountOK ==
  /\ num_rtgm_in_prog >= Len(prepared)
  /\ rtc.pc \in Counting => num_rtgm_in_prog >= Len(prepared) + 1
  /\ rtc.pc \in {"prepare gate", "blocked", "clear"} => num_rtgm_in_prog < MaxInProg

\* Nothing else is.
CountExact ==
  /\ rtc.pc \in Counting => num_rtgm_in_prog = Len(prepared) + 1
  /\ rtc.pc \notin Counting => num_rtgm_in_prog = Len(prepared)

TypeInv == TypeOK /\ RequestOK /\ CountOK

-----------------------------------------------------------------------------
(* What RTGM has stopped and has to start again. *)

\* The graphs QACT has prepared, with the one it is about to have prepared.
Asked == IF rtc.pc = "prepare graph" THEN Append(prepared, rtc.graph) ELSE prepared

Stopped == restart_list_position + 1 .. Len(restart_handle_list)

\* Each entry of the list in S is asked for, and before those that follow it there.
InOrder(list, S, asked) ==
  /\ \A i \in S : \E k \in DOMAIN asked : asked[k] = list[i]
  /\ \A i, j \in S : i < j =>
       \E k \in DOMAIN asked : asked[k] = list[i] /\ \A l \in 1 .. k : asked[l] # list[j]

StoppedInOrder == InOrder(restart_handle_list, Stopped, Asked)

\* The client's graphs are as it left them but for those.
StoppedOnly ==
  /\ \A g \in Graph : graph_state[g] # wanted[g] =>
       \E i \in Stopped : restart_handle_list[i] = g
  /\ \A i \in Stopped : LET g == restart_handle_list[i] IN
       graph_state[g] = "OPENED" /\ wanted[g] = "STARTED"

\* PREPARE leaves no graph running; CHANGE has started the graph it is done with; gsl_open
\* works on a handle that is not open yet.
AskedAreStopped ==
  ~changing => \A k \in DOMAIN Asked : graph_state[Asked[k]] # "STARTED"
ChangedIsRestarted ==
  rtc.pc = "leave" => \A i \in Stopped : restart_handle_list[i] # rtc.graph
OpeningIsClosed ==
  \A c \in Client : client[c].pc \in {"opening", "opened"} =>
    client[c].graph \in Graph /\ graph_state[client[c].graph] = "CLOSED"

RestartInv ==
  /\ CountExact /\ StoppedInOrder /\ StoppedOnly
  /\ AskedAreStopped /\ ChangedIsRestarted /\ OpeningIsClosed


LEMMA TypeInit == Init => TypeInv
<1> SUFFICES ASSUME Init PROVE TypeInv
  OBVIOUS
<1>1. [g \in Graph |-> "CLOSED"] \in [Graph -> State]  BY DEF State
<1>2. \A c \in Client : client[c] = IdleClient  BY DEF Init
<1>3. client \in [Client -> [pc : ClientPc, graph : Graph \cup {NoGraph},
                 op : {"none", "open"} \cup Ioctl \cup Dropped \cup Blocking]]
  BY DEF Init, IdleClient, ClientPc
<1>4. TypeOK
  <2>1. <<>> \in Seq(Graph) /\ Len(<<>>) = 0  OBVIOUS
  <2>2. rtc \in [pc : RtcPc, graph : Graph \cup {NoGraph}]  BY DEF Init, IdleRtc, RtcPc
  <2>3. 0 \in 0 .. MaxInProg  BY BoundsType
  <2>4. {graph_state, wanted} \subseteq [Graph -> State]  BY <1>1 DEF Init
  <2>5. {client_op_in_prog, signalled, changing, rtgm_failed} \subseteq BOOLEAN  BY DEF Init
  <2> QED BY <1>3, <2>1, <2>2, <2>3, <2>4, <2>5 DEF Init, TypeOK
<1>5. RequestOK /\ CountOK
  BY BoundsType DEF Init, IdleRtc, RequestOK, CountOK, Preparing, Changing, Counting
<1> QED BY <1>4, <1>5 DEF TypeInv

\* The client's steps: they leave QACT's requests and the counter alone.
LEMMA ClientTyped ==
  ASSUME ClientType, NEW c \in Client,
         Call(c) \/ Open(c) \/ ClientTimesOut(c) \/ ClientStep(c)
  PROVE  ClientType'
<1> USE DEF ClientGoto, ClientReturns, IdleClient, ClientPc, ClientAt
<1>1. CASE Call(c)
  <2> PICK g \in Graph, op \in Ioctl \cup Dropped \cup Blocking : Call(c)!(g, op)
    BY <1>1 DEF Call
  <2> QED BY DEF ClientType
<1>2. CASE Open(c)
  <2> PICK g \in Graph : Open(c)!(g)
    BY <1>2 DEF Open
  <2> QED BY DEF ClientType
<1>3. CASE Admit(c)  BY <1>3 DEF Admit, ClientType
<1>4. CASE Refuse(c)  BY <1>4 DEF Refuse, ClientType
<1>5. CASE ClientWakes(c) \/ ClientClears(c) \/ ClientTimesOut(c)
  BY <1>5 DEF ClientWakes, ClientClears, ClientTimesOut, ClientType
<1>6. CASE Work(c) \/ CloseInvalid(c) \/ CloseStop(c)
  BY <1>6 DEF Work, CloseInvalid, CloseStop, ClientType
<1>7. CASE TakeOpenClose(c) \/ CloseDone(c)
  BY <1>7 DEF TakeOpenClose, CloseDone, ClientType
<1>8. CASE Release(c) \/ OpenDone(c) \/ EndClientOp(c)
  BY <1>8 DEF Release, OpenDone, EndClientOp, ClientType
<1> QED BY <1>1, <1>2, <1>3, <1>4, <1>5, <1>6, <1>7, <1>8 DEF ClientStep

\* What a step of the client does besides.
LEMMA ClientEffects ==
  ASSUME NEW c \in Client,
         Call(c) \/ Open(c) \/ ClientTimesOut(c) \/ ClientStep(c)
  PROVE  /\ UNCHANGED <<num_rtgm_in_prog, graph_hdl_lock, restart, qact, rtc>>
         /\ client_op_in_prog' \in {client_op_in_prog, TRUE, FALSE}
         /\ signalled' \in {signalled, TRUE, FALSE}
         /\ open_close_lock' \in {open_close_lock, c, Free}
         /\ \/ UNCHANGED graphs
            \/ Inside(c) /\ \E s \in State : SetState(client[c].graph, s)
            \/ OpenDone(c)
<1> USE DEF ClientAt, gate, locks, State, Inside
<1>1. CASE Call(c)  BY <1>1 DEF Call
<1>2. CASE Open(c)  BY <1>2 DEF Open
<1>3. CASE Admit(c) \/ Refuse(c) \/ EndClientOp(c)
  BY <1>3 DEF Admit, Refuse, EndClientOp
<1>5. CASE ClientWakes(c) \/ ClientClears(c) \/ ClientTimesOut(c)
  BY <1>5 DEF ClientWakes, ClientClears, ClientTimesOut
<1>6. CASE Work(c)  BY <1>6 DEF Work
<1>7. CASE CloseInvalid(c) \/ CloseStop(c) \/ Release(c)
  BY <1>7 DEF CloseInvalid, CloseStop, Release
<1>8. CASE TakeOpenClose(c) \/ CloseDone(c)
  BY <1>8 DEF TakeOpenClose, CloseDone
<1>9. CASE OpenDone(c)  BY <1>9 DEF OpenDone
<1> QED BY <1>1, <1>2, <1>3, <1>5, <1>6, <1>7, <1>8, <1>9 DEF ClientStep

LEMMA ClientKeepsTypes ==
  ASSUME TypeInv, NEW c \in Client,
         Call(c) \/ Open(c) \/ ClientTimesOut(c) \/ ClientStep(c)
  PROVE  TypeInv'
<1>1. ClientType'  BY ClientTyped DEF TypeInv, TypeOK, ClientType
<1>2. /\ UNCHANGED <<num_rtgm_in_prog, graph_hdl_lock, restart, qact, rtc>>
      /\ client_op_in_prog' \in {client_op_in_prog, TRUE, FALSE}
      /\ signalled' \in {signalled, TRUE, FALSE}
      /\ open_close_lock' \in {open_close_lock, c, Free}
      /\ \/ UNCHANGED graphs
         \/ Inside(c) /\ \E s \in State : SetState(client[c].graph, s)
         \/ OpenDone(c)
  BY ClientEffects
<1>3. \/ UNCHANGED graphs
      \/ \E s \in State : SetState(client[c].graph, s)
  BY <1>2 DEF OpenDone, State
<1>4. graph_state' \in [Graph -> State] /\ wanted' \in [Graph -> State]
  BY <1>3 DEF TypeInv, TypeOK, SetState, graphs
<1>5. TypeOK'
  BY <1>1, <1>2, <1>4 DEF TypeInv, TypeOK, ClientType, restart, qact
<1>6. RequestOK' /\ CountOK'
  BY <1>2 DEF TypeInv, RequestOK, CountOK, qact
<1> QED BY <1>5, <1>6 DEF TypeInv

\* QACT's steps leave the client's call and its wishes alone.
RtcType == [pc : RtcPc, graph : Graph \cup {NoGraph}]

LEMMA RtcTyped ==
  ASSUME TypeOK, UNCHANGED <<client, wanted, client_op_in_prog>>,
         num_rtgm_in_prog' \in 0 .. MaxInProg,
         signalled' \in BOOLEAN, changing' \in BOOLEAN, rtgm_failed' \in BOOLEAN,
         graph_hdl_lock' \in {Rtc, Free}, open_close_lock' \in {open_close_lock, Rtc, Free},
         graph_state' \in [Graph -> State],
         restart_handle_list' \in Seq(Graph), prepared' \in Seq(Graph),
         restart_list_position' \in 0 .. Len(restart_handle_list'),
         restart_list_room' \in Nat, rtc' \in RtcType
  PROVE  TypeOK'
<1>1. open_close_lock' \in Client \cup {Rtc, Free}  BY DEF TypeOK
<1>2. {graph_state', wanted'} \subseteq [Graph -> State]  BY DEF TypeOK
<1>3. {client_op_in_prog', signalled', changing', rtgm_failed'} \subseteq BOOLEAN
  BY DEF TypeOK
<1> QED BY <1>1, <1>2, <1>3 DEF TypeOK, RtcType

\* What the types are, each by itself.
LEMMA Typed ==
  ASSUME TypeOK
  PROVE  /\ num_rtgm_in_prog \in 0 .. MaxInProg /\ MaxInProg \in Nat
         /\ client_op_in_prog \in BOOLEAN /\ signalled \in BOOLEAN
         /\ changing \in BOOLEAN /\ rtgm_failed \in BOOLEAN
         /\ graph_hdl_lock \in {Rtc, Free}
         /\ graph_state \in [Graph -> State] /\ wanted \in [Graph -> State]
         /\ restart_handle_list \in Seq(Graph) /\ prepared \in Seq(Graph)
         /\ restart_list_position \in 0 .. Len(restart_handle_list)
         /\ restart_list_room \in Nat /\ rtc \in RtcType
         /\ Len(prepared) \in Nat /\ Len(restart_handle_list) \in Nat
         /\ prepared # <<>> => /\ Len(prepared) >= 1 /\ Tail(prepared) \in Seq(Graph)
                               /\ Len(Tail(prepared)) = Len(prepared) - 1
                               /\ Head(prepared) \in Graph
<1>1. prepared \in Seq(Graph) /\ MaxInProg \in Nat  BY BoundsType DEF TypeOK
<1>2. {client_op_in_prog, signalled, changing, rtgm_failed} \subseteq BOOLEAN
  BY DEF TypeOK
<1>3. {graph_state, wanted} \subseteq [Graph -> State]  BY DEF TypeOK
<1>4. Len(prepared) \in Nat /\ Len(restart_handle_list) \in Nat  BY DEF TypeOK
<1>5. prepared # <<>> => /\ Len(prepared) >= 1 /\ Tail(prepared) \in Seq(Graph)
                         /\ Len(Tail(prepared)) = Len(prepared) - 1
                         /\ Head(prepared) \in Graph
  BY <1>1
<1> QED BY <1>1, <1>2, <1>3, <1>4, <1>5 DEF TypeOK, RtcType

LEMMA Counts ==
  ASSUME TypeOK
  PROVE  /\ num_rtgm_in_prog \in Int /\ num_rtgm_in_prog \in 0 .. MaxInProg
         /\ MaxInProg \in Nat /\ Len(prepared) \in Nat
<1>1. num_rtgm_in_prog \in 0 .. MaxInProg /\ MaxInProg \in Nat /\ Len(prepared) \in Nat
  BY BoundsType DEF TypeOK
<1>2. num_rtgm_in_prog \in Int  BY <1>1
<1> QED BY <1>1, <1>2

\* The lists are left alone, or one entry is taken away.
LEMMA RtcFrame ==
  ASSUME TypeInv, UNCHANGED <<client, wanted, client_op_in_prog, graph_state>>,
         UNCHANGED <<restart_handle_list, restart_list_position, restart_list_room>>,
         num_rtgm_in_prog' \in 0 .. MaxInProg,
         signalled' \in BOOLEAN, changing' \in BOOLEAN, rtgm_failed' \in BOOLEAN,
         graph_hdl_lock' \in {Rtc, Free}, open_close_lock' \in {open_close_lock, Rtc, Free},
         prepared' \in Seq(Graph), rtc' \in RtcType
  PROVE  TypeOK'
<1>1. TypeOK  BY DEF TypeInv
<1> QED BY <1>1, Typed, RtcTyped

LEMMA Goto ==
  ASSUME TypeInv, NEW label \in RtcPc, RtcGoto(label)
  PROVE  rtc' \in RtcType /\ rtc'.pc = label /\ rtc'.graph = rtc.graph
BY DEF TypeInv, TypeOK, RtcGoto, RtcType

LEMMA Idles ==
  ASSUME rtc' = IdleRtc
  PROVE  rtc' \in RtcType /\ rtc'.pc = "idle" /\ rtc'.graph = NoGraph
BY DEF IdleRtc, RtcType, RtcPc

LEMMA RoomType == NumGraphs \in Nat
<1> DEFINE S == {g \in Graph : graph_state[g] # "CLOSED" \/
                  \E c \in Client : client[c].op = "open" /\ client[c].graph = g}
<1>1. IsFiniteSet(S)  BY GraphsType, FS_Subset
<1> HIDE DEF S
<1>2. Cardinality(S) \in Nat  BY <1>1, FS_CardinalityType
<1> QED BY <1>2 DEF S, NumGraphs

\* Numbers that only get smaller stay counted.
LEMMA Shorter ==
  ASSUME TypeOK, CountOK, num_rtgm_in_prog' = num_rtgm_in_prog,
         rtc'.pc = "idle", Len(prepared') \in {Len(prepared), Len(prepared) - 1}
  PROVE  CountOK'
<1>1. num_rtgm_in_prog \in Int /\ Len(prepared) \in Nat  BY Counts
<1>2. num_rtgm_in_prog >= Len(prepared)  BY <1>1 DEF CountOK
<1>3. num_rtgm_in_prog' >= Len(prepared')  BY <1>1, <1>2
<1> QED BY <1>3 DEF CountOK, Counting

\* A request fails: it stays counted in, and what is left to change gets no longer.
LEMMA FailTyped ==
  ASSUME TypeInv, RtgmFails,
         UNCHANGED <<num_rtgm_in_prog, client_op_in_prog, signalled, graph_hdl_lock>>,
         UNCHANGED <<wanted, client>>,
         rtc.pc \in {"prepare", "prepare graph", "change"},
         restart_list_room' \in Nat, UNCHANGED <<graph_state, restart_handle_list,
                                                 restart_list_position>>
  PROVE  TypeInv' /\ rtgm_failed'
<1>1. TypeOK /\ RequestOK /\ CountOK  BY DEF TypeInv
<1>2. changing => prepared # <<>> /\ rtc.pc = "change"
  BY <1>1 DEF RequestOK, Preparing, Changing, Counting
<1>3. /\ prepared' \in Seq(Graph) /\ changing' \in BOOLEAN
      /\ rtgm_failed' /\ rtgm_failed' \in BOOLEAN /\ open_close_lock' = Free
      /\ Len(prepared') = IF changing THEN Len(prepared) - 1 ELSE Len(prepared)
  BY <1>1, <1>2, Typed DEF RtgmFails
<1>4. rtc' \in RtcType /\ rtc'.pc = "idle"  BY Idles DEF RtgmFails
<1>5. TypeOK'
  BY <1>1, <1>3, <1>4, Typed, RtcTyped DEF gate
<1>6. RequestOK'  BY <1>4 DEF RequestOK, Preparing, Changing, Counting
<1>7. CountOK'
  <2>1. Len(prepared') \in {Len(prepared), Len(prepared) - 1}  BY <1>3
  <2> QED BY <1>1, <1>4, <2>1, Shorter
<1> QED BY <1>3, <1>5, <1>6, <1>7 DEF TypeInv

LEMMA OneMore ==
  ASSUME NEW n \in Int, NEW max \in Nat, NEW k \in Nat, n \in 0 .. max, n < max, n >= k
  PROVE  n + 1 \in 0 .. max /\ n + 1 >= k + 1 /\ n + 1 >= k
OBVIOUS

\* PREPARE passes the gate.
LEMMA GateCounts ==
  ASSUME TypeOK, CountOK, rtc.pc = "prepare gate", prepared' = prepared
  PROVE  /\ rtc'.pc = "blocked" /\ num_rtgm_in_prog' = num_rtgm_in_prog
           => num_rtgm_in_prog' \in 0 .. MaxInProg /\ CountOK'
         /\ rtc'.pc = "prepare lock" /\ num_rtgm_in_prog' = num_rtgm_in_prog + 1
           => num_rtgm_in_prog' \in 0 .. MaxInProg /\ CountOK'
<1>1. num_rtgm_in_prog >= Len(prepared) /\ num_rtgm_in_prog < MaxInProg  BY DEF CountOK
<1>2. /\ num_rtgm_in_prog \in Int /\ num_rtgm_in_prog \in 0 .. MaxInProg
      /\ MaxInProg \in Nat /\ Len(prepared) \in Nat
  BY Counts
<1>3. /\ num_rtgm_in_prog + 1 \in 0 .. MaxInProg
      /\ num_rtgm_in_prog + 1 >= Len(prepared) + 1 /\ num_rtgm_in_prog + 1 >= Len(prepared)
  BY <1>1, <1>2, OneMore, Zenon
<1> QED BY <1>1, <1>2, <1>3 DEF CountOK, Counting

LEMMA RtcKeepsTypes ==
  ASSUME TypeInv, Prepare \/ Change \/ Request \/ RtcTimesOut \/ RtcStep
  PROVE  TypeInv'
<1>0. TypeOK /\ RequestOK /\ CountOK  BY DEF TypeInv
<1>t. /\ num_rtgm_in_prog \in 0 .. MaxInProg /\ MaxInProg \in Nat
      /\ client_op_in_prog \in BOOLEAN /\ signalled \in BOOLEAN
      /\ changing \in BOOLEAN /\ rtgm_failed \in BOOLEAN
      /\ graph_hdl_lock \in {Rtc, Free} /\ Len(prepared) \in Nat
      /\ prepared \in Seq(Graph) /\ rtc \in RtcType
  BY <1>0, Typed
<1> USE DEF RtcAt
<1> DEFINE Same == /\ UNCHANGED <<client, wanted, client_op_in_prog, graph_state>>
                   /\ UNCHANGED <<restart_handle_list, restart_list_position, restart_list_room>>
                   /\ changing' \in BOOLEAN /\ rtgm_failed' \in BOOLEAN
                   /\ graph_hdl_lock' \in {Rtc, Free}
                   /\ open_close_lock' \in {open_close_lock, Rtc, Free}
                   /\ signalled' \in BOOLEAN /\ prepared' \in Seq(Graph)
<1>1. CASE Prepare
  <2>1. PICK g \in Graph : rtc' = [pc |-> "prepare gate", graph |-> g]  BY <1>1 DEF Prepare
  <2>2. rtc' \in RtcType /\ rtc'.pc = "prepare gate" /\ rtc'.graph = g
    BY <2>1 DEF RtcType, RtcPc
  <2>3. Same /\ num_rtgm_in_prog' = num_rtgm_in_prog /\ num_rtgm_in_prog < MaxInProg
        /\ ~ changing /\ UNCHANGED <<prepared, changing>> /\ rtc.pc = "idle"
    BY <1>1, <1>t DEF Prepare, gate, locks, graphs, qact, restart
  <2>4. TypeOK'  BY <1>t, <2>2, <2>3, RtcFrame
  <2>5. RequestOK'  BY <2>2, <2>3 DEF RequestOK, Preparing, Changing, Counting
  <2>6. CountOK'  BY <1>0, <1>t, <2>2, <2>3 DEF CountOK, Counting
  <2> QED BY <2>4, <2>5, <2>6 DEF TypeInv
<1>2. CASE Change
  <2>1. rtc' = [pc |-> "change lock", graph |-> Head(prepared)] /\ prepared # <<>>
    BY <1>2 DEF Change
  <2>2. rtc' \in RtcType /\ rtc'.pc = "change lock" /\ rtc'.graph = Head(prepared)
    BY <1>0, <2>1, Typed DEF RtcType, RtcPc
  <2>3. Same /\ num_rtgm_in_prog' = num_rtgm_in_prog
        /\ changing' /\ UNCHANGED prepared /\ rtc.pc = "idle"
    BY <1>2, <1>t DEF Change, gate, locks, graphs, restart
  <2>4. TypeOK'  BY <1>t, <2>2, <2>3, RtcFrame
  <2>5. RequestOK'  BY <2>1, <2>2, <2>3 DEF RequestOK, Preparing, Changing, Counting
  <2>6. CountOK'  BY <1>0, <1>t, <2>2, <2>3 DEF CountOK, Counting
  <2> QED BY <2>4, <2>5, <2>6 DEF TypeInv
<1>3. CASE Request \/ UcInfo \/ RequestLookUp \/ RequestDone \/ RtcTimesOut
  <2>1. /\ Same /\ num_rtgm_in_prog' = num_rtgm_in_prog /\ UNCHANGED <<prepared, changing>>
        /\ rtc.pc \notin Counting
    BY <1>3, <1>t DEF Request, UcInfo, RequestLookUp, RequestDone, RtcTimesOut, Counting, gate,
                      locks, graphs, qact, restart
  <2>2. rtc' \in RtcType /\ rtc'.pc \in {"idle", "uc info", "request lock", "using"}
    <3>1. CASE Request
      <4>1. PICK label \in {"uc info", "request lock"}, g \in Graph \cup {NoGraph} :
              rtc' = [pc |-> label, graph |-> g]
        BY <3>1 DEF Request
      <4> QED BY <4>1 DEF RtcType, RtcPc
    <3>2. CASE UcInfo \/ RequestDone \/ RtcTimesOut
      BY <3>2, Idles DEF UcInfo, RequestDone, RtcTimesOut
    <3>3. CASE RequestLookUp
      <4>1. RtcGoto("using") \/ rtc' = IdleRtc  BY <3>3 DEF RequestLookUp
      <4>2. "using" \in RtcPc  BY DEF RtcPc
      <4> QED BY <4>1, <4>2, Goto, Idles
    <3> QED BY <1>3, <3>1, <3>2, <3>3
  <2>4. TypeOK'  BY <1>t, <2>1, <2>2, RtcFrame
  <2>5. RequestOK'  BY <2>2 DEF RequestOK, Preparing, Changing, Counting
  <2>6. CountOK'  BY <1>0, <1>t, <2>1, <2>2 DEF CountOK, Counting
  <2> QED BY <2>4, <2>5, <2>6 DEF TypeInv
<1>4. CASE PrepareGate
  <2>1. Same /\ UNCHANGED <<prepared, changing>> /\ rtc.pc = "prepare gate"
    BY <1>4, <1>t DEF PrepareGate, gate, locks, graphs, qact, restart
  <2>2. "blocked" \in RtcPc /\ "prepare lock" \in RtcPc  BY DEF RtcPc
  <2>3. /\ rtc' \in RtcType /\ rtc'.graph = rtc.graph
        /\ \/ rtc'.pc = "blocked" /\ num_rtgm_in_prog' = num_rtgm_in_prog
           \/ rtc'.pc = "prepare lock" /\ num_rtgm_in_prog' = num_rtgm_in_prog + 1
    BY <1>4, <2>2, Goto DEF PrepareGate
  <2>n. num_rtgm_in_prog' \in 0 .. MaxInProg /\ CountOK'
    BY <1>0, <2>1, <2>3, GateCounts
  <2>4. TypeOK'  BY <2>1, <2>3, <2>n, RtcFrame
  <2>5. RequestOK'  BY <1>0, <2>1, <2>3 DEF RequestOK, Preparing, Changing, Counting
  <2> QED BY <2>4, <2>5, <2>n DEF TypeInv
<1>5. CASE RtcWakes \/ RtcClears
  <2>1. /\ Same /\ UNCHANGED <<prepared, changing, num_rtgm_in_prog>>
        /\ rtc.pc \in {"blocked", "clear"}
    BY <1>5, <1>t DEF RtcWakes, RtcClears, gate, locks, graphs, qact, restart
  <2>2. "clear" \in RtcPc /\ "prepare gate" \in RtcPc  BY DEF RtcPc
  <2>3. /\ rtc' \in RtcType /\ rtc'.graph = rtc.graph
        /\ rtc'.pc \in {"clear", "prepare gate"}
    BY <1>5, <2>2, Goto DEF RtcWakes, RtcClears
  <2>4. TypeOK'  BY <1>t, <2>1, <2>3, RtcFrame
  <2>5. RequestOK'  BY <1>0, <2>1, <2>3 DEF RequestOK, Preparing, Changing, Counting
  <2>6. CountOK'  BY <1>0, <1>t, <2>1, <2>3 DEF CountOK, Counting
  <2> QED BY <2>4, <2>5, <2>6 DEF TypeInv
<1>6. CASE RtcTakesOpenClose
  <2>1. Same /\ UNCHANGED <<prepared, changing, num_rtgm_in_prog>>
    BY <1>6, <1>t DEF RtcTakesOpenClose, gate, graphs, qact, restart
  <2>2. {"prepare", "change", "request"} \subseteq RtcPc  BY DEF RtcPc
  <2>3. /\ rtc' \in RtcType /\ rtc'.graph = rtc.graph
        /\ \/ rtc.pc = "prepare lock" /\ rtc'.pc = "prepare"
           \/ rtc.pc = "change lock" /\ rtc'.pc = "change"
           \/ rtc.pc = "request lock" /\ rtc'.pc = "request"
    BY <1>6, <2>2, Goto DEF RtcTakesOpenClose
  <2>4. TypeOK'  BY <1>t, <2>1, <2>3, RtcFrame
  <2>5. RequestOK'  BY <1>0, <2>1, <2>3 DEF RequestOK, Preparing, Changing, Counting
  <2>6. CountOK'  BY <1>0, <1>t, <2>1, <2>3 DEF CountOK, Counting
  <2> QED BY <2>4, <2>5, <2>6 DEF TypeInv
<1>7. CASE PrepareStop
  <2>1. /\ UNCHANGED <<num_rtgm_in_prog, client_op_in_prog, signalled>>
        /\ UNCHANGED <<graph_hdl_lock, wanted, client>> /\ rtc.pc = "prepare"
    BY <1>7 DEF PrepareStop, gate
  <2>r. AllocateList => restart_list_room' \in Nat
    BY <1>0, RoomType, Typed DEF AllocateList
  <2>2. CASE /\ RtgmFails /\ UNCHANGED <<graph_state, restart_handle_list, restart_list_position>>
             /\ AllocateList \/ UNCHANGED restart
    <3>1. restart_list_room' \in Nat  BY <1>0, <2>2, <2>r, Typed DEF restart
    <3> QED BY <2>1, <2>2, <3>1, FailTyped
  <2>3. ASSUME RtcGoto("prepare graph"), UNCHANGED <<open_close_lock, qact>>,
               \/ UNCHANGED <<restart, graph_state>>
               \/ /\ AllocateList /\ UNCHANGED restart_list_position
                  /\ graph_state' = [graph_state EXCEPT ![rtc.graph] = "OPENED"]
                  /\ restart_handle_list' = Append(restart_handle_list, rtc.graph)
        PROVE  TypeInv'
    <3>1. "prepare graph" \in RtcPc  BY DEF RtcPc
    <3>2. rtc' \in RtcType /\ rtc'.graph = rtc.graph /\ rtc'.pc = "prepare graph"
      BY <2>3, <3>1, Goto
    <3>g. rtc.graph \in Graph /\ ~ changing
      BY <1>0, <2>1 DEF RequestOK, Preparing, Counting
    <3>3. /\ graph_state' \in [Graph -> State] /\ restart_handle_list' \in Seq(Graph)
          /\ restart_list_position' \in 0 .. Len(restart_handle_list')
          /\ restart_list_room' \in Nat
      <4>1. CASE UNCHANGED <<restart, graph_state>>  BY <1>0, <4>1, Typed DEF restart
      <4>2. CASE /\ AllocateList /\ UNCHANGED restart_list_position
                 /\ graph_state' = [graph_state EXCEPT ![rtc.graph] = "OPENED"]
                 /\ restart_handle_list' = Append(restart_handle_list, rtc.graph)
        <5>1. graph_state' \in [Graph -> State]  BY <1>0, <4>2, Typed DEF State
        <5>2. /\ restart_handle_list' \in Seq(Graph)
              /\ Len(restart_handle_list') = Len(restart_handle_list) + 1
          BY <1>0, <3>g, <4>2, Typed
        <5> QED BY <1>0, <2>r, <4>2, <5>1, <5>2, Typed
      <4> QED BY <2>3, <4>1, <4>2
    <3>4. TypeOK'
      BY <1>0, <1>t, <2>1, <2>3, <3>2, <3>3, RtcTyped DEF gate, qact
    <3>5. RequestOK'
      BY <2>3, <3>2, <3>g DEF RequestOK, Preparing, Changing, Counting, qact
    <3>6. CountOK'
      BY <1>0, <2>1, <2>3, <3>2 DEF CountOK, Counting, gate, qact
    <3> QED BY <3>4, <3>5, <3>6 DEF TypeInv
  <2> QED BY <1>7, <2>2, <2>3 DEF PrepareStop, restart
<1>8. CASE PrepareGraph
  <2>1. /\ UNCHANGED <<num_rtgm_in_prog, client_op_in_prog, signalled, graph_hdl_lock>>
        /\ UNCHANGED <<restart_handle_list, restart_list_position, restart_list_room>>
        /\ UNCHANGED <<graph_state, wanted, client>>
        /\ rtc.pc = "prepare graph"
    BY <1>8 DEF PrepareGraph, gate, restart, graphs
  <2>2. CASE RtgmFails
    BY <1>0, <2>1, <2>2, FailTyped, Typed DEF restart, graphs
  <2>3. CASE /\ open_close_lock' = Free /\ rtc' = IdleRtc
             /\ prepared' = Append(prepared, rtc.graph) /\ UNCHANGED <<changing, rtgm_failed>>
    <3>g. rtc.graph \in Graph  BY <1>0, <2>1 DEF RequestOK, Preparing, Counting
    <3>1. prepared' \in Seq(Graph) /\ Len(prepared') = Len(prepared) + 1
      BY <1>t, <2>3, <3>g
    <3>2. rtc' \in RtcType /\ rtc'.pc = "idle"  BY <2>3, Idles
    <3>4. TypeOK'
      BY <1>t, <2>1, <2>3, <3>1, <3>2, RtcFrame DEF gate, graphs
    <3>5. RequestOK'  BY <3>2 DEF RequestOK, Preparing, Changing, Counting
    <3>6. CountOK'
      BY <1>0, <1>t, <2>1, <3>1, <3>2 DEF CountOK, Counting, gate
    <3> QED BY <3>4, <3>5, <3>6 DEF TypeInv
  <2> QED BY <1>8, <2>2, <2>3 DEF PrepareGraph
<1>9. CASE ChangeGraph
  <2>1. /\ UNCHANGED <<num_rtgm_in_prog, client_op_in_prog, signalled, graph_hdl_lock>>
        /\ UNCHANGED <<restart_handle_list, restart_list_position, restart_list_room>>
        /\ UNCHANGED <<graph_state, wanted, client>>
        /\ rtc.pc = "change"
    BY <1>9 DEF ChangeGraph, gate, restart, graphs
  <2>2. CASE RtgmFails
    BY <1>0, <2>1, <2>2, FailTyped, Typed DEF restart, graphs
  <2>3. CASE RtcGoto("restart") /\ UNCHANGED <<open_close_lock, qact>>
    <3>1. "restart" \in RtcPc  BY DEF RtcPc
    <3>2. rtc' \in RtcType /\ rtc'.graph = rtc.graph /\ rtc'.pc = "restart"
      BY <2>3, <3>1, Goto
    <3>4. TypeOK'
      BY <1>t, <2>1, <2>3, <3>2, RtcFrame DEF gate, graphs, qact
    <3>5. RequestOK'
      BY <1>0, <2>1, <2>3, <3>2 DEF RequestOK, Preparing, Changing, Counting, qact
    <3>6. CountOK'
      BY <1>0, <1>t, <2>1, <2>3, <3>2 DEF CountOK, Counting, gate, qact
    <3> QED BY <3>4, <3>5, <3>6 DEF TypeInv
  <2> QED BY <1>9, <2>2, <2>3 DEF ChangeGraph
<1>10. CASE Restart
  <2>1. /\ UNCHANGED <<num_rtgm_in_prog, client_op_in_prog, signalled, graph_hdl_lock, wanted>>
        /\ UNCHANGED <<prepared, changing, client>>
        /\ rtc.pc = "restart" /\ open_close_lock' = Free
    BY <1>10 DEF Restart, gate
  <2>2. "leave" \in RtcPc  BY DEF RtcPc
  <2>3. rtc' \in RtcType /\ rtc'.graph = rtc.graph /\ rtc'.pc = "leave"
    BY <1>10, <2>2, Goto DEF Restart
  <2>4. /\ rtgm_failed' \in BOOLEAN
        /\ graph_state' = graph_state
             \/ graph_state' = [graph_state EXCEPT ![rtc.graph] = "STARTED"]
        /\ UNCHANGED restart \/ (ToRestart /\ OneRestarted)
    BY <1>10, <1>t DEF Restart
  <2>5. graph_state' \in [Graph -> State]
    BY <1>0, <2>4, Typed DEF State
  <2>6. /\ restart_handle_list' \in Seq(Graph)
        /\ restart_list_position' \in 0 .. Len(restart_handle_list')
        /\ restart_list_room' \in Nat
    <3>1. CASE UNCHANGED restart  BY <1>0, <3>1, Typed DEF restart
    <3>2. CASE ToRestart /\ OneRestarted
      <4>1. <<>> \in Seq(Graph) /\ Len(<<>>) = 0  OBVIOUS
      <4>2. restart_list_position < Len(restart_handle_list)  BY <3>2 DEF ToRestart
      <4>3. CASE restart_list_position + 1 = Len(restart_handle_list)
        <5>1. restart_handle_list' = <<>> /\ restart_list_position' = 0 /\ restart_list_room' = 0
          BY <3>2, <4>3 DEF OneRestarted
        <5> QED BY <4>1, <5>1
      <4>4. CASE restart_list_position + 1 # Len(restart_handle_list)
        <5>1. /\ restart_list_position' = restart_list_position + 1
              /\ UNCHANGED <<restart_handle_list, restart_list_room>>
          BY <3>2, <4>4 DEF OneRestarted
        <5> QED BY <1>0, <4>2, <5>1, Typed
      <4> QED BY <4>3, <4>4
    <3> QED BY <2>4, <3>1, <3>2
  <2>7. TypeOK'
    BY <1>0, <1>t, <2>1, <2>3, <2>4, <2>5, <2>6, RtcTyped DEF gate
  <2>8. RequestOK'
    BY <1>0, <2>1, <2>3 DEF RequestOK, Preparing, Changing, Counting
  <2>9. CountOK'
    BY <1>0, <1>t, <2>1, <2>3 DEF CountOK, Counting, gate
  <2> QED BY <2>7, <2>8, <2>9 DEF TypeInv
<1>11. CASE Leave
  <2>1. /\ UNCHANGED <<client_op_in_prog, graph_hdl_lock, open_close_lock, graph_state, wanted>>
        /\ UNCHANGED <<restart_handle_list, restart_list_position, restart_list_room>>
        /\ UNCHANGED <<rtgm_failed, client>>
        /\ rtc.pc = "leave" /\ num_rtgm_in_prog' = num_rtgm_in_prog - 1
        /\ prepared' = Tail(prepared) /\ changing' \in BOOLEAN /\ signalled' \in BOOLEAN
    BY <1>11, <1>t DEF Leave, locks, restart, graphs
  <2>2. rtc' \in RtcType /\ rtc'.pc = "idle"  BY <1>11, Idles DEF Leave
  <2>3. /\ Len(prepared) >= 1 /\ prepared' \in Seq(Graph)
        /\ Len(prepared') = Len(prepared) - 1
    BY <1>0, <2>1, Typed DEF RequestOK, Changing
  <2>4. num_rtgm_in_prog' \in 0 .. MaxInProg /\ num_rtgm_in_prog >= Len(prepared)
    BY <1>0, <1>t, <2>1, <2>3 DEF CountOK, Counting
  <2>5. TypeOK'
    BY <1>t, <2>1, <2>2, <2>3, <2>4, RtcFrame DEF locks, graphs
  <2>6. RequestOK'  BY <2>2 DEF RequestOK, Preparing, Changing, Counting
  <2>7. CountOK'  BY <1>t, <2>1, <2>2, <2>3, <2>4 DEF CountOK, Counting
  <2> QED BY <2>5, <2>6, <2>7 DEF TypeInv
<1> QED
  BY <1>1, <1>2, <1>3, <1>4, <1>5, <1>6, <1>7, <1>8, <1>9, <1>10, <1>11 DEF RtcStep

-----------------------------------------------------------------------------
(* Lists in the order in which their entries are asked for. *)

LEMMA InOrderOfFewer ==
  ASSUME NEW list, NEW S, NEW asked, InOrder(list, S, asked),
         NEW list2, NEW S2 \in SUBSET S, \A i \in S2 : list2[i] = list[i]
  PROVE  InOrder(list2, S2, asked)
BY DEF InOrder

\* One more is asked for.
LEMMA InOrderAskMore ==
  ASSUME NEW G, NEW list, NEW S, NEW asked \in Seq(G), NEW g \in G, InOrder(list, S, asked)
  PROVE  InOrder(list, S, Append(asked, g))
<1> DEFINE more == Append(asked, g)
<1>1. \A k \in DOMAIN asked : k \in DOMAIN more /\ more[k] = asked[k]  OBVIOUS
<1>2. \A k \in DOMAIN asked : \A l \in 1 .. k : l \in DOMAIN asked  OBVIOUS
<1> HIDE DEF more
<1>3. \A i \in S : \E k \in DOMAIN more : more[k] = list[i]  BY <1>1 DEF InOrder
<1>4. ASSUME NEW i \in S, NEW j \in S, i < j
      PROVE  \E k \in DOMAIN more : more[k] = list[i] /\ \A l \in 1 .. k : more[l] # list[j]
  <2>1. PICK k \in DOMAIN asked : asked[k] = list[i] /\ \A l \in 1 .. k : asked[l] # list[j]
    BY <1>4 DEF InOrder
  <2>2. \A l \in 1 .. k : more[l] # list[j]  BY <1>1, <1>2, <2>1
  <2> QED BY <1>1, <2>1, <2>2
<1>5. InOrder(list, S, more)  BY <1>3, <1>4 DEF InOrder
<1> QED BY <1>5 DEF more

\* One more is asked for and put on the list.
LEMMA InOrderListMore ==
  ASSUME NEW G, NEW list \in Seq(G), NEW S, S \subseteq 1 .. Len(list),
         NEW asked \in Seq(G), NEW g \in G, InOrder(list, S, asked),
         \A k \in DOMAIN asked : asked[k] # g
  PROVE  InOrder(Append(list, g), S \cup {Len(list) + 1}, Append(asked, g))
<1> DEFINE more == Append(asked, g)
           longer == Append(list, g)
           n == Len(list) + 1
<1>1. \A k \in DOMAIN asked : k \in DOMAIN more /\ more[k] = asked[k]  OBVIOUS
<1>2. \A k \in DOMAIN asked : \A l \in 1 .. k : l \in DOMAIN asked  OBVIOUS
<1>3. Len(asked) + 1 \in DOMAIN more /\ more[Len(asked) + 1] = g  OBVIOUS
<1>4. \A i \in S : longer[i] = list[i] /\ i < n /\ i # n  OBVIOUS
<1>5. longer[n] = g /\ ~ (n < n)  OBVIOUS
<1>6. \A i \in S : ~ (n < i)  OBVIOUS
<1>7. InOrder(list, S, more)  BY InOrderAskMore
<1> HIDE DEF more, longer, n
<1>8. \A i \in S \cup {n} : \E k \in DOMAIN more : more[k] = longer[i]
  BY <1>3, <1>4, <1>5, <1>7 DEF InOrder
<1>9. ASSUME NEW i \in S \cup {n}, NEW j \in S \cup {n}, i < j
      PROVE  \E k \in DOMAIN more : more[k] = longer[i] /\ \A l \in 1 .. k : more[l] # longer[j]
  <2>1. i \in S  BY <1>5, <1>6, <1>9
  <2>2. CASE j \in S  BY <1>4, <1>7, <1>9, <2>1, <2>2 DEF InOrder
  <2>3. CASE j = n
    <3>1. PICK k \in DOMAIN asked : asked[k] = list[i]  BY <2>1 DEF InOrder
    <3>2. \A l \in 1 .. k : more[l] # g  BY <1>1, <1>2
    <3> QED BY <1>1, <1>4, <1>5, <2>1, <2>3, <3>1, <3>2
  <2> QED BY <2>2, <2>3
<1>10. InOrder(longer, S \cup {n}, more)  BY <1>8, <1>9 DEF InOrder
<1> QED BY <1>10 DEF more, longer, n

\* The first is no longer asked for.
LEMMA InOrderOfRest ==
  ASSUME NEW G, NEW list, NEW S, NEW asked \in Seq(G), asked # <<>>, InOrder(list, S, asked),
         \A i \in S : list[i] # Head(asked)
  PROVE  InOrder(list, S, Tail(asked))
<1> DEFINE rest == Tail(asked)
<1>1. asked[1] = Head(asked) /\ DOMAIN asked = 1 .. Len(asked) /\ Len(asked) \in Nat  OBVIOUS
<1>2. DOMAIN rest = 1 .. Len(asked) - 1  OBVIOUS
<1>3. \A k \in DOMAIN rest : rest[k] = asked[k + 1]  OBVIOUS
<1>4. ASSUME NEW k \in DOMAIN asked, asked[k] # Head(asked)
      PROVE  /\ k - 1 \in DOMAIN rest /\ rest[k - 1] = asked[k]
             /\ \A l \in 1 .. k - 1 : l + 1 \in 1 .. k /\ rest[l] = asked[l + 1]
  <2>1. k \in 2 .. Len(asked)  BY <1>1, <1>4
  <2>2. k - 1 \in 1 .. Len(asked) - 1 /\ (k - 1) + 1 = k  BY <1>1, <2>1
  <2>3. \A l \in 1 .. k - 1 : l + 1 \in 1 .. k /\ l \in 1 .. Len(asked) - 1  BY <1>1, <2>1
  <2> QED BY <1>2, <1>3, <2>2, <2>3
<1> HIDE DEF rest
<1>5. \A i \in S : \E k \in DOMAIN rest : rest[k] = list[i]  BY <1>4 DEF InOrder
<1>6. ASSUME NEW i \in S, NEW j \in S, i < j
      PROVE  \E k \in DOMAIN rest : rest[k] = list[i] /\ \A l \in 1 .. k : rest[l] # list[j]
  <2>1. PICK k \in DOMAIN asked : asked[k] = list[i] /\ \A l \in 1 .. k : asked[l] # list[j]
    BY <1>6 DEF InOrder
  <2>2. /\ k - 1 \in DOMAIN rest /\ rest[k - 1] = list[i]
        /\ \A l \in 1 .. k - 1 : l + 1 \in 1 .. k /\ rest[l] = asked[l + 1]
    BY <1>4, <2>1
  <2>3. \A l \in 1 .. k - 1 : rest[l] # list[j]  BY <2>1, <2>2
  <2> QED BY <2>2, <2>3
<1>7. InOrder(list, S, rest)  BY <1>5, <1>6 DEF InOrder
<1> QED BY <1>7 DEF rest

\* What is asked for first is not behind another on the list.
LEMMA FirstIsFirst ==
  ASSUME NEW G, NEW list, NEW S, NEW asked \in Seq(G), asked # <<>>, InOrder(list, S, asked),
         NEW i \in S, NEW j \in S, i < j
  PROVE  list[j] # Head(asked)
<1>1. PICK k \in DOMAIN asked : asked[k] = list[i] /\ \A l \in 1 .. k : asked[l] # list[j]
  BY DEF InOrder
<1>2. 1 \in 1 .. k /\ asked[1] = Head(asked)  OBVIOUS
<1> QED BY <1>1, <1>2

-----------------------------------------------------------------------------
(* What QACT has stopped, over the steps of the client and its own. *)

LEMMA AskedType ==
  ASSUME TypeInv
  PROVE  /\ Asked \in Seq(Graph) /\ Stopped \subseteq 1 .. Len(restart_handle_list)
         /\ \A i \in Stopped : restart_handle_list[i] \in Graph
         /\ \A k \in DOMAIN Asked : Asked[k] \in Graph
<1>1. prepared \in Seq(Graph) /\ restart_handle_list \in Seq(Graph)
      /\ restart_list_position \in Nat
  BY DEF TypeInv, TypeOK
<1>2. Stopped \subseteq 1 .. Len(restart_handle_list)  BY <1>1 DEF Stopped
<1>3. \A i \in Stopped : restart_handle_list[i] \in Graph  BY <1>1, <1>2
<1>4. rtc.pc = "prepare graph" => rtc.graph \in Graph
  BY DEF TypeInv, RequestOK, Preparing, Counting
<1>5. Asked \in Seq(Graph)
  <2>1. \A s \in Seq(Graph), g \in Graph : Append(s, g) \in Seq(Graph)  OBVIOUS
  <2> QED BY <1>1, <1>4, <2>1, Zenon DEF Asked
<1>6. \A k \in DOMAIN Asked : Asked[k] \in Graph  BY <1>5
<1> QED BY <1>2, <1>3, <1>5, <1>6

\* When nothing is counted in nothing is stopped, and the graphs are as they were left.
LEMMA NothingAsked ==
  ASSUME TypeInv, RestartInv, ~ (num_rtgm_in_prog > 0)
  PROVE  /\ Asked = <<>> /\ Stopped = {}
         /\ \A g \in Graph : graph_state[g] = wanted[g]
<1>1. TypeOK /\ CountExact /\ prepared \in Seq(Graph)  BY DEF TypeInv, TypeOK, RestartInv
<1>2. num_rtgm_in_prog \in Int /\ num_rtgm_in_prog \in 0 .. MaxInProg /\ Len(prepared) \in Nat
  BY <1>1, Counts
<1>3. num_rtgm_in_prog = 0 /\ Len(prepared) + 1 # 0  BY <1>2
<1>4. rtc.pc \notin Counting /\ Len(prepared) = 0  BY <1>1, <1>3, Zenon DEF CountExact
<1>5. prepared = <<>>  BY <1>1, <1>4
<1>6. Asked = <<>>  BY <1>4, <1>5 DEF Asked, Counting
<1>7. DOMAIN Asked = {}  BY <1>6
<1>8. Stopped = {}  BY <1>7 DEF RestartInv, StoppedInOrder, InOrder
<1> QED BY <1>6, <1>8 DEF RestartInv, StoppedOnly

\* A step that asks for the same graphs and leaves them alone.
LEMMA SameAsked ==
  ASSUME RestartInv, UNCHANGED <<graph_state, wanted, client>>,
         UNCHANGED <<restart_handle_list, restart_list_position>>,
         Asked' = Asked, changing => changing', rtc'.pc # "leave", CountExact'
  PROVE  RestartInv'
<1>1. Stopped' = Stopped  BY DEF Stopped
<1>2. StoppedInOrder' /\ StoppedOnly'
  BY <1>1 DEF RestartInv, StoppedInOrder, StoppedOnly
<1>3. AskedAreStopped' /\ ChangedIsRestarted' /\ OpeningIsClosed'
  BY DEF RestartInv, AskedAreStopped, ChangedIsRestarted, OpeningIsClosed
<1> QED BY <1>2, <1>3 DEF RestartInv

\* Only gsl_open goes to work on a handle that is not open.
LEMMA ClientOpens ==
  ASSUME ClientType, NEW c \in Client, OpeningIsClosed,
         Call(c) \/ Open(c) \/ ClientTimesOut(c) \/ ClientStep(c)
  PROVE  /\ client'[c].pc \in {"opening", "opened"} =>
              /\ UNCHANGED graphs /\ client'[c].graph \in Graph
              /\ graph_state[client'[c].graph] = "CLOSED"
         /\ OpenDone(c) => client[c].pc = "opened"
         /\ Inside(c) => client[c].pc \notin {"opening", "opened"}
<1> USE DEF ClientGoto, ClientReturns, IdleClient, ClientPc, ClientAt
<1>0. OpenDone(c) => client[c].pc = "opened"  BY DEF OpenDone
<1>i. Inside(c) => client[c].pc \notin {"opening", "opened"}  BY DEF Inside
<1>1. CASE Call(c)
  <2> PICK g \in Graph, op \in Ioctl \cup Dropped \cup Blocking : Call(c)!(g, op)
    BY <1>1 DEF Call
  <2>1. client'[c].pc = "gate"  BY DEF ClientType
  <2> QED BY <2>1, <1>0, <1>i
<1>2. CASE Open(c)
  <2> PICK g \in Graph : Open(c)!(g)
    BY <1>2 DEF Open
  <2>1. client'[c].graph = g  BY DEF ClientType
  <2> QED BY <2>1, <1>0, <1>i
<1>3. CASE Admit(c)  BY <1>0, <1>i, <1>3 DEF Admit, ClientType
<1>4. CASE Refuse(c)  BY <1>0, <1>i, <1>4 DEF Refuse, ClientType
<1>5. CASE ClientWakes(c) \/ ClientClears(c) \/ ClientTimesOut(c)
  BY <1>0, <1>i, <1>5 DEF ClientWakes, ClientClears, ClientTimesOut, ClientType
<1>6. CASE Work(c) \/ CloseInvalid(c) \/ CloseStop(c)
  BY <1>0, <1>i, <1>6 DEF Work, CloseInvalid, CloseStop, ClientType
<1>7. CASE TakeOpenClose(c)
  BY <1>0, <1>i, <1>7 DEF TakeOpenClose, ClientType, OpeningIsClosed
<1>8. CASE CloseDone(c) \/ Release(c) \/ OpenDone(c) \/ EndClientOp(c)
  BY <1>0, <1>i, <1>8 DEF CloseDone, Release, OpenDone, EndClientOp, ClientType
<1> QED BY <1>1, <1>2, <1>3, <1>4, <1>5, <1>6, <1>7, <1>8 DEF ClientStep

\* The one client's steps: a call works on graphs only while nothing is counted in, and
\* a graph that is being opened is none of those that are stopped.
LEMMA ClientKeepsRestart ==
  ASSUME OneClient, TypeInv, GateInv, RestartInv, NEW c \in Client,
         Call(c) \/ Open(c) \/ ClientTimesOut(c) \/ ClientStep(c)
  PROVE  RestartInv'
<1>1. /\ UNCHANGED <<num_rtgm_in_prog, restart, qact, rtc>>
      /\ \/ UNCHANGED graphs
         \/ Inside(c) /\ \E s \in State : SetState(client[c].graph, s)
         \/ OpenDone(c)
  BY ClientEffects
<1>2. Asked' = Asked /\ Stopped' = Stopped /\ UNCHANGED restart_handle_list
  BY <1>1 DEF Asked, Stopped, restart, qact
<1>3. CountExact' /\ StoppedInOrder' /\ ChangedIsRestarted'
  BY <1>1, <1>2 DEF RestartInv, CountExact, StoppedInOrder, ChangedIsRestarted, qact
<1>4. ClientType /\ ClientType'  BY ClientTyped DEF GateInv
<1>5. /\ client'[c].pc \in {"opening", "opened"} =>
           /\ UNCHANGED graphs /\ client'[c].graph \in Graph
           /\ graph_state[client'[c].graph] = "CLOSED"
      /\ OpenDone(c) => client[c].pc = "opened"
  BY <1>4, ClientOpens DEF RestartInv
<1>6. OpeningIsClosed'  BY <1>5 DEF OneClient, OpeningIsClosed, graphs
<1>t. graph_state \in [Graph -> State] /\ wanted \in [Graph -> State]
  BY Typed DEF TypeInv
<1>7. CASE UNCHANGED graphs
  <2>1. StoppedOnly' /\ AskedAreStopped'
    BY <1>1, <1>2, <1>7 DEF RestartInv, StoppedOnly, AskedAreStopped, graphs, qact
  <2> QED BY <1>3, <1>6, <2>1 DEF RestartInv
<1>8. CASE Inside(c) /\ \E s \in State : SetState(client[c].graph, s)
  <2>1. ~ (num_rtgm_in_prog > 0)  BY <1>8 DEF GateInv, RtgmExcludesClient
  <2>2. Asked = <<>> /\ Stopped = {} /\ \A g \in Graph : graph_state[g] = wanted[g]
    BY <2>1, NothingAsked
  <2>3. \A g \in Graph : graph_state'[g] = wanted'[g]
    BY <1>8, <1>t, <2>2 DEF SetState
  <2>4. StoppedOnly'  BY <1>2, <2>2, <2>3 DEF StoppedOnly
  <2>5. AskedAreStopped'  BY <1>2, <2>2 DEF AskedAreStopped
  <2> QED BY <1>3, <1>6, <2>4, <2>5 DEF RestartInv
<1>9. CASE OpenDone(c)
  <2>g. PICK g : g = client[c].graph  OBVIOUS
  <2>1. graph_state[g] = "CLOSED"
    BY <1>5, <1>9, <2>g DEF RestartInv, OpeningIsClosed
  <2>2. /\ graph_state' = [graph_state EXCEPT ![g] = "OPENED"]
        /\ wanted' = [wanted EXCEPT ![g] = "OPENED"]
    BY <1>9, <2>g DEF OpenDone, SetState
  <2>3. \A h \in Graph : /\ h # g => graph_state'[h] = graph_state[h] /\ wanted'[h] = wanted[h]
                         /\ h = g => graph_state'[h] = "OPENED" /\ wanted'[h] = "OPENED"
    BY <1>t, <2>2
  <2>4. \A i \in Stopped : restart_handle_list[i] \in Graph /\ restart_handle_list[i] # g
    BY <2>1, AskedType DEF RestartInv, StoppedOnly
  <2>5. StoppedOnly'
    BY <1>2, <2>3, <2>4 DEF RestartInv, StoppedOnly
  <2>6. \A k \in DOMAIN Asked : Asked[k] \in Graph  BY AskedType
  <2>7. AskedAreStopped'
    BY <1>1, <1>2, <2>3, <2>6 DEF RestartInv, AskedAreStopped, qact
  <2> QED BY <1>3, <1>6, <2>5, <2>7 DEF RestartInv
<1> QED BY <1>1, <1>7, <1>8, <1>9

\* PREPARE stops the graph if it runs, and asks for it.
LEMMA PrepareStopKeeps ==
  ASSUME TypeInv, TypeInv', RestartInv, PrepareStop, ~ rtgm_failed'
  PROVE  RestartInv'
<1> DEFINE g == rtc.graph
<1>1. /\ UNCHANGED <<num_rtgm_in_prog, wanted, client, prepared, changing>>
      /\ rtc.pc = "prepare" /\ rtc' = [rtc EXCEPT !.pc = "prepare graph"]
      /\ \/ /\ graph_state[g] = "OPENED"
            /\ UNCHANGED <<restart_handle_list, restart_list_position, graph_state>>
         \/ /\ graph_state[g] = "STARTED"
            /\ graph_state' = [graph_state EXCEPT ![g] = "OPENED"]
            /\ restart_handle_list' = Append(restart_handle_list, g)
            /\ UNCHANGED restart_list_position
  BY DEF PrepareStop, RtgmFails, RtcGoto, RtcAt, gate, restart, qact
<1>2. rtc'.pc = "prepare graph" /\ rtc'.graph = g  BY <1>1 DEF TypeInv, TypeOK
<1>3. g \in Graph /\ ~ changing
  BY <1>1 DEF TypeInv, RequestOK, Preparing, Counting
<1>4. Asked = prepared /\ Asked' = Append(prepared, g)  BY <1>1, <1>2 DEF Asked
<1>t. /\ graph_state \in [Graph -> State] /\ wanted \in [Graph -> State]
      /\ restart_handle_list \in Seq(Graph) /\ prepared \in Seq(Graph)
      /\ restart_list_position \in 0 .. Len(restart_handle_list)
  BY Typed DEF TypeInv
<1>5. CountExact' /\ ChangedIsRestarted'
  BY <1>1, <1>2 DEF RestartInv, CountExact, ChangedIsRestarted, Counting
<1>6. \A h \in Graph : graph_state'[h] = graph_state[h] \/ (h = g /\ graph_state'[h] = "OPENED")
  BY <1>1, <1>t
<1>7. graph_state'[g] = "OPENED"  BY <1>1, <1>3, <1>t
<1>8. AskedAreStopped'
  <2>1. \A k \in DOMAIN prepared :
          prepared[k] \in Graph /\ graph_state[prepared[k]] # "STARTED"
    BY <1>3, <1>4, <1>t DEF RestartInv, AskedAreStopped
  <2>2. \A k \in DOMAIN prepared : graph_state'[prepared[k]] # "STARTED"  BY <1>6, <2>1
  <2>3. \A k \in DOMAIN Append(prepared, g) :
          \/ Append(prepared, g)[k] = g
          \/ \E l \in DOMAIN prepared : Append(prepared, g)[k] = prepared[l]
    BY <1>t
  <2> QED BY <1>4, <1>7, <2>2, <2>3 DEF AskedAreStopped
<1>9. OpeningIsClosed'
  <2>1. graph_state' = graph_state \/ graph_state' = [graph_state EXCEPT ![g] = "OPENED"]
    BY <1>1
  <2>2. graph_state[g] # "CLOSED"  BY <1>1
  <2>3. \A h \in Graph : graph_state[h] = "CLOSED" => graph_state'[h] = "CLOSED"
    BY <1>t, <2>1, <2>2
  <2> QED BY <1>1, <2>3 DEF RestartInv, OpeningIsClosed
<1>10. CASE UNCHANGED <<restart_handle_list, restart_list_position, graph_state>>
  <2>1. Stopped' = Stopped  BY <1>10 DEF Stopped
  <2>2. InOrder(restart_handle_list, Stopped, prepared)
    BY <1>4 DEF RestartInv, StoppedInOrder
  <2>3. InOrder(restart_handle_list, Stopped, Append(prepared, g))
    BY <1>3, <1>t, <2>2, InOrderAskMore
  <2>4. StoppedInOrder'  BY <1>4, <1>10, <2>1, <2>3 DEF StoppedInOrder
  <2>5. StoppedOnly'  BY <1>1, <1>10, <2>1 DEF RestartInv, StoppedOnly
  <2> QED BY <1>5, <1>8, <1>9, <2>4, <2>5 DEF RestartInv
<1>11. CASE /\ graph_state[g] = "STARTED"
            /\ graph_state' = [graph_state EXCEPT ![g] = "OPENED"]
            /\ restart_handle_list' = Append(restart_handle_list, g)
            /\ UNCHANGED restart_list_position
  <2> DEFINE n == Len(restart_handle_list) + 1
  <2>1. Stopped' = Stopped \cup {n} /\ Stopped \subseteq 1 .. Len(restart_handle_list)
    BY <1>11, <1>t DEF Stopped
  <2>2. InOrder(restart_handle_list, Stopped, prepared)
    BY <1>4 DEF RestartInv, StoppedInOrder
  <2>3. \A k \in DOMAIN prepared : prepared[k] # g
    BY <1>3, <1>4, <1>11 DEF RestartInv, AskedAreStopped
  <2>4. InOrder(Append(restart_handle_list, g), Stopped \cup {n}, Append(prepared, g))
    BY <1>3, <1>t, <2>1, <2>2, <2>3, InOrderListMore
  <2>5. StoppedInOrder'  BY <1>4, <1>11, <2>1, <2>4 DEF StoppedInOrder
  <2>6. /\ restart_handle_list'[n] = g /\ n \in Stopped'
        /\ \A i \in Stopped : restart_handle_list'[i] = restart_handle_list[i]
    BY <1>3, <1>11, <1>t, <2>1
  <2> HIDE DEF n
  <2>7. wanted[g] = "STARTED"
    BY <1>3, <1>11 DEF RestartInv, StoppedOnly
  <2>8. \A i \in Stopped : restart_handle_list[i] \in Graph  BY AskedType
  <2>9. \A h \in Graph : graph_state'[h] # wanted'[h] =>
          \E i \in Stopped' : restart_handle_list'[i] = h
    <3> SUFFICES ASSUME NEW h \in Graph, graph_state'[h] # wanted'[h], h # g
                 PROVE  \E i \in Stopped' : restart_handle_list'[i] = h
      BY <2>6
    <3>1. graph_state[h] # wanted[h]  BY <1>1, <1>6
    <3>2. PICK i \in Stopped : restart_handle_list[i] = h
      BY <3>1 DEF RestartInv, StoppedOnly
    <3> QED BY <2>1, <2>6, <3>2
  <2>10. \A i \in Stopped' : /\ graph_state'[restart_handle_list'[i]] = "OPENED"
                             /\ wanted'[restart_handle_list'[i]] = "STARTED"
    <3>1. ASSUME NEW i \in Stopped
          PROVE  /\ graph_state'[restart_handle_list'[i]] = "OPENED"
                 /\ wanted'[restart_handle_list'[i]] = "STARTED"
      <4>1. /\ graph_state[restart_handle_list[i]] = "OPENED"
            /\ wanted[restart_handle_list[i]] = "STARTED"
        BY DEF RestartInv, StoppedOnly
      <4> QED BY <1>1, <1>6, <2>6, <2>8, <4>1
    <3> QED BY <1>1, <1>7, <2>1, <2>6, <2>7, <3>1
  <2>11. StoppedOnly'  BY <2>9, <2>10 DEF StoppedOnly
  <2> QED BY <1>5, <1>8, <1>9, <2>5, <2>11 DEF RestartInv
<1> QED BY <1>1, <1>10, <1>11

\* CHANGE starts the graph it is about if PREPARE has stopped it: it is the next on the
\* list, if it is there.
LEMMA RestartKeeps ==
  ASSUME TypeInv, TypeInv', RestartInv, Restart, ~ rtgm_failed'
  PROVE  RestartInv'
<1> DEFINE g == rtc.graph
           first == restart_list_position + 1
<1>1. /\ UNCHANGED <<num_rtgm_in_prog, wanted, client, prepared, changing>>
      /\ rtc.pc = "restart" /\ rtc' = [rtc EXCEPT !.pc = "leave"]
      /\ \/ /\ ToRestart /\ OneRestarted
            /\ graph_state' = [graph_state EXCEPT ![g] = "STARTED"]
         \/ ~ ToRestart /\ UNCHANGED <<restart_handle_list, restart_list_position, graph_state>>
  BY DEF Restart, RtcGoto, RtcAt, gate, restart
<1>2. rtc'.pc = "leave" /\ rtc'.graph = g  BY <1>1 DEF TypeInv, TypeOK
<1>3. changing /\ prepared # <<>> /\ g = Head(prepared)
  BY <1>1 DEF TypeInv, RequestOK, Changing
<1>4. Asked = prepared /\ Asked' = prepared  BY <1>1, <1>2 DEF Asked
<1>t. /\ graph_state \in [Graph -> State] /\ wanted \in [Graph -> State]
      /\ restart_handle_list \in Seq(Graph) /\ prepared \in Seq(Graph)
      /\ restart_list_position \in 0 .. Len(restart_handle_list)
  BY Typed DEF TypeInv
<1>g. g \in Graph  BY <1>3, <1>t
<1>5. CountExact' /\ AskedAreStopped'
  BY <1>1, <1>2, <1>3 DEF RestartInv, CountExact, AskedAreStopped, Counting
<1>6. InOrder(restart_handle_list, Stopped, prepared)
  BY <1>4 DEF RestartInv, StoppedInOrder
<1>7. \A i \in Stopped : first \in Stopped /\ (i # first => first < i)
  BY <1>t DEF Stopped
<1>8. \A i \in Stopped : i # first => restart_handle_list[i] # g
  BY <1>3, <1>6, <1>7, <1>t, FirstIsFirst
<1>9. CASE ~ ToRestart /\ UNCHANGED <<restart_handle_list, restart_list_position, graph_state>>
  <2>1. Stopped' = Stopped  BY <1>9 DEF Stopped
  <2>2. first \in Stopped => restart_handle_list[first] # g
    BY <1>9, <1>t DEF Stopped, ToRestart
  <2>3. ChangedIsRestarted'
    BY <1>2, <1>8, <1>9, <2>1, <2>2 DEF ChangedIsRestarted
  <2>4. StoppedInOrder'  BY <1>4, <1>6, <1>9, <2>1 DEF StoppedInOrder
  <2>5. StoppedOnly' /\ OpeningIsClosed'
    BY <1>1, <1>9, <2>1 DEF RestartInv, StoppedOnly, OpeningIsClosed
  <2> QED BY <1>5, <2>3, <2>4, <2>5 DEF RestartInv
<1>10. CASE /\ ToRestart /\ OneRestarted
            /\ graph_state' = [graph_state EXCEPT ![g] = "STARTED"]
  <2>1. first \in Stopped /\ restart_handle_list[first] = g
    BY <1>10, <1>t DEF Stopped, ToRestart
  <2>2. /\ Stopped' = Stopped \ {first}
        /\ \A i \in Stopped' : restart_handle_list'[i] = restart_handle_list[i]
    <3>1. CASE first = Len(restart_handle_list)
      <4>1. restart_handle_list' = <<>> /\ restart_list_position' = 0
        BY <1>10, <3>1 DEF OneRestarted
      <4>2. Stopped' = {}  BY <4>1 DEF Stopped
      <4>3. Stopped = {first}  BY <1>t, <3>1 DEF Stopped
      <4> QED BY <4>2, <4>3
    <3>2. CASE first # Len(restart_handle_list)
      <4>1. restart_list_position' = first /\ UNCHANGED restart_handle_list
        BY <1>10, <3>2 DEF OneRestarted
      <4>2. Stopped' = Stopped \ {first}  BY <1>t, <4>1 DEF Stopped
      <4> QED BY <4>1, <4>2
    <3> QED BY <3>1, <3>2
  <2> HIDE DEF first
  <2>3. ChangedIsRestarted'
    BY <1>2, <1>8, <2>2 DEF ChangedIsRestarted
  <2>4. Stopped' \in SUBSET Stopped  BY <2>2
  <2>5. InOrder(restart_handle_list', Stopped', prepared)
    BY <1>6, <2>2, <2>4, InOrderOfFewer
  <2>6. StoppedInOrder'  BY <1>4, <2>5 DEF StoppedInOrder
  <2>7. \A h \in Graph : /\ h # g => graph_state'[h] = graph_state[h]
                         /\ h = g => graph_state'[h] = "STARTED"
    BY <1>10, <1>t
  <2>8. \A i \in Stopped : /\ restart_handle_list[i] \in Graph
                           /\ graph_state[restart_handle_list[i]] = "OPENED"
                           /\ wanted[restart_handle_list[i]] = "STARTED"
    BY AskedType DEF RestartInv, StoppedOnly
  <2>9. \A h \in Graph : graph_state'[h] # wanted'[h] =>
          \E i \in Stopped' : restart_handle_list'[i] = h
    <3> SUFFICES ASSUME NEW h \in Graph, graph_state'[h] # wanted'[h]
                 PROVE  \E i \in Stopped' : restart_handle_list'[i] = h
      OBVIOUS
    <3>1. h # g  BY <1>1, <2>1, <2>7, <2>8
    <3>2. PICK i \in Stopped : restart_handle_list[i] = h
      BY <1>1, <2>7, <3>1 DEF RestartInv, StoppedOnly
    <3>3. i # first  BY <2>1, <3>1, <3>2
    <3> QED BY <2>2, <3>2, <3>3
  <2>10. \A i \in Stopped' : /\ graph_state'[restart_handle_list'[i]] = "OPENED"
                             /\ wanted'[restart_handle_list'[i]] = "STARTED"
    <3> SUFFICES ASSUME NEW i \in Stopped'
                 PROVE  /\ graph_state'[restart_handle_list'[i]] = "OPENED"
                        /\ wanted'[restart_handle_list'[i]] = "STARTED"
      OBVIOUS
    <3>1. i \in Stopped /\ i # first /\ restart_handle_list'[i] = restart_handle_list[i]
      BY <2>2
    <3>2. restart_handle_list[i] # g  BY <1>8, <3>1
    <3> QED BY <1>1, <2>7, <2>8, <3>1, <3>2
  <2>11. StoppedOnly'  BY <2>9, <2>10 DEF StoppedOnly
  <2>12. \A h \in Graph : graph_state[h] = "CLOSED" => graph_state'[h] = "CLOSED"
    <3>1. graph_state[g] = "OPENED"  BY <2>1, <2>8
    <3> QED BY <1>10, <1>t, <3>1
  <2>13. OpeningIsClosed'  BY <1>1, <2>12 DEF RestartInv, OpeningIsClosed
  <2> QED BY <1>5, <2>3, <2>6, <2>11, <2>13 DEF RestartInv
<1> QED BY <1>1, <1>9, <1>10

\* CHANGE is done with its graph, which has been started again.
LEMMA LeaveKeeps ==
  ASSUME TypeInv, TypeInv', RestartInv, Leave
  PROVE  RestartInv'
<1>1. /\ UNCHANGED <<graph_state, wanted, client, restart_handle_list, restart_list_position>>
      /\ rtc.pc = "leave" /\ rtc' = IdleRtc
      /\ num_rtgm_in_prog' = num_rtgm_in_prog - 1
      /\ prepared' = Tail(prepared) /\ changing' = (Len(prepared) > 1)
  BY DEF Leave, RtcAt, graphs, restart
<1>2. rtc'.pc = "idle"  BY <1>1 DEF IdleRtc
<1>3. prepared # <<>> /\ rtc.graph = Head(prepared) /\ prepared \in Seq(Graph)
  BY <1>1 DEF TypeInv, TypeOK, RequestOK, Changing
<1>4. Asked = prepared /\ Asked' = Tail(prepared)  BY <1>1, <1>2 DEF Asked
<1>5. Stopped' = Stopped  BY <1>1 DEF Stopped
<1>6. InOrder(restart_handle_list, Stopped, prepared)
  BY <1>4 DEF RestartInv, StoppedInOrder
<1>7. \A i \in Stopped : restart_handle_list[i] # Head(prepared)
  BY <1>1, <1>3 DEF RestartInv, ChangedIsRestarted
<1>8. InOrder(restart_handle_list, Stopped, Tail(prepared))
  BY <1>3, <1>6, <1>7, InOrderOfRest
<1>9. StoppedInOrder'  BY <1>1, <1>4, <1>5, <1>8 DEF StoppedInOrder
<1>10. StoppedOnly' /\ OpeningIsClosed' /\ ChangedIsRestarted'
  BY <1>1, <1>2, <1>5 DEF RestartInv, StoppedOnly, OpeningIsClosed, ChangedIsRestarted
<1>11. AskedAreStopped'
  <2>1. ~ (Len(prepared) > 1) => Tail(prepared) = <<>>  BY <1>3
  <2>2. ~ changing' => Asked' = <<>>  BY <1>1, <1>4, <2>1
  <2> QED BY <2>2 DEF AskedAreStopped
<1>12. CountExact'
  <2>1. num_rtgm_in_prog = Len(prepared)
    BY <1>1 DEF RestartInv, CountExact, Counting
  <2>2. Len(Tail(prepared)) = Len(prepared) - 1  BY <1>3
  <2> QED BY <1>1, <1>2, <2>1, <2>2 DEF CountExact, Counting
<1> QED BY <1>9, <1>10, <1>11, <1>12 DEF RestartInv

\* The other steps of QACT ask for the same graphs and leave them alone.
LEMMA QuietStep ==
  ASSUME RestartInv, UNCHANGED <<graph_state, wanted, client, num_rtgm_in_prog, prepared>>,
         UNCHANGED <<restart_handle_list, restart_list_position>>,
         changing => changing', rtc.pc # "prepare graph",
         rtc'.pc \notin {"prepare graph", "leave"}, rtc.pc \in Counting <=> rtc'.pc \in Counting
  PROVE  RestartInv'
<1>1. Asked' = Asked  BY DEF Asked
<1>2. CountExact'  BY DEF RestartInv, CountExact
<1> QED BY <1>1, <1>2, SameAsked

LEMMA RequestsKeepRestart ==
  ASSUME TypeInv, RestartInv,
         \/ Prepare \/ Change \/ Request \/ UcInfo \/ RequestDone \/ RtcTimesOut
         \/ RequestLookUp \/ RtcWakes \/ RtcClears \/ RtcTakesOpenClose
  PROVE  RestartInv'
<1>1. CASE Prepare
  <2>1. PICK g \in Graph : rtc' = [pc |-> "prepare gate", graph |-> g]
    BY <1>1 DEF Prepare
  <2>2. rtc'.pc = "prepare gate" /\ rtc.pc = "idle"  BY <1>1, <2>1 DEF Prepare, RtcAt
  <2> QED BY <1>1, <2>2, QuietStep DEF Prepare, Counting, gate, graphs, restart, qact
<1>2. CASE Change
  <2>1. rtc'.pc = "change lock" /\ rtc.pc = "idle"  BY <1>2 DEF Change, RtcAt
  <2> QED BY <1>2, <2>1, QuietStep DEF Change, Counting, gate, graphs, restart, qact
<1>3. CASE Request
  <2>1. PICK label \in {"uc info", "request lock"}, g \in Graph \cup {NoGraph} :
          rtc' = [pc |-> label, graph |-> g]
    BY <1>3 DEF Request
  <2>2. rtc'.pc \in {"uc info", "request lock"} /\ rtc.pc = "idle"
    BY <1>3, <2>1 DEF Request, RtcAt
  <2> QED BY <1>3, <2>2, QuietStep DEF Request, Counting, gate, graphs, restart, qact
<1>4. CASE UcInfo \/ RequestDone \/ RtcTimesOut
  <2>1. rtc'.pc = "idle"  BY <1>4, Idles DEF UcInfo, RequestDone, RtcTimesOut
  <2>2. rtc.pc \in {"uc info", "using", "blocked"}
    BY <1>4 DEF UcInfo, RequestDone, RtcTimesOut, RtcAt
  <2>5. /\ UNCHANGED <<graph_state, wanted, client, num_rtgm_in_prog, prepared, changing>>
        /\ UNCHANGED <<restart_handle_list, restart_list_position>>
    BY <1>4 DEF UcInfo, RequestDone, RtcTimesOut, gate, graphs, restart, qact
  <2> QED BY <2>1, <2>2, <2>5, QuietStep DEF Counting
<1>5. CASE RequestLookUp
  <2>1. RtcGoto("using") \/ rtc' = IdleRtc  BY <1>5 DEF RequestLookUp
  <2>2. "using" \in RtcPc  BY DEF RtcPc
  <2>3. rtc'.pc \in {"using", "idle"}  BY <2>1, <2>2, Goto, Idles
  <2>4. rtc.pc = "request"  BY <1>5 DEF RequestLookUp, RtcAt
  <2> QED BY <1>5, <2>3, <2>4, QuietStep
          DEF RequestLookUp, Counting, gate, graphs, restart, qact
<1>6. CASE RtcWakes \/ RtcClears
  <2>1. RtcGoto("clear") \/ RtcGoto("prepare gate")  BY <1>6 DEF RtcWakes, RtcClears
  <2>2. "clear" \in RtcPc /\ "prepare gate" \in RtcPc  BY DEF RtcPc
  <2>3. rtc'.pc \in {"clear", "prepare gate"}  BY <2>1, <2>2, Goto
  <2>4. rtc.pc \in {"blocked", "clear"}  BY <1>6 DEF RtcWakes, RtcClears, RtcAt
  <2>5. /\ UNCHANGED <<graph_state, wanted, client, num_rtgm_in_prog, prepared, changing>>
        /\ UNCHANGED <<restart_handle_list, restart_list_position>>
    BY <1>6 DEF RtcWakes, RtcClears, gate, graphs, restart, qact
  <2> QED BY <2>3, <2>4, <2>5, QuietStep DEF Counting
<1>7. CASE RtcTakesOpenClose
  <2>1. {"prepare", "change", "request"} \subseteq RtcPc  BY DEF RtcPc
  <2>2. \/ rtc.pc = "prepare lock" /\ rtc'.pc = "prepare"
        \/ rtc.pc = "change lock" /\ rtc'.pc = "change"
        \/ rtc.pc = "request lock" /\ rtc'.pc = "request"
    BY <1>7, <2>1, Goto DEF RtcTakesOpenClose, RtcAt
  <2>3. rtc.pc \in Counting <=> rtc'.pc \in Counting  BY <2>2 DEF Counting
  <2> QED BY <1>7, <2>2, <2>3, QuietStep DEF RtcTakesOpenClose, gate, graphs, restart, qact
<1> QED BY <1>1, <1>2, <1>3, <1>4, <1>5, <1>6, <1>7

\* PREPARE counts itself in at the gate, and its graph is QACT's to change at the end.
LEMMA PrepareGateKeeps ==
  ASSUME TypeInv, RestartInv, PrepareGate
  PROVE  RestartInv'
<1>1. /\ UNCHANGED <<graph_state, wanted, client, prepared, changing>>
      /\ UNCHANGED <<restart_handle_list, restart_list_position>> /\ rtc.pc = "prepare gate"
  BY DEF PrepareGate, RtcAt, graphs, restart, qact
<1>2. "blocked" \in RtcPc /\ "prepare lock" \in RtcPc  BY DEF RtcPc
<1>3. \/ rtc'.pc = "blocked" /\ num_rtgm_in_prog' = num_rtgm_in_prog
      \/ rtc'.pc = "prepare lock" /\ num_rtgm_in_prog' = num_rtgm_in_prog + 1
  BY <1>2, Goto DEF PrepareGate
<1>4. rtc.pc \notin Counting  BY <1>1 DEF Counting
<1>5. num_rtgm_in_prog = Len(prepared)  BY <1>4 DEF RestartInv, CountExact
<1>6. CountExact'  BY <1>1, <1>3, <1>5 DEF CountExact, Counting
<1>7. Asked' = Asked  BY <1>1, <1>3 DEF Asked
<1> QED BY <1>1, <1>3, <1>6, <1>7, SameAsked

LEMMA PrepareGraphKeeps ==
  ASSUME TypeInv, RestartInv, PrepareGraph, ~ RtgmFails
  PROVE  RestartInv'
<1>1. /\ prepared' = Append(prepared, rtc.graph) /\ rtc' = IdleRtc
      /\ UNCHANGED <<graph_state, wanted, client, changing, num_rtgm_in_prog>>
      /\ UNCHANGED <<restart_handle_list, restart_list_position>>
  BY DEF PrepareGraph, gate, graphs, restart
<1>2. rtc.pc = "prepare graph"  BY DEF PrepareGraph, RtcAt
<1>3. rtc'.pc = "idle"  BY <1>1, Idles
<1>4. Asked' = Asked  BY <1>1, <1>2, <1>3 DEF Asked
<1>5. rtc.pc \in Counting  BY <1>2 DEF Counting
<1>6. num_rtgm_in_prog = Len(prepared) + 1  BY <1>5 DEF RestartInv, CountExact
<1>7. prepared \in Seq(Graph)  BY Typed DEF TypeInv
<1>8. Len(prepared') = Len(prepared) + 1  BY <1>1, <1>7
<1>9. CountExact'  BY <1>1, <1>3, <1>6, <1>8 DEF CountExact, Counting
<1> QED BY <1>1, <1>3, <1>4, <1>9, SameAsked

LEMMA ChangeGraphKeeps ==
  ASSUME TypeInv, RestartInv, ChangeGraph, ~ RtgmFails
  PROVE  RestartInv'
<1>1. RtcGoto("restart") /\ UNCHANGED qact  BY DEF ChangeGraph
<1>2. "restart" \in RtcPc  BY DEF RtcPc
<1>3. rtc'.pc = "restart"  BY <1>1, <1>2, Goto
<1>4. rtc.pc = "change"  BY DEF ChangeGraph, RtcAt
<1> QED BY <1>1, <1>3, <1>4, QuietStep DEF ChangeGraph, Counting, gate, graphs, restart, qact

LEMMA RtcKeepsRestart ==
  ASSUME TypeInv, TypeInv', RestartInv, ~ rtgm_failed',
         Prepare \/ Change \/ Request \/ RtcTimesOut \/ RtcStep
  PROVE  RestartInv'
<1>1. ~ RtgmFails  BY DEF RtgmFails
<1>2. CASE PrepareStop  BY <1>2, PrepareStopKeeps
<1>3. CASE Restart  BY <1>3, RestartKeeps
<1>4. CASE Leave  BY <1>4, LeaveKeeps
<1>5. CASE PrepareGate \/ PrepareGraph \/ ChangeGraph
  BY <1>1, <1>5, PrepareGateKeeps, PrepareGraphKeeps, ChangeGraphKeeps
<1> QED BY <1>1, <1>2, <1>3, <1>4, <1>5, RequestsKeepRestart DEF RtcStep

-----------------------------------------------------------------------------
\* A failure of RTGM is remembered.
LEMMA FailureStays ==
  ASSUME TypeInv, Next, rtgm_failed
  PROVE  rtgm_failed'
<1> USE DEF qact
<1>1. ASSUME NEW c \in Client, Call(c) \/ Open(c) \/ ClientTimesOut(c) \/ ClientStep(c)
      PROVE  rtgm_failed'
  <2>1. UNCHANGED qact  BY <1>1, ClientEffects
  <2> QED BY <2>1
<1>2. CASE Prepare \/ Change \/ Request \/ RtcTimesOut
  BY <1>2 DEF Prepare, Change, Request, RtcTimesOut
<1>3. CASE PrepareGate \/ RtcWakes \/ RtcClears \/ RtcTakesOpenClose
  BY <1>3 DEF PrepareGate, RtcWakes, RtcClears, RtcTakesOpenClose
<1>4. CASE PrepareStop \/ PrepareGraph \/ ChangeGraph
  BY <1>4 DEF PrepareStop, PrepareGraph, ChangeGraph, RtgmFails
<1>5. CASE Restart \/ Leave  BY <1>5 DEF Restart, Leave
<1>6. CASE UcInfo \/ RequestLookUp \/ RequestDone
  BY <1>6 DEF UcInfo, RequestLookUp, RequestDone
<1> QED BY <1>1, <1>2, <1>3, <1>4, <1>5, <1>6 DEF Next, RtcStep

LEMMA TypeNext ==
  ASSUME TypeInv, [Next]_vars
  PROVE  TypeInv'
<1>1. CASE UNCHANGED vars
  BY <1>1 DEF vars, gate, locks, restart, graphs, qact, TypeInv, TypeOK, RequestOK, CountOK
<1>2. CASE Next  BY <1>2, ClientKeepsTypes, RtcKeepsTypes DEF Next
<1> QED BY <1>1, <1>2

\* The types of gsl_main.c's state, whatever number of clients; num_rtgm_in_prog, which is
\* unsigned, is never counted below zero by a CHANGE, since QACT sends one for each PREPARE
\* that has gone well.
THEOREM TypeCorrect == Spec => []TypeOK
<1>1. TypeInv => TypeOK  BY DEF TypeInv
<1> QED BY <1>1, TypeInit, TypeNext, PTL DEF Spec

LEMMA RestartInit == Init => RestartInv
<1> SUFFICES ASSUME Init PROVE RestartInv
  OBVIOUS
<1>1. rtc.pc = "idle" /\ \A c \in Client : client[c].pc = "idle"
  BY DEF Init, IdleRtc, IdleClient
<1>2. Asked = <<>> /\ Stopped = {} /\ DOMAIN Asked = {}
  BY <1>1 DEF Init, Asked, Stopped
<1>3. CountExact  BY <1>1 DEF Init, CountExact, Counting
<1>4. StoppedInOrder /\ StoppedOnly
  BY <1>2 DEF Init, StoppedInOrder, InOrder, StoppedOnly
<1>5. AskedAreStopped /\ ChangedIsRestarted /\ OpeningIsClosed
  BY <1>1, <1>2 DEF AskedAreStopped, ChangedIsRestarted, OpeningIsClosed
<1> QED BY <1>3, <1>4, <1>5 DEF RestartInv

\* Unless a request of RTGM fails, the restart list and what QACT still has to change
\* agree: each graph that PREPARE has stopped is started again by its CHANGE, which comes
\* when the graph is next on the list.  When RTGM is over every graph is as its client
\* left it (gsl_rtc_callback, GSL_RTC_CHANGE_GRAPH), with one client thread, and
\* whatever number of graphs and requests.
THEOREM GraphsComeBack ==
  ASSUME OneClient
  PROVE  Spec => []RestartedAfterRtgm
<1> DEFINE Inv == TypeInv /\ GateInv /\ (~ rtgm_failed => RestartInv)
<1>1. Init => Inv
  BY TypeInit, GateInit, RestartInit
<1>2. Inv /\ [Next]_vars => Inv'
  <2> SUFFICES ASSUME Inv, [Next]_vars PROVE Inv'
    OBVIOUS
  <2>1. TypeInv'  BY TypeNext
  <2>2. CASE UNCHANGED vars
    <3>1. GateInv'  BY <2>2, GateUnchanged DEF vars, gate
    <3>2. /\ UNCHANGED <<num_rtgm_in_prog, restart_handle_list, restart_list_position, rtc>>
          /\ UNCHANGED <<graph_state, wanted, client, prepared, changing, rtgm_failed>>
      BY <2>2 DEF vars, gate, restart, graphs, qact
    <3>3. Asked' = Asked /\ Stopped' = Stopped  BY <3>2 DEF Asked, Stopped
    <3>4. RestartInv => RestartInv'
      BY <3>2, <3>3 DEF RestartInv, CountExact, StoppedInOrder, StoppedOnly, AskedAreStopped,
                        ChangedIsRestarted, OpeningIsClosed
    <3> QED BY <2>1, <3>1, <3>2, <3>4
  <2>3. CASE Next
    <3>1. GateInv'  BY <2>3, ClientKeepsGate, RtcKeepsGate DEF Next
    <3>2. ASSUME ~ rtgm_failed' PROVE RestartInv'
      <4>1. RestartInv  BY <2>3, <3>2, FailureStays
      <4>2. ASSUME NEW c \in Client, Call(c) \/ Open(c) \/ ClientTimesOut(c) \/ ClientStep(c)
            PROVE  RestartInv'
        BY <4>1, <4>2, ClientKeepsRestart
      <4>3. CASE Prepare \/ Change \/ Request \/ RtcTimesOut \/ RtcStep
        BY <2>1, <3>2, <4>1, <4>3, RtcKeepsRestart
      <4> QED BY <2>3, <4>2, <4>3 DEF Next
    <3> QED BY <2>1, <3>1, <3>2
  <2> QED BY <2>2, <2>3
<1>3. Inv => RestartedAfterRtgm
  <2> SUFFICES ASSUME Inv, num_rtgm_in_prog = 0, ~ rtgm_failed PROVE graph_state = wanted
    BY DEF RestartedAfterRtgm
  <2>1. \A g \in Graph : graph_state[g] = wanted[g]  BY NothingAsked
  <2> QED BY <2>1, Typed DEF TypeInv
<1> QED BY <1>1, <1>2, <1>3, PTL DEF Spec
=============================================================================
