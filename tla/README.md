# AudioReach Graph Services: specifications, model checks and proofs

AudioReach Graph Services (AR-GS) is the host side of an audio framework. A client
selects an audio use case by a graph key vector (GKV); GSL, the Graph Service
Layer, asks ACDB, the calibration database, which subgraphs that use case is made
of, and commands SPF, the framework on the DSP, to open, calibrate, start, stop and
close them. Commands and answers are GPR packets; locks, signals, threads and
shared memory come from OSAL.

This directory holds TLA+ modules for the parts of AR-GS whose correctness depends
on interleavings, failures and long call sequences, the TLC configurations that
check them, and TLAPS proofs of the invariants that matter most. Paths below are
relative to `src/`; line numbers are those of the modelled commit. `PROJECT.json`
lists components, runs, the source lines every definition stands for, the hazards
and the proved theorems.

## 1. Inventory

| Component | State | Operations | Hard part | What makes it correct |
|---|---|---|---|---|
| Graph handles and subgraph pool (`gsl/src/gsl_graph.c`, `gsl_subgraph_pool.c`, `gsl_subgraph.c`) | per handle: state, list of GKV nodes, per node its subgraphs with a start and a stop mask; pool: three reference counts per subgraph; two global locks | open, add, start, suspend, stop (all, or by properties), remove, close | handles share subgraphs; SPF may refuse any command in the middle of a call | a handle never closes or halts what another one uses; counts equal what the nodes hold; locks are given back |
| Command and answer signals (`gsl/src/gsl_common.c`, callback in `gsl_graph.c`) | per signal: flags, status, answer packet, expected token | send, wait, answer arrives, restart or close event | answers race timeouts and events; packets are owned by one party at a time | success means SPF said so; every packet freed once; nobody sleeps for ever |
| OSAL signal (`ar_osal/src/linux/ar_osal_signal.c`) | flag, mutex, condition variable | wait, timed wait, set, clear | lost wake-ups | a set releases whoever waits |
| GSL main, the gate (`gsl/src/gsl_main.c`) | count of run-time graph modifications (RTGM), "client call in progress", list of graphs to restart | every client call's entry and exit, the tuning tool's callback | client threads and the tuning tool exclude each other by two counters and one signal | they do; graphs run again after RTGM; blocked calls go on |
| Subsystem restart (`gsl_main.c`, `gsl_spf_ss_state.c`) | processors up, `spf_restart`, list of graphs, `rsp_signal` | restart callback, state of a graph, recovery in `gsl_open` | a crash in the middle of any call, a second one in the middle of the recovery | graphs that lost something are shut, clients are told, waiters wake up, the recovery is not forgotten |
| Graph changes (`gsl_graph.c`) | as graph handles | change graph, close with properties, set config and calibration, RTGM prepare and change | two open lists alive at once, undone half-way | counts as above |
| Persistent calibration pool (`gsl_global_persist_cal.c`) | reference-counted calibrations in shared memory | get, remove | the count of users | memory freed by its last user |
| Data path (`gsl_datapath.c`) | per direction: buffers with a "used" bit, an index, a metadata ring | read, write, buffer-done callbacks, start, stop, flush, close, configure | callbacks against the reader or writer, stop against buffers under way | a buffer belongs to one side; metadata go with their buffer; stop terminates |
| External memory cache (`gsl_datapath.c`) | mapped client allocations with a count of buffers in flight and an age | look-up, map, evict, count down, unmap all | data paths share it, GPR's thread counts down while another thread evicts | memory is mapped while a buffer in it is with the DSP |
| Shared memory pages (`gsl_shmem_mgr.c`) | bins, pages, a table of blocks per page | allocate, free, map memory from outside | split and merge through indices in any order of frees | allocations are disjoint; frames are not lost; idle pages go |
| Shared memory mapping (`gsl_shmem_mgr.c`) | satellites, loaned memory, late answers | map and unmap on SPF | a map answer after its timeout | every mapped region is unmapped |
| Dynamic modules, hardware resources, DLS client, MDF utilities | little | one command at a time | timeouts | as the signal |
| GPR core and Linux link (`gpr/core`, `gpr/datalinks/gpr_lx`) | packet pool, registered ports, receive buffers | send, allocate, free, register, deregister, deliver, stop the link | callbacks against deregistration; empty pools | every buffer has one owner and comes back; answers reach their sender |
| ACDB heap (`acdb/src/acdb_heap.c`) | balanced tree of saved calibrations | insert, look up, list, clear | rotations that keep five links in step | what was saved is found |
| ACDB databases (`acdb/src/acdb_file_mgr.c`, `acdb_delta_file_mgr.c`, `acdb_context_mgr.c`) | parallel tables of open files, delta files and heaps | add, remove, reset | the tables must stay in step | one entry in each per open database |
| ACDB queries (`acdb_command.c`, `acdb_data_proc.c`, ...) | none beyond the file | look-ups | binary formats | results as stored |
| ATS (`acdb/ats`) | registered services | dispatch of tuning commands | formats | each command reaches its service |
| OSAL wrappers, `ar_util` | none | threads, files, heap, lists, logs | none of its own | as the libraries below |

How they interact:

- A client thread enters through `gsl_main.c`, passes the gate, and calls into
  `gsl_graph.c` under `start_stop_lock` or `open_close_lock`. These are global: one
  start or stop, and one open or close, at a time for all handles, each held over
  the waits for SPF. ("Handle" in `gsl_graph.h:57-62`: calls on one handle are
  serialised by the client.)
- `gsl_graph.c` sends a GPR packet and sleeps in `gsl_common.c` on one of the
  graph's signals. GPR's receiver thread calls `gsl_gpr_callback`, which sets it.
- Data buffers go to SPF as GPR packets without a wait for an answer; they come back on
  the receiver thread, which marks them in the data path or the memory cache and wakes
  the blocked reader or writer.
- Subsystem up and down notifications arrive on a thread of their own and call
  `gsl_main_ssr_callback`, which changes the state of every graph and wakes every
  sleeper.
- The tuning tool (QACT) calls `gsl_rtc_callback` on ATS's thread, which stops,
  changes and restarts graphs behind the client's back, and saves calibrations in the
  ACDB heap.

## 2. Modules

```
 SharedSubgraphs  abstract: users of shared subgraphs
        ^  refinement (EveryHandleOnItsOwn)
 GslGraph         calls on graph handles, subgraph pool, SPF   MCGslGraph, GslGraph_proofs
        ^  EXTENDS
 GslGraphChange   the same, with changes in place              MCGslGraphChange, GslGraph_proofs
 GslMainGate      client calls against QACT's requests         MCGslMainGate, GslMainGate_proofs
 GslRestart       client calls against subsystem restarts      MCGslRestart, GslRestart_proofs
 GslSignal        one graph's command signals                  MCGslSignal, Signal_proofs
 OsalSignal       the signal under GslSignal                   MCOsalSignal, Signal_proofs
 GprLink          packets and buffers under GslSignal          GprLink_proofs

 GslDataPath      buffers and metadata of a graph              MCGslDataPath, GslDataPath_proofs
 MappedMemory     abstract: memory mapped while in use
        ^  refinement (KeepsMemoryMapped)
 GslExtMemCache   the cache of mapped client memory            MCGslExtMemCache, GslExtMemCache_proofs
 SharedHeap       abstract: disjoint extents
        ^  refinement (KeepsExtentsApart)
 GslShmem         pages and blocks                             MCGslShmem, Heaps_proofs
 AcdbHeap         the tree of saved calibrations               Heaps_proofs
```

The modules are layers: each takes what the layer below promises as one atomic step
or one nondeterministic outcome. `GslGraph`'s "SPF answers, or the command fails" is
what `GslSignal` looks into; `GslSignal`'s atomic "set" and "the wait returns" are
what `OsalSignal` looks into, its packets what `GprLink` follows to the driver;
`GslMainGate` and `GslRestart` keep of `GslGraph` a handle's state.

### GslGraph

Variables carry the names of the code. `gkv_list` is the set of linked nodes (a pair
of handle and GKV, a handle selects a GKV once at a time); `sg_array`,
`sg_start_mask` and `sg_stop_mask` are the fields of `gsl_graph_gkv_node`, as sets of
subgraphs; the three counts are those of `gsl_subgraph`; `spf` is the DSP. `call`
is the program counter of the client thread inside a handle: the operation, the
nodes still to be treated and the SPF command it waits for. One action takes the
lock, one treats a node up to its command, one takes the answer, one the failure, one
gives the lock back. Between these, calls on other handles interleave.

| Actions | Code |
|---|---|
| `Start`, `StartNode`, `StartOk`, `StartFailed`, `StartDone` | `gsl_graph_start`, `gsl_graph_start_single_gkv` |
| `Suspend` ... `SuspendDone` | `gsl_graph_suspend`, `..._single_gkv` |
| `Stop`, `StopWithProperties`, `StopNode`, `StopOk`, `StopFailed`, `StopDone` | `gsl_graph_stop`, `gsl_graph_stop_with_properties`, `gsl_graph_stop_single_gkv` |
| `OpenEmpty`, `OpenGkv`, `OpenNode`, `OpenOk`, `CalOk`, `CalFailed`, `OpenFailed` | `gsl_open`, `gsl_graph_open`, `gsl_graph_add_new`, `gsl_graph_open_single_gkv`, `gsl_graph_set_sg_cal` |
| `Close`, `RemoveGraph`, `EnterClose`, `CloseNode`, `CloseAnswered`, `CloseDone` | `gsl_close`, `gsl_graph_close`, `gsl_graph_remove_old`, `gsl_graph_close_single_gkv` |
| `Pruned`, `PoolRemove`, `Bump`, `Drop` | `gsl_subgraph_pool.c` |

Abstractions: nodes of a list are treated in any order; which connections are new is
left open (a command may be about connections alone); a command that SPF refuses has
changed nothing there; the properties a client may pass to stop match a fixed set of
subgraphs. Left out: calibration data, preloaded objects, shared memory, the error
states a subsystem restart sets (they are in `GslSignal` and `GslRestart`). Change graph
and close with properties are in `GslGraphChange`.

`SharedSubgraphs` says what this must amount to: users hold, start, halt and close
subgraphs; nobody closes what another one holds, or halts what another one has
started. The refinement mapping takes nodes for users, `sg_array` of linked nodes
for what they hold and `sg_start_mask` for what they started.

### GslGraphChange

EXTENDS `GslGraph`; all its calls go on, and two more alter a graph in place.

| Actions | Code |
|---|---|
| `ChangeGraph`, `ChangeCloses`, `ChangeClosed`, `ChangeOpens`, `ChangeOpened`, `ChangeCalOk`, `ChangeCalFailed`, `ChangeFailed` | `gsl_graph_change`: references of the new node, each old node closed, what is new opened and calibrated |
| `ReplaceNode`, `KeepExisting` | `gsl_transfer_sg_masks` with the tail of closing an old node; the adjustment after a failed open |
| `CloseWithProperties`, `ClosesMatching`, `ClosedMatching`, `RemoveMatching`, `MovedDown` | `gsl_graph_close_with_properties`, `gsl_graph_close_single_gkv` with properties, `gsl_graph_remove_sgs_w_props` |
| `StartsStrayed`, `RemovesAfterStop` | `gsl_graph_start` and `gsl_graph_remove_old` on a node whose masks have bits past its array |

In the code masks belong to positions of `sg_array`. Without these two calls a
position always means the same subgraph, so `GslGraph` has sets; here `Order` (ACDB's
order of subgraphs) gives each subgraph its position in a set (`Pos`), and only
`KeepExisting` and `MovedDown` look at them. `MovedDown` says in one step where the loop of
`gsl_graph_remove_sgs_w_props` leaves the bits (a subgraph has the bit of any position it
passed through); the loop itself, one removal at a time, is in `MCGslGraphChange`, where TLC
compares the two on every mask and every removal from five subgraphs (`MovesAsTheLoopDoes`). `stray` counts start bits past the end of the array, which
`gsl_graph_start` counts and `gsl_graph_remove_old` sees. The history `astray` notes
subgraphs whose bits a call lost, doubled or invented while the pool's counts stayed; it
forgets them once the pool object is freed and SPF does not run them. The three
properties about started subgraphs exempt them; `NothingGoesAstray` (section 4) is the
claim without exemption. The bits of an old node move at the step that frees it; in the code
before its CLOSE is sent, but in between nobody else can see either node's masks,
because calls on a handle are serialised and the new node is not linked. A change names
a GKV the handle has not selected yet. `EveryHandleOnItsOwn` is not claimed over changes:
a subgraph whose bits went astray is stopped or kept running against its users' wishes.

### GslSignal

A graph with its signals, one sender per signal (the client sends the commands of a
group one after the other), GPR's callback, the restart callback and `gsl_close`.
`sig` is `struct gsl_signal`; a command's token is its number. Setting a signal and
taking its contents are atomic (both under `graph_lock`); noting and forgetting the
expected token are steps outside the lock, as in the code. `packet` follows the
memory of each answer through its owners. A subsystem goes down at most once and may
lose any of the commands it has not answered; wake-ups are then set signal by
signal while senders and answers go on. A handler may send several commands and
stops at the first failure; `gsl_graph_close` sends DEREGISTER_CFG and CLOSE whatever
the state of the graph allows. The history variable `late` notes that a timeout or an
event has ended a wait without its answer; two properties are claims about behaviours
where that has not happened.

Abstractions: every command has a token of its own (in the code a static 20-bit
counter shared by all threads); no spurious wake-ups (they are in `OsalSignal`).

### OsalSignal

Every access to the flag, mutex and condition variable is a step. The functions
unlock the mutex and, on the successful path, fall through to a label that unlocks it
again; the mutex is a default one, and on the platform's pthread library unlocking a
default mutex opens it whoever holds it. `Guarded` says whether the users set and
clear the signal under a lock of their own, as they do through `struct gsl_signal`
when it was created with one.

### GslMainGate

`num_rtgm_in_prog`, `client_op_in_prog` and the signal of `gsl_rtgm_state_info`; the
client's calls in their three classes (refused, dropped or blocked while RTGM is in
progress); `gsl_rtc_callback` request by request, `open_close_lock` and
`graph_hdl_lock` included. Critical sections of `graph_hdl_lock` are single steps
except the one of GET_UC_INFO, which waits inside for `open_close_lock`. A write past
the end of the restart list is modelled as if there were room, so that
`RestartListFits` sees it. QACT sends its PREPAREs and then the CHANGEs in the same
order, and gives up on a graph whose request failed. The history variables `wanted`
and `rtgm_failed` are read by no guard, only by properties.
Left out: the connection-state request, `gsl_init` and `gsl_deinit`, the restart; and that the way out
of a failed PREPARE unlocks `open_close_lock` twice (`gsl_main.c:352`, `:354`): `RtgmFails`
gives it back once, since what a second unlock of a mutex one does not hold does is left open by POSIX.

### GslRestart

Two threads besides the clients: the one that reports processors (`Crash` and `Revive`
happen to the processors, `StateChanges`, `DownLocks`, `DownScans`, `DownNotifies`,
`UpNotifies` are `servreg_callback` and `gsl_main_ssr_callback`) and GPR's receiver,
which runs `gsl_main_gpr_callback` for answers to GSL itself.

| Actions | Code |
|---|---|
| `GetsHandle`, `ReadsRestart`, `MainAnswer`, `GprGoesOn`, `SatellitesTimeOut`, `Loads` | `gsl_open`: handle, restart branch with `gsl_do_load_bootup_dyn_modules` and the satellites |
| `InitsGraph`, `Attempts`, `Checks`, `SendsOpen`, `SetsCal`, `ReturnsOpen` | the graph's initialisation, the retry loop, `gsl_graph_open` |
| `ClosesAgain`, `FailsOpen`, `EndsAttempt`, `Deinits`, `ReleasesHandle`, `DropsGraph`, `Frees` | the ways out of `gsl_open` |
| `Starts`, `Closes` and their parts | `gsl_start`, `gsl_stop`, `gsl_close`, each down to the wait for SPF |
| `Updates`, `WritesState` | `gsl_graph_update_state`, its read and its write |

`opened_on`, `told`, `revived`, `configured`, `overlapped` and `bad_signal` are
histories, read by properties only: the incarnations of the processors SPF has opened
a graph on, the graphs whose clients were told, those whose error state a call has
overwritten, whether this incarnation of the master was configured, whether it came up
while an earlier one was being configured, and whether a destroyed signal was
set. Overwritten graphs are exempt from the properties that speak of error states;
`ErrorIsASink` (section 4) is the claim without exemption.
Left out: dynamic PDs, `gsl_init`, a failing allocation of the handle list.

### GslDataPath

| Actions | Code |
|---|---|
| `Begin`, `Find`, `FindShmem`, `WaitReturns`, `WaitTimesOut`, `Copy`, `Enqueue`, `SendOk`, `SendFails`, `End` | `gsl_graph_read` and `gsl_graph_write` with `gsl_dp_read`, `gsl_dp_write` and their send functions |
| `Receive`, `MarkDone`, `SignalDone`, `FreeEntry` | `gsl_handle_read_buff_done`, `gsl_handle_write_buff_done`, `gsl_handle_media_format_buff_done` |
| `Start`, `Configure`, `Command`, `Close`, `Deinit` | the controlling thread: start, configure, stop, flush, close |
| `Abort`, `AbortCalls`, `CallEnded`, `AbortTimesOut`, `Aborted` | stop and flush wake readers and writers and wait for them |
| `Test`, `BuffsWake`, `BuffsTimeOut`, `Clear` | `gsl_wait_for_all_buffs_to_be_avail`, `gsl_clear_internal_buf` |
| `QueueTake`, `QueueEntry`, `QueueSend`, `QueueLoses`, `QueueEnds` | `gsl_dp_queue_read_buffers_to_spf`, turn by turn, at the end of start and of flush |
| `Ssr` | the event on `dp_signal` |

SPF owns what it has received and returns it in order or in any order (fault `REORDER`), always
unless the subsystem went down. The history `gave_up` notes what has gone wrong so far; each
property names the faults it is not claimed under.

**Reads and writes while the buffers are queued.** `gsl_graph_read` and `gsl_graph_write` refuse a call
only while `stop_in_prog` or `flush_in_prog` is set; start sets neither, and flush clears its flag
(`gsl_graph.c:4509-4511`) before it queues the read buffers (`:4514`). So `Begin` is free to come between the turns of
the loop, and every turn is three steps: the buffer is taken, its metadata get an entry, it is
sent. A read from the heap then, or before the first start, gets a buffer that SPF has not filled, and takes its
turn in the metadata ring out of order. It is a fault of its own, `EARLY` (so is a
flush of a graph that has not been started, whose buffers are queued again by start): the properties about buffers
hold in spite of it, `MetadataOfItsBuffer` is claimed without it, and
`MetadataOfItsBufferEarly` (section 4) shows why. Writes, and calls in the shared memory mode, are free at all times and
concern no exception: the loop does not touch their rings.

**Media formats.** A write may carry a media format instead of data (`Format`). SPF answers it through
`gsl_handle_media_format_buff_done`, which marks the buffer and sets the signal in every mode and leaves the metadata
ring alone. In the heap modes no entry was taken for it. In the shared memory mode `gsl_dp_write` takes
one before it looks at what is written, and nobody gives it back
(`WrittenEntriesComeBack`, section 4).

**Left out.** Push-pull mode, end of stream, data counters, the format of the packets. In the shared memory
mode nobody waits for `dp_signal`, so that it is set is left out there. `Close` starts from a graph
that is not STARTED although `gsl_graph_close` does not test that: its only caller on a started graph,
`gsl_close`, calls `gsl_graph_stop` first (`gsl_main.c:1368`). What stop clears is said in closed form: the
buffers from `curr_buff_index` up to the first one in use (`AvailLen`).

### GslExtMemCache

`Configure`, `Leave`, `Close`, `Reconfigure` enter and leave the mode; `Begin`, `Lock`,
`Sweep`, `Hit`, `TakeUnused`, `Evict`, `Full`, `MapOk`, `MapFails`, `UnmapEvicted`, `Touch`,
`Aged` are the look-up of one call with its unlocked stretches; `SendOk`, `SendFails`,
`Receive` and `Decrement` follow the buffer and GPR's thread. `MappedMemory` is its
promise: memory is mapped and unmapped, used only while mapped, and never unmapped
while in use. The refinement mapping reads the mapped handles and the buffers in
flight off the entries. A client does not close a data path while GPR's handler of it is half-way (the
guard `done.dp # d` of `Close`): nothing in the code keeps it from doing so.

### GslShmem

`ShmemInit`, `ShmemDeinit`, `AllocInPage`, `AllocNewPage`, `MapExtern`, `Free` and
`UnmapExtern` are whole calls, since each runs under `ctxt->mutex`. `Split`,
`DoAllocBlock`, `DoFreeBlock`, `MergeBack` and `MergeOn` work on the table as the code
does, by index; deleted entries keep their stale links. Frames are the 4 KiB units. `SharedHeap` is a set of disjoint extents that
come and go; the refinement mapping takes the used blocks of all pages. Left out:
mapping to SPF, satellites, loaned memory (the second row of section 1).

### GprLink

| Thread | Actions |
|---|---|
| opening and closing the link (`ipc_dl_init`, `ipc_dl_deinit`) | `StartsThread`, `Hooks`, `Publishes`, `Stops`, `Joins` |
| receiver (`gpr_lx.c`, `gpr_drv_island.c`, GSL's callback) | `Polls`, `WokenByPipe`, `Reads`, `ReadFails`, `Discards`, `LooksUp`, `Unwanted`, `Answers`, `Notifies`, `Fails`, `CallsNobody`, `PutsBack` |
| a client (`gsl_send_spf_cmd` over `__gpr_cmd_*`) | `Registers`, `Allocates`, `Notes`, `Writes`, `WriteFails`, `SendDone`, `Scrubs`, `Wakes`, `TimesOut`, `Forgets`, `FreesAnswer`, `Deregisters`, `Destroys` |

`Scrubs` is the write to the packet after it was given away. Left out: packets between
ports of one processor, the dynamic pool (empty on this platform), several links, and the receiver thread's
exit for good when `poll` itself fails (`gpr_lx.c:239-240`), after which no message is read.

### AcdbHeap

Sequential, but for a reason of its own stepped finely: the loops follow some of the
five links (root, two children, parent, depth) and rely on all of them, while rotations turn
them. A turn of a loop is an action, and so is a rotation; `op` is the program counter with
the cursors of the loops.

| Actions | Code |
|---|---|
| `GetBin`, `Search` | `acdb_heap_get_bin`, for a client or at the start of `acdb_heap_add_delta_data_map` |
| `Create`, `Descend`, `Hang` | the rest of `acdb_heap_add_delta_data_map`, and `acdb_heap_insert` down to where the node hangs |
| `UpdateDepth`, `DepthsUpdated` | `acdb_tree_update_depth` and its callers: once after the node is hung, twice after a rotation (`up`, then `again`) |
| `StepUp`, `Rotate`, `Balanced` | the second loop of `acdb_heap_insert` and `acdb_tree_rotate` |
| `Walk`, `Push`, `Visit`, `Walked`, `Return` | `acdb_heap_get_map_list` and `acdb_heap_clear`, the same walk; a clear empties the tree when it returns |

`Single` is `acdb_tree_rotate_right` and `..._left`, `Double` is `Swapped` followed by a
`Single`: the mirror images the code writes out are one operator with a side. A key vector
is a natural: the code compares fixed-width hexadecimal strings, which order like the
numbers. A clear frees the nodes as it visits them and reads nothing it has freed, so that
emptying the tree at the end is the same. The histories: `saved` (what the tree must hold) and
`moved` (a double rotation has hung a subtree under another parent). A key that a
rotation has cut off is not saved a second time, which would be a second node of that key.

## 3. Runs

`tlc -workers 2 -config <run>.cfg <module>`. Deadlock is checked where a client can always call again
(GslGraph, GslMainGate, GslShmem, AcdbHeap), so that a state without a step would be a
lock nobody gives back. The others make a bounded number of commands, uses or
crashes, stop a link, or wait for a processor that need not answer: they say
CHECK_DEADLOCK FALSE and ask for progress by liveness properties.

| Run | Distinct states | Shows |
|---|---|---|
| `GslGraph_faults` | 547,731 | Any command but SUSPEND may fail: the calls implement `SharedSubgraphs`, and every call gives its locks back. |
| `GslGraphChange_faults` | 1,870,068 | All calls with changes and partial closes, OPEN and calibration may fail: open counts are exact, held subgraphs stay open, started ones keep running across changes, start counts are exact and nothing runs that nobody has started, but for what went astray. |
| `GslSignal_commands` | 924,456 | Any wait may time out, a restart or close may come at any time: until one of them has ended a wait early, success is SPF's own word and no packet is freed twice; always, a restart during a wait is not taken for success, no packet leaks, every command returns. |
| `OsalSignal_guarded` | 2,473 | With a user lock no set is missed, in spite of the double unlock. |
| `GslMainGate_rtgm` | 372,594 | Every request of RTGM may fail: client and RTGM exclude each other, graphs are restored, blocked calls go on. |
| `GslDataPath_calls` | 707,685 | Eight configurations (mode, heap, metadata, media formats, faults): GSL never touches a buffer that is with SPF; buffers come back, metadata are those of their buffer; stop, flush and close end without their timeouts. |
| `GslExtMemCache_shared` | 444,000 | One mapping per handle, done buffers are reported as themselves, nothing stays mapped, memory is mapped while in use. |
| `GslShmem_pages` | 76,523 | Pages stay tiled, owners match blocks, idle pages go, allocations never overlap. |
| `GslRestart_clients` | 866,000 | Two graphs, one crash: clients are told of exactly those of their graphs that are shut; no destroyed signal is set while the restart walks the list. |
| `GslRestart_twice` | 85,000 | One graph, two crashes: a graph that lost a processor is shut, an interrupted recovery is remembered, who waits for a dead master is woken without a timeout. |
| `GprLink_buffers` | 253,045 | Packets and buffers have one owner, an answer is not dropped while its sender waits, messages are read, the link stops. |
| `AcdbHeap_saves` | 480,958 | Any order of saves, look-ups, lists and clears over nine calibrations: until a double rotation has moved a subtree, what was saved is found and listed in order, and the tree is balanced. |

The type invariants, and `AcdbHeap!RotationsFit`, which TLC checks on the instance of `AcdbHeap_saves`,
are not among the runs' properties: all of them are proved.

### Bounds

- GslGraph and GslGraphChange: two handles, `g1` with a path (stream and device subgraph)
  and the bare device, `g2` with the bare device. Everything that sharing decides is
  decided by "only me", "me and one other" or "nobody", and a device is shared by up to three
  nodes here, two of one handle; `g1` can change from the path to the device, back, and from both
  to one. Two subgraphs are enough to have one of a node pruned and the other not, and to
  move a position by one. `MaxRefs = 1` keeps leaked start and stop counts finite: nobody
  opens a subgraph whose counts have leaked beyond it. A third handle adds a third start
  bit, which the proofs cover for the open counts. With CLOSE among the faults of
  `GslGraphChange_faults` (4,700,809 states, longer than a run should take) its properties
  hold as well.
- GslSignal: two signals, so that wake-ups reach each separately, with three command codes and
  two tokens each: a late answer and the command after it meet.
- OsalSignal: one waiter; two setters, because the double unlock of one has to hit
  between the waiter's steps while the other sets.
- GslMainGate: two graphs and two PREPAREs before the CHANGEs (the order of the restart
  list shows with two); `MaxInProg = 3` and `MaxListed = 4` stop new PREPAREs when
  failed ones have left their count and their list entries behind.
- GslDataPath: two buffers per direction (the ring wraps, "the next one" and "another
  one" differ); `MaxChunks = 2` (a client buffer that needs two); three retries as many
  as it takes to show the loop go round; one fault of the scenario's kinds. The eight scenarios pair each
  mode with the faults that meet it, one configured direction at a time but for the
  last, because the directions share only the state of the graph. With two buffers a metadata ring has four
  entries, of which three are usable: enough for the two buffers and for a leak to fill it up.
- GslExtMemCache: three handles over two entries force evictions; two data paths share an
  entry; four uses with two buffers in flight let a hit, an eviction and a return meet.
- GslShmem: three pages of two frames in the regular bin, a preallocated page of up to
  five frames, where a block is split and merged on both sides.
- GslRestart: a master and a satellite; with one graph two crashes (the second meets
  the recovery), with two graphs one crash (the walk meets the other's call). `Tries = 2`
  stands for the retries of opening.
- GprLink: two clients, one packet and two buffers, so that either pool runs dry.
- AcdbHeap: all sequences of different keys up to nine, the first length at which a double rotation
  moves a subtree whose stale parent then matters a second time. With ten, TLC stops at a
  deadlock, which is the endless insertion of section 4.

### Fairness

- `GslGraph!FairSpec`: weak fairness of a call's next step. SPF answers or the wait
  times out (`gsl_send_spf_cmd`), and the rest is straight-line code. No fairness for a
  client to make a call, nor for a call to get a lock it competes for.
- `GslSignal!FairSpec`: a woken sender runs on, GPR's and the restart's threads
  finish what they have begun, SPF answers what it has not lost. Not for timeouts:
  `EveryCommandReturns` holds without them.
- `OsalSignal!OsalFairSpec` and `GslMainGate!FairSpec`: strong fairness of threads' steps,
  because a thread that waits for a mutex is enabled only whenever the mutex is free;
  pthread mutexes hand it on. Calls, timeouts and spurious wake-ups get none.
  `GslMainGate` also assumes that QACT sends the CHANGEs of what it prepared.
- `GslDataPath!FairSpec`: weak fairness of the steps of a call, of the callback and of
  the control thread, strong fairness of `Receive` (SPF returns what it was given,
  while it is up; the receiver thread is one for both directions). A timeout of the control thread's waits
  is a fault (`WAIT`), and `ControlEnds` is claimed without it.
- `GslRestart!FairSpec`: weak fairness of the restart thread, of GPR's thread once it
  can go on, and of each call. None for SPF's answers, none for timeouts, none for crashes: that waiters are told
  is the work of the restart thread alone.
- `GprLink!FairSpec`: weak fairness of the receiver thread, of the rest of opening and closing
  the link, and of each client's steps. None for SPF to answer.

## 4. What the runs found

Claims that a reader of the code might make and that TLC refutes. They are kept as
definitions with the comment that says so, or are runs' properties under a changed
constant; nothing here is a run of its own.

| Claim | Refuted with | What happens |
|---|---|---|
| `GslGraph!NothingRunsUnowned` | `GslGraph_faults`, which has `START` in `Faults` | `gsl_graph.c:4183`: the START of a second node fails, the first runs, the handle's state is still OPENED; `gsl_close` skips the stop and the subgraph runs on for another holder, unowned. |
| `GslGraph!StartRefsExact` | `GslGraph_faults` | the same close, or one after a STOP that failed: the node goes, its start counts stay. `StartRefsCover`, which is what a stop relies on, holds. |
| `GslGraph!StartedKeepsRunning` | `GslGraph_faults`, `SUSPEND` added to `Faults` | `gsl_graph.c:3529`: a SUSPEND that fails after the STOP before it succeeded leaves masks and counts at started. |
| `GslGraphChange!NothingGoesAstray` | `GslGraphChange_faults` | `gsl_graph.c:4920-4933`: closing the old nodes leaves the start counts of subgraphs that another node holds and the new graph does not (or that two old nodes had started); `:4987-5003`: masks are not indexed again after a failed open; `:2484-2487`: bits are only ORed, so a successor inherits the bit of a removed subgraph. |
| `GslSignal!SuccessIsAlwaysReal` | `GslSignal_commands` | `gsl_common.c:84`: the expected token is forgotten after the wait, outside the lock; an answer in between stays in the signal and is the next command's success. |
| `GslSignal!NothingEverFreedTwice` | `GslSignal_commands` | `gsl_common.c:101`: the pending packet is freed before the token of the new one is looked at, and its pointer kept. |
| `OsalSignal!NoSleeperOverlooked` | `Guarded = FALSE` | `ar_osal_signal.c:230`: the second unlock of a set opens the mutex between a waiter's test and its sleep; the next set is missed. |
| `GslMainGate!RestartListFits` | `Faults = {"CHANGE"}` | `gsl_main.c:344`: a failed CHANGE leaves the restart list half used; the next PREPARE of a restarted graph appends past its end. |
| `GslMainGate!RtcUsesLiveGraphs` | `GslMainGate_rtgm` | `gsl_main.c:1376`: `gsl_close` frees the graph after giving `open_close_lock` back; a calibration request found it under that lock. |
| `GslDataPath!HandlerUsesLiveDataPath` | `GslDataPath_calls` | `gsl_datapath.c:559-571`: the callback marks the buffer and then signals; between the two, close may free the data path. |
| `GslDataPath!MetadataOfItsBufferEarly` | `EARLY` added to the faults of a capture with metadata | `gsl_graph.c:4509-4514`: a read that comes while flush queues the buffers (or before start) takes a buffer SPF has not filled and the next entry of the ring, between the entries the loop takes: from then on SPF's status is stored with another buffer's metadata. |
| `GslDataPath!WrittenEntriesComeBack` | `GslDataPath_calls` | `gsl_datapath.c:2272-2286`: the entry that `gsl_dp_write` takes for a media format (`:2084-2090`) is never given back; when `md_buff_list_size - 1` have gone, writes end with AR_ENORESOURCE until stop or flush clears the ring. |
| `GslRestart!ErrorIsASink` | `GslRestart_clients` | `gsl_graph.c:1451`: `gsl_graph_update_state` tests and writes without the lock of the restart; a call's success overwrites GRAPH_ERROR. |
| `AcdbHeap!SavedIsAlwaysFound` | `AcdbHeap_saves` | `acdb_heap.c:421-424, 436-439`: a double rotation leaves the parent of a moved subtree stale, first with the saves 1, 2, 3, 5, 6, 4; with 1, 2, 3, 7, 8, 4, 5, 6 saved nodes are lost. With ten keys an insertion may not end: the loop of `:695-718` reaches an unbalanced node with a node below it that has no parent, which `acdb_tree_rotate` leaves alone, again and again (`Rotate` is not enabled, TLC reports the deadlock). |

Met while modelling and part of the models' behaviour, not excluded by their properties:

- GslGraph: closing a node keeps its stop counts (`gsl_graph.c:2800`), so a later suspend
  of another holder stops instead. `gsl_graph_change` does not update the processors a
  graph needs (only `:3325` does), so a restart of one only the new graph needs does not
  concern the handle. `gsl_graph_close` deregisters calibration with SPF
  even in GRAPH_ERROR (`:2701`) and waits its timeout out.
- GslSignal: an answer that comes just after an event was taken can be taken for the next command's.
- GslMainGate: `client_op_in_prog` is one flag for all client threads (`gsl_main.c:89`):
  the first to leave clears it for the others. The gate is modelled with one client
  thread; with two, `RtgmExcludesClient` does not hold.
- OsalSignal: a spurious wake-up of `pthread_cond_timedwait` is returned as success (`:177`).
- GslDataPath: a send that fails leaves its buffer used (`gsl_datapath.c:1390`); stop leaves a
  close event on both signals, which aborts a later blocking call; a flush before the first start queues
  read buffers twice (`EARLY`); a read on a graph that is not started returns a buffer without data.
- GslExtMemCache: a data path that is configured again for the mode is counted twice (`:869`).
- GslRestart: a satellite's crash followed by the master's leaves a graph in
  ERROR_ALLOW_CLEANUP, which is not signalled and sends its CLOSE to a dead master
  (`gsl_main.c:551`); `rsp_signal` shares `open_close_lock` (`:959`), so in the recovery the
  answer of SPF meets a lock its waiter holds; a processor that comes up during the
  configuration of a `gsl_open` is not seen by it.
- GprLink: `gsl_send_spf_cmd` writes to a packet it gave away (`gsl_common.c:218`); the receiver
  thread runs before its callback and port are set; a packet of the wrong size costs its buffer.

## 5. Proofs

`tlapm` proves eight modules, every leaf of them:

| Module | Obligations | About |
|---|---|---|
| `GslGraph_proofs` | 5704 | GslGraph, GslGraphChange |
| `Signal_proofs` | 1279 | GslSignal, OsalSignal |
| `GslMainGate_proofs` | 1677 | GslMainGate |
| `GslRestart_proofs` | 1738 | GslRestart |
| `Heaps_proofs` | 6677 | GslShmem, AcdbHeap |
| `GslDataPath_proofs` | 4623 | GslDataPath |
| `GslExtMemCache_proofs` | 3033 | GslExtMemCache |
| `GprLink_proofs` | 2118 | GprLink |

| Theorem | States |
|---|---|
| `GslGraph_proofs!TypeCorrect` | `Spec => []TypeOK`; in particular no count is ever decremented below zero |
| `GslGraph_proofs!OpenRefsCorrect`, `HeldStaysOpen` | `[]OpenRefsExact`, `[]HeldIsOpen`, whatever SPF refuses |
| `GslGraph_proofs!StartRefsCovered` | `[]StartRefsCover`, whatever SPF refuses: a stop is never taken for the last while another node has started the subgraph |
| `GslGraph_proofs!StartedRuns` | `[]StartedKeepsRunning`, if SUSPEND does not fail |
| `GslGraph_proofs!SharingRefined` | `Spec => EveryHandleOnItsOwn`, the refinement of `SharedSubgraphs`, if SUSPEND does not fail |
| `GslGraph_proofs!ChangeTypeCorrect` | `ChangeSpec => []ChangeTypeOK`, over changes and partial closes, whatever fails |
| `GslGraph_proofs!OpenRefsCorrectOverChanges`, `HeldStaysOpenOverChanges` | `ChangeSpec => []OpenRefsExact` and `[]HeldIsOpen`, whatever fails |
| `GslGraph_proofs!StartRefsFollowed`, `ChangeRunsOn`, `NothingRunsUnownedOverChanges` | `ChangeSpec => []StartRefsFollow`, `[]ChangeKeepsRunning` and `[]NothingRunsUnownedAfterChange`, if START, SUSPEND and STOP do not fail |
| `Signal_proofs!TypeCorrect` | `[]TypeOK` |
| `Signal_proofs!RestartIsReported`, `PacketsAreNotLost` | `[]SsrIsReported`, `[]NoPacketLeak` |
| `Signal_proofs!SuccessIsTheAnswer`, `PacketsAreFreedOnce` | `[]SuccessIsReal`, `[]NothingFreedTwice` (both until a wait has ended without its answer) |
| `Signal_proofs!OsalTypeCorrect` | `[]OsalTypeOK`, guarded or not |
| `Signal_proofs!NoWakeupLost` | `[]NoSleeperOverlooked` for `Guarded` and one waiter |
| `GslMainGate_proofs!TypeCorrect` | `[]TypeOK` for any number of client threads |
| `GslMainGate_proofs!GateExcludes`, `GraphsComeBack` | `[]RtgmExcludesClient`, `[]RestartedAfterRtgm`, for one client thread |
| `GslRestart_proofs!TypeCorrect` | `[]TypeOK` |
| `GslRestart_proofs!WalkIsSafe`, `ClientsAreTold`, `RestartIsKept`, `LossIsKnown` | `[]SignalsOutliveTheWalk`, `[]ToldOfWhatIsShut`, `[]RestartIsRemembered`, `[]LostGraphsAreShut` |
| `Heaps_proofs!Typed`, `NoFrameLost`, `FreeIsMerged`, `UsedHaveOwners`, `AllocationsApart`, `IdlePagesAreFreed` | the types and `PagesTiled`, `Merged`, `OwnersMatchBlocks`, `NoOverlap`, `NoIdlePage` are invariants |
| `Heaps_proofs!ImplementsHeap` | `Spec => KeepsExtentsApart`, the refinement of `SharedHeap` |
| `Heaps_proofs!AcdbTypeCorrect` | `AcdbSpec => []AcdbTypeOK`, also after a rotation has broken the links |
| `Heaps_proofs!SavedIsReallyFound`, `LookupsStayShort` | `[]SavedIsFound`, `[]LookupsAreShort`, for any set of key vectors, until a subtree has been moved |
| `Heaps_proofs!RotationsGetTheirNodes` | `[]RotationsFit`, likewise: a rotation is given the three nodes it is written for, so that the loop of an insertion never repeats one that does nothing |
| `GslDataPath_proofs!TypeCorrect` | `[]TypeOK`, whatever goes wrong |
| `GslDataPath_proofs!BuffersHaveOneOwner`, `NoBufferIsLost` | `[]GslKeepsOff`, `[]BuffersComeBack`, with the exceptions the properties name |
| `GslDataPath_proofs!MetadataFollows` | `[]MetadataOfItsBuffer`, for rings of every size, while nothing goes wrong |
| `GslExtMemCache_proofs!MappedOnlyOnce`, `AnswersNameTheirBuffer`, `NothingIsLeft` | `[]MappedOnce`, `[]DoneReportsItsBuffer`, `[]NothingStaysMapped` |
| `GslExtMemCache_proofs!ImplementsMappedMemory` | `Spec => KeepsMemoryMapped`, the refinement of `MappedMemory`, whatever fails |
| `GprLink_proofs!TypeCorrect` | `[]TypeOK` |
| `GprLink_proofs!AnswersReachTheirSenders`, `BuffersHaveOneOwner` | `[]AnswersAreTaken`, `[]OneOwner` |

What they assume. All theorems hold for every value of the constants that the named
assumptions of the modules admit: the assumptions are types, distinct names, and finiteness where
something is counted (`FiniteNodes` of GslGraph, `OrderType` of GslGraphChange, which also says that positions differ, `GraphsType` of GslMainGate, `DataPathsType` of
GslExtMemCache) or sizes where there is arithmetic (`SizesAssumption` of GslShmem). Four hypotheses go beyond
that, and each is needed, because TLC refutes the property without it (section 4):

- SUSPEND does not fail (`StartedRuns`, `SharingRefined`): one that fails after the STOP before it leaves
  the counts at started. All other theorems about `GslGraph!Spec` hold for **every** set of faults.
- START, SUSPEND and STOP do not fail (the last three theorems about `ChangeSpec`): a START or STOP that failed leaves
  counts and runs behind that no start bit stands for. OPEN, SET_CFG and CLOSE may fail.
- One client thread calls GSL (`OneClient`): `client_op_in_prog` is one flag for all.
- One thread waits on a signal and sets are `Guarded` (`NoWakeupLost`): each `struct gsl_signal` has one sender at a time and
  its lock around every set. With two waiters the second unlock of a set opens the mutex between them.

The arguments:

- `GslGraph!TypeCorrect`: `TypeOK` is not inductive alone, because an action uses its call's node as a
  node of the call's own handle; `TypeInv == TypeOK /\ CallsOwnNodes` is.
- `OpenRefsCorrect` and `HeldStaysOpen` share `SharingInv`. The open count equals
  the holders only because a node takes and drops references once, and it is
  decisive that opens and closes do not overlap: between the prune and SPF's answer nobody
  changes the count. So: a call in an opening or closing operation holds
  `open_close_lock` (`OcLockHeld`); the node it opens is not linked yet (`OpensUnlinked`);
  what it asks SPF to close has this node as its only holder (`WaitsForPruned`); what
  it calibrates SPF has opened (`CalibratesOpen`); nodes that are neither linked nor being
  opened hold nothing (`UnlinkedIsEmpty`). From the last three, a CLOSE never names a
  subgraph of another linked node. Calls under `start_stop_lock` do not touch this
  part of the state, which is one lemma.
- `StartRefsCovered` and `StartedRuns` add `StartInv`. Starts, suspends and stops are
  serialised by `start_stop_lock` (`SsLockHeld`), but closes are not: what saves them is that a
  close lowers no start count. The count of a subgraph is at least the number of start bits
  (`StartRefsCover`), a counted subgraph is held by someone (`CountedIsHeld`), hence open,
  and runs unless the call that has the lock is between the two commands of a suspend
  (`CountedRuns`). The pending command names what was pruned under the same lock
  (`WaitsForAsked`).
- `SharingRefined` maps a node's set, masks and what SPF runs to the abstract state; every
  action is a step of one node or leaves this picture alone; the guards of the abstract
  steps (nobody else holds, nobody else has started) are what the two invariants give.
- `ChangeSharingInv` carries `SharingInv` over changes. The new node of a change is one more node that holds
  subgraphs without being linked, and unlike one that is opened it does not hold them all as its own: what it
  is going to open has no other holder, and everything else in it is open (`ChangeOf`). That makes it harmless
  that old nodes close while it waits, because their CLOSE names only what nobody else
  holds, the new node included, and that its own open fails at any point, because then it keeps exactly
  what was open. What a partial close asks SPF to close has no other holder either (`PartOf`). The invariant of
  the plain calls is stated for handles that are not changing, so that their steps need no second proof.
- `FollowInv` is about counts again, but with equality, so it needs more than `StartInv`: a node has bits only
  for what it holds, and before it is linked none for what it has to open (`InPlace`); the answer SPF gives is about the
  subgraphs the call would ask for now, since counts and bits cannot change while it waits (`Asks`); and only a
  graph in the right state has bits, so that a close never drops one (`ByState`). Then the count of every
  subgraph that is not astray equals its start bits, what is counted runs, and what runs is counted (`Follows`). A change keeps
  this without talking to SPF: each start bit of an old node goes to the new one, or goes astray.
  `astray` is not a way out: a subgraph enters it only in a step of `ReplaceNode`, `KeepExisting` or `RemoveMatching` that
  moves its bits without its count, and section 4 shows that each really happens.
- GslSignal: a token is given out once, its answer comes once, and what a wait was woken for
  is one of the signal's flags (`Bookkeeping`). A restart that falls into a wait moves from the
  signal to what the wait returned to the command's result (`ResetIsSeen`). As long as every wait has
  ended with its answer (`~late`), the answer that is on its way finds its sender waiting
  with an empty signal (`OnTime`); the first wait that ends early breaks this, which is
  the finding of section 4.
- OsalSignal: the second unlock is harmless because nobody else can be between test and sleep: a thread
  that sets has the user's lock, so the waiter is in its wait and the mutex was
  its own or free (`SleepsAlone`, `KeepsMutex`, `SetterKeepsMutex`).
- `GateExcludes`: `FlagCoversCall` (a client inside a call has the flag set) is inductive
  only while no other thread's end of call can clear the flag: hence one client thread.
  `RtgmExcludesClient` follows, as each side tests what the other one sets in one critical
  section.
- `GraphsComeBack`: the restart list and the queue of the CHANGEs that are still to come name the
  stopped graphs in the same order (`StoppedInOrder`), so that each CHANGE finds its graph
  next on the list; the graphs that are not as their client left them are the rest of that list
  (`StoppedOnly`), and the count of RTGM is the number of CHANGEs to come (`CountExact`), so that nothing is left
  when the gate opens.
- GslRestart: the walk has `graph_hdl_lock` and skips what is idle or in error, and a graph that is listed
  without signals is one of these (`WalkInv`, `SignalsWhileAlive`). A graph is shut if and only if its client is on
  the list of those to be told, but for the steps in between (`NamedIfShut`). What a graph has opened on an
  incarnation that is gone is known to be lost or named in a notice on its way
  (`LostIsKnown`); a restart that is not configured is in `spf_restart` or on its way there, unless
  overlapped (`RestartInv`).
- GslShmem: the table of one page comes first: splitting, merging
  back and merging on keep it tiled, keep every two neighbours merged if both are free, and change only the extents they
  are meant to. None of that follows from tiling alone: an index is reused only when its
  entry is outside the chain, and a merge finds the neighbour by its links, so the
  invariant says the links of the live entries are those of the address order.
  The second half lifts it to the bins (`IInv`, theorem `Inductive`): pages are in one list each, a
  request that fits is answered from one, and owners are exactly the used blocks.
- AcdbHeap: what recursion over the tree would say is said with three functions that only the proof
  knows (`AcdbInv`, a disjunction over them): `under`, the nodes of each subtree; `h`, its height; `old`, its
  height without the node that is being inserted. `SearchTree` says that the subtrees of two children are what is under their
  parent, on the two sides of it in the order of the keys (`Downward`), that parent pointers go the other way
  (`Upward`), and that two subtrees are apart or one is in the other (`Nested`). Then a look-up finds a key because each step keeps
  it under the cursor, and a walk lists all in order because what is on the list, on the stack with what is to the right of
  it, and under the cursor follow each other without gap (`WalkInv`). A single rotation is a turn of the tree that
  changes `under` of two nodes only (`TurnedKeepsTree`), and a double one is two turns, if the subtree it forgets to
  link is empty: this is where `~moved` is needed. For the balance: only the nodes above the new one have a height
  other than `old`, by one, and they are a path (`Growing`); below `at` the tree is balanced already, the node
  `below` is two levels under it, and only at one node the factor may be two (`HeavyFacts`); a rotation there brings the
  height back to `old`, so that from then on everything is level (`Settled`). Stored depths are heights
  except above the cursor `up`, or above `again`, which is to follow. After a subtree has been moved nothing
  but types is claimed, since both properties are false of the code there.
- GslDataPath: a buffer that counts as used is in one of three places, and in one only: with SPF, in the
  handler that is about to mark it, in the hands of a call (`OwnInv`). `GslKeepsOff` alone is not inductive: it says
  nothing of a buffer SPF holds twice, nor of the handler's against those SPF still holds, and the
  second bit to be cleared would free a buffer that is in use. That a graph in error has met a restart
  is part of the invariant, because from then on sends lose their buffers.
- `MetadataFollows`: entries go round with the buffers (`MdInv`), as long as nothing has gone wrong (`Blameless`: no
  fault, SPF keeps the order). For a read from the heap the ring holds exactly one entry per buffer once the buffers have
  been queued: from the tail on, those of the buffers the client takes next, then, from `acked` on, those of the
  buffers SPF holds, in SPF's order (`Full`). While the loop of start or flush runs, it holds one per turn done so far
  (`Refill`), and before that nothing, all indices zero (`Fresh`); `RingInv` is these three. Which one it is depends
  on how far the control thread has come (`Phases`): the loop begins only from `Fresh`, because no call is in progress and none
  begins before it ends, short of `EARLY`; the step back to `Fresh` is `Clear`, which resets the
  indices only when SPF holds nothing, by `NoBufferIsLost` and the emptiness of `used`. A read in the shared memory mode has
  the entries of the buffers SPF holds in the ring, from the tail on (`ReadFifo`); of a write there only a window is
  known, tail to head, that covers what SPF still reads (`WriteWindow`): the media formats leak entries into it. A write from
  the heap takes one entry and gives one back (`WriteRound`), so that there is always room for it
  (`RoomInv`). Every step of `Next` leaves a direction's ring alone (`Quiet`), moves it (`Moves`) or empties it
  (`Emptied`), and this is shown once for all (`MdSteps`).
- GslExtMemCache: an entry never counts fewer buffers than use it (`CountInv`; uses are buffers
  out, the call that takes the entry, the answer being handled): failures leave counts too high, never too
  low. So what is evicted or swept has no user, and every use keeps its memory (`CallOK`,
  `OutOK`, `DoneOK`). What the cache believes to be mapped is mapped at least
  once, and exactly once while no unmap has failed (`SpfInv`). The refinement uses it in
  the state **after** a step: there no buffer is out in memory that is not mapped.
- GprLink: each buffer has one place among the list, the receiver thread, the slots and the answers of clients
  and the lost (`BufferInv`), each packet among the queue and the senders (`PacketInv`); the
  receiver has marked a buffer as freed only when it is on the list (`ShapeInv`). The tokens of a command, of its
  packet, its answer and of what its sender expects are the same unless another sender has cleared
  them (`TokenInv`).

Each inductive invariant was checked with TLC on the run's instance before it was proved (that of AcdbHeap
with eight and with nine keys, its three functions computed from the tree).

Model-checked only:

- all liveness properties, which are beyond this prover;
- that `MovedDown` is where the loop of `gsl_graph_remove_sgs_w_props` leaves the bits (an induction over the array).

## 6. What is left

1. The rest of graph changes, on top of GslGraphChange: RTGM prepare and change inside a
   graph (`gsl_graph.c:5128` writes the preserved subgraphs at the wrong index), set
   config and calibration, with the pool of global calibrations
   (`gsl_global_persist_cal.c:110-147` hands a calibration out without counting the user).
   A statement of `SharedSubgraphs` for handles rather than nodes, which a change would implement.
2. Shared memory mapping: satellites, loaned memory and the late-answer list
   (`gsl_shmem_mgr.c:1344-1450`, filled round robin and walked up to the first empty slot).
3. ACDB databases: add, remove and reset over the parallel tables (the reset of
   `acdb_delta_file_mgr.c:207` counts up to a number each removal lowers; a heap is
   removed at an index that nothing sets, `acdb_heap.c:879`); then the look-ups as operators.
4. Proofs: the refinement of a handle-level `SharedSubgraphs` (item 1).

No module that has proofs, or is to have them, uses a RECURSIVE operator; parameters are
CONSTANTS with named assumptions, and invariants are conjunctions of named parts.

## 7. Not modelled, and why

- ACDB queries and ATS formats: sequential computations on binary data, to be treated as
  operators, not as state machines, as far as they are at all.
- OSAL wrappers other than the signal, `ar_util`: thin layers over pthread and libc; a mutex
  is a lock variable, a list a set or a sequence.
- Dynamic modules, hardware resources, the DLS client: one command at a time under
  a lock of their own, through the signal that GslSignal models.
- The headers of SPF's modules (`spf/api`): declarations of parameters, no behaviour.
- SPF, the DSP and the kernel driver are the environment of every model: they answer,
  refuse, lose or delay as the modules state.
- Timing: a timeout is a step that may happen at any moment of a wait; how long waits last
  is not expressed.
