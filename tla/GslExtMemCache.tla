--------------------------- MODULE GslExtMemCache ---------------------------
(***************************************************************************)
(* The external memory cache (gsl/src/gsl_datapath.c, ext_mem_cache).      *)
(*                                                                         *)
(* In the external memory mode the client passes handles of its own        *)
(* allocations.  A read or write looks the handle up in a cache shared by  *)
(* all data paths of that mode, maps it on the DSP on a miss, in place of  *)
(* the entry used least recently if none is unused, counts the buffer on   *)
(* the entry and sends it.  GPR's thread takes the count back when the     *)
(* buffer returns.  The first data path to enter the mode creates the      *)
(* cache; the last to leave it unmaps everything.                          *)
(***************************************************************************)
EXTENDS Integers, Sequences, FiniteSets, SequencesExt

CONSTANTS
  DataPaths,   \* each with one client thread
  Handles,     \* handles of the client's allocations
  NotAllocd,   \* GSL_EXT_MEM_HDL_NOT_ALLOCD
  NumEntries,  \* GSL_MAX_CACHE_SIZE
  Faults,      \* what may go wrong
  MaxUses,     \* bound: reads and writes in one behaviour
  MaxOut       \* bound: buffers a data path has with the DSP

Entry == 1 .. NumEntries
NoEntry == 0

ASSUME HandlesType == NotAllocd \notin Handles
ASSUME DataPathsType == IsFiniteSet(DataPaths) /\ "free" \notin DataPaths
ASSUME SizeType == NumEntries \in Nat \ {0} /\ MaxUses \in Nat /\ MaxOut \in Nat \ {0}
ASSUME FaultsType == Faults \subseteq {"MAP", "UNMAP", "SEND", "EARLY", "RECONFIG"}

VARIABLES
  disabled, \* GSL_EXT_MEM_CACHE_DISABLE, as Android.mk builds it
  entries,  \* the array; <<>> while it is not allocated
  age,      \* age_counter
  num_dps,  \* num_extern_mem_datapaths
  lock,     \* global_cache_lock: the data path whose call holds it, or "free"
  mode,     \* [DataPaths -> mode of the data path]
  call,     \* [DataPaths -> record]: the read or write in progress
  out,      \* [DataPaths -> sequence]: buffers with the DSP or on their way back
  done,     \* the handler on GPR's thread
  spf,      \* [Handles -> Nat]: how often the memory is mapped on the DSP
  lost,     \* history: what has gone wrong
  uses      \* bounded by MaxUses

vars == <<disabled, entries, age, num_dps, lock, mode, call, out, done, spf, lost, uses>>

Unused == [handle |-> NotAllocd, inflight |-> 0, last_used |-> 0]
Never == MaxUses + 1   \* UINT64_MAX
IdleCall == [pc |-> "idle", want |-> NotAllocd, idx |-> NoEntry, to_unmap |-> NotAllocd,
             age |-> 0, failed |-> FALSE]
IdleDone == [pc |-> "idle", dp |-> NoEntry, idx |-> NoEntry, sent |-> NotAllocd, handle |-> NotAllocd]

Init ==
  /\ disabled \in BOOLEAN
  /\ entries = <<>> /\ age = 0 /\ num_dps = 0 /\ lock = "free"
  /\ mode = [d \in DataPaths |-> "other"]
  /\ call = [d \in DataPaths |-> IdleCall]
  /\ out = [d \in DataPaths |-> <<>>]
  /\ done = IdleDone
  /\ spf = [h \in Handles |-> 0]
  /\ lost = {} /\ uses = 0

May(fault) == fault \in Faults

-----------------------------------------------------------------------------
(* Entering and leaving the mode. *)

\* gsl_dp_config_extern_mem_mode and ext_mem_cache_init, under num_dps_lock.
Configure(d) ==
  /\ mode[d] = "other"
  /\ mode' = [mode EXCEPT ![d] = "extern"]
  /\ num_dps' = num_dps + 1
  /\ IF num_dps = 0
     THEN entries' = [i \in Entry |-> Unused] /\ age' = 0
     ELSE UNCHANGED <<entries, age>>
  /\ UNCHANGED <<disabled, lock, call, out, done, spf, lost, uses>>

\* Each entry's mapping is given back, in use or not; an unmap may fail.
UnmapAll(failed) ==
  spf' = [h \in Handles |->
    spf[h] - Cardinality({i \in DOMAIN entries : entries[i].handle = h /\ h \notin failed})]

\* Mutant of Deinit: what a buffer is counted on stays mapped.
DeinitIdleOnly(d) ==
  /\ num_dps' = num_dps - 1
  /\ IF num_dps = 1
     THEN /\ UnmapAll({h \in Handles : \E i \in Entry :
                         entries[i].handle = h /\ entries[i].inflight > 0})
          /\ entries' = <<>> /\ UNCHANGED lost
     ELSE UNCHANGED <<entries, spf, lost>>

\* ext_mem_cache_deinit, under num_dps_lock.
Deinit(d) ==
  /\ num_dps' = num_dps - 1
  /\ IF num_dps = 1
     THEN \E failed \in IF May("UNMAP") THEN SUBSET Handles ELSE {{}} :
            /\ UnmapAll(failed)
            /\ entries' = <<>>
            /\ lost' = IF failed = {} THEN lost ELSE lost \cup {"UNMAP"}
     ELSE UNCHANGED <<entries, spf, lost>>

\* gsl_graph_close: the graph is closed on the DSP.  In this mode no buffer is marked
\* as used, so those that are out are not waited for; a careful client has done so.
Close(d) ==
  /\ mode[d] = "extern" /\ call[d].pc = "idle" /\ done.dp # d
  /\ out[d] # <<>> => May("EARLY")
  /\ mode' = [mode EXCEPT ![d] = "closing"]
  /\ out' = [out EXCEPT ![d] = <<>>]
  /\ lost' = IF out[d] = <<>> THEN lost ELSE lost \cup {"EARLY"}
  /\ UNCHANGED <<disabled, entries, age, num_dps, lock, call, done, spf, uses>>

\* gsl_data_path_deinit.
Leave(d) ==
  /\ mode[d] = "closing"
  /\ Deinit(d)
  /\ mode' = [mode EXCEPT ![d] = "closed"]
  /\ UNCHANGED <<disabled, age, lock, call, out, done, uses>>

\* gsl_dp_config_common_modes: a data path in this mode has no buffers, so
\* reconfigure_buffers is not called and the cache is not told.
Reconfigure(d) ==
  /\ mode[d] = "extern" /\ call[d].pc = "idle" /\ out[d] = <<>> /\ done.dp # d
  /\ May("RECONFIG")
  /\ mode' = [mode EXCEPT ![d] = "closed"]
  /\ lost' = lost \cup {"RECONFIG"}
  /\ UNCHANGED <<disabled, entries, age, num_dps, lock, call, out, done, spf, uses>>

-----------------------------------------------------------------------------
(* ext_mem_cache_get_entry, under global_cache_lock. *)

Begin(d, h) ==
  /\ mode[d] = "extern" /\ call[d].pc = "idle" /\ uses < MaxUses /\ Len(out[d]) < MaxOut
  /\ call' = [call EXCEPT ![d] = [IdleCall EXCEPT !.pc = "lock", !.want = h]]
  /\ uses' = uses + 1
  /\ UNCHANGED <<disabled, entries, age, num_dps, lock, mode, out, done, spf, lost>>

Lock(d) ==
  /\ call[d].pc = "lock" /\ lock = "free"
  /\ lock' = d
  /\ call' = [call EXCEPT ![d].pc = IF disabled THEN "sweep" ELSE "find"]
  /\ UNCHANGED <<disabled, entries, age, num_dps, mode, out, done, spf, lost, uses>>

Holding(h) == {i \in DOMAIN entries : entries[i].handle = h}

\* With the cache disabled the entries nobody uses are unmapped on the way to one in
\* use that holds the wanted handle, or all of them.
Swept(h) == {i \in Entry :
  /\ entries[i].inflight = 0 /\ entries[i].handle # NotAllocd
  /\ \A j \in Holding(h) : entries[j].inflight = 0 \/ i < j}

Sweep(d) == LET swept == Swept(call[d].want) IN
  /\ call[d].pc = "sweep"
  /\ \E failed \in IF May("UNMAP") THEN SUBSET swept ELSE {{}} :
       /\ spf' = [h \in Handles |->
            spf[h] - Cardinality({i \in swept \ failed : entries[i].handle = h})]
       /\ lost' = IF failed = {} THEN lost ELSE lost \cup {"UNMAP"}
       /\ call' = [call EXCEPT ![d].pc = "find", ![d].failed = failed # {}]
  /\ entries' = [i \in Entry |-> IF i \in swept THEN [entries[i] EXCEPT !.handle = NotAllocd]
                                 ELSE entries[i]]
  /\ UNCHANGED <<disabled, age, num_dps, lock, mode, out, done, uses>>

Least(S, val(_)) == CHOOSE i \in S : \A j \in S : val(i) < val(j) \/ (val(i) = val(j) /\ i <= j)

\* The buffer is in the cache: it is counted, whichever processor it was mapped for, and
\* even if the call fails because a sweep has failed.
Hit(d) ==
  /\ call[d].pc = "find" /\ Holding(call[d].want) # {}
  /\ LET i == Least(Holding(call[d].want), LAMBDA j : j) IN
       /\ entries' = [entries EXCEPT ![i].inflight = @ + 1]
       /\ call' = [call EXCEPT ![d] =
            IF @.failed THEN IdleCall ELSE [@ EXCEPT !.pc = "touch", !.idx = i]]
  /\ lock' = "free"
  /\ UNCHANGED <<disabled, age, num_dps, mode, out, done, spf, lost, uses>>

Miss(d) == call[d].pc = "find" /\ Holding(call[d].want) = {}

\* Mutant of TakeUnused: mapping is not serialised.
TakeUnusedUnlocked(d) ==
  /\ Miss(d) /\ Holding(NotAllocd) # {}
  /\ LET i == Least(Holding(NotAllocd), LAMBDA j : j) IN
       /\ entries' = [entries EXCEPT ![i].inflight = 1]
       /\ call' = [call EXCEPT ![d].pc = "map", ![d].idx = i]
  /\ lock' = "free"
  /\ UNCHANGED <<disabled, age, num_dps, mode, out, done, spf, lost, uses>>

\* The first unused entry is taken ...
TakeUnused(d) ==
  /\ Miss(d) /\ Holding(NotAllocd) # {}
  /\ LET i == Least(Holding(NotAllocd), LAMBDA j : j) IN
       /\ entries' = [entries EXCEPT ![i].inflight = 1]
       /\ call' = [call EXCEPT ![d].pc = "map", ![d].idx = i]
  /\ UNCHANGED <<disabled, age, num_dps, lock, mode, out, done, spf, lost, uses>>

\* Mutant of Evictable: what is used now may go.
EvictableAny == {i \in DOMAIN entries : entries[i].last_used < Never}
Evictable == {i \in DOMAIN entries : entries[i].inflight = 0 /\ entries[i].last_used < Never}

\* ... or the one used least recently is evicted (ext_mem_cache_evict_entry; nobody
\* else can count a buffer on it, so the check under its lock does not fail) ...
Evict(d) ==
  /\ Miss(d) /\ Holding(NotAllocd) = {} /\ Evictable # {}
  /\ LET i == Least(Evictable, LAMBDA j : entries[j].last_used) IN
       /\ entries' = [entries EXCEPT ![i] = [Unused EXCEPT !.last_used = Never, !.inflight = 1]]
       /\ call' = [call EXCEPT ![d].pc = "map", ![d].idx = i, ![d].to_unmap = entries[i].handle]
  /\ UNCHANGED <<disabled, age, num_dps, lock, mode, out, done, spf, lost, uses>>

\* ... or all are in use: ENORESOURCE.
Full(d) ==
  /\ Miss(d) /\ Holding(NotAllocd) = {} /\ Evictable = {}
  /\ call' = [call EXCEPT ![d] = IdleCall] /\ lock' = "free"
  /\ UNCHANGED <<disabled, entries, age, num_dps, mode, out, done, spf, lost, uses>>

\* gsl_shmem_map_extern_mem.
MapOk(d) == LET i == call[d].idx IN
  /\ call[d].pc = "map"
  /\ spf' = [spf EXCEPT ![call[d].want] = @ + 1]
  /\ entries' = [entries EXCEPT ![i].handle = call[d].want, ![i].last_used = age]
  /\ call' = [call EXCEPT ![d].pc = "unmap"]
  /\ UNCHANGED <<disabled, age, num_dps, lock, mode, out, done, lost, uses>>

\* ... fails: the entry is unused again, but what it held before stays mapped.
MapFails(d) ==
  /\ call[d].pc = "map" /\ May("MAP")
  /\ entries' = [entries EXCEPT ![call[d].idx].inflight = 0]
  /\ call' = [call EXCEPT ![d] = IdleCall] /\ lock' = "free"
  /\ lost' = IF call[d].to_unmap = NotAllocd THEN lost ELSE lost \cup {"MAP"}
  /\ UNCHANGED <<disabled, age, num_dps, mode, out, done, spf, uses>>

\* What was evicted is unmapped.  If that fails the caller gets the error although the
\* buffer is mapped and counted.
UnmapEvicted(d) == LET h == call[d].to_unmap IN
  /\ call[d].pc = "unmap"
  /\ \/ /\ spf' = IF h = NotAllocd THEN spf ELSE [spf EXCEPT ![h] = @ - 1]
        /\ call' = [call EXCEPT ![d].pc = "touch", ![d].to_unmap = NotAllocd]
        /\ UNCHANGED lost
     \/ /\ h # NotAllocd /\ May("UNMAP")
        /\ call' = [call EXCEPT ![d] = IdleCall]
        /\ lost' = lost \cup {"UNMAP"} /\ UNCHANGED spf
  /\ lock' = "free"
  /\ UNCHANGED <<disabled, entries, age, num_dps, mode, out, done, uses>>

-----------------------------------------------------------------------------
(* The rest of gsl_dp_read_extern_mem and gsl_dp_write_extern_mem. *)

\* ext_mem_cache_update_entry_last_used, which takes no lock: age_counter is read ...
Touch(d) ==
  /\ call[d].pc = "touch"
  /\ call' = [call EXCEPT ![d].pc = "age", ![d].age = age]
  /\ UNCHANGED <<disabled, entries, age, num_dps, lock, mode, out, done, spf, lost, uses>>

\* ... and written.
Aged(d) ==
  /\ call[d].pc = "age"
  /\ age' = call[d].age + 1
  /\ entries' = [entries EXCEPT ![call[d].idx].last_used = call[d].age]
  /\ call' = [call EXCEPT ![d].pc = "send"]
  /\ UNCHANGED <<disabled, num_dps, lock, mode, out, done, spf, lost, uses>>

SendOk(d) ==
  /\ call[d].pc = "send"
  /\ out' = [out EXCEPT ![d] = Append(@, [idx |-> call[d].idx, handle |-> call[d].want])]
  /\ call' = [call EXCEPT ![d] = IdleCall]
  /\ UNCHANGED <<disabled, entries, age, num_dps, lock, mode, done, spf, lost, uses>>

\* There is no metadata entry or the packet cannot be sent: the count stays.
SendFails(d) ==
  /\ call[d].pc = "send" /\ May("SEND")
  /\ call' = [call EXCEPT ![d] = IdleCall]
  /\ lost' = lost \cup {"SEND"}
  /\ UNCHANGED <<disabled, entries, age, num_dps, lock, mode, out, done, spf, uses>>

-----------------------------------------------------------------------------
(* GPR's thread: ext_mem_cache_buf_done. *)

\* The DSP is done with a buffer, in any order; the entry's data are copied ...
Receive(d) == \E k \in 1 .. Len(out[d]) :
  /\ done.pc = "idle" /\ entries # <<>>
  /\ done' = [pc |-> "copied", dp |-> d, idx |-> out[d][k].idx, sent |-> out[d][k].handle,
              handle |-> entries[out[d][k].idx].handle]
  /\ out' = [out EXCEPT ![d] = RemoveAt(@, k)]
  /\ UNCHANGED <<disabled, entries, age, num_dps, lock, mode, call, spf, lost, uses>>

\* ... before its count is taken back; the client is told what was copied.
Decrement ==
  /\ done.pc = "copied" /\ entries # <<>>
  /\ entries' = [entries EXCEPT ![done.idx].inflight = @ - 1]
  /\ done' = IdleDone
  /\ UNCHANGED <<disabled, age, num_dps, lock, mode, call, out, spf, lost, uses>>

-----------------------------------------------------------------------------
CallStep(d) ==
  \/ Lock(d) \/ Sweep(d) \/ Hit(d) \/ TakeUnused(d) \/ Evict(d) \/ Full(d) \/ MapOk(d)
  \/ MapFails(d) \/ UnmapEvicted(d) \/ Touch(d) \/ Aged(d) \/ SendOk(d) \/ SendFails(d)

Next ==
  \/ \E d \in DataPaths :
       \/ Configure(d) \/ Close(d) \/ Leave(d) \/ Reconfigure(d) \/ CallStep(d) \/ Receive(d)
       \/ \E h \in Handles : Begin(d, h)
  \/ Decrement

Spec == Init /\ [][Next]_vars
-----------------------------------------------------------------------------
\* The type of every variable.
TypeOK ==
  /\ disabled \in BOOLEAN /\ age \in 0 .. MaxUses /\ uses \in 0 .. MaxUses
  /\ entries = <<>> \/ entries \in [Entry ->
       [handle : Handles \cup {NotAllocd}, inflight : 0 .. MaxUses, last_used : 0 .. Never]]
  /\ num_dps \in 0 .. Cardinality(DataPaths) /\ lock \in DataPaths \cup {"free"}
  /\ mode \in [DataPaths -> {"other", "extern", "closing", "closed"}]
  /\ call \in [DataPaths ->
       [pc : {"idle", "lock", "sweep", "find", "map", "unmap", "touch", "age", "send"},
        want : Handles \cup {NotAllocd}, idx : 0 .. NumEntries,
        to_unmap : Handles \cup {NotAllocd}, age : 0 .. MaxUses, failed : BOOLEAN]]
  /\ \A d \in DataPaths : out[d] \in Seq([idx : Entry, handle : Handles])
  /\ done \in [pc : {"idle", "copied"}, dp : DataPaths \cup {NoEntry}, idx : 0 .. NumEntries,
               sent : Handles \cup {NotAllocd}, handle : Handles \cup {NotAllocd}]
  /\ spf \in [Handles -> Nat] /\ lost \subseteq Faults

\* "serialised to avoid double-mapping the same alloc" (ext_mem_cache_get_entry): no
\* memory is mapped twice, whichever calls and evictions overlap, as long as unmaps
\* succeed and no map fails after an eviction.
MappedOnce == lost \cap {"MAP", "UNMAP"} = {} => \A h \in Handles : spf[h] <= 1

\* The handle the client gets with a buffer is the one it sent, although the entry is
\* looked up when the buffer returns.
DoneReportsItsBuffer == done.handle = done.sent

\* When the last data path has left the mode nothing is mapped, and the cache is gone,
\* unless a data path was configured out of the mode.
NothingStaysMapped ==
  /\ \A d \in DataPaths : mode[d] \in {"other", "closed"}
  /\ lost \cap {"MAP", "UNMAP", "RECONFIG"} = {}
  => entries = <<>> /\ \A h \in Handles : spf[h] = 0

\* A buffer with the DSP lies in memory that is mapped, until it has come back, whatever
\* fails: the cache does what MappedMemory promises.
OutIn(h) == UNION {{d} \X {k \in DOMAIN out[d] : out[d][k].handle = h} : d \in DataPaths}
Memory == INSTANCE MappedMemory WITH
  mapped <- {h \in Handles : spf[h] > 0},
  out <- [h \in Handles |-> Cardinality(OutIn(h))]
KeepsMemoryMapped == Memory!Spec
=============================================================================
