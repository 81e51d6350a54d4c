----------------------- MODULE GslExtMemCache_proofs ------------------------
(***************************************************************************)
(* Proofs about GslExtMemCache: what its invariants say, for any number of *)
(* data paths, allocations and entries.                                    *)
(*                                                                         *)
(* The argument counts: an entry never counts fewer buffers than use it    *)
(* (CountInv), where a use is a buffer with the DSP, the call that takes   *)
(* the entry, or the answer GPR's thread is about to take back.  So an     *)
(* entry that may be evicted or swept has no user, and all others keep     *)
(* their memory.                                                           *)
(***************************************************************************)
EXTENDS GslExtMemCache, FiniteSetTheorems, WellFoundedInduction, TLAPS

-----------------------------------------------------------------------------
(* The inductive invariant. *)

EntryType == [handle : Handles \cup {NotAllocd}, inflight : Int, last_used : Nat]
CallPc == {"idle", "lock", "sweep", "find", "map", "unmap", "touch", "age", "send"}
CallType == [pc : CallPc, want : Handles \cup {NotAllocd}, idx : 0 .. NumEntries,
             to_unmap : Handles \cup {NotAllocd}, age : Nat, failed : BOOLEAN]
OutType == [idx : Entry, handle : Handles]
DoneType == [pc : {"idle", "copied"}, dp : DataPaths \cup {NoEntry}, idx : 0 .. NumEntries,
             sent : Handles \cup {NotAllocd}, handle : Handles \cup {NotAllocd}]

Allocated == entries # <<>>

TypeInv ==
  /\ disabled \in BOOLEAN /\ age \in Nat /\ uses \in Nat /\ num_dps \in Nat
  /\ Allocated => entries \in [Entry -> EntryType]
  /\ lock \in DataPaths \cup {"free"}
  /\ mode \in [DataPaths -> {"other", "extern", "closing", "closed"}]
  /\ call \in [DataPaths -> CallType]
  /\ out \in [DataPaths -> Seq(OutType)]
  /\ done \in DoneType
  /\ spf \in [Handles -> Nat]

Holder == {"sweep", "find", "map", "unmap"}
Active == {d \in DataPaths : mode[d] \in {"extern", "closing"}}

\* The cache is there while a data path is in the mode.
ModeInv ==
  /\ Allocated <=> num_dps > 0
  /\ Cardinality(Active) <= num_dps
  /\ "RECONFIG" \notin lost => Cardinality(Active) = num_dps

Free(h) == h # NotAllocd => Holding(h) = {}

\* A data path with a call, a buffer or an answer is in the mode; the lock is held from
\* the look-up to the last unmap; the entry of a call has the handle it wants, once that
\* is mapped, and nobody has what was evicted for it.
CallOK(d) ==
  LET k == call[d] IN
  /\ k.pc # "idle" \/ out[d] # <<>> \/ (done.pc = "copied" /\ done.dp = d)
       => mode[d] = "extern"
  /\ k.pc \in Holder <=> lock = d
  /\ k.pc # "idle" => k.want \in Handles
  /\ k.pc \notin {"map", "unmap"} => k.to_unmap = NotAllocd
  /\ Free(k.to_unmap)
  /\ k.pc \in {"map", "unmap", "touch", "age", "send"} => k.idx \in Entry
  /\ k.pc = "map" => /\ entries[k.idx].handle = NotAllocd
                     /\ Holding(k.want) = {} /\ k.want # k.to_unmap
  /\ k.pc \in {"unmap", "touch", "age", "send"} => entries[k.idx].handle = k.want

\* A buffer lies in the memory of its entry.
OutOK(d) == \A k \in DOMAIN out[d] : entries[out[d][k].idx].handle = out[d][k].handle
DoneOK ==
  /\ done.handle = done.sent
  /\ done.pc = "copied" =>
       /\ done.dp \in DataPaths /\ done.idx \in Entry /\ done.sent \in Handles
       /\ entries[done.idx].handle = done.sent

\* No two entries hold the same memory.
OneEntry == \A i, j \in DOMAIN entries :
  entries[i].handle = entries[j].handle /\ entries[i].handle # NotAllocd => i = j

\* What counts a buffer on entry i: the handler on GPR's thread, a call, a buffer out.
Uses(d, k, i) ==
  \/ k = -1 /\ done.pc = "copied" /\ done.dp = d /\ done.idx = i
  \/ k = 0 /\ call[d].pc \in {"map", "unmap", "touch", "age", "send"} /\ call[d].idx = i
  \/ k \in DOMAIN out[d] /\ out[d][k].idx = i

Users(i) == {u \in DataPaths \X Int : Uses(u[1], u[2], i)}

\* No entry counts fewer than use it; failures leave it counting more.
CountInv == \A i \in DOMAIN entries :
  IsFiniteSet(Users(i)) /\ Cardinality(Users(i)) <= entries[i].inflight

\* What the cache believes to be mapped is.
Believed(h) ==
  \/ Holding(h) # {}
  \/ \E d \in DataPaths : call[d].pc \in {"map", "unmap"} /\ call[d].to_unmap = h

SpfInv == \A h \in Handles :
  /\ Believed(h) => spf[h] >= 1
  /\ lost \cap {"MAP", "UNMAP"} = {} => spf[h] = IF Believed(h) THEN 1 ELSE 0

Inv ==
  /\ TypeInv /\ ModeInv /\ (\A d \in DataPaths : CallOK(d) /\ OutOK(d)) /\ DoneOK
  /\ OneEntry /\ CountInv /\ SpfInv

-----------------------------------------------------------------------------
(* Operators of the model. *)

\* The least by a value, the first of those: there is one.
LEMMA LeastExists ==
  ASSUME NEW S \in SUBSET Entry, S # {}, NEW f \in [Entry -> Nat]
  PROVE  \E i \in S : \A j \in S : f[i] < f[j] \/ (f[i] = f[j] /\ i <= j)
<1> DEFINE R == {p \in Nat \X Nat : p[1] < p[2]}
<1>1. IsWellFoundedOn(R, Nat)  BY NatLessThanWellFounded DEF OpToRel
<1>2. S \subseteq Nat /\ \A i \in S : f[i] \in Nat  BY SizeType DEF Entry
<1> DEFINE T == {f[i] : i \in S}
<1>3. T \subseteq Nat /\ T # {}  BY <1>2
<1>4. PICK m \in T : \A n \in T : ~ (<<n, m>> \in R)
  <2> HIDE DEF T, R
  <2> QED BY <1>1, <1>3, WFMin
<1> DEFINE U == {i \in S : f[i] = m}
<1>5. U \subseteq Nat /\ U # {}  BY <1>2, <1>4
<1>6. PICK i \in U : \A j \in U : ~ (<<j, i>> \in R)
  <2> HIDE DEF U, R, T
  <2> QED BY <1>1, <1>5, WFMin
<1>7. ASSUME NEW j \in S PROVE f[i] < f[j] \/ (f[i] = f[j] /\ i <= j)
  <2>1. f[j] \in T /\ f[i] = m /\ i \in Nat /\ j \in Nat /\ m \in Nat  BY <1>2, <1>3, <1>4, <1>5
  <2>2. ~(f[j] < m)  BY <1>4, <2>1
  <2>3. f[j] = m => ~(j < i)  BY <1>6, <2>1
  <2> QED BY <1>2, <2>1, <2>2, <2>3
<1> QED BY <1>7

LEMMA LeastHeld ==
  ASSUME NEW h, Allocated, TypeInv, Holding(h) # {}
  PROVE  Least(Holding(h), LAMBDA j : j) \in Holding(h)
<1> DEFINE f == [i \in Entry |-> i]
           S == Holding(h)
<1>1. S \in SUBSET Entry /\ S # {} /\ f \in [Entry -> Nat]
  BY SizeType DEF Holding, TypeInv, Entry
<1>2. \E i \in S : \A j \in S : f[i] < f[j] \/ (f[i] = f[j] /\ i <= j)
  <2> HIDE DEF S, f
  <2> QED BY <1>1, LeastExists
<1>3. \E i \in S : \A j \in S : i < j \/ (i = j /\ i <= j)
  BY <1>1, <1>2
<1>4. Least(Holding(h), LAMBDA j : j)
        = CHOOSE i \in S : \A j \in S : i < j \/ (i = j /\ i <= j)
  BY DEF Least
<1> HIDE DEF S
<1>5. Least(Holding(h), LAMBDA j : j) \in S  BY <1>3, <1>4
<1> QED BY <1>5 DEF S

LEMMA LeastUsed ==
  ASSUME Allocated, TypeInv, Evictable # {}
  PROVE  Least(Evictable, LAMBDA j : entries[j].last_used) \in Evictable
<1> DEFINE f == [i \in Entry |-> entries[i].last_used]
           S == Evictable
<1>1. S \in SUBSET Entry /\ S # {} /\ f \in [Entry -> Nat]
  BY DEF Evictable, TypeInv, EntryType
<1>2. \E i \in S : \A j \in S : f[i] < f[j] \/ (f[i] = f[j] /\ i <= j)
  <2> HIDE DEF S, f
  <2> QED BY <1>1, LeastExists
<1>3. \E i \in S : \A j \in S :
        entries[i].last_used < entries[j].last_used
        \/ (entries[i].last_used = entries[j].last_used /\ i <= j)
  BY <1>1, <1>2
<1>4. Least(Evictable, LAMBDA j : entries[j].last_used)
        = CHOOSE i \in S : \A j \in S :
            entries[i].last_used < entries[j].last_used
            \/ (entries[i].last_used = entries[j].last_used /\ i <= j)
  BY DEF Least
<1> HIDE DEF S
<1>5. Least(Evictable, LAMBDA j : entries[j].last_used) \in S  BY <1>3, <1>4
<1> QED BY <1>5 DEF S

LEMMA ConcatOK ==
  ASSUME NEW S, NEW a \in Seq(S), NEW b \in Seq(S)
  PROVE  /\ a \o b \in Seq(S) /\ Len(a \o b) = Len(a) + Len(b)
         /\ \A j \in 1 .. Len(a) + Len(b) :
              (a \o b)[j] = IF j <= Len(a) THEN a[j] ELSE b[j - Len(a)]
OBVIOUS

\* The k-th buffer is taken out of the sequence.
LEMMA RemoveAtOK ==
  ASSUME NEW S, NEW s \in Seq(S), NEW k \in 1 .. Len(s)
  PROVE  /\ RemoveAt(s, k) \in Seq(S) /\ Len(RemoveAt(s, k)) = Len(s) - 1
         /\ \A j \in 1 .. Len(s) - 1 : RemoveAt(s, k)[j] = IF j < k THEN s[j] ELSE s[j + 1]
<1> DEFINE a == SubSeq(s, 1, k - 1)
           b == SubSeq(s, k + 1, Len(s))
<1>1. Len(s) \in Nat /\ k \in Nat  OBVIOUS
<1>2. /\ a \in Seq(S) /\ Len(a) = k - 1 /\ \A j \in 1 .. k - 1 : a[j] = s[j]
  BY <1>1
<1>3. /\ b \in Seq(S) /\ Len(b) = Len(s) - k /\ \A j \in 1 .. Len(s) - k : b[j] = s[k + j]
  BY <1>1
<1> HIDE DEF a, b
<1>4. /\ a \o b \in Seq(S) /\ Len(a \o b) = Len(s) - 1
      /\ \A j \in 1 .. Len(s) - 1 : (a \o b)[j] = IF j <= Len(a) THEN a[j] ELSE b[j - Len(a)]
  <2>1. /\ a \o b \in Seq(S) /\ Len(a \o b) = Len(a) + Len(b)
        /\ \A j \in 1 .. Len(a) + Len(b) :
             (a \o b)[j] = IF j <= Len(a) THEN a[j] ELSE b[j - Len(a)]
    BY <1>2, <1>3, ConcatOK
  <2>2. Len(a) + Len(b) = Len(s) - 1  BY <1>1, <1>2, <1>3
  <2> QED BY <2>1, <2>2
<1>5. ASSUME NEW j \in 1 .. Len(s) - 1
      PROVE  (a \o b)[j] = IF j < k THEN s[j] ELSE s[j + 1]
  <2>1. CASE j < k  BY <1>1, <1>2, <1>4, <2>1
  <2>2. CASE ~(j < k)
    <3>1. j - Len(a) \in 1 .. Len(s) - k /\ k + (j - Len(a)) = j + 1
      BY <1>1, <1>2, <2>2
    <3>2. (a \o b)[j] = b[j - Len(a)]  BY <1>1, <1>2, <1>4, <2>2
    <3> QED BY <1>3, <2>2, <3>1, <3>2
  <2> QED BY <2>1, <2>2
<1> QED BY <1>4, <1>5 DEF RemoveAt, a, b

\* Sets that shrink or grow by an element at most.
LEMMA CountInjected ==
  ASSUME NEW U, NEW V, IsFiniteSet(V), NEW f \in [U -> V],
         \A x, y \in U : f[x] = f[y] => x = y
  PROVE  IsFiniteSet(U) /\ Cardinality(U) <= Cardinality(V)
<1>1. f \in Injection(U, V)  BY DEF Injection, IsInjective
<1> QED BY <1>1, FS_Injection

LEMMA CountSubset ==
  ASSUME NEW V, IsFiniteSet(V), NEW U \in SUBSET V
  PROVE  IsFiniteSet(U) /\ Cardinality(U) <= Cardinality(V) /\ Cardinality(V) \in Nat
         /\ Cardinality(U) \in Nat
BY FS_Subset, FS_CardinalityType

LEMMA CountOne ==
  ASSUME NEW V, IsFiniteSet(V), NEW x, NEW U \in SUBSET (V \cup {x})
  PROVE  IsFiniteSet(U) /\ Cardinality(U) <= Cardinality(V) + 1
<1>1. IsFiniteSet(V \cup {x}) /\ Cardinality(V \cup {x}) <= Cardinality(V) + 1
  <2>1. Cardinality(V) \in Nat  BY FS_CardinalityType
  <2> QED BY <2>1, FS_AddElement
<1>2. IsFiniteSet(U) /\ Cardinality(U) <= Cardinality(V \cup {x})
  BY <1>1, FS_Subset
<1> QED BY <1>1, <1>2, FS_CardinalityType

LEMMA CountLess ==
  ASSUME NEW V, IsFiniteSet(V), NEW x \in V, NEW U \in SUBSET (V \ {x})
  PROVE  IsFiniteSet(U) /\ Cardinality(U) <= Cardinality(V) - 1
<1>1. IsFiniteSet(V \ {x}) /\ Cardinality(V \ {x}) = Cardinality(V) - 1
  BY FS_RemoveElement
<1>2. IsFiniteSet(U) /\ Cardinality(U) <= Cardinality(V \ {x})
  BY <1>1, FS_Subset
<1> QED BY <1>1, <1>2

-----------------------------------------------------------------------------
(* What the steps change. *)

\* The record of call d, as far as the invariant looks at it; the others stay.
New(d, pc, want, idx, to_unmap) ==
  /\ call' \in [DataPaths -> CallType]
  /\ call'[d].pc = pc /\ call'[d].want = want
  /\ call'[d].idx = idx /\ call'[d].to_unmap = to_unmap
  /\ \A e \in DataPaths \ {d} : call'[e] = call[e]

LEMMA CallEffect ==
  ASSUME TypeInv, NEW d \in DataPaths, NEW r \in CallType, call' = [call EXCEPT ![d] = r]
  PROVE  New(d, r.pc, r.want, r.idx, r.to_unmap)
BY DEF TypeInv, New

LEMMA IdleType ==
  /\ IdleCall \in CallType /\ IdleCall.pc = "idle" /\ IdleCall.want = NotAllocd
  /\ IdleCall.idx = NoEntry /\ IdleCall.to_unmap = NotAllocd
BY SizeType DEF IdleCall, CallType, CallPc, NoEntry

LEMMA CallEffects ==
  ASSUME TypeInv, Allocated, NEW d \in DataPaths
  PROVE  LET k == call[d] IN
    /\ \A h \in Handles : Begin(d, h) => New(d, "lock", h, NoEntry, NotAllocd)
    /\ Lock(d) => New(d, IF disabled THEN "sweep" ELSE "find", k.want, k.idx, k.to_unmap)
    /\ Sweep(d) => New(d, "find", k.want, k.idx, k.to_unmap)
    /\ \A i \in Entry : call' = [call EXCEPT ![d] = IF k.failed THEN IdleCall
                                   ELSE [k EXCEPT !.pc = "touch", !.idx = i]] =>
         \/ New(d, "idle", NotAllocd, NoEntry, NotAllocd)
         \/ New(d, "touch", k.want, i, k.to_unmap)
    /\ \A i \in Entry : call' = [call EXCEPT ![d].pc = "map", ![d].idx = i] =>
         New(d, "map", k.want, i, k.to_unmap)
    /\ \A i \in Entry :
         call' = [call EXCEPT ![d].pc = "map", ![d].idx = i, ![d].to_unmap = entries[i].handle]
         => New(d, "map", k.want, i, entries[i].handle)
    /\ Full(d) \/ MapFails(d) \/ SendOk(d) \/ SendFails(d) =>
         New(d, "idle", NotAllocd, NoEntry, NotAllocd)
    /\ MapOk(d) => New(d, "unmap", k.want, k.idx, k.to_unmap)
    /\ UnmapEvicted(d) => \/ New(d, "idle", NotAllocd, NoEntry, NotAllocd)
                          \/ New(d, "touch", k.want, k.idx, NotAllocd)
    /\ Touch(d) => New(d, "age", k.want, k.idx, k.to_unmap)
    /\ Aged(d) => New(d, "send", k.want, k.idx, k.to_unmap)
<1> DEFINE k == call[d]
<1>1. /\ call \in [DataPaths -> CallType] /\ k \in CallType /\ age \in Nat
      /\ \A i \in Entry : entries[i].handle \in Handles \cup {NotAllocd}
  BY DEF TypeInv, EntryType
<1>i. Entry \subseteq 0 .. NumEntries  BY SizeType DEF Entry
<1> USE DEF CallPc
<1>a. ASSUME NEW h \in Handles, Begin(d, h) PROVE New(d, "lock", h, NoEntry, NotAllocd)
  <2> DEFINE r == [IdleCall EXCEPT !.pc = "lock", !.want = h]
  <2>1. /\ r \in CallType /\ r.pc = "lock" /\ r.want = h /\ r.idx = NoEntry
        /\ r.to_unmap = NotAllocd
    BY IdleType DEF CallType
  <2>2. call' = [call EXCEPT ![d] = r]  BY <1>a DEF Begin
  <2> HIDE DEF r
  <2> QED BY <2>1, <2>2, CallEffect
<1>b. ASSUME NEW pc \in CallPc, call' = [call EXCEPT ![d].pc = pc]
      PROVE  New(d, pc, k.want, k.idx, k.to_unmap)
  <2> DEFINE r == [k EXCEPT !.pc = pc]
  <2>1. /\ r \in CallType /\ r.pc = pc /\ r.want = k.want /\ r.idx = k.idx
        /\ r.to_unmap = k.to_unmap
    BY <1>1 DEF CallType
  <2>2. call' = [call EXCEPT ![d] = r]  BY <1>1, <1>b
  <2> HIDE DEF r
  <2> QED BY <2>1, <2>2, CallEffect
<1>c. ASSUME Lock(d)
      PROVE  New(d, IF disabled THEN "sweep" ELSE "find", k.want, k.idx, k.to_unmap)
  <2>1. call' = [call EXCEPT ![d].pc = IF disabled THEN "sweep" ELSE "find"]
    BY <1>c DEF Lock
  <2> QED BY <1>b, <2>1
<1>d. ASSUME Sweep(d) PROVE New(d, "find", k.want, k.idx, k.to_unmap)
  <2>1. PICK b \in BOOLEAN : call' = [call EXCEPT ![d].pc = "find", ![d].failed = b]
    BY <1>d DEF Sweep
  <2> DEFINE r == [k EXCEPT !.pc = "find", !.failed = b]
  <2>2. /\ r \in CallType /\ r.pc = "find" /\ r.want = k.want /\ r.idx = k.idx
        /\ r.to_unmap = k.to_unmap
    BY <1>1 DEF CallType
  <2>3. call' = [call EXCEPT ![d] = r]  BY <1>1, <2>1
  <2> HIDE DEF r
  <2> QED BY <2>2, <2>3, CallEffect
<1>e. ASSUME call' = [call EXCEPT ![d] = IdleCall]
      PROVE  New(d, "idle", NotAllocd, NoEntry, NotAllocd)
  BY <1>e, IdleType, CallEffect
<1>f. ASSUME NEW i \in Entry,
             call' = [call EXCEPT ![d] = IF k.failed THEN IdleCall
                                         ELSE [k EXCEPT !.pc = "touch", !.idx = i]]
      PROVE  \/ New(d, "idle", NotAllocd, NoEntry, NotAllocd)
             \/ New(d, "touch", k.want, i, k.to_unmap)
  <2>1. CASE k.failed  BY <1>e, <1>f, <2>1
  <2>2. CASE ~k.failed
    <3> DEFINE r == [k EXCEPT !.pc = "touch", !.idx = i]
    <3>1. /\ r \in CallType /\ r.pc = "touch" /\ r.want = k.want /\ r.idx = i
          /\ r.to_unmap = k.to_unmap
      BY <1>1, <1>i DEF CallType
    <3>2. call' = [call EXCEPT ![d] = r]  BY <1>f, <2>2
    <3> HIDE DEF r
    <3> QED BY <3>1, <3>2, CallEffect
  <2> QED BY <2>1, <2>2
<1>g. ASSUME NEW i \in Entry, call' = [call EXCEPT ![d].pc = "map", ![d].idx = i]
      PROVE  New(d, "map", k.want, i, k.to_unmap)
  <2> DEFINE r == [k EXCEPT !.pc = "map", !.idx = i]
  <2>1. /\ r \in CallType /\ r.pc = "map" /\ r.want = k.want /\ r.idx = i
        /\ r.to_unmap = k.to_unmap
    BY <1>1, <1>i DEF CallType
  <2>2. call' = [call EXCEPT ![d] = r]  BY <1>1, <1>g
  <2> HIDE DEF r
  <2> QED BY <2>1, <2>2, CallEffect
<1>h. ASSUME NEW i \in Entry,
             call' = [call EXCEPT ![d].pc = "map", ![d].idx = i, ![d].to_unmap = entries[i].handle]
      PROVE  New(d, "map", k.want, i, entries[i].handle)
  <2> DEFINE r == [k EXCEPT !.pc = "map", !.idx = i, !.to_unmap = entries[i].handle]
  <2>1. /\ r \in CallType /\ r.pc = "map" /\ r.want = k.want /\ r.idx = i
        /\ r.to_unmap = entries[i].handle
    BY <1>1, <1>i DEF CallType
  <2>2. call' = [call EXCEPT ![d] = r]  BY <1>1, <1>h
  <2> HIDE DEF r
  <2> QED BY <2>1, <2>2, CallEffect
<1>j. ASSUME Full(d) \/ MapFails(d) \/ SendOk(d) \/ SendFails(d)
      PROVE  New(d, "idle", NotAllocd, NoEntry, NotAllocd)
  <2>1. call' = [call EXCEPT ![d] = IdleCall]
    BY <1>j DEF Full, MapFails, SendOk, SendFails
  <2> QED BY <1>e, <2>1
<1>k. ASSUME MapOk(d) PROVE New(d, "unmap", k.want, k.idx, k.to_unmap)
  <2>1. call' = [call EXCEPT ![d].pc = "unmap"]  BY <1>k DEF MapOk
  <2> QED BY <1>b, <2>1
<1>l. ASSUME UnmapEvicted(d)
      PROVE  \/ New(d, "idle", NotAllocd, NoEntry, NotAllocd)
             \/ New(d, "touch", k.want, k.idx, NotAllocd)
  <2>1. \/ call' = [call EXCEPT ![d] = IdleCall]
        \/ call' = [call EXCEPT ![d].pc = "touch", ![d].to_unmap = NotAllocd]
    BY <1>l DEF UnmapEvicted
  <2>2. CASE call' = [call EXCEPT ![d].pc = "touch", ![d].to_unmap = NotAllocd]
    <3> DEFINE r == [k EXCEPT !.pc = "touch", !.to_unmap = NotAllocd]
    <3>1. /\ r \in CallType /\ r.pc = "touch" /\ r.want = k.want /\ r.idx = k.idx
          /\ r.to_unmap = NotAllocd
      BY <1>1 DEF CallType
    <3>2. call' = [call EXCEPT ![d] = r]  BY <1>1, <2>2
    <3> HIDE DEF r
    <3> QED BY <3>1, <3>2, CallEffect
  <2> QED BY <1>e, <2>1, <2>2
<1>m. ASSUME Touch(d) PROVE New(d, "age", k.want, k.idx, k.to_unmap)
  <2> DEFINE r == [k EXCEPT !.pc = "age", !.age = age]
  <2>1. /\ r \in CallType /\ r.pc = "age" /\ r.want = k.want /\ r.idx = k.idx
        /\ r.to_unmap = k.to_unmap
    BY <1>1 DEF CallType
  <2>2. call' = [call EXCEPT ![d] = r]  BY <1>1, <1>m DEF Touch
  <2> HIDE DEF r
  <2> QED BY <2>1, <2>2, CallEffect
<1>n. ASSUME Aged(d) PROVE New(d, "send", k.want, k.idx, k.to_unmap)
  <2>1. call' = [call EXCEPT ![d].pc = "send"]  BY <1>n DEF Aged
  <2> QED BY <1>b, <2>1
<1> HIDE DEF k, CallPc
<1> QED
  BY <1>a, <1>c, <1>d, <1>f, <1>g, <1>h, <1>j, <1>k, <1>l, <1>m, <1>n DEF k

\* Entry i becomes what is given, as far as the invariant looks at it; the others stay.
EntryNow(i, handle, inflight) ==
  /\ entries' \in [Entry -> EntryType]
  /\ entries'[i].handle = handle /\ entries'[i].inflight = inflight
  /\ \A j \in Entry \ {i} : entries'[j] = entries[j]

LEMMA EntryEffect ==
  ASSUME TypeInv, Allocated, NEW i \in Entry, NEW r \in EntryType,
         entries' = [entries EXCEPT ![i] = r]
  PROVE  EntryNow(i, r.handle, r.inflight)
BY DEF TypeInv, EntryNow

LEMMA EntryEffects ==
  ASSUME TypeInv, Allocated, NEW i \in Entry
  PROVE  LET e == entries[i] IN
    /\ e \in EntryType
    /\ \A n \in Int : entries' = [entries EXCEPT ![i].inflight = n] => EntryNow(i, e.handle, n)
    /\ entries' = [entries EXCEPT ![i].inflight = 1] => EntryNow(i, e.handle, 1)
    /\ entries' = [entries EXCEPT ![i].inflight = 0] => EntryNow(i, e.handle, 0)
    /\ entries' = [entries EXCEPT ![i].inflight = @ + 1] => EntryNow(i, e.handle, e.inflight + 1)
    /\ entries' = [entries EXCEPT ![i].inflight = @ - 1] => EntryNow(i, e.handle, e.inflight - 1)
    /\ \A t \in Nat : entries' = [entries EXCEPT ![i].last_used = t] =>
         EntryNow(i, e.handle, e.inflight)
    /\ \A t \in Nat, h \in Handles :
         entries' = [entries EXCEPT ![i].handle = h, ![i].last_used = t] =>
           EntryNow(i, h, e.inflight)
    /\ entries' = [entries EXCEPT ![i] = [Unused EXCEPT !.last_used = Never, !.inflight = 1]] =>
         EntryNow(i, NotAllocd, 1)
<1> DEFINE e == entries[i]
<1>1. entries \in [Entry -> EntryType] /\ e \in EntryType  BY DEF TypeInv
<1>2. ASSUME NEW n \in Int, entries' = [entries EXCEPT ![i].inflight = n]
      PROVE  EntryNow(i, e.handle, n)
  <2> DEFINE r == [e EXCEPT !.inflight = n]
  <2>1. r \in EntryType /\ r.handle = e.handle /\ r.inflight = n  BY <1>1 DEF EntryType
  <2>2. entries' = [entries EXCEPT ![i] = r]  BY <1>1, <1>2
  <2> HIDE DEF r
  <2> QED BY <2>1, <2>2, EntryEffect
<1>3. e.inflight + 1 \in Int /\ e.inflight - 1 \in Int /\ 0 \in Int /\ 1 \in Int
  BY <1>1 DEF EntryType
<1>4. ASSUME NEW t \in Nat, entries' = [entries EXCEPT ![i].last_used = t]
      PROVE  EntryNow(i, e.handle, e.inflight)
  <2> DEFINE r == [e EXCEPT !.last_used = t]
  <2>1. r \in EntryType /\ r.handle = e.handle /\ r.inflight = e.inflight
    BY <1>1 DEF EntryType
  <2>2. entries' = [entries EXCEPT ![i] = r]  BY <1>1, <1>4
  <2> HIDE DEF r
  <2> QED BY <2>1, <2>2, EntryEffect
<1>5. ASSUME NEW t \in Nat, NEW h \in Handles,
             entries' = [entries EXCEPT ![i].handle = h, ![i].last_used = t]
      PROVE  EntryNow(i, h, e.inflight)
  <2> DEFINE r == [e EXCEPT !.handle = h, !.last_used = t]
  <2>1. r \in EntryType /\ r.handle = h /\ r.inflight = e.inflight
    BY <1>1 DEF EntryType
  <2>2. entries' = [entries EXCEPT ![i] = r]  BY <1>1, <1>5
  <2> HIDE DEF r
  <2> QED BY <2>1, <2>2, EntryEffect
<1>6. ASSUME entries' = [entries EXCEPT ![i] = [Unused EXCEPT !.last_used = Never, !.inflight = 1]]
      PROVE  EntryNow(i, NotAllocd, 1)
  <2> DEFINE r == [Unused EXCEPT !.last_used = Never, !.inflight = 1]
  <2>1. Never \in Nat  BY SizeType DEF Never
  <2>2. r \in EntryType /\ r.handle = NotAllocd /\ r.inflight = 1
    <3>1. Unused \in EntryType /\ Unused.handle = NotAllocd  BY DEF Unused, EntryType
    <3>2. ASSUME NEW u \in EntryType, NEW n \in Nat, NEW m \in Int
          PROVE  LET v == [u EXCEPT !.last_used = n, !.inflight = m] IN
                 v \in EntryType /\ v.handle = u.handle /\ v.inflight = m
      BY DEF EntryType
    <3> DEFINE one == 1
    <3>3. one \in Int  OBVIOUS
    <3> HIDE DEF one
    <3>4. LET v == [Unused EXCEPT !.last_used = Never, !.inflight = one] IN
          v \in EntryType /\ v.handle = Unused.handle /\ v.inflight = one
      BY <2>1, <3>1, <3>2, <3>3
    <3> QED BY <3>1, <3>4 DEF one
  <2> HIDE DEF r
  <2> QED BY <1>6, <2>2, EntryEffect DEF r
<1>a. ASSUME entries' = [entries EXCEPT ![i].inflight = 1] PROVE EntryNow(i, e.handle, 1)
  BY <1>2, <1>3, <1>a
<1>b. ASSUME entries' = [entries EXCEPT ![i].inflight = 0] PROVE EntryNow(i, e.handle, 0)
  BY <1>2, <1>3, <1>b
<1>7. entries' = [entries EXCEPT ![i].inflight = @ + 1] =>
        entries' = [entries EXCEPT ![i].inflight = e.inflight + 1]
  OBVIOUS
<1>8. entries' = [entries EXCEPT ![i].inflight = @ - 1] =>
        entries' = [entries EXCEPT ![i].inflight = e.inflight - 1]
  OBVIOUS
<1> HIDE DEF e
<1> QED BY <1>1, <1>2, <1>3, <1>4, <1>5, <1>6, <1>7, <1>8, <1>a, <1>b DEF e

-----------------------------------------------------------------------------
(* What a step of data path d leaves alone. *)

Counted == {"map", "unmap", "touch", "age", "send"}

Frame(d) == \A e \in DataPaths \ {d} :
  call'[e] = call[e] /\ out'[e] = out[e] /\ mode'[e] = mode[e]

SameHandles == /\ Allocated /\ Allocated'
               /\ \A i \in Entry : entries'[i].handle = entries[i].handle

\* Handles change of entries only that nobody uses or that have none.
IdleHandles == /\ Allocated /\ Allocated'
               /\ \A i \in Entry : \/ entries'[i].handle = entries[i].handle
                                   \/ Users(i) = {} \/ entries[i].handle = NotAllocd

LEMMA Domains ==
  ASSUME TypeInv
  PROVE  /\ Allocated => DOMAIN entries = Entry
         /\ ~ Allocated => DOMAIN entries = {}
BY DEF TypeInv, Allocated

LEMMA DomainsNext ==
  ASSUME TypeInv'
  PROVE  /\ Allocated' => DOMAIN entries' = Entry
         /\ ~ Allocated' => DOMAIN entries' = {}
BY DEF TypeInv, Allocated

\* Who has a call under way, a buffer out or an answer keeps the cache allocated.
LEMMA StillThere ==
  ASSUME TypeInv, ModeInv, NEW d \in DataPaths, mode[d] = "extern"
  PROVE  Allocated /\ num_dps > 0
<1>1. d \in Active /\ IsFiniteSet(Active)
  BY DataPathsType, FS_Subset DEF Active
<1>2. Cardinality(Active) # 0 /\ Cardinality(Active) \in Nat
  BY <1>1, FS_EmptySet, FS_CardinalityType
<1> QED BY <1>2 DEF ModeInv, TypeInv

LEMMA SameHolding ==
  ASSUME TypeInv, TypeInv', SameHandles
  PROVE  \A h : Holding(h)' = Holding(h)
<1>1. DOMAIN entries = Entry /\ DOMAIN entries' = Entry
  BY Domains, DomainsNext DEF SameHandles
<1> QED BY <1>1 DEF Holding, SameHandles

LEMMA InUse ==
  ASSUME Inv, Allocated, NEW i \in Entry
  PROVE  Users(i) # {} => entries[i].inflight >= 1
<1>1. IsFiniteSet(Users(i)) /\ Cardinality(Users(i)) <= entries[i].inflight
  BY Domains DEF Inv, CountInv
<1>2. Cardinality(Users(i)) \in Nat /\ (Users(i) # {} => Cardinality(Users(i)) # 0)
  BY <1>1, FS_EmptySet, FS_CardinalityType
<1>3. entries[i].inflight \in Int  BY DEF Inv, TypeInv, EntryType
<1> QED BY <1>1, <1>2, <1>3

LEMMA OthersKept ==
  ASSUME Inv, TypeInv', NEW d \in DataPaths, Frame(d),
         \A e \in DataPaths \ {d} :
           done'.pc = "copied" /\ done'.dp = e => done.pc = "copied" /\ done.dp = e,
         \A e \in DataPaths \ {d} : lock' = e <=> lock = e,
         SameHandles \/ (lock = d /\ IdleHandles)
  PROVE  /\ \A e \in DataPaths \ {d} : CallOK(e)'
         /\ \A e \in DataPaths : out'[e] = out[e] => OutOK(e)'
         /\ done' = done => DoneOK'
<1>0. TypeInv /\ NotAllocd \notin Handles  BY HandlesType DEF Inv
<1>h. ASSUME NEW i \in Entry, NEW u \in Users(i), entries[i].handle # NotAllocd
      PROVE  entries'[i].handle = entries[i].handle
  BY <1>h DEF SameHandles, IdleHandles
<1>1. ASSUME NEW e \in DataPaths \ {d} PROVE CallOK(e)'
  <2> DEFINE k == call[e]
  <2>1. call'[e] = k /\ out'[e] = out[e] /\ mode'[e] = mode[e] /\ k \in CallType
    BY <1>0 DEF Frame, TypeInv
  <2>2. CallOK(e)  BY DEF Inv
  <2>3. k.pc \in {"touch", "age", "send"} => entries'[k.idx].handle = k.want
    <3>1. SUFFICES ASSUME k.pc \in {"touch", "age", "send"}
                   PROVE  entries'[k.idx].handle = k.want
      OBVIOUS
    <3>2. k.idx \in Entry /\ k.want \in Handles /\ entries[k.idx].handle = k.want
      BY <2>2, <3>1 DEF CallOK
    <3>3. <<e, 0>> \in Users(k.idx)  BY <3>1 DEF Users, Uses
    <3> QED BY <1>0, <1>h, <3>2, <3>3
  <2>4. CASE SameHandles
    <3>1. \A h : Holding(h)' = Holding(h)  BY <1>0, <2>4, SameHolding
    <3>2. k.idx \in Entry => entries'[k.idx].handle = entries[k.idx].handle
      BY <2>4 DEF SameHandles
    <3> QED BY <2>1, <2>2, <3>1, <3>2 DEF CallOK, Free
  <2>5. CASE lock = d
    <3>1. k.pc \notin Holder  BY <2>2, <2>5 DEF CallOK
    <3>2. k.to_unmap = NotAllocd  BY <2>2, <3>1 DEF CallOK, Holder
    <3> QED BY <2>1, <2>2, <2>3, <3>1, <3>2 DEF CallOK, Free, Holder
  <2> QED BY <2>4, <2>5
<1>2. ASSUME NEW e \in DataPaths, out'[e] = out[e] PROVE OutOK(e)'
  <2>1. out'[e] = out[e] /\ OutOK(e) /\ out[e] \in Seq(OutType)
    BY <1>0, <1>2 DEF Inv, TypeInv
  <2>2. ASSUME NEW k \in DOMAIN out[e]
        PROVE  entries'[out[e][k].idx].handle = out[e][k].handle
    <3>0. out[e][k] \in OutType  BY <2>1
    <3>1. out[e][k].idx \in Entry /\ out[e][k].handle \in Handles
      BY <3>0 DEF OutType
    <3>2. <<e, k>> \in Users(out[e][k].idx)  BY <2>1 DEF Users, Uses
    <3> QED BY <1>0, <1>h, <2>1, <3>1, <3>2 DEF OutOK
  <2> QED BY <2>1, <2>2 DEF OutOK
<1>3. ASSUME done' = done PROVE DoneOK'
  <2>1. DoneOK  BY DEF Inv
  <2>2. CASE done.pc = "copied"
    <3>1. <<done.dp, -1>> \in Users(done.idx)  BY <2>1, <2>2 DEF DoneOK, Users, Uses
    <3> QED BY <1>0, <1>3, <1>h, <2>1, <2>2, <3>1 DEF DoneOK
  <2> QED BY <1>3, <2>1, <2>2 DEF DoneOK
<1> QED BY <1>1, <1>2, <1>3

\* The call of d uses the entry of its record, whatever else uses that.
LEMMA UsersAfter ==
  ASSUME NEW d \in DataPaths, Frame(d), done' = done, out'[d] = out[d]
  PROVE  \A i : Users(i)' \subseteq
           IF call'[d].pc \in Counted /\ call'[d].idx = i THEN Users(i) \cup {<<d, 0>>}
           ELSE Users(i)
<1> SUFFICES ASSUME NEW i, NEW e \in DataPaths, NEW k \in Int, Uses(e, k, i)'
             PROVE  \/ Uses(e, k, i)
                    \/ e = d /\ k = 0 /\ call'[d].pc \in Counted /\ call'[d].idx = i
  BY DEF Users
<1>1. CASE e # d  BY <1>1 DEF Uses, Frame
<1>2. CASE e = d  BY <1>2 DEF Uses, Counted
<1> QED BY <1>1, <1>2

LEMMA NotMore ==
  ASSUME Inv, TypeInv', Allocated, Allocated',
         \A i \in Entry : \/ /\ Users(i)' \subseteq Users(i)
                             /\ entries'[i].inflight >= entries[i].inflight
                          \/ \E x : /\ Users(i)' \subseteq Users(i) \cup {x}
                                    /\ entries'[i].inflight = entries[i].inflight + 1
                          \/ /\ IsFiniteSet(Users(i)')
                             /\ Cardinality(Users(i)') <= entries'[i].inflight
  PROVE  CountInv'
<1>1. DOMAIN entries = Entry /\ DOMAIN entries' = Entry
  BY Domains, DomainsNext DEF Inv
<1>2. ASSUME NEW i \in Entry
      PROVE  IsFiniteSet(Users(i)') /\ Cardinality(Users(i)') <= entries'[i].inflight
  <2>1. /\ IsFiniteSet(Users(i)) /\ Cardinality(Users(i)) <= entries[i].inflight
        /\ entries[i].inflight \in Int /\ entries'[i].inflight \in Int
        /\ Cardinality(Users(i)) \in Nat
    BY <1>1, FS_CardinalityType DEF Inv, CountInv, TypeInv, EntryType, Allocated
  <2> DEFINE V == Users(i)'
  <2>2. CASE V \subseteq Users(i) /\ entries'[i].inflight >= entries[i].inflight
    <3>1. IsFiniteSet(V) /\ Cardinality(V) <= Cardinality(Users(i)) /\ Cardinality(V) \in Nat
      BY <2>1, <2>2, CountSubset
    <3> QED BY <2>1, <2>2, <3>1
  <2>3. ASSUME NEW x, V \subseteq Users(i) \cup {x},
               entries'[i].inflight = entries[i].inflight + 1
        PROVE  IsFiniteSet(V) /\ Cardinality(V) <= entries'[i].inflight
    <3>1. IsFiniteSet(V) /\ Cardinality(V) <= Cardinality(Users(i)) + 1
      BY <2>1, <2>3, CountOne
    <3>2. Cardinality(V) \in Nat  BY <3>1, FS_CardinalityType
    <3> QED BY <2>1, <2>3, <3>1, <3>2
  <2> HIDE DEF V
  <2> QED BY <2>2, <2>3 DEF V
<1> QED BY <1>1, <1>2 DEF CountInv

LEMMA ModeKept ==
  ASSUME ModeInv, mode' = mode, num_dps' = num_dps, Allocated' = Allocated,
         lost \subseteq lost'
  PROVE  ModeInv'
BY DEF ModeInv, Active

LEMMA OneKept ==
  ASSUME TypeInv, TypeInv', OneEntry, Allocated, Allocated',
         \A i \in Entry : entries'[i].handle \in {entries[i].handle, NotAllocd}
  PROVE  OneEntry'
<1>1. DOMAIN entries = Entry /\ DOMAIN entries' = Entry
  BY Domains, DomainsNext
<1> QED BY <1>1 DEF OneEntry

LEMMA SpfKept ==
  ASSUME SpfInv, spf' = spf, lost \subseteq lost',
         \A h \in Handles : Believed(h)' <=> Believed(h)
  PROVE  SpfInv'
BY DEF SpfInv

\* An entry without memory is used by the call that is about to map some, and only by it.
LEMMA UnmappedUsers ==
  ASSUME Inv, NEW i \in Entry, entries[i].handle = NotAllocd, NEW u \in Users(i)
  PROVE  u = <<u[1], 0>> /\ lock = u[1] /\ call[u[1]].pc = "map" /\ call[u[1]].idx = i
<1>0. NotAllocd \notin Handles /\ TypeInv  BY HandlesType DEF Inv
<1>1. PICK d \in DataPaths, k \in Int : u = <<d, k>> /\ Uses(d, k, i)  BY DEF Users
<1>2. CallOK(d) /\ OutOK(d) /\ DoneOK  BY DEF Inv
<1>3. CASE k \in DOMAIN out[d] /\ out[d][k].idx = i
  <2>1. out[d][k] \in OutType  BY <1>0, <1>3 DEF TypeInv
  <2> QED BY <1>0, <1>2, <1>3, <2>1 DEF OutOK, OutType
<1>4. CASE k = -1 /\ done.pc = "copied" /\ done.dp = d /\ done.idx = i
  BY <1>0, <1>2, <1>4 DEF DoneOK
<1>5. CASE k = 0 /\ call[d].pc \in Counted /\ call[d].idx = i
  BY <1>0, <1>1, <1>2, <1>5 DEF CallOK, Counted, Holder
<1> QED BY <1>1, <1>3, <1>4, <1>5 DEF Uses, Counted

\* A step of a call keeps what is not about its own record and the DSP's memory.
LEMMA CallChange ==
  ASSUME Inv, TypeInv', NEW d \in DataPaths, Frame(d),
         out' = out, mode' = mode, done' = done, num_dps' = num_dps, lost \subseteq lost',
         \A e \in DataPaths \ {d} : lock' = e <=> lock = e,
         SameHandles \/ (lock = d /\ IdleHandles),
         \A i \in Entry :
           LET n == entries[i].inflight
               m == entries'[i].inflight
           IN  \/ /\ m = n
                  /\ call'[d].pc \in Counted /\ call'[d].idx = i =>
                       call[d].pc \in Counted /\ call[d].idx = i
               \/ m = n + 1
               \/ m = 1 /\ Users(i) = {}
               \/ m = 0 /\ Users(i)' = {}
  PROVE  /\ ModeInv' /\ DoneOK' /\ CountInv'
         /\ \A e \in DataPaths \ {d} : CallOK(e)'
         /\ \A e \in DataPaths : OutOK(e)'
<1>0. /\ Allocated /\ Allocated' /\ TypeInv  BY DEF SameHandles, IdleHandles, Inv
<1>1. ModeInv'  BY <1>0, ModeKept DEF Inv
<1>2. /\ DoneOK' /\ \A e \in DataPaths \ {d} : CallOK(e)'
      /\ \A e \in DataPaths : OutOK(e)'
  BY OthersKept
<1>3. CountInv'
  <2>1. \A i : Users(i)' \subseteq
          IF call'[d].pc \in Counted /\ call'[d].idx = i THEN Users(i) \cup {<<d, 0>>}
          ELSE Users(i)
    BY UsersAfter
  <2>2. ASSUME NEW i \in Entry
        PROVE  \/ /\ Users(i)' \subseteq Users(i)
                  /\ entries'[i].inflight >= entries[i].inflight
               \/ \E x : /\ Users(i)' \subseteq Users(i) \cup {x}
                         /\ entries'[i].inflight = entries[i].inflight + 1
               \/ /\ IsFiniteSet(Users(i)')
                  /\ Cardinality(Users(i)') <= entries'[i].inflight
    <3> DEFINE n == entries[i].inflight
               m == entries'[i].inflight
    <3>0. n \in Int /\ m \in Int  BY <1>0 DEF TypeInv, EntryType, Allocated
    <3>1. CASE m = n /\ (call'[d].pc \in Counted /\ call'[d].idx = i =>
                           call[d].pc \in Counted /\ call[d].idx = i)
      <4>1. call[d].pc \in Counted /\ call[d].idx = i => <<d, 0>> \in Users(i)
        BY DEF Users, Uses, Counted
      <4>2. Users(i)' \subseteq Users(i)  BY <2>1, <3>1, <4>1
      <4> QED BY <3>0, <3>1, <4>2
    <3>2. CASE m = n + 1
      <4>1. Users(i)' \subseteq Users(i) \cup {<<d, 0>>}  BY <2>1
      <4> QED BY <3>2, <4>1
    <3>3. CASE m = 1 /\ Users(i) = {}
      <4>1. Users(i)' \subseteq {<<d, 0>>}  BY <2>1, <3>3
      <4>2. IsFiniteSet({<<d, 0>>}) /\ Cardinality({<<d, 0>>}) = 1  BY FS_Singleton
      <4>3. IsFiniteSet(Users(i)') /\ Cardinality(Users(i)') <= 1
        BY <4>1, <4>2, FS_Subset
      <4> QED BY <3>3, <4>3
    <3>4. CASE m = 0 /\ Users(i)' = {}
      BY <3>4, FS_EmptySet
    <3> QED BY <3>1, <3>2, <3>3, <3>4
  <2> QED BY <1>0, <2>2, NotMore
<1> QED BY <1>1, <1>2, <1>3

LEMMA BelievedKept ==
  ASSUME TypeInv, TypeInv', SameHandles, NEW d \in DataPaths, Frame(d),
         \A h \in Handles :
           call'[d].pc \in {"map", "unmap"} /\ call'[d].to_unmap = h
             <=> call[d].pc \in {"map", "unmap"} /\ call[d].to_unmap = h
  PROVE  \A h \in Handles : Believed(h)' <=> Believed(h)
<1>1. \A h : Holding(h)' = Holding(h)  BY SameHolding
<1>2. ASSUME NEW h \in Handles, NEW e \in DataPaths
      PROVE  call'[e].pc \in {"map", "unmap"} /\ call'[e].to_unmap = h
               <=> call[e].pc \in {"map", "unmap"} /\ call[e].to_unmap = h
  <2>1. CASE e = d  BY <2>1
  <2>2. CASE e # d  BY <2>2 DEF Frame
  <2> QED BY <2>1, <2>2
<1> QED BY <1>1, <1>2 DEF Believed

\* A step that moves no memory keeps the invariant if it keeps what is about its record.
LEMMA QuietStep ==
  ASSUME Inv, TypeInv', NEW d \in DataPaths, Frame(d), SameHandles,
         out' = out, mode' = mode, done' = done, num_dps' = num_dps, spf' = spf,
         lost \subseteq lost',
         \A e \in DataPaths \ {d} : lock' = e <=> lock = e,
         \A i \in Entry :
           LET n == entries[i].inflight
               m == entries'[i].inflight
           IN  \/ /\ m = n
                  /\ call'[d].pc \in Counted /\ call'[d].idx = i =>
                       call[d].pc \in Counted /\ call[d].idx = i
               \/ m = n + 1
               \/ m = 1 /\ Users(i) = {}
               \/ m = 0 /\ Users(i)' = {},
         \A h \in Handles :
           call'[d].pc \in {"map", "unmap"} /\ call'[d].to_unmap = h
             <=> call[d].pc \in {"map", "unmap"} /\ call[d].to_unmap = h,
         CallOK(d)'
  PROVE  Inv'
<1>1. /\ ModeInv' /\ DoneOK' /\ CountInv'
      /\ \A e \in DataPaths \ {d} : CallOK(e)'
      /\ \A e \in DataPaths : OutOK(e)'
  BY CallChange
<1>2. OneEntry'  BY OneKept DEF Inv, SameHandles
<1>3. SpfInv'
  <2>1. \A h \in Handles : Believed(h)' <=> Believed(h)  BY BelievedKept DEF Inv
  <2> QED BY <2>1, SpfKept DEF Inv
<1> QED BY <1>1, <1>2, <1>3 DEF Inv

\* Where a data path with a call under way stands.
LEMMA InCall ==
  ASSUME Inv, NEW d \in DataPaths, call[d].pc # "idle"
  PROVE  /\ TypeInv /\ Allocated /\ CallOK(d) /\ mode[d] = "extern" /\ call[d] \in CallType
         /\ entries \in [Entry -> EntryType] /\ NotAllocd \notin Handles
         /\ call[d].want \in Handles
BY StillThere, HandlesType DEF Inv, CallOK, TypeInv

LEMMA BeginStep ==
  ASSUME Inv, NEW d \in DataPaths, NEW h \in Handles, Begin(d, h) PROVE Inv'
<1>1. /\ TypeInv /\ Allocated /\ CallOK(d) /\ mode[d] = "extern" /\ call[d].pc = "idle"
      /\ entries' = entries /\ lock' = lock /\ NotAllocd \notin Handles
      /\ out' = out /\ mode' = mode /\ done' = done /\ num_dps' = num_dps /\ spf' = spf
      /\ lost' = lost
  BY StillThere, HandlesType DEF Inv, Begin
<1>2. New(d, "lock", h, NoEntry, NotAllocd)  BY <1>1, CallEffects DEF Begin
<1>3. TypeInv'  BY <1>1, <1>2 DEF TypeInv, Begin, New, Allocated
<1>4. SameHandles /\ Frame(d)  BY <1>1, <1>2 DEF SameHandles, Allocated, Frame, New
<1>5. CallOK(d)'
  BY <1>1, <1>2 DEF CallOK, Free, New, Holder
<1> QED BY <1>1, <1>2, <1>3, <1>4, <1>5, QuietStep DEF New, Counted

LEMMA LockStep ==
  ASSUME Inv, NEW d \in DataPaths, Lock(d) PROVE Inv'
<1> DEFINE pc == IF disabled THEN "sweep" ELSE "find"
<1>0. pc \in {"sweep", "find"}  OBVIOUS
<1>1. /\ TypeInv /\ Allocated /\ CallOK(d) /\ mode[d] = "extern" /\ call[d].pc = "lock"
      /\ entries' = entries /\ lock = "free" /\ lock' = d /\ call[d].want \in Handles
      /\ out' = out /\ mode' = mode /\ done' = done /\ num_dps' = num_dps /\ spf' = spf
      /\ lost' = lost
  BY InCall DEF Lock
<1>2. New(d, pc, call[d].want, call[d].idx, call[d].to_unmap)  BY <1>1, CallEffects
<1> HIDE DEF pc
<1>3. TypeInv'  BY <1>1, <1>2 DEF TypeInv, Lock, New, Allocated
<1>4. SameHandles /\ Frame(d)  BY <1>1, <1>2 DEF SameHandles, Allocated, Frame, New
<1>5. CallOK(d)'
  <2>1. \A h : Holding(h)' = Holding(h)  BY <1>1, <1>3, <1>4, SameHolding
  <2> QED BY <1>0, <1>1, <1>2, <2>1 DEF CallOK, Free, New, Holder
<1>6. \A e \in DataPaths \ {d} : lock' = e <=> lock = e  BY <1>1, DataPathsType
<1> QED BY <1>0, <1>1, <1>2, <1>3, <1>4, <1>5, <1>6, QuietStep DEF New, Counted

LEMMA FullStep ==
  ASSUME Inv, NEW d \in DataPaths, Full(d) PROVE Inv'
<1>1. /\ TypeInv /\ Allocated /\ CallOK(d) /\ mode[d] = "extern" /\ call[d].pc = "find"
      /\ entries' = entries /\ lock = d /\ lock' = "free"
      /\ out' = out /\ mode' = mode /\ done' = done /\ num_dps' = num_dps /\ spf' = spf
      /\ lost' = lost
  BY InCall DEF Full, Miss, CallOK, Holder
<1>2. New(d, "idle", NotAllocd, NoEntry, NotAllocd)  BY <1>1, CallEffects
<1>3. TypeInv'  BY <1>1, <1>2 DEF TypeInv, Full, New, Allocated
<1>4. SameHandles /\ Frame(d)  BY <1>1, <1>2 DEF SameHandles, Allocated, Frame, New
<1>5. CallOK(d)'
  BY <1>1, <1>2, DataPathsType DEF CallOK, Free, New, Holder
<1>6. \A e \in DataPaths \ {d} : lock' = e <=> lock = e  BY <1>1, DataPathsType
<1> QED BY <1>1, <1>2, <1>3, <1>4, <1>5, <1>6, QuietStep DEF New, Counted

LEMMA TouchStep ==
  ASSUME Inv, NEW d \in DataPaths, Touch(d) PROVE Inv'
<1>1. /\ TypeInv /\ Allocated /\ CallOK(d) /\ mode[d] = "extern" /\ call[d].pc = "touch"
      /\ entries' = entries /\ lock' = lock /\ call[d].want \in Handles
      /\ out' = out /\ mode' = mode /\ done' = done /\ num_dps' = num_dps /\ spf' = spf
      /\ lost' = lost
  BY InCall DEF Touch
<1>2. New(d, "age", call[d].want, call[d].idx, call[d].to_unmap)  BY <1>1, CallEffects
<1>3. TypeInv'  BY <1>1, <1>2 DEF TypeInv, Touch, New, Allocated
<1>4. SameHandles /\ Frame(d)  BY <1>1, <1>2 DEF SameHandles, Allocated, Frame, New
<1>5. CallOK(d)'
  <2>1. \A h : Holding(h)' = Holding(h)  BY <1>1, <1>3, <1>4, SameHolding
  <2> QED BY <1>1, <1>2, <2>1 DEF CallOK, Free, New, Holder
<1> QED BY <1>1, <1>2, <1>3, <1>4, <1>5, QuietStep DEF New, Counted

LEMMA AgedStep ==
  ASSUME Inv, NEW d \in DataPaths, Aged(d) PROVE Inv'
<1> DEFINE i == call[d].idx
<1>1. /\ TypeInv /\ Allocated /\ CallOK(d) /\ mode[d] = "extern" /\ call[d].pc = "age"
      /\ lock' = lock /\ call[d].want \in Handles /\ i \in Entry /\ call[d].age \in Nat
      /\ out' = out /\ mode' = mode /\ done' = done /\ num_dps' = num_dps /\ spf' = spf
      /\ lost' = lost /\ uses' = uses /\ disabled' = disabled /\ age' \in Nat
      /\ entries' = [entries EXCEPT ![i].last_used = call[d].age]
  BY InCall DEF Aged, CallOK, CallType
<1>2. New(d, "send", call[d].want, call[d].idx, call[d].to_unmap)  BY <1>1, CallEffects
<1>e. EntryNow(i, entries[i].handle, entries[i].inflight)  BY <1>1, EntryEffects
<1>a. Allocated'  BY <1>1, <1>e, SizeType DEF Allocated, EntryNow, Entry
<1>3. TypeInv'  BY <1>1, <1>2, <1>e DEF TypeInv, New, EntryNow
<1>4. SameHandles /\ Frame(d)
  BY <1>1, <1>2, <1>a, <1>e DEF SameHandles, Frame, New, EntryNow
<1>5. CallOK(d)'
  <2>1. \A h : Holding(h)' = Holding(h)  BY <1>1, <1>3, <1>4, SameHolding
  <2> QED BY <1>1, <1>2, <1>4, <2>1 DEF CallOK, Free, New, Holder, SameHandles
<1>6. \A j \in Entry : entries'[j].inflight = entries[j].inflight  BY <1>e DEF EntryNow
<1> QED BY <1>1, <1>2, <1>3, <1>4, <1>5, <1>6, QuietStep DEF New, Counted

LEMMA SendFailsStep ==
  ASSUME Inv, NEW d \in DataPaths, SendFails(d) PROVE Inv'
<1>1. /\ TypeInv /\ Allocated /\ CallOK(d) /\ mode[d] = "extern" /\ call[d].pc = "send"
      /\ entries' = entries /\ lock' = lock
      /\ out' = out /\ mode' = mode /\ done' = done /\ num_dps' = num_dps /\ spf' = spf
      /\ lost \subseteq lost'
  BY InCall DEF SendFails
<1>2. New(d, "idle", NotAllocd, NoEntry, NotAllocd)  BY <1>1, CallEffects
<1>3. TypeInv'  BY <1>1, <1>2 DEF TypeInv, SendFails, New, Allocated
<1>4. SameHandles /\ Frame(d)  BY <1>1, <1>2 DEF SameHandles, Allocated, Frame, New
<1>5. CallOK(d)'
  BY <1>1, <1>2 DEF CallOK, Free, New, Holder
<1> QED BY <1>1, <1>2, <1>3, <1>4, <1>5, QuietStep DEF New, Counted

LEMMA HitStep ==
  ASSUME Inv, NEW d \in DataPaths, Hit(d) PROVE Inv'
<1> DEFINE i == Least(Holding(call[d].want), LAMBDA j : j)
<1>1. /\ TypeInv /\ Allocated /\ CallOK(d) /\ mode[d] = "extern" /\ call[d].pc = "find"
      /\ lock = d /\ lock' = "free" /\ call[d].want \in Handles /\ NotAllocd \notin Handles
      /\ call[d].to_unmap = NotAllocd
      /\ out' = out /\ mode' = mode /\ done' = done /\ num_dps' = num_dps /\ spf' = spf
      /\ lost' = lost /\ uses' = uses /\ disabled' = disabled /\ age' = age
      /\ entries' = [entries EXCEPT ![i].inflight = @ + 1]
      /\ call' = [call EXCEPT ![d] =
           IF call[d].failed THEN IdleCall ELSE [call[d] EXCEPT !.pc = "touch", !.idx = i]]
  BY InCall, SMTT(30) DEF Hit, CallOK, Holder
<1>i. i \in Entry /\ entries[i].handle = call[d].want
  <2>1. i \in Holding(call[d].want)  BY <1>1, LeastHeld DEF Hit
  <2> QED BY <1>1, <2>1, Domains DEF Holding
<1> HIDE DEF i
<1>2. \/ New(d, "idle", NotAllocd, NoEntry, NotAllocd)
      \/ New(d, "touch", call[d].want, i, call[d].to_unmap)
  BY <1>1, <1>i, CallEffects
<1>e. EntryNow(i, entries[i].handle, entries[i].inflight + 1)  BY <1>1, <1>i, EntryEffects
<1>a. Allocated'  BY <1>1, <1>i, <1>e, SizeType DEF Allocated, EntryNow, Entry
<1>3. TypeInv'  BY <1>1, <1>2, <1>e DEF TypeInv, New, EntryNow
<1>4. SameHandles /\ Frame(d)
  BY <1>1, <1>2, <1>a, <1>e DEF SameHandles, Frame, New, EntryNow
<1>5. CallOK(d)'
  <2>1. \A h : Holding(h)' = Holding(h)  BY <1>1, <1>3, <1>4, SameHolding
  <2>2. CASE New(d, "idle", NotAllocd, NoEntry, NotAllocd)
    BY <1>1, <2>2, DataPathsType DEF CallOK, Free, New, Holder
  <2>3. CASE New(d, "touch", call[d].want, i, call[d].to_unmap)
    BY <1>1, <1>i, <1>4, <2>1, <2>3, DataPathsType DEF CallOK, Free, New, Holder, SameHandles
  <2> QED BY <1>2, <2>2, <2>3
<1>6. \A e \in DataPaths \ {d} : lock' = e <=> lock = e  BY <1>1, DataPathsType
<1>7. \A j \in Entry :
        \/ /\ entries'[j].inflight = entries[j].inflight
           /\ ~ (call'[d].pc \in Counted /\ call'[d].idx = j)
        \/ entries'[j].inflight = entries[j].inflight + 1
  BY <1>2, <1>e DEF EntryNow, New, Counted
<1> QED BY <1>1, <1>2, <1>3, <1>4, <1>5, <1>6, <1>7, QuietStep DEF New

LEMMA TakeUnusedStep ==
  ASSUME Inv, NEW d \in DataPaths, TakeUnused(d) PROVE Inv'
<1> DEFINE i == Least(Holding(NotAllocd), LAMBDA j : j)
<1>1. /\ TypeInv /\ Allocated /\ CallOK(d) /\ mode[d] = "extern" /\ call[d].pc = "find"
      /\ lock = d /\ lock' = lock /\ call[d].want \in Handles /\ NotAllocd \notin Handles
      /\ call[d].to_unmap = NotAllocd /\ Holding(call[d].want) = {}
      /\ out' = out /\ mode' = mode /\ done' = done /\ num_dps' = num_dps /\ spf' = spf
      /\ lost' = lost /\ uses' = uses /\ disabled' = disabled /\ age' = age
      /\ entries' = [entries EXCEPT ![i].inflight = 1]
      /\ call' = [call EXCEPT ![d].pc = "map", ![d].idx = i]
  BY InCall DEF TakeUnused, Miss, CallOK, Holder
<1>i. i \in Entry /\ entries[i].handle = NotAllocd
  <2>1. i \in Holding(NotAllocd)  BY <1>1, LeastHeld DEF TakeUnused
  <2> QED BY <1>1, <2>1, Domains DEF Holding
<1> HIDE DEF i
<1>2. New(d, "map", call[d].want, i, NotAllocd)  BY <1>1, <1>i, CallEffects
<1>e. EntryNow(i, entries[i].handle, 1)  BY <1>1, <1>i, EntryEffects
<1>a. Allocated'  BY <1>1, <1>i, <1>e, SizeType DEF Allocated, EntryNow, Entry
<1>3. TypeInv'  BY <1>1, <1>2, <1>e DEF TypeInv, New, EntryNow
<1>4. SameHandles /\ Frame(d)
  BY <1>1, <1>2, <1>a, <1>e DEF SameHandles, Frame, New, EntryNow
<1>5. CallOK(d)'
  <2>1. \A h : Holding(h)' = Holding(h)  BY <1>1, <1>3, <1>4, SameHolding
  <2> QED BY <1>1, <1>2, <1>i, <1>4, <2>1 DEF CallOK, Free, New, Holder, SameHandles
<1>6. Users(i) = {}  BY <1>1, <1>i, UnmappedUsers
<1>7. \A j \in Entry :
        \/ /\ entries'[j].inflight = entries[j].inflight
           /\ ~ (call'[d].pc \in Counted /\ call'[d].idx = j)
        \/ entries'[j].inflight = 1 /\ Users(j) = {}
  BY <1>2, <1>e, <1>6 DEF EntryNow, New, Counted
<1> QED BY <1>1, <1>2, <1>3, <1>4, <1>5, <1>7, QuietStep DEF New

\* Only the call that holds the lock has something to unmap.
LEMMA BelievedLocked ==
  ASSUME Inv, NEW d \in DataPaths, lock = d, Frame(d)
  PROVE  /\ \A h : Believed(h) <=>
              \/ Holding(h) # {}
              \/ call[d].pc \in {"map", "unmap"} /\ call[d].to_unmap = h
         /\ \A h : Believed(h)' <=>
              \/ Holding(h)' # {}
              \/ call'[d].pc \in {"map", "unmap"} /\ call'[d].to_unmap = h
<1>1. \A e \in DataPaths \ {d} : call[e].pc \notin {"map", "unmap"} /\ call'[e] = call[e]
  BY DEF Inv, CallOK, Holder, Frame
<1> QED BY <1>1 DEF Believed

\* After a failure only what is believed to be mapped need be.
LEMMA SpfLost ==
  ASSUME SpfInv, spf' = spf, lost' \cap {"MAP", "UNMAP"} # {},
         \A h \in Handles : Believed(h)' => Believed(h)
  PROVE  SpfInv'
BY DEF SpfInv

LEMMA MapFailsStep ==
  ASSUME Inv, NEW d \in DataPaths, MapFails(d) PROVE Inv'
<1>0. PICK i : i = call[d].idx  OBVIOUS
<1>1. /\ TypeInv /\ Allocated /\ CallOK(d) /\ mode[d] = "extern" /\ call[d].pc = "map"
      /\ lock = d /\ lock' = "free" /\ call[d].want \in Handles /\ NotAllocd \notin Handles
      /\ i \in Entry /\ entries[i].handle = NotAllocd
      /\ out' = out /\ mode' = mode /\ done' = done /\ num_dps' = num_dps /\ spf' = spf
      /\ lost \subseteq lost' /\ uses' = uses /\ disabled' = disabled /\ age' = age
      /\ entries' = [entries EXCEPT ![i].inflight = 0]
      /\ call[d].to_unmap # NotAllocd => "MAP" \in lost'
  BY <1>0, InCall DEF MapFails, CallOK, Holder
<1>2. New(d, "idle", NotAllocd, NoEntry, NotAllocd)  BY <1>1, CallEffects
<1>e. EntryNow(i, entries[i].handle, 0)  BY <1>1, EntryEffects
<1>a. Allocated'  BY <1>1, <1>e, SizeType DEF Allocated, EntryNow, Entry
<1>3. TypeInv'  BY <1>1, <1>2, <1>e DEF TypeInv, New, EntryNow
<1>4. SameHandles /\ Frame(d)
  BY <1>1, <1>2, <1>a, <1>e DEF SameHandles, Frame, New, EntryNow
<1>5. CallOK(d)'
  BY <1>1, <1>2, DataPathsType DEF CallOK, Free, New, Holder
<1>6. \A e \in DataPaths \ {d} : lock' = e <=> lock = e  BY <1>1, DataPathsType
<1>7. Users(i)' = {}
  <2>1. SUFFICES ASSUME NEW e \in DataPaths, NEW k \in Int, Uses(e, k, i)' PROVE FALSE
    BY DEF Users
  <2>0. 0 \notin DOMAIN out'[d]  BY <1>3 DEF TypeInv
  <2>2. ~ (e = d /\ k = 0)  BY <1>2, <2>0, <2>1 DEF Uses, New
  <2>3. Uses(e, k, i)  BY <1>1, <1>4, <2>1, <2>2 DEF Uses, Frame
  <2>4. <<e, k>> \in Users(i)  BY <2>3 DEF Users
  <2> QED BY <1>1, <2>2, <2>4, UnmappedUsers
<1>8. \A j \in Entry :
        \/ /\ entries'[j].inflight = entries[j].inflight
           /\ ~ (call'[d].pc \in Counted /\ call'[d].idx = j)
        \/ entries'[j].inflight = 0 /\ Users(j)' = {}
  BY <1>2, <1>e, <1>7 DEF EntryNow, New, Counted
<1>9. /\ ModeInv' /\ DoneOK' /\ CountInv'
      /\ \A e \in DataPaths \ {d} : CallOK(e)'
      /\ \A e \in DataPaths : OutOK(e)'
  BY <1>1, <1>3, <1>4, <1>6, <1>8, CallChange
<1>10. OneEntry'  BY <1>1, <1>3, <1>4, OneKept DEF Inv, SameHandles
<1>11. SpfInv'
  <2>1. \A h : Holding(h)' = Holding(h)  BY <1>1, <1>3, <1>4, SameHolding
  <2>2. \A h \in Handles :
          Believed(h)' <=> Believed(h) /\ (Holding(h) # {} \/ call[d].to_unmap # h)
    <3>1. \A h : Believed(h) <=>
            \/ Holding(h) # {}
            \/ call[d].pc \in {"map", "unmap"} /\ call[d].to_unmap = h
      BY <1>1, <1>4, BelievedLocked
    <3>2. \A h : Believed(h)' <=>
            \/ Holding(h)' # {}
            \/ call'[d].pc \in {"map", "unmap"} /\ call'[d].to_unmap = h
      BY <1>1, <1>4, BelievedLocked
    <3> QED BY <1>1, <1>2, <2>1, <3>1, <3>2 DEF New
  <2>3. CASE call[d].to_unmap = NotAllocd
    BY <1>1, <2>2, <2>3, SpfKept DEF Inv
  <2>4. CASE call[d].to_unmap # NotAllocd
    BY <1>1, <2>2, <2>4, SpfLost DEF Inv
  <2> QED BY <2>3, <2>4
<1> QED BY <1>3, <1>5, <1>9, <1>10, <1>11 DEF Inv

LEMMA UnmapEvictedStep ==
  ASSUME Inv, NEW d \in DataPaths, UnmapEvicted(d) PROVE Inv'
<1> DEFINE g == call[d].to_unmap
<1>1. /\ TypeInv /\ Allocated /\ CallOK(d) /\ mode[d] = "extern" /\ call[d].pc = "unmap"
      /\ lock = d /\ lock' = "free" /\ call[d].want \in Handles /\ NotAllocd \notin Handles
      /\ g \in Handles \cup {NotAllocd} /\ entries' = entries
      /\ out' = out /\ mode' = mode /\ done' = done /\ num_dps' = num_dps
      /\ lost \subseteq lost' /\ uses' = uses /\ disabled' = disabled /\ age' = age
  BY InCall DEF UnmapEvicted, CallOK, Holder, CallType
<1>2. \/ New(d, "idle", NotAllocd, NoEntry, NotAllocd)
      \/ New(d, "touch", call[d].want, call[d].idx, NotAllocd)
  BY <1>1, CallEffects
<1>s. \/ g = NotAllocd /\ spf' = spf
      \/ g # NotAllocd /\ spf' = [spf EXCEPT ![g] = @ - 1]
      \/ g # NotAllocd /\ spf' = spf /\ "UNMAP" \in lost'
  BY DEF UnmapEvicted
<1>4. SameHandles /\ Frame(d)  BY <1>1, <1>2 DEF SameHandles, Allocated, Frame, New
<1>b. /\ \A h : Believed(h) <=> Holding(h) # {} \/ g = h
      /\ \A h : Believed(h)' <=>
           Holding(h)' # {} \/ (call'[d].pc \in {"map", "unmap"} /\ call'[d].to_unmap = h)
  BY <1>1, <1>4, BelievedLocked
<1>c. g \in Handles => spf[g] \in Nat /\ spf[g] >= 1 /\ Holding(g) = {}
  BY <1>1, <1>b DEF Inv, SpfInv, TypeInv, CallOK, Free
<1> HIDE DEF g
<1>d. spf' \in [Handles -> Nat]
  <2>1. spf \in [Handles -> Nat]  BY <1>1 DEF TypeInv
  <2>2. CASE spf' = spf  BY <2>1, <2>2
  <2>3. CASE g # NotAllocd /\ spf' = [spf EXCEPT ![g] = @ - 1]
    <3>1. spf[g] - 1 \in Nat  BY <1>1, <1>c, <2>3
    <3> QED BY <2>1, <2>3, <3>1
  <2> QED BY <1>s, <2>2, <2>3
<1>3. TypeInv'  BY <1>1, <1>2, <1>d, DataPathsType DEF TypeInv, New, Allocated
<1>h. \A h : Holding(h)' = Holding(h)  BY <1>1, <1>3, <1>4, SameHolding
<1>5. CallOK(d)'
  <2>2. CASE New(d, "idle", NotAllocd, NoEntry, NotAllocd)
    BY <1>1, <2>2, DataPathsType DEF CallOK, Free, New, Holder
  <2>3. CASE New(d, "touch", call[d].want, call[d].idx, NotAllocd)
    BY <1>1, <1>4, <1>h, <2>3, DataPathsType DEF CallOK, Free, New, Holder, SameHandles
  <2> QED BY <1>2, <2>2, <2>3
<1>6. \A e \in DataPaths \ {d} : lock' = e <=> lock = e  BY <1>1, DataPathsType
<1>8. \A j \in Entry :
        /\ entries'[j].inflight = entries[j].inflight
        /\ call'[d].pc \in Counted /\ call'[d].idx = j =>
             call[d].pc \in Counted /\ call[d].idx = j
  BY <1>1, <1>2 DEF New, Counted
<1>9. /\ ModeInv' /\ DoneOK' /\ CountInv'
      /\ \A e \in DataPaths \ {d} : CallOK(e)'
      /\ \A e \in DataPaths : OutOK(e)'
  BY <1>1, <1>3, <1>4, <1>6, <1>8, CallChange
<1>10. OneEntry'  BY <1>1, <1>3, <1>4, OneKept DEF Inv, SameHandles
<1>11. SpfInv'
  <2>1. \A h \in Handles : Believed(h)' <=> Holding(h) # {}
    BY <1>1, <1>2, <1>b, <1>h DEF New
  <2>2. CASE g = NotAllocd /\ spf' = spf
    BY <1>1, <1>b, <2>1, <2>2, SpfKept DEF Inv
  <2>3. CASE spf' = spf /\ "UNMAP" \in lost'
    BY <1>1, <1>b, <2>1, <2>3, SpfLost DEF Inv
  <2>4. CASE g # NotAllocd /\ spf' = [spf EXCEPT ![g] = @ - 1]
    <3>1. ASSUME NEW h \in Handles
          PROVE  /\ Believed(h)' => spf'[h] >= 1
                 /\ lost' \cap {"MAP", "UNMAP"} = {} =>
                      spf'[h] = IF Believed(h)' THEN 1 ELSE 0
      <4>0. spf \in [Handles -> Nat] /\ SpfInv /\ g \in Handles
        BY <1>1, <2>4 DEF Inv, TypeInv
      <4>1. CASE h = g
        <5>1. ~ Believed(h)' /\ Believed(h) /\ spf'[h] = spf[h] - 1
          BY <1>b, <1>c, <2>1, <2>4, <4>0, <4>1
        <5> QED BY <1>1, <4>0, <5>1 DEF SpfInv
      <4>2. CASE h # g
        <5>1. (Believed(h)' <=> Believed(h)) /\ spf'[h] = spf[h]
          BY <1>b, <2>1, <2>4, <4>0, <4>2
        <5> QED BY <1>1, <4>0, <5>1 DEF SpfInv
      <4> QED BY <4>1, <4>2
    <3> QED BY <3>1 DEF SpfInv
  <2> QED BY <1>s, <2>2, <2>3, <2>4
<1> QED BY <1>3, <1>5, <1>9, <1>10, <1>11 DEF Inv

\* No two entries hold the same memory, so what is unmapped of it counts once.
LEMMA HeldOnce ==
  ASSUME Inv, NEW h \in Handles, NEW S \in SUBSET Holding(h)
  PROVE  /\ S = {} => Cardinality(S) = 0
         /\ S # {} => Cardinality(S) = 1 /\ S = Holding(h) /\ Believed(h) /\ spf[h] >= 1
         /\ spf[h] \in Nat /\ Cardinality(S) \in Nat
<1>1. spf[h] \in Nat /\ NotAllocd # h  BY HandlesType DEF Inv, TypeInv
<1>2. S = {} => Cardinality(S) = 0  BY FS_EmptySet
<1>3. ASSUME S # {} PROVE Cardinality(S) = 1 /\ S = Holding(h)
  <2>1. PICK i \in S : TRUE  BY <1>3
  <2>2. \A j \in Holding(h) : j = i  BY <1>1, <2>1 DEF Holding, Inv, OneEntry
  <2>3. S = {i} /\ Holding(h) = {i}  BY <2>1, <2>2
  <2> QED BY <2>3, FS_Singleton
<1>4. S # {} => Believed(h) /\ spf[h] >= 1  BY DEF Inv, SpfInv, Believed
<1> QED BY <1>1, <1>2, <1>3, <1>4

LEMMA EvictStep ==
  ASSUME Inv, NEW d \in DataPaths, Evict(d) PROVE Inv'
<1> DEFINE least == Least(Evictable, LAMBDA j : entries[j].last_used)
<1>0. PICK i : i = least  OBVIOUS
<1>i. i \in Entry /\ entries[i].inflight = 0 /\ TypeInv /\ Allocated
  <2>1. TypeInv /\ Allocated /\ i \in Evictable
    BY <1>0, InCall, LeastUsed DEF Evict, Miss
  <2> QED BY <2>1, Domains DEF Evictable
<1>1. /\ CallOK(d) /\ mode[d] = "extern" /\ call[d].pc = "find"
      /\ lock = d /\ lock' = lock /\ call[d].want \in Handles /\ NotAllocd \notin Handles
      /\ call[d].to_unmap = NotAllocd /\ Holding(call[d].want) = {}
      /\ Holding(NotAllocd) = {}
      /\ out' = out /\ mode' = mode /\ done' = done /\ num_dps' = num_dps /\ spf' = spf
      /\ lost' = lost /\ uses' = uses /\ disabled' = disabled /\ age' = age
      /\ entries' = [entries EXCEPT ![i] = [Unused EXCEPT !.last_used = Never, !.inflight = 1]]
      /\ call' = [call EXCEPT ![d].pc = "map", ![d].idx = i, ![d].to_unmap = entries[i].handle]
  BY <1>0, InCall DEF Evict, Miss, CallOK, Holder
<1>g. PICK g \in Handles : entries[i].handle = g
  <2>1. entries[i].handle \in Handles \cup {NotAllocd}  BY <1>i DEF TypeInv, EntryType
  <2>2. entries[i].handle # NotAllocd  BY <1>1, <1>i, Domains DEF Holding
  <2> QED BY <2>1, <2>2
<1>2. New(d, "map", call[d].want, i, g)  BY <1>1, <1>g, <1>i, CallEffects
<1>e. EntryNow(i, NotAllocd, 1)  BY <1>1, <1>i, EntryEffects
<1>a. Allocated'  BY <1>i, <1>e, SizeType DEF Allocated, EntryNow, Entry
<1>3. TypeInv'  BY <1>1, <1>i, <1>2, <1>e DEF TypeInv, New, EntryNow
<1>6. Users(i) = {}  BY <1>i, InUse
<1>4. IdleHandles /\ Frame(d)
  BY <1>1, <1>i, <1>2, <1>6, <1>a, <1>e DEF IdleHandles, Frame, New, EntryNow
<1>h. \A h \in Handles : Holding(h)' = Holding(h) \ {i}
  <2>1. DOMAIN entries = Entry /\ DOMAIN entries' = Entry
    BY <1>i, <1>a, <1>3, Domains, DomainsNext
  <2> QED BY <1>1, <1>i, <1>e, <2>1 DEF Holding, EntryNow
<1>k. Holding(g) = {i}
  <2>1. i \in Holding(g)  BY <1>i, <1>g, Domains DEF Holding
  <2> QED BY <1>1, <1>g, <2>1 DEF Holding, Inv, OneEntry
<1>5. CallOK(d)'
  <2>0. PICK w \in Handles : w = call[d].want  BY <1>1
  <2>1. Holding(g)' = {} /\ Holding(w)' = {} /\ w # g
    BY <1>1, <1>h, <1>k, <2>0
  <2>2. entries'[i].handle = NotAllocd  BY <1>e DEF EntryNow
  <2> QED BY <1>1, <1>2, <1>i, <2>0, <2>1, <2>2 DEF CallOK, Free, New, Holder
<1>7. \A j \in Entry :
        \/ /\ entries'[j].inflight = entries[j].inflight
           /\ ~ (call'[d].pc \in Counted /\ call'[d].idx = j)
        \/ entries'[j].inflight = 1 /\ Users(j) = {}
  BY <1>2, <1>e, <1>6 DEF EntryNow, New, Counted
<1>9. /\ ModeInv' /\ DoneOK' /\ CountInv'
      /\ \A e \in DataPaths \ {d} : CallOK(e)'
      /\ \A e \in DataPaths : OutOK(e)'
  BY <1>1, <1>3, <1>4, <1>7, CallChange
<1>10. OneEntry'
  BY <1>i, <1>3, <1>a, <1>e, OneKept DEF Inv, EntryNow
<1>11. SpfInv'
  <2>1. \A h : Believed(h) <=> Holding(h) # {} \/ FALSE
    BY <1>1, <1>4, BelievedLocked
  <2>2. \A h : Believed(h)' <=> Holding(h)' # {} \/ g = h
    BY <1>1, <1>2, <1>4, BelievedLocked DEF New
  <2>3. \A h \in Handles : Believed(h)' <=> Believed(h)
    <3>1. ASSUME NEW h \in Handles, h # g PROVE i \notin Holding(h)
      BY <1>g, <3>1 DEF Holding
    <3> QED BY <1>h, <1>k, <2>1, <2>2, <3>1
  <2> QED BY <1>1, <2>3, SpfKept DEF Inv
<1> QED BY <1>3, <1>5, <1>9, <1>10, <1>11 DEF Inv

LEMMA MapOkStep ==
  ASSUME Inv, NEW d \in DataPaths, MapOk(d) PROVE Inv'
<1>0. PICK i, w, g : i = call[d].idx /\ w = call[d].want /\ g = call[d].to_unmap  OBVIOUS
<1>1. /\ TypeInv /\ Allocated /\ CallOK(d) /\ mode[d] = "extern" /\ call[d].pc = "map"
      /\ lock = d /\ lock' = lock /\ w \in Handles /\ NotAllocd \notin Handles
      /\ i \in Entry /\ entries[i].handle = NotAllocd /\ Holding(w) = {} /\ w # g
      /\ out' = out /\ mode' = mode /\ done' = done /\ num_dps' = num_dps
      /\ spf' = [spf EXCEPT ![w] = @ + 1] /\ age \in Nat
      /\ lost' = lost /\ uses' = uses /\ disabled' = disabled /\ age' = age
      /\ entries' = [entries EXCEPT ![i].handle = w, ![i].last_used = age]
      /\ (g # NotAllocd => Holding(g) = {})
  BY <1>0, InCall DEF MapOk, CallOK, Holder, TypeInv, Free
<1>2. New(d, "unmap", w, i, g)  BY <1>0, <1>1, CallEffects
<1>e. EntryNow(i, w, entries[i].inflight)  BY <1>1, EntryEffects
<1>a. Allocated'  BY <1>1, <1>e, SizeType DEF Allocated, EntryNow, Entry
<1>s. spf \in [Handles -> Nat] /\ spf' \in [Handles -> Nat]
  <2>1. spf \in [Handles -> Nat] /\ spf[w] + 1 \in Nat  BY <1>1 DEF TypeInv
  <2> QED BY <1>1, <2>1
<1>3. TypeInv'  BY <1>1, <1>2, <1>e, <1>s DEF TypeInv, New, EntryNow
<1>4. IdleHandles /\ Frame(d)
  BY <1>1, <1>2, <1>a, <1>e DEF IdleHandles, Frame, New, EntryNow
<1>h. \A h \in Handles : Holding(h)' = IF h = w THEN {i} ELSE Holding(h)
  <2>1. DOMAIN entries = Entry /\ DOMAIN entries' = Entry
    BY <1>1, <1>a, <1>3, Domains, DomainsNext
  <2>2. ASSUME NEW h \in Handles, NEW j
        PROVE  j \in Holding(h)' <=> j \in (IF h = w THEN {i} ELSE Holding(h))
    <3>1. CASE j = i  BY <1>1, <1>e, <2>1, <3>1 DEF Holding, EntryNow
    <3>2. CASE j # i  BY <1>1, <1>e, <2>1, <3>2 DEF Holding, EntryNow
    <3> QED BY <3>1, <3>2
  <2> QED BY <2>2
<1>5. CallOK(d)'
  <2>1. g # NotAllocd => Holding(g)' = {}
    <3>1. g \in Handles \cup {NotAllocd}  BY <1>0, <1>1 DEF TypeInv, CallType
    <3> QED BY <1>1, <1>h, <3>1
  <2>2. entries'[i].handle = w  BY <1>e DEF EntryNow
  <2> QED BY <1>1, <1>2, <2>1, <2>2 DEF CallOK, Free, New, Holder
<1>7. \A j \in Entry :
        /\ entries'[j].inflight = entries[j].inflight
        /\ call'[d].pc \in Counted /\ call'[d].idx = j =>
             call[d].pc \in Counted /\ call[d].idx = j
  BY <1>0, <1>1, <1>2, <1>e DEF EntryNow, New, Counted
<1>9. /\ ModeInv' /\ DoneOK' /\ CountInv'
      /\ \A e \in DataPaths \ {d} : CallOK(e)'
      /\ \A e \in DataPaths : OutOK(e)'
  BY <1>1, <1>3, <1>4, <1>7, CallChange
<1>10. OneEntry'
  <2>1. DOMAIN entries = Entry /\ DOMAIN entries' = Entry
    BY <1>1, <1>a, <1>3, Domains, DomainsNext
  <2>2. \A j \in Entry : entries[j].handle # w  BY <1>1, <2>1 DEF Holding
  <2> QED BY <1>e, <2>1, <2>2 DEF Inv, OneEntry, EntryNow
<1>11. SpfInv'
  <2>1. \A h : Believed(h) <=> Holding(h) # {} \/ g = h
    BY <1>0, <1>1, <1>4, BelievedLocked
  <2>2. \A h : Believed(h)' <=> Holding(h)' # {} \/ g = h
    BY <1>1, <1>2, <1>4, BelievedLocked DEF New
  <2>3. ASSUME NEW h \in Handles
        PROVE  /\ Believed(h)' => spf'[h] >= 1
               /\ lost' \cap {"MAP", "UNMAP"} = {} =>
                    spf'[h] = IF Believed(h)' THEN 1 ELSE 0
    <3>0. SpfInv  BY DEF Inv
    <3>1. CASE h = w
      <4>1. ~ Believed(h) /\ Believed(h)' /\ spf'[h] = spf[h] + 1 /\ spf[h] \in Nat
        BY <1>1, <1>h, <1>s, <2>1, <2>2, <3>1
      <4> QED BY <1>1, <3>0, <4>1 DEF SpfInv
    <3>2. CASE h # w
      <4>1. (Believed(h)' <=> Believed(h)) /\ spf'[h] = spf[h]
        BY <1>1, <1>h, <1>s, <2>1, <2>2, <3>2
      <4> QED BY <1>1, <3>0, <4>1 DEF SpfInv
    <3> QED BY <3>1, <3>2
  <2> QED BY <2>3 DEF SpfInv
<1> QED BY <1>3, <1>5, <1>9, <1>10, <1>11 DEF Inv

LEMMA SweepStep ==
  ASSUME Inv, NEW d \in DataPaths, Sweep(d) PROVE Inv'
<1>0. PICK w, swept : w = call[d].want /\ swept = Swept(w)  OBVIOUS
<1>1. /\ TypeInv /\ Allocated /\ CallOK(d) /\ mode[d] = "extern" /\ call[d].pc = "sweep"
      /\ lock = d /\ lock' = lock /\ w \in Handles /\ NotAllocd \notin Handles
      /\ call[d].to_unmap = NotAllocd /\ entries \in [Entry -> EntryType]
      /\ out' = out /\ mode' = mode /\ done' = done /\ num_dps' = num_dps
      /\ uses' = uses /\ disabled' = disabled /\ age' = age
      /\ entries' = [i \in Entry |-> IF i \in swept THEN [entries[i] EXCEPT !.handle = NotAllocd]
                                     ELSE entries[i]]
  BY <1>0, InCall DEF Sweep, CallOK, Holder
<1>f. PICK failed \in SUBSET swept :
        /\ spf' = [h \in Handles |->
             spf[h] - Cardinality({i \in swept \ failed : entries[i].handle = h})]
        /\ lost \subseteq lost' /\ (failed # {} => "UNMAP" \in lost')
  BY <1>0 DEF Sweep
<1>2. New(d, "find", call[d].want, call[d].idx, call[d].to_unmap)  BY <1>1, CallEffects
<1>e. /\ entries' \in [Entry -> EntryType]
      /\ \A i \in Entry : /\ entries'[i].inflight = entries[i].inflight
                          /\ entries'[i].handle = IF i \in swept THEN NotAllocd
                                                  ELSE entries[i].handle
  <2>1. ASSUME NEW i \in Entry
        PROVE  /\ entries'[i] \in EntryType /\ entries'[i].inflight = entries[i].inflight
               /\ entries'[i].handle = IF i \in swept THEN NotAllocd ELSE entries[i].handle
    BY <1>1 DEF EntryType
  <2> QED BY <1>1, <2>1
<1>a. Allocated'
  <2>1. 1 \in Entry  BY SizeType DEF Entry
  <2> QED BY <1>e, <2>1 DEF Allocated
<1>d. DOMAIN entries = Entry /\ DOMAIN entries' = Entry  BY <1>1, <1>e
<1>w. /\ swept \subseteq Entry
      /\ \A i \in swept : Users(i) = {} /\ entries[i].handle # NotAllocd
  BY <1>0, <1>1, InUse DEF Swept
<1>c. \A h \in Handles :
        /\ {i \in swept \ failed : entries[i].handle = h} \in SUBSET Holding(h)
        /\ Holding(h)' = {i \in Holding(h) : i \notin swept}
  BY <1>1, <1>d, <1>e, <1>w DEF Holding
<1>s. \A h \in Handles :
        LET S == {i \in swept \ failed : entries[i].handle = h} IN
        /\ spf'[h] = spf[h] - Cardinality(S) /\ spf[h] \in Nat /\ Cardinality(S) \in Nat
        /\ S = {} => Cardinality(S) = 0
        /\ S # {} => Cardinality(S) = 1 /\ S = Holding(h) /\ Believed(h) /\ spf[h] >= 1
  BY <1>c, <1>f, HeldOnce
<1>t. spf' \in [Handles -> Nat]
  <2>1. ASSUME NEW h \in Handles PROVE spf'[h] \in Nat
    <3> DEFINE S == {i \in swept \ failed : entries[i].handle = h}
    <3>1. /\ spf'[h] = spf[h] - Cardinality(S) /\ spf[h] \in Nat
          /\ S = {} => Cardinality(S) = 0
          /\ S # {} => Cardinality(S) = 1 /\ spf[h] >= 1
      BY <1>s
    <3> HIDE DEF S
    <3> QED BY <3>1
  <2> QED BY <1>f, <2>1
<1>3. TypeInv'  BY <1>1, <1>2, <1>e, <1>t DEF TypeInv, New
<1>4. IdleHandles /\ Frame(d)
  BY <1>1, <1>2, <1>a, <1>e, <1>w DEF IdleHandles, Frame, New
<1>5. CallOK(d)'
  BY <1>0, <1>1, <1>2 DEF CallOK, Free, New, Holder
<1>7. \A j \in Entry :
        /\ entries'[j].inflight = entries[j].inflight
        /\ ~ (call'[d].pc \in Counted /\ call'[d].idx = j)
  BY <1>2, <1>e DEF New, Counted
<1>9. /\ ModeInv' /\ DoneOK' /\ CountInv'
      /\ \A e \in DataPaths \ {d} : CallOK(e)'
      /\ \A e \in DataPaths : OutOK(e)'
  BY <1>1, <1>f, <1>3, <1>4, <1>7, CallChange
<1>10. OneEntry'
  BY <1>1, <1>3, <1>a, <1>e, OneKept DEF Inv
<1>11. SpfInv'
  <2>1. \A h : Believed(h) <=> Holding(h) # {} \/ FALSE
    BY <1>1, <1>4, BelievedLocked
  <2>2. \A h : Believed(h)' <=> Holding(h)' # {} \/ FALSE
    BY <1>1, <1>2, <1>4, BelievedLocked DEF New
  <2>3. ASSUME NEW h \in Handles
        PROVE  /\ Believed(h)' => spf'[h] >= 1
               /\ lost' \cap {"MAP", "UNMAP"} = {} =>
                    spf'[h] = IF Believed(h)' THEN 1 ELSE 0
    <3> DEFINE S == {i \in swept \ failed : entries[i].handle = h}
    <3>0. /\ SpfInv /\ S \in SUBSET Holding(h)
          /\ Holding(h)' = {i \in Holding(h) : i \notin swept}
          /\ spf'[h] = spf[h] - Cardinality(S) /\ spf[h] \in Nat /\ Cardinality(S) \in Nat
          /\ S = {} => Cardinality(S) = 0
          /\ S # {} => Cardinality(S) = 1 /\ S = Holding(h) /\ Believed(h) /\ spf[h] >= 1
      BY <1>c, <1>s DEF Inv
    <3>1. CASE S # {}
      <4>1. Holding(h)' = {}  BY <3>0, <3>1
      <4>2. ~ Believed(h)' /\ Believed(h) /\ spf'[h] = spf[h] - 1
        BY <2>2, <3>0, <3>1, <4>1
      <4> QED BY <1>f, <3>0, <4>2 DEF SpfInv
    <3>2. CASE S = {}
      <4>1. spf'[h] = spf[h]  BY <3>0, <3>2
      <4>2. Believed(h)' => Believed(h)  BY <2>1, <2>2, <3>0
      <4>3. lost' \cap {"MAP", "UNMAP"} = {} => Holding(h)' = Holding(h)
        <5>1. failed = {} => \A i \in swept : entries[i].handle # h  BY <3>2
        <5> QED BY <1>f, <3>0, <5>1 DEF Holding
      <4> HIDE DEF S
      <4>4. lost' \cap {"MAP", "UNMAP"} = {} => (Believed(h)' <=> Believed(h))
        BY <2>1, <2>2, <4>3
      <4>5. Believed(h)' => spf'[h] >= 1  BY <3>0, <4>1, <4>2 DEF SpfInv
      <4>6. lost' \cap {"MAP", "UNMAP"} = {} => lost \cap {"MAP", "UNMAP"} = {}
        BY <1>f
      <4> QED BY <3>0, <4>1, <4>4, <4>5, <4>6 DEF SpfInv
    <3> QED BY <3>1, <3>2
  <2> QED BY <2>3 DEF SpfInv
<1> QED BY <1>3, <1>5, <1>9, <1>10, <1>11 DEF Inv

LEMMA SendOkStep ==
  ASSUME Inv, NEW d \in DataPaths, SendOk(d) PROVE Inv'
<1>0. PICK i, w, n : i = call[d].idx /\ w = call[d].want /\ n = Len(out[d])  OBVIOUS
<1> DEFINE b == [idx |-> i, handle |-> w]
<1>1. /\ TypeInv /\ Allocated /\ CallOK(d) /\ mode[d] = "extern" /\ call[d].pc = "send"
      /\ i \in Entry /\ w \in Handles /\ entries[i].handle = w
      /\ entries' = entries /\ lock' = lock /\ mode' = mode /\ done' = done
      /\ num_dps' = num_dps /\ spf' = spf /\ lost' = lost
      /\ uses' = uses /\ disabled' = disabled /\ age' = age
      /\ out' = [out EXCEPT ![d] = Append(out[d], b)]
  BY <1>0, InCall DEF SendOk, CallOK
<1>2. New(d, "idle", NotAllocd, NoEntry, NotAllocd)  BY <1>1, CallEffects
<1>o. /\ out \in [DataPaths -> Seq(OutType)] /\ out[d] \in Seq(OutType) /\ b \in OutType
      /\ n \in Nat /\ DOMAIN out[d] = 1 .. n /\ out' \in [DataPaths -> Seq(OutType)]
      /\ \A e \in DataPaths \ {d} : out'[e] = out[e]
      /\ out'[d] = Append(out[d], b)
  <2>1. out \in [DataPaths -> Seq(OutType)] /\ out[d] \in Seq(OutType) /\ b \in OutType
    BY <1>1 DEF TypeInv, OutType
  <2> HIDE DEF b
  <2>2. Append(out[d], b) \in Seq(OutType)  BY <2>1
  <2> QED BY <1>0, <1>1, <2>1, <2>2
<1>p. /\ DOMAIN out'[d] = 1 .. n + 1 /\ out'[d][n + 1] = b
      /\ \A k \in 1 .. n : out'[d][k] = out[d][k]
  <2> HIDE DEF b
  <2> QED BY <1>0, <1>o
<1>b. b.idx = i /\ b.handle = w  OBVIOUS
<1> HIDE DEF b
<1>3. TypeInv'  BY <1>1, <1>2, <1>o DEF TypeInv, New, Allocated
<1>4. SameHandles /\ Frame(d)
  BY <1>1, <1>2, <1>o DEF SameHandles, Allocated, Frame, New
<1>5. CallOK(d)'
  BY <1>1, <1>2 DEF CallOK, Free, New, Holder
<1>6. /\ DoneOK' /\ \A e \in DataPaths \ {d} : CallOK(e)' /\ OutOK(e)'
  BY <1>1, <1>3, <1>4, <1>o, OthersKept
<1>7. OutOK(d)'
  <2>1. ASSUME NEW k \in 1 .. n + 1 PROVE entries'[out'[d][k].idx].handle = out'[d][k].handle
    <3>1. CASE k = n + 1  BY <1>1, <1>b, <1>p, <3>1
    <3>2. CASE k \in 1 .. n  BY <1>1, <1>o, <1>p, <3>2 DEF Inv, OutOK
    <3> QED BY <1>o, <3>1, <3>2
  <2> QED BY <1>p, <2>1 DEF OutOK
<1>8. CountInv'
  <2>1. ASSUME NEW j \in Entry
        PROVE  IsFiniteSet(Users(j)') /\ Cardinality(Users(j)') <= entries'[j].inflight
    <3> DEFINE U == Users(j)'
               V == Users(j)
               f == [u \in U |-> IF u = <<d, n + 1>> THEN <<d, 0>> ELSE u]
    <3>0. /\ IsFiniteSet(V) /\ Cardinality(V) <= entries[j].inflight
          /\ entries[j].inflight \in Int /\ entries' = entries
      BY <1>1, Domains DEF Inv, CountInv, TypeInv, EntryType
    <3>1. ASSUME NEW e \in DataPaths, NEW k \in Int, Uses(e, k, j)'
          PROVE  /\ ~ (e = d /\ k = 0)
                 /\ e = d /\ k = n + 1 => j = i
                 /\ ~ (e = d /\ k = n + 1) => Uses(e, k, j)
      <4>1. CASE e # d  BY <1>1, <1>4, <3>1, <4>1 DEF Uses, Frame
      <4>2. CASE e = d
        <5>1. call'[d].pc = "idle" /\ done' = done  BY <1>1, <1>2 DEF New
        <5>2. CASE k = -1 /\ done'.pc = "copied" /\ done'.dp = d /\ done'.idx = j
          BY <1>o, <4>2, <5>1, <5>2 DEF Uses
        <5>3. CASE k \in DOMAIN out'[d] /\ out'[d][k].idx = j
          BY <1>b, <1>o, <1>p, <4>2, <5>3 DEF Uses
        <5> QED BY <3>1, <4>2, <5>1, <5>2, <5>3 DEF Uses
      <4> QED BY <4>1, <4>2
    <3>2. j = i => <<d, 0>> \in V  BY <1>0, <1>1 DEF Users, Uses
    <3>3. \A u \in U : u = <<u[1], u[2]>> /\ u[1] \in DataPaths /\ u[2] \in Int
                       /\ Uses(u[1], u[2], j)'
      BY DEF Users
    <3>4. \A u \in U : u # <<d, 0>> /\ (u = <<d, n + 1>> => j = i)
                       /\ (u # <<d, n + 1>> => u \in V)
      <4>1. SUFFICES ASSUME NEW u \in U
                     PROVE  u # <<d, 0>> /\ (u = <<d, n + 1>> => j = i)
                            /\ (u # <<d, n + 1>> => u \in V)
        OBVIOUS
      <4>2. PICK e \in DataPaths, k \in Int : u = <<e, k>> /\ Uses(e, k, j)'
        BY DEF Users
      <4> QED BY <3>1, <4>2 DEF Users
    <3> HIDE DEF U, V
    <3>5. f \in [U -> V]  BY <3>2, <3>4
    <3>6. \A x, y \in U : f[x] = f[y] => x = y  BY <3>4
    <3> HIDE DEF f
    <3>7. IsFiniteSet(U) /\ Cardinality(U) <= Cardinality(V)
      BY <3>0, <3>5, <3>6, CountInjected
    <3>8. Cardinality(U) \in Nat /\ Cardinality(V) \in Nat
      BY <3>0, <3>7, FS_CardinalityType
    <3>9. IsFiniteSet(U) /\ Cardinality(U) <= entries'[j].inflight
      BY <3>0, <3>7, <3>8
    <3> QED BY <3>9 DEF U
  <2> QED BY <1>1, <1>3, <1>4, <2>1, NotMore DEF SameHandles
<1>9. ModeInv' /\ OneEntry'
  BY <1>1, <1>3, <1>4, ModeKept, OneKept DEF Inv, SameHandles
<1>10. SpfInv'
  <2>1. \A h \in Handles : Believed(h)' <=> Believed(h)
    BY <1>1, <1>2, <1>3, <1>4, BelievedKept DEF New
  <2> QED BY <1>1, <2>1, SpfKept DEF Inv
<1> QED BY <1>3, <1>5, <1>6, <1>7, <1>8, <1>9, <1>10 DEF Inv

LEMMA ReceiveStep ==
  ASSUME Inv, NEW d \in DataPaths, Receive(d) PROVE Inv'
<1>n. PICK n : n = Len(out[d])  OBVIOUS
<1>0. PICK k \in 1 .. Len(out[d]) :
        /\ done.pc = "idle" /\ entries # <<>>
        /\ done' = [pc |-> "copied", dp |-> d, idx |-> out[d][k].idx, sent |-> out[d][k].handle,
                    handle |-> entries[out[d][k].idx].handle]
        /\ out' = [out EXCEPT ![d] = RemoveAt(@, k)]
        /\ UNCHANGED <<disabled, entries, age, num_dps, lock, mode, call, spf, lost, uses>>
  BY DEF Receive
<1>t. TypeInv /\ Allocated /\ CallOK(d) /\ OutOK(d)  BY <1>0 DEF Inv, Allocated
<1>o. /\ out \in [DataPaths -> Seq(OutType)] /\ out[d] \in Seq(OutType) /\ n \in Nat
      /\ k \in 1 .. n /\ DOMAIN out[d] = 1 .. n /\ out[d][k] \in OutType
  BY <1>0, <1>n, <1>t DEF TypeInv
<1>b. PICK i \in Entry, w \in Handles : out[d][k].idx = i /\ out[d][k].handle = w
  BY <1>o DEF OutType
<1>h. entries[i].handle = w  BY <1>b, <1>o, <1>t DEF OutOK
<1>1. /\ mode[d] = "extern" /\ done' \in DoneType /\ done'.pc = "copied" /\ done'.dp = d
      /\ done'.idx = i /\ done'.sent = w /\ done'.handle = w
  <2>1. out[d] # <<>>  BY <1>o
  <2>2. i \in 0 .. NumEntries  BY SizeType DEF Entry
  <2> QED BY <1>0, <1>b, <1>h, <1>t, <2>1, <2>2 DEF CallOK, DoneType
<1>p. /\ RemoveAt(out[d], k) \in Seq(OutType) /\ Len(RemoveAt(out[d], k)) = n - 1
      /\ \A j \in 1 .. n - 1 : RemoveAt(out[d], k)[j] = IF j < k THEN out[d][j] ELSE out[d][j + 1]
  BY <1>0, <1>n, <1>o, RemoveAtOK
<1>q. /\ out' \in [DataPaths -> Seq(OutType)] /\ DOMAIN out'[d] = 1 .. n - 1
      /\ \A j \in 1 .. n - 1 : out'[d][j] = IF j < k THEN out[d][j] ELSE out[d][j + 1]
      /\ \A e \in DataPaths \ {d} : out'[e] = out[e]
  BY <1>0, <1>o, <1>p
<1>3. TypeInv'  BY <1>0, <1>1, <1>q, <1>t DEF TypeInv, Allocated
<1>4. SameHandles /\ Frame(d)
  BY <1>0, <1>q, <1>t DEF SameHandles, Allocated, Frame
<1>5. CallOK(d)'
  <2>1. \A h : Holding(h)' = Holding(h)  BY <1>t, <1>3, <1>4, SameHolding
  <2> QED BY <1>0, <1>1, <1>t, <2>1 DEF CallOK, Free
<1>6. \A e \in DataPaths \ {d} : CallOK(e)' /\ OutOK(e)'
  BY <1>0, <1>1, <1>3, <1>4, <1>q, OthersKept
<1>7. OutOK(d)' /\ DoneOK'
  <2>1. ASSUME NEW j \in 1 .. n - 1
        PROVE  entries'[out'[d][j].idx].handle = out'[d][j].handle
    <3>1. j \in 1 .. n /\ j + 1 \in 1 .. n  BY <1>o
    <3>2. \A l \in 1 .. n : entries[out[d][l].idx].handle = out[d][l].handle
      BY <1>o, <1>t DEF OutOK
    <3>3. entries' = entries /\ out'[d][j] \in {out[d][j], out[d][j + 1]}
      BY <1>0, <1>q
    <3> QED BY <3>1, <3>2, <3>3
  <2> QED BY <1>0, <1>1, <1>h, <1>q, <2>1 DEF OutOK, DoneOK
<1>8. CountInv'
  <2>1. ASSUME NEW m \in Entry
        PROVE  IsFiniteSet(Users(m)') /\ Cardinality(Users(m)') <= entries'[m].inflight
    <3> DEFINE U == Users(m)'
               V == Users(m)
               to(u) == IF u[2] = -1 THEN k ELSE IF u[2] >= k THEN u[2] + 1 ELSE u[2]
               f == [u \in U |-> <<u[1], IF u[1] = d THEN to(u) ELSE u[2]>>]
    <3>0. /\ IsFiniteSet(V) /\ Cardinality(V) <= entries[m].inflight
          /\ entries[m].inflight \in Int /\ entries' = entries
      BY <1>0, <1>t, Domains DEF Inv, CountInv, TypeInv, EntryType
    <3>1. ASSUME NEW e \in DataPaths, NEW j \in Int, Uses(e, j, m)'
          PROVE  /\ e # d => Uses(e, j, m)
                 /\ e = d => Uses(d, to(<<e, j>>), m) /\ to(<<e, j>>) \in Int
                 /\ e = d => j \in -1 .. n - 1
      <4>1. CASE e # d  BY <1>0, <1>1, <1>4, <3>1, <4>1 DEF Uses, Frame
      <4>2. CASE e = d
        <5>2. CASE j = -1 /\ done'.idx = m
          <6>1. to(<<e, j>>) = k  BY <5>2
          <6>2. Uses(d, k, m)  BY <1>1, <1>b, <1>o, <5>2 DEF Uses
          <6> QED BY <1>o, <4>2, <5>2, <6>1, <6>2
        <5>3. CASE j = 0 /\ call'[d].pc \in Counted /\ call'[d].idx = m
          <6>1. to(<<e, j>>) = 0  BY <1>o, <5>3
          <6>2. Uses(d, 0, m)  BY <1>0, <5>3 DEF Uses, Counted
          <6> QED BY <1>o, <4>2, <5>3, <6>1, <6>2
        <5>4. CASE j \in DOMAIN out'[d] /\ out'[d][j].idx = m
          <6>1. to(<<e, j>>) = (IF j >= k THEN j + 1 ELSE j) /\ j \in 1 .. n - 1
            BY <1>o, <1>q, <5>4
          <6>2. to(<<e, j>>) \in 1 .. n /\ out[d][to(<<e, j>>)].idx = m
            BY <1>o, <1>q, <5>4, <6>1
          <6>3. Uses(d, to(<<e, j>>), m)  BY <1>o, <6>2 DEF Uses
          <6> QED BY <1>o, <4>2, <6>1, <6>2, <6>3
        <5> QED BY <1>1, <3>1, <4>2, <5>2, <5>3, <5>4 DEF Uses, Counted
      <4> QED BY <4>1, <4>2
    <3>3. \A u \in U : /\ u = <<u[1], u[2]>> /\ u[1] \in DataPaths /\ u[2] \in Int
                       /\ Uses(u[1], u[2], m)'
      BY DEF Users
    <3>4. \A u \in U : /\ u[1] = d => <<d, to(u)>> \in V /\ u[2] \in -1 .. n - 1
                       /\ u[1] # d => u \in V
      <4>1. SUFFICES ASSUME NEW u \in U
                     PROVE  /\ u[1] = d => <<d, to(u)>> \in V /\ u[2] \in -1 .. n - 1
                            /\ u[1] # d => u \in V
        OBVIOUS
      <4>2. PICK e \in DataPaths, j \in Int : u = <<e, j>> /\ Uses(e, j, m)'
        BY DEF Users
      <4>3. CASE e = d
        <5>1. /\ Uses(d, to(<<e, j>>), m) /\ to(<<e, j>>) \in Int /\ j \in -1 .. n - 1
          BY <3>1, <4>2, <4>3
        <5> HIDE DEF to
        <5> QED BY <4>2, <4>3, <5>1 DEF Users
      <4>4. CASE e # d
        <5>1. Uses(e, j, m)  BY <3>1, <4>2, <4>4
        <5> QED BY <4>2, <4>4, <5>1 DEF Users
      <4> QED BY <4>3, <4>4
    <3> HIDE DEF U, V
    <3>5. f \in [U -> V]
      <4>1. ASSUME NEW u \in U PROVE f[u] \in V
        <5>1. CASE u[1] = d
          <6>1. f[u] = <<d, to(u)>>  BY <5>1
          <6> HIDE DEF to, f
          <6> QED BY <3>4, <5>1, <6>1
        <5>2. CASE u[1] # d
          <6>1. f[u] = u  BY <3>3, <5>2
          <6> HIDE DEF to, f
          <6> QED BY <3>4, <5>2, <6>1
        <5> QED BY <5>1, <5>2
      <4> QED BY <4>1
    <3>6. ASSUME NEW x \in U, NEW y \in U, f[x] = f[y] PROVE x = y
      <4>1. x[1] = y[1]  BY <3>6
      <4>2. CASE x[1] # d
        <5>1. x[2] = y[2]  BY <3>6, <4>1, <4>2
        <5> QED BY <3>3, <4>1, <5>1
      <4>3. CASE x[1] = d
        <5>1. x[2] \in -1 .. n - 1 /\ y[2] \in -1 .. n - 1 /\ to(x) = to(y)
          BY <3>4, <3>6, <4>1, <4>3
        <5>2. x[2] = y[2]  BY <1>o, <5>1
        <5> QED BY <3>3, <4>1, <5>2
      <4> QED BY <4>2, <4>3
    <3> HIDE DEF f
    <3>7. IsFiniteSet(U) /\ Cardinality(U) <= Cardinality(V)
      BY <3>0, <3>5, <3>6, CountInjected
    <3>8. Cardinality(U) \in Nat /\ Cardinality(V) \in Nat
      BY <3>0, <3>7, FS_CardinalityType
    <3>9. IsFiniteSet(U) /\ Cardinality(U) <= entries'[m].inflight
      BY <3>0, <3>7, <3>8
    <3> QED BY <3>9 DEF U
  <2> QED BY <1>t, <1>3, <1>4, <2>1, NotMore DEF SameHandles
<1>9. ModeInv' /\ OneEntry'
  BY <1>0, <1>t, <1>3, <1>4, ModeKept, OneKept DEF Inv, SameHandles
<1>10. SpfInv'
  <2>1. \A h \in Handles : Believed(h)' <=> Believed(h)
    BY <1>0, <1>t, <1>3, <1>4, BelievedKept
  <2> QED BY <1>0, <2>1, SpfKept DEF Inv
<1> QED BY <1>3, <1>5, <1>6, <1>7, <1>8, <1>9, <1>10 DEF Inv

LEMMA DecrementStep ==
  ASSUME Inv, Decrement PROVE Inv'
<1>0. PICK d \in DataPaths, i \in Entry :
        /\ done.pc = "copied" /\ done.dp = d /\ done.idx = i /\ entries # <<>>
        /\ entries' = [entries EXCEPT ![i].inflight = @ - 1] /\ done' = IdleDone
        /\ UNCHANGED <<disabled, age, num_dps, lock, mode, call, out, spf, lost, uses>>
  BY DEF Decrement, Inv, DoneOK
<1>1. TypeInv /\ Allocated /\ CallOK(d) /\ OutOK(d)
  BY <1>0 DEF Inv, Allocated
<1>e. EntryNow(i, entries[i].handle, entries[i].inflight - 1)
  BY <1>0, <1>1, EntryEffects
<1>a. Allocated'  BY <1>e, SizeType DEF Allocated, EntryNow, Entry
<1>d. done'.pc = "idle" /\ done'.handle = done'.sent /\ done' \in DoneType
  BY <1>0, SizeType DEF IdleDone, DoneType, NoEntry
<1>3. TypeInv'  BY <1>0, <1>1, <1>d, <1>e DEF TypeInv, EntryNow
<1>4. SameHandles /\ Frame(d)
  BY <1>0, <1>1, <1>a, <1>e DEF SameHandles, Frame, EntryNow
<1>h. \A h : Holding(h)' = Holding(h)  BY <1>1, <1>3, <1>4, SameHolding
<1>5. CallOK(d)'
  <2>1. call[d].idx \in Entry => entries'[call[d].idx].handle = entries[call[d].idx].handle
    BY <1>4 DEF SameHandles
  <2> QED BY <1>0, <1>1, <1>d, <1>h, <2>1 DEF CallOK, Free
<1>6. /\ \A e \in DataPaths \ {d} : CallOK(e)'
      /\ \A e \in DataPaths : OutOK(e)'
  BY <1>0, <1>3, <1>4, <1>d, OthersKept
<1>7. DoneOK'  BY <1>d DEF DoneOK
<1>8. CountInv'
  <2>1. ASSUME NEW j \in Entry
        PROVE  \/ /\ Users(j)' \subseteq Users(j)
                  /\ entries'[j].inflight >= entries[j].inflight
               \/ /\ IsFiniteSet(Users(j)')
                  /\ Cardinality(Users(j)') <= entries'[j].inflight
    <3>0. /\ IsFiniteSet(Users(j)) /\ Cardinality(Users(j)) <= entries[j].inflight
          /\ entries[j].inflight \in Int /\ entries'[j].inflight \in Int
      BY <1>1, <1>3, <1>a, Domains DEF Inv, CountInv, TypeInv, EntryType
    <3>1. Users(j)' \subseteq Users(j) /\ <<d, -1>> \notin Users(j)'
      <4>1. ASSUME NEW e \in DataPaths, NEW k \in Int, Uses(e, k, j)'
            PROVE  Uses(e, k, j) /\ ~ (e = d /\ k = -1)
        <5>1. -1 \notin DOMAIN out[d]  BY <1>1 DEF TypeInv
        <5> QED BY <1>0, <1>d, <4>1, <5>1 DEF Uses
      <4> QED BY <4>1 DEF Users
    <3>2. CASE j # i  BY <1>e, <3>0, <3>1, <3>2 DEF EntryNow
    <3>3. CASE j = i
      <4> DEFINE U == Users(j)'
                 V == Users(j)
      <4>1. <<d, -1>> \in V  BY <1>0, <3>3 DEF Users, Uses
      <4>2. U \in SUBSET (V \ {<<d, -1>>})  BY <3>1
      <4> HIDE DEF U, V
      <4>3. IsFiniteSet(V) /\ Cardinality(V) <= entries[j].inflight /\ Cardinality(V) \in Nat
        BY <3>0, FS_CardinalityType DEF V
      <4>4. IsFiniteSet(U) /\ Cardinality(U) <= Cardinality(V) - 1
        BY <4>1, <4>2, <4>3, CountLess
      <4>5. entries'[j].inflight = entries[j].inflight - 1 /\ Cardinality(U) \in Nat
        BY <1>e, <3>3, <4>4, FS_CardinalityType DEF EntryNow
      <4>6. IsFiniteSet(U) /\ Cardinality(U) <= entries'[j].inflight
        BY <3>0, <4>3, <4>4, <4>5
      <4> QED BY <4>6 DEF U
    <3> QED BY <3>2, <3>3
  <2> QED BY <1>1, <1>3, <1>a, <2>1, NotMore
<1>9. ModeInv' /\ OneEntry'
  BY <1>0, <1>1, <1>3, <1>4, ModeKept, OneKept DEF Inv, SameHandles
<1>10. SpfInv'
  <2>1. \A h \in Handles : Believed(h)' <=> Believed(h)
    BY <1>0, <1>1, <1>3, <1>4, BelievedKept
  <2> QED BY <1>0, <2>1, SpfKept DEF Inv
<1> QED BY <1>3, <1>5, <1>6, <1>7, <1>8, <1>9, <1>10 DEF Inv

-----------------------------------------------------------------------------
(* The steps that enter and leave the mode. *)

LEMMA OutsideMode ==
  ASSUME Inv, NEW d \in DataPaths, mode[d] # "extern"
  PROVE  /\ call[d].pc = "idle" /\ call[d].to_unmap = NotAllocd /\ lock # d
         /\ out[d] = <<>> /\ ~ (done.pc = "copied" /\ done.dp = d)
BY DEF Inv, CallOK, Holder

LEMMA ActiveType ==
  IsFiniteSet(Active) /\ Cardinality(Active) \in Nat
<1>1. IsFiniteSet(Active)  BY DataPathsType, FS_Subset DEF Active
<1> QED BY <1>1, FS_CardinalityType

\* A data path that has no call, no buffer and no answer may change its mode.
LEMMA ModeChange ==
  ASSUME Inv, TypeInv', ModeInv', NEW d \in DataPaths, SameHandles, call' = call,
         \A e \in DataPaths \ {d} : out'[e] = out[e] /\ mode'[e] = mode[e],
         \A i \in Entry : entries'[i].inflight = entries[i].inflight,
         done' = done, lock' = lock, spf' = spf, lost \subseteq lost',
         out'[d] = <<>>, call[d].pc = "idle", ~ (done.pc = "copied" /\ done.dp = d)
  PROVE  Inv'
<1>1. Frame(d) /\ TypeInv /\ Allocated /\ Allocated'  BY DEF Frame, Inv, SameHandles
<1>2. /\ \A e \in DataPaths \ {d} : CallOK(e)' /\ OutOK(e)'
      /\ DoneOK'
  BY <1>1, OthersKept DEF Frame
<1>3. CallOK(d)'
  <2>1. \A h : Holding(h)' = Holding(h)  BY <1>1, SameHolding
  <2> QED BY <2>1 DEF Inv, CallOK, Free, Holder
<1>4. OutOK(d)'  BY DEF OutOK
<1>5. CountInv'
  <2>1. ASSUME NEW i, NEW e \in DataPaths, NEW k \in Int, Uses(e, k, i)' PROVE Uses(e, k, i)
    <3>1. CASE e # d  BY <2>1, <3>1 DEF Uses
    <3>2. CASE e = d  BY <2>1, <3>2 DEF Uses
    <3> QED BY <3>1, <3>2
  <2>2. \A i \in Entry : Users(i)' \subseteq Users(i)  BY <2>1 DEF Users
  <2>3. \A i \in Entry : entries'[i].inflight >= entries[i].inflight
    BY <1>1 DEF TypeInv, EntryType
  <2> QED BY <1>1, <2>2, <2>3, NotMore
<1>6. OneEntry'  BY <1>1, OneKept DEF Inv, SameHandles
<1>7. SpfInv'
  <2>1. \A h \in Handles : Believed(h)' <=> Believed(h)
    BY <1>1, BelievedKept
  <2> QED BY <2>1, SpfKept DEF Inv
<1> QED BY <1>2, <1>3, <1>4, <1>5, <1>6, <1>7 DEF Inv

LEMMA CloseStep ==
  ASSUME Inv, NEW d \in DataPaths, Close(d) PROVE Inv'
<1>1. /\ TypeInv /\ Allocated /\ mode[d] = "extern" /\ call[d].pc = "idle" /\ done.dp # d
      /\ mode' = [mode EXCEPT ![d] = "closing"] /\ out' = [out EXCEPT ![d] = <<>>]
      /\ lost \subseteq lost' /\ ("RECONFIG" \notin lost' => "RECONFIG" \notin lost)
      /\ UNCHANGED <<disabled, entries, age, num_dps, lock, call, done, spf, uses>>
  BY StillThere DEF Close, Inv
<1>2. TypeInv' /\ SameHandles
  <2>1. <<>> \in Seq(OutType)  OBVIOUS
  <2> QED BY <1>1, <2>1 DEF TypeInv, SameHandles, Allocated
<1>3. Active' = Active  BY <1>1 DEF Active, TypeInv
<1>4. ModeInv'  BY <1>1, <1>2, <1>3 DEF Inv, ModeInv, SameHandles
<1>5. /\ \A e \in DataPaths \ {d} : out'[e] = out[e] /\ mode'[e] = mode[e]
      /\ out'[d] = <<>>
  BY <1>1 DEF TypeInv
<1> QED BY <1>1, <1>2, <1>4, <1>5, ModeChange

LEMMA ReconfigureStep ==
  ASSUME Inv, NEW d \in DataPaths, Reconfigure(d) PROVE Inv'
<1>1. /\ TypeInv /\ Allocated /\ mode[d] = "extern" /\ call[d].pc = "idle" /\ done.dp # d
      /\ mode' = [mode EXCEPT ![d] = "closed"] /\ out' = out /\ out[d] = <<>>
      /\ lost \subseteq lost' /\ "RECONFIG" \in lost'
      /\ UNCHANGED <<disabled, entries, age, num_dps, lock, call, done, spf, uses>>
  BY StillThere DEF Reconfigure, Inv
<1>2. TypeInv' /\ SameHandles
  BY <1>1 DEF TypeInv, SameHandles, Allocated
<1>3. Active' \subseteq Active  BY <1>1 DEF Active, TypeInv
<1>4. ModeInv'
  <2>1. Cardinality(Active') <= Cardinality(Active)
    BY <1>3, ActiveType, FS_Subset
  <2>2. Cardinality(Active') \in Nat  BY <1>3, ActiveType, FS_Subset, FS_CardinalityType
  <2> QED BY <1>1, <1>2, <2>1, <2>2, ActiveType DEF Inv, ModeInv, SameHandles, TypeInv
<1>5. \A e \in DataPaths \ {d} : out'[e] = out[e] /\ mode'[e] = mode[e]
  BY <1>1 DEF TypeInv
<1> QED BY <1>1, <1>2, <1>4, <1>5, ModeChange

LEMMA ConfigureStep ==
  ASSUME Inv, NEW d \in DataPaths, Configure(d) PROVE Inv'
<1>1. /\ TypeInv /\ mode[d] = "other"
      /\ mode' = [mode EXCEPT ![d] = "extern"] /\ num_dps' = num_dps + 1
      /\ IF num_dps = 0
         THEN entries' = [i \in Entry |-> Unused] /\ age' = 0
         ELSE UNCHANGED <<entries, age>>
      /\ UNCHANGED <<disabled, lock, call, out, done, spf, lost, uses>>
  BY DEF Configure, Inv
<1>u. Unused \in EntryType /\ Unused.handle = NotAllocd /\ Unused.inflight = 0
  BY DEF Unused, EntryType
<1>2. TypeInv'
  <2>1. num_dps = 0 => entries' \in [Entry -> EntryType]  BY <1>1, <1>u
  <2> QED BY <1>1, <2>1 DEF TypeInv, Allocated
<1>m. \A e \in DataPaths \ {d} : mode'[e] = mode[e]  BY <1>1 DEF TypeInv
<1>n. mode'[d] = "extern"  BY <1>1 DEF TypeInv
<1>o. call[d].pc = "idle" /\ out[d] = <<>> /\ ~ (done.pc = "copied" /\ done.dp = d)
  BY <1>1, OutsideMode
<1>a. Allocated'
  <2>1. CASE num_dps = 0
    <3>1. 1 \in Entry /\ DOMAIN entries' = Entry  BY <1>1, <2>1, SizeType DEF Entry
    <3> QED BY <3>1 DEF Allocated
  <2>2. CASE num_dps # 0  BY <1>1, <2>2 DEF Inv, ModeInv, TypeInv, Allocated
  <2> QED BY <2>1, <2>2
<1>4. ModeInv'
  <2>1. d \notin Active /\ Active' = Active \cup {d}  BY <1>1, <1>m, <1>n DEF Active
  <2>2. Cardinality(Active') = Cardinality(Active) + 1
    BY <2>1, ActiveType, FS_AddElement
  <2> QED BY <1>1, <1>a, <2>2, ActiveType DEF Inv, ModeInv, TypeInv
<1>5. CASE num_dps # 0
  <2>1. SameHandles /\ \A i \in Entry : entries'[i].inflight = entries[i].inflight
    BY <1>1, <1>a, <1>5 DEF SameHandles, Inv, ModeInv, TypeInv
  <2> QED BY <1>1, <1>2, <1>4, <1>m, <1>o, <2>1, ModeChange
<1>6. CASE num_dps = 0
  <2>0. ~ Allocated  BY <1>6 DEF Inv, ModeInv
  <2>1. \A e \in DataPaths : mode[e] # "extern"  BY <2>0, StillThere DEF Inv
  <2>2. \A e \in DataPaths :
          /\ call[e].pc = "idle" /\ call[e].to_unmap = NotAllocd /\ lock # e
          /\ out[e] = <<>> /\ ~ (done.pc = "copied" /\ done.dp = e)
    BY <2>1, OutsideMode
  <2>3. \A i \in Entry : entries'[i] = Unused  BY <1>1, <1>6
  <2>4. DOMAIN entries' = Entry  BY <1>1, <1>6
  <2>5. \A h : (h # NotAllocd => Holding(h)' = {}) /\ Holding(h) = {}
    <3>1. DOMAIN entries = {}  BY <2>0 DEF Allocated
    <3> QED BY <1>u, <2>3, <2>4, <3>1 DEF Holding
  <2>6. \A e \in DataPaths : CallOK(e)' /\ OutOK(e)'
    BY <1>1, <2>2 DEF CallOK, OutOK, Free, Holder
  <2>7. DoneOK'
    <3>1. done.pc # "copied"  BY <2>2 DEF Inv, DoneOK
    <3> QED BY <1>1, <3>1 DEF Inv, DoneOK
  <2>8. OneEntry'  BY <1>u, <2>3, <2>4 DEF OneEntry
  <2>9. CountInv'
    <3>1. done.pc # "copied"  BY <2>2 DEF Inv, DoneOK
    <3>2. \A i : Users(i)' = {}  BY <1>1, <2>2, <3>1 DEF Users, Uses
    <3> QED BY <1>u, <2>3, <2>4, <3>2, FS_EmptySet DEF CountInv
  <2>10. SpfInv'
    <3>1. \A h \in Handles : ~ Believed(h)' /\ ~ Believed(h)
      BY <1>1, <2>2, <2>5, HandlesType DEF Believed
    <3> QED BY <1>1, <3>1, SpfKept DEF Inv
  <2> QED BY <1>2, <1>4, <2>6, <2>7, <2>8, <2>9, <2>10 DEF Inv
<1> QED BY <1>5, <1>6

LEMMA LeaveStep ==
  ASSUME Inv, NEW d \in DataPaths, Leave(d) PROVE Inv'
<1>1. /\ TypeInv /\ mode[d] = "closing" /\ mode' = [mode EXCEPT ![d] = "closed"]
      /\ num_dps' = num_dps - 1 /\ Deinit(d)
      /\ UNCHANGED <<disabled, age, lock, call, out, done, uses>>
  BY DEF Leave, Deinit, Inv
<1>o. call[d].pc = "idle" /\ out[d] = <<>> /\ ~ (done.pc = "copied" /\ done.dp = d)
  BY <1>1, OutsideMode
<1>m. \A e \in DataPaths \ {d} : mode'[e] = mode[e] /\ out'[e] = out[e]
  BY <1>1 DEF TypeInv
<1>n. mode'[d] = "closed"  BY <1>1 DEF TypeInv
<1>c. /\ d \in Active /\ Active' = Active \ {d}
      /\ Cardinality(Active') = Cardinality(Active) - 1
      /\ Cardinality(Active) \in Nat /\ Cardinality(Active') \in Nat
  <2>1. d \in Active /\ Active' = Active \ {d}  BY <1>1, <1>m, <1>n DEF Active
  <2>2. Cardinality(Active') = Cardinality(Active) - 1 /\ IsFiniteSet(Active')
    BY <2>1, ActiveType, FS_RemoveElement
  <2> QED BY <2>1, <2>2, ActiveType, FS_CardinalityType
<1>d. num_dps \in Nat /\ num_dps # 0 /\ Allocated
  <2>1. num_dps \in Nat /\ Cardinality(Active) # 0  BY <1>1, <1>c DEF TypeInv
  <2> QED BY <1>c, <2>1 DEF Inv, ModeInv
<1>p. num_dps' \in Nat /\ ("RECONFIG" \notin lost => Cardinality(Active') = num_dps')
      /\ Cardinality(Active') <= num_dps'
  BY <1>1, <1>c, <1>d DEF Inv, ModeInv
<1>2. CASE num_dps # 1
  <2>1. UNCHANGED <<entries, spf, lost>>  BY <1>1, <1>2 DEF Deinit
  <2>2. TypeInv' /\ SameHandles
    BY <1>1, <1>d, <1>p, <2>1 DEF TypeInv, SameHandles, Allocated
  <2>3. num_dps' > 0  BY <1>1, <1>2, <1>d
  <2>4. ModeInv'  BY <1>p, <2>1, <2>2, <2>3 DEF ModeInv, SameHandles
  <2> QED BY <1>1, <1>m, <1>o, <2>1, <2>2, <2>4, ModeChange
<1>3. CASE num_dps = 1
  <2>1. PICK failed \in SUBSET Handles :
          /\ UnmapAll(failed) /\ entries' = <<>>
          /\ lost \subseteq lost' /\ (failed # {} => "UNMAP" \in lost')
          /\ lost' \subseteq lost \cup {"UNMAP"}
    BY <1>1, <1>3 DEF Deinit
  <2>2. ~ Allocated' /\ \A h : Holding(h)' = {}
    <3>1. DOMAIN entries' = {}  BY <2>1
    <3> QED BY <2>1, <3>1 DEF Allocated, Holding
  <2>3. \A e \in DataPaths : mode[e] # "extern"
    <3>1. Cardinality(Active') = 0 /\ IsFiniteSet(Active')
      BY <1>3, <1>c, <1>p, <1>1, ActiveType, FS_Subset
    <3>2. Active' = {}  BY <3>1, FS_EmptySet
    <3> QED BY <1>1, <1>c, <3>2 DEF Active
  <2>4. \A e \in DataPaths :
          /\ call[e].pc = "idle" /\ call[e].to_unmap = NotAllocd /\ lock # e
          /\ out[e] = <<>> /\ ~ (done.pc = "copied" /\ done.dp = e)
    BY <2>3, OutsideMode
  <2>s. \A h \in Handles :
          LET S == {i \in DOMAIN entries : entries[i].handle = h /\ h \notin failed} IN
          /\ spf'[h] = spf[h] - Cardinality(S)
          /\ S \in SUBSET Holding(h) /\ (failed = {} => S = Holding(h))
          /\ spf[h] \in Nat /\ Cardinality(S) \in Nat
          /\ S = {} => Cardinality(S) = 0
          /\ S # {} => Cardinality(S) = 1 /\ S = Holding(h) /\ Believed(h) /\ spf[h] >= 1
    <3> SUFFICES ASSUME NEW h \in Handles
                 PROVE
          LET S == {i \in DOMAIN entries : entries[i].handle = h /\ h \notin failed} IN
          /\ spf'[h] = spf[h] - Cardinality(S)
          /\ S \in SUBSET Holding(h) /\ (failed = {} => S = Holding(h))
          /\ spf[h] \in Nat /\ Cardinality(S) \in Nat
          /\ S = {} => Cardinality(S) = 0
          /\ S # {} => Cardinality(S) = 1 /\ S = Holding(h) /\ Believed(h) /\ spf[h] >= 1
      OBVIOUS
    <3> DEFINE S == {i \in DOMAIN entries : entries[i].handle = h /\ h \notin failed}
    <3>1. S \in SUBSET Holding(h) /\ (failed = {} => S = Holding(h))  BY DEF Holding
    <3>2. spf'[h] = spf[h] - Cardinality(S)  BY <2>1 DEF UnmapAll
    <3> HIDE DEF S
    <3>3. /\ S = {} => Cardinality(S) = 0
          /\ S # {} => Cardinality(S) = 1 /\ S = Holding(h) /\ Believed(h) /\ spf[h] >= 1
          /\ spf[h] \in Nat /\ Cardinality(S) \in Nat
      BY <3>1, HeldOnce
    <3> QED BY <3>1, <3>2, <3>3 DEF S
  <2>5. \A h \in Handles :
          /\ spf'[h] \in Nat /\ ~ Believed(h)'
          /\ lost' \cap {"MAP", "UNMAP"} = {} => spf'[h] = 0
    <3> SUFFICES ASSUME NEW h \in Handles
                 PROVE  /\ spf'[h] \in Nat /\ ~ Believed(h)'
                        /\ lost' \cap {"MAP", "UNMAP"} = {} => spf'[h] = 0
      OBVIOUS
    <3>1. PICK S : /\ spf'[h] = spf[h] - Cardinality(S) /\ S \in SUBSET Holding(h)
                   /\ failed = {} => S = Holding(h)
                   /\ spf[h] \in Nat /\ Cardinality(S) \in Nat
                   /\ S = {} => Cardinality(S) = 0
                   /\ S # {} => Cardinality(S) = 1 /\ spf[h] >= 1
      BY <2>s
    <3>2. ~ Believed(h)' /\ (Believed(h) <=> Holding(h) # {})
      BY <1>1, <2>2, <2>4 DEF Believed
    <3>3. spf'[h] \in Nat  BY <3>1
    <3>4. ASSUME lost' \cap {"MAP", "UNMAP"} = {} PROVE spf'[h] = 0
      <4>1. S = Holding(h) /\ lost \cap {"MAP", "UNMAP"} = {}  BY <2>1, <3>1, <3>4
      <4>2. spf[h] = IF Holding(h) # {} THEN 1 ELSE 0
        BY <3>2, <4>1 DEF Inv, SpfInv
      <4> QED BY <3>1, <4>1, <4>2
    <3> QED BY <3>2, <3>3, <3>4
  <2>6. TypeInv'
    <3>1. spf' \in [Handles -> Nat]  BY <2>1, <2>5 DEF UnmapAll
    <3> QED BY <1>1, <1>p, <2>2, <3>1 DEF TypeInv
  <2>7. ModeInv'
    <3>1. num_dps' = 0  BY <1>1, <1>3
    <3> QED BY <1>p, <2>1, <2>2, <3>1 DEF ModeInv
  <2>8. \A e \in DataPaths : CallOK(e)' /\ OutOK(e)'
    BY <1>1, <2>2, <2>4 DEF CallOK, OutOK, Free, Holder
  <2>9. DoneOK'
    <3>1. done.pc # "copied"  BY <2>4 DEF Inv, DoneOK
    <3> QED BY <1>1, <3>1 DEF Inv, DoneOK
  <2>10. OneEntry' /\ CountInv'  BY <2>1 DEF OneEntry, CountInv
  <2>11. SpfInv'  BY <2>5 DEF SpfInv
  <2> QED BY <2>6, <2>7, <2>8, <2>9, <2>10, <2>11 DEF Inv
<1> QED BY <1>2, <1>3

-----------------------------------------------------------------------------
(* The theorems. *)

LEMMA InvInit == Init => Inv
<1> SUFFICES ASSUME Init PROVE Inv
  OBVIOUS
<1>1. /\ IdleDone \in DoneType /\ IdleDone.pc = "idle" /\ IdleDone.handle = IdleDone.sent
  BY SizeType DEF IdleDone, DoneType, NoEntry
<1>2. /\ \A d \in DataPaths : call[d].pc = "idle" /\ call[d].to_unmap = NotAllocd
      /\ \A d \in DataPaths : out[d] = <<>> /\ mode[d] = "other"
      /\ ~ Allocated /\ lock = "free" /\ \A h : Holding(h) = {}
  BY IdleType DEF Init, Allocated, Holding
<1>3. TypeInv
  <2>1. <<>> \in Seq(OutType)  OBVIOUS
  <2> QED BY <1>1, <1>2, <2>1, IdleType DEF Init, TypeInv
<1>4. ModeInv
  <2>1. Active = {}  BY <1>2 DEF Active
  <2> QED BY <1>2, <2>1, FS_EmptySet DEF ModeInv, Init
<1>5. \A d \in DataPaths : CallOK(d) /\ OutOK(d)
  BY <1>1, <1>2, DataPathsType DEF CallOK, OutOK, Free, Holder, Init
<1>6. DoneOK  BY <1>1 DEF DoneOK, Init
<1>7. OneEntry /\ CountInv  BY DEF OneEntry, CountInv, Init
<1>8. SpfInv  BY <1>2 DEF SpfInv, Believed, Init
<1> QED BY <1>3, <1>4, <1>5, <1>6, <1>7, <1>8 DEF Inv

LEMMA InvNext == Inv /\ [Next]_vars => Inv'
<1> SUFFICES ASSUME Inv, [Next]_vars PROVE Inv'
  OBVIOUS
<1>1. ASSUME NEW d \in DataPaths, CallStep(d) PROVE Inv'
  BY <1>1, LockStep, SweepStep, HitStep, TakeUnusedStep, EvictStep, FullStep, MapOkStep,
     MapFailsStep, UnmapEvictedStep, TouchStep, AgedStep, SendOkStep, SendFailsStep DEF CallStep
<1>2. ASSUME NEW d \in DataPaths,
             \/ Configure(d) \/ Close(d) \/ Leave(d) \/ Reconfigure(d) \/ Receive(d)
             \/ \E h \in Handles : Begin(d, h)
      PROVE  Inv'
  BY <1>2, ConfigureStep, CloseStep, LeaveStep, ReconfigureStep, ReceiveStep, BeginStep
<1>3. CASE Decrement  BY <1>3, DecrementStep
<1>4. CASE UNCHANGED vars
  <2>1. UNCHANGED <<disabled, entries, age, num_dps, lock, mode, call, out, done, spf, lost, uses>>
    BY <1>4 DEF vars
  <2>2. TypeInv' /\ ModeInv' /\ DoneOK' /\ OneEntry'
    BY <2>1 DEF Inv, TypeInv, Allocated, ModeInv, Active, DoneOK, OneEntry
  <2>3. \A h : Holding(h)' = Holding(h)  BY <2>1 DEF Holding
  <2>4. \A d \in DataPaths : CallOK(d)' /\ OutOK(d)'
    BY <2>1, <2>3 DEF Inv, CallOK, OutOK, Free
  <2>5. \A i : Users(i)' = Users(i)  BY <2>1 DEF Users, Uses
  <2>6. CountInv'  BY <2>1, <2>5 DEF Inv, CountInv
  <2>7. SpfInv'
    <3>1. \A h : Believed(h)' <=> Believed(h)  BY <2>1, <2>3 DEF Believed
    <3> QED BY <2>1, <3>1 DEF Inv, SpfInv
  <2> QED BY <2>2, <2>4, <2>6, <2>7 DEF Inv
<1> QED BY <1>1, <1>2, <1>3, <1>4 DEF Next

\* The invariant holds in every state.
LEMMA InvHolds == Spec => []Inv
<1>1. Init => Inv  BY InvInit
<1>2. Inv /\ [Next]_vars => Inv'  BY InvNext
<1> QED BY <1>1, <1>2, PTL DEF Spec

\* No memory is mapped twice on the DSP (ext_mem_cache_get_entry), for any number of data
\* paths, handles and entries, as long as unmaps succeed and no map fails after an eviction.
THEOREM MappedOnlyOnce == Spec => []MappedOnce
<1>1. Inv => MappedOnce
  <2> SUFFICES ASSUME Inv, lost \cap {"MAP", "UNMAP"} = {}, NEW h \in Handles
               PROVE  spf[h] <= 1
    BY DEF MappedOnce
  <2>1. spf[h] = IF Believed(h) THEN 1 ELSE 0  BY DEF Inv, SpfInv
  <2> QED BY <2>1
<1> QED BY <1>1, InvHolds, PTL

\* The handle the client gets with a buffer is the one it sent (ext_mem_cache_buf_done),
\* whatever fails and however evictions and answers overlap: an entry that counts a buffer
\* keeps its memory.
THEOREM AnswersNameTheirBuffer == Spec => []DoneReportsItsBuffer
<1>1. Inv => DoneReportsItsBuffer  BY DEF Inv, DoneOK, DoneReportsItsBuffer
<1> QED BY <1>1, InvHolds, PTL

\* When the last data path has left the mode (ext_mem_cache_deinit) the cache is gone and
\* nothing is mapped, if no map and unmap has failed and none was configured out of the mode.
THEOREM NothingIsLeft == Spec => []NothingStaysMapped
<1>1. Inv => NothingStaysMapped
  <2> SUFFICES ASSUME Inv, \A d \in DataPaths : mode[d] \in {"other", "closed"},
                      lost \cap {"MAP", "UNMAP", "RECONFIG"} = {}
               PROVE  entries = <<>> /\ \A h \in Handles : spf[h] = 0
    BY DEF NothingStaysMapped
  <2>1. Active = {}  BY DEF Active
  <2>2. num_dps = 0  BY <2>1, FS_EmptySet DEF Inv, ModeInv
  <2>3. entries = <<>>  BY <2>2 DEF Inv, ModeInv, Allocated
  <2>4. ASSUME NEW h \in Handles PROVE ~ Believed(h)
    <3>1. \A d \in DataPaths : call[d].pc = "idle"  BY OutsideMode
    <3>2. Holding(h) = {}  BY <2>3 DEF Holding
    <3> QED BY <3>1, <3>2 DEF Believed
  <2> QED BY <2>3, <2>4 DEF Inv, SpfInv
<1> QED BY <1>1, InvHolds, PTL

-----------------------------------------------------------------------------
(* The cache implements MappedMemory. *)

\* A buffer that is with the DSP lies in memory that is mapped, whatever has failed: the
\* cache neither evicts nor sweeps an entry that counts a buffer (ext_mem_cache_evict_entry).
OutIsMapped == \A d \in DataPaths : \A k \in DOMAIN out[d] : spf[out[d][k].handle] >= 1
LEMMA OutMapped == Inv => OutIsMapped
<1> SUFFICES ASSUME Inv, NEW d \in DataPaths, NEW k \in DOMAIN out[d]
             PROVE  spf[out[d][k].handle] >= 1
  BY DEF OutIsMapped
<1>1. out[d][k] \in OutType /\ entries[out[d][k].idx].handle = out[d][k].handle
  BY DEF Inv, TypeInv, OutOK
<1>2. Allocated
  <2>1. out[d] # <<>>  OBVIOUS
  <2> QED BY <2>1, StillThere DEF Inv, CallOK
<1>3. out[d][k].idx \in Holding(out[d][k].handle)
  BY <1>1, <1>2, Domains DEF Inv, OutType, Holding
<1> QED BY <1>1, <1>3 DEF Inv, SpfInv, Believed, OutType

IsOut(h, d, k) == d \in DataPaths /\ k \in DOMAIN out[d] /\ out[d][k].handle = h

LEMMA OutInOK ==
  ASSUME TypeInv, NEW h
  PROVE  OutIn(h) = {u \in DataPaths \X Int : IsOut(h, u[1], u[2])}
<1>1. \A d \in DataPaths : DOMAIN out[d] \subseteq Int  BY DEF TypeInv
<1> QED BY <1>1 DEF OutIn, IsOut

\* They are all counted on one entry, hence finitely many.
LEMMA OutFinite ==
  ASSUME Inv, NEW h \in Handles
  PROVE  IsFiniteSet(OutIn(h)) /\ Cardinality(OutIn(h)) \in Nat
<1>1. OutIn(h) = {u \in DataPaths \X Int : IsOut(h, u[1], u[2])}
  BY OutInOK DEF Inv
<1>2. ASSUME NEW u \in OutIn(h)
      PROVE  /\ u \in DataPaths \X Int /\ u[2] \in DOMAIN out[u[1]]
             /\ out[u[1]][u[2]].idx \in DOMAIN entries
             /\ entries[out[u[1]][u[2]].idx].handle = h
  <2>1. u \in DataPaths \X Int /\ u[1] \in DataPaths /\ IsOut(h, u[1], u[2])
    BY <1>1
  <2> DEFINE d == u[1]
             k == u[2]
  <2>2. d \in DataPaths /\ k \in DOMAIN out[d] /\ out[d][k].handle = h
    BY <2>1 DEF IsOut
  <2> HIDE DEF d, k
  <2>3. out[d][k] \in OutType /\ entries[out[d][k].idx].handle = h
    BY <2>2 DEF Inv, TypeInv, OutOK
  <2>4. out[d] # <<>>  BY <2>2
  <2>5. Allocated  BY <2>2, <2>4, StillThere DEF Inv, CallOK
  <2>6. out[d][k].idx \in DOMAIN entries
    BY <2>3, <2>5, Domains DEF Inv, OutType
  <2> QED BY <2>1, <2>2, <2>3, <2>6 DEF d, k
<1>3. CASE OutIn(h) = {}  BY <1>3, FS_EmptySet
<1>4. CASE OutIn(h) # {}
  <2>1. PICK v \in OutIn(h) : TRUE  BY <1>4
  <2>2. PICK i : i = out[v[1]][v[2]].idx  OBVIOUS
  <2>3. i \in DOMAIN entries /\ entries[i].handle = h  BY <1>2, <2>2
  <2>4. ASSUME NEW u \in OutIn(h) PROVE u \in Users(i)
    <3>1. PICK j : j = out[u[1]][u[2]].idx  OBVIOUS
    <3>2. j \in DOMAIN entries /\ entries[j].handle = h  BY <1>2, <3>1
    <3>3. j = i  BY <2>3, <3>2, HandlesType DEF Inv, OneEntry
    <3> QED BY <1>2, <3>1, <3>3 DEF Users, Uses
  <2>5. OutIn(h) \in SUBSET Users(i)  BY <2>4
  <2>6. IsFiniteSet(Users(i))  BY <2>3 DEF Inv, CountInv
  <2>7. IsFiniteSet(OutIn(h))  BY <2>5, <2>6, FS_Subset
  <2> QED BY <2>7, FS_CardinalityType
<1> QED BY <1>3, <1>4

\* The state of MappedMemory.
Mapped == {h \in Handles : spf[h] > 0}
Count == [h \in Handles |-> Cardinality(OutIn(h))]

LEMMA SameOut == ASSUME out' = out PROVE Count' = Count
<1>1. \A h \in Handles : OutIn(h)' = OutIn(h)  BY DEF OutIn
<1> QED BY <1>1 DEF Count

\* Memory that is unmapped has no buffer out.
LEMMA UnmapRefined ==
  ASSUME Inv, Inv', out' = out, \A h \in Handles : spf'[h] <= spf[h]
  PROVE  Memory!Next \/ (Mapped' = Mapped /\ Count' = Count)
<1>0. PICK S : S = Mapped \ Mapped'  OBVIOUS
<1>1. Count' = Count  BY SameOut
<1>2. spf \in [Handles -> Nat] /\ spf' \in [Handles -> Nat]  BY DEF Inv, TypeInv
<1>3. Mapped' \subseteq Mapped  BY <1>2 DEF Mapped
<1>4. CASE S = {}  BY <1>0, <1>1, <1>3, <1>4
<1>5. CASE S # {}
  <2>1. ASSUME NEW h \in S PROVE Count[h] = 0
    <3>1. h \in Handles /\ spf'[h] = 0  BY <1>0, <1>2 DEF Mapped
    <3>2. OutIsMapped'
      <4>1. Inv' => OutIsMapped'  BY OutMapped, PTL
      <4> QED BY <4>1
    <3>3. \A d \in DataPaths : \A k \in DOMAIN out[d] : spf'[out[d][k].handle] >= 1
      BY <3>2 DEF OutIsMapped
    <3>4. OutIn(h) = {}
      <4> SUFFICES ASSUME NEW d \in DataPaths, NEW k \in DOMAIN out[d], out[d][k].handle = h
                   PROVE  FALSE
        BY DEF OutIn
      <4>1. spf'[h] >= 1  BY <3>3
      <4> QED BY <3>1, <4>1
    <3> QED BY <3>1, <3>4, FS_EmptySet DEF Count
  <2>2. S \in SUBSET Handles /\ S \subseteq Mapped /\ Mapped' = Mapped \ S
    BY <1>0, <1>3 DEF Mapped
  <2>3. Memory!Unmap(S)
    BY <1>1, <1>5, <2>1, <2>2 DEF Memory!Unmap, Mapped, Count
  <2> QED BY <2>2, <2>3 DEF Memory!Next
<1> QED BY <1>4, <1>5

LEMMA CountTyped == Inv => \A h \in Handles : Cardinality(OutIn(h)) \in Nat
BY OutFinite

LEMMA ReturnRefined ==
  ASSUME Inv, Inv', spf' = spf, \A h \in Handles : Count'[h] <= Count[h]
  PROVE  Memory!Next
<1>1. Mapped' = Mapped  BY DEF Mapped
<1>2. \A h \in Handles : Cardinality(OutIn(h)') \in Nat
  <2>1. Inv' => (\A h \in Handles : Cardinality(OutIn(h)) \in Nat)'  BY CountTyped, PTL
  <2> QED BY <2>1
<1>3. Count' \in [Handles -> Nat]  BY <1>2 DEF Count
<1>4. Memory!Return  BY <1>1, <1>3 DEF Memory!Return, Mapped, Count
<1> QED BY <1>4 DEF Memory!Next

\* Every step of the cache is a step of MappedMemory or changes nothing it sees.
Refined == Memory!Next \/ (Mapped' = Mapped /\ Count' = Count)

LEMMA MapOkRefined ==
  ASSUME Inv, NEW d \in DataPaths, MapOk(d)
  PROVE  Refined
<1>1. PICK w : w = call[d].want  OBVIOUS
<1>2. w \in Handles /\ spf \in [Handles -> Nat] /\ out' = out
      /\ spf' = [spf EXCEPT ![w] = @ + 1]
  BY <1>1 DEF MapOk, Inv, CallOK, TypeInv
<1>3. Mapped' = Mapped \cup {w}  BY <1>2 DEF Mapped
<1>4. Count' = Count  BY <1>2, SameOut
<1>5. CASE w \in Mapped  BY <1>3, <1>4, <1>5 DEF Refined
<1>6. CASE w \notin Mapped
  <2>1. Memory!Map(w)  BY <1>3, <1>4, <1>6 DEF Memory!Map, Mapped, Count
  <2> QED BY <1>2, <2>1 DEF Refined, Memory!Next
<1> QED BY <1>5, <1>6

LEMMA SendOkRefined ==
  ASSUME Inv, Inv', NEW d \in DataPaths, SendOk(d)
  PROVE  Refined
<1>1. PICK w, n, b : /\ w = call[d].want /\ n = Len(out[d])
                     /\ b = [idx |-> call[d].idx, handle |-> w]
  OBVIOUS
<1>2. /\ w \in Handles /\ b.handle = w /\ b \in OutType /\ out[d] \in Seq(OutType)
      /\ spf' = spf /\ out' = [out EXCEPT ![d] = Append(out[d], b)]
      /\ out \in [DataPaths -> Seq(OutType)]
  BY <1>1 DEF SendOk, Inv, CallOK, TypeInv, OutType
<1>3. /\ n \in Nat /\ DOMAIN out[d] = 1 .. n /\ out'[d] = Append(out[d], b)
      /\ DOMAIN out'[d] = 1 .. n + 1 /\ out'[d][n + 1] = b
      /\ \A k \in 1 .. n : out'[d][k] = out[d][k]
      /\ \A e \in DataPaths \ {d} : out'[e] = out[e]
  BY <1>1, <1>2
<1>4. ASSUME NEW h \in Handles, NEW e \in DataPaths, NEW k \in Int
      PROVE  IsOut(h, e, k)' <=> IsOut(h, e, k) \/ (h = w /\ e = d /\ k = n + 1)
  <2>1. CASE e = d  BY <1>2, <1>3, <2>1 DEF IsOut
  <2>2. CASE e # d  BY <1>3, <2>2 DEF IsOut
  <2> QED BY <2>1, <2>2
<1>5. ASSUME NEW h \in Handles
      PROVE  /\ OutIn(h) = {u \in DataPaths \X Int : IsOut(h, u[1], u[2])}
             /\ OutIn(h)' = {u \in DataPaths \X Int : IsOut(h, u[1], u[2])'}
  <2>1. OutIn(h) = {u \in DataPaths \X Int : IsOut(h, u[1], u[2])}
    BY OutInOK DEF Inv
  <2>2. OutIn(h)' = {u \in DataPaths \X Int : IsOut(h, u[1], u[2])'}
    <3>1. \A e \in DataPaths : DOMAIN out'[e] \subseteq Int  BY DEF Inv, TypeInv
    <3> QED BY <3>1 DEF OutIn, IsOut
  <2> QED BY <2>1, <2>2
<1>6. \A h \in Handles \ {w} : OutIn(h)' = OutIn(h)  BY <1>4, <1>5
<1>7. OutIn(w)' = OutIn(w) \cup {<<d, n + 1>>}  BY <1>2, <1>3, <1>4, <1>5
<1>8. <<d, n + 1>> \notin OutIn(w)
  <2>1. ~ IsOut(w, d, n + 1)  BY <1>3 DEF IsOut
  <2> QED BY <1>2, <1>5, <2>1
<1>9. Cardinality(OutIn(w)') = Cardinality(OutIn(w)) + 1
  BY <1>2, <1>7, <1>8, OutFinite, FS_AddElement
<1>10. Count' = [Count EXCEPT ![w] = @ + 1]
  BY <1>2, <1>6, <1>9 DEF Count
<1>11. Mapped' = Mapped /\ w \in Mapped
  <2>1. OutIsMapped'  BY OutMapped, PTL
  <2>2. d \in DataPaths /\ n + 1 \in DOMAIN out'[d] /\ out'[d][n + 1].handle = w
    BY <1>2, <1>3
  <2>3. spf'[w] >= 1  BY <2>1, <2>2 DEF OutIsMapped
  <2> QED BY <1>2, <2>3 DEF Mapped, Inv, TypeInv
<1>12. Memory!Send(w)  BY <1>10, <1>11 DEF Memory!Send, Mapped, Count
<1> QED BY <1>2, <1>12 DEF Refined, Memory!Next

LEMMA ReceiveRefined ==
  ASSUME Inv, Inv', NEW d \in DataPaths, Receive(d)
  PROVE  Refined
<1>0. PICK k \in 1 .. Len(out[d]) :
        spf' = spf /\ out' = [out EXCEPT ![d] = RemoveAt(@, k)]
  BY DEF Receive
<1>1. PICK n : n = Len(out[d])  OBVIOUS
<1>2. /\ out \in [DataPaths -> Seq(OutType)] /\ out[d] \in Seq(OutType) /\ n \in Nat
      /\ k \in 1 .. n /\ DOMAIN out[d] = 1 .. n
  BY <1>0, <1>1 DEF Inv, TypeInv
<1>3. /\ RemoveAt(out[d], k) \in Seq(OutType) /\ Len(RemoveAt(out[d], k)) = n - 1
      /\ \A j \in 1 .. n - 1 : RemoveAt(out[d], k)[j] = IF j < k THEN out[d][j] ELSE out[d][j + 1]
  BY <1>0, <1>1, <1>2, RemoveAtOK
<1>4. /\ DOMAIN out'[d] = 1 .. n - 1
      /\ \A j \in 1 .. n - 1 : out'[d][j] = IF j < k THEN out[d][j] ELSE out[d][j + 1]
      /\ \A e \in DataPaths \ {d} : out'[e] = out[e]
  BY <1>0, <1>2, <1>3
<1>5. ASSUME NEW h \in Handles PROVE Count'[h] <= Count[h]
  <2> DEFINE to(j) == IF j < k THEN j ELSE j + 1
             f == [u \in OutIn(h)' |-> IF u[1] = d THEN <<d, to(u[2])>> ELSE u]
  <2>1. OutIn(h) = {u \in DataPaths \X Int : IsOut(h, u[1], u[2])}
    BY OutInOK DEF Inv
  <2>2. OutIn(h)' = {u \in DataPaths \X Int : IsOut(h, u[1], u[2])'}
    <3>1. \A e \in DataPaths : DOMAIN out'[e] \subseteq Int  BY DEF Inv, TypeInv
    <3> QED BY <3>1 DEF OutIn, IsOut
  <2>3. ASSUME NEW e \in DataPaths, NEW j \in Int, IsOut(h, e, j)'
        PROVE  IF e = d THEN IsOut(h, d, to(j)) /\ to(j) \in Int ELSE IsOut(h, e, j)
    <3>1. CASE e = d
      <4>1. j \in 1 .. n - 1 /\ out'[d][j].handle = h  BY <1>4, <2>3, <3>1 DEF IsOut
      <4>2. to(j) \in 1 .. n /\ out'[d][j] = out[d][to(j)]  BY <1>2, <1>4, <4>1
      <4> QED BY <1>2, <3>1, <4>1, <4>2 DEF IsOut
    <3>2. CASE e # d  BY <1>4, <2>3, <3>2 DEF IsOut
    <3> QED BY <3>1, <3>2
  <2>4. f \in [OutIn(h)' -> OutIn(h)]
    <3> SUFFICES ASSUME NEW u \in OutIn(h)'
                 PROVE  (IF u[1] = d THEN <<d, to(u[2])>> ELSE u) \in OutIn(h)
      OBVIOUS
    <3>1. u \in DataPaths \X Int /\ u[1] \in DataPaths /\ u[2] \in Int /\ IsOut(h, u[1], u[2])'
      BY <2>2
    <3>2. IF u[1] = d THEN IsOut(h, d, to(u[2])) /\ to(u[2]) \in Int ELSE IsOut(h, u[1], u[2])
      BY <2>3, <3>1
    <3> HIDE DEF to
    <3> QED BY <2>1, <3>1, <3>2
  <2>5. ASSUME NEW x \in OutIn(h)', NEW y \in OutIn(h)', f[x] = f[y]
        PROVE  x = y
    <3>1. /\ x \in DataPaths \X Int /\ x[2] \in Int /\ x = <<x[1], x[2]>>
          /\ y \in DataPaths \X Int /\ y[2] \in Int /\ y = <<y[1], y[2]>>
      BY <2>2
    <3>2. f[x] = (IF x[1] = d THEN <<d, to(x[2])>> ELSE x)
          /\ f[y] = (IF y[1] = d THEN <<d, to(y[2])>> ELSE y)
      OBVIOUS
    <3>3. \A i, j \in Int : to(i) = to(j) => i = j  BY <1>2
    <3> HIDE DEF to, f
    <3>4. CASE x[1] = d
      <4>1. <<d, to(x[2])>> = f[y]  BY <2>5, <3>2, <3>4
      <4>2. y[1] = d  BY <3>2, <4>1
      <4>3. to(x[2]) = to(y[2])  BY <3>2, <4>1, <4>2
      <4> QED BY <3>1, <3>3, <3>4, <4>2, <4>3
    <3>5. CASE x[1] # d
      <4>1. x = f[y]  BY <2>5, <3>2, <3>5
      <4>2. y[1] # d  BY <3>2, <3>5, <4>1
      <4> QED BY <3>2, <4>1, <4>2
    <3> QED BY <3>4, <3>5
  <2> HIDE DEF f
  <2>6. IsFiniteSet(OutIn(h))  BY OutFinite
  <2>7. Cardinality(OutIn(h)') <= Cardinality(OutIn(h))
    BY <2>4, <2>5, <2>6, CountInjected
  <2> QED BY <2>7 DEF Count
<1> QED BY <1>0, <1>5, ReturnRefined DEF Refined

LEMMA CloseRefined ==
  ASSUME Inv, Inv', NEW d \in DataPaths, Close(d)
  PROVE  Refined
<1>1. spf' = spf /\ out' = [out EXCEPT ![d] = <<>>]  BY DEF Close
<1>2. ASSUME NEW h \in Handles PROVE Count'[h] <= Count[h]
  <2>1. \A e \in DataPaths : out'[e] = IF e = d THEN <<>> ELSE out[e]
    BY <1>1 DEF Inv, TypeInv
  <2>2. OutIn(h)' \in SUBSET OutIn(h)  BY <2>1 DEF OutIn
  <2>3. IsFiniteSet(OutIn(h))  BY OutFinite
  <2> QED BY <2>2, <2>3, FS_Subset DEF Count
<1> QED BY <1>1, <1>2, ReturnRefined DEF Refined

\* Unmapping entries takes from the count what is not negative.
LEMMA Unmapped ==
  ASSUME Inv, NEW x \in Nat, NEW S \in SUBSET DOMAIN entries
  PROVE  x - Cardinality(S) <= x
<1>1. IsFiniteSet(DOMAIN entries)
  <2>1. NumEntries \in Nat /\ IsFiniteSet(1 .. NumEntries)  BY SizeType, FS_Interval
  <2> QED BY <2>1, Domains, FS_EmptySet DEF Inv, Entry
<1> QED BY <1>1, FS_Subset, FS_CardinalityType

LEMMA SweepRefined ==
  ASSUME Inv, Inv', NEW d \in DataPaths, Sweep(d)
  PROVE  Refined
<1>1. PICK S : /\ S \subseteq Swept(call[d].want)
               /\ spf' = [h \in Handles |-> spf[h] - Cardinality({i \in S : entries[i].handle = h})]
  BY DEF Sweep
<1>2. Allocated  BY InCall DEF Sweep
<1>3. S \subseteq DOMAIN entries  BY <1>1, <1>2, Domains DEF Inv, Swept
<1>4. ASSUME NEW h \in Handles PROVE spf'[h] <= spf[h]
  <2>1. spf[h] \in Nat  BY DEF Inv, TypeInv
  <2>2. {i \in S : entries[i].handle = h} \in SUBSET DOMAIN entries  BY <1>3
  <2>3. spf'[h] = spf[h] - Cardinality({i \in S : entries[i].handle = h})  BY <1>1
  <2> QED BY <2>1, <2>2, <2>3, Unmapped
<1>5. out' = out  BY DEF Sweep
<1> QED BY <1>4, <1>5, UnmapRefined DEF Refined

LEMMA LeaveRefined ==
  ASSUME Inv, Inv', NEW d \in DataPaths, Leave(d)
  PROVE  Refined
<1>1. out' = out  BY DEF Leave
<1>2. CASE spf' = spf
  <2>1. \A h \in Handles : spf[h] \in Nat  BY DEF Inv, TypeInv
  <2>2. \A h \in Handles : spf'[h] <= spf[h]  BY <1>2, <2>1
  <2> QED BY <1>1, <2>2, UnmapRefined DEF Refined
<1>3. CASE \E failed : UnmapAll(failed)
  <2>1. PICK failed : UnmapAll(failed)  BY <1>3
  <2>2. ASSUME NEW h \in Handles PROVE spf'[h] <= spf[h]
    <3> DEFINE S == {i \in DOMAIN entries : entries[i].handle = h /\ h \notin failed}
    <3>1. spf[h] \in Nat /\ S \in SUBSET DOMAIN entries  BY DEF Inv, TypeInv
    <3>2. spf'[h] = spf[h] - Cardinality(S)  BY <2>1 DEF UnmapAll
    <3> HIDE DEF S
    <3> QED BY <3>1, <3>2, Unmapped
  <2> QED BY <1>1, <2>2, UnmapRefined DEF Refined
<1> QED BY <1>2, <1>3 DEF Leave, Deinit

LEMMA UnmapEvictedRefined ==
  ASSUME Inv, Inv', NEW d \in DataPaths, UnmapEvicted(d)
  PROVE  Refined
<1>1. PICK w : w = call[d].to_unmap  OBVIOUS
<1>2. out' = out /\ (spf' = spf \/ spf' = [spf EXCEPT ![w] = @ - 1])
  BY <1>1 DEF UnmapEvicted
<1>3. spf \in [Handles -> Nat]  BY DEF Inv, TypeInv
<1>4. \A h \in Handles : spf'[h] <= spf[h]  BY <1>2, <1>3
<1> QED BY <1>2, <1>4, UnmapRefined DEF Refined

LEMMA OtherRefined ==
  ASSUME spf' = spf, out' = out
  PROVE  Refined
<1>1. Mapped' = Mapped  BY DEF Mapped
<1> QED BY <1>1, SameOut DEF Refined

LEMMA CacheStarts == Init => Memory!Init
<1> SUFFICES ASSUME Init PROVE Memory!Init
  OBVIOUS
<1>1. {h \in Handles : spf[h] > 0} = {}  BY DEF Init
<1>2. ASSUME NEW h \in Handles PROVE Cardinality(OutIn(h)) = 0
  <2>1. \A d \in DataPaths : DOMAIN out[d] = {}  BY DEF Init
  <2>2. OutIn(h) = {}  BY <2>1 DEF OutIn
  <2> QED BY <2>2, FS_EmptySet
<1>3. [h \in Handles |-> Cardinality(OutIn(h))] = [h \in Handles |-> 0]
  BY <1>2
<1> QED BY <1>1, <1>3 DEF Memory!Init

LEMMA CacheSteps ==
  Inv /\ Inv' /\ [Next]_vars
    => [Memory!Next]_<<{h \in Handles : spf[h] > 0},
                       [h \in Handles |-> Cardinality(OutIn(h))]>>
<1> SUFFICES ASSUME Inv, Inv', [Next]_vars PROVE Refined
  BY DEF Refined, Mapped, Count
<1>1. ASSUME NEW d \in DataPaths, CallStep(d) PROVE Refined
  <2>1. CASE Sweep(d) \/ MapOk(d) \/ UnmapEvicted(d) \/ SendOk(d)
    BY <2>1, SweepRefined, MapOkRefined, UnmapEvictedRefined, SendOkRefined
  <2>2. CASE \/ Lock(d) \/ Hit(d) \/ TakeUnused(d) \/ Evict(d) \/ Full(d)
             \/ MapFails(d) \/ Touch(d) \/ Aged(d) \/ SendFails(d)
    <3>1. spf' = spf /\ out' = out
      BY <2>2 DEF Lock, Hit, TakeUnused, Evict, Full, MapFails, Touch, Aged, SendFails
    <3> QED BY <3>1, OtherRefined
  <2> QED BY <1>1, <2>1, <2>2 DEF CallStep
<1>2. ASSUME NEW d \in DataPaths, Close(d) \/ Leave(d) \/ Receive(d) PROVE Refined
  BY <1>2, CloseRefined, LeaveRefined, ReceiveRefined
<1>3. ASSUME NEW d \in DataPaths,
             Configure(d) \/ Reconfigure(d) \/ \E h \in Handles : Begin(d, h)
      PROVE  Refined
  <2>1. spf' = spf /\ out' = out  BY <1>3 DEF Configure, Reconfigure, Begin
  <2> QED BY <2>1, OtherRefined
<1>4. CASE Decrement \/ UNCHANGED vars
  <2>1. spf' = spf /\ out' = out  BY <1>4 DEF Decrement, vars
  <2> QED BY <2>1, OtherRefined
<1> QED BY <1>1, <1>2, <1>3, <1>4 DEF Next

\* The cache does what MappedMemory promises, whatever fails: the memory of a buffer is
\* mapped before the buffer is sent to the DSP and stays mapped until it has come back
\* (ext_mem_cache_get_entry, ext_mem_cache_buf_done).
THEOREM ImplementsMappedMemory == Spec => KeepsMemoryMapped
BY InvHolds, CacheStarts, CacheSteps, PTL DEF Spec, KeepsMemoryMapped, Memory!Spec
=============================================================================
