-------------------------- MODULE GslDataPath_proofs --------------------------
(***************************************************************************)
(* Proofs about GslDataPath, for every number of buffers, every            *)
(* configuration and every choice of faults: types, who owns a buffer,     *)
(* that none is lost, and that metadata stay with their buffer.            *)
(***************************************************************************)
EXTENDS GslDataPath, FiniteSetTheorems, SequenceTheorems, TLAPS

-----------------------------------------------------------------------------
(* The ring. *)

\* Positions in a ring of n, as the additions of this code reach them.
LEMMA ModType ==
  ASSUME NEW n \in Nat \ {0}, NEW x \in Int
  PROVE  x % n \in 0 .. n - 1
  OBVIOUS

LEMMA ModSmall ==
  ASSUME NEW n \in Nat \ {0}, NEW x \in 0 .. n - 1
  PROVE  x % n = x
  OBVIOUS

LEMMA ModOver ==
  ASSUME NEW n \in Nat \ {0}, NEW x \in n .. 2 * n - 1
  PROVE  x % n = x - n
  OBVIOUS

LEMMA ModUnder ==
  ASSUME NEW n \in Nat \ {0}, NEW x \in - n .. - 1
  PROVE  x % n = x + n
  OBVIOUS

\* From a position c, each of the n positions is reached once.
LEMMA AtType ==
  ASSUME NEW r, r.curr \in Buff, NEW i \in 0 .. NumBuffs
  PROVE  /\ At(r, i) \in Buff
         /\ At(r, i) = IF r.curr + i < NumBuffs THEN r.curr + i ELSE r.curr + i - NumBuffs
PROOF
  <1> DEFINE x == r.curr + i
  <1>1. x \in 0 .. 2 * NumBuffs - 1 /\ r.curr \in Int /\ i \in Int
    BY NumBuffsType DEF Buff
  <1>2. CASE x < NumBuffs
    BY <1>1, <1>2, NumBuffsType, ModSmall DEF At, Buff
  <1>3. CASE ~(x < NumBuffs)
    <2>1. x \in NumBuffs .. 2 * NumBuffs - 1
      BY <1>1, <1>3, NumBuffsType
    <2>2. x % NumBuffs = x - NumBuffs
      BY <2>1, NumBuffsType, ModOver
    <2> QED
      BY <1>1, <1>3, <2>2, NumBuffsType DEF At, Buff
  <1> QED
    BY <1>2, <1>3

LEMMA AtOnce ==
  ASSUME NEW r, r.curr \in Buff, NEW i \in 0 .. NumBuffs - 1, NEW j \in 0 .. NumBuffs - 1,
         At(r, i) = At(r, j)
  PROVE  i = j
  BY AtType, NumBuffsType DEF Buff

LEMMA MdType ==
  /\ MdSize \in Nat \ {0} /\ NoMd \in 0 .. MdSize /\ 0 \in Buff /\ 0 \in 0 .. MdSize - 1
  /\ Format \in 0 .. Format /\ 0 .. MdSize \subseteq 0 .. Format /\ NoMd = MdSize
  /\ Format = MdSize + 1
  /\ \A x \in Int : x % MdSize \in 0 .. MdSize - 1
  /\ \A b \in Buff : (b + 1) % NumBuffs \in Buff
  BY NumBuffsType, ModType DEF MdSize, NoMd, Format, Buff

-----------------------------------------------------------------------------
(* Types.  TypeOK is not inductive: a call that has not ended has buffers left to
   move, a phase of the controlling thread belongs to an operation, and while a buffer
   is queued there are turns left. *)

Entry == [buff : Buff, md : 0 .. Format]

CallRecord == [pc : {"idle", "find", "wait", "copy", "enqueue", "send", "end"}, buf : Buff,
               md : 0 .. Format, left : 0 .. MaxChunks, tries : 0 .. MaxRetries, rc : Result]
DoneRecord == [pc : {"idle", "mark", "signal", "free"}, dir : Dir, buf : Buff]
CtrlRecord == [op : {"none", "start", "stop", "flush", "close"}, dir : Dir,
               pc : {"idle", "abort", "trans", "command", "test", "asleep", "clear",
                     "queue", "enqueue", "send", "deinit"},
               turn : 0 .. NumBuffs, buf : Buff, md : 0 .. NoMd]
GraphRecord == [state : {"OPENED", "STARTED", "STOPPED", "ERROR", "CLOSED"},
                trans_sig : BOOLEAN]
Wrong == {"SEND", "WAIT", "STOP", "CONFIG", "CLEAR", "SSR", "EARLY"}

HasLeft(c) == c.pc \notin {"idle", "end"} => c.left # 0
InPhase(c) ==
  /\ c.op = "none" <=> c.pc = "idle"
  /\ c.op = "start" => c.pc \in {"queue", "enqueue", "send"}
  /\ c.pc \in {"enqueue", "send"} => c.turn < NumBuffs

TypeInv ==
  /\ scenario \in Scenarios /\ dp \in [Dir -> DataPath] /\ held \in [Dir -> Seq(Entry)]
  /\ slot \in [Buff -> 0 .. Format]
  /\ packet \in [Dir -> [Buff -> {"none", "kept", "freed"}]]
  /\ call \in [Dir -> CallRecord] /\ \A d \in Dir : HasLeft(call[d])
  /\ done \in DoneRecord
  /\ ctrl \in CtrlRecord /\ InPhase(ctrl)
  /\ graph \in GraphRecord /\ gave_up \subseteq Wrong

LEMMA ScenarioType ==
  ASSUME TypeInv
  PROVE  conf \in [Dir -> Config] /\ Faults \subseteq Fault
  BY ScenariosType DEF TypeInv, conf, Faults

LEMMA Idles ==
  /\ IdleCall \in CallRecord /\ IdleCall.pc = "idle" /\ HasLeft(IdleCall)
  /\ IdleDone \in DoneRecord /\ IdleDone.pc = "idle"
  /\ IdleCtrl \in CtrlRecord /\ InPhase(IdleCtrl) /\ IdleCtrl.pc = "idle"
PROOF
  <1>1. 0 \in Buff /\ 0 \in 0 .. MaxChunks /\ 0 \in 0 .. MaxRetries /\ 0 \in 0 .. NumBuffs
    BY MdType, RetriesType, NumBuffsType
  <1>2. NoMd \in 0 .. Format /\ NoMd \in 0 .. NoMd
    BY MdType
  <1> QED
    BY <1>1, <1>2 DEF IdleCall, IdleDone, IdleCtrl, CallRecord, DoneRecord, CtrlRecord, HasLeft,
                InPhase, Result, Dir

LEMMA TypeInit == Init => TypeInv
PROOF
  <1> SUFFICES ASSUME Init PROVE TypeInv
    OBVIOUS
  <1>1. NewDataPath \in DataPath
    BY MdType DEF NewDataPath, DataPath
  <1>2. /\ held \in [Dir -> Seq(Entry)]
        /\ slot \in [Buff -> 0 .. Format]
        /\ packet \in [Dir -> [Buff -> {"none", "kept", "freed"}]]
    BY MdType DEF Init
  <1>3. graph \in GraphRecord
    BY DEF Init, GraphRecord
  <1> QED
    BY <1>1, <1>2, <1>3, Idles DEF Init, TypeInv

\* What the operations of a data path give is a data path.
LEMMA DataPathType ==
  ASSUME NEW r \in DataPath
  PROVE  /\ Taken(r) \in DataPath /\ Enqueued(r) \in DataPath /\ Dequeued(r) \in DataPath
         /\ Acked(r) \in DataPath /\ MdCleared(r) \in DataPath /\ Woken(r) \in DataPath
         /\ Configured(r) \in DataPath
         /\ \A b \in Buff : MarkedAvail(r, b) \in DataPath
         /\ NextEntry(r) \in 0 .. NoMd
PROOF
  <1>1. /\ (r.curr + 1) % NumBuffs \in Buff /\ (r.head + 1) % MdSize \in 0 .. MdSize - 1
        /\ (r.tail + 1) % MdSize \in 0 .. MdSize - 1
        /\ (r.acked + 1) % MdSize \in 0 .. MdSize - 1
    BY MdType DEF DataPath
  <1>2. r.head \in 0 .. NoMd
    BY MdType DEF DataPath
  <1> QED
    BY <1>1, <1>2, MdType
       DEF DataPath, Taken, Enqueued, Dequeued, Acked, MdCleared, Woken, Configured,
           MarkedAvail, NextEntry

\* A signal changes nothing but what is waited for.
LEMMA SignalledType ==
  ASSUME TypeInv, NEW d \in Dir, NEW f \in SUBSET {"RSP", "CLOSE", "SSR"}
  PROVE  Signalled(d, f) \in DataPath
  BY DEF TypeInv, DataPath, Signalled

LEMMA RemoveAtType ==
  ASSUME NEW S, NEW s \in Seq(S), NEW k \in 1 .. Len(s)
  PROVE  /\ RemoveAt(s, k) \in Seq(S) /\ Len(RemoveAt(s, k)) = Len(s) - 1
         /\ \A j \in 1 .. Len(s) - 1 : RemoveAt(s, k)[j] = IF j < k THEN s[j] ELSE s[j + 1]
<1> DEFINE a == SubSeq(s, 1, k - 1)
           b == SubSeq(s, k + 1, Len(s))
<1>1. Len(s) \in Nat /\ k \in Nat  OBVIOUS
<1>2. /\ a \in Seq(S) /\ Len(a) = k - 1 /\ \A j \in 1 .. k - 1 : a[j] = s[j]
  BY <1>1
<1>3. /\ b \in Seq(S) /\ Len(b) = Len(s) - k /\ \A j \in 1 .. Len(s) - k : b[j] = s[k + j]
  BY <1>1
<1> HIDE DEF a, b
<1>4. /\ a \o b \in Seq(S) /\ Len(a \o b) = Len(s) - 1
      /\ \A j \in 1 .. Len(s) - 1 : (a \o b)[j] = IF j <= Len(a) THEN a[j] ELSE b[j - Len(a)]
  <2>1. /\ a \o b \in Seq(S) /\ Len(a \o b) = Len(a) + Len(b)
        /\ \A j \in 1 .. Len(a) + Len(b) :
             (a \o b)[j] = IF j <= Len(a) THEN a[j] ELSE b[j - Len(a)]
    BY <1>2, <1>3, ConcatProperties
  <2>2. Len(a) + Len(b) = Len(s) - 1  BY <1>1, <1>2, <1>3
  <2> QED BY <2>1, <2>2
<1>5. ASSUME NEW j \in 1 .. Len(s) - 1
      PROVE  (a \o b)[j] = IF j < k THEN s[j] ELSE s[j + 1]
  <2>1. CASE j < k  BY <1>1, <1>2, <1>4, <2>1
  <2>2. CASE ~(j < k)
    <3>1. j - Len(a) \in 1 .. Len(s) - k /\ k + (j - Len(a)) = j + 1
      BY <1>1, <1>2, <2>2
    <3>2. (a \o b)[j] = b[j - Len(a)]  BY <1>1, <1>2, <1>4, <2>2
    <3> QED BY <1>3, <2>2, <3>1, <3>2
  <2> QED BY <2>1, <2>2
<1> QED BY <1>4, <1>5 DEF RemoveAt, a, b

\* What a client's thread does keeps the types: it sets its own call, its data path, and
\* what it sends.
LEMMA SetCallType ==
  ASSUME TypeInv, NEW d \in Dir, NEW c \in CallRecord, HasLeft(c),
         call' = [call EXCEPT ![d] = c]
  PROVE  call' \in [Dir -> CallRecord] /\ \A e \in Dir : HasLeft(call'[e])
  BY DEF TypeInv

LEMMA EndsType ==
  ASSUME TypeInv, NEW d \in Dir, NEW s \in Result, Ends(d, s)
  PROVE  /\ call' \in [Dir -> CallRecord] /\ \A e \in Dir : HasLeft(call'[e])
         /\ call'[d].pc = "end" /\ \A e \in Dir \ {d} : call'[e] = call[e]
PROOF
  <1> DEFINE ended == [IdleCall EXCEPT !.pc = "end", !.rc = s]
  <1>1. ended \in CallRecord /\ HasLeft(ended) /\ ended.pc = "end"
    BY Idles DEF CallRecord, HasLeft, IdleCall
  <1>2. call' = [call EXCEPT ![d] = ended] /\ call \in [Dir -> CallRecord]
    BY DEF Ends, TypeInv
  <1> HIDE DEF ended
  <1> QED
    BY <1>1, <1>2, SetCallType

LEMMA TypeCall ==
  ASSUME TypeInv, NEW d \in Dir, Begin(d) \/ CallStep(d) \/ WaitTimesOut(d)
  PROVE  TypeInv'
PROOF
  <1> DEFINE c == call[d]
             r == dp[d]
             Sets(next) == /\ call' = [call EXCEPT ![d] = next]
                           /\ next \in CallRecord /\ HasLeft(next)
             CallsType == call' \in [Dir -> CallRecord] /\ \A e \in Dir : HasLeft(call'[e])
  <1>1. /\ c \in CallRecord /\ HasLeft(c) /\ r \in DataPath /\ held[d] \in Seq(Entry)
        /\ call \in [Dir -> CallRecord] /\ dp \in [Dir -> DataPath]
    BY DEF TypeInv
  <1>2. ASSUME NEW next, Sets(next) PROVE CallsType
    BY <1>2, SetCallType
  <1>3. CASE Begin(d)
    <2>1. PICK n \in 1 .. MaxChunks, md \in {NoMd, Format} :
            /\ call' = [call EXCEPT ![d] = [IdleCall EXCEPT !.pc = "find", !.md = md, !.left = n]]
            /\ gave_up' \in {gave_up, gave_up \cup {"EARLY"}}
            /\ UNCHANGED <<scenario, dp, buffers, done, ctrl, graph>>
      BY <1>3 DEF Begin
    <2>2. n \in 0 .. MaxChunks /\ n # 0 /\ md \in 0 .. Format
      BY RetriesType, MdType
    <2>3. Sets([IdleCall EXCEPT !.pc = "find", !.md = md, !.left = n])
      BY <2>1, <2>2, Idles DEF CallRecord, HasLeft
    <2> QED
      BY <2>1, <2>3, SetCallType DEF TypeInv, buffers, Wrong
  <1>4. CASE Find(d)
    <2>1. /\ UNCHANGED <<scenario, buffers, done, ctrl, graph, gave_up>> /\ c.pc = "find"
          /\ \/ /\ dp' = [dp EXCEPT ![d] = Taken(r)]
                /\ \E pc \in {"copy", "send"} :
                     call' = [call EXCEPT ![d] = [c EXCEPT !.pc = pc, !.buf = r.curr]]
             \/ /\ UNCHANGED dp
                /\ \/ call' = [call EXCEPT ![d] = [c EXCEPT !.pc = "wait"]]
                   \/ Ends(d, "ENORESOURCE")
      BY <1>1, <1>4 DEF Find
    <2>2. \A pc \in {"copy", "send"} : /\ [c EXCEPT !.pc = pc, !.buf = r.curr] \in CallRecord
                                       /\ HasLeft([c EXCEPT !.pc = pc, !.buf = r.curr])
      BY <1>1, <2>1 DEF CallRecord, DataPath, HasLeft
    <2>3. [c EXCEPT !.pc = "wait"] \in CallRecord /\ HasLeft([c EXCEPT !.pc = "wait"])
      BY <1>1, <2>1 DEF CallRecord, HasLeft
    <2>4. CallsType
      BY <1>2, <2>1, <2>2, <2>3, EndsType DEF Result
    <2>5. Taken(r) \in DataPath
      BY <1>1, DataPathType
    <2> QED
      BY <1>1, <2>1, <2>4, <2>5 DEF TypeInv, buffers
  <1>5. CASE FindShmem(d)
    <2>1. PICK b \in Buff :
            /\ call' = [call EXCEPT ![d].buf = b, ![d].pc = IF HasMd(d) THEN "enqueue" ELSE "send"]
            /\ UNCHANGED <<scenario, dp, buffers, done, ctrl, graph, gave_up>>
            /\ c.pc = "find"
      BY <1>5 DEF FindShmem
    <2>2. PICK pc \in {"enqueue", "send"} :
            call' = [call EXCEPT ![d] = [c EXCEPT !.pc = pc, !.buf = b]]
      BY <1>1, <2>1
    <2>3. Sets([c EXCEPT !.pc = pc, !.buf = b])
      BY <1>1, <2>1, <2>2 DEF CallRecord, HasLeft
    <2> QED
      BY <2>1, <2>3, SetCallType DEF TypeInv, buffers
  <1>6. CASE WaitReturns(d)
    <2>1. /\ dp' = [dp EXCEPT ![d] = Woken(r)] /\ c.pc = "wait"
          /\ UNCHANGED <<scenario, buffers, done, ctrl, graph, gave_up>>
          /\ \/ Ends(d, "EIODATA") \/ Ends(d, "ESUBSYSRESET") \/ Ends(d, "ENOMEMORY")
             \/ /\ c.tries < MaxRetries
                /\ call' = [call EXCEPT ![d] = [c EXCEPT !.pc = "find", !.tries = c.tries + 1]]
      BY <1>1, <1>6 DEF WaitReturns, MayRetry
    <2>2. ASSUME c.tries < MaxRetries
          PROVE  /\ [c EXCEPT !.pc = "find", !.tries = c.tries + 1] \in CallRecord
                 /\ HasLeft([c EXCEPT !.pc = "find", !.tries = c.tries + 1])
      <3>1. c.tries + 1 \in 0 .. MaxRetries
        BY <1>1, <2>2, RetriesType DEF CallRecord
      <3> QED
        BY <1>1, <2>1, <3>1 DEF CallRecord, HasLeft
    <2>3. CallsType
      BY <1>2, <2>1, <2>2, EndsType DEF Result
    <2>4. Woken(r) \in DataPath
      BY <1>1, DataPathType
    <2> QED
      BY <1>1, <2>1, <2>3, <2>4 DEF TypeInv, buffers
  <1>7. CASE WaitTimesOut(d)
    <2>1. Ends(d, "ETIMEOUT") /\ UNCHANGED <<scenario, dp, buffers, done, ctrl, graph, gave_up>>
      BY <1>7 DEF WaitTimesOut
    <2>2. CallsType
      BY <2>1, EndsType DEF Result
    <2> QED
      BY <2>1, <2>2 DEF TypeInv, buffers
  <1>8. CASE Copy(d)
    <2>1. /\ dp' = [dp EXCEPT ![d] = Dequeued(r)] /\ c.pc = "copy"
          /\ call' = [call EXCEPT ![d] = [c EXCEPT !.pc = "enqueue"]]
          /\ UNCHANGED <<scenario, buffers, done, ctrl, graph, gave_up>>
      BY <1>1, <1>8 DEF Copy
    <2>2. Sets([c EXCEPT !.pc = "enqueue"])
      BY <1>1, <2>1 DEF CallRecord, HasLeft
    <2> QED
      BY <1>1, <2>1, <2>2, SetCallType, DataPathType DEF TypeInv, buffers
  <1>9. CASE Enqueue(d)
    <2>1. /\ dp' = [dp EXCEPT ![d] = Enqueued(r)] /\ c.pc = "enqueue"
          /\ \/ Ends(d, "ENORESOURCE")
             \/ \E md \in {c.md, NextEntry(r)} :
                  call' = [call EXCEPT ![d] = [c EXCEPT !.pc = "send", !.md = md]]
          /\ UNCHANGED <<scenario, buffers, done, ctrl, graph, gave_up>>
      BY <1>1, <1>9 DEF Enqueue
    <2>2. \A md \in {c.md, NextEntry(r)} : md \in 0 .. Format
      BY <1>1, DataPathType, MdType DEF CallRecord
    <2>3. \A md \in 0 .. Format : /\ [c EXCEPT !.pc = "send", !.md = md] \in CallRecord
                                  /\ HasLeft([c EXCEPT !.pc = "send", !.md = md])
      BY <1>1, <2>1 DEF CallRecord, HasLeft
    <2>4. CallsType
      BY <1>2, <2>1, <2>2, <2>3, EndsType DEF Result
    <2> QED
      BY <1>1, <2>1, <2>4, DataPathType DEF TypeInv, buffers
  <1>10. PacketUsed(d, c.buf) \in [Dir -> [Buff -> {"none", "kept", "freed"}]]
    BY <1>1 DEF TypeInv, PacketUsed, CallRecord
  <1>11. CASE SendOk(d)
    <2> DEFINE md == IF c.md = Format THEN c.md ELSE NoMd
               next == [IdleCall EXCEPT !.pc = "find", !.left = c.left - 1, !.md = md]
               sent == [buff |-> c.buf, md |-> c.md]
    <2>1. /\ held' = [held EXCEPT ![d] = Append(@, sent)]
          /\ slot' = IF d = "read" THEN [slot EXCEPT ![c.buf] = c.md] ELSE slot
          /\ packet' = PacketUsed(d, c.buf) /\ c.pc = "send"
          /\ Ends(d, "OK") \/ (c.left # 1 /\ call' = [call EXCEPT ![d] = next])
          /\ UNCHANGED <<scenario, dp, done, ctrl, graph, gave_up>>
      BY <1>1, <1>11 DEF SendOk
    <2>2. ASSUME c.left # 1
          PROVE  next \in CallRecord /\ HasLeft(next)
      <3>1. c.left \in 1 .. MaxChunks
        BY <1>1, <2>1, RetriesType DEF HasLeft, CallRecord
      <3>2. c.left - 1 \in 0 .. MaxChunks /\ c.left - 1 # 0 /\ md \in 0 .. Format
        BY <2>2, <3>1, RetriesType, MdType
      <3> QED
        BY <3>2, Idles DEF CallRecord, HasLeft
    <2> HIDE DEF next
    <2>3. CallsType
      BY <1>2, <2>1, <2>2, EndsType DEF Result
    <2>4. sent \in Entry /\ slot' \in [Buff -> 0 .. Format]
      BY <1>1, <2>1 DEF Entry, CallRecord, TypeInv
    <2> HIDE DEF sent
    <2>5. Append(held[d], sent) \in Seq(Entry)
      BY <1>1, <2>4
    <2>6. held' \in [Dir -> Seq(Entry)]
      BY <2>1, <2>5 DEF TypeInv
    <2> QED
      BY <1>10, <2>1, <2>3, <2>4, <2>6 DEF TypeInv
  <1>12. CASE SendFails(d)
    <2>1. /\ packet' = PacketUsed(d, c.buf) /\ Ends(d, "EFAILED")
          /\ gave_up' \in {gave_up, gave_up \cup {"SEND"}}
          /\ UNCHANGED <<scenario, dp, held, slot, done, ctrl, graph>>
      BY <1>12 DEF SendFails
    <2>2. CallsType
      BY <2>1, EndsType DEF Result
    <2> QED
      BY <1>10, <2>1, <2>2 DEF TypeInv, Wrong
  <1>13. CASE End(d)
    <2>1. /\ Sets(IdleCall) /\ graph' = [graph EXCEPT !.trans_sig = TRUE]
          /\ UNCHANGED <<scenario, dp, buffers, done, ctrl, gave_up>>
      BY <1>13, Idles DEF End
    <2> QED
      BY <2>1, SetCallType DEF TypeInv, buffers, GraphRecord
  <1> QED
    BY <1>3, <1>4, <1>5, <1>6, <1>7, <1>8, <1>9, <1>11, <1>12, <1>13 DEF CallStep

\* ... what GPR's thread does, and a subsystem that goes down ...
LEMMA TypeDone ==
  ASSUME TypeInv, (\E d \in Dir : Receive(d)) \/ DoneStep \/ Ssr
  PROVE  TypeInv'
PROOF
  <1>1. /\ done.dir \in Dir /\ done.buf \in Buff
        /\ \A d \in Dir : dp[d] \in DataPath /\ held[d] \in Seq(Entry)
        /\ held \in [Dir -> Seq(Entry)] /\ dp \in [Dir -> DataPath] /\ done \in DoneRecord
    BY DEF TypeInv, DoneRecord
  <1>2. CASE \E d \in Dir : Receive(d)
    <2>1. PICK d \in Dir : Receive(d)
      BY <1>2
    <2>2. PICK i \in 1 .. Len(held[d]) :
            /\ dp' = [dp EXCEPT ![d] = OnPacket(d, held[d][i])]
            /\ held' = [held EXCEPT ![d] = RemoveAt(@, i)]
            /\ done' = IF AfterPacket(d, held[d][i]) = "idle" THEN IdleDone
                       ELSE [pc |-> AfterPacket(d, held[d][i]), dir |-> d, buf |-> held[d][i].buff]
            /\ UNCHANGED <<scenario, slot, packet, call, ctrl, graph, gave_up>>
      BY <2>1 DEF Receive
    <2>3. OnPacket(d, held[d][i]) \in DataPath
      BY <1>1, DataPathType DEF OnPacket, Dir
    <2>4. RemoveAt(held[d], i) \in Seq(Entry) /\ held[d][i] \in Entry
      BY <1>1, RemoveAtType
    <2>5. AfterPacket(d, held[d][i]) \in {"idle", "mark", "free"}
      BY DEF AfterPacket, Dir
    <2>6. done' \in DoneRecord
      BY <2>2, <2>4, <2>5, Idles DEF Entry, DoneRecord
    <2> QED
      BY <1>1, <2>2, <2>3, <2>4, <2>6 DEF TypeInv
  <1>3. CASE MarkDone
    <2>1. MarkedAvail(dp[done.dir], done.buf) \in DataPath
      BY <1>1, DataPathType
    <2>2. [done EXCEPT !.pc = "signal", !.buf = 0] \in DoneRecord
      BY <1>1, MdType DEF DoneRecord
    <2>3. packet' \in [Dir -> [Buff -> {"none", "kept", "freed"}]]
      BY <1>1, <1>3 DEF MarkDone, TypeInv
    <2> QED
      BY <1>1, <1>3, <2>1, <2>2, <2>3 DEF MarkDone, TypeInv
  <1>4. CASE SignalDone
    <2>1. Signalled(done.dir, {"RSP"}) \in DataPath
      BY <1>1, SignalledType
    <2> QED
      BY <1>1, <1>4, <2>1, Idles DEF SignalDone, TypeInv, buffers
  <1>5. CASE FreeEntry
    BY <1>1, <1>5, DataPathType, Idles DEF FreeEntry, TypeInv, buffers
  <1>6. CASE Ssr
    <2>1. \A d \in Dir : Signalled(d, {"SSR"}) \in DataPath
      BY SignalledType
    <2>2. graph' \in GraphRecord /\ gave_up' \subseteq Wrong
      BY <1>6 DEF Ssr, TypeInv, GraphRecord, Wrong
    <2>3. held' \in [Dir -> Seq(Entry)] /\ dp' \in [Dir -> DataPath]
      BY <1>6, <2>1 DEF Ssr
    <2> QED
      BY <1>6, <2>2, <2>3 DEF Ssr, TypeInv
  <1> QED
    BY <1>2, <1>3, <1>4, <1>5, <1>6 DEF DoneStep

\* ... the loop that queues the buffers to read ...
LEMMA TypeQueue ==
  ASSUME TypeInv, QueueStep
  PROVE  TypeInv'
PROOF
  <1> DEFINE r == dp["read"]
  <1>1. /\ ctrl \in CtrlRecord /\ InPhase(ctrl) /\ graph \in GraphRecord
        /\ r \in DataPath /\ held["read"] \in Seq(Entry) /\ r.curr \in Buff
        /\ dp \in [Dir -> DataPath] /\ held \in [Dir -> Seq(Entry)]
        /\ slot \in [Buff -> 0 .. Format] /\ "read" \in Dir
    BY DEF TypeInv, Dir, DataPath
  <1>2. /\ ctrl.turn \in 0 .. NumBuffs /\ ctrl.buf \in Buff /\ ctrl.md \in 0 .. NoMd
        /\ NoMd \in 0 .. NoMd /\ 0 \in Buff
        /\ ctrl.turn < NumBuffs => ctrl.turn + 1 \in 0 .. NumBuffs
    <2>1. ctrl.turn \in 0 .. NumBuffs /\ ctrl.buf \in Buff /\ ctrl.md \in 0 .. NoMd
      BY <1>1 DEF CtrlRecord
    <2>2. NoMd \in 0 .. NoMd /\ 0 \in Buff
      BY MdType
    <2> QED
      BY <2>1, <2>2, NumBuffsType
  <1>3. ASSUME NextTurn, ctrl.pc = "send"
        PROVE  ctrl' \in CtrlRecord /\ InPhase(ctrl')
    BY <1>1, <1>2, <1>3 DEF NextTurn, CtrlRecord, InPhase
  <1>4. CASE QueueTake
    <2>1. /\ ctrl.pc = "queue" /\ ctrl.turn < NumBuffs
          /\ UNCHANGED <<scenario, buffers, call, done, graph, gave_up>>
          /\ dp' = dp \/ dp' = [dp EXCEPT !["read"] = Taken(r)]
          /\ \/ \E pc \in {"enqueue", "send"} :
                  ctrl' = [ctrl EXCEPT !.buf = r.curr, !.md = NoMd, !.pc = pc]
             \/ ctrl' = [ctrl EXCEPT !.turn = ctrl.turn + 1]
      BY <1>4 DEF QueueTake
    <2>2. ctrl' \in CtrlRecord /\ InPhase(ctrl')
      BY <1>1, <1>2, <2>1 DEF CtrlRecord, InPhase
    <2> QED
      BY <1>1, <2>1, <2>2, DataPathType DEF TypeInv, buffers
  <1>5. CASE QueueEntry
    <2>1. ctrl' \in CtrlRecord /\ InPhase(ctrl')
      BY <1>1, <1>2, <1>5, DataPathType DEF QueueEntry, CtrlRecord, InPhase
    <2> QED
      BY <1>1, <1>5, <2>1, DataPathType DEF QueueEntry, TypeInv, buffers
  <1>6. CASE QueueSend
    <2> DEFINE sent == [buff |-> ctrl.buf, md |-> ctrl.md]
    <2>1. sent \in Entry /\ slot' \in [Buff -> 0 .. Format]
      BY <1>1, <1>2, <1>6, MdType DEF QueueSend, Entry
    <2>2. held' = [held EXCEPT !["read"] = Append(@, sent)]
      BY <1>6 DEF QueueSend
    <2> HIDE DEF sent
    <2>3. held' \in [Dir -> Seq(Entry)]
      BY <1>1, <2>1, <2>2
    <2> QED
      BY <1>3, <1>6, <2>1, <2>3 DEF QueueSend, TypeInv
  <1>7. CASE QueueLoses
    BY <1>3, <1>7 DEF QueueLoses, TypeInv, buffers, Wrong
  <1>8. CASE QueueEnds
    BY <1>1, <1>8, Idles DEF QueueEnds, TypeInv, buffers, GraphRecord
  <1> QED
    BY <1>4, <1>5, <1>6, <1>7, <1>8 DEF QueueStep

\* ... and what else the controlling thread does.
LEMMA TypeCtrl ==
  ASSUME TypeInv,
         \/ \E d \in Dir : Configure(d)
         \/ \E op \in {"stop", "flush"} : Abort(op)
         \/ CtrlStep \/ Start \/ Close \/ AbortTimesOut \/ BuffsTimeOut
  PROVE  TypeInv'
PROOF
  <1>1. /\ ctrl \in CtrlRecord /\ InPhase(ctrl) /\ graph \in GraphRecord /\ ctrl.dir \in Dir
        /\ dp \in [Dir -> DataPath] /\ \A d \in Dir : dp[d] \in DataPath
    BY DEF TypeInv, CtrlRecord
  <1>2. \A f \in Wrong : gave_up \cup {f} \subseteq Wrong
    BY DEF TypeInv
  <1>3. ASSUME NEW pc \in {"abort", "trans", "command", "test", "asleep", "clear", "queue"},
               ctrl.pc \notin {"idle", "queue", "enqueue", "send"}
        PROVE  [ctrl EXCEPT !.pc = pc] \in CtrlRecord /\ InPhase([ctrl EXCEPT !.pc = pc])
    BY <1>1, <1>3 DEF CtrlRecord, InPhase
  <1>4. /\ [graph EXCEPT !.trans_sig = FALSE] \in GraphRecord
        /\ \A q \in {"STARTED", "STOPPED", "CLOSED"} : [graph EXCEPT !.state = q] \in GraphRecord
    BY <1>1 DEF GraphRecord
  <1>5. \A d \in Dir : /\ Signalled(d, {"CLOSE"}) \in DataPath
                       /\ Woken(dp[d]) \in DataPath /\ Configured(dp[d]) \in DataPath
    BY <1>1, DataPathType, SignalledType
  <1>6. CASE \E d \in Dir : Configure(d)
    <2>1. PICK d \in Dir : /\ dp' = [dp EXCEPT ![d] = Configured(dp[d])]
                           /\ gave_up' \in {gave_up, gave_up \cup {"CONFIG"}}
                           /\ UNCHANGED <<scenario, buffers, call, done, ctrl, graph>>
      BY <1>1, <1>6 DEF Configure
    <2> QED
      BY <1>1, <1>2, <1>5, <2>1 DEF TypeInv, buffers, Wrong
  <1>7. ASSUME NEW op \in {"start", "stop", "flush", "close"},
               NEW pc \in {"abort", "queue", "deinit", "test"},
               op = "start" => pc = "queue"
        PROVE  /\ [IdleCtrl EXCEPT !.op = op, !.pc = pc] \in CtrlRecord
               /\ InPhase([IdleCtrl EXCEPT !.op = op, !.pc = pc])
    BY <1>7, Idles DEF CtrlRecord, InPhase
  <1>8. CASE Start \/ \E op \in {"stop", "flush"} : Abort(op)
    <2>1. /\ \E op \in {"start", "stop", "flush"}, pc \in {"abort", "queue"} :
               /\ op = "start" => pc = "queue"
               /\ ctrl' = [IdleCtrl EXCEPT !.op = op, !.pc = pc]
          /\ gave_up' \in {gave_up, gave_up \cup {"EARLY"}}
          /\ UNCHANGED <<scenario, dp, buffers, call, done, graph>>
      BY <1>8 DEF Abort, Start
    <2>2. ctrl' \in CtrlRecord /\ InPhase(ctrl')
      BY <1>7, <2>1
    <2> QED
      BY <1>2, <2>1, <2>2 DEF TypeInv, buffers, Wrong
  <1>9. CASE AbortCalls
    <2>1. /\ ctrl.pc = "abort" /\ ctrl' = [ctrl EXCEPT !.pc = "trans"]
          /\ dp' \in [Dir -> DataPath]
          /\ UNCHANGED <<scenario, buffers, call, done, graph, gave_up>>
      BY <1>5, <1>9 DEF AbortCalls, Goto
    <2> QED
      BY <1>3, <2>1 DEF TypeInv, buffers
  <1>10. CASE CallEnded \/ Aborted \/ AbortTimesOut \/ Test \/ BuffsTimeOut
    <2>1. /\ ctrl.pc \in {"abort", "trans", "test", "asleep"}
          /\ \E pc \in {"abort", "command", "clear", "asleep"} : ctrl' = [ctrl EXCEPT !.pc = pc]
          /\ graph' \in {graph, [graph EXCEPT !.trans_sig = FALSE]}
          /\ gave_up' \in {gave_up, gave_up \cup {"WAIT"}}
          /\ UNCHANGED <<scenario, dp, buffers, call, done>>
      BY <1>10 DEF CallEnded, Aborted, AbortTimesOut, Test, BuffsTimeOut, Goto
    <2>2. ctrl' \in CtrlRecord /\ InPhase(ctrl')
      BY <1>3, <2>1
    <2> QED
      BY <1>2, <1>4, <2>1, <2>2 DEF TypeInv, buffers, Wrong
  <1>11. CASE Command
    <2>1. /\ ctrl.pc = "command"
          /\ \/ \E pc \in {"test", "queue"} : ctrl' = [ctrl EXCEPT !.pc = pc]
             \/ ctrl' = IdleCtrl
          /\ graph' \in {graph, [graph EXCEPT !.state = "STOPPED"]}
          /\ gave_up' \in {gave_up, gave_up \cup {"STOP"}}
          /\ UNCHANGED <<scenario, dp, buffers, call, done>>
      BY <1>11 DEF Command, Goto
    <2>2. ctrl' \in CtrlRecord /\ InPhase(ctrl')
      BY <1>3, <2>1, Idles
    <2> QED
      BY <1>2, <1>4, <2>1, <2>2 DEF TypeInv, buffers, Wrong
  <1>12. CASE BuffsWake
    <2>1. /\ ctrl.pc = "asleep" /\ dp' = [dp EXCEPT ![ctrl.dir] = Woken(dp[ctrl.dir])]
          /\ \E pc \in {"clear", "test"} : ctrl' = [ctrl EXCEPT !.pc = pc]
          /\ UNCHANGED <<scenario, buffers, call, done, graph, gave_up>>
      BY <1>1, <1>12 DEF BuffsWake, Goto
    <2> QED
      BY <1>1, <1>3, <1>5, <2>1 DEF TypeInv, buffers
  <1>13. CASE Close
    <2>1. /\ \E pc \in {"deinit", "test"} : ctrl' = [IdleCtrl EXCEPT !.op = "close", !.pc = pc]
          /\ dp' \in [Dir -> DataPath]
          /\ UNCHANGED <<scenario, buffers, call, done, graph, gave_up>>
      BY <1>5, <1>13 DEF Close
    <2>2. ctrl' \in CtrlRecord /\ InPhase(ctrl')
      BY <1>7, <2>1
    <2> QED
      BY <2>1, <2>2 DEF TypeInv, buffers
  <1>14. CASE Clear
    <2> DEFINE d == ctrl.dir
    <2>1. d \in Dir /\ dp[d] \in DataPath
      BY <1>1
    <2>2. PICK n \in AvailLen(dp[d]) :
            packet' = BuffsCleared(d, n) /\ dp' = [dp EXCEPT ![d] = Passed(d, n)]
      BY <1>14 DEF Clear
    <2>3. n \in 0 .. NumBuffs /\ At(dp[d], n) \in Buff
      BY <2>1, AtType DEF AvailLen, DataPath
    <2>4. Passed(d, n) \in DataPath
      <3>1. MdCleared(dp[d]) \in DataPath
        BY <2>1, DataPathType
      <3> QED
        BY <2>3, <3>1 DEF Passed, DataPath
    <2>5. BuffsCleared(d, n) \in [Dir -> [Buff -> {"none", "kept", "freed"}]]
      BY <2>1 DEF BuffsCleared, TypeInv
    <2>6. ctrl.pc = "clear" /\ ctrl.op \in {"stop", "flush", "close"}
      BY <1>1, <1>14 DEF Clear, InPhase, CtrlRecord
    <2>7. AfterClear \in {[ctrl EXCEPT !.pc = "test", !.dir = "write"], IdleCtrl,
                          [ctrl EXCEPT !.pc = "queue"], [ctrl EXCEPT !.pc = "deinit"]}
      BY <2>1, <2>6 DEF AfterClear, Dir
    <2>8. AfterClear \in CtrlRecord /\ InPhase(AfterClear)
      BY <1>1, <2>6, <2>7, Idles DEF CtrlRecord, InPhase, Dir
    <2>9. /\ ctrl' = AfterClear /\ gave_up' \in {gave_up, gave_up \cup {"CLEAR"}}
          /\ UNCHANGED <<scenario, held, slot, call, done, graph>>
      BY <1>14 DEF Clear
    <2> QED
      BY <1>1, <1>2, <2>2, <2>4, <2>5, <2>8, <2>9 DEF TypeInv, Wrong
  <1>15. CASE Deinit
    BY <1>4, <1>15, Idles DEF Deinit, TypeInv, buffers
  <1> QED
    BY <1>6, <1>8, <1>9, <1>10, <1>11, <1>12, <1>13, <1>14, <1>15, TypeQueue DEF CtrlStep

LEMMA TypeNext == TypeInv /\ [Next]_vars => TypeInv'
PROOF
  <1> SUFFICES ASSUME TypeInv, [Next]_vars PROVE TypeInv'
    OBVIOUS
  <1>1. CASE UNCHANGED vars
    BY <1>1 DEF vars, buffers, TypeInv
  <1>2. CASE Next
    BY <1>2, TypeCall, TypeDone, TypeCtrl DEF Next
  <1> QED
    BY <1>1, <1>2

\* Every variable has its type, for every number of buffers, configuration and fault: in
\* particular no index of a ring leaves it.
THEOREM TypeCorrect == Spec => []TypeOK
PROOF
  <1>1. TypeInv => TypeOK
    BY DEF TypeInv, TypeOK, Entry, CallRecord, DoneRecord, CtrlRecord, GraphRecord, Wrong
  <1> QED
    BY TypeInit, TypeNext, <1>1, PTL DEF Spec

-----------------------------------------------------------------------------
(* A write into the heap always finds an entry: it has given one back, and no one else
   takes one.  So it does not end with a buffer it has taken. *)

RoomInv == Heap("write") /\ call["write"].pc = "enqueue" => ~MdFull(dp["write"])

LEMMA NotFull ==
  ASSUME NEW r \in DataPath
  PROVE  /\ ~MdFull(Dequeued(r)) /\ ~MdFull(MdCleared(r)) /\ ~MdFull(Configured(r))
         /\ \A s \in DataPath : s.head = r.head /\ s.tail = r.tail => (MdFull(s) <=> MdFull(r))
PROOF
  <1>1. MdSize \in Nat /\ MdSize >= 2
    BY NumBuffsType DEF MdSize
  <1>2. ASSUME NEW x \in 0 .. MdSize - 1
        PROVE  (x + 1) % MdSize = IF x = MdSize - 1 THEN 0 ELSE x + 1
    <2>1. CASE x = MdSize - 1
      <3>1. x + 1 \in MdSize .. 2 * MdSize - 1
        BY <1>1, <2>1
      <3>2. (x + 1) % MdSize = (x + 1) - MdSize
        BY <1>1, <3>1, ModOver
      <3> QED
        BY <1>1, <2>1, <3>2
    <2>2. CASE x # MdSize - 1
      <3>1. x + 1 \in 0 .. MdSize - 1
        BY <1>1, <2>2
      <3> QED
        BY <1>1, <2>2, <3>1, ModSmall
    <2> QED
      BY <2>1, <2>2
  <1>3. r.head \in 0 .. MdSize - 1 /\ r.tail \in 0 .. MdSize - 1
    BY DEF DataPath
  <1>4. ~MdFull(Dequeued(r))
    <2>1. CASE r.tail = r.head
      BY <1>1, <1>2, <1>3, <2>1 DEF MdFull, Dequeued
    <2>2. CASE r.tail # r.head
      <3>1. Dequeued(r).tail = (r.tail + 1) % MdSize /\ Dequeued(r).head = r.head
        BY <2>2 DEF Dequeued, DataPath
      <3> QED
        BY <1>1, <1>2, <1>3, <2>2, <3>1 DEF MdFull
    <2> QED
      BY <2>1, <2>2
  <1>5. (0 + 1) % MdSize # 0
    BY <1>1, <1>2
  <1> QED
    BY <1>4, <1>5 DEF MdFull, MdCleared, Configured, DataPath

\* A client's thread leaves the other direction alone.
LEMMA CallAlone ==
  ASSUME TypeInv, NEW d \in Dir, Begin(d) \/ CallStep(d) \/ WaitTimesOut(d)
  PROVE  /\ \A e \in Dir \ {d} : call'[e] = call[e] /\ dp'[e] = dp[e] /\ held'[e] = held[e]
         /\ UNCHANGED <<scenario, done, ctrl>> /\ graph'.state = graph.state
         /\ gave_up \subseteq gave_up'
PROOF
  <1>1. /\ dp \in [Dir -> DataPath] /\ call \in [Dir -> CallRecord] /\ DOMAIN held = Dir
        /\ graph \in GraphRecord
    BY DEF TypeInv
  <1>2. CASE Begin(d) \/ End(d) \/ WaitTimesOut(d)
    BY <1>1, <1>2 DEF Begin, End, WaitTimesOut, Ends, buffers, GraphRecord
  <1>3. CASE Find(d) \/ FindShmem(d)
    BY <1>1, <1>3 DEF Find, FindShmem, Ends, buffers
  <1>4. CASE WaitReturns(d)
    BY <1>1, <1>4 DEF WaitReturns, Ends, buffers
  <1>5. CASE Copy(d) \/ Enqueue(d)
    BY <1>1, <1>5 DEF Copy, Enqueue, Ends, buffers
  <1>6. CASE SendOk(d) \/ SendFails(d)
    BY <1>1, <1>6 DEF SendOk, SendFails, Ends, buffers
  <1> QED
    BY <1>2, <1>3, <1>4, <1>5, <1>6 DEF CallStep

LEMMA ScenarioFixed == [Next]_vars => scenario' = scenario
PROOF
  <1> SUFFICES ASSUME [Next]_vars PROVE scenario' = scenario
    OBVIOUS
  <1>1. CASE UNCHANGED vars
    BY <1>1 DEF vars
  <1>2. CASE Next
    BY <1>2
       DEF Next, CallStep, DoneStep, CtrlStep, QueueStep, Begin, WaitTimesOut, Receive,
           Configure, Abort, Start, Close, Ssr, AbortTimesOut, BuffsTimeOut, Find, FindShmem,
           WaitReturns, Copy, Enqueue, SendOk, SendFails, End, MarkDone, SignalDone,
           FreeEntry, QueueTake, QueueEntry, QueueSend, QueueLoses, QueueEnds, AbortCalls,
           CallEnded, Aborted, Command, Test, BuffsWake, Clear, Deinit
  <1> QED
    BY <1>1, <1>2

LEMMA RoomNext == TypeInv /\ RoomInv /\ [Next]_vars => RoomInv'
PROOF
  <1> DEFINE r == dp["write"]
             c == call["write"]
             Kept == dp'["write"].head = r.head /\ dp'["write"].tail = r.tail
  <1> SUFFICES ASSUME TypeInv, RoomInv, [Next]_vars, Heap("write")', call'["write"].pc = "enqueue"
               PROVE  ~MdFull(dp'["write"])
    BY DEF RoomInv, MdFull
  <1>1. /\ r \in DataPath /\ dp \in [Dir -> DataPath] /\ call \in [Dir -> CallRecord]
        /\ c \in CallRecord /\ done.dir \in Dir /\ ctrl.dir \in Dir /\ "write" \in Dir
    BY DEF TypeInv, Dir, DoneRecord, CtrlRecord
  <1>2. dp'["write"] \in DataPath
    BY <1>1, TypeNext DEF TypeInv
  <1>3. scenario' = scenario
    BY ScenarioFixed
  <1>4. Heap("write")
    BY <1>3 DEF Heap, conf
  <1>5. ASSUME Kept, c.pc = "enqueue"
        PROVE  ~MdFull(dp'["write"])
    BY <1>1, <1>2, <1>4, <1>5, NotFull DEF RoomInv
  <1>6. CASE UNCHANGED vars
    BY <1>5, <1>6 DEF vars
  <1>7. ASSUME NEW d \in Dir, Begin(d) \/ CallStep(d) \/ WaitTimesOut(d)
        PROVE  ~MdFull(dp'["write"])
    <2>1. CASE d = "read"
      <3>1. Kept /\ call'["write"] = c
        BY <1>1, <1>7, <2>1, CallAlone
      <3> QED
        BY <1>5, <3>1
    <2>2. CASE d = "write"
      <3>1. CASE Copy(d)
        BY <1>1, <2>2, <3>1, NotFull DEF Copy
      <3>2. ~Copy(d) => FALSE
        <4>1. ASSUME NEW s \in Result, Ends(d, s)
              PROVE  FALSE
          BY <2>2, <4>1, EndsType
        <4>2. ASSUME NEW n, NEW md,
                     call' = [call EXCEPT ![d] = [IdleCall EXCEPT !.pc = "find", !.md = md,
                                                                  !.left = n]]
              PROVE  FALSE
          BY <1>1, <2>2, <4>2 DEF IdleCall
        <4>3. ~Begin(d)
          BY <4>2 DEF Begin
        <4>4. ~Find(d)
          BY <1>1, <2>2, <4>1 DEF Find, Result, CallRecord
        <4>5. ~FindShmem(d)
          BY <1>4, <2>2 DEF FindShmem
        <4>6. ~WaitReturns(d) /\ ~WaitTimesOut(d)
          BY <1>1, <2>2, <4>1 DEF WaitReturns, WaitTimesOut, Result, CallRecord
        <4>7. ~Enqueue(d)
          BY <1>1, <2>2, <4>1 DEF Enqueue, Result, CallRecord
        <4>8. ~SendOk(d)
          <5>1. SUFFICES ASSUME SendOk(d) PROVE FALSE
            OBVIOUS
          <5>2. \/ Ends(d, "OK")
                \/ \E n, md : call' = [call EXCEPT ![d] = [IdleCall EXCEPT !.pc = "find", !.left = n,
                                                                          !.md = md]]
            BY <5>1, Zenon DEF SendOk
          <5>3. ASSUME NEW n, NEW md,
                       call' = [call EXCEPT ![d] = [IdleCall EXCEPT !.pc = "find", !.left = n,
                                                                    !.md = md]]
                PROVE  FALSE
            BY <1>1, <2>2, <5>3 DEF IdleCall
          <5> QED
            BY <4>1, <5>2, <5>3 DEF Result
        <4>9. ~SendFails(d)
          BY <4>1 DEF SendFails, Result
        <4>10. ~End(d)
          BY <1>1, <2>2, Idles DEF End
        <4> QED
          BY <1>7, <4>3, <4>4, <4>5, <4>6, <4>7, <4>8, <4>9, <4>10 DEF CallStep
      <3> QED
        BY <3>1, <3>2
    <2> QED
      BY <2>1, <2>2 DEF Dir
  <1>8. ASSUME NEW d \in Dir, Receive(d)
        PROVE  ~MdFull(dp'["write"])
    <2>1. /\ call' = call
          /\ \E e : dp' = [dp EXCEPT ![d] = OnPacket(d, e)]
      BY <1>8 DEF Receive
    <2>2. Kept
      BY <1>1, <2>1 DEF OnPacket, Dir
    <2> QED
      BY <1>5, <2>1, <2>2
  <1>9. CASE FreeEntry
    <2>1. call' = call /\ dp' = [dp EXCEPT ![done.dir] = Dequeued(@)]
      BY <1>9 DEF FreeEntry
    <2>2. dp'["write"] = r \/ dp'["write"] = Dequeued(r)
      BY <1>1, <2>1
    <2> QED
      BY <1>1, <1>5, <2>1, <2>2, NotFull
  <1>10. CASE MarkDone \/ SignalDone \/ Ssr \/ AbortCalls \/ Close \/ BuffsWake
    <2>1. /\ call' = call
          /\ \/ \E d \in Dir : \E f : dp' = [dp EXCEPT ![d] = Signalled(d, f)]
             \/ \E f : dp' = [d \in Dir |-> Signalled(d, f)]
             \/ \E d \in Dir : \E b : dp' = [dp EXCEPT ![d] = MarkedAvail(@, b)]
             \/ \E d \in Dir : dp' = [dp EXCEPT ![d] = Woken(@)]
      BY <1>1, <1>10 DEF MarkDone, SignalDone, Ssr, AbortCalls, Close, BuffsWake, buffers
    <2>2. \A b, f : /\ MarkedAvail(r, b).head = r.head /\ MarkedAvail(r, b).tail = r.tail
                    /\ Woken(r).head = r.head /\ Woken(r).tail = r.tail
                    /\ Signalled("write", f).head = r.head /\ Signalled("write", f).tail = r.tail
      BY <1>1 DEF MarkedAvail, Woken, Signalled, DataPath
    <2>3. Kept
      BY <1>1, <2>1, <2>2
    <2> QED
      BY <1>5, <2>1, <2>3
  <1>11. CASE QueueStep
    <2>1. call' = call /\ (dp' = dp \/ \E s : dp' = [dp EXCEPT !["read"] = s])
      BY <1>11, Zenon
         DEF QueueStep, QueueTake, QueueEntry, QueueSend, QueueLoses, QueueEnds, buffers
    <2> QED
      BY <1>1, <1>5, <2>1
  <1>12. CASE \E d \in Dir : Configure(d)
    <2>1. PICK d \in Dir : call' = call /\ dp' = [dp EXCEPT ![d] = Configured(@)]
      BY <1>12 DEF Configure
    <2>2. dp'["write"] = r \/ dp'["write"] = Configured(r)
      BY <1>1, <2>1
    <2> QED
      BY <1>1, <1>5, <2>1, <2>2, NotFull
  <1>13. CASE Clear
    <2>1. /\ call' = call
          /\ \E n \in AvailLen(dp[ctrl.dir]) : dp' = [dp EXCEPT ![ctrl.dir] = Passed(ctrl.dir, n)]
      BY <1>13 DEF Clear
    <2>2. dp'["write"] = r \/ (dp'["write"].head = 0 /\ dp'["write"].tail = 0)
      BY <1>1, <2>1 DEF Passed, MdCleared, DataPath
    <2>3. MdCleared(r) \in DataPath /\ MdCleared(r).head = 0 /\ MdCleared(r).tail = 0
      BY <1>1, DataPathType DEF MdCleared, DataPath
    <2>4. dp'["write"].head = 0 /\ dp'["write"].tail = 0 => ~MdFull(dp'["write"])
      BY <1>1, <1>2, <2>3, NotFull
    <2> QED
      BY <1>5, <2>1, <2>2, <2>4
  <1>14. CASE \/ \E op \in {"stop", "flush"} : Abort(op)
              \/ CallEnded \/ Aborted \/ Command \/ Test \/ Deinit \/ Start
              \/ AbortTimesOut \/ BuffsTimeOut
    <2>1. call' = call /\ dp' = dp
      BY <1>14 DEF Abort, CallEnded, Aborted, Command, Test, Deinit, Start, AbortTimesOut,
                   BuffsTimeOut
    <2> QED
      BY <1>5, <2>1
  <1> QED
    BY <1>6, <1>7, <1>8, <1>9, <1>10, <1>11, <1>12, <1>13, <1>14
       DEF Next, DoneStep, CtrlStep

-----------------------------------------------------------------------------
(* Who owns a buffer.  GslKeepsOff is not inductive: a handler on GPR's thread has taken
   its buffer from those SPF holds and will mark it, so that buffer must be in no other
   place, and a buffer SPF returns must have been there once.  Nor is BuffersComeBack by
   itself: it takes that a graph in error has lost what SPF held. *)

BuffsOf(s) == {s[i].buff : i \in 1 .. Len(s)}
Once(s) == \A i, j \in 1 .. Len(s) : s[i].buff = s[j].buff => i = j

\* The buffer a handler on GPR's thread is about to mark.
Coming(d) == IF done.pc = "mark" /\ done.dir = d THEN {done.buf} ELSE {}

Owned(d) ==
  /\ Once(held[d]) /\ BuffsOf(held[d]) \cap Coming(d) = {}
  /\ BuffsOf(held[d]) \cup Coming(d) \subseteq dp[d].used
  /\ InHand(d) \subseteq dp[d].used \ (BuffsOf(held[d]) \cup Coming(d))
  /\ CallHas(d) \cap LoopHas(d) = {}

NoneLost(d) == dp[d].used \subseteq BuffsOf(held[d]) \cup Coming(d) \cup InHand(d)

OwnInv ==
  /\ Down => "SSR" \in gave_up
  /\ \A d \in Dir : Heap(d) =>
       /\ "CONFIG" \notin gave_up => Owned(d)
       /\ gave_up \cap {"SEND", "SSR", "CONFIG"} = {} => NoneLost(d)

LEMMA BuffsHave ==
  ASSUME NEW s
  PROVE  \A b : b \in BuffsOf(s) <=> \E i \in 1 .. Len(s) : b = s[i].buff
  BY DEF BuffsOf

\* What is sent last, what is taken out, and what is sent together.
LEMMA BuffsAppend ==
  ASSUME NEW s \in Seq(Entry), NEW x \in Entry
  PROVE  /\ BuffsOf(Append(s, x)) = BuffsOf(s) \cup {x.buff}
         /\ Once(s) /\ x.buff \notin BuffsOf(s) => Once(Append(s, x))
PROOF
  <1> DEFINE t == Append(s, x)
  <1>1. /\ Len(s) \in Nat /\ Len(t) = Len(s) + 1 /\ t[Len(s) + 1] = x
        /\ \A i \in 1 .. Len(s) : t[i] = s[i]
    OBVIOUS
  <1> HIDE DEF t
  <1>2. /\ \A i \in 1 .. Len(t) : i \in 1 .. Len(s) \/ i = Len(s) + 1
        /\ \A i \in 1 .. Len(s) : i \in 1 .. Len(t)
        /\ Len(s) + 1 \in 1 .. Len(t)
    BY <1>1
  <1>3. BuffsOf(t) = BuffsOf(s) \cup {x.buff}
    BY <1>1, <1>2 DEF BuffsOf
  <1>4. Once(s) /\ x.buff \notin BuffsOf(s) => Once(t)
    BY <1>1, <1>2 DEF Once, BuffsOf
  <1> QED
    BY <1>3, <1>4 DEF t

LEMMA BuffsRemove ==
  ASSUME NEW s \in Seq(Entry), NEW k \in 1 .. Len(s)
  PROVE  /\ BuffsOf(RemoveAt(s, k)) \cup {s[k].buff} = BuffsOf(s)
         /\ Once(s) => Once(RemoveAt(s, k)) /\ s[k].buff \notin BuffsOf(RemoveAt(s, k))
PROOF
  <1> DEFINE t == RemoveAt(s, k)
             At2(j) == IF j < k THEN j ELSE j + 1
  <1>1. /\ Len(s) \in Nat /\ Len(t) = Len(s) - 1
        /\ \A j \in 1 .. Len(s) - 1 : t[j] = IF j < k THEN s[j] ELSE s[j + 1]
    BY RemoveAtType
  <1> HIDE DEF t
  <1>2. \A j \in 1 .. Len(t) : /\ At2(j) \in 1 .. Len(s) /\ At2(j) # k
                               /\ t[j] = s[At2(j)]
    BY <1>1
  <1>3. \A i, j \in 1 .. Len(t) : At2(i) = At2(j) => i = j
    BY <1>1
  <1>4. ASSUME NEW i \in 1 .. Len(s), i # k
        PROVE  \E j \in 1 .. Len(t) : At2(j) = i
    <2>1. CASE i < k
      BY <1>1, <2>1
    <2>2. CASE ~(i < k)
      <3>1. i - 1 \in 1 .. Len(t) /\ At2(i - 1) = i
        BY <1>1, <1>4, <2>2
      <3> QED
        BY <3>1
    <2> QED
      BY <2>1, <2>2
  <1> HIDE DEF At2
  <1>5. BuffsOf(t) \cup {s[k].buff} = BuffsOf(s)
    <2>1. BuffsOf(t) \subseteq BuffsOf(s)
      BY <1>2, BuffsHave
    <2>2. s[k].buff \in BuffsOf(s)
      BY BuffsHave
    <2>3. ASSUME NEW i \in 1 .. Len(s), i # k
          PROVE  s[i].buff \in BuffsOf(t)
      <3>1. PICK j \in 1 .. Len(t) : At2(j) = i
        BY <1>4, <2>3
      <3>2. t[j].buff = s[i].buff
        BY <1>2, <3>1
      <3> QED
        BY <3>2, BuffsHave
    <2>4. BuffsOf(s) \subseteq BuffsOf(t) \cup {s[k].buff}
      BY <2>3, BuffsHave
    <2> QED
      BY <2>1, <2>2, <2>4
  <1>6. ASSUME Once(s)
        PROVE  Once(t) /\ s[k].buff \notin BuffsOf(t)
    <2>1. ASSUME NEW i \in 1 .. Len(t), NEW j \in 1 .. Len(t), t[i].buff = t[j].buff
          PROVE  i = j
      <3>1. s[At2(i)].buff = s[At2(j)].buff
        BY <1>2, <2>1
      <3>2. At2(i) = At2(j)
        BY <1>2, <1>6, <3>1 DEF Once
      <3> QED
        BY <1>3, <3>2
    <2>2. ASSUME NEW i \in 1 .. Len(t)
          PROVE  t[i].buff # s[k].buff
      BY <1>2, <1>6 DEF Once
    <2> QED
      BY <2>1, <2>2, BuffsHave DEF Once
  <1> QED
    BY <1>5, <1>6 DEF t

\* What the operations of a data path do to the bits of its buffers.
LEMMA UsedAfter ==
  ASSUME NEW r \in DataPath
  PROVE  /\ Enqueued(r).used = r.used /\ Dequeued(r).used = r.used /\ Acked(r).used = r.used
         /\ MdCleared(r).used = r.used /\ Woken(r).used = r.used
         /\ Taken(r).used = r.used \cup {r.curr} /\ Configured(r).used = {}
         /\ \A b : MarkedAvail(r, b).used = r.used \ {b}
  BY DEF DataPath, Enqueued, Dequeued, Acked, MdCleared, Woken, Taken, Configured, MarkedAvail

LEMMA SignalledUsed ==
  ASSUME TypeInv
  PROVE  \A d \in Dir : \A f : Signalled(d, f).used = dp[d].used
  BY DEF TypeInv, DataPath, Signalled

\* A direction is left as it is.
Same(d) == UNCHANGED <<dp[d].used, held[d], Coming(d), CallHas(d), LoopHas(d)>>

Keeps(d) ==
  /\ "CONFIG" \notin gave_up' /\ Owned(d) => Owned(d)'
  /\ gave_up' \cap {"SEND", "SSR", "CONFIG"} = {} /\ NoneLost(d) => NoneLost(d)'

\* It is enough to look at each direction by itself.
LEMMA OwnByDirection ==
  ASSUME OwnInv, scenario' = scenario, gave_up \subseteq gave_up',
         Down' => Down \/ "SSR" \in gave_up',
         \A d \in Dir : Heap(d) => Same(d) \/ Keeps(d)
  PROVE  OwnInv'
PROOF
  <1>1. \A d \in Dir : Heap(d)' <=> Heap(d)
    BY DEF Heap, conf
  <1>2. Down' => "SSR" \in gave_up'
    BY DEF OwnInv
  <1>3. ASSUME NEW d \in Dir, Same(d)
        PROVE  Keeps(d)
    <2>1. /\ dp'[d].used = dp[d].used /\ held'[d] = held[d] /\ Coming(d)' = Coming(d)
          /\ CallHas(d)' = CallHas(d) /\ LoopHas(d)' = LoopHas(d)
      BY <1>3 DEF Same
    <2>2. Owned(d) => Owned(d)'
      BY <2>1 DEF Owned, InHand
    <2>3. NoneLost(d) => NoneLost(d)'
      BY <2>1 DEF NoneLost, InHand
    <2> QED
      BY <2>2, <2>3 DEF Keeps
  <1>4. ASSUME NEW d \in Dir, Heap(d)
        PROVE  /\ "CONFIG" \notin gave_up' => Owned(d)'
               /\ gave_up' \cap {"SEND", "SSR", "CONFIG"} = {} => NoneLost(d)'
    <2>1. Keeps(d)
      BY <1>3, <1>4
    <2>2. /\ "CONFIG" \notin gave_up => Owned(d)
          /\ gave_up \cap {"SEND", "SSR", "CONFIG"} = {} => NoneLost(d)
      BY <1>4 DEF OwnInv
    <2> QED
      BY <2>1, <2>2 DEF Keeps
  <1> QED
    BY <1>1, <1>2, <1>4 DEF OwnInv

\* A client's thread or the loop finds a buffer that was available ...
LEMMA KeepsTaken ==
  ASSUME NEW d \in Dir, NEW b, b \notin dp[d].used, dp'[d].used = dp[d].used \cup {b},
         held'[d] = held[d], Coming(d)' = Coming(d),
         \/ CallHas(d) = {} /\ CallHas(d)' = {b} /\ LoopHas(d)' = LoopHas(d)
         \/ LoopHas(d) = {} /\ LoopHas(d)' = {b} /\ CallHas(d)' = CallHas(d)
  PROVE  Keeps(d)
PROOF
  <1>1. InHand(d)' = InHand(d) \cup {b}
    BY DEF InHand
  <1>2. Owned(d) => Owned(d)'
    BY <1>1 DEF Owned, InHand
  <1>3. NoneLost(d) => NoneLost(d)'
    BY <1>1 DEF NoneLost
  <1> QED
    BY <1>2, <1>3 DEF Keeps

\* ... and SPF has it once it is sent.
LEMMA KeepsSent ==
  ASSUME NEW d \in Dir, NEW x \in Entry, held[d] \in Seq(Entry),
         dp'[d].used = dp[d].used, held'[d] = Append(held[d], x), Coming(d)' = Coming(d),
         \/ CallHas(d) = {x.buff} /\ CallHas(d)' = {} /\ LoopHas(d)' = LoopHas(d)
         \/ LoopHas(d) = {x.buff} /\ LoopHas(d)' = {} /\ CallHas(d)' = CallHas(d)
  PROVE  Keeps(d)
PROOF
  <1>1. /\ BuffsOf(held'[d]) = BuffsOf(held[d]) \cup {x.buff}
        /\ Once(held[d]) /\ x.buff \notin BuffsOf(held[d]) => Once(held'[d])
    BY BuffsAppend
  <1>2. Owned(d) => Owned(d)'
    <2> SUFFICES ASSUME Owned(d) PROVE Owned(d)'
      OBVIOUS
    <2>1. x.buff \in dp[d].used /\ x.buff \notin BuffsOf(held[d]) /\ x.buff \notin Coming(d)
      BY DEF Owned, InHand
    <2>2. InHand(d)' \subseteq InHand(d) \ {x.buff}
      BY DEF Owned, InHand
    <2> QED
      BY <1>1, <2>1, <2>2 DEF Owned
  <1>3. NoneLost(d) => NoneLost(d)'
    BY <1>1 DEF NoneLost, InHand
  <1> QED
    BY <1>2, <1>3 DEF Keeps

\* The client's thread.
LEMMA OwnCall ==
  ASSUME TypeInv, OwnInv, RoomInv, NEW d \in Dir, Begin(d) \/ CallStep(d) \/ WaitTimesOut(d)
  PROVE  OwnInv'
PROOF
  <1> DEFINE r == dp[d]
             c == call[d]
  <1>1. /\ r \in DataPath /\ held[d] \in Seq(Entry) /\ c \in CallRecord
        /\ dp \in [Dir -> DataPath] /\ call \in [Dir -> CallRecord]
        /\ DOMAIN held = Dir
    BY DEF TypeInv
  <1>2. /\ \A e \in Dir \ {d} : Same(e)
        /\ \A e \in Dir : Coming(e)' = Coming(e) /\ LoopHas(e)' = LoopHas(e)
        /\ scenario' = scenario /\ gave_up \subseteq gave_up' /\ (Down' <=> Down)
    BY CallAlone DEF Same, Coming, CallHas, LoopHas, Down
  <1>3. ASSUME Heap(d) => Same(d) \/ Keeps(d)
        PROVE  OwnInv'
    BY <1>2, <1>3, OwnByDirection
  <1>4. ASSUME NEW s \in Result, Ends(d, s)
        PROVE  CallHas(d)' = {}
    BY <1>4, EndsType DEF CallHas
  <1>5. ASSUME NEW n, NEW md,
               call' = [call EXCEPT ![d] = [IdleCall EXCEPT !.pc = "find", !.left = n, !.md = md]]
        PROVE  CallHas(d)' = {}
    BY <1>1, <1>5 DEF CallHas, IdleCall
  <1>6. ASSUME CallHas(d)' = CallHas(d), held'[d] = held[d], dp'[d].used = r.used
        PROVE  OwnInv'
    BY <1>2, <1>3, <1>6 DEF Same
  <1>7. CASE Begin(d) \/ End(d) \/ WaitTimesOut(d) \/ WaitReturns(d)
    <2>1. held' = held /\ dp'[d].used = r.used
      BY <1>1, <1>7, UsedAfter DEF Begin, End, WaitTimesOut, WaitReturns, buffers
    <2>2. CallHas(d) = {}
      BY <1>7 DEF Begin, End, WaitTimesOut, WaitReturns, CallHas
    <2>3. CASE Begin(d)
      <3>1. PICK n, md :
              call' = [call EXCEPT ![d] = [IdleCall EXCEPT !.pc = "find", !.md = md, !.left = n]]
        BY <2>3 DEF Begin
      <3>2. CallHas(d)' = {}
        BY <1>1, <3>1 DEF CallHas, IdleCall
      <3> QED
        BY <1>6, <2>1, <2>2, <3>2
    <2>4. CASE End(d)
      <3>1. CallHas(d)' = {}
        BY <1>1, <2>4, Idles DEF End, CallHas
      <3> QED
        BY <1>6, <2>1, <2>2, <3>1
    <2>5. CASE WaitTimesOut(d) \/ WaitReturns(d)
      <3>1. (\E s \in Result : Ends(d, s)) \/ call' = [call EXCEPT ![d].pc = "find", ![d].tries = @ + 1]
        BY <2>5 DEF WaitTimesOut, WaitReturns, Result
      <3>2. CallHas(d)' = {}
        BY <1>1, <1>4, <3>1 DEF CallHas, CallRecord
      <3> QED
        BY <1>6, <2>1, <2>2, <3>2
    <2> QED
      BY <1>7, <2>3, <2>4, <2>5
  <1>8. CASE Find(d)
    <2>1. /\ held' = held /\ CallHas(d) = {}
          /\ \/ /\ r.curr \notin r.used /\ dp' = [dp EXCEPT ![d] = Taken(r)]
                /\ \E pc \in {"copy", "send"} :
                     call' = [call EXCEPT ![d] = [c EXCEPT !.pc = pc, !.buf = r.curr]]
             \/ /\ UNCHANGED dp
                /\ \/ call' = [call EXCEPT ![d] = [c EXCEPT !.pc = "wait"]]
                   \/ Ends(d, "ENORESOURCE")
      BY <1>1, <1>8 DEF Find, IsAvail, buffers, CallHas
    <2>2. CASE UNCHANGED dp
      <3>1. CallHas(d)' = {}
        <4>1. call' = [call EXCEPT ![d] = [c EXCEPT !.pc = "wait"]] => CallHas(d)' = {}
          BY <1>1 DEF CallHas, CallRecord
        <4>2. Ends(d, "ENORESOURCE") => CallHas(d)' = {}
          BY <1>4 DEF Result
        <4>3. dp # [dp EXCEPT ![d] = Taken(r)] \/ r.curr \in r.used
          BY <1>1, UsedAfter
        <4> QED
          BY <2>1, <2>2, <4>1, <4>2, <4>3
      <3> QED
        BY <1>6, <2>1, <2>2, <3>1
    <2>3. CASE /\ r.curr \notin r.used /\ dp' = [dp EXCEPT ![d] = Taken(r)]
               /\ \E pc \in {"copy", "send"} :
                    call' = [call EXCEPT ![d] = [c EXCEPT !.pc = pc, !.buf = r.curr]]
      <3>1. dp'[d].used = r.used \cup {r.curr} /\ CallHas(d)' = {r.curr} /\ held'[d] = held[d]
        BY <1>1, <2>1, <2>3, UsedAfter DEF CallHas, CallRecord
      <3>2. Keeps(d)
        BY <1>2, <2>1, <2>3, <3>1, KeepsTaken
      <3> QED
        BY <1>3, <3>2
    <2> QED
      BY <2>1, <2>2, <2>3
  <1>9. CASE FindShmem(d)
    BY <1>3, <1>9 DEF FindShmem
  <1>10. CASE Copy(d)
    <2>1. /\ CallHas(d)' = CallHas(d) /\ held'[d] = held[d] /\ dp'[d].used = r.used
      BY <1>1, <1>10, UsedAfter DEF Copy, CallHas, buffers, CallRecord
    <2> QED
      BY <1>6, <2>1
  <1>11. CASE Enqueue(d)
    <2>1. held'[d] = held[d] /\ dp'[d].used = r.used /\ c.pc = "enqueue"
      BY <1>1, <1>11, UsedAfter DEF Enqueue, buffers
    <2>2. ASSUME Heap(d)
          PROVE  CallHas(d)' = CallHas(d)
      <3>1. ~(MdFull(r) /\ ~(Heap(d) /\ d = "read"))
        BY <2>1, <2>2 DEF RoomInv, Dir
      <3>2. PICK md : call' = [call EXCEPT ![d].pc = "send", ![d].md = md]
        BY <1>11, <3>1 DEF Enqueue
      <3> QED
        BY <1>1, <2>1, <3>2 DEF CallHas, CallRecord
    <2> QED
      BY <1>2, <1>3, <2>1, <2>2 DEF Same
  <1>12. CASE SendOk(d)
    <2> DEFINE sent == [buff |-> c.buf, md |-> c.md]
    <2>1. /\ dp' = dp /\ c.pc = "send" /\ held' = [held EXCEPT ![d] = Append(@, sent)]
          /\ \/ Ends(d, "OK")
             \/ \E n, md : call' = [call EXCEPT ![d] = [IdleCall EXCEPT !.pc = "find", !.left = n,
                                                                       !.md = md]]
      BY <1>12 DEF SendOk
    <2>2. CallHas(d) = {c.buf} /\ CallHas(d)' = {}
      BY <1>4, <1>5, <2>1 DEF CallHas, Result
    <2>3. sent \in Entry /\ sent.buff = c.buf
      BY <1>1 DEF CallRecord, Entry
    <2> HIDE DEF sent
    <2>4. held'[d] = Append(held[d], sent)
      BY <1>1, <2>1
    <2>5. Keeps(d)
      BY <1>1, <1>2, <2>1, <2>2, <2>3, <2>4, KeepsSent
    <2> QED
      BY <1>3, <2>5
  <1>13. CASE SendFails(d)
    <2>1. /\ (Down \/ "SEND" \in gave_up') /\ dp' = dp /\ held' = held /\ Ends(d, "EFAILED")
      BY <1>13 DEF SendFails
    <2>2. gave_up' \cap {"SEND", "SSR", "CONFIG"} # {}
      BY <1>2, <2>1 DEF OwnInv
    <2>3. CallHas(d)' = {} /\ dp' = dp /\ held' = held
      BY <1>4, <1>13 DEF SendFails, Result
    <2>4. Owned(d) => Owned(d)'
      BY <1>2, <2>3 DEF Owned, InHand
    <2> QED
      BY <1>3, <2>2, <2>4 DEF Keeps
  <1> QED
    BY <1>7, <1>8, <1>9, <1>10, <1>11, <1>12, <1>13 DEF CallStep

\* GPR's thread: a buffer that comes back is in the handler's hands until it is marked.
LEMMA OwnDone ==
  ASSUME TypeInv, OwnInv, (\E d \in Dir : Receive(d)) \/ DoneStep \/ Ssr
  PROVE  OwnInv'
PROOF
  <1>1. /\ done.dir \in Dir /\ done \in DoneRecord /\ dp \in [Dir -> DataPath]
        /\ \A d \in Dir : dp[d] \in DataPath /\ held[d] \in Seq(Entry)
        /\ DOMAIN held = Dir
    BY DEF TypeInv, DoneRecord
  <1>2. CASE \E d \in Dir : Receive(d)
    <2>1. PICK d \in Dir : Receive(d)
      BY <1>2
    <2>2. PICK k \in 1 .. Len(held[d]) :
            /\ dp' = [dp EXCEPT ![d] = OnPacket(d, held[d][k])] /\ done.pc = "idle"
            /\ held' = [held EXCEPT ![d] = RemoveAt(@, k)]
            /\ done' = IF AfterPacket(d, held[d][k]) = "idle" THEN IdleDone
                       ELSE [pc |-> AfterPacket(d, held[d][k]), dir |-> d, buf |-> held[d][k].buff]
            /\ UNCHANGED <<scenario, slot, packet, call, ctrl, graph, gave_up>>
      BY <2>1 DEF Receive
    <2>3. OnPacket(d, held[d][k]).used = dp[d].used
      BY <1>1, UsedAfter DEF OnPacket, Dir
    <2>4. \A e \in Dir : CallHas(e)' = CallHas(e) /\ LoopHas(e)' = LoopHas(e)
      BY <2>2 DEF CallHas, LoopHas
    <2>5. \A e \in Dir \ {d} : Same(e)
      BY <2>2, <2>4, Idles DEF Same, Coming
    <2>6. ASSUME Heap(d)
          PROVE  Keeps(d)
      <3> DEFINE b == held[d][k].buff
      <3>1. AfterPacket(d, held[d][k]) = "mark"
        BY <2>6 DEF AfterPacket
      <3>2. /\ Coming(d) = {} /\ Coming(d)' = {b} /\ InHand(d)' = InHand(d)
            /\ dp'[d].used = dp[d].used /\ held'[d] = RemoveAt(held[d], k)
        BY <1>1, <2>2, <2>3, <2>4, <3>1 DEF Coming, InHand
      <3>3. /\ BuffsOf(held'[d]) \cup {b} = BuffsOf(held[d])
            /\ Once(held[d]) => Once(held'[d]) /\ b \notin BuffsOf(held'[d])
        BY <1>1, <3>2, BuffsRemove
      <3>4. Owned(d) => Owned(d)'
        BY <2>4, <3>2, <3>3 DEF Owned
      <3>5. NoneLost(d) => NoneLost(d)'
        BY <3>2, <3>3 DEF NoneLost
      <3> QED
        BY <3>4, <3>5 DEF Keeps
    <2> QED
      BY <2>2, <2>5, <2>6, OwnByDirection DEF Down
  <1>3. CASE MarkDone
    <2>0. PICK d \in Dir : d = done.dir
      BY <1>1
    <2>1. /\ dp' = [dp EXCEPT ![d] = MarkedAvail(@, done.buf)]
          /\ done.pc = "mark" /\ done'.pc = "signal"
          /\ UNCHANGED <<scenario, held, slot, call, ctrl, graph, gave_up>>
      BY <1>1, <1>3, <2>0 DEF MarkDone, DoneRecord
    <2>2. \A e \in Dir : /\ Coming(e)' = {} /\ InHand(e)' = InHand(e) /\ held'[e] = held[e]
                         /\ CallHas(e)' = CallHas(e) /\ LoopHas(e)' = LoopHas(e)
      BY <2>1 DEF Coming, InHand, CallHas, LoopHas
    <2>3. \A e \in Dir \ {d} : Same(e)
      BY <1>1, <2>0, <2>1, <2>2 DEF Same, Coming
    <2>4. Coming(d) = {done.buf} /\ dp'[d].used = dp[d].used \ {done.buf}
      BY <1>1, <2>0, <2>1, UsedAfter DEF Coming
    <2>5. Owned(d) => Owned(d)'
      BY <1>1, <2>2, <2>4 DEF Owned
    <2>6. NoneLost(d) => NoneLost(d)'
      BY <1>1, <2>2, <2>4 DEF NoneLost
    <2> QED
      BY <1>1, <2>1, <2>3, <2>5, <2>6, OwnByDirection DEF Keeps, Down
  <1>4. CASE SignalDone \/ FreeEntry
    <2>1. /\ dp' = [dp EXCEPT ![done.dir] = Signalled(done.dir, {"RSP"})]
             \/ dp' = [dp EXCEPT ![done.dir] = Dequeued(@)]
          /\ done.pc \in {"signal", "free"} /\ done'.pc = "idle"
          /\ UNCHANGED <<scenario, held, call, ctrl, graph, gave_up>>
      BY <1>4, Idles DEF SignalDone, FreeEntry, buffers
    <2>2. \A e \in Dir : dp'[e].used = dp[e].used
      BY <1>1, <2>1, UsedAfter, SignalledUsed
    <2>3. \A e \in Dir : Same(e)
      BY <2>1, <2>2 DEF Same, CallHas, LoopHas, Coming
    <2> QED
      BY <2>1, <2>3, OwnByDirection DEF Down
  <1>5. CASE Ssr
    <2>1. /\ dp' = [d \in Dir |-> Signalled(d, {"SSR"})] /\ held' = [d \in Dir |-> <<>>]
          /\ gave_up' = gave_up \cup {"SSR"} /\ UNCHANGED <<scenario, call, done, ctrl>>
      BY <1>5 DEF Ssr
    <2>2. ASSUME NEW d \in Dir
          PROVE  Keeps(d)
      <3>1. /\ dp'[d].used = dp[d].used /\ held'[d] = <<>>
            /\ Coming(d)' = Coming(d) /\ InHand(d)' = InHand(d)
            /\ CallHas(d)' = CallHas(d) /\ LoopHas(d)' = LoopHas(d)
        BY <1>1, <2>1, SignalledUsed DEF Coming, InHand, CallHas, LoopHas
      <3>2. BuffsOf(<<>>) = {} /\ Once(<<>>)
        BY DEF BuffsOf, Once
      <3>3. Owned(d) => Owned(d)'
        BY <3>1, <3>2 DEF Owned
      <3> QED
        BY <2>1, <3>3 DEF Keeps
    <2> QED
      BY <2>1, <2>2, OwnByDirection
  <1> QED
    BY <1>2, <1>3, <1>4, <1>5 DEF DoneStep

\* What start and flush queue was available, so no one else has it.
LEMMA OwnQueue ==
  ASSUME TypeInv, OwnInv, QueueStep
  PROVE  OwnInv'
PROOF
  <1> DEFINE r == dp["read"]
  <1>1. /\ r \in DataPath /\ held["read"] \in Seq(Entry) /\ dp \in [Dir -> DataPath]
        /\ DOMAIN held = Dir /\ "read" \in Dir /\ "write" \in Dir /\ graph \in GraphRecord
        /\ ctrl \in CtrlRecord
    BY DEF TypeInv, Dir
  <1>2. /\ UNCHANGED <<scenario, call, done>> /\ gave_up \subseteq gave_up'
        /\ Down' => Down
    BY <1>1
       DEF QueueStep, QueueTake, QueueEntry, QueueSend, QueueLoses, QueueEnds, buffers, Down,
           GraphRecord
  <1>3. \A e \in Dir : CallHas(e)' = CallHas(e) /\ Coming(e)' = Coming(e)
    BY <1>2 DEF CallHas, Coming
  <1>4. /\ held'["write"] = held["write"] /\ dp'["write"] = dp["write"]
    BY <1>1 DEF QueueStep, QueueTake, QueueEntry, QueueSend, QueueLoses, QueueEnds, buffers, Dir
  <1>5. Same("write")
    BY <1>1, <1>3, <1>4 DEF Same, LoopHas
  <1>6. ASSUME Same("read") \/ Keeps("read")
        PROVE  OwnInv'
    BY <1>2, <1>5, <1>6, OwnByDirection DEF Dir
  <1>7. CASE QueueTake
    <2>1. held' = held /\ LoopHas("read") = {}
      BY <1>7 DEF QueueTake, buffers, LoopHas
    <2>2. CASE ~IsAvail(r)
      <3>1. dp' = dp /\ LoopHas("read")' = {}
        BY <1>1, <1>7, <2>2 DEF QueueTake, LoopHas, CtrlRecord
      <3> QED
        BY <1>1, <1>3, <1>6, <2>1, <3>1 DEF Same
    <2>3. CASE IsAvail(r)
      <3>1. /\ r.curr \notin r.used /\ dp' = [dp EXCEPT !["read"] = Taken(r)]
            /\ \E pc \in {"enqueue", "send"} :
                 ctrl' = [ctrl EXCEPT !.buf = r.curr, !.md = NoMd, !.pc = pc]
        BY <1>7, <2>3 DEF QueueTake, IsAvail
      <3>2. LoopHas("read")' = {r.curr} /\ dp'["read"].used = r.used \cup {r.curr}
        BY <1>1, <3>1, UsedAfter DEF LoopHas, CtrlRecord
      <3>3. Keeps("read")
        BY <1>1, <1>3, <2>1, <3>1, <3>2, KeepsTaken
      <3> QED
        BY <1>6, <3>3
    <2> QED
      BY <2>2, <2>3
  <1>8. CASE QueueEntry
    <2>1. held' = held /\ dp'["read"].used = r.used /\ LoopHas("read")' = LoopHas("read")
      BY <1>1, <1>8, UsedAfter DEF QueueEntry, buffers, LoopHas, CtrlRecord
    <2> QED
      BY <1>1, <1>3, <1>6, <2>1 DEF Same
  <1>9. ASSUME NextTurn
        PROVE  LoopHas("read")' = {}
    BY <1>1, <1>9 DEF NextTurn, LoopHas, CtrlRecord
  <1>10. CASE QueueSend
    <2> DEFINE sent == [buff |-> ctrl.buf, md |-> ctrl.md]
    <2>1. /\ dp' = dp /\ held' = [held EXCEPT !["read"] = Append(@, sent)]
          /\ LoopHas("read") = {ctrl.buf} /\ LoopHas("read")' = {}
      BY <1>9, <1>10 DEF QueueSend, LoopHas
    <2>2. sent \in Entry /\ sent.buff = ctrl.buf
      BY <1>1, MdType DEF CtrlRecord, Entry
    <2> HIDE DEF sent
    <2>3. held'["read"] = Append(held["read"], sent)
      BY <1>1, <2>1
    <2>4. Keeps("read")
      BY <1>1, <1>3, <2>1, <2>2, <2>3, KeepsSent
    <2> QED
      BY <1>6, <2>4
  <1>11. CASE QueueLoses
    <2>1. /\ Down \/ "SEND" \in gave_up'
          /\ dp' = dp /\ held' = held /\ LoopHas("read")' = {}
      BY <1>9, <1>11 DEF QueueLoses, buffers
    <2>2. gave_up' \cap {"SEND", "SSR", "CONFIG"} # {}
      BY <1>2, <2>1 DEF OwnInv
    <2>3. Owned("read") => Owned("read")'
      BY <1>1, <1>3, <2>1 DEF Owned, InHand
    <2> QED
      BY <1>6, <2>2, <2>3 DEF Keeps
  <1>12. CASE QueueEnds
    <2>1. dp' = dp /\ held' = held /\ LoopHas("read")' = {} /\ LoopHas("read") = {}
      BY <1>12, Idles DEF QueueEnds, buffers, LoopHas
    <2> QED
      BY <1>1, <1>3, <1>6, <2>1 DEF Same
  <1> QED
    BY <1>7, <1>8, <1>10, <1>11, <1>12 DEF QueueStep

\* The controlling thread wakes, waits and clears, and takes no other buffer; only a new
\* configuration forgets them.
LEMMA OwnCtrl ==
  ASSUME TypeInv, OwnInv,
         \/ \E d \in Dir : Configure(d)
         \/ \E op \in {"stop", "flush"} : Abort(op)
         \/ CtrlStep \/ Start \/ Close \/ AbortTimesOut \/ BuffsTimeOut
  PROVE  OwnInv'
PROOF
  <1>1. /\ ctrl.dir \in Dir /\ graph \in GraphRecord /\ dp \in [Dir -> DataPath]
        /\ \A d \in Dir : dp[d] \in DataPath /\ held[d] \in Seq(Entry)
        /\ DOMAIN held = Dir /\ ctrl \in CtrlRecord /\ InPhase(ctrl)
    BY DEF TypeInv, CtrlRecord
  <1>2. CASE \E d \in Dir : Configure(d)
    <2>1. PICK d \in Dir : Configure(d)
      BY <1>2
    <2>2. /\ dp' = [dp EXCEPT ![d] = Configured(@)] /\ call[d].pc = "idle" /\ ctrl.op = "none"
          /\ UNCHANGED <<scenario, held, call, done, ctrl, graph>> /\ gave_up \subseteq gave_up'
          /\ ~Forgets(d) \/ "CONFIG" \in gave_up'
      BY <2>1 DEF Configure, buffers, Idle
    <2>3. \A e \in Dir \ {d} : Same(e)
      BY <2>2 DEF Same, CallHas, LoopHas, Coming
    <2>4. ASSUME ~Forgets(d)
          PROVE  Owned(d)' /\ NoneLost(d)'
      <3>1. held[d] = <<>> /\ Coming(d) = {} /\ CallHas(d) = {} /\ LoopHas(d) = {}
        BY <1>1, <2>2, <2>4 DEF Forgets, Coming, CallHas, LoopHas, InPhase
      <3>2. /\ held'[d] = <<>> /\ Coming(d)' = {} /\ CallHas(d)' = {} /\ LoopHas(d)' = {}
            /\ dp'[d].used = {}
        BY <1>1, <2>2, <3>1, UsedAfter DEF Coming, CallHas, LoopHas
      <3>3. BuffsOf(<<>>) = {} /\ Once(<<>>)
        BY DEF BuffsOf, Once
      <3> QED
        BY <3>2, <3>3 DEF Owned, NoneLost, InHand
    <2>5. Keeps(d)
      BY <2>2, <2>4 DEF Keeps
    <2> QED
      BY <2>2, <2>3, <2>5, OwnByDirection DEF Down
  <1>3. CASE Clear
    <2>1. PICK d \in Dir : d = ctrl.dir
      BY <1>1
    <2>2. PICK n \in AvailLen(dp[d]) : dp' = [dp EXCEPT ![d] = Passed(d, n)]
      BY <1>3, <2>1 DEF Clear
    <2>3. Passed(d, n).used = dp[d].used
      BY <1>1 DEF Passed, MdCleared, DataPath
    <2>4. /\ UNCHANGED <<scenario, held, call, done, graph>> /\ gave_up \subseteq gave_up'
          /\ ctrl.pc = "clear" /\ ctrl' = AfterClear
      BY <1>3 DEF Clear
    <2>5. ctrl'.pc \notin {"enqueue", "send"}
      <3>1. ctrl.op \in {"stop", "flush", "close"}
        BY <1>1, <2>4 DEF InPhase, CtrlRecord
      <3> QED
        BY <1>1, <2>4, <3>1 DEF AfterClear, IdleCtrl, CtrlRecord, Dir
    <2>6. \A e \in Dir : LoopHas(e)' = LoopHas(e)
      BY <2>4, <2>5 DEF LoopHas
    <2>7. \A e \in Dir : Same(e)
      BY <1>1, <2>2, <2>3, <2>4, <2>6 DEF Same, CallHas, Coming
    <2> QED
      BY <2>4, <2>7, OwnByDirection DEF Down
  <1>4. CASE \/ \E op \in {"stop", "flush"} : Abort(op)
             \/ AbortCalls \/ CallEnded \/ Aborted \/ Command \/ Test \/ BuffsWake
             \/ Deinit \/ Start \/ Close \/ AbortTimesOut \/ BuffsTimeOut
    <2>1. /\ UNCHANGED <<scenario, held, call, done>> /\ gave_up \subseteq gave_up'
          /\ Down' => Down
      BY <1>1, <1>4
         DEF Abort, AbortCalls, CallEnded, Aborted, Command, Test, BuffsWake, Deinit, Start,
             Close, AbortTimesOut, BuffsTimeOut, buffers, Down, GraphRecord
    <2>2. /\ ctrl.pc \notin {"enqueue", "send"}
          /\ \/ \E op, pc : /\ pc \notin {"enqueue", "send"}
                            /\ ctrl' = [IdleCtrl EXCEPT !.op = op, !.pc = pc]
             \/ \E pc : pc \notin {"enqueue", "send"} /\ ctrl' = [ctrl EXCEPT !.pc = pc]
             \/ ctrl' = IdleCtrl
      <3>1. ctrl.pc \notin {"enqueue", "send"}
        BY <1>1, <1>4
           DEF Abort, AbortCalls, CallEnded, Aborted, Command, Test, BuffsWake, Deinit, Start,
               Close, AbortTimesOut, BuffsTimeOut, Idle, InPhase
      <3>2. CASE \E op \in {"stop", "flush"} : Abort(op)
        BY <3>1, <3>2 DEF Abort
      <3>3. CASE Start \/ Close
        BY <3>1, <3>3 DEF Start, Close
      <3>4. CASE \/ AbortCalls \/ CallEnded \/ Aborted \/ Test \/ BuffsWake
                 \/ AbortTimesOut \/ BuffsTimeOut
        BY <3>1, <3>4 DEF AbortCalls, CallEnded, Aborted, Test, BuffsWake, AbortTimesOut,
                          BuffsTimeOut, Goto
      <3>5. CASE Command \/ Deinit
        BY <3>1, <3>5 DEF Command, Deinit, Goto
      <3> QED
        BY <1>4, <3>2, <3>3, <3>4, <3>5
    <2>3. \A d \in Dir : LoopHas(d) = {} /\ LoopHas(d)' = {}
      BY <1>1, <2>2, Idles DEF LoopHas, CtrlRecord
    <2>4. \/ dp' = dp
          \/ dp' = [d \in Dir |-> Signalled(d, {"CLOSE"})]
          \/ dp' = [dp EXCEPT ![ctrl.dir] = Woken(@)]
      BY <1>4
         DEF Abort, AbortCalls, CallEnded, Aborted, Command, Test, BuffsWake, Deinit, Start,
             Close, AbortTimesOut, BuffsTimeOut
    <2>5. ASSUME NEW d \in Dir
          PROVE  dp'[d].used = dp[d].used
      <3>1. CASE dp' = dp
        BY <3>1
      <3>2. CASE dp' = [e \in Dir |-> Signalled(e, {"CLOSE"})]
        BY <3>2, SignalledUsed
      <3>3. CASE dp' = [dp EXCEPT ![ctrl.dir] = Woken(@)]
        BY <1>1, <3>3, UsedAfter
      <3> QED
        BY <2>4, <3>1, <3>2, <3>3
    <2>6. \A d \in Dir : Same(d)
      BY <2>1, <2>3, <2>5 DEF Same, CallHas, Coming
    <2> QED
      BY <2>1, <2>6, OwnByDirection
  <1> QED
    BY <1>2, <1>3, <1>4, OwnQueue DEF CtrlStep

LEMMA OwnInit == Init => OwnInv /\ RoomInv
PROOF
  <1> SUFFICES ASSUME Init PROVE OwnInv /\ RoomInv
    OBVIOUS
  <1>1. ~Down
    BY DEF Init, Down
  <1>2. \A d \in Dir : /\ held[d] = <<>> /\ dp[d].used = {} /\ call[d].pc = "idle"
                       /\ Coming(d) = {} /\ CallHas(d) = {} /\ LoopHas(d) = {}
    BY DEF Init, NewDataPath, Coming, CallHas, LoopHas, IdleCall, IdleDone, IdleCtrl
  <1>3. BuffsOf(<<>>) = {} /\ Once(<<>>)
    BY DEF BuffsOf, Once
  <1> QED
    BY <1>1, <1>2, <1>3 DEF OwnInv, Owned, NoneLost, InHand, RoomInv, Dir

LEMMA OwnNext == TypeInv /\ OwnInv /\ RoomInv /\ [Next]_vars => OwnInv'
PROOF
  <1> SUFFICES ASSUME TypeInv, OwnInv, RoomInv, [Next]_vars PROVE OwnInv'
    OBVIOUS
  <1>1. CASE UNCHANGED vars
    <2>1. \A d \in Dir : Same(d)
      BY <1>1 DEF vars, buffers, Same, CallHas, LoopHas, Coming
    <2> QED
      BY <1>1, <2>1, OwnByDirection DEF vars, Down
  <1>2. CASE Next
    BY <1>2, OwnCall, OwnDone, OwnCtrl DEF Next
  <1> QED
    BY <1>1, <1>2

LEMMA HeldBuffsAre ==
  ASSUME TypeInv, NEW d \in Dir
  PROVE  HeldBuffs(d) = BuffsOf(held[d])
PROOF
  <1>1. held[d] \in Seq(Entry)
    BY DEF TypeInv
  <1> QED
    BY <1>1 DEF HeldBuffs, BuffsOf, Range

\* A sequence that has each buffer once has as many buffers as its length.
LEMMA OnceCounts ==
  ASSUME NEW s \in Seq(Entry), Once(s)
  PROVE  Cardinality(BuffsOf(s)) = Len(s)
PROOF
  <1> DEFINE f == [i \in 1 .. Len(s) |-> s[i].buff]
  <1>1. f \in Bijection(1 .. Len(s), BuffsOf(s))
    BY DEF Bijection, Injection, IsInjective, Surjection, BuffsOf, Once
  <1>2. Len(s) \in Nat /\ ExistsBijection(1 .. Len(s), BuffsOf(s))
    BY <1>1 DEF ExistsBijection
  <1> QED
    BY <1>2, FS_CountingElements

\* A buffer that SPF holds, or that is on its way back, is marked as used, is there once,
\* and is neither the one a call copies into or from nor one that start or flush queues,
\* which differ, unless a configuration forgot it.
THEOREM BuffersHaveOneOwner == Spec => []GslKeepsOff
PROOF
  <1>1. ASSUME TypeInv, OwnInv
        PROVE  GslKeepsOff
    <2> SUFFICES ASSUME NEW d \in Dir, Heap(d), "CONFIG" \notin gave_up
                 PROVE  /\ OnItsWay(d) \subseteq dp[d].used
                        /\ InHand(d) \cap OnItsWay(d) = {} /\ InHand(d) \subseteq dp[d].used
                        /\ CallHas(d) \cap LoopHas(d) = {}
                        /\ Cardinality(HeldBuffs(d)) = Len(held[d])
      BY DEF GslKeepsOff
    <2>1. Owned(d) /\ held[d] \in Seq(Entry)
      BY <1>1 DEF OwnInv, TypeInv
    <2>2. HeldBuffs(d) = BuffsOf(held[d]) /\ OnItsWay(d) = BuffsOf(held[d]) \cup Coming(d)
      BY <1>1, HeldBuffsAre DEF OnItsWay, Coming
    <2>3. Cardinality(HeldBuffs(d)) = Len(held[d])
      BY <2>1, <2>2, OnceCounts DEF Owned
    <2> QED
      BY <2>1, <2>2, <2>3 DEF Owned
  <1> QED
    BY TypeInit, TypeNext, OwnInit, OwnNext, RoomNext, <1>1, PTL DEF Spec

\* No buffer is lost over timeouts, stop, flush, close and their races: what is marked as
\* used is what SPF holds, what is on its way back and what a call is about to send,
\* unless a send failed, the subsystem went down or a configuration forgot buffers.
THEOREM NoBufferIsLost == Spec => []BuffersComeBack
PROOF
  <1>1. ASSUME TypeInv, OwnInv
        PROVE  BuffersComeBack
    <2> SUFFICES ASSUME NEW d \in Dir, Heap(d), gave_up \cap {"SEND", "SSR", "CONFIG"} = {}
                 PROVE  dp[d].used = OnItsWay(d) \cup InHand(d)
      BY DEF BuffersComeBack
    <2>1. Owned(d) /\ NoneLost(d)
      BY <1>1 DEF OwnInv
    <2>2. OnItsWay(d) = BuffsOf(held[d]) \cup Coming(d)
      BY <1>1, HeldBuffsAre DEF OnItsWay, Coming
    <2> QED
      BY <2>1, <2>2 DEF Owned, NoneLost
  <1> QED
    BY TypeInit, TypeNext, OwnInit, OwnNext, RoomNext, <1>1, PTL DEF Spec

-----------------------------------------------------------------------------
(* The metadata of a buffer, as long as nothing goes wrong and buffers come back in the
   order they were sent.

   To read into the heap, the entries go round with the buffers: each buffer, from
   curr_buff_index on, has the next entry from tail on, and those SPF has not filled yet
   are the last; a call that moves a buffer, and the loop that queues them, are somewhere
   in between.  From the moment the ring is cleared to the moment the buffers are queued
   again there is nothing in it; which it is depends on the phase of the controlling
   thread.  To read into the client's own buffers, the entries in use are those of the
   buffers SPF holds, in their order.

   To write, an entry may stay in use when its buffer is back, so the order of those SPF
   still reads and their place in the ring is all there is: in the shared memory mode they
   lie between tail and head, in the heap modes not more than a round before head. *)

Fwd(a, i) == (a + i) % MdSize
Dist(a, b) == (b - a) % MdSize

Blameless == gave_up = {} /\ "REORDER" \notin Faults

Stopping == {"command", "test", "asleep", "clear", "deinit"}

Phases ==
  /\ \A d \in Dir : "SSR" \notin dp[d].flags
  /\ ctrl.op = "start" => graph.state \in {"OPENED", "STOPPED"}
  /\ ctrl.op \in {"stop", "flush"} /\ ctrl.pc \in {"abort", "trans", "command"} =>
       ctrl.dir = "read" /\ graph.state = "STARTED"
  /\ ctrl.op = "flush" => graph.state = "STARTED" /\ ctrl.pc # "deinit"
  /\ ctrl.op = "flush" /\ Queueing => ctrl.dir = "write"
  /\ ctrl.op = "stop" => ~Queueing /\ ctrl.pc # "deinit"
  /\ ctrl.op = "stop" /\ ctrl.pc \notin {"abort", "trans", "command"} =>
       graph.state = "STOPPED"
  /\ ctrl.op = "close" => /\ graph.state \in {"OPENED", "STOPPED"}
                          /\ ctrl.pc \in {"test", "asleep", "clear", "deinit"}
  /\ ctrl.pc \in Stopping => \A d \in Dir : call[d].pc = "idle"
  /\ ctrl.pc = "clear" => dp[ctrl.dir].used = {}
  /\ ~Queueing => ctrl.turn = 0
  /\ ctrl.pc \in {"enqueue", "send"} => Heap("read")
  /\ done.pc = "free" => done.dir = "write" /\ ~Heap("write") /\ HasMd("write")
  /\ call["read"].md # Format

\* The buffers to read into are with SPF or full, and not cleared since.
Filling == \/ graph.state = "STARTED" /\ ~(ctrl.op = "flush" /\ ctrl.dir = "write")
           \/ ctrl.op = "stop" /\ ctrl.dir = "read"

\* From the position o on there are m buffers whose entries follow each other, c after
\* tail; the last of them, those in h, are with SPF.  The ring ends k after tail.
Ring(r, h, sl, o, m, c, k) ==
  /\ Len(h) <= m /\ r.head = Fwd(r.tail, k)
  /\ r.acked = Fwd(r.tail, c + m - Len(h))
  /\ \A j \in 1 .. Len(h) : h[j].md = Fwd(r.tail, c + m - Len(h) + j - 1)
  /\ \A i \in 0 .. m - 1 : sl[At(r, o + i)] = Fwd(r.tail, c + i)

ReadRing(o, m, c, k) == Ring(dp["read"], held["read"], slot, o, m, c, k)
LastIs(b) == b = At(dp["read"], NumBuffs - 1)
Moving == {"copy", "enqueue", "send"}

\* A call has taken the last buffer; it gives its entry back, and gets the one after the
\* last.
Full == LET c == call["read"] IN
  /\ c.pc = "copy" => /\ ReadRing(0, NumBuffs - 1, 1, NumBuffs) /\ LastIs(c.buf)
                      /\ slot[c.buf] = dp["read"].tail
  /\ c.pc = "enqueue" => ReadRing(0, NumBuffs - 1, 0, NumBuffs - 1) /\ LastIs(c.buf)
  /\ c.pc = "send" => /\ ReadRing(0, NumBuffs - 1, 0, NumBuffs) /\ LastIs(c.buf)
                      /\ c.md = Fwd(dp["read"].tail, NumBuffs - 1)
  /\ c.pc \notin Moving => ReadRing(0, NumBuffs, 0, NumBuffs)

\* The loop has sent so many buffers as it has made turns; those it has not taken are
\* available.
Refill == LET n == ctrl.turn r == dp["read"] IN
  /\ call["read"].pc = "idle"
  /\ ctrl.pc = "queue" => /\ ReadRing(NumBuffs - n, n, 0, n)
                          /\ \A i \in 0 .. NumBuffs - n - 1 : At(r, i) \notin r.used
  /\ ctrl.pc \in {"enqueue", "send"} =>
       LastIs(ctrl.buf) /\ \A i \in 0 .. NumBuffs - n - 2 : At(r, i) \notin r.used
  /\ ctrl.pc = "enqueue" => ReadRing(NumBuffs - n - 1, n, 0, n)
  /\ ctrl.pc = "send" => ReadRing(NumBuffs - n - 1, n, 0, n + 1) /\ ctrl.md = Fwd(r.tail, n)

Fresh ==
  /\ dp["read"].used = {} /\ dp["read"].head = 0 /\ dp["read"].tail = 0
  /\ dp["read"].acked = 0 /\ held["read"] = <<>> /\ call["read"].pc = "idle"

RingInv == IF Queueing THEN Refill ELSE IF Filling THEN Full ELSE Fresh

\* One entry more than SPF has is in use while a call is about to send.
Fifo(r, h, l) ==
  /\ l < MdSize /\ r.head = Fwd(r.tail, l)
  /\ \A j \in 1 .. Len(h) : h[j].md = Fwd(r.tail, j - 1)

ReadFifo == LET r == dp["read"] h == held["read"] c == call["read"] IN
  /\ c.pc # "copy"
  /\ c.pc # "send" => Fifo(r, h, Len(h))
  /\ c.pc = "send" => Fifo(r, h, Len(h) + 1) /\ c.md = Fwd(r.tail, Len(h))

\* What SPF reads of an entry: nothing of that of a media format.
Data(md) == md # Format

Within(r, o, md) ==
  /\ md \in 0 .. MdSize - 1
  /\ o <= Dist(r.tail, md) /\ Dist(r.tail, md) < Dist(r.tail, r.head)
Window(r, h, o) ==
  /\ o <= Dist(r.tail, r.head)
  /\ \A j \in 1 .. Len(h) : Data(h[j].md) => Within(r, o, h[j].md)
  /\ \A i, j \in 1 .. Len(h) : i < j /\ Data(h[i].md) /\ Data(h[j].md) =>
       Dist(r.tail, h[i].md) < Dist(r.tail, h[j].md)
Newest(r, h, o, md) ==
  /\ Within(r, o, md)
  /\ \A j \in 1 .. Len(h) : Data(h[j].md) => Dist(r.tail, h[j].md) < Dist(r.tail, md)

\* The oldest entry may be one whose buffer is back, and will be given back next.
Oldest == IF done.pc = "free" THEN 1 ELSE 0

WriteWindow == LET r == dp["write"] h == held["write"] c == call["write"] IN
  /\ c.pc # "copy" /\ Window(r, h, Oldest)
  /\ c.pc = "send" /\ Data(c.md) => Newest(r, h, Oldest, c.md)

Round(r, h, more) == \A j \in 1 .. Len(h) : Data(h[j].md) =>
  /\ h[j].md \in 0 .. MdSize - 1
  /\ 1 <= Dist(h[j].md, r.head) /\ Dist(h[j].md, r.head) <= Len(h) - j + 1 + more

WriteRound == LET r == dp["write"] h == held["write"] c == call["write"] IN
  /\ c.pc \in {"copy", "enqueue"} => Data(c.md)
  /\ c.pc = "send" /\ Data(c.md) => /\ c.md \in 0 .. MdSize - 1 /\ Dist(c.md, r.head) = 1
                                    /\ Round(r, h, 1)
  /\ ~(c.pc = "send" /\ Data(c.md)) => Round(r, h, 0)

MdInv == Blameless =>
  /\ Phases
  /\ HasMd("read") /\ Heap("read") => RingInv
  /\ HasMd("read") /\ ~Heap("read") => ReadFifo
  /\ HasMd("write") /\ ~Heap("write") => WriteWindow
  /\ HasMd("write") /\ Heap("write") => WriteRound

\* Positions in the ring of the metadata.
LEMMA FwdIs ==
  ASSUME NEW a \in 0 .. MdSize - 1, NEW i \in 0 .. MdSize
  PROVE  /\ Fwd(a, i) \in 0 .. MdSize - 1
         /\ Fwd(a, i) = IF a + i < MdSize THEN a + i ELSE a + i - MdSize
PROOF
  <1> DEFINE x == a + i
  <1>1. x \in 0 .. 2 * MdSize - 1 /\ MdSize \in Nat \ {0}
    BY MdType
  <1>2. CASE x < MdSize
    BY <1>1, <1>2, ModSmall DEF Fwd
  <1>3. CASE ~(x < MdSize)
    <2>1. x \in MdSize .. 2 * MdSize - 1
      BY <1>1, <1>3
    <2>2. x % MdSize = x - MdSize
      BY <1>1, <2>1, ModOver
    <2> QED
      BY <1>1, <1>3, <2>2 DEF Fwd
  <1> QED
    BY <1>2, <1>3

LEMMA FwdOn ==
  ASSUME NEW a \in 0 .. MdSize - 1, NEW i \in 0 .. MdSize, NEW j \in 0 .. MdSize - i
  PROVE  Fwd(Fwd(a, i), j) = Fwd(a, i + j)
PROOF
  <1>1. MdSize \in Nat /\ i + j \in 0 .. MdSize /\ j \in 0 .. MdSize
    BY MdType
  <1>2. Fwd(a, i) \in 0 .. MdSize - 1
    BY FwdIs
  <1>3. Fwd(Fwd(a, i), j) = IF Fwd(a, i) + j < MdSize THEN Fwd(a, i) + j
                                                    ELSE Fwd(a, i) + j - MdSize
    BY <1>1, <1>2, FwdIs
  <1>4. Fwd(a, i + j) = IF a + (i + j) < MdSize THEN a + (i + j) ELSE a + (i + j) - MdSize
    BY <1>1, FwdIs
  <1>5. Fwd(a, i) = IF a + i < MdSize THEN a + i ELSE a + i - MdSize
    BY FwdIs
  <1> QED
    BY <1>1, <1>2, <1>3, <1>4, <1>5

LEMMA FwdRound ==
  ASSUME NEW a \in 0 .. MdSize - 1
  PROVE  Fwd(a, MdSize) = a
PROOF
  <1>1. MdSize \in Nat \ {0} /\ MdSize \in 0 .. MdSize
    BY MdType
  <1>2. Fwd(a, MdSize) = IF a + MdSize < MdSize THEN a + MdSize ELSE a + MdSize - MdSize
    BY <1>1, FwdIs
  <1> QED
    BY <1>1, <1>2

LEMMA FwdAway ==
  ASSUME NEW a \in 0 .. MdSize - 1, NEW i \in 0 .. MdSize - 1, Fwd(a, i) = a
  PROVE  i = 0
PROOF
  <1>1. MdSize \in Nat /\ i \in 0 .. MdSize
    BY MdType
  <1>2. a = IF a + i < MdSize THEN a + i ELSE a + i - MdSize
    BY <1>1, FwdIs
  <1> QED
    BY <1>1, <1>2

LEMMA AtNext ==
  ASSUME NEW r, NEW s, r.curr \in Buff, s.curr = (r.curr + 1) % NumBuffs
  PROVE  /\ \A i \in 0 .. NumBuffs - 1 : At(s, i) = At(r, i + 1)
         /\ At(r, 0) = r.curr /\ At(r, NumBuffs) = r.curr
PROOF
  <1>1. NumBuffs \in Nat \ {0} /\ r.curr \in 0 .. NumBuffs - 1
    BY NumBuffsType DEF Buff
  <1>2. /\ s.curr \in Buff
        /\ s.curr = IF r.curr + 1 < NumBuffs THEN r.curr + 1 ELSE r.curr + 1 - NumBuffs
    BY <1>1, AtType DEF At
  <1>3. ASSUME NEW i \in 0 .. NumBuffs - 1
        PROVE  At(s, i) = At(r, i + 1)
    <2>1. i \in 0 .. NumBuffs /\ i + 1 \in 0 .. NumBuffs
      BY <1>1
    <2>2. At(s, i) = IF s.curr + i < NumBuffs THEN s.curr + i ELSE s.curr + i - NumBuffs
      BY <1>2, <2>1, AtType
    <2>3. At(r, i + 1) = IF r.curr + (i + 1) < NumBuffs THEN r.curr + (i + 1)
                                                       ELSE r.curr + (i + 1) - NumBuffs
      BY <1>1, <2>1, AtType
    <2> QED
      BY <1>1, <1>2, <2>1, <2>2, <2>3
  <1>4. At(r, 0) = r.curr
    BY <1>1, ModSmall DEF At
  <1>5. At(r, NumBuffs) = r.curr
    <2>1. NumBuffs \in 0 .. NumBuffs
      BY <1>1
    <2> QED
      BY <1>1, <2>1, AtType
  <1> QED
    BY <1>3, <1>4, <1>5

\* A buffer and its entry when the bit, the indices or the buffer held change.
LEMMA DistIs ==
  ASSUME NEW a \in 0 .. MdSize - 1, NEW b \in 0 .. MdSize - 1
  PROVE  /\ Dist(a, b) \in 0 .. MdSize - 1
         /\ Dist(a, b) = IF a <= b THEN b - a ELSE b - a + MdSize
PROOF
  <1>1. MdSize \in Nat \ {0} /\ b - a \in Int
    BY MdType
  <1>2. CASE a <= b
    <2>1. b - a \in 0 .. MdSize - 1
      BY <1>1, <1>2
    <2> QED
      BY <1>1, <1>2, <2>1, ModSmall DEF Dist
  <1>3. CASE ~(a <= b)
    <2>1. b - a \in - MdSize .. - 1 /\ b - a + MdSize \in 0 .. MdSize - 1
      BY <1>1, <1>3
    <2>2. (b - a) % MdSize = b - a + MdSize
      BY <1>1, <2>1, ModUnder
    <2> QED
      BY <1>3, <2>1, <2>2 DEF Dist
  <1> QED
    BY <1>2, <1>3

\* One further from a to b, and from one further than a to b.
LEMMA DistOn ==
  ASSUME NEW a \in 0 .. MdSize - 1, NEW b \in 0 .. MdSize - 1
  PROVE  /\ Fwd(b, 1) # a => Dist(a, Fwd(b, 1)) = Dist(a, b) + 1
         /\ Dist(a, b) >= 1 => Dist(Fwd(a, 1), b) = Dist(a, b) - 1
         /\ Dist(a, b) = 0 <=> a = b
PROOF
  <1>1. MdSize \in Nat \ {0} /\ 1 \in 0 .. MdSize
    BY MdType
  <1>2. /\ Fwd(b, 1) \in 0 .. MdSize - 1
        /\ Fwd(b, 1) = IF b + 1 < MdSize THEN b + 1 ELSE b + 1 - MdSize
        /\ Fwd(a, 1) \in 0 .. MdSize - 1
        /\ Fwd(a, 1) = IF a + 1 < MdSize THEN a + 1 ELSE a + 1 - MdSize
    BY <1>1, FwdIs
  <1>3. /\ Dist(a, b) = IF a <= b THEN b - a ELSE b - a + MdSize
        /\ Dist(a, Fwd(b, 1)) = IF a <= Fwd(b, 1) THEN Fwd(b, 1) - a ELSE Fwd(b, 1) - a + MdSize
        /\ Dist(Fwd(a, 1), b) = IF Fwd(a, 1) <= b THEN b - Fwd(a, 1) ELSE b - Fwd(a, 1) + MdSize
    BY <1>2, DistIs
  <1> QED
    BY <1>1, <1>2, <1>3

\* Operations on the ring, in terms of these.
LEMMA MdAfter ==
  ASSUME NEW r \in DataPath
  PROVE  /\ r.head \in 0 .. MdSize - 1 /\ r.tail \in 0 .. MdSize - 1
         /\ MdFull(r) <=> Fwd(r.head, 1) = r.tail
         /\ ~MdFull(r) => /\ Enqueued(r).head = Fwd(r.head, 1) /\ NextEntry(r) = r.head
                          /\ Enqueued(r).tail = r.tail /\ Enqueued(r).acked = r.acked
                          /\ Enqueued(r).curr = r.curr
         /\ r.tail # r.head => Dequeued(r).tail = Fwd(r.tail, 1)
         /\ Dequeued(r).head = r.head /\ Dequeued(r).acked = r.acked /\ Dequeued(r).curr = r.curr
         /\ Acked(r).acked = Fwd(r.acked, 1) /\ Acked(r).head = r.head /\ Acked(r).tail = r.tail
         /\ Acked(r).curr = r.curr
         /\ Taken(r).curr = (r.curr + 1) % NumBuffs /\ Taken(r).head = r.head
         /\ Taken(r).tail = r.tail /\ Taken(r).acked = r.acked
  BY DEF DataPath, MdFull, Fwd, Enqueued, NextEntry, Dequeued, Acked, Taken

-----------------------------------------------------------------------------
(* The steps of a ring of entries, whoever takes them. *)

LEMMA RingIs ==
  ASSUME NEW r, NEW s, NEW h, NEW sl, NEW o, NEW m, NEW c, NEW k, Ring(r, h, sl, o, m, c, k),
         s.curr = r.curr, s.head = r.head, s.tail = r.tail, s.acked = r.acked
  PROVE  Ring(s, h, sl, o, m, c, k)
  BY DEF Ring, At

LEMMA RingEmpty ==
  ASSUME NEW r, NEW sl, NEW o, r.head = 0, r.tail = 0, r.acked = 0
  PROVE  Ring(r, <<>>, sl, o, 0, 0, 0)
PROOF
  <1>1. Fwd(0, 0) = 0
    <2>1. MdSize \in Nat \ {0} /\ 0 \in 0 .. MdSize - 1 /\ 0 \in 0 .. MdSize
      BY MdType
    <2> QED
      BY <2>1, FwdIs
  <1> QED
    BY <1>1 DEF Ring

\* The first of the buffers is left to itself.
LEMMA RingFirst ==
  ASSUME NEW r \in DataPath, NEW h \in Seq(Entry), NEW sl,
         Ring(r, h, sl, 0, NumBuffs, 0, NumBuffs), Len(h) < NumBuffs
  PROVE  Ring(r, h, sl, 1, NumBuffs - 1, 1, NumBuffs) /\ sl[r.curr] = r.tail
PROOF
  <1>1. NumBuffs \in Nat \ {0} /\ Len(h) \in Nat /\ r.curr \in Buff
    BY NumBuffsType DEF DataPath
  <1>2. 1 + (NumBuffs - 1) - Len(h) = 0 + NumBuffs - Len(h)
    BY <1>1
  <1>3. ASSUME NEW i \in 0 .. NumBuffs - 1 - 1
        PROVE  sl[At(r, 1 + i)] = Fwd(r.tail, 1 + i)
    <2>1. 1 + i \in 0 .. NumBuffs - 1 /\ 0 + (1 + i) = 1 + i
      BY <1>1
    <2>2. sl[At(r, 0 + (1 + i))] = Fwd(r.tail, 0 + (1 + i))
      BY <2>1 DEF Ring
    <2> QED
      BY <2>1, <2>2
  <1>4. sl[r.curr] = r.tail
    <2>1. sl[At(r, 0 + 0)] = Fwd(r.tail, 0 + 0)
      BY <1>1 DEF Ring
    <2>2. At(r, 0) = r.curr
      <3>1. 0 \in 0 .. NumBuffs
        BY <1>1
      <3>2. At(r, 0) = IF r.curr + 0 < NumBuffs THEN r.curr + 0 ELSE r.curr + 0 - NumBuffs
        BY <1>1, <3>1, AtType
      <3> QED
        BY <1>1, <3>2 DEF Buff
    <2>3. Fwd(r.tail, 0) = r.tail
      <3>1. r.tail \in 0 .. MdSize - 1 /\ MdSize \in Nat \ {0} /\ 0 \in 0 .. MdSize
        BY MdType DEF DataPath
      <3>2. Fwd(r.tail, 0) = IF r.tail + 0 < MdSize THEN r.tail + 0 ELSE r.tail + 0 - MdSize
        BY <3>1, FwdIs
      <3> QED
        BY <3>1, <3>2
    <2> QED
      BY <2>1, <2>2, <2>3
  <1>5. /\ r.head = Fwd(r.tail, NumBuffs) /\ r.acked = Fwd(r.tail, 0 + NumBuffs - Len(h))
        /\ \A j \in 1 .. Len(h) : h[j].md = Fwd(r.tail, 0 + NumBuffs - Len(h) + j - 1)
    BY DEF Ring
  <1>6. Len(h) <= NumBuffs - 1
    BY <1>1
  <1> QED
    BY <1>2, <1>3, <1>4, <1>5, <1>6 DEF Ring

\* The next buffer is taken: the others move up.
LEMMA RingTaken ==
  ASSUME NEW r \in DataPath, NEW h, NEW sl, NEW o \in Nat, NEW m \in Nat, NEW c, NEW k,
         Ring(r, h, sl, o + 1, m, c, k), o + m < NumBuffs
  PROVE  /\ Ring(Taken(r), h, sl, o, m, c, k) /\ r.curr = At(Taken(r), NumBuffs - 1)
         /\ \A i \in 0 .. NumBuffs - 1 : At(Taken(r), i) = At(r, i + 1)
PROOF
  <1> DEFINE s == Taken(r)
  <1>1. NumBuffs \in Nat \ {0} /\ r.curr \in Buff
    BY NumBuffsType DEF DataPath
  <1>2. /\ s.curr = (r.curr + 1) % NumBuffs /\ s.head = r.head /\ s.tail = r.tail
        /\ s.acked = r.acked
    BY MdAfter
  <1> HIDE DEF s
  <1>3. /\ \A i \in 0 .. NumBuffs - 1 : At(s, i) = At(r, i + 1)
        /\ At(r, NumBuffs) = r.curr
    BY <1>1, <1>2, AtNext
  <1>4. r.curr = At(s, NumBuffs - 1)
    BY <1>1, <1>3
  <1>5. ASSUME NEW i \in 0 .. m - 1
        PROVE  At(s, o + i) = At(r, o + 1 + i)
    <2>1. o + i \in 0 .. NumBuffs - 1 /\ (o + i) + 1 = o + 1 + i
      BY <1>1
    <2> QED
      BY <1>3, <2>1
  <1>6. Ring(s, h, sl, o, m, c, k)
    BY <1>2, <1>5 DEF Ring
  <1> QED
    BY <1>3, <1>4, <1>6 DEF s

\* The oldest entry is given back.
LEMMA RingGiven ==
  ASSUME NEW r \in DataPath, NEW h \in Seq(Entry), NEW sl, NEW o, NEW m \in Nat, NEW k \in Nat,
         Ring(r, h, sl, o, m, 1, k + 1), k + 1 < MdSize, m + 1 < MdSize
  PROVE  Ring(Dequeued(r), h, sl, o, m, 0, k)
PROOF
  <1> DEFINE s == Dequeued(r)
             l == Len(h)
             t == r.tail
  <1>1. /\ l \in Nat /\ l <= m /\ MdSize \in Nat \ {0} /\ t \in 0 .. MdSize - 1
        /\ k + 1 \in 0 .. MdSize - 1 /\ 1 \in 0 .. MdSize
    <2>1. l \in Nat /\ l <= m
      BY DEF Ring
    <2>2. MdSize \in Nat \ {0} /\ t \in 0 .. MdSize - 1
      BY MdType DEF DataPath
    <2> QED
      BY <2>1, <2>2
  <1>2. r.head = Fwd(t, k + 1)
    BY DEF Ring
  <1>3. t # r.head
    <2>1. Fwd(t, k + 1) = t => k + 1 = 0
      BY <1>1, FwdAway
    <2> QED
      BY <1>1, <1>2, <2>1
  <1>4. /\ s.tail = Fwd(t, 1) /\ s.head = r.head /\ s.acked = r.acked /\ s.curr = r.curr
    BY <1>3, MdAfter
  <1> HIDE DEF s
  <1>5. ASSUME NEW i \in 0 .. MdSize - 1
        PROVE  Fwd(s.tail, i) = Fwd(t, 1 + i)
    BY <1>1, <1>4, <1>5, FwdOn
  <1>6. s.head = Fwd(s.tail, k)
    <2>1. k \in 0 .. MdSize - 1 /\ 1 + k = k + 1
      BY <1>1
    <2> QED
      BY <1>2, <1>4, <1>5, <2>1
  <1>7. s.acked = Fwd(s.tail, 0 + m - l)
    <2>1. 0 + m - l \in 0 .. MdSize - 1 /\ 1 + (0 + m - l) = 1 + m - l
      BY <1>1
    <2>2. r.acked = Fwd(t, 1 + m - l)
      BY DEF Ring
    <2> QED
      BY <1>4, <1>5, <2>1, <2>2
  <1>8. ASSUME NEW j \in 1 .. l
        PROVE  h[j].md = Fwd(s.tail, 0 + m - l + j - 1)
    <2>1. 0 + m - l + j - 1 \in 0 .. MdSize - 1 /\ 1 + (0 + m - l + j - 1) = 1 + m - l + j - 1
      BY <1>1
    <2>2. h[j].md = Fwd(t, 1 + m - l + j - 1)
      BY DEF Ring
    <2> QED
      BY <1>5, <2>1, <2>2
  <1>9. ASSUME NEW i \in 0 .. m - 1
        PROVE  sl[At(s, o + i)] = Fwd(s.tail, 0 + i)
    <2>1. 0 + i \in 0 .. MdSize - 1 /\ 1 + (0 + i) = 1 + i
      BY <1>1
    <2>2. At(s, o + i) = At(r, o + i)
      BY <1>4 DEF At
    <2>3. sl[At(r, o + i)] = Fwd(t, 1 + i)
      BY DEF Ring
    <2> QED
      BY <1>5, <2>1, <2>2, <2>3
  <1> QED
    BY <1>1, <1>6, <1>7, <1>8, <1>9 DEF Ring, s

\* The next entry is taken, ...
LEMMA RingGets ==
  ASSUME NEW r \in DataPath, NEW h, NEW sl, NEW o, NEW m, NEW c, NEW k \in Nat,
         Ring(r, h, sl, o, m, c, k), k + 1 < MdSize
  PROVE  Ring(Enqueued(r), h, sl, o, m, c, k + 1) /\ NextEntry(r) = Fwd(r.tail, k)
         /\ Enqueued(r).tail = r.tail /\ Enqueued(r).curr = r.curr /\ ~MdFull(r)
PROOF
  <1> DEFINE s == Enqueued(r)
  <1>1. /\ MdSize \in Nat \ {0} /\ r.tail \in 0 .. MdSize - 1 /\ r.head = Fwd(r.tail, k)
        /\ k \in 0 .. MdSize /\ 1 \in 0 .. MdSize - k /\ k + 1 \in 0 .. MdSize - 1
    BY MdType DEF Ring, DataPath
  <1>2. Fwd(r.head, 1) = Fwd(r.tail, k + 1)
    BY <1>1, FwdOn
  <1>3. ~MdFull(r)
    <2>1. Fwd(r.tail, k + 1) = r.tail => k + 1 = 0
      BY <1>1, FwdAway
    <2> QED
      BY <1>1, <1>2, <2>1, MdAfter
  <1>4. /\ s.head = Fwd(r.tail, k + 1) /\ s.tail = r.tail /\ s.acked = r.acked
        /\ s.curr = r.curr /\ NextEntry(r) = r.head
    BY <1>2, <1>3, MdAfter
  <1> HIDE DEF s
  <1>5. Ring(s, h, sl, o, m, c, k + 1)
    BY <1>4 DEF Ring, At
  <1> QED
    BY <1>1, <1>3, <1>4, <1>5 DEF s

\* ... and sent with the buffer that follows.
LEMMA RingSent ==
  ASSUME NEW r \in DataPath, NEW h \in Seq(Entry), NEW sl \in [Buff -> 0 .. Format],
         NEW o \in Nat, NEW m \in Nat, NEW c \in Nat, NEW k, NEW x \in Entry,
         Ring(r, h, sl, o, m, c, k), o + m < NumBuffs, x.md = Fwd(r.tail, c + m),
         x.buff = At(r, o + m)
  PROVE  Ring(r, Append(h, x), [sl EXCEPT ![x.buff] = x.md], o, m + 1, c, k)
PROOF
  <1> DEFINE l == Len(h)
             g == Append(h, x)
             tl == [sl EXCEPT ![x.buff] = x.md]
  <1>1. /\ l \in Nat /\ Len(g) = l + 1 /\ g[l + 1] = x /\ \A j \in 1 .. l : g[j] = h[j]
        /\ l <= m /\ NumBuffs \in Nat \ {0} /\ x.buff \in Buff
    BY NumBuffsType DEF Ring, Entry
  <1> HIDE DEF g
  <1>2. Len(g) <= m + 1 /\ c + (m + 1) - Len(g) = c + m - l
    BY <1>1
  <1>3. ASSUME NEW j \in 1 .. Len(g)
        PROVE  g[j].md = Fwd(r.tail, c + m - l + j - 1)
    <2>1. CASE j \in 1 .. l
      BY <1>1, <2>1 DEF Ring
    <2>2. CASE j = l + 1
      <3>1. c + m - l + j - 1 = c + m
        BY <1>1, <2>2
      <3> QED
        BY <1>1, <2>2, <3>1
    <2> QED
      BY <1>1, <2>1, <2>2
  <1>4. ASSUME NEW i \in 0 .. (m + 1) - 1
        PROVE  tl[At(r, o + i)] = Fwd(r.tail, c + i)
    <2>1. CASE i = m
      BY <1>1, <2>1
    <2>2. CASE i \in 0 .. m - 1
      <3>1. o + i \in 0 .. NumBuffs - 1 /\ o + m \in 0 .. NumBuffs - 1 /\ o + i # o + m
            /\ r.curr \in Buff
        BY <1>1, <2>2 DEF DataPath
      <3>2. At(r, o + i) # At(r, o + m)
        BY <3>1, AtOnce
      <3>3. sl[At(r, o + i)] = Fwd(r.tail, c + i)
        BY <2>2 DEF Ring
      <3>4. At(r, o + i) \in Buff
        <4>1. o + i \in 0 .. NumBuffs
          BY <1>1, <3>1
        <4> QED
          BY <3>1, <4>1, AtType
      <3> QED
        BY <3>2, <3>3, <3>4
    <2> QED
      BY <1>1, <2>1, <2>2
  <1> HIDE DEF tl
  <1>5. r.head = Fwd(r.tail, k) /\ r.acked = Fwd(r.tail, c + m - l)
    BY DEF Ring
  <1> QED
    BY <1>2, <1>3, <1>4, <1>5 DEF Ring, g, tl

LEMMA FirstRemoved ==
  ASSUME NEW h \in Seq(Entry), Len(h) >= 1
  PROVE  /\ RemoveAt(h, 1) \in Seq(Entry) /\ Len(RemoveAt(h, 1)) = Len(h) - 1
         /\ \A j \in 1 .. Len(h) - 1 : RemoveAt(h, 1)[j] = h[j + 1]
PROOF
  <1>1. Len(h) \in Nat
    OBVIOUS
  <1>2. 1 \in 1 .. Len(h)
    BY <1>1
  <1>3. \A j \in 1 .. Len(h) - 1 : ~(j < 1)
    BY <1>1
  <1>4. /\ RemoveAt(h, 1) \in Seq(Entry) /\ Len(RemoveAt(h, 1)) = Len(h) - 1
        /\ \A j \in 1 .. Len(h) - 1 : RemoveAt(h, 1)[j] = IF j < 1 THEN h[j] ELSE h[j + 1]
    BY <1>2, RemoveAtType
  <1>5. ASSUME NEW j \in 1 .. Len(h) - 1
        PROVE  RemoveAt(h, 1)[j] = h[j + 1]
    BY <1>3, <1>4
  <1> QED
    BY <1>4, <1>5

\* SPF has filled the buffer it was sent first.
LEMMA RingBack ==
  ASSUME NEW r \in DataPath, NEW h \in Seq(Entry), NEW sl, NEW o, NEW m \in Nat,
         NEW c \in Nat, NEW k, Ring(r, h, sl, o, m, c, k), Len(h) >= 1, c + m < MdSize
  PROVE  Ring(Acked(r), RemoveAt(h, 1), sl, o, m, c, k)
PROOF
  <1> DEFINE l == Len(h)
             g == RemoveAt(h, 1)
             s == Acked(r)
  <1>1. /\ l \in Nat /\ Len(g) = l - 1 /\ \A j \in 1 .. l - 1 : g[j] = h[j + 1]
        /\ l <= m /\ MdSize \in Nat \ {0} /\ r.tail \in 0 .. MdSize - 1
    <2>1. Len(g) = l - 1 /\ \A j \in 1 .. l - 1 : g[j] = h[j + 1]
      <3> HIDE DEF g
      <3> QED
        BY FirstRemoved DEF g
    <2>2. l \in Nat /\ l <= m
      BY DEF Ring
    <2>3. MdSize \in Nat \ {0} /\ r.tail \in 0 .. MdSize - 1
      BY MdType DEF DataPath
    <2> QED
      BY <2>1, <2>2, <2>3
  <1>2. /\ s.acked = Fwd(r.acked, 1) /\ s.head = r.head /\ s.tail = r.tail /\ s.curr = r.curr
        /\ r.acked = Fwd(r.tail, c + m - l) /\ r.head = Fwd(r.tail, k)
    BY MdAfter DEF Ring
  <1> HIDE DEF g, s
  <1>3. Len(g) <= m /\ c + m - Len(g) = (c + m - l) + 1
    BY <1>1
  <1>4. s.acked = Fwd(r.tail, (c + m - l) + 1)
    <2>1. c + m - l \in 0 .. MdSize /\ 1 \in 0 .. MdSize - (c + m - l)
      BY <1>1
    <2> QED
      BY <1>1, <1>2, <2>1, FwdOn
  <1>5. ASSUME NEW j \in 1 .. Len(g)
        PROVE  g[j].md = Fwd(r.tail, c + m - Len(g) + j - 1)
    <2>1. /\ j \in 1 .. l - 1 /\ j + 1 \in 1 .. l
          /\ c + m - l + (j + 1) - 1 = c + m - Len(g) + j - 1
      BY <1>1
    <2>2. h[j + 1].md = Fwd(r.tail, c + m - l + (j + 1) - 1)
      BY <2>1 DEF Ring
    <2> QED
      BY <1>1, <2>1, <2>2
  <1>6. \A i \in 0 .. m - 1 : sl[At(s, o + i)] = Fwd(s.tail, c + i)
    BY <1>2 DEF Ring, At
  <1> QED
    BY <1>2, <1>3, <1>4, <1>5, <1>6 DEF Ring, g, s

\* The same for reads and writes in the shared memory mode.
LEMMA FifoGets ==
  ASSUME NEW r \in DataPath, NEW h, NEW l \in Nat, Fifo(r, h, l), ~MdFull(r)
  PROVE  /\ Fifo(Enqueued(r), h, l + 1) /\ NextEntry(r) = Fwd(r.tail, l)
         /\ Enqueued(r).tail = r.tail
PROOF
  <1> DEFINE s == Enqueued(r)
  <1>1. MdSize \in Nat \ {0} /\ r.tail \in 0 .. MdSize - 1 /\ l < MdSize
    BY MdType DEF Fifo, DataPath
  <1>2. /\ s.head = Fwd(r.head, 1) /\ s.tail = r.tail /\ NextEntry(r) = r.head
        /\ r.head = Fwd(r.tail, l) /\ Fwd(r.head, 1) # r.tail
    BY MdAfter DEF Fifo
  <1> HIDE DEF s
  <1>3. s.head = Fwd(r.tail, l + 1)
    <2>1. l \in 0 .. MdSize /\ 1 \in 0 .. MdSize - l
      BY <1>1
    <2> QED
      BY <1>1, <1>2, <2>1, FwdOn
  <1>4. l + 1 < MdSize
    <2>1. Fwd(r.tail, MdSize) = r.tail
      BY <1>1, FwdRound
    <2>2. l + 1 # MdSize
      BY <1>2, <1>3, <2>1
    <2> QED
      BY <1>1, <2>2
  <1>5. Fifo(s, h, l + 1)
    BY <1>2, <1>3, <1>4 DEF Fifo
  <1> QED
    BY <1>2, <1>5 DEF s

LEMMA FifoSent ==
  ASSUME NEW r, NEW h \in Seq(Entry), NEW x \in Entry, Fifo(r, h, Len(h) + 1),
         x.md = Fwd(r.tail, Len(h))
  PROVE  Fifo(r, Append(h, x), Len(Append(h, x)))
PROOF
  <1> DEFINE l == Len(h)
             g == Append(h, x)
  <1>1. l \in Nat /\ Len(g) = l + 1 /\ g[l + 1] = x /\ \A j \in 1 .. l : g[j] = h[j]
    OBVIOUS
  <1> HIDE DEF g
  <1>2. ASSUME NEW j \in 1 .. Len(g)
        PROVE  g[j].md = Fwd(r.tail, j - 1)
    <2>1. CASE j \in 1 .. l
      BY <1>1, <2>1 DEF Fifo
    <2>2. CASE j = l + 1
      <3>1. j - 1 = l
        BY <1>1, <2>2
      <3> QED
        BY <1>1, <2>2, <3>1
    <2> QED
      BY <1>1, <2>1, <2>2
  <1> QED
    BY <1>1, <1>2 DEF Fifo, g

LEMMA FifoBack ==
  ASSUME NEW r \in DataPath, NEW h \in Seq(Entry), NEW l \in Nat, Fifo(r, h, l),
         Len(h) >= 1, Len(h) <= l
  PROVE  /\ Fifo(Dequeued(r), RemoveAt(h, 1), l - 1)
         /\ Fwd(Dequeued(r).tail, Len(h) - 1) = Fwd(r.tail, Len(h))
PROOF
  <1> DEFINE s == Dequeued(r)
             g == RemoveAt(h, 1)
  <1>1. /\ MdSize \in Nat \ {0} /\ r.tail \in 0 .. MdSize - 1 /\ l < MdSize /\ Len(h) \in Nat
        /\ r.head = Fwd(r.tail, l) /\ \A j \in 1 .. Len(h) : h[j].md = Fwd(r.tail, j - 1)
    BY MdType DEF Fifo, DataPath
  <1>2. Len(g) = Len(h) - 1 /\ \A j \in 1 .. Len(h) - 1 : g[j] = h[j + 1]
    BY FirstRemoved
  <1>3. r.tail # r.head
    <2>1. l \in 0 .. MdSize - 1 /\ l # 0
      BY <1>1
    <2> QED
      BY <1>1, <2>1, FwdAway
  <1>4. s.tail = Fwd(r.tail, 1) /\ s.head = r.head
    BY <1>3, MdAfter
  <1> HIDE DEF s, g
  <1>5. ASSUME NEW i \in 0 .. MdSize - 1
        PROVE  Fwd(s.tail, i) = Fwd(r.tail, 1 + i)
    <2>1. 1 \in 0 .. MdSize
      BY <1>1
    <2> QED
      BY <1>1, <1>4, <2>1, FwdOn
  <1>6. s.head = Fwd(s.tail, l - 1)
    <2>1. l - 1 \in 0 .. MdSize - 1 /\ 1 + (l - 1) = l
      BY <1>1
    <2> QED
      BY <1>1, <1>4, <1>5, <2>1
  <1>7. ASSUME NEW j \in 1 .. Len(g)
        PROVE  g[j].md = Fwd(s.tail, j - 1)
    <2>1. /\ j \in 1 .. Len(h) - 1 /\ j + 1 \in 1 .. Len(h) /\ j - 1 \in 0 .. MdSize - 1
          /\ 1 + (j - 1) = (j + 1) - 1
      BY <1>1, <1>2
    <2> QED
      BY <1>1, <1>2, <1>5, <2>1
  <1>8. Fwd(s.tail, Len(h) - 1) = Fwd(r.tail, Len(h))
    <2>1. Len(h) - 1 \in 0 .. MdSize - 1 /\ 1 + (Len(h) - 1) = Len(h)
      BY <1>1
    <2> QED
      BY <1>5, <2>1
  <1> QED
    BY <1>1, <1>6, <1>7, <1>8 DEF Fifo, s, g

LEMMA FifoEmpty ==
  ASSUME NEW r, r.head = 0, r.tail = 0
  PROVE  Fifo(r, <<>>, 0)
PROOF
  <1>1. Fwd(0, 0) = 0 /\ MdSize \in Nat \ {0}
    <2>1. MdSize \in Nat \ {0} /\ 0 \in 0 .. MdSize - 1 /\ 0 \in 0 .. MdSize
      BY MdType
    <2> QED
      BY <2>1, FwdIs
  <1> QED
    BY <1>1 DEF Fifo

LEMMA WindowGets ==
  ASSUME NEW r \in DataPath, NEW h, NEW o \in {0, 1}, Window(r, h, o), ~MdFull(r)
  PROVE  Window(Enqueued(r), h, o) /\ Newest(Enqueued(r), h, o, NextEntry(r))
PROOF
  <1> DEFINE s == Enqueued(r)
  <1>1. /\ r.head \in 0 .. MdSize - 1 /\ r.tail \in 0 .. MdSize - 1 /\ s.tail = r.tail
        /\ s.head = Fwd(r.head, 1) /\ NextEntry(r) = r.head /\ Fwd(r.head, 1) # r.tail
    BY MdAfter
  <1>2. Dist(r.tail, s.head) = Dist(r.tail, r.head) + 1 /\ Dist(r.tail, r.head) \in Int
    <2>1. Dist(r.tail, r.head) \in 0 .. MdSize - 1
      BY <1>1, DistIs
    <2>2. Dist(r.tail, Fwd(r.head, 1)) = Dist(r.tail, r.head) + 1
      BY <1>1, DistOn
    <2> QED
      BY <1>1, <2>1, <2>2, MdType
  <1> HIDE DEF s
  <1>3. ASSUME NEW md, Within(r, o, md)
        PROVE  Within(s, o, md) /\ Dist(r.tail, md) < Dist(r.tail, r.head)
    <2>1. Dist(r.tail, md) \in 0 .. MdSize - 1
      BY <1>1, <1>3, DistIs DEF Within
    <2> QED
      BY <1>1, <1>2, <1>3, <2>1, MdType DEF Within
  <1>4. Window(s, h, o)
    BY <1>1, <1>2, <1>3 DEF Window
  <1>5. Newest(s, h, o, r.head)
    BY <1>1, <1>2, <1>3 DEF Window, Newest, Within
  <1> QED
    BY <1>1, <1>4, <1>5 DEF s

LEMMA WindowSent ==
  ASSUME NEW r, NEW h \in Seq(Entry), NEW o, NEW x \in Entry, Window(r, h, o),
         Data(x.md) => Newest(r, h, o, x.md)
  PROVE  Window(r, Append(h, x), o)
PROOF
  <1> DEFINE g == Append(h, x)
  <1>1. /\ Len(h) \in Nat /\ Len(g) = Len(h) + 1 /\ g[Len(h) + 1] = x
        /\ \A j \in 1 .. Len(h) : g[j] = h[j]
    OBVIOUS
  <1> HIDE DEF g
  <1>2. \A j \in 1 .. Len(g) : j \in 1 .. Len(h) \/ j = Len(h) + 1
    BY <1>1
  <1>3. ASSUME NEW j \in 1 .. Len(g), Data(g[j].md)
        PROVE  Within(r, o, g[j].md)
    BY <1>1, <1>2, <1>3 DEF Window, Newest
  <1>4. ASSUME NEW i \in 1 .. Len(g), NEW j \in 1 .. Len(g), i < j, Data(g[i].md), Data(g[j].md)
        PROVE  Dist(r.tail, g[i].md) < Dist(r.tail, g[j].md)
    <2>1. i \in 1 .. Len(h) /\ g[i] = h[i]
      BY <1>1, <1>4
    <2>2. CASE j \in 1 .. Len(h)
      BY <1>1, <1>4, <2>1, <2>2 DEF Window
    <2>3. CASE j = Len(h) + 1
      BY <1>1, <1>4, <2>1, <2>3 DEF Newest
    <2> QED
      BY <1>2, <2>2, <2>3
  <1> QED
    BY <1>3, <1>4 DEF Window, g

\* A buffer with data is back; its entry stays the oldest.
LEMMA WindowBack ==
  ASSUME NEW r \in DataPath, NEW h \in Seq(Entry), Len(h) >= 1, Window(r, h, 0)
  PROVE  LET o == IF Data(h[1].md) THEN 1 ELSE 0 IN
         /\ Window(r, RemoveAt(h, 1), o)
         /\ \A md : Newest(r, h, 0, md) => Newest(r, RemoveAt(h, 1), o, md)
PROOF
  <1> DEFINE o == IF Data(h[1].md) THEN 1 ELSE 0
             g == RemoveAt(h, 1)
             D(md) == Dist(r.tail, md)
  <1>1. /\ Len(h) \in Nat /\ 1 \in 1 .. Len(h) /\ Len(g) = Len(h) - 1
        /\ \A j \in 1 .. Len(h) - 1 : g[j] = h[j + 1]
    BY FirstRemoved
  <1> HIDE DEF g
  <1>2. \A j \in 1 .. Len(g) : /\ j + 1 \in 1 .. Len(h) /\ 1 < j + 1 /\ g[j] = h[j + 1]
                               /\ \A i \in 1 .. Len(g) : i < j => i + 1 < j + 1
    BY <1>1
  <1>3. /\ \A md \in 0 .. MdSize - 1 : D(md) \in Nat
        /\ D(r.head) \in Nat /\ r.head \in 0 .. MdSize - 1
    <2>1. r.head \in 0 .. MdSize - 1 /\ r.tail \in 0 .. MdSize - 1 /\ MdSize \in Nat
      BY MdAfter, MdType
    <2>2. \A md \in 0 .. MdSize - 1 : D(md) \in 0 .. MdSize - 1
      BY <2>1, DistIs
    <2> HIDE DEF D
    <2> QED
      BY <2>1, <2>2
  <1>4. Data(h[1].md) => D(h[1].md) \in Nat /\ D(h[1].md) < D(r.head)
    BY <1>1, <1>3 DEF Window, Within
  <1>5. o <= D(r.head)
    BY <1>3, <1>4
  <1>6. ASSUME NEW j \in 1 .. Len(g), Data(g[j].md)
        PROVE  Within(r, o, g[j].md)
    <2>1. Within(r, 0, h[j + 1].md) /\ g[j] = h[j + 1]
      BY <1>2, <1>6 DEF Window
    <2>2. Data(h[1].md) => D(h[1].md) < D(h[j + 1].md)
      BY <1>1, <1>2, <1>6 DEF Window
    <2> QED
      BY <1>3, <1>4, <2>1, <2>2 DEF Within
  <1>7. ASSUME NEW i \in 1 .. Len(g), NEW j \in 1 .. Len(g), i < j, Data(g[i].md), Data(g[j].md)
        PROVE  D(g[i].md) < D(g[j].md)
    BY <1>2, <1>7 DEF Window
  <1>8. ASSUME NEW md, Newest(r, h, 0, md)
        PROVE  Newest(r, g, o, md)
    <2>1. Data(h[1].md) => D(h[1].md) < D(md)
      BY <1>1, <1>8 DEF Newest
    <2>2. Within(r, o, md)
      BY <1>3, <1>4, <1>8, <2>1 DEF Newest, Within
    <2> QED
      BY <1>2, <1>8, <2>2 DEF Newest
  <1>9. Window(r, g, o)
    BY <1>5, <1>6, <1>7 DEF Window
  <1> QED
    BY <1>8, <1>9 DEF g

LEMMA WindowFreed ==
  ASSUME NEW r \in DataPath, NEW h, Window(r, h, 1)
  PROVE  /\ Window(Dequeued(r), h, 0)
         /\ \A md : Newest(r, h, 1, md) => Newest(Dequeued(r), h, 0, md)
PROOF
  <1> DEFINE s == Dequeued(r)
  <1>1. /\ r.head \in 0 .. MdSize - 1 /\ r.tail \in 0 .. MdSize - 1 /\ MdSize \in Nat
        /\ 1 <= Dist(r.tail, r.head) /\ Dist(r.tail, r.head) \in Nat
    <2>1. r.head \in 0 .. MdSize - 1 /\ r.tail \in 0 .. MdSize - 1 /\ MdSize \in Nat
      BY MdAfter, MdType
    <2>2. Dist(r.tail, r.head) \in 0 .. MdSize - 1
      BY <2>1, DistIs
    <2> QED
      BY <2>1, <2>2 DEF Window
  <1>2. r.tail # r.head
    BY <1>1, DistOn
  <1>3. s.tail = Fwd(r.tail, 1) /\ s.head = r.head
    BY <1>2, MdAfter
  <1> HIDE DEF s
  <1>4. ASSUME NEW md \in 0 .. MdSize - 1, 1 <= Dist(r.tail, md)
        PROVE  Dist(s.tail, md) = Dist(r.tail, md) - 1 /\ Dist(r.tail, md) \in Nat
    <2>1. Dist(r.tail, md) \in 0 .. MdSize - 1
      BY <1>1, DistIs
    <2>2. Dist(r.tail, md) >= 1
      BY <1>1, <1>4, <2>1
    <2> QED
      BY <1>1, <1>3, <2>1, <2>2, DistOn
  <1>5. ASSUME NEW md, Within(r, 1, md)
        PROVE  Within(s, 0, md)
    BY <1>1, <1>3, <1>4, <1>5 DEF Within
  <1>6. ASSUME NEW md, NEW mf, Within(r, 1, md), Within(r, 1, mf), Dist(r.tail, md) < Dist(r.tail, mf)
        PROVE  Dist(s.tail, md) < Dist(s.tail, mf)
    BY <1>4, <1>6 DEF Within
  <1>7. 0 <= Dist(s.tail, s.head)
    BY <1>1, <1>3, <1>4
  <1>8. Window(s, h, 0)
    BY <1>5, <1>6, <1>7 DEF Window
  <1>9. \A md : Newest(r, h, 1, md) => Newest(s, h, 0, md)
    BY <1>5, <1>6 DEF Newest, Window
  <1> QED
    BY <1>8, <1>9 DEF s

LEMMA WindowEmpty ==
  ASSUME NEW r \in DataPath
  PROVE  Window(r, <<>>, 0)
PROOF
  <1>1. Dist(r.tail, r.head) \in 0 .. MdSize - 1
    BY MdAfter, DistIs
  <1> QED
    BY <1>1, MdType DEF Window

\* And for writes from the heap.
LEMMA RoundGets ==
  ASSUME NEW r \in DataPath, NEW h \in Seq(Entry), Round(r, h, 0), ~MdFull(r),
         Len(h) < NumBuffs
  PROVE  /\ Round(Enqueued(r), h, 1) /\ NextEntry(r) \in 0 .. MdSize - 1
         /\ Dist(NextEntry(r), Enqueued(r).head) = 1
PROOF
  <1> DEFINE s == Enqueued(r)
  <1>1. /\ MdSize = 2 * NumBuffs /\ NumBuffs \in Nat \ {0} /\ Len(h) \in Nat
        /\ r.head \in 0 .. MdSize - 1 /\ s.head = Fwd(r.head, 1) /\ NextEntry(r) = r.head
        /\ MdSize \in Nat /\ 1 \in 0 .. MdSize
    <2>1. MdSize = 2 * NumBuffs /\ NumBuffs \in Nat \ {0} /\ Len(h) \in Nat
      BY NumBuffsType DEF MdSize
    <2>2. r.head \in 0 .. MdSize - 1 /\ s.head = Fwd(r.head, 1) /\ NextEntry(r) = r.head
      BY MdAfter
    <2> QED
      BY <2>1, <2>2
  <1> HIDE DEF s
  <1>2. ASSUME NEW md \in 0 .. MdSize - 1, NEW n \in 0 .. NumBuffs - 1, Dist(md, r.head) <= n
        PROVE  Dist(md, s.head) = Dist(md, r.head) + 1 /\ Dist(md, r.head) \in Nat
    <2>1. /\ Dist(md, r.head) \in 0 .. MdSize - 1
          /\ Dist(md, r.head) = IF md <= r.head THEN r.head - md ELSE r.head - md + MdSize
      BY <1>1, DistIs
    <2>2. /\ Fwd(r.head, 1) \in 0 .. MdSize - 1
          /\ Fwd(r.head, 1) = IF r.head + 1 < MdSize THEN r.head + 1 ELSE r.head + 1 - MdSize
      BY <1>1, FwdIs
    <2>3. Fwd(r.head, 1) # md
      BY <1>1, <1>2, <2>1, <2>2
    <2> QED
      BY <1>1, <2>1, <2>3, DistOn
  <1>3. ASSUME NEW j \in 1 .. Len(h), Data(h[j].md)
        PROVE  /\ h[j].md \in 0 .. MdSize - 1 /\ 1 <= Dist(h[j].md, s.head)
               /\ Dist(h[j].md, s.head) <= Len(h) - j + 1 + 1
    <2>1. /\ h[j].md \in 0 .. MdSize - 1 /\ 1 <= Dist(h[j].md, r.head)
          /\ Dist(h[j].md, r.head) <= Len(h) - j + 1 + 0
      BY <1>3 DEF Round
    <2>2. Len(h) - j + 1 + 0 \in 0 .. NumBuffs - 1
      BY <1>1
    <2>3. Dist(h[j].md, s.head) = Dist(h[j].md, r.head) + 1 /\ Dist(h[j].md, r.head) \in Nat
      BY <1>2, <2>1, <2>2
    <2> QED
      BY <1>1, <2>1, <2>3
  <1>4. Dist(r.head, s.head) = 1
    <2>1. Dist(r.head, r.head) = 0
      BY <1>1, DistOn
    <2>2. 0 \in 0 .. NumBuffs - 1
      BY <1>1
    <2> QED
      BY <1>1, <1>2, <2>1, <2>2
  <1> QED
    BY <1>1, <1>3, <1>4 DEF Round, s

LEMMA RoundSent ==
  ASSUME NEW r \in DataPath, NEW h \in Seq(Entry), NEW x \in Entry,
         Data(x.md) => x.md \in 0 .. MdSize - 1 /\ Dist(x.md, r.head) = 1 /\ Round(r, h, 1),
         ~Data(x.md) => Round(r, h, 0)
  PROVE  Round(r, Append(h, x), 0)
PROOF
  <1> DEFINE g == Append(h, x)
             D(md) == Dist(md, r.head)
  <1>1. /\ Len(h) \in Nat /\ Len(g) = Len(h) + 1 /\ g[Len(h) + 1] = x
        /\ \A j \in 1 .. Len(h) : g[j] = h[j]
    OBVIOUS
  <1> HIDE DEF g
  <1>2. ASSUME NEW j \in 1 .. Len(g), Data(g[j].md)
        PROVE  g[j].md \in 0 .. MdSize - 1 /\ 1 <= D(g[j].md) /\ D(g[j].md) <= Len(g) - j + 1 + 0
    <2>1. CASE j \in 1 .. Len(h)
      <3> DEFINE md == h[j].md
      <3>1. /\ md \in 0 .. MdSize - 1 /\ 1 <= D(md)
            /\ D(md) <= Len(h) - j + 1 + 1 \/ D(md) <= Len(h) - j + 1 + 0
        BY <1>1, <1>2, <2>1 DEF Round
      <3>2. g[j].md = md /\ D(md) \in 0 .. MdSize - 1 /\ MdSize \in Nat
        BY <1>1, <2>1, <3>1, DistIs, MdAfter, MdType
      <3> QED
        BY <1>1, <2>1, <3>1, <3>2
    <2>2. CASE j = Len(h) + 1
      BY <1>1, <1>2, <2>2
    <2> QED
      BY <1>1, <2>1, <2>2
  <1> QED
    BY <1>2 DEF Round, g

LEMMA RoundBack ==
  ASSUME NEW r, NEW h \in Seq(Entry), NEW q \in {0, 1}, Round(r, h, q), Len(h) >= 1
  PROVE  Round(r, RemoveAt(h, 1), q)
PROOF
  <1> DEFINE g == RemoveAt(h, 1)
  <1>1. /\ Len(h) \in Nat /\ Len(g) = Len(h) - 1
        /\ \A j \in 1 .. Len(h) - 1 : g[j] = h[j + 1]
    BY FirstRemoved
  <1> HIDE DEF g
  <1>2. \A j \in 1 .. Len(g) : /\ j + 1 \in 1 .. Len(h) /\ g[j] = h[j + 1]
                               /\ Len(h) - (j + 1) + 1 + q = Len(g) - j + 1 + q
    BY <1>1
  <1> QED
    BY <1>2 DEF Round, g

-----------------------------------------------------------------------------
(* The phases of the threads, while nothing goes wrong. *)

LEMMA NoFormatIsRead ==
  ASSUME TypeInv, call["read"].md # Format, NEW d \in Dir,
         Begin(d) \/ CallStep(d) \/ WaitTimesOut(d)
  PROVE  call'["read"].md # Format
PROOF
  <1>1. /\ call \in [Dir -> CallRecord] /\ call[d] \in CallRecord /\ "read" \in Dir
        /\ dp[d] \in DataPath /\ NoMd # Format /\ Format \notin 0 .. NoMd
    <2>1. MdSize \in Nat /\ NoMd = MdSize /\ Format = MdSize + 1
      BY MdType
    <2>2. NoMd # Format /\ Format \notin 0 .. NoMd
      BY <2>1
    <2> QED
      BY <2>2 DEF TypeInv, Dir
  <1>2. CASE d # "read"
    BY <1>1, <1>2, CallAlone
  <1>3. ASSUME d = "read", NEW s \in Result, Ends(d, s)
        PROVE  call'["read"].md # Format
    BY <1>1, <1>3 DEF Ends, IdleCall
  <1>4. ASSUME d = "read", NEW n, call' = [call EXCEPT ![d] = [IdleCall EXCEPT !.pc = "find",
                                                                  !.md = NoMd, !.left = n]]
        PROVE  call'["read"].md # Format
    BY <1>1, <1>4 DEF IdleCall
  <1>5. CASE d = "read"
    <2>1. CASE Begin(d)
      <3>1. PICK n \in 1 .. MaxChunks :
              call' = [call EXCEPT ![d] = [IdleCall EXCEPT !.pc = "find", !.md = NoMd, !.left = n]]
        BY <1>5, <2>1 DEF Begin, HasFormats
      <3> QED
        BY <1>4, <1>5, <3>1
    <2>2. CASE Find(d) \/ FindShmem(d) \/ Copy(d) \/ WaitReturns(d) \/ WaitTimesOut(d)
      <3>1. \/ \E s \in Result : Ends(d, s)
            \/ \E pc : call' = [call EXCEPT ![d].pc = pc]
            \/ \E pc, b : call' = [call EXCEPT ![d].buf = b, ![d].pc = pc]
            \/ \E pc, t : call' = [call EXCEPT ![d].pc = pc, ![d].tries = t]
        BY <2>2, Zenon DEF Find, FindShmem, Copy, WaitReturns, WaitTimesOut, Result
      <3>2. ASSUME NEW pc, NEW b, NEW t,
                   \/ call' = [call EXCEPT ![d].pc = pc]
                   \/ call' = [call EXCEPT ![d].buf = b, ![d].pc = pc]
                   \/ call' = [call EXCEPT ![d].pc = pc, ![d].tries = t]
            PROVE  call'["read"].md # Format
        <4>1. call'["read"].md = call[d].md
          BY <1>1, <1>5, <3>2 DEF CallRecord
        <4> QED
          BY <1>5, <4>1
      <3>3. CASE \E s \in Result : Ends(d, s)
        BY <1>3, <1>5, <3>3
      <3>4. CASE ~\E s \in Result : Ends(d, s)
        BY <3>1, <3>2, <3>4, Zenon
      <3> QED
        BY <3>3, <3>4
    <2>3. CASE Enqueue(d)
      <3>1. \/ Ends(d, "ENORESOURCE")
            \/ call' = [call EXCEPT ![d].pc = "send", ![d].md = NextEntry(dp[d])]
        BY <1>5, <2>3 DEF Enqueue
      <3>2. NextEntry(dp[d]) \in 0 .. NoMd
        BY <1>1, DataPathType
      <3>3. CASE Ends(d, "ENORESOURCE")
        BY <1>3, <1>5, <3>3 DEF Result
      <3>4. CASE call' = [call EXCEPT ![d].pc = "send", ![d].md = NextEntry(dp[d])]
        <4>1. call'["read"].md = NextEntry(dp[d])
          BY <1>1, <1>5, <3>4 DEF CallRecord
        <4> QED
          BY <1>1, <3>2, <4>1
      <3> QED
        BY <3>1, <3>3, <3>4
    <2>4. CASE SendOk(d)
      <3>1. \/ Ends(d, "OK")
            \/ \E n : call' = [call EXCEPT ![d] = [IdleCall EXCEPT !.pc = "find", !.left = n,
                                                                  !.md = NoMd]]
        BY <1>5, <2>4 DEF SendOk
      <3>2. CASE Ends(d, "OK")
        BY <1>3, <1>5, <3>2 DEF Result
      <3>3. ASSUME NEW n, call' = [call EXCEPT ![d] = [IdleCall EXCEPT !.pc = "find", !.left = n,
                                                                      !.md = NoMd]]
            PROVE  call'["read"].md # Format
        BY <1>1, <1>5, <3>3 DEF IdleCall
      <3> QED
        BY <3>1, <3>2, <3>3
    <2>5. CASE SendFails(d) \/ End(d)
      <3>1. Ends(d, "EFAILED") \/ call' = [call EXCEPT ![d] = IdleCall]
        BY <2>5 DEF SendFails, End
      <3> QED
        BY <1>1, <1>3, <1>5, <3>1 DEF Result, IdleCall
    <2> QED
      BY <1>5, <2>1, <2>2, <2>3, <2>4, <2>5 DEF CallStep
  <1> QED
    BY <1>2, <1>5

\* What the steps of a thread do to the flags of a signal.
LEMMA FlagsAfter ==
  ASSUME NEW r \in DataPath
  PROVE  /\ Taken(r).flags = r.flags /\ Enqueued(r).flags = r.flags
         /\ Dequeued(r).flags = r.flags /\ Acked(r).flags = r.flags /\ Woken(r).flags = {}
         /\ MdCleared(r).flags = r.flags /\ Configured(r).flags = r.flags
         /\ \A b : MarkedAvail(r, b).flags = r.flags
  BY DEF DataPath, Taken, Enqueued, Dequeued, Acked, Woken, MdCleared, Configured, MarkedAvail

LEMMA PhasesCall ==
  ASSUME TypeInv, Phases, NEW d \in Dir, Begin(d) \/ CallStep(d) \/ WaitTimesOut(d)
  PROVE  Phases'
PROOF
  <1> DEFINE r == dp[d]
  <1>1. /\ r \in DataPath /\ dp \in [Dir -> DataPath] /\ call \in [Dir -> CallRecord]
        /\ InPhase(ctrl) /\ ctrl \in CtrlRecord
    BY DEF TypeInv
  <1>2. /\ UNCHANGED <<scenario, done, ctrl>> /\ graph'.state = graph.state
        /\ \A e \in Dir \ {d} : dp'[e] = dp[e]
    BY CallAlone
  <1>3. dp'[d].flags \subseteq r.flags
    <2>1. \/ dp' = dp
          \/ \E s \in {Taken(r), Woken(r), Dequeued(r), Enqueued(r)} : dp' = [dp EXCEPT ![d] = s]
      BY DEF CallStep, Begin, Find, FindShmem, WaitReturns, WaitTimesOut, Copy, Enqueue, SendOk,
             SendFails, End
    <2> QED
      BY <1>1, <2>1, FlagsAfter
  <1>4. \A e \in Dir : "SSR" \notin dp'[e].flags
    BY <1>2, <1>3 DEF Phases
  <1>5. ctrl.pc \notin Stopping
    <2>1. CASE Begin(d)
      BY <1>1, <2>1 DEF Begin, Refuses, Queueing, InPhase, Stopping, CtrlRecord
    <2>2. CASE CallStep(d) \/ WaitTimesOut(d)
      <3>1. call[d].pc # "idle"
        BY <2>2 DEF CallStep, Find, FindShmem, WaitReturns, WaitTimesOut, Copy, Enqueue, SendOk,
                    SendFails, End
      <3> QED
        BY <3>1 DEF Phases
    <2> QED
      BY <2>1, <2>2
  <1>6. call'["read"].md # Format
    BY NoFormatIsRead DEF Phases
  <1>7. \A e \in Dir : (Heap(e)' <=> Heap(e)) /\ (HasMd(e)' <=> HasMd(e))
    BY <1>2 DEF Heap, HasMd, Used, conf
  <1>8. ctrl.pc # "clear" /\ "read" \in Dir /\ "write" \in Dir
    BY <1>5 DEF Stopping, Dir
  <1>9. (Queueing' <=> Queueing) /\ ctrl' = ctrl /\ done' = done /\ graph'.state = graph.state
    BY <1>2 DEF Queueing
  <1> QED
    BY <1>4, <1>5, <1>6, <1>7, <1>8, <1>9 DEF Phases

LEMMA PhasesDone ==
  ASSUME TypeInv, Phases, Blameless', (\E d \in Dir : Receive(d)) \/ DoneStep \/ Ssr
  PROVE  Phases'
PROOF
  <1>1. /\ done.dir \in Dir /\ dp \in [Dir -> DataPath] /\ ctrl.dir \in Dir
        /\ \A d \in Dir : dp[d] \in DataPath
    BY DEF TypeInv, DoneRecord, CtrlRecord
  <1>2. ~Ssr
    BY DEF Ssr, Blameless
  <1>3. /\ UNCHANGED <<scenario, ctrl, graph, call>>
        /\ \E d \in Dir : \E next : /\ dp' = [dp EXCEPT ![d] = next]
                                     /\ next.flags \subseteq dp[d].flags \cup {"RSP"}
                                     /\ next.used \subseteq dp[d].used
    <2>1. CASE \E d \in Dir : Receive(d)
      <3>1. PICK d \in Dir : Receive(d)
        BY <2>1
      <3>2. PICK e : dp' = [dp EXCEPT ![d] = OnPacket(d, e)]
        BY <3>1 DEF Receive
      <3>3. OnPacket(d, e).flags = dp[d].flags /\ OnPacket(d, e).used = dp[d].used
        BY <1>1, FlagsAfter, UsedAfter DEF OnPacket, Dir
      <3> QED
        BY <3>1, <3>2, <3>3 DEF Receive
    <2>2. CASE MarkDone
      <3>1. /\ MarkedAvail(dp[done.dir], done.buf).flags = dp[done.dir].flags
            /\ MarkedAvail(dp[done.dir], done.buf).used \subseteq dp[done.dir].used
        BY <1>1, FlagsAfter, UsedAfter
      <3> QED
        BY <1>1, <2>2, <3>1 DEF MarkDone
    <2>3. CASE SignalDone
      <3>1. /\ Signalled(done.dir, {"RSP"}).flags \subseteq dp[done.dir].flags \cup {"RSP"}
            /\ Signalled(done.dir, {"RSP"}).used = dp[done.dir].used
        BY <1>1 DEF Signalled, DataPath
      <3> QED
        BY <1>1, <2>3, <3>1 DEF SignalDone, buffers
    <2>4. CASE FreeEntry
      <3>1. Dequeued(dp[done.dir]).flags = dp[done.dir].flags
            /\ Dequeued(dp[done.dir]).used = dp[done.dir].used
        BY <1>1, FlagsAfter, UsedAfter
      <3> QED
        BY <1>1, <2>4, <3>1 DEF FreeEntry, buffers
    <2> QED
      BY <1>2, <2>1, <2>2, <2>3, <2>4 DEF DoneStep
  <1>4. PICK d \in Dir : \E next : /\ dp' = [dp EXCEPT ![d] = next]
                                   /\ next.flags \subseteq dp[d].flags \cup {"RSP"}
                                   /\ next.used \subseteq dp[d].used
    BY <1>3
  <1>5. \A e \in Dir : "SSR" \notin dp'[e].flags /\ dp'[e].used \subseteq dp[e].used
    BY <1>1, <1>4 DEF Phases
  <1>6. ctrl.pc = "clear" => dp'[ctrl.dir].used = {}
    BY <1>1, <1>5 DEF Phases
  <1>7. \A e \in Dir : (Heap(e)' <=> Heap(e)) /\ (HasMd(e)' <=> HasMd(e))
    BY <1>3 DEF Heap, HasMd, Used, conf
  <1>8. done'.pc = "free" => done'.dir = "write" /\ ~Heap("write") /\ HasMd("write")
    <2>1. CASE \E e \in Dir : Receive(e)
      <3>1. PICK e \in Dir : Receive(e)
        BY <2>1
      <3>2. PICK x : done' = IF AfterPacket(e, x) = "idle" THEN IdleDone
                             ELSE [pc |-> AfterPacket(e, x), dir |-> e, buf |-> x.buff]
        BY <3>1 DEF Receive
      <3>3. AfterPacket(e, x) = "free" => e = "write" /\ ~Heap("write") /\ HasMd("write")
        BY DEF AfterPacket, Dir
      <3> QED
        BY <3>2, <3>3, Idles
    <2>2. CASE DoneStep
      <3>1. done'.pc \in {"signal", "idle"}
        BY <1>1, <2>2, Idles DEF DoneStep, MarkDone, SignalDone, FreeEntry, TypeInv, DoneRecord
      <3> QED
        BY <3>1
    <2> QED
      BY <1>2, <2>1, <2>2
  <1>9. (Queueing' <=> Queueing) /\ UNCHANGED <<ctrl, graph, call>>
    BY <1>3 DEF Queueing
  <1>10. "read" \in Dir /\ "write" \in Dir
    BY DEF Dir
  <1> QED
    BY <1>5, <1>6, <1>7, <1>8, <1>9, <1>10 DEF Phases

LEMMA PhasesCtrl ==
  ASSUME TypeInv, OwnInv, Phases, Blameless, Blameless', scenario' = scenario,
         \/ \E d \in Dir : Configure(d)
         \/ \E op \in {"stop", "flush"} : Abort(op)
         \/ CtrlStep \/ Start \/ Close \/ AbortTimesOut \/ BuffsTimeOut
  PROVE  Phases'
PROOF
  <1>1. /\ dp \in [Dir -> DataPath] /\ \A d \in Dir : dp[d] \in DataPath
        /\ graph \in GraphRecord /\ ctrl \in CtrlRecord /\ InPhase(ctrl) /\ ctrl.dir \in Dir
        /\ "read" \in Dir /\ "write" \in Dir
    BY DEF TypeInv, CtrlRecord, Dir
  <1>2. ~Down /\ gave_up = {} /\ gave_up' = {}
    BY DEF OwnInv, Blameless
  <1>3. \A d \in Dir : "SSR" \notin dp[d].flags
    BY DEF Phases
  <1>4. \A e \in Dir : (Heap(e)' <=> Heap(e)) /\ (HasMd(e)' <=> HasMd(e))
    BY DEF Heap, HasMd, Used, conf
  <1>5. done'.pc = done.pc /\ done'.dir = done.dir /\ call' = call
    BY DEF Configure, Abort, CtrlStep, Start, Close, AbortTimesOut, BuffsTimeOut, AbortCalls,
           CallEnded, Aborted, Command, Test, BuffsWake, Clear, QueueStep, QueueTake, QueueEntry,
           QueueSend, QueueLoses, QueueEnds, Deinit
  <1>6. \A d \in Dir : "SSR" \notin dp'[d].flags
    <2>1. \/ dp' = dp
          \/ dp' = [d \in Dir |-> Signalled(d, {"CLOSE"})]
          \/ \E d \in Dir : \E s \in {Woken(dp[d]), Configured(dp[d]), Taken(dp[d]),
                                      Enqueued(dp[d])} : dp' = [dp EXCEPT ![d] = s]
          \/ \E d \in Dir : \E n \in AvailLen(dp[d]) : dp' = [dp EXCEPT ![d] = Passed(d, n)]
      BY <1>1
         DEF Configure, Abort, CtrlStep, Start, Close, AbortTimesOut, BuffsTimeOut, AbortCalls,
             CallEnded, Aborted, Command, Test, BuffsWake, Clear, QueueStep, QueueTake,
             QueueEntry, QueueSend, QueueLoses, QueueEnds, Deinit, buffers
    <2>2. \A d \in Dir : \A n : Passed(d, n).flags = dp[d].flags
      BY <1>1 DEF Passed, MdCleared, DataPath
    <2>3. \A d \in Dir : Signalled(d, {"CLOSE"}).flags \subseteq dp[d].flags \cup {"CLOSE"}
      BY <1>1 DEF Signalled, DataPath
    <2> QED
      BY <1>1, <1>3, <2>1, <2>2, <2>3, FlagsAfter
  \* It is enough to look at the thread itself and at what it has found.
  <1> DEFINE Found == ctrl'.pc = "clear" => dp'[ctrl'.dir].used = {}
             Alone == ctrl'.pc \in Stopping => \A d \in Dir : call[d].pc = "idle"
             Loop == /\ ctrl'.pc \notin {"queue", "enqueue", "send"} => ctrl'.turn = 0
                     /\ ctrl'.pc \in {"enqueue", "send"} => Heap("read")
             Op ==
               /\ ctrl'.op = "start" => graph'.state \in {"OPENED", "STOPPED"}
               /\ ctrl'.op \in {"stop", "flush"} /\ ctrl'.pc \in {"abort", "trans", "command"} =>
                    ctrl'.dir = "read" /\ graph'.state = "STARTED"
               /\ ctrl'.op = "flush" => graph'.state = "STARTED" /\ ctrl'.pc # "deinit"
               /\ ctrl'.op = "flush" /\ ctrl'.pc \in {"queue", "enqueue", "send"} =>
                    ctrl'.dir = "write"
               /\ ctrl'.op = "stop" => ctrl'.pc \notin {"queue", "enqueue", "send", "deinit"}
               /\ ctrl'.op = "stop" /\ ctrl'.pc \notin {"abort", "trans", "command"} =>
                    graph'.state = "STOPPED"
               /\ ctrl'.op = "close" => /\ graph'.state \in {"OPENED", "STOPPED"}
                                        /\ ctrl'.pc \in {"test", "asleep", "clear", "deinit"}
  <1>7. ASSUME Found, Alone, Loop, Op
        PROVE  Phases'
    <2>1. \A d \in Dir : call'[d].pc = "idle" \/ call'[d].pc = call[d].pc
      BY <1>5
    <2>2. ctrl'.pc \in Stopping => \A d \in Dir : call'[d].pc = "idle"
      BY <1>5, <1>7
    <2>3. done'.pc = "free" => done'.dir = "write" /\ ~Heap("write")' /\ HasMd("write")'
      BY <1>1, <1>4, <1>5 DEF Phases
    <2>4. call'["read"].md # Format
      BY <1>5 DEF Phases
    <2>5. (ctrl'.pc \in {"enqueue", "send"} => Heap("read")') /\ (~Queueing' => ctrl'.turn = 0)
      BY <1>1, <1>4, <1>7 DEF Queueing
    <2>6. dp'[ctrl'.dir].used = dp[ctrl.dir]'.used
      OBVIOUS
    <2> QED
      BY <1>6, <1>7, <2>2, <2>3, <2>4, <2>5 DEF Phases, Queueing
  <1>8. CASE \/ \E d \in Dir : Configure(d)
    <2>1. PICK d \in Dir : Configure(d)
      BY <1>8
    <2>2. dp' = [dp EXCEPT ![d] = Configured(@)] /\ UNCHANGED <<ctrl, graph>> /\ ctrl.op = "none"
      BY <2>1 DEF Configure, Idle
    <2>3. ctrl.pc = "idle"
      BY <1>1, <2>2 DEF InPhase
    <2> QED
      BY <1>7, <2>2, <2>3 DEF Phases, Queueing, Stopping
  <1>9. CASE \E op \in {"stop", "flush"} : Abort(op)
    <2>1. PICK op \in {"stop", "flush"} : Abort(op)
      BY <1>9
    <2>2. /\ graph.state = "STARTED" /\ graph' = graph
          /\ ctrl' = [IdleCtrl EXCEPT !.op = op, !.pc = "abort"]
      BY <1>2, <2>1 DEF Abort
    <2>3. ctrl'.op = op /\ ctrl'.pc = "abort" /\ ctrl'.dir = "read" /\ ctrl'.turn = 0
      BY <2>2 DEF IdleCtrl
    <2> QED
      BY <1>7, <2>2, <2>3 DEF Stopping
  <1>10. CASE Start
    <2>1. /\ graph.state \in {"OPENED", "STOPPED"} /\ graph' = graph
          /\ ctrl' = [IdleCtrl EXCEPT !.op = "start", !.pc = "queue"]
      BY <1>10 DEF Start
    <2>2. ctrl'.op = "start" /\ ctrl'.pc = "queue"
      BY <2>1 DEF IdleCtrl
    <2> QED
      BY <1>7, <2>1, <2>2 DEF Stopping
  <1>11. CASE Close
    <2>1. /\ graph.state \in {"OPENED", "STOPPED"} /\ graph' = graph
          /\ ctrl' = [IdleCtrl EXCEPT !.op = "close", !.pc = "test"]
          /\ \A d \in Dir : call[d].pc = "idle"
      BY <1>1, <1>2, <1>11 DEF Close, Idle, Closed, Down, GraphRecord
    <2>2. ctrl'.op = "close" /\ ctrl'.pc = "test" /\ ctrl'.turn = 0
      BY <2>1 DEF IdleCtrl
    <2> QED
      BY <1>7, <2>1, <2>2 DEF Stopping
  <1>12. CASE AbortCalls \/ CallEnded \/ Aborted
    <2>1. /\ ctrl.pc \in {"abort", "trans"} /\ graph'.state = graph.state
          /\ \E pc \in {"abort", "trans", "command"} :
               /\ ctrl' = [ctrl EXCEPT !.pc = pc]
               /\ pc = "command" => \A d \in Dir : call[d].pc = "idle"
      BY <1>1, <1>12 DEF AbortCalls, CallEnded, Aborted, Goto, GraphRecord
    <2>2. PICK pc \in {"abort", "trans", "command"} :
            /\ ctrl'.pc = pc /\ ctrl'.op = ctrl.op /\ ctrl'.dir = ctrl.dir /\ ctrl'.turn = ctrl.turn
            /\ pc = "command" => \A d \in Dir : call[d].pc = "idle"
      BY <1>1, <2>1 DEF CtrlRecord
    <2>3. ctrl.turn = 0
      BY <2>1 DEF Phases, Queueing
    <2>4. ctrl.op \in {"stop", "flush"}
      BY <1>1, <2>1 DEF Phases, InPhase, CtrlRecord
    <2>5. ctrl.dir = "read" /\ graph.state = "STARTED"
      BY <2>1, <2>4 DEF Phases
    <2> QED
      BY <1>7, <2>1, <2>2, <2>3, <2>4, <2>5 DEF Stopping
  <1>13. CASE Command
    <2>1. /\ ctrl.pc = "command" /\ ctrl' = [ctrl EXCEPT !.pc = "test"]
          /\ graph' = IF ctrl.op = "stop" THEN [graph EXCEPT !.state = "STOPPED"] ELSE graph
      BY <1>2, <1>13 DEF Command, Goto
    <2>2. /\ ctrl'.pc = "test" /\ ctrl'.op = ctrl.op /\ ctrl'.turn = ctrl.turn
          /\ ctrl'.dir = ctrl.dir
      BY <1>1, <2>1 DEF CtrlRecord
    <2>3. graph'.state = IF ctrl.op = "stop" THEN "STOPPED" ELSE graph.state
      BY <1>1, <2>1 DEF GraphRecord
    <2>4. /\ \A d \in Dir : call[d].pc = "idle"
          /\ ctrl.turn = 0 /\ ctrl.op \in {"stop", "flush"} /\ graph.state = "STARTED"
      <3>1. ctrl.turn = 0 /\ \A d \in Dir : call[d].pc = "idle"
        BY <2>1 DEF Phases, Queueing, Stopping
      <3>2. ctrl.op \in {"stop", "flush"}
        BY <1>1, <2>1 DEF Phases, InPhase, CtrlRecord
      <3> QED
        BY <2>1, <3>1, <3>2 DEF Phases
    <2> QED
      BY <1>7, <2>2, <2>3, <2>4 DEF Stopping
  <1>14. CASE Test \/ BuffsWake
    <2>1. /\ ctrl.pc \in {"test", "asleep"} /\ graph' = graph
          /\ \E pc \in {"test", "asleep", "clear"} :
               /\ ctrl' = [ctrl EXCEPT !.pc = pc]
               /\ pc = "clear" => dp[ctrl.dir].used = {} /\ dp' = dp
      BY <1>1, <1>3, <1>14 DEF Test, BuffsWake, Goto
    <2>2. PICK pc \in {"test", "asleep", "clear"} :
            /\ ctrl'.pc = pc /\ ctrl'.op = ctrl.op /\ ctrl'.dir = ctrl.dir /\ ctrl'.turn = ctrl.turn
            /\ pc = "clear" => dp[ctrl.dir].used = {} /\ dp' = dp
      BY <1>1, <2>1 DEF CtrlRecord
    <2>3. ctrl.turn = 0 /\ \A d \in Dir : call[d].pc = "idle"
      BY <2>1 DEF Phases, Queueing, Stopping
    <2>4. /\ ctrl.op # "start"
          /\ ctrl.op = "flush" => graph.state = "STARTED"
          /\ ctrl.op = "stop" => graph.state = "STOPPED"
          /\ ctrl.op = "close" => graph.state \in {"OPENED", "STOPPED"}
      BY <1>1, <2>1 DEF Phases, InPhase
    <2> QED
      BY <1>7, <2>1, <2>2, <2>3, <2>4 DEF Stopping
  <1>15. CASE Clear
    <2>1. ctrl.pc = "clear" /\ ctrl' = AfterClear /\ graph' = graph
      BY <1>15 DEF Clear
    <2>2. ctrl.turn = 0 /\ \A d \in Dir : call[d].pc = "idle"
      BY <2>1 DEF Phases, Queueing, Stopping
    <2>3. ctrl.op \in {"stop", "flush", "close"} /\ ctrl.dir \in {"read", "write"}
      BY <1>1, <2>1 DEF InPhase, CtrlRecord, Dir
    <2>4. /\ ctrl.op = "flush" => graph.state = "STARTED"
          /\ ctrl.op = "stop" => graph.state = "STOPPED"
          /\ ctrl.op = "close" => graph.state \in {"OPENED", "STOPPED"}
      BY <2>1 DEF Phases
    <2>5. /\ \/ ctrl'.pc = "test" /\ ctrl'.op = ctrl.op
             \/ ctrl'.op = "none" /\ ctrl'.pc = "idle"
             \/ ctrl'.op = "flush" /\ ctrl.op = "flush" /\ ctrl'.pc = "queue" /\ ctrl'.dir = "write"
             \/ ctrl'.op = "close" /\ ctrl.op = "close" /\ ctrl'.pc = "deinit"
          /\ ctrl'.turn = 0
      BY <1>1, <2>1, <2>2, <2>3 DEF AfterClear, CtrlRecord, IdleCtrl
    <2> QED
      BY <1>7, <2>1, <2>2, <2>3, <2>4, <2>5 DEF Stopping
  <1>16. CASE QueueStep
    <2>1. CASE QueueEnds
      <3>1. ctrl' = IdleCtrl
        BY <2>1 DEF QueueEnds
      <3>2. ctrl'.pc = "idle" /\ ctrl'.op = "none" /\ ctrl'.turn = 0
        BY <3>1 DEF IdleCtrl
      <3> QED
        BY <1>7, <3>2 DEF Stopping
    <2>2. CASE QueueTake \/ QueueEntry \/ QueueSend \/ QueueLoses
      <3>1. /\ graph' = graph /\ ctrl.pc \in {"queue", "enqueue", "send"}
            /\ ctrl'.pc \in {"queue", "enqueue", "send"}
            /\ ctrl'.op = ctrl.op /\ ctrl'.dir = ctrl.dir
            /\ ctrl'.pc \in {"enqueue", "send"} => Heap("read")
        <4>1. CASE QueueTake
          BY <1>1, <4>1 DEF QueueTake, CtrlRecord
        <4>2. CASE QueueEntry
          <5>1. Heap("read")
            BY <4>2 DEF QueueEntry, Phases
          <5> QED
            BY <1>1, <4>2, <5>1 DEF QueueEntry, CtrlRecord
        <4>3. CASE QueueSend \/ QueueLoses
          BY <1>1, <4>3 DEF QueueSend, QueueLoses, NextTurn, CtrlRecord
        <4> QED
          BY <2>2, <4>1, <4>2, <4>3
      <3>2. ctrl.op \in {"start", "flush"}
        BY <1>1, <3>1 DEF Phases, InPhase, Queueing, CtrlRecord
      <3>3. /\ ctrl.op = "flush" => graph.state = "STARTED" /\ ctrl.dir = "write"
            /\ ctrl.op = "start" => graph.state \in {"OPENED", "STOPPED"}
        BY <3>1 DEF Phases, Queueing
      <3> QED
        BY <1>7, <3>1, <3>2, <3>3 DEF Stopping
    <2> QED
      BY <1>16, <2>1, <2>2 DEF QueueStep
  <1>17. CASE Deinit
    <2>1. ctrl'.op = "none" /\ ctrl'.pc = "idle" /\ ctrl'.turn = 0
      BY <1>17 DEF Deinit, IdleCtrl
    <2> QED
      BY <1>7, <2>1 DEF Stopping
  <1>18. ~AbortTimesOut /\ ~BuffsTimeOut
    BY <1>2 DEF AbortTimesOut, BuffsTimeOut
  <1> QED
    BY <1>8, <1>9, <1>10, <1>11, <1>12, <1>13, <1>14, <1>15, <1>16, <1>17, <1>18
       DEF CtrlStep

LEMMA PhasesNext ==
  ASSUME TypeInv, OwnInv, Phases, Blameless, Blameless', Next
  PROVE  Phases'
  BY ScenarioFixed, PhasesCall, PhasesDone, PhasesCtrl DEF Next

-----------------------------------------------------------------------------
(* What a step does to the entries of a direction, while nothing goes wrong. *)

Still(r, s) ==
  /\ s.curr = r.curr /\ s.head = r.head /\ s.tail = r.tail /\ s.acked = r.acked
  /\ s.used \subseteq r.used

\* Nothing that its metadata is about is touched ...
Quiet(d) ==
  /\ Still(dp[d], dp'[d]) /\ held'[d] = held[d] /\ (d = "read" => slot' = slot)
  /\ call'[d] = call[d] \/ (call[d].pc \notin Moving /\ call'[d].pc \notin Moving)
  /\ d = "write" => (done'.pc = "free" <=> done.pc = "free")

\* ... or the client's thread, GPR's, or the loop moves a buffer or an entry, ...
Moves(d) ==
  \/ Find(d) /\ IsAvail(dp[d])
  \/ FindShmem(d) \/ Copy(d) \/ Enqueue(d) \/ SendOk(d) \/ Receive(d)
  \/ d = "write" /\ FreeEntry
  \/ d = "read" /\ (QueueTake \/ QueueEntry \/ QueueSend)

\* ... or the ring is cleared.
Emptied(d) == Configure(d) \/ (Clear /\ ctrl.dir = d)

\* Signals and marks leave the entries alone.
LEMMA StillAfter ==
  ASSUME TypeInv, NEW d \in Dir
  PROVE  /\ Still(dp[d], dp[d]) /\ Still(dp[d], Woken(dp[d]))
         /\ \A b : Still(dp[d], MarkedAvail(dp[d], b))
         /\ \A f : Still(dp[d], Signalled(d, f))
PROOF
  <1>1. dp[d] \in DataPath
    BY DEF TypeInv
  <1> QED
    BY <1>1 DEF DataPath, Still, Woken, MarkedAvail, Signalled

LEMMA CallMoves ==
  ASSUME TypeInv, OwnInv, Blameless, Blameless', NEW e \in Dir,
         Begin(e) \/ CallStep(e) \/ WaitTimesOut(e), NEW d \in Dir
  PROVE  Quiet(d) \/ Moves(d)
PROOF
  <1>1. /\ call \in [Dir -> CallRecord] /\ call[d] \in CallRecord /\ dp \in [Dir -> DataPath]
        /\ "read" \in Dir
    BY DEF TypeInv, Dir
  <1>2. ~Down /\ gave_up = {} /\ gave_up' = {}
    BY DEF OwnInv, Blameless
  <1>3. done' = done /\ \A f \in Dir \ {e} : /\ dp'[f] = dp[f] /\ held'[f] = held[f]
                                             /\ call'[f] = call[f]
    BY CallAlone
  <1>4. ~SendFails(e)
    BY <1>2 DEF SendFails
  <1>5. Still(dp[d], dp[d]) /\ Still(dp[d], Woken(dp[d]))
    BY StillAfter
  <1>6. CASE d # e
    <2>1. d = "read" => slot' = slot
      BY <1>4, <1>6
         DEF CallStep, Begin, Find, FindShmem, WaitReturns, WaitTimesOut, Copy, Enqueue, SendOk,
             End, buffers
    <2> QED
      BY <1>3, <1>5, <1>6, <2>1 DEF Quiet
  <1>7. CASE d = e
    <2>1. CASE Begin(d) \/ End(d) \/ WaitTimesOut(d) \/ WaitReturns(d)
      <3>1. UNCHANGED buffers /\ (dp' = dp \/ dp' = [dp EXCEPT ![d] = Woken(@)])
        BY <2>1 DEF Begin, End, WaitTimesOut, WaitReturns
      <3>2. call[d].pc \notin Moving
        BY <2>1 DEF Begin, End, WaitTimesOut, WaitReturns, Moving
      <3>3. ASSUME NEW n, NEW md, call' = [call EXCEPT ![d] = [IdleCall EXCEPT !.pc = "find",
                                                                 !.md = md, !.left = n]]
            PROVE  call'[d].pc = "find"
        BY <1>1, <3>3 DEF IdleCall
      <3>4. ASSUME Begin(d)
            PROVE  call'[d].pc = "find"
        <4>1. \E n, md : call' = [call EXCEPT ![d] = [IdleCall EXCEPT !.pc = "find",
                                                       !.md = md, !.left = n]]
          BY <3>4, Zenon DEF Begin
        <4> QED
          BY <3>3, <4>1, Zenon
      <3>5. ASSUME End(d)
            PROVE  call'[d].pc = "idle"
        BY <1>1, <3>5, Idles DEF End
      <3>6. ASSUME WaitTimesOut(d) \/ WaitReturns(d)
            PROVE  call'[d].pc \in {"find", "end"}
        <4>1. \/ \E s \in Result : Ends(d, s)
              \/ call' = [call EXCEPT ![d].pc = "find", ![d].tries = @ + 1]
          BY <3>6, Zenon DEF WaitTimesOut, WaitReturns, Result
        <4>2. CASE \E s \in Result : Ends(d, s)
          BY <4>2, EndsType
        <4>3. CASE call' = [call EXCEPT ![d].pc = "find", ![d].tries = @ + 1]
          BY <1>1, <4>3 DEF CallRecord
        <4> QED
          BY <4>1, <4>2, <4>3
      <3>7. call'[d].pc \notin Moving
        <4>1. call'[d].pc \in {"find", "idle", "end"}
          BY <2>1, <3>4, <3>5, <3>6
        <4> QED
          BY <4>1 DEF Moving
      <3>8. Still(dp[d], dp'[d])
        BY <1>1, <1>5, <3>1
      <3> QED
        BY <1>3, <3>1, <3>2, <3>7, <3>8 DEF Quiet, buffers
    <2>2. CASE Find(d) /\ ~IsAvail(dp[d])
      <3>1. /\ UNCHANGED <<dp, buffers>> /\ call[d].pc = "find"
            /\ call' = [call EXCEPT ![d].pc = "wait"] \/ Ends(d, "ENORESOURCE")
        BY <2>2 DEF Find
      <3>2. call'[d].pc \in {"wait", "end"}
        <4>1. CASE Ends(d, "ENORESOURCE")
          BY <4>1, EndsType DEF Result
        <4>2. CASE call' = [call EXCEPT ![d].pc = "wait"]
          BY <1>1, <4>2 DEF CallRecord
        <4> QED
          BY <3>1, <4>1, <4>2
      <3> QED
        BY <1>3, <1>5, <3>1, <3>2 DEF Quiet, Moving, buffers
    <2> QED
      BY <1>4, <1>7, <2>1, <2>2 DEF CallStep, Moves
  <1> QED
    BY <1>6, <1>7

LEMMA OtherMoves ==
  ASSUME TypeInv, OwnInv, Phases, Blameless, Blameless', NEW d \in Dir,
         \/ \E e \in Dir : Receive(e) \/ Configure(e)
         \/ \E op \in {"stop", "flush"} : Abort(op)
         \/ DoneStep \/ CtrlStep \/ Start \/ Close \/ Ssr \/ AbortTimesOut \/ BuffsTimeOut
  PROVE  Quiet(d) \/ Moves(d) \/ Emptied(d)
PROOF
  <1>1. /\ dp \in [Dir -> DataPath] /\ DOMAIN held = Dir /\ ctrl.dir \in Dir /\ done.dir \in Dir
        /\ "read" \in Dir /\ "write" \in Dir
    BY DEF TypeInv, CtrlRecord, DoneRecord, Dir
  <1>2. ~Down /\ gave_up = {} /\ gave_up' = {}
    BY DEF OwnInv, Blameless
  <1>3. ~Ssr /\ ~AbortTimesOut /\ ~BuffsTimeOut /\ ~QueueLoses
    BY <1>2 DEF Ssr, AbortTimesOut, BuffsTimeOut, QueueLoses
  <1>4. /\ Still(dp[d], dp[d]) /\ Still(dp[d], Woken(dp[d]))
        /\ \A b : Still(dp[d], MarkedAvail(dp[d], b))
        /\ \A f : Still(dp[d], Signalled(d, f))
    BY StillAfter
  <1>5. CASE \E e \in Dir : Receive(e)
    <2>1. PICK e \in Dir : Receive(e)
      BY <1>5
    <2>2. CASE e = d
      BY <2>1, <2>2 DEF Moves
    <2>3. CASE e # d
      <3>1. PICK i : /\ done.pc = "idle"
                     /\ dp' = [dp EXCEPT ![e] = OnPacket(e, held[e][i])]
                     /\ held' = [held EXCEPT ![e] = RemoveAt(@, i)]
                     /\ done' = IF AfterPacket(e, held[e][i]) = "idle" THEN IdleDone
                                ELSE [pc |-> AfterPacket(e, held[e][i]), dir |-> e,
                                      buf |-> held[e][i].buff]
                     /\ UNCHANGED <<slot, call>>
        BY <2>1 DEF Receive
      <3>2. dp'[d] = dp[d] /\ held'[d] = held[d]
        BY <1>1, <2>3, <3>1
      <3>3. ASSUME d = "write"
            PROVE  done'.pc # "free"
        <4>1. AfterPacket(e, held[e][i]) # "free"
          BY <2>3, <3>3 DEF AfterPacket, Dir
        <4> QED
          BY <3>1, <4>1, Idles
      <3> QED
        BY <1>4, <3>1, <3>2, <3>3 DEF Quiet
    <2> QED
      BY <2>2, <2>3
  <1>6. CASE \E e \in Dir : Configure(e)
    <2>1. PICK e \in Dir : Configure(e)
      BY <1>6
    <2>2. CASE e # d
      BY <1>1, <1>4, <2>1, <2>2 DEF Configure, Quiet, buffers
    <2> QED
      BY <2>1, <2>2 DEF Emptied
  <1>7. CASE DoneStep
    <2>1. CASE MarkDone \/ SignalDone
      <3>1. UNCHANGED <<held, slot, call>> /\ done.pc # "free"
        BY <2>1 DEF MarkDone, SignalDone, buffers
      <3>2. done'.pc # "free"
        BY <2>1, Idles DEF MarkDone, SignalDone, TypeInv, DoneRecord
      <3>3. Still(dp[d], dp'[d])
        BY <1>1, <1>4, <2>1 DEF MarkDone, SignalDone
      <3> QED
        BY <3>1, <3>2, <3>3 DEF Quiet
    <2>2. CASE FreeEntry
      <3>1. done.dir = "write"
        BY <2>2 DEF FreeEntry, Phases
      <3>2. CASE d # "write"
        BY <1>1, <1>4, <2>2, <3>1, <3>2 DEF FreeEntry, Quiet, buffers
      <3> QED
        BY <2>2, <3>2 DEF Moves
    <2> QED
      BY <1>7, <2>1, <2>2 DEF DoneStep
  <1>8. CASE Clear
    <2>1. CASE ctrl.dir # d
      BY <1>1, <1>4, <1>8, <2>1 DEF Clear, Quiet
    <2> QED
      BY <1>8, <2>1 DEF Emptied
  <1>9. CASE QueueTake \/ QueueEntry \/ QueueSend
    <2>1. CASE d # "read"
      BY <1>1, <1>4, <1>9, <2>1 DEF QueueTake, QueueEntry, QueueSend, Quiet, buffers
    <2> QED
      BY <1>9, <2>1 DEF Moves
  <1>10. CASE \/ \E op \in {"stop", "flush"} : Abort(op)
              \/ AbortCalls \/ CallEnded \/ Aborted \/ Command \/ Test \/ BuffsWake
              \/ QueueEnds \/ Deinit \/ Close \/ Start
    <2>1. /\ UNCHANGED <<held, slot, call, done>>
          /\ \/ dp' = dp
             \/ dp' = [e \in Dir |-> Signalled(e, {"CLOSE"})]
             \/ dp' = [dp EXCEPT ![ctrl.dir] = Woken(@)]
      BY <1>10
         DEF Abort, AbortCalls, CallEnded, Aborted, Command, Test, BuffsWake, QueueEnds, Deinit,
             Close, Start, buffers
    <2>2. Still(dp[d], dp'[d])
      <3>1. CASE dp' = [dp EXCEPT ![ctrl.dir] = Woken(@)]
        BY <1>1, <1>4, <3>1
      <3> QED
        BY <1>4, <2>1, <3>1
    <2> QED
      BY <2>1, <2>2 DEF Quiet
  <1> QED
    BY <1>3, <1>5, <1>6, <1>7, <1>8, <1>9, <1>10 DEF CtrlStep, QueueStep

\* Every step is one of these.
LEMMA MdSteps ==
  ASSUME TypeInv, OwnInv, Phases, Blameless, Blameless', Next, NEW d \in Dir
  PROVE  Quiet(d) \/ Moves(d) \/ Emptied(d)
  BY CallMoves, OtherMoves DEF Next

\* The steps that move a buffer or an entry, as a direction sees them.
LEMMA SentIs ==
  ASSUME TypeInv, NEW d \in Dir, SendOk(d)
  PROVE  call'[d].pc \in {"end", "find"}
PROOF
  <1>1. call \in [Dir -> CallRecord]
    BY DEF TypeInv
  <1>2. \/ Ends(d, "OK")
        \/ \E l, md : call' = [call EXCEPT ![d] = [IdleCall EXCEPT !.pc = "find",
                                                   !.left = l, !.md = md]]
    BY Zenon DEF SendOk
  <1>3. ASSUME NEW l, NEW md,
               call' = [call EXCEPT ![d] = [IdleCall EXCEPT !.pc = "find", !.left = l, !.md = md]]
        PROVE  call'[d].pc = "find"
    BY <1>1, <1>3 DEF IdleCall
  <1>4. CASE Ends(d, "OK")
    BY <1>4, EndsType DEF Result
  <1>5. CASE ~Ends(d, "OK")
    <2>1. call'[d].pc = "find"
      BY <1>2, <1>3, <1>5, Zenon
    <2> QED
      BY <2>1
  <1> QED
    BY <1>4, <1>5

LEMMA EntryIs ==
  ASSUME TypeInv, NEW d \in Dir, Enqueue(d)
  PROVE  /\ call[d].pc = "enqueue" /\ dp'[d] = Enqueued(dp[d]) /\ held'[d] = held[d]
         /\ UNCHANGED <<slot, done>>
         /\ MdFull(dp[d]) => dp'[d] = dp[d]
         /\ \/ MdFull(dp[d]) /\ ~(Heap(d) /\ d = "read") /\ call'[d].pc = "end"
            \/ /\ ~MdFull(dp[d]) \/ (Heap(d) /\ d = "read")
               /\ call'[d].pc = "send" /\ call'[d].buf = call[d].buf
               /\ call'[d].md = IF call[d].md = Format THEN Format ELSE NextEntry(dp[d])
PROOF
  <1>1. dp \in [Dir -> DataPath] /\ call \in [Dir -> CallRecord]
    BY DEF TypeInv
  <1>2. /\ call[d].pc = "enqueue" /\ dp'[d] = Enqueued(dp[d])
        /\ UNCHANGED <<held, slot, done>>
    BY <1>1 DEF Enqueue, buffers
  <1>3. MdFull(dp[d]) => dp'[d] = dp[d]
    BY <1>2 DEF Enqueued
  <1>4. CASE MdFull(dp[d]) /\ ~(Heap(d) /\ d = "read")
    <2>1. Ends(d, "ENORESOURCE")
      BY <1>4 DEF Enqueue
    <2>2. call'[d].pc = "end"
      BY <2>1, EndsType DEF Result
    <2> QED
      BY <1>2, <1>3, <1>4, <2>2
  <1>5. CASE ~(MdFull(dp[d]) /\ ~(Heap(d) /\ d = "read"))
    <2>1. call' = [call EXCEPT ![d].pc = "send",
                               ![d].md = IF @ = Format THEN @ ELSE NextEntry(dp[d])]
      BY <1>5 DEF Enqueue
    <2>2. /\ call'[d].pc = "send" /\ call'[d].buf = call[d].buf
          /\ call'[d].md = IF call[d].md = Format THEN Format ELSE NextEntry(dp[d])
      BY <1>1, <2>1 DEF CallRecord
    <2> QED
      BY <1>2, <1>3, <1>5, <2>2
  <1> QED
    BY <1>4, <1>5

LEMMA ReceivedIs ==
  ASSUME TypeInv, Blameless, NEW d \in Dir, Receive(d)
  PROVE  /\ Len(held[d]) >= 1 /\ dp'[d] = OnPacket(d, held[d][1])
         /\ held'[d] = RemoveAt(held[d], 1) /\ UNCHANGED <<slot, call, ctrl, graph>>
         /\ done.pc = "idle"
         /\ done'.pc = AfterPacket(d, held[d][1])
PROOF
  <1>1. dp \in [Dir -> DataPath] /\ DOMAIN held = Dir /\ held[d] \in Seq(Entry)
    BY DEF TypeInv
  <1>2. PICK i \in 1 .. Len(held[d]) :
          /\ i = 1 \/ "REORDER" \in Faults
          /\ dp' = [dp EXCEPT ![d] = OnPacket(d, held[d][i])]
          /\ held' = [held EXCEPT ![d] = RemoveAt(@, i)]
          /\ done' = IF AfterPacket(d, held[d][i]) = "idle" THEN IdleDone
                     ELSE [pc |-> AfterPacket(d, held[d][i]), dir |-> d,
                           buf |-> held[d][i].buff]
          /\ done.pc = "idle" /\ UNCHANGED <<slot, call, ctrl, graph>>
    BY DEF Receive
  <1>3. i = 1 /\ Len(held[d]) >= 1
    BY <1>1, <1>2 DEF Blameless
  <1>4. done'.pc = AfterPacket(d, held[d][1])
    BY <1>2, <1>3, Idles
  <1> QED
    BY <1>1, <1>2, <1>3, <1>4

LEMMA EmptiedIs ==
  ASSUME TypeInv, Phases, Blameless, Blameless', NEW d \in Dir, Emptied(d)
  PROVE  /\ dp'[d].head = 0 /\ dp'[d].tail = 0 /\ held[d] = <<>> /\ held'[d] = <<>>
         /\ call[d].pc = "idle" /\ UNCHANGED <<call, done>>
         /\ d = "write" => done.pc # "free"
PROOF
  <1>1. dp \in [Dir -> DataPath] /\ dp[d] \in DataPath
    BY DEF TypeInv
  <1>2. gave_up = {} /\ gave_up' = {}
    BY DEF Blameless
  <1>3. CASE Configure(d)
    <2>1. LET s == Configured(dp[d]) IN s.head = 0 /\ s.tail = 0
      BY <1>1 DEF Configured, DataPath
    <2>2. /\ ~Forgets(d) /\ call[d].pc = "idle" /\ dp'[d] = Configured(dp[d])
          /\ UNCHANGED <<held, call, done>>
      BY <1>1, <1>2, <1>3 DEF Configure, buffers
    <2> QED
      BY <2>1, <2>2 DEF Forgets, Phases
  <1>4. CASE Clear /\ ctrl.dir = d
    <2>1. PICK n : dp'[d] = Passed(d, n)
      BY <1>1, <1>4 DEF Clear
    <2>2. LET s == Passed(d, n) IN s.head = 0 /\ s.tail = 0
      BY <1>1 DEF Passed, MdCleared, DataPath
    <2>3. ~Forgets(d) /\ ctrl.pc = "clear" /\ UNCHANGED <<held, call, done>>
      BY <1>2, <1>4 DEF Clear
    <2> QED
      BY <2>1, <2>2, <2>3 DEF Forgets, Phases, Stopping
  <1> QED
    BY <1>3, <1>4 DEF Emptied

\* What SPF holds, and one buffer more that it does not, are no more than all buffers.
LEMMA HeldFits ==
  ASSUME NEW s \in Seq(Entry), Once(s)
  PROVE  /\ Len(s) <= NumBuffs
         /\ \A b \in Buff : b \notin BuffsOf(s) => Len(s) < NumBuffs
PROOF
  <1>1. IsFiniteSet(Buff) /\ Cardinality(Buff) = NumBuffs
    <2>1. 0 \in Int /\ NumBuffs - 1 \in Int /\ ~(0 > NumBuffs - 1)
      BY NumBuffsType
    <2> QED
      BY <2>1, NumBuffsType, FS_Interval DEF Buff
  <1>2. ASSUME NEW t \in Seq(Entry), Once(t)
        PROVE  Len(t) <= NumBuffs
    <2>1. \A i \in 1 .. Len(t) : t[i] \in Entry
      OBVIOUS
    <2>2. BuffsOf(t) \subseteq Buff
      BY <2>1, BuffsHave DEF Entry
    <2>3. Cardinality(BuffsOf(t)) <= Cardinality(Buff)
      BY <1>1, <2>2, FS_Subset
    <2> QED
      BY <1>1, <1>2, <2>3, OnceCounts
  <1>3. ASSUME NEW b \in Buff, b \notin BuffsOf(s)
        PROVE  Len(s) < NumBuffs
    <2>1. PICK x \in Entry : x.buff = b
      <3>1. [buff |-> b, md |-> Format] \in Entry
        BY MdType DEF Entry
      <3> QED
        BY <3>1
    <2>2. Once(Append(s, x))
      BY <1>3, <2>1, BuffsAppend
    <2>3. Append(s, x) \in Seq(Entry) /\ Len(Append(s, x)) = Len(s) + 1 /\ Len(s) \in Nat
      OBVIOUS
    <2>4. Len(s) + 1 <= NumBuffs
      BY <1>2, <2>2, <2>3
    <2> QED
      BY <2>3, <2>4, NumBuffsType
  <1> QED
    BY <1>2, <1>3

-----------------------------------------------------------------------------
(* Reading into the heap. *)

\* The loop is under way, or not, and the buffers are with SPF, or not, before and after.
LEMMA ReadPhases ==
  ASSUME TypeInv, OwnInv, Phases, Blameless, Blameless', Next
  PROVE  \/ Queueing /\ ctrl' = ctrl
         \/ ~Queueing /\ ~Queueing' /\ (Filling' <=> Filling)
         \/ ~Queueing /\ ~Filling /\ ctrl'.pc = "queue" /\ ctrl'.turn = 0
         \/ QueueStep
         \/ Clear /\ ctrl.dir = "read"
PROOF
  <1>1. /\ graph \in GraphRecord /\ ctrl \in CtrlRecord /\ InPhase(ctrl)
        /\ ctrl.op = "none" => ctrl.pc = "idle"
    BY DEF TypeInv, InPhase
  <1>2. ~Down /\ gave_up = {} /\ gave_up' = {}
    BY DEF OwnInv, Blameless
  <1>3. ~Ssr /\ ~AbortTimesOut /\ ~BuffsTimeOut
    BY <1>2 DEF Ssr, AbortTimesOut, BuffsTimeOut
  <1>4. ASSUME ctrl' = ctrl, graph'.state = graph.state
        PROVE  (Queueing' <=> Queueing) /\ (Filling' <=> Filling)
    BY <1>4 DEF Queueing, Filling
  <1>5. CASE \E d \in Dir : Begin(d) \/ CallStep(d) \/ WaitTimesOut(d)
    BY <1>4, <1>5, CallAlone
  <1>6. CASE (\E d \in Dir : Receive(d) \/ Configure(d)) \/ DoneStep
    BY <1>4, <1>6 DEF Receive, Configure, DoneStep, MarkDone, SignalDone, FreeEntry
  <1>7. CASE \E op \in {"stop", "flush"} : Abort(op)
    <2>1. PICK op \in {"stop", "flush"} : Abort(op)
      BY <1>7
    <2>2. /\ ctrl.op = "none" /\ graph' = graph /\ graph.state = "STARTED"
          /\ ctrl' = [IdleCtrl EXCEPT !.op = op, !.pc = "abort"]
      BY <1>2, <2>1 DEF Abort, Idle
    <2>3. ctrl'.pc = "abort" /\ ctrl'.dir = "read"
      BY <2>2 DEF IdleCtrl
    <2> QED
      BY <1>1, <2>2, <2>3 DEF Queueing, Filling
  <1>8. CASE AbortCalls \/ CallEnded \/ Aborted \/ Test \/ BuffsWake
    <2>1. PICK pc \in {"trans", "abort", "command", "clear", "asleep", "test"} :
            ctrl' = [ctrl EXCEPT !.pc = pc]
      BY <1>8 DEF AbortCalls, CallEnded, Aborted, Test, BuffsWake, Goto
    <2>2. /\ graph'.state = graph.state /\ ~Queueing
      BY <1>1, <1>8
         DEF AbortCalls, CallEnded, Aborted, Test, BuffsWake, GraphRecord, Queueing
    <2>3. ctrl'.pc = pc /\ ctrl'.op = ctrl.op /\ ctrl'.dir = ctrl.dir
      BY <1>1, <2>1 DEF CtrlRecord
    <2> QED
      BY <2>2, <2>3 DEF Queueing, Filling
  <1>9. CASE Command
    <2>1. /\ ctrl.pc = "command" /\ ctrl' = [ctrl EXCEPT !.pc = "test"]
          /\ graph' = IF ctrl.op = "stop" THEN [graph EXCEPT !.state = "STOPPED"] ELSE graph
      BY <1>2, <1>9 DEF Command, Goto
    <2>2. ctrl'.op = ctrl.op /\ ctrl'.dir = ctrl.dir /\ ctrl'.pc = "test"
      BY <1>1, <2>1 DEF CtrlRecord
    <2>3. ctrl.op \in {"stop", "flush"} /\ ctrl.dir = "read" /\ graph.state = "STARTED"
      <3>1. ctrl.op \in {"stop", "flush"}
        BY <1>1, <2>1 DEF Phases, CtrlRecord, InPhase
      <3> QED
        BY <2>1, <3>1 DEF Phases
    <2>4. ctrl.op = "flush" => graph' = graph
      BY <2>1
    <2> QED
      BY <2>1, <2>2, <2>3, <2>4 DEF Queueing, Filling
  <1>10. CASE Clear /\ ctrl.dir # "read"
    <2>1. ctrl.dir = "write" /\ ctrl.pc = "clear" /\ ctrl' = AfterClear /\ graph' = graph
      BY <1>1, <1>10 DEF Clear, CtrlRecord, Dir
    <2>2. ctrl.op \in {"stop", "flush", "close"} /\ ~Queueing
      BY <1>1, <2>1 DEF CtrlRecord, InPhase, Queueing
    <2>3. CASE ctrl.op = "stop"
      <3>1. ctrl' = IdleCtrl /\ graph.state = "STOPPED"
        BY <2>1, <2>3 DEF AfterClear, Phases
      <3> QED
        BY <2>1, <2>2, <2>3, <3>1 DEF Queueing, Filling, IdleCtrl
    <2>4. CASE ctrl.op = "flush"
      <3>1. ctrl' = [ctrl EXCEPT !.pc = "queue"] /\ ctrl.turn = 0
        BY <2>1, <2>2, <2>4 DEF AfterClear, Phases
      <3>2. ctrl'.pc = "queue" /\ ctrl'.turn = 0
        BY <1>1, <3>1 DEF CtrlRecord
      <3> QED
        BY <2>1, <2>2, <2>4, <3>2 DEF Filling
    <2>5. CASE ctrl.op = "close"
      <3>1. ctrl' = [ctrl EXCEPT !.pc = "deinit"] /\ graph.state \in {"OPENED", "STOPPED"}
        BY <2>1, <2>5 DEF AfterClear, Phases
      <3>2. ctrl'.pc = "deinit" /\ ctrl'.op = "close"
        BY <1>1, <2>5, <3>1 DEF CtrlRecord
      <3> QED
        BY <2>1, <2>2, <2>5, <3>1, <3>2 DEF Queueing, Filling
    <2> QED
      BY <2>2, <2>3, <2>4, <2>5
  <1>11. CASE Start
    <2>1. /\ ctrl.op = "none" /\ graph.state \in {"OPENED", "STOPPED"}
          /\ ctrl' = [IdleCtrl EXCEPT !.op = "start", !.pc = "queue"]
      BY <1>11 DEF Start, Idle
    <2>2. ctrl'.pc = "queue" /\ ctrl'.turn = 0
      BY <2>1 DEF IdleCtrl
    <2> QED
      BY <1>1, <2>1, <2>2 DEF Queueing, Filling
  <1>12. CASE Close
    <2>1. /\ ctrl.op = "none" /\ graph.state # "STARTED" /\ graph' = graph
          /\ ctrl' = [IdleCtrl EXCEPT !.op = "close", !.pc = "test"]
      BY <1>2, <1>12 DEF Close, Idle
    <2>2. ctrl'.pc = "test" /\ ctrl'.op = "close"
      BY <2>1 DEF IdleCtrl
    <2> QED
      BY <1>1, <2>1, <2>2 DEF Queueing, Filling
  <1>13. CASE Deinit
    <2>1. ctrl.pc = "deinit" /\ ctrl' = IdleCtrl /\ graph'.state = "CLOSED"
      BY <1>1, <1>13 DEF Deinit, GraphRecord
    <2>2. ctrl.op = "close"
      BY <1>1, <2>1 DEF Phases, CtrlRecord, InPhase, Queueing
    <2> QED
      BY <2>1, <2>2 DEF Queueing, Filling, IdleCtrl, Phases
  <1> QED
    BY <1>3, <1>5, <1>6, <1>7, <1>8, <1>9, <1>10, <1>11, <1>12, <1>13 DEF Next, CtrlStep

\* No call reads before the buffers are queued: it would be early.
LEMMA NotEarly ==
  ASSUME TypeInv, Phases, Blameless, Blameless', Next, Heap("read"), call["read"].pc = "idle",
         Queueing \/ ~Filling
  PROVE  call'["read"].pc = "idle"
PROOF
  <1>1. "read" \in Dir /\ call \in [Dir -> CallRecord]
    BY DEF TypeInv, Dir
  <1>2. ~Begin("read")
    <2> SUFFICES ASSUME Begin("read") PROVE FALSE
      OBVIOUS
    <2>1. ~Early("read") /\ ~Refuses
      BY DEF Begin, Blameless
    <2> QED
      BY <2>1 DEF Early, Refuses, Filling
  <1>3. ~CallStep("read") /\ ~WaitTimesOut("read")
    BY DEF CallStep, WaitTimesOut, Find, FindShmem, WaitReturns, Copy, Enqueue, SendOk,
           SendFails, End
  <1>4. ASSUME NEW d \in Dir, Begin(d) \/ CallStep(d) \/ WaitTimesOut(d)
        PROVE  call'["read"] = call["read"]
    BY <1>1, <1>2, <1>3, <1>4, CallAlone
  <1>5. CASE ~\E d \in Dir : Begin(d) \/ CallStep(d) \/ WaitTimesOut(d)
    <2>1. call' = call
      BY <1>5
         DEF Next, Receive, Configure, Abort, DoneStep, MarkDone, SignalDone, FreeEntry,
             CtrlStep, QueueStep, QueueTake, QueueEntry, QueueSend, QueueLoses, QueueEnds,
             AbortCalls, CallEnded, Aborted, Command, Test, BuffsWake, Clear, Deinit, Start,
             Close, Ssr, AbortTimesOut, BuffsTimeOut
    <2> QED
      BY <2>1
  <1> QED
    BY <1>4, <1>5

\* The ring when neither a buffer nor an entry moves; the loop may begin.
LEMMA RingQuiet ==
  ASSUME TypeInv, RingInv, Quiet("read"),
         call["read"].pc = "idle" /\ (Queueing \/ ~Filling) => call'["read"].pc = "idle",
         \/ Queueing /\ ctrl' = ctrl
         \/ ~Queueing /\ ~Queueing' /\ (Filling' <=> Filling)
         \/ ~Queueing /\ ~Filling /\ ctrl'.pc = "queue" /\ ctrl'.turn = 0
  PROVE  RingInv'
PROOF
  <1> DEFINE r == dp["read"]
             s == dp'["read"]
  <1>1. /\ s.curr = r.curr /\ s.head = r.head /\ s.tail = r.tail /\ s.acked = r.acked
        /\ s.used \subseteq r.used /\ held'["read"] = held["read"] /\ slot' = slot
        /\ \/ call'["read"] = call["read"]
           \/ call["read"].pc \notin Moving /\ call'["read"].pc \notin Moving
    BY DEF Quiet, Still
  <1>2. \A o, m, c, k : ReadRing(o, m, c, k) => ReadRing(o, m, c, k)'
    BY <1>1, RingIs DEF ReadRing
  <1>3. (\A i : At(s, i) = At(r, i)) /\ \A b : LastIs(b) => LastIs(b)'
    BY <1>1 DEF At, LastIs
  <1> HIDE DEF r, s
  <1>4. CASE Queueing /\ ctrl' = ctrl
    <2>1. Refill /\ Queueing' /\ call'["read"].pc = "idle"
      BY <1>4 DEF RingInv, Queueing, Refill
    <2>2. Refill'
      BY <1>1, <1>2, <1>3, <1>4, <2>1 DEF Refill, r, s
    <2> QED
      BY <2>1, <2>2 DEF RingInv
  <1>5. CASE ~Queueing /\ ~Queueing' /\ (Filling' <=> Filling)
    <2>1. CASE Filling
      <3>1. Full
        BY <1>5, <2>1 DEF RingInv
      <3>2. CASE call'["read"] = call["read"]
        <4>1. Full'
          BY <1>1, <1>2, <1>3, <3>1, <3>2 DEF Full, r, s
        <4> QED
          BY <1>5, <2>1, <4>1 DEF RingInv
      <3>3. CASE call["read"].pc \notin Moving /\ call'["read"].pc \notin Moving
        <4>1. Full'
          BY <1>2, <3>1, <3>3 DEF Full, Moving
        <4> QED
          BY <1>5, <2>1, <4>1 DEF RingInv
      <3> QED
        BY <1>1, <3>2, <3>3
    <2>2. CASE ~Filling
      <3>1. Fresh
        BY <1>5, <2>2 DEF RingInv
      <3>2. Fresh'
        BY <1>1, <2>2, <3>1 DEF Fresh, r, s
      <3> QED
        BY <1>5, <2>2, <3>2 DEF RingInv
    <2> QED
      BY <2>1, <2>2
  <1>6. CASE ~Queueing /\ ~Filling /\ ctrl'.pc = "queue" /\ ctrl'.turn = 0
    <2>1. Fresh /\ Queueing' /\ call'["read"].pc = "idle"
      BY <1>6 DEF RingInv, Queueing, Fresh
    <2>2. held'["read"] = <<>> /\ s.head = 0 /\ s.tail = 0 /\ s.acked = 0 /\ s.used = {}
      BY <1>1, <2>1 DEF Fresh, r
    <2>3. ReadRing(NumBuffs - 0, 0, 0, 0)'
      BY <2>2, RingEmpty DEF ReadRing, s
    <2>4. Refill'
      BY <1>6, <2>1, <2>2, <2>3 DEF Refill, s
    <2> QED
      BY <2>1, <2>4 DEF RingInv
  <1> QED
    BY <1>4, <1>5, <1>6

\* The loop is through: every buffer is with SPF or full.
LEMMA RingQueued ==
  ASSUME TypeInv, OwnInv, Phases, Blameless, RingInv, Heap("read"), QueueEnds
  PROVE  RingInv'
PROOF
  <1>1. /\ ctrl.pc = "queue" /\ ctrl.turn = NumBuffs /\ ctrl' = IdleCtrl
        /\ graph' = IF ctrl.op = "start" THEN [graph EXCEPT !.state = "STARTED"] ELSE graph
        /\ UNCHANGED <<dp, held, slot, call>>
    BY DEF QueueEnds, buffers, OwnInv, Blameless
  <1>2. Refill /\ ctrl.op \in {"start", "flush"} /\ ~Queueing'
    <2>1. Refill /\ ctrl.op # "none" /\ ctrl.op # "stop" /\ ctrl.op # "close"
      BY <1>1 DEF RingInv, Queueing, TypeInv, InPhase, Phases
    <2> QED
      BY <1>1, <2>1 DEF TypeInv, CtrlRecord, Queueing, IdleCtrl
  <1>3. graph'.state = "STARTED" /\ Filling'
    <2>1. graph'.state = "STARTED"
      BY <1>1, <1>2 DEF Phases, TypeInv, GraphRecord
    <2> QED
      BY <1>1, <2>1 DEF Filling, IdleCtrl
  <1>4. NumBuffs - NumBuffs = 0
    BY NumBuffsType
  <1>5. call["read"].pc = "idle" /\ ReadRing(0, NumBuffs, 0, NumBuffs)
    BY <1>1, <1>2, <1>4 DEF Refill
  <1>6. ReadRing(0, NumBuffs, 0, NumBuffs)'
    BY <1>1, <1>5 DEF ReadRing
  <1>7. Full'
    BY <1>1, <1>5, <1>6 DEF Full, Moving
  <1> QED
    BY <1>2, <1>3, <1>7 DEF RingInv

\* The ring is empty once it is cleared, until the loop begins.
LEMMA RingEmptied ==
  ASSUME TypeInv, Phases, Blameless, Blameless', RingInv, Emptied("read")
  PROVE  RingInv'
PROOF
  <1>1. /\ "read" \in Dir /\ dp["read"] \in DataPath /\ dp \in [Dir -> DataPath]
        /\ ctrl \in CtrlRecord /\ InPhase(ctrl)
    BY DEF TypeInv, Dir
  <1>2. gave_up = {} /\ gave_up' = {}
    BY DEF Blameless
  <1>3. CASE Configure("read")
    <2>1. /\ ctrl.op = "none" /\ graph.state \in {"OPENED", "STOPPED"}
          /\ UNCHANGED <<ctrl, graph, call, held, slot>>
          /\ dp'["read"] = Configured(dp["read"])
      BY <1>1, <1>3 DEF Configure, Idle, buffers
    <2>2. ~Queueing /\ ~Filling /\ ~Queueing' /\ ~Filling'
      BY <1>1, <2>1 DEF Queueing, Filling, InPhase
    <2>3. Fresh
      BY <2>2 DEF RingInv
    <2>4. LET s == Configured(dp["read"])
          IN s.used = {} /\ s.head = 0 /\ s.tail = 0 /\ s.acked = dp["read"].acked
      BY <1>1 DEF Configured, DataPath
    <2>5. Fresh'
      BY <2>1, <2>3, <2>4 DEF Fresh
    <2> QED
      BY <2>2, <2>5 DEF RingInv
  <1>4. CASE Clear /\ ctrl.dir = "read"
    <2>1. PICK n : dp'["read"] = Passed("read", n)
      BY <1>1, <1>4 DEF Clear
    <2>2. LET s == Passed("read", n)
          IN s.used = dp["read"].used /\ s.head = 0 /\ s.tail = 0 /\ s.acked = 0
      BY <1>1 DEF Passed, MdCleared, DataPath
    <2>3. /\ held["read"] = <<>> /\ UNCHANGED <<held, call, graph>>
          /\ ctrl.pc = "clear" /\ ctrl' = [ctrl EXCEPT !.pc = "test", !.dir = "write"]
      BY <1>2, <1>4 DEF Clear, Forgets, AfterClear
    <2>4. dp["read"].used = {} /\ call["read"].pc = "idle"
      BY <1>1, <1>4, <2>3 DEF Phases, Stopping
    <2>5. ctrl'.pc = "test" /\ ctrl'.dir = "write" /\ ctrl'.op = ctrl.op
      BY <1>1, <2>3 DEF CtrlRecord
    <2>6. ctrl.op \in {"stop", "flush", "close"}
      BY <1>1, <2>3 DEF CtrlRecord, InPhase
    <2>7. ctrl.op # "flush" => graph.state # "STARTED"
      BY <2>3, <2>6 DEF Phases
    <2>8. ~Queueing' /\ ~Filling'
      BY <2>3, <2>5, <2>6, <2>7 DEF Queueing, Filling
    <2>9. Fresh'
      BY <2>1, <2>2, <2>3, <2>4 DEF Fresh
    <2> QED
      BY <2>8, <2>9 DEF RingInv
  <1> QED
    BY <1>3, <1>4 DEF Emptied

\* A call moves the last buffer, and the ring with it.
LEMMA RingCall ==
  ASSUME TypeInv, OwnInv, Phases, Blameless, RingInv, HasMd("read"), Heap("read"),
         (Find("read") /\ IsAvail(dp["read"])) \/ Copy("read") \/ Enqueue("read")
           \/ SendOk("read")
  PROVE  RingInv'
PROOF
  <1> DEFINE r == dp["read"]
             h == held["read"]
             c == call["read"]
             n == NumBuffs - 1
  <1>1. /\ "read" \in Dir /\ dp \in [Dir -> DataPath] /\ r \in DataPath /\ DOMAIN held = Dir
        /\ h \in Seq(Entry) /\ call \in [Dir -> CallRecord] /\ c \in CallRecord
        /\ slot \in [Buff -> 0 .. Format] /\ c.md # Format
    BY DEF TypeInv, Dir, Phases
  <1>2. /\ n \in Nat /\ n + 1 = NumBuffs /\ n < NumBuffs /\ NumBuffs < MdSize
        /\ 0 + n < NumBuffs /\ 0 + n = n /\ 0 + 1 = 1
    BY NumBuffsType DEF MdSize
  <1>3. c.pc # "idle" /\ c.pc \in {"find", "copy", "enqueue", "send"}
    BY DEF Find, Copy, Enqueue, SendOk
  <1>4. ~Queueing /\ Filling /\ Full
    BY <1>3 DEF RingInv, Refill, Fresh
  <1>5. ctrl' = ctrl /\ graph'.state = graph.state
    BY <1>1, CallAlone DEF CallStep
  <1>6. ~Queueing' /\ Filling'
    BY <1>4, <1>5 DEF Queueing, Filling
  <1>7. SUFFICES Full'
    BY <1>6 DEF RingInv
  <1>8. CASE Find("read") /\ IsAvail(dp["read"])
    <2>1. /\ c.pc = "find" /\ r.curr \notin r.used /\ dp' = [dp EXCEPT !["read"] = Taken(@)]
          /\ call' = [call EXCEPT !["read"].buf = r.curr, !["read"].pc = "copy"]
          /\ UNCHANGED <<held, slot>>
      BY <1>1, <1>8 DEF Find, IsAvail, buffers
    <2>2. Ring(r, h, slot, 0, NumBuffs, 0, NumBuffs)
      BY <1>4, <2>1 DEF Full, Moving, ReadRing
    <2>3. Len(h) < NumBuffs
      <3>1. Owned("read") /\ r.curr \in Buff
        BY <1>1 DEF OwnInv, Blameless, DataPath
      <3> QED
        BY <1>1, <2>1, <3>1, HeldFits DEF Owned
    <2>4. Ring(r, h, slot, 1, n, 1, NumBuffs) /\ slot[r.curr] = r.tail
      BY <1>1, <2>2, <2>3, RingFirst
    <2>5. Ring(Taken(r), h, slot, 0, n, 1, NumBuffs) /\ r.curr = At(Taken(r), n)
      <3>1. Ring(r, h, slot, 0 + 1, n, 1, NumBuffs) /\ 0 \in Nat
        BY <1>2, <2>4
      <3>2. r.curr = At(Taken(r), NumBuffs - 1)
        BY <1>1, <1>2, <3>1, RingTaken
      <3> HIDE DEF n, r, h
      <3>3. Ring(Taken(r), h, slot, 0, n, 1, NumBuffs)
        BY <1>1, <1>2, <3>1, RingTaken
      <3> QED
        BY <3>2, <3>3 DEF n
    <2>6. Taken(r).tail = r.tail /\ dp'["read"] = Taken(r)
      BY <1>1, <2>1, MdAfter
    <2>7. call'["read"].pc = "copy" /\ call'["read"].buf = r.curr
      BY <1>1, <2>1 DEF CallRecord
    <2> QED
      BY <2>1, <2>4, <2>5, <2>6, <2>7 DEF Full, ReadRing, LastIs, Moving
  <1>9. CASE Copy("read")
    <2>1. /\ c.pc = "copy" /\ dp' = [dp EXCEPT !["read"] = Dequeued(@)]
          /\ call' = [call EXCEPT !["read"].pc = "enqueue"] /\ UNCHANGED <<held, slot>>
      BY <1>9 DEF Copy, buffers
    <2>2. Ring(r, h, slot, 0, n, 1, NumBuffs) /\ c.buf = At(r, n)
      BY <1>4, <2>1 DEF Full, ReadRing, LastIs
    <2>3. Ring(Dequeued(r), h, slot, 0, n, 0, n)
      <3> HIDE DEF n, r, h
      <3>1. Ring(r, h, slot, 0, n, 1, n + 1) /\ n + 1 < MdSize
        BY <1>2, <2>2
      <3> QED
        BY <1>1, <1>2, <3>1, RingGiven
    <2>4. dp'["read"] = Dequeued(r) /\ Dequeued(r).curr = r.curr
      BY <1>1, <2>1, MdAfter
    <2>5. call'["read"].pc = "enqueue" /\ call'["read"].buf = c.buf
      BY <1>1, <2>1 DEF CallRecord
    <2>6. At(dp'["read"], n) = c.buf
      BY <2>2, <2>4 DEF At
    <2> QED
      BY <2>1, <2>3, <2>4, <2>5, <2>6 DEF Full, ReadRing, LastIs, Moving
  <1>10. CASE Enqueue("read")
    <2>1. /\ c.pc = "enqueue" /\ dp' = [dp EXCEPT !["read"] = Enqueued(@)]
          /\ UNCHANGED <<held, slot>>
          /\ call' = [call EXCEPT !["read"].pc = "send", !["read"].md = NextEntry(r)]
      BY <1>1, <1>10 DEF Enqueue, buffers
    <2>2. Ring(r, h, slot, 0, n, 0, n) /\ c.buf = At(r, n)
      BY <1>4, <2>1 DEF Full, ReadRing, LastIs
    <2>3. /\ Ring(Enqueued(r), h, slot, 0, n, 0, NumBuffs) /\ NextEntry(r) = Fwd(r.tail, n)
          /\ Enqueued(r).tail = r.tail /\ Enqueued(r).curr = r.curr
      <3> HIDE DEF n, r, h
      <3>1. n + 1 < MdSize
        BY <1>2
      <3> QED
        BY <1>1, <1>2, <2>2, <3>1, RingGets
    <2>4. dp'["read"] = Enqueued(r)
      BY <1>1, <2>1
    <2>5. /\ call'["read"].pc = "send" /\ call'["read"].buf = c.buf
          /\ call'["read"].md = NextEntry(r)
      BY <1>1, <2>1 DEF CallRecord
    <2>6. At(dp'["read"], n) = c.buf
      BY <2>2, <2>3, <2>4 DEF At
    <2> QED
      BY <2>1, <2>3, <2>4, <2>5, <2>6 DEF Full, ReadRing, LastIs, Moving
  <1>11. CASE SendOk("read")
    <2> DEFINE x == [buff |-> c.buf, md |-> c.md]
    <2>1. /\ c.pc = "send" /\ dp' = dp /\ held' = [held EXCEPT !["read"] = Append(@, x)]
          /\ slot' = [slot EXCEPT ![c.buf] = c.md]
      BY <1>11 DEF SendOk
    <2>2. /\ Ring(r, h, slot, 0, n, 0, NumBuffs) /\ c.buf = At(r, n)
          /\ c.md = Fwd(r.tail, n)
      BY <1>4, <2>1 DEF Full, ReadRing, LastIs
    <2>3. x \in Entry /\ x.md = c.md /\ x.buff = c.buf
      BY <1>1 DEF Entry, CallRecord
    <2>4. Ring(r, Append(h, x), slot', 0, n + 1, 0, NumBuffs)
      <3> HIDE DEF n, r, h, c, x
      <3>1. x.md = Fwd(r.tail, 0 + n) /\ x.buff = At(r, 0 + n)
        BY <1>2, <2>2, <2>3
      <3>2. 0 \in Nat
        OBVIOUS
      <3>3. slot' = [slot EXCEPT ![x.buff] = x.md]
        BY <2>1, <2>3
      <3> QED
        BY <1>1, <1>2, <2>2, <2>3, <3>1, <3>2, <3>3, RingSent
    <2>5. held'["read"] = Append(h, x)
      BY <1>1, <2>1
    <2>6. call'["read"].pc \in {"end", "find"}
      BY <1>1, <1>11, SentIs
    <2> QED
      BY <1>2, <2>1, <2>4, <2>5, <2>6 DEF Full, ReadRing, Moving
  <1> QED
    BY <1>8, <1>9, <1>10, <1>11

\* SPF has filled the oldest buffer.
LEMMA RingReceived ==
  ASSUME TypeInv, Phases, Blameless, RingInv, HasMd("read"), Heap("read"), Receive("read")
  PROVE  RingInv'
PROOF
  <1> DEFINE r == dp["read"]
             h == held["read"]
  <1>1. /\ "read" \in Dir /\ dp \in [Dir -> DataPath] /\ r \in DataPath /\ DOMAIN held = Dir
        /\ h \in Seq(Entry) /\ ctrl \in CtrlRecord /\ InPhase(ctrl)
    BY DEF TypeInv, Dir
  <1>2. /\ Len(h) >= 1 /\ UNCHANGED <<slot, call, ctrl, graph>>
        /\ dp'["read"] = OnPacket("read", h[1]) /\ held'["read"] = RemoveAt(h, 1)
    BY <1>1, ReceivedIs
  <1>3. /\ Acked(r).curr = r.curr /\ Acked(r).tail = r.tail /\ Acked(r).head = r.head
        /\ Acked(r).used = r.used
    BY <1>1, MdAfter, UsedAfter
  <1>4. ASSUME NEW o, NEW m \in Nat, NEW c \in Nat, NEW k, ReadRing(o, m, c, k),
               c + m < MdSize
        PROVE  dp'["read"] = Acked(r) /\ ReadRing(o, m, c, k)'
    <2>1. h[1].md \in 0 .. MdSize - 1
      <3>1. 1 \in 1 .. Len(h) /\ Len(h) \in Nat
        BY <1>1, <1>2
      <3>2. h[1].md = Fwd(r.tail, c + m - Len(h) + 1 - 1)
        BY <1>4, <3>1 DEF ReadRing, Ring
      <3>3. r.tail \in Int
        BY <1>1, MdType DEF DataPath
      <3>4. r.tail + (c + m - Len(h) + 1 - 1) \in Int
        BY <1>4, <3>1, <3>3
      <3> QED
        BY <3>2, <3>4, MdType DEF Fwd
    <2>2. h[1].md # Format
      BY <2>1, MdType
    <2>3. dp'["read"] = Acked(r)
      BY <1>2, <2>2 DEF OnPacket
    <2>4. Ring(Acked(r), RemoveAt(h, 1), slot, o, m, c, k)
      <3> HIDE DEF r, h
      <3>1. Ring(r, h, slot, o, m, c, k)
        BY <1>4 DEF ReadRing, r, h
      <3> QED
        BY <1>1, <1>2, <1>4, <3>1, RingBack
    <2> QED
      BY <1>2, <2>3, <2>4 DEF ReadRing
  <1>5. /\ NumBuffs - 1 \in Nat /\ NumBuffs \in Nat /\ 0 \in Nat /\ 1 \in Nat
        /\ 1 + (NumBuffs - 1) < MdSize /\ 0 + (NumBuffs - 1) < MdSize /\ 0 + NumBuffs < MdSize
    BY NumBuffsType DEF MdSize
  <1>6. ASSUME dp'["read"] = Acked(r), NEW b, LastIs(b)
        PROVE  LastIs(b)'
    BY <1>3, <1>6 DEF LastIs, At
  <1>7. (Queueing' <=> Queueing) /\ (Filling' <=> Filling)
    BY <1>2 DEF Queueing, Filling
  <1> HIDE DEF r, h
  <1>8. CASE Queueing
    <2>0. PICK n : n = ctrl.turn
      OBVIOUS
    <2>1. Refill /\ ctrl.pc \in {"queue", "enqueue", "send"} /\ n \in 0 .. NumBuffs
      BY <1>1, <1>8, <2>0 DEF RingInv, Queueing, CtrlRecord
    <2>2. n \in Nat /\ 0 + n < MdSize
      BY <1>5, <2>1, MdType
    <2>3. dp'["read"] = Acked(r)
      <3>1. PICK o, k : ReadRing(o, n, 0, k)
        BY <2>0, <2>1 DEF Refill
      <3> QED
        BY <1>4, <1>5, <2>2, <3>1
    <2>4. \A i : At(dp'["read"], i) = At(r, i)
      BY <1>3, <2>3 DEF At
    <2>5. CASE ctrl.pc = "queue"
      <3>0. ReadRing(NumBuffs - n, n, 0, n)
        BY <2>0, <2>1, <2>5 DEF Refill
      <3>1. ReadRing(NumBuffs - n, n, 0, n)'
        BY <1>4, <1>5, <2>2, <3>0
      <3> QED
        BY <1>2, <1>3, <1>7, <1>8, <2>0, <2>1, <2>3, <2>4, <2>5, <3>1 DEF RingInv, Refill, r
    <2>6. CASE ctrl.pc = "enqueue"
      <3>0. ReadRing(NumBuffs - n - 1, n, 0, n)
        BY <2>0, <2>1, <2>6 DEF Refill
      <3>1. ReadRing(NumBuffs - n - 1, n, 0, n)'
        BY <1>4, <1>5, <2>2, <3>0
      <3>2. LastIs(ctrl.buf)'
        BY <1>6, <2>1, <2>3, <2>6, <1>2 DEF Refill
      <3> QED
        BY <1>2, <1>3, <1>7, <1>8, <2>0, <2>1, <2>3, <2>4, <2>6, <3>1, <3>2 DEF RingInv, Refill, r
    <2>7. CASE ctrl.pc = "send"
      <3>0. ReadRing(NumBuffs - n - 1, n, 0, n + 1)
        BY <2>0, <2>1, <2>7 DEF Refill
      <3>1. ReadRing(NumBuffs - n - 1, n, 0, n + 1)'
        BY <1>4, <1>5, <2>2, <3>0
      <3>2. LastIs(ctrl.buf)'
        BY <1>6, <2>1, <2>3, <2>7, <1>2 DEF Refill
      <3> QED
        BY <1>2, <1>3, <1>7, <1>8, <2>0, <2>1, <2>3, <2>4, <2>7, <3>1, <3>2 DEF RingInv, Refill, r
    <2> QED
      BY <2>1, <2>5, <2>6, <2>7
  <1>9. CASE ~Queueing
    <2>1. Filling /\ Full
      BY <1>1, <1>2, <1>9 DEF RingInv, Fresh, h
    <2>2. CASE call["read"].pc = "copy"
      <3>1. /\ ReadRing(0, NumBuffs - 1, 1, NumBuffs) /\ LastIs(call["read"].buf)
            /\ slot[call["read"].buf] = r.tail
        BY <2>1, <2>2 DEF Full, r
      <3>2. dp'["read"] = Acked(r) /\ ReadRing(0, NumBuffs - 1, 1, NumBuffs)'
        BY <1>4, <1>5, <3>1
      <3> QED
        BY <1>2, <1>3, <1>6, <1>7, <1>9, <2>1, <2>2, <3>1, <3>2 DEF RingInv, Full, Moving
    <2>3. CASE call["read"].pc = "enqueue"
      <3>1. ReadRing(0, NumBuffs - 1, 0, NumBuffs - 1) /\ LastIs(call["read"].buf)
        BY <2>1, <2>3 DEF Full
      <3>2. dp'["read"] = Acked(r) /\ ReadRing(0, NumBuffs - 1, 0, NumBuffs - 1)'
        BY <1>4, <1>5, <3>1
      <3> QED
        BY <1>2, <1>6, <1>7, <1>9, <2>1, <2>3, <3>1, <3>2 DEF RingInv, Full, Moving
    <2>4. CASE call["read"].pc = "send"
      <3>1. /\ ReadRing(0, NumBuffs - 1, 0, NumBuffs) /\ LastIs(call["read"].buf)
            /\ call["read"].md = Fwd(r.tail, NumBuffs - 1)
        BY <2>1, <2>4 DEF Full, r
      <3>2. dp'["read"] = Acked(r) /\ ReadRing(0, NumBuffs - 1, 0, NumBuffs)'
        BY <1>4, <1>5, <3>1
      <3> QED
        BY <1>2, <1>3, <1>6, <1>7, <1>9, <2>1, <2>4, <3>1, <3>2 DEF RingInv, Full, Moving
    <2>5. CASE call["read"].pc \notin Moving
      <3>1. ReadRing(0, NumBuffs, 0, NumBuffs)
        BY <2>1, <2>5 DEF Full
      <3>2. ReadRing(0, NumBuffs, 0, NumBuffs)'
        BY <1>4, <1>5, <3>1
      <3> QED
        BY <1>2, <1>7, <1>9, <2>1, <2>5, <3>2 DEF RingInv, Full, Moving
    <2> QED
      BY <2>2, <2>3, <2>4, <2>5 DEF Moving
  <1> QED
    BY <1>8, <1>9

\* A turn of the loop: the next buffer is taken, ...
LEMMA RingQueueTake ==
  ASSUME TypeInv, RingInv, HasMd("read"), QueueTake
  PROVE  RingInv'
PROOF
  <1> DEFINE r == dp["read"]
             h == held["read"]
  <1>1. /\ "read" \in Dir /\ dp \in [Dir -> DataPath] /\ r \in DataPath /\ ctrl \in CtrlRecord
        /\ NumBuffs \in Nat \ {0} /\ r.curr \in Buff
    BY NumBuffsType DEF TypeInv, Dir, DataPath
  <1>2. PICK n : n = ctrl.turn
    OBVIOUS
  <1>3. /\ ctrl.pc = "queue" /\ n < NumBuffs /\ n \in Nat /\ Refill
        /\ UNCHANGED <<held, slot, call>>
    BY <1>1, <1>2 DEF QueueTake, RingInv, Queueing, CtrlRecord, buffers
  <1>4. PICK o \in Nat : o = NumBuffs - n - 1
    BY <1>1, <1>3
  <1>5. /\ call["read"].pc = "idle" /\ Ring(r, h, slot, o + 1, n, 0, n)
        /\ \A i \in 0 .. o : At(r, i) \notin r.used
    <2>1. o + 1 = NumBuffs - n /\ NumBuffs - n - 1 = o
      BY <1>1, <1>3, <1>4
    <2> QED
      BY <1>2, <1>3, <2>1 DEF Refill, ReadRing
  <1>6. /\ \A i \in 0 .. NumBuffs - 1 : At(Taken(r), i) = At(r, i + 1)
        /\ At(r, 0) = r.curr /\ r.curr = At(Taken(r), NumBuffs - 1)
        /\ Ring(Taken(r), h, slot, o, n, 0, n)
    <2>1. o + n < NumBuffs
      BY <1>1, <1>3, <1>4
    <2>2. Taken(r).curr = (r.curr + 1) % NumBuffs
      BY <1>1, MdAfter
    <2>3. At(r, 0) = r.curr
      BY <1>1, <2>2, AtNext
    <2> HIDE DEF r, h
    <2> QED
      BY <1>1, <1>3, <1>5, <2>1, <2>3, RingTaken
  <1>7. r.curr \notin r.used
    <2>1. 0 \in 0 .. o
      OBVIOUS
    <2> QED
      BY <1>5, <1>6, <2>1
  <1>8. /\ dp'["read"] = Taken(r)
        /\ ctrl' = [ctrl EXCEPT !.buf = r.curr, !.md = NoMd, !.pc = "enqueue"]
    BY <1>1, <1>7 DEF QueueTake, IsAvail
  <1>9. ctrl'.pc = "enqueue" /\ ctrl'.buf = r.curr /\ ctrl'.turn = n
    BY <1>1, <1>2, <1>8 DEF CtrlRecord
  <1>10. ASSUME NEW i \in 0 .. o - 1
         PROVE  At(Taken(r), i) \notin Taken(r).used
    <2>1. /\ i \in 0 .. NumBuffs - 1 /\ i + 1 \in 0 .. o /\ i + 1 \in 0 .. NumBuffs - 1
          /\ 0 \in 0 .. NumBuffs - 1 /\ i + 1 # 0
      BY <1>1, <1>3, <1>4
    <2>2. At(Taken(r), i) = At(r, i + 1) /\ At(r, i + 1) \notin r.used
      BY <1>5, <1>6, <2>1
    <2>3. At(r, i + 1) # r.curr
      BY <1>1, <1>6, <2>1, AtOnce
    <2>4. Taken(r).used = r.used \cup {r.curr}
      BY <1>1, UsedAfter
    <2> QED
      BY <2>2, <2>3, <2>4
  <1>11. NumBuffs - n - 1 = o /\ NumBuffs - n - 2 = o - 1
    BY <1>1, <1>3, <1>4
  <1>12. ReadRing(NumBuffs - n - 1, n, 0, n)' /\ LastIs(ctrl.buf)'
    BY <1>3, <1>6, <1>8, <1>9, <1>11 DEF ReadRing, LastIs
  <1>13. Refill'
    BY <1>3, <1>5, <1>8, <1>9, <1>10, <1>11, <1>12 DEF Refill
  <1> QED
    BY <1>9, <1>13 DEF RingInv, Queueing

\* ... gets the next entry, ...
LEMMA RingQueueEntry ==
  ASSUME TypeInv, RingInv, QueueEntry
  PROVE  RingInv'
PROOF
  <1> DEFINE r == dp["read"]
             h == held["read"]
  <1>1. /\ "read" \in Dir /\ dp \in [Dir -> DataPath] /\ r \in DataPath /\ ctrl \in CtrlRecord
        /\ InPhase(ctrl) /\ NumBuffs \in Nat \ {0}
    BY NumBuffsType DEF TypeInv, Dir
  <1>2. PICK n : n = ctrl.turn
    OBVIOUS
  <1>3. /\ ctrl.pc = "enqueue" /\ n < NumBuffs /\ n \in Nat /\ Refill
        /\ UNCHANGED <<held, slot, call>> /\ dp'["read"] = Enqueued(r)
        /\ ctrl' = [ctrl EXCEPT !.pc = "send", !.md = NextEntry(r)]
    BY <1>1, <1>2 DEF QueueEntry, RingInv, Queueing, CtrlRecord, InPhase, buffers
  <1>4. /\ call["read"].pc = "idle" /\ Ring(r, h, slot, NumBuffs - n - 1, n, 0, n)
        /\ ctrl.buf = At(r, NumBuffs - 1)
        /\ \A i \in 0 .. NumBuffs - n - 2 : At(r, i) \notin r.used
    BY <1>2, <1>3 DEF Refill, ReadRing, LastIs
  <1>5. /\ Ring(Enqueued(r), h, slot, NumBuffs - n - 1, n, 0, n + 1)
        /\ NextEntry(r) = Fwd(r.tail, n) /\ Enqueued(r).tail = r.tail
        /\ Enqueued(r).curr = r.curr
    <2>1. n + 1 < MdSize
      BY <1>1, <1>3 DEF MdSize
    <2> HIDE DEF r, h
    <2> QED
      BY <1>1, <1>3, <1>4, <2>1, RingGets
  <1>6. /\ ctrl'.pc = "send" /\ ctrl'.buf = ctrl.buf /\ ctrl'.turn = n
        /\ ctrl'.md = NextEntry(r)
    BY <1>1, <1>2, <1>3 DEF CtrlRecord
  <1>7. (\A i : At(dp'["read"], i) = At(r, i)) /\ dp'["read"].used = r.used
    BY <1>1, <1>3, <1>5, UsedAfter DEF At
  <1>8. ReadRing(NumBuffs - n - 1, n, 0, n + 1)' /\ LastIs(ctrl.buf)'
    BY <1>3, <1>4, <1>5, <1>6, <1>7 DEF ReadRing, LastIs
  <1>9. Refill'
    BY <1>3, <1>4, <1>5, <1>6, <1>7, <1>8 DEF Refill
  <1> QED
    BY <1>6, <1>9 DEF RingInv, Queueing

\* ... and is sent.
LEMMA RingQueueSend ==
  ASSUME TypeInv, RingInv, QueueSend
  PROVE  RingInv'
PROOF
  <1> DEFINE r == dp["read"]
             h == held["read"]
             x == [buff |-> ctrl.buf, md |-> ctrl.md]
  <1>1. /\ "read" \in Dir /\ DOMAIN held = Dir /\ r \in DataPath /\ ctrl \in CtrlRecord
        /\ h \in Seq(Entry) /\ slot \in [Buff -> 0 .. Format]
        /\ InPhase(ctrl) /\ NumBuffs \in Nat \ {0}
    BY NumBuffsType DEF TypeInv, Dir
  <1>2. PICK n : n = ctrl.turn
    OBVIOUS
  <1>3. /\ ctrl.pc = "send" /\ n < NumBuffs /\ n \in Nat /\ Refill
        /\ UNCHANGED <<dp, call>> /\ held' = [held EXCEPT !["read"] = Append(@, x)]
        /\ slot' = [slot EXCEPT ![ctrl.buf] = ctrl.md] /\ NextTurn
    BY <1>1, <1>2 DEF QueueSend, RingInv, Queueing, CtrlRecord, InPhase
  <1>4. PICK o \in Nat : o = NumBuffs - n - 1
    BY <1>1, <1>3
  <1>5. /\ call["read"].pc = "idle" /\ Ring(r, h, slot, o, n, 0, n + 1)
        /\ ctrl.buf = At(r, NumBuffs - 1) /\ ctrl.md = Fwd(r.tail, n)
        /\ \A i \in 0 .. NumBuffs - n - 2 : At(r, i) \notin r.used
    BY <1>2, <1>3, <1>4 DEF Refill, ReadRing, LastIs
  <1>6. x \in Entry /\ x.md = ctrl.md /\ x.buff = ctrl.buf
    <2>1. ctrl.md \in 0 .. Format /\ ctrl.buf \in Buff
      BY <1>1, MdType DEF CtrlRecord
    <2> QED
      BY <2>1 DEF Entry
  <1>7. Ring(r, Append(h, x), slot', o, n + 1, 0, n + 1)
    <2>1. /\ o + n < NumBuffs /\ o + n = NumBuffs - 1 /\ 0 + n = n /\ 0 \in Nat
      BY <1>1, <1>3, <1>4
    <2>2. slot' = [slot EXCEPT ![x.buff] = x.md]
      BY <1>3, <1>6
    <2>3. x.md = Fwd(r.tail, 0 + n) /\ x.buff = At(r, o + n)
      BY <1>5, <1>6, <2>1
    <2>4. PICK k : k = n + 1
      OBVIOUS
    <2> HIDE DEF r, h, x
    <2>5. Ring(r, h, slot, o, n, 0, k)
      BY <1>5, <2>4
    <2>6. Ring(r, Append(h, x), [slot EXCEPT ![x.buff] = x.md], o, n + 1, 0, k)
      BY <1>1, <1>3, <1>4, <1>6, <2>1, <2>3, <2>5, RingSent
    <2> QED
      BY <2>2, <2>4, <2>6
  <1>8. held'["read"] = Append(h, x) /\ dp'["read"] = r
    BY <1>1, <1>3
  <1>9. PICK m : m = n + 1
    OBVIOUS
  <1>10. ctrl'.pc = "queue" /\ ctrl'.turn = m
    BY <1>1, <1>2, <1>3, <1>9 DEF NextTurn, CtrlRecord
  <1>11. NumBuffs - m = o /\ NumBuffs - m - 1 = NumBuffs - n - 2
    BY <1>1, <1>3, <1>4, <1>9
  <1>12. ReadRing(NumBuffs - m, m, 0, m)'
    <2> HIDE DEF x, h, r
    <2>1. Ring(r, Append(h, x), slot', NumBuffs - m, m, 0, m)
      BY <1>7, <1>9, <1>11
    <2> QED
      BY <1>8, <2>1 DEF ReadRing
  <1>13. Refill'
    BY <1>3, <1>5, <1>8, <1>10, <1>11, <1>12 DEF Refill
  <1> QED
    BY <1>10, <1>13 DEF RingInv, Queueing

LEMMA RingNext ==
  ASSUME TypeInv, OwnInv, Phases, Blameless, Blameless', RingInv, HasMd("read"),
         Heap("read"), Next
  PROVE  RingInv'
PROOF
  <1>1. "read" \in Dir
    BY DEF Dir
  <1>2. CASE Emptied("read")
    BY <1>2, RingEmptied
  <1>3. CASE Moves("read")
    BY <1>3, RingCall, RingReceived, RingQueueTake, RingQueueEntry, RingQueueSend
       DEF Moves, FindShmem
  <1>4. CASE Quiet("read") /\ QueueStep
    BY <1>1, <1>4, RingQueued, RingQueueTake, RingQueueEntry, RingQueueSend
       DEF QueueStep, QueueLoses, OwnInv, Blameless
  <1>5. CASE Quiet("read") /\ ~QueueStep /\ ~Emptied("read")
    <2>1. call["read"].pc = "idle" /\ (Queueing \/ ~Filling) => call'["read"].pc = "idle"
      BY NotEarly
    <2>2. \/ Queueing /\ ctrl' = ctrl
          \/ ~Queueing /\ ~Queueing' /\ (Filling' <=> Filling)
          \/ ~Queueing /\ ~Filling /\ ctrl'.pc = "queue" /\ ctrl'.turn = 0
      BY <1>5, ReadPhases DEF Emptied
    <2> QED
      BY <1>5, <2>1, <2>2, RingQuiet
  <1> QED
    BY <1>1, <1>2, <1>3, <1>4, <1>5, MdSteps

-----------------------------------------------------------------------------
(* Reading into and writing from the client's own buffers, and writing from the heap. *)

LEMMA FifoNext ==
  ASSUME TypeInv, OwnInv, Phases, Blameless, Blameless', ReadFifo, HasMd("read"),
         ~Heap("read"), Next
  PROVE  ReadFifo'
PROOF
  <1> DEFINE r == dp["read"]
             h == held["read"]
             c == call["read"]
  <1>1. /\ "read" \in Dir /\ dp \in [Dir -> DataPath] /\ r \in DataPath /\ DOMAIN held = Dir
        /\ h \in Seq(Entry) /\ call \in [Dir -> CallRecord] /\ c \in CallRecord
        /\ c.md # Format /\ Len(h) \in Nat
    BY DEF TypeInv, Dir, Phases
  <1>2. CASE Quiet("read")
    <2>1. /\ dp'["read"].head = r.head /\ dp'["read"].tail = r.tail /\ held'["read"] = h
          /\ call'["read"] = c \/ (c.pc \notin Moving /\ call'["read"].pc \notin Moving)
      BY <1>2 DEF Quiet, Still
    <2>2. \A l : Fifo(r, h, l) => Fifo(dp'["read"], h, l)
      BY <2>1 DEF Fifo
    <2> QED
      BY <2>1, <2>2 DEF ReadFifo, Moving
  <1>3. CASE Emptied("read")
    <2>1. /\ dp'["read"].head = 0 /\ dp'["read"].tail = 0 /\ held'["read"] = <<>>
          /\ call'["read"].pc = "idle"
      BY <1>1, <1>3, EmptiedIs
    <2>2. Fifo(dp'["read"], <<>>, 0) /\ Len(<<>>) = 0
      BY <2>1, FifoEmpty
    <2> QED
      BY <2>1, <2>2 DEF ReadFifo
  <1>4. CASE FindShmem("read")
    <2>1. /\ c.pc = "find" /\ UNCHANGED <<dp, held>>
          /\ \E b : call' = [call EXCEPT !["read"].buf = b, !["read"].pc = "enqueue"]
      BY <1>4 DEF FindShmem, buffers
    <2>2. call'["read"].pc = "enqueue"
      BY <1>1, <2>1 DEF CallRecord
    <2> QED
      BY <2>1, <2>2 DEF ReadFifo
  <1>5. CASE Enqueue("read")
    <2>1. /\ c.pc = "enqueue" /\ dp'["read"] = Enqueued(r) /\ held'["read"] = h
          /\ MdFull(r) => dp'["read"] = r
          /\ \/ MdFull(r) /\ call'["read"].pc = "end"
             \/ ~MdFull(r) /\ call'["read"].pc = "send" /\ call'["read"].md = NextEntry(r)
      BY <1>1, <1>5, EntryIs
    <2>2. Fifo(r, h, Len(h))
      BY <2>1 DEF ReadFifo
    <2>3. CASE MdFull(r)
      BY <2>1, <2>2, <2>3 DEF ReadFifo
    <2>4. CASE ~MdFull(r)
      <3>1. /\ Fifo(Enqueued(r), h, Len(h) + 1) /\ NextEntry(r) = Fwd(r.tail, Len(h))
            /\ Enqueued(r).tail = r.tail
        BY <1>1, <2>2, <2>4, FifoGets
      <3> QED
        BY <2>1, <2>4, <3>1 DEF ReadFifo
    <2> QED
      BY <2>3, <2>4
  <1>6. CASE SendOk("read")
    <2> DEFINE x == [buff |-> c.buf, md |-> c.md]
    <2>1. c.pc = "send" /\ dp' = dp /\ held' = [held EXCEPT !["read"] = Append(@, x)]
      BY <1>6 DEF SendOk
    <2>2. x \in Entry /\ x.md = c.md
      BY <1>1 DEF Entry, CallRecord
    <2>3. Fifo(r, h, Len(h) + 1) /\ x.md = Fwd(r.tail, Len(h))
      BY <2>1, <2>2 DEF ReadFifo
    <2>4. Fifo(r, Append(h, x), Len(Append(h, x)))
      <3> HIDE DEF r, h, x
      <3> QED
        BY <1>1, <2>2, <2>3, FifoSent
    <2>5. held'["read"] = Append(h, x) /\ call'["read"].pc \in {"end", "find"}
      BY <1>1, <1>6, <2>1, SentIs
    <2> QED
      BY <2>1, <2>4, <2>5 DEF ReadFifo
  <1>7. CASE Receive("read")
    <2>1. /\ Len(h) >= 1 /\ dp'["read"] = OnPacket("read", h[1])
          /\ held'["read"] = RemoveAt(h, 1) /\ call' = call
      BY <1>1, <1>7, ReceivedIs
    <2>2. PICK l \in Nat : /\ Fifo(r, h, l) /\ Len(h) <= l
                           /\ l = IF c.pc = "send" THEN Len(h) + 1 ELSE Len(h)
      BY <1>1 DEF ReadFifo
    <2>3. h[1].md # Format
      <3>1. h[1].md = Fwd(r.tail, 1 - 1)
        BY <1>1, <2>1, <2>2 DEF Fifo
      <3>2. r.tail + (1 - 1) \in Int
        BY <1>1, MdType DEF DataPath
      <3>3. h[1].md \in 0 .. MdSize - 1
        BY <3>1, <3>2, MdType DEF Fwd
      <3> QED
        BY <3>3, MdType
    <2>4. dp'["read"] = Dequeued(r)
      BY <2>1, <2>3 DEF OnPacket
    <2>5. /\ Fifo(Dequeued(r), RemoveAt(h, 1), l - 1)
          /\ Fwd(Dequeued(r).tail, Len(h) - 1) = Fwd(r.tail, Len(h))
          /\ Len(RemoveAt(h, 1)) = Len(h) - 1
      <3> HIDE DEF r, h
      <3> QED
        BY <1>1, <2>1, <2>2, FifoBack, FirstRemoved
    <2>6. CASE c.pc = "send"
      <3>1. l - 1 = (Len(h) - 1) + 1 /\ c.md = Fwd(r.tail, Len(h))
        BY <1>1, <2>2, <2>6 DEF ReadFifo
      <3> QED
        BY <2>1, <2>4, <2>5, <2>6, <3>1 DEF ReadFifo
    <2>7. CASE c.pc # "send"
      <3>1. l - 1 = Len(h) - 1 /\ c.pc # "copy"
        BY <1>1, <2>2, <2>7 DEF ReadFifo
      <3> QED
        BY <2>1, <2>4, <2>5, <2>7, <3>1 DEF ReadFifo
    <2> QED
      BY <2>6, <2>7
  <1>8. ~Find("read") /\ ~Copy("read") /\ ~QueueTake /\ ~QueueEntry /\ ~QueueSend
    BY DEF Find, Copy, QueueTake, QueueEntry, QueueSend, ReadFifo, Phases
  <1> QED
    BY <1>1, <1>2, <1>3, <1>4, <1>5, <1>6, <1>7, <1>8, MdSteps DEF Moves

LEMMA WindowNext ==
  ASSUME TypeInv, TypeInv', OwnInv, Phases, Blameless, Blameless', WriteWindow,
         HasMd("write"), ~Heap("write"), Next
  PROVE  WriteWindow'
PROOF
  <1> DEFINE r == dp["write"]
             h == held["write"]
             c == call["write"]
  <1>1. /\ "write" \in Dir /\ dp \in [Dir -> DataPath] /\ r \in DataPath /\ DOMAIN held = Dir
        /\ h \in Seq(Entry) /\ call \in [Dir -> CallRecord] /\ c \in CallRecord
        /\ dp'["write"] \in DataPath
    BY DEF TypeInv, Dir
  <1>2. PICK o \in {0, 1} : o = Oldest
    BY DEF Oldest
  <1>3. /\ c.pc # "copy" /\ Window(r, h, o)
        /\ c.pc = "send" /\ Data(c.md) => Newest(r, h, o, c.md)
    BY <1>2 DEF WriteWindow
  <1>4. ASSUME done' = done
        PROVE  Oldest' = o
    BY <1>2, <1>4 DEF Oldest
  <1>5. CASE Quiet("write")
    <2>1. /\ dp'["write"].head = r.head /\ dp'["write"].tail = r.tail /\ held'["write"] = h
          /\ call'["write"] = c \/ (c.pc \notin Moving /\ call'["write"].pc \notin Moving)
          /\ Oldest' = o
      BY <1>2, <1>5 DEF Quiet, Still, Oldest
    <2>2. /\ Window(dp'["write"], h, o)
          /\ \A md : Newest(r, h, o, md) => Newest(dp'["write"], h, o, md)
      BY <1>3, <2>1 DEF Window, Newest, Within
    <2> QED
      BY <1>3, <2>1, <2>2 DEF WriteWindow, Moving
  <1>6. CASE Emptied("write")
    <2>1. held'["write"] = <<>> /\ call'["write"].pc = "idle" /\ Oldest' = 0
      BY <1>1, <1>6, EmptiedIs DEF Oldest
    <2>2. Window(dp'["write"], <<>>, 0)
      BY <1>1, WindowEmpty
    <2> QED
      BY <2>1, <2>2 DEF WriteWindow
  <1>7. CASE FindShmem("write")
    <2>1. /\ UNCHANGED <<dp, held, done>>
          /\ \E b : call' = [call EXCEPT !["write"].buf = b, !["write"].pc = "enqueue"]
      BY <1>7 DEF FindShmem, buffers
    <2>2. call'["write"].pc = "enqueue"
      BY <1>1, <2>1 DEF CallRecord
    <2> QED
      BY <1>3, <1>4, <2>1, <2>2 DEF WriteWindow
  <1>8. CASE Enqueue("write")
    <2>1. /\ dp'["write"] = Enqueued(r) /\ held'["write"] = h /\ Oldest' = o
          /\ MdFull(r) => dp'["write"] = r
          /\ \/ MdFull(r) /\ call'["write"].pc = "end"
             \/ /\ ~MdFull(r) /\ call'["write"].pc = "send"
                /\ call'["write"].md = IF c.md = Format THEN Format ELSE NextEntry(r)
      BY <1>1, <1>4, <1>8, EntryIs
    <2>2. CASE MdFull(r)
      BY <1>3, <2>1, <2>2 DEF WriteWindow
    <2>3. CASE ~MdFull(r)
      <3>1. Window(Enqueued(r), h, o) /\ Newest(Enqueued(r), h, o, NextEntry(r))
        BY <1>1, <1>3, <2>3, WindowGets
      <3> QED
        BY <2>1, <2>3, <3>1 DEF WriteWindow, Data
    <2> QED
      BY <2>2, <2>3
  <1>9. CASE SendOk("write")
    <2> DEFINE x == [buff |-> c.buf, md |-> c.md]
    <2>1. /\ c.pc = "send" /\ dp' = dp /\ held' = [held EXCEPT !["write"] = Append(@, x)]
          /\ Oldest' = o
      BY <1>4, <1>9 DEF SendOk
    <2>2. x \in Entry /\ x.md = c.md
      BY <1>1 DEF Entry, CallRecord
    <2>3. Window(r, Append(h, x), o)
      <3>1. Data(x.md) => Newest(r, h, o, x.md)
        BY <1>3, <2>1, <2>2
      <3> HIDE DEF r, h, x
      <3> QED
        BY <1>1, <1>3, <2>2, <3>1, WindowSent
    <2>4. held'["write"] = Append(h, x) /\ call'["write"].pc \in {"end", "find"}
      BY <1>1, <1>9, <2>1, SentIs
    <2> QED
      BY <2>1, <2>3, <2>4 DEF WriteWindow
  <1>10. CASE Receive("write")
    <2>1. /\ Len(h) >= 1 /\ dp'["write"] = OnPacket("write", h[1])
          /\ held'["write"] = RemoveAt(h, 1) /\ call' = call /\ done.pc = "idle"
          /\ done'.pc = AfterPacket("write", h[1])
      BY <1>1, <1>10, ReceivedIs
    <2>2. PICK p : p = IF Data(h[1].md) THEN 1 ELSE 0
      OBVIOUS
    <2>3. dp'["write"] = r /\ o = 0 /\ Oldest' = p
      <3>1. dp'["write"] = r
        BY <2>1 DEF OnPacket
      <3>2. AfterPacket("write", h[1]) = IF Data(h[1].md) THEN "free" ELSE "mark"
        BY DEF AfterPacket, Data
      <3> QED
        BY <1>2, <2>1, <2>2, <3>1, <3>2 DEF Oldest
    <2>4. /\ Window(r, RemoveAt(h, 1), p)
          /\ \A md : Newest(r, h, 0, md) => Newest(r, RemoveAt(h, 1), p, md)
      <3> HIDE DEF r, h
      <3> QED
        BY <1>1, <1>3, <2>1, <2>2, <2>3, WindowBack
    <2> QED
      BY <1>3, <2>1, <2>3, <2>4 DEF WriteWindow
  <1>11. CASE FreeEntry
    <2>1. /\ done.pc = "free" /\ done.dir = "write" /\ done' = IdleDone
          /\ UNCHANGED <<held, call>>
      BY <1>11 DEF FreeEntry, Phases, buffers
    <2>2. dp'["write"] = Dequeued(r) /\ o = 1 /\ Oldest' = 0
      BY <1>1, <1>2, <1>11, <2>1, Idles DEF FreeEntry, Oldest
    <2>3. /\ Window(Dequeued(r), h, 0)
          /\ \A md : Newest(r, h, 1, md) => Newest(Dequeued(r), h, 0, md)
      BY <1>1, <1>3, <2>2, WindowFreed
    <2> QED
      BY <1>3, <2>1, <2>2, <2>3 DEF WriteWindow
  <1>12. ~Find("write") /\ ~Copy("write")
    BY DEF Find, Copy, WriteWindow
  <1> QED
    BY <1>1, <1>5, <1>6, <1>7, <1>8, <1>9, <1>10, <1>11, <1>12, MdSteps DEF Moves

LEMMA RoundNext ==
  ASSUME TypeInv, OwnInv, RoomInv, Phases, Blameless, Blameless', WriteRound,
         HasMd("write"), Heap("write"), Next
  PROVE  WriteRound'
PROOF
  <1> DEFINE r == dp["write"]
             h == held["write"]
             c == call["write"]
  <1>1. /\ "write" \in Dir /\ dp \in [Dir -> DataPath] /\ r \in DataPath /\ DOMAIN held = Dir
        /\ h \in Seq(Entry) /\ call \in [Dir -> CallRecord] /\ c \in CallRecord
    BY DEF TypeInv, Dir
  <1>2. CASE Quiet("write")
    <2>1. /\ dp'["write"].head = r.head /\ held'["write"] = h
          /\ call'["write"] = c \/ (c.pc \notin Moving /\ call'["write"].pc \notin Moving)
      BY <1>2 DEF Quiet, Still
    <2>2. \A q : Round(r, h, q) => Round(dp'["write"], h, q)
      BY <2>1 DEF Round
    <2> QED
      BY <2>1, <2>2 DEF WriteRound, Moving
  <1>3. CASE Emptied("write")
    <2>1. held'["write"] = <<>> /\ call'["write"].pc = "idle"
      BY <1>1, <1>3, EmptiedIs
    <2>2. Round(dp'["write"], <<>>, 0)
      BY DEF Round
    <2> QED
      BY <2>1, <2>2 DEF WriteRound
  <1>4. CASE Find("write") /\ IsAvail(r)
    <2>1. /\ c.pc = "find" /\ dp' = [dp EXCEPT !["write"] = Taken(@)] /\ held' = held
          /\ call' = [call EXCEPT !["write"].buf = r.curr,
                        !["write"].pc = IF c.md # Format THEN "copy" ELSE "send"]
      BY <1>4 DEF Find, buffers
    <2>2. dp'["write"] = Taken(r) /\ Taken(r).head = r.head
      BY <1>1, <2>1, MdAfter
    <2>3. /\ call'["write"].pc = IF c.md # Format THEN "copy" ELSE "send"
          /\ call'["write"].md = c.md
      BY <1>1, <2>1 DEF CallRecord
    <2>4. Round(r, h, 0)
      BY <2>1 DEF WriteRound
    <2>5. Round(Taken(r), h, 0)
      BY <2>2, <2>4 DEF Round
    <2> QED
      BY <2>1, <2>2, <2>3, <2>5 DEF WriteRound, Data
  <1>5. CASE Copy("write")
    <2>1. /\ c.pc = "copy" /\ dp' = [dp EXCEPT !["write"] = Dequeued(@)] /\ held' = held
          /\ call' = [call EXCEPT !["write"].pc = "enqueue"]
      BY <1>5 DEF Copy, buffers
    <2>2. dp'["write"] = Dequeued(r) /\ Dequeued(r).head = r.head
      BY <1>1, <2>1, MdAfter
    <2>3. call'["write"].pc = "enqueue" /\ call'["write"].md = c.md
      BY <1>1, <2>1 DEF CallRecord
    <2>4. Round(r, h, 0) /\ Data(c.md)
      BY <2>1 DEF WriteRound
    <2>5. Round(Dequeued(r), h, 0)
      BY <2>2, <2>4 DEF Round
    <2> QED
      BY <2>1, <2>2, <2>3, <2>4, <2>5 DEF WriteRound
  <1>6. CASE Enqueue("write")
    <2>1. c.pc = "enqueue" /\ dp'["write"] = Enqueued(r) /\ held'["write"] = h
      BY <1>1, <1>6, EntryIs
    <2>2. ~MdFull(r) /\ Data(c.md) /\ Round(r, h, 0)
      BY <2>1 DEF RoomInv, WriteRound
    <2>3. call'["write"].pc = "send" /\ call'["write"].md = NextEntry(r)
      BY <1>1, <1>6, <2>2, EntryIs DEF Data
    <2>4. Len(h) < NumBuffs
      <3>1. Owned("write") /\ c.buf \in Buff /\ CallHas("write") = {c.buf}
        BY <1>1, <2>1 DEF OwnInv, Blameless, CallRecord, CallHas
      <3>2. c.buf \notin BuffsOf(h)
        BY <3>1 DEF Owned, InHand
      <3> QED
        BY <1>1, <3>1, <3>2, HeldFits DEF Owned
    <2>5. /\ Round(Enqueued(r), h, 1) /\ NextEntry(r) \in 0 .. MdSize - 1
          /\ Dist(NextEntry(r), Enqueued(r).head) = 1
      BY <1>1, <2>2, <2>4, RoundGets
    <2>6. Data(NextEntry(r))
      BY <2>5, MdType DEF Data
    <2> QED
      BY <2>1, <2>3, <2>5, <2>6 DEF WriteRound
  <1>7. CASE SendOk("write")
    <2> DEFINE x == [buff |-> c.buf, md |-> c.md]
    <2>1. c.pc = "send" /\ dp' = dp /\ held' = [held EXCEPT !["write"] = Append(@, x)]
      BY <1>7 DEF SendOk
    <2>2. x \in Entry /\ x.md = c.md
      BY <1>1 DEF Entry, CallRecord
    <2>3. Round(r, Append(h, x), 0)
      <3>1. /\ Data(x.md) => x.md \in 0 .. MdSize - 1 /\ Dist(x.md, r.head) = 1 /\ Round(r, h, 1)
            /\ ~Data(x.md) => Round(r, h, 0)
        BY <2>1, <2>2 DEF WriteRound
      <3> HIDE DEF r, h, x
      <3> QED
        BY <1>1, <2>2, <3>1, RoundSent
    <2>4. held'["write"] = Append(h, x) /\ call'["write"].pc \in {"end", "find"}
      BY <1>1, <1>7, <2>1, SentIs
    <2> QED
      BY <2>1, <2>3, <2>4 DEF WriteRound
  <1>8. CASE Receive("write")
    <2>1. /\ Len(h) >= 1 /\ dp'["write"] = OnPacket("write", h[1])
          /\ held'["write"] = RemoveAt(h, 1) /\ call' = call
      BY <1>1, <1>8, ReceivedIs
    <2>2. dp'["write"] = r
      BY <2>1 DEF OnPacket
    <2>3. \A q \in {0, 1} : Round(r, h, q) => Round(r, RemoveAt(h, 1), q)
      <3> HIDE DEF r, h
      <3> QED
        BY <1>1, <2>1, RoundBack
    <2> QED
      BY <2>1, <2>2, <2>3 DEF WriteRound
  <1>9. ~FindShmem("write") /\ ~FreeEntry
    BY DEF FindShmem, FreeEntry, Phases
  <1> QED
    BY <1>1, <1>2, <1>3, <1>4, <1>5, <1>6, <1>7, <1>8, <1>9, MdSteps DEF Moves

-----------------------------------------------------------------------------
(* The theorem. *)

LEMMA MdInit == Init => MdInv
PROOF
  <1> SUFFICES ASSUME Init PROVE MdInv
    OBVIOUS
  <1>1. /\ \A d \in Dir : held[d] = <<>> /\ dp[d] = NewDataPath /\ call[d] = IdleCall
        /\ ctrl = IdleCtrl /\ done = IdleDone /\ graph.state = "OPENED"
        /\ "read" \in Dir /\ "write" \in Dir
    BY DEF Init, Dir
  <1>2. /\ \A d \in Dir : held[d] = <<>> /\ call[d].pc = "idle" /\ call[d].md # Format
        /\ \A d \in Dir : dp[d].head = 0 /\ dp[d].tail = 0 /\ dp[d].acked = 0 /\ dp[d].used = {}
        /\ \A d \in Dir : dp[d].flags = {} /\ dp[d] \in DataPath
        /\ ctrl.op = "none" /\ ctrl.pc = "idle" /\ ctrl.turn = 0 /\ done.pc = "idle"
    <2>1. NoMd # Format
      BY MdType
    <2>2. \A d \in Dir : dp[d] \in DataPath
      BY TypeInit DEF TypeInv
    <2> QED
      BY <1>1, <2>1, <2>2 DEF NewDataPath, IdleCall, IdleCtrl, IdleDone
  <1>3. Phases
    BY <1>1, <1>2 DEF Phases, Queueing, Stopping
  <1>4. RingInv
    <2>1. ~Queueing /\ ~Filling /\ Fresh
      BY <1>1, <1>2 DEF Queueing, Filling, Fresh
    <2> QED
      BY <2>1 DEF RingInv
  <1>5. ReadFifo
    <2>1. Fifo(dp["read"], <<>>, 0) /\ Len(<<>>) = 0
      BY <1>1, <1>2, FifoEmpty
    <2> QED
      BY <1>1, <1>2, <2>1 DEF ReadFifo
  <1>6. WriteWindow
    <2>1. Window(dp["write"], <<>>, 0)
      BY <1>1, <1>2, WindowEmpty
    <2> QED
      BY <1>1, <1>2, <2>1 DEF WriteWindow, Oldest
  <1>7. WriteRound
    BY <1>1, <1>2 DEF WriteRound, Round
  <1> QED
    BY <1>3, <1>4, <1>5, <1>6, <1>7 DEF MdInv

LEMMA MdNext == TypeInv /\ OwnInv /\ RoomInv /\ MdInv /\ [Next]_vars => MdInv'
PROOF
  <1> SUFFICES ASSUME TypeInv, OwnInv, RoomInv, MdInv, [Next]_vars, Blameless'
               PROVE  /\ Phases'
                      /\ (HasMd("read") /\ Heap("read") => RingInv)'
                      /\ (HasMd("read") /\ ~Heap("read") => ReadFifo)'
                      /\ (HasMd("write") /\ ~Heap("write") => WriteWindow)'
                      /\ (HasMd("write") /\ Heap("write") => WriteRound)'
    BY DEF MdInv
  <1>1. scenario' = scenario /\ TypeInv'
    BY ScenarioFixed, TypeNext
  <1>2. \A d \in Dir : (HasMd(d)' <=> HasMd(d)) /\ (Heap(d)' <=> Heap(d))
    BY <1>1 DEF HasMd, Heap, Used, conf
  <1>3. "read" \in Dir /\ "write" \in Dir
    BY DEF Dir
  <1>4. gave_up \subseteq gave_up'
    <2>1. CASE UNCHANGED vars
      BY <2>1 DEF vars
    <2>2. CASE \E d \in Dir : Begin(d) \/ CallStep(d) \/ WaitTimesOut(d)
      BY <2>2, CallAlone
    <2>3. CASE Next /\ ~\E d \in Dir : Begin(d) \/ CallStep(d) \/ WaitTimesOut(d)
      BY <2>3
         DEF Next, Receive, Configure, Abort, DoneStep, MarkDone, SignalDone, FreeEntry,
             CtrlStep, QueueStep, QueueTake, QueueEntry, QueueSend, QueueLoses, QueueEnds,
             AbortCalls, CallEnded, Aborted, Command, Test, BuffsWake, Clear, Deinit, Start,
             Close, Ssr, AbortTimesOut, BuffsTimeOut
    <2> QED
      BY <2>1, <2>2, <2>3
  <1>5. Blameless
    BY <1>1, <1>4 DEF Blameless, Faults
  <1>6. /\ Phases
        /\ HasMd("read") /\ Heap("read") => RingInv
        /\ HasMd("read") /\ ~Heap("read") => ReadFifo
        /\ HasMd("write") /\ ~Heap("write") => WriteWindow
        /\ HasMd("write") /\ Heap("write") => WriteRound
    BY <1>5 DEF MdInv
  <1>7. CASE UNCHANGED vars
    <2>1. UNCHANGED <<dp, held, slot, call, done, ctrl, graph, scenario>>
      BY <1>7 DEF vars, buffers
    <2>2. Phases'
      BY <1>6, <2>1 DEF Phases, Queueing, Heap, HasMd, Used, conf
    <2>3. RingInv => RingInv'
      BY <2>1 DEF RingInv, Queueing, Filling, Refill, Full, Fresh, ReadRing, LastIs
    <2>4. ReadFifo => ReadFifo'
      BY <2>1 DEF ReadFifo
    <2>5. WriteWindow => WriteWindow'
      BY <2>1 DEF WriteWindow, Oldest
    <2>6. WriteRound => WriteRound'
      BY <2>1 DEF WriteRound
    <2> QED
      BY <1>2, <1>3, <1>6, <2>2, <2>3, <2>4, <2>5, <2>6
  <1>8. CASE Next
    <2>1. Phases'
      BY <1>5, <1>6, <1>8, PhasesNext
    <2>2. HasMd("read") /\ Heap("read") => RingInv'
      BY <1>5, <1>6, <1>8, RingNext
    <2>3. HasMd("read") /\ ~Heap("read") => ReadFifo'
      BY <1>5, <1>6, <1>8, FifoNext
    <2>4. HasMd("write") /\ ~Heap("write") => WriteWindow'
      BY <1>1, <1>5, <1>6, <1>8, WindowNext
    <2>5. HasMd("write") /\ Heap("write") => WriteRound'
      BY <1>5, <1>6, <1>8, RoundNext
    <2> QED
      BY <1>2, <1>3, <2>1, <2>2, <2>3, <2>4, <2>5
  <1> QED
    BY <1>7, <1>8

\* While nothing has gone wrong, no call reads before the buffers are queued, and they come
\* back in the order they were sent: SPF's status is stored in the entry that was sent with
\* the buffer, the client gets the metadata of the buffer it reads, and a write gets no
\* entry SPF still reads, wherever stop, flush, media formats and the handlers fall.
THEOREM MetadataFollows == Spec => []MetadataOfItsBuffer
PROOF
  <1>1. ASSUME TypeInv, MdInv
        PROVE  MetadataOfItsBuffer
    <2> SUFFICES ASSUME gave_up = {}, "REORDER" \notin Faults
                 PROVE  \A d \in Dir : HasMd(d) =>
                   /\ held[d] # <<>> /\ d = "read" /\ ~Heap(d) => Head(held[d]).md = dp[d].tail
                   /\ held[d] # <<>> /\ d = "read" /\ Heap(d) => Head(held[d]).md = dp[d].acked
                   /\ call[d].pc = "copy" /\ d = "read" => slot[call[d].buf] = dp[d].tail
                   /\ d = "write" => \A e \in Range(held[d]) : e.md # dp[d].head
      BY DEF MetadataOfItsBuffer
    <2>1. /\ "read" \in Dir /\ "write" \in Dir /\ held["read"] \in Seq(Entry)
          /\ held["write"] \in Seq(Entry)
          /\ dp["read"] \in DataPath /\ dp["write"] \in DataPath
      BY <1>1 DEF TypeInv, Dir
    <2>2. /\ HasMd("read") /\ Heap("read") => RingInv
          /\ HasMd("read") /\ ~Heap("read") => ReadFifo
          /\ HasMd("write") /\ ~Heap("write") => WriteWindow
          /\ HasMd("write") /\ Heap("write") => WriteRound
      BY <1>1 DEF MdInv, Blameless
    <2>3. ASSUME held["read"] # <<>>
          PROVE  /\ 1 \in 1 .. Len(held["read"]) /\ Head(held["read"]) = held["read"][1]
                 /\ Len(held["read"]) \in Nat
      BY <2>1, <2>3
    <2>4. ASSUME HasMd("read"), ~Heap("read"), held["read"] # <<>>
          PROVE  Head(held["read"]).md = dp["read"].tail
      <3>1. dp["read"].tail \in 0 .. MdSize - 1 /\ 0 \in 0 .. MdSize
        <4>1. 0 \in 0 .. MdSize
          BY MdType
        <4> QED
          BY <2>1, <4>1 DEF DataPath
      <3>2. Fwd(dp["read"].tail, 0) = dp["read"].tail
        <4>1. dp["read"].tail + 0 = dp["read"].tail /\ dp["read"].tail < MdSize
          BY <3>1, MdType
        <4> QED
          BY <3>1, <4>1, FwdIs
      <3>3. PICK l : Fifo(dp["read"], held["read"], l)
        BY <2>2, <2>4 DEF ReadFifo
      <3>4. held["read"][1].md = Fwd(dp["read"].tail, 1 - 1)
        BY <2>3, <2>4, <3>3 DEF Fifo
      <3> QED
        BY <2>3, <2>4, <3>2, <3>4
    <2>5. ASSUME HasMd("read"), Heap("read"), held["read"] # <<>>
          PROVE  Head(held["read"]).md = dp["read"].acked
      <3>1. \E o, k : \E m, c \in Nat : ReadRing(o, m, c, k)
        <4>1. /\ NumBuffs - 1 \in Nat /\ NumBuffs \in Nat /\ 0 \in Nat /\ 1 \in Nat
              /\ ctrl.turn \in Nat
          BY <1>1, NumBuffsType DEF TypeInv, CtrlRecord
        <4>2. CASE Queueing
          BY <2>2, <2>5, <4>1, <4>2 DEF RingInv, Refill, Queueing
        <4>3. CASE ~Queueing
          BY <2>2, <2>5, <4>1, <4>3 DEF RingInv, Full, Fresh, Moving
        <4> QED
          BY <4>2, <4>3
      <3>2. PICK o, k : \E m, c \in Nat : ReadRing(o, m, c, k)
        BY <3>1
      <3>3. PICK m, c \in Nat : ReadRing(o, m, c, k)
        BY <3>2
      <3>4. /\ dp["read"].acked = Fwd(dp["read"].tail, c + m - Len(held["read"]))
            /\ held["read"][1].md = Fwd(dp["read"].tail, c + m - Len(held["read"]) + 1 - 1)
        BY <2>3, <2>5, <3>3 DEF ReadRing, Ring
      <3>5. c + m - Len(held["read"]) + 1 - 1 = c + m - Len(held["read"])
        BY <2>3, <2>5, <3>3
      <3> QED
        BY <2>3, <2>5, <3>4, <3>5
    <2>6. ASSUME HasMd("read"), call["read"].pc = "copy"
          PROVE  slot[call["read"].buf] = dp["read"].tail
      BY <2>2, <2>6 DEF ReadFifo, RingInv, Refill, Full, Fresh
    <2>7. ASSUME HasMd("write"), NEW e \in Range(held["write"])
          PROVE  e.md # dp["write"].head
      <3>1. PICK j \in 1 .. Len(held["write"]) : e = held["write"][j]
        BY <2>1, <2>7 DEF Range
      <3>2. /\ dp["write"].head \in 0 .. MdSize - 1 /\ dp["write"].tail \in 0 .. MdSize - 1
            /\ Format \notin 0 .. MdSize - 1
        <4>1. Format \notin 0 .. MdSize - 1
          BY MdType
        <4> QED
          BY <2>1, <4>1 DEF DataPath
      <3>3. CASE ~Data(e.md)
        BY <3>2, <3>3 DEF Data
      <3>4. CASE Data(e.md) /\ ~Heap("write")
        <4>1. PICK o : Window(dp["write"], held["write"], o)
          BY <2>2, <2>7, <3>4 DEF WriteWindow
        <4>2. Dist(dp["write"].tail, e.md) < Dist(dp["write"].tail, dp["write"].head)
          BY <3>1, <3>4, <4>1 DEF Window, Within
        <4>3. Dist(dp["write"].tail, dp["write"].head) \in 0 .. MdSize - 1
          BY <3>2, DistIs
        <4>4. Dist(dp["write"].tail, dp["write"].head) \in Int
          BY <4>3, MdType
        <4> QED
          BY <4>2, <4>4
      <3>5. CASE Data(e.md) /\ Heap("write")
        <4>1. PICK q : Round(dp["write"], held["write"], q)
          BY <2>2, <2>7, <3>5 DEF WriteRound
        <4>2. 1 <= Dist(e.md, dp["write"].head)
          BY <3>1, <3>5, <4>1 DEF Round
        <4>3. Dist(dp["write"].head, dp["write"].head) = 0
          BY <3>2, DistOn
        <4> QED
          BY <4>2, <4>3
      <3> QED
        BY <3>3, <3>4, <3>5
    <2> QED
      BY <2>4, <2>5, <2>6, <2>7 DEF Dir
  <1> QED
    BY TypeInit, TypeNext, OwnInit, OwnNext, RoomNext, MdInit, MdNext, <1>1, PTL DEF Spec
=============================================================================
