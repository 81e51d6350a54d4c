---------------------------- MODULE GprLink_proofs ----------------------------
(***************************************************************************)
(* Buffers and packets between the clients of GSL and the driver: proof    *)
(* that each has one owner whatever arrives, fails or comes late, and that *)
(* an awaited answer is dropped only when its token has been cleared.      *)
(*                                                                         *)
(* Places of buffers and owners of packets are relations (Has, Owns): a    *)
(* step leaves an item where it is or moves it from one place to another,  *)
(* and either keeps it in one place (HolderMoves, OneOwnerMoves).          *)
(***************************************************************************)
EXTENDS GprLink, FiniteSetTheorems, TLAPS

-----------------------------------------------------------------------------
(* Sequences without repetitions, and what is in them. *)

Holds(s, x) == \E i \in DOMAIN s : s[i] = x
Distinct(s) == \A i, j \in DOMAIN s : s[i] = s[j] => i = j

LEMMA AppendHolds ==
  ASSUME NEW S, NEW s \in Seq(S), NEW x \in S
  PROVE  /\ Append(s, x) \in Seq(S)
         /\ \A y : Holds(Append(s, x), y) <=> Holds(s, y) \/ y = x
         /\ Distinct(s) /\ ~Holds(s, x) => Distinct(Append(s, x))
<1>1. /\ Append(s, x) \in Seq(S)
      /\ DOMAIN Append(s, x) = 1 .. Len(s) + 1 /\ DOMAIN s = 1 .. Len(s) /\ Len(s) \in Nat
      /\ \A i \in DOMAIN s : Append(s, x)[i] = s[i]
      /\ Append(s, x)[Len(s) + 1] = x
  OBVIOUS
<1>2. DOMAIN Append(s, x) = DOMAIN s \cup {Len(s) + 1} /\ Len(s) + 1 \notin DOMAIN s
  BY <1>1
<1> QED BY <1>1, <1>2, Zenon DEF Holds, Distinct

LEMMA TailHolds ==
  ASSUME NEW S, NEW s \in Seq(S), s # <<>>
  PROVE  /\ Head(s) \in S /\ Tail(s) \in Seq(S) /\ Holds(s, Head(s))
         /\ \A y : Holds(s, y) <=> y = Head(s) \/ Holds(Tail(s), y)
         /\ Distinct(s) => Distinct(Tail(s)) /\ ~Holds(Tail(s), Head(s))
<1>1. /\ Head(s) = s[1] /\ Head(s) \in S /\ Tail(s) \in Seq(S)
      /\ DOMAIN s = 1 .. Len(s) /\ Len(s) \in Nat /\ Len(s) >= 1
      /\ DOMAIN Tail(s) = 1 .. Len(s) - 1
      /\ \A i \in 1 .. Len(s) - 1 : Tail(s)[i] = s[i + 1]
  OBVIOUS
<1>2. Holds(s, Head(s))  BY <1>1 DEF Holds
<1>3. ASSUME NEW i \in DOMAIN s, i # 1
      PROVE  i - 1 \in DOMAIN Tail(s) /\ Tail(s)[i - 1] = s[i]
  <2>1. i \in 1 .. Len(s) /\ Len(s) \in Nat  BY <1>1
  <2>2. i - 1 \in 1 .. Len(s) - 1 /\ (i - 1) + 1 = i  BY <1>3, <2>1
  <2> QED BY <1>1, <2>2
<1>4. \A i \in DOMAIN Tail(s) : i + 1 \in DOMAIN s /\ i + 1 # 1 /\ Tail(s)[i] = s[i + 1]
  BY <1>1
<1>5. \A y : Holds(s, y) <=> y = Head(s) \/ Holds(Tail(s), y)
  BY <1>1, <1>2, <1>3, <1>4 DEF Holds
<1>6. Distinct(s) => Distinct(Tail(s)) /\ ~Holds(Tail(s), Head(s))
  BY <1>1, <1>4 DEF Holds, Distinct
<1> QED BY <1>1, <1>2, <1>5, <1>6

\* A finite set in some order.
LEMMA SetToSeqHolds ==
  ASSUME NEW S, IsFiniteSet(S)
  PROVE  /\ SetToSeq(S) \in Seq(S) /\ Distinct(SetToSeq(S))
         /\ \A y : Holds(SetToSeq(S), y) <=> y \in S
<1> DEFINE n == Cardinality(S)
<1>1. n \in Nat /\ ExistsBijection(1 .. n, S)  BY FS_CardinalityType
<1>2. PICK f \in Bijection(1 .. n, S) : TRUE  BY <1>1 DEF ExistsBijection
<1>3. f \in [1 .. n -> S] /\ IsInjective(f)
  BY <1>2 DEF Bijection, Injection, IsInjective
<1> DEFINE s == SetToSeq(S)
<1>4. s \in [1 .. n -> S] /\ IsInjective(s)
  BY <1>3 DEF SetToSeq
<1>5. s \in Injection(1 .. n, S)  BY <1>4 DEF Injection
<1>6. IsFiniteSet(1 .. n) /\ Cardinality(1 .. n) = n
  BY <1>1, FS_Interval
<1>7. s \in Surjection(1 .. n, S)  BY <1>5, <1>6, FS_Injection
<1>8. DOMAIN s = 1 .. n /\ \A y \in S : \E i \in 1 .. n : s[i] = y
  BY <1>4, <1>7 DEF Surjection
<1>9. s \in Seq(S)  BY <1>1, <1>4
<1> HIDE DEF s
<1> QED BY <1>4, <1>8, <1>9 DEF IsInjective, Distinct, Holds, s

LEMMA EmptyHolds == Distinct(<<>>) /\ \A y : ~Holds(<<>>, y)
BY DEF Holds, Distinct

LEMMA PutHolds ==
  ASSUME NEW s \in Seq(Buffer), NEW b \in Bs
  PROVE  /\ Put(s, b) \in Seq(Buffer)
         /\ \A y \in Buffer : Holds(Put(s, b), y) <=> Holds(s, y) \/ y = b
         /\ Distinct(s) => Distinct(Put(s, b))
<1>1. \A y : Holds(s, y) <=> y \in ToSet(s)  BY DEF Holds, ToSet
<1>2. CASE b \in ToSet(s) \cup {None}
  BY <1>1, <1>2, NoneAssumption DEF Put
<1>3. CASE b \notin ToSet(s) \cup {None}
  BY <1>1, <1>3, AppendHolds DEF Put, Bs
<1> QED BY <1>2, <1>3

-----------------------------------------------------------------------------
(* Types. *)

ClientPc == {"out", "idle", "filled", "noted", "written", "waiting", "timedout",
             "answered", "closing"}
ClientType == [pc : ClientPc, packet : Packet \cup {None}, id : Token, expected : Token,
               slot : Bs, signalled : BOOLEAN, answer : Bs]
ReceiverType == [pc : {"none", "top", "poll", "received", "callback", "refused"},
                 buf : Bs, msg : Messages, freed : BOOLEAN]

\* A message to a client, as SPF or its driver produce them.
LEMMA MessageTypes ==
  /\ NoMsg \in Messages /\ AtRest \in ReceiverType /\ NoThread \in ReceiverType
  /\ NewClient \in ClientType
  /\ \A c \in Client, kind \in Kinds : [NoMsg EXCEPT !.to = c, !.kind = kind] \in Messages
<1>1. NoToken \in Token  BY BoundsAssumption DEF NoToken, Token
<1>2. NoMsg \in Messages  BY <1>1 DEF NoMsg, Messages, Kinds, NoToken
<1>3. AtRest \in ReceiverType  BY <1>2 DEF AtRest, ReceiverType, Bs
<1>4. NoThread \in ReceiverType  BY <1>3 DEF NoThread, ReceiverType
<1>5. NewClient \in ClientType  BY <1>1 DEF NewClient, ClientType, ClientPc, Bs, NoToken
<1>6. ASSUME NEW c \in Client, NEW kind \in Kinds
      PROVE  [NoMsg EXCEPT !.to = c, !.kind = kind] \in Messages
  BY <1>2 DEF Messages
<1> QED BY <1>2, <1>3, <1>4, <1>5, <1>6

LEMMA TypeInit == Init => TypeOK
<1> SUFFICES ASSUME Init PROVE TypeOK  OBVIOUS
<1>1. free_q \in Seq(Packet)  BY SetToSeqHolds, SetsAssumption DEF Init
<1>2. receiver \in ReceiverType /\ client \in [Client -> ClientType]
  BY MessageTypes DEF Init
<1>3. token \in [Packet -> Token] /\ calls \in 0 .. MaxCalls /\ events \in 0 .. MaxEvents
  BY BoundsAssumption DEF Init, Token, NoToken
<1>4. {scrubbed, dropped} \subseteq SUBSET (1 .. MaxCalls) /\ misfreed \in BOOLEAN
  BY DEF Init
<1>5. /\ link \in {"off", "thread", "hooked", "up", "stopping", "stopped"}
      /\ buff_list \in Seq(Buffer) /\ lost \subseteq Buffer
      /\ inbox \in Seq(Messages) /\ spf \subseteq Messages /\ sessions \subseteq Client
  BY DEF Init
<1> QED
  BY <1>1, <1>2, <1>3, <1>4, <1>5 DEF TypeOK, ReceiverType, ClientType, ClientPc

\* What freeing up to two buffers does.
LEMMA FreesEffect ==
  ASSUME TypeOK, NEW a \in Bs, NEW b \in Bs, Frees(a, b)
  PROVE  /\ buff_list' \in Seq(Buffer) /\ lost' \subseteq Buffer
         /\ Distinct(buff_list) => Distinct(buff_list')
         /\ \A y \in Buffer : Holds(buff_list', y)
              <=> Holds(buff_list, y) \/ (link = "up" /\ y \in {a, b})
         /\ \A y \in Buffer : y \in lost'
              <=> y \in lost \/ (link # "up" /\ y \in {a, b} /\ ~Holds(buff_list, y))
<1>1. buff_list \in Seq(Buffer) /\ lost \subseteq Buffer  BY DEF TypeOK
<1>2. CASE link = "up"
  <2>1. buff_list' = Put(Put(buff_list, a), b) /\ lost' = lost  BY <1>2 DEF Frees
  <2>2. Put(buff_list, a) \in Seq(Buffer)  BY <1>1, PutHolds
  <2> QED BY <1>1, <1>2, <2>1, <2>2, PutHolds
<1>3. CASE link # "up"
  <2>1. buff_list' = buff_list /\ lost' = lost \cup ({a, b} \ (ToSet(buff_list) \cup {None}))
    BY <1>3 DEF Frees
  <2>2. \A y : y \in ToSet(buff_list) <=> Holds(buff_list, y)  BY DEF ToSet, Holds
  <2> QED BY <1>1, <1>3, <2>1, <2>2, NoneAssumption DEF Bs
<1> QED BY <1>2, <1>3

LEMMA LosesEffect ==
  ASSUME TypeOK, NEW b \in Buffer, Loses(b)
  PROVE  /\ buff_list' = buff_list /\ lost' \subseteq Buffer
         /\ \A y \in Buffer : y \in lost' <=> y \in lost \/ y = b
BY DEF Loses, TypeOK

\* What a client's record becomes, and that those of the others stay.
Becomes(c, r) == client' = [client EXCEPT ![c] = r] /\ r \in ClientType

LEMMA BecomesEffect ==
  ASSUME TypeOK, NEW c \in Client, NEW r, Becomes(c, r)
  PROVE  /\ client' \in [Client -> ClientType] /\ client'[c] = r
         /\ \A d \in Client \ {c} : client'[d] = client[d]
BY DEF Becomes, TypeOK, ClientType, ClientPc

ClientActs(c) == Registers(c) \/ Allocates(c) \/ Deregisters(c) \/ ClientStep(c)

\* What the steps of a client do to its record.
LEMMA ClientEffects ==
  ASSUME TypeOK, NEW c \in Client
  PROVE  LET k == client[c] IN
    /\ Registers(c) => Becomes(c, [NewClient EXCEPT !.pc = "idle"])
    /\ Allocates(c) =>
         Becomes(c, [k EXCEPT !.pc = "filled", !.packet = Head(free_q), !.id = calls'])
    /\ Notes(c) /\ k.packet \in Packet =>
         Becomes(c, [k EXCEPT !.pc = "noted", !.expected = token[k.packet]])
    /\ Writes(c) => Becomes(c, [k EXCEPT !.pc = "written"])
    /\ WriteFails(c) => Becomes(c, [k EXCEPT !.pc = "idle", !.packet = None])
    /\ SendDone(c) => Becomes(c, [k EXCEPT !.pc = "waiting"])
    /\ Wakes(c) => Becomes(c, [NewClient EXCEPT !.pc = "answered", !.answer = k.slot])
    /\ TimesOut(c) => Becomes(c, [k EXCEPT !.pc = "timedout"])
    /\ Forgets(c) => Becomes(c, [k EXCEPT !.pc = "idle", !.packet = None, !.id = 0,
                                          !.expected = NoToken])
    /\ FreesAnswer(c) => Becomes(c, [k EXCEPT !.pc = "idle", !.answer = None])
    /\ Deregisters(c) => Becomes(c, [k EXCEPT !.pc = "closing"])
    /\ Destroys(c) => Becomes(c, NewClient)
<1> DEFINE k == client[c]
<1>1. client \in [Client -> ClientType] /\ k \in ClientType
      /\ token \in [Packet -> Token] /\ NoToken \in Token
  BY BoundsAssumption DEF TypeOK, ClientType, ClientPc, Token, NoToken
<1>2. \A pc \in ClientPc : [k EXCEPT !.pc = pc] \in ClientType
  BY <1>1 DEF ClientType
<1>3. \A pc \in ClientPc, p \in Packet \cup {None}, i \in Token :
        [k EXCEPT !.pc = pc, !.packet = p, !.id = i] \in ClientType
  BY <1>1 DEF ClientType
<1>4. NewClient \in ClientType /\ k.slot \in Bs /\ None \in Bs /\ 0 \in Token
  BY <1>1, MessageTypes DEF ClientType, NoToken, Bs
<1> USE DEF ClientPc, Step, Becomes
<1>a. ASSUME Registers(c) PROVE Becomes(c, [NewClient EXCEPT !.pc = "idle"])
  <2>1. [NewClient EXCEPT !.pc = "idle"] \in ClientType  BY <1>4 DEF ClientType
  <2> QED BY <1>a, <2>1 DEF Registers
<1>b. ASSUME Allocates(c)
      PROVE Becomes(c, [k EXCEPT !.pc = "filled", !.packet = Head(free_q), !.id = calls'])
  <2>1. free_q \in Seq(Packet) /\ free_q # <<>> /\ calls \in 0 .. MaxCalls
        /\ calls < MaxCalls /\ calls' = calls + 1
    BY <1>b DEF Allocates, TypeOK
  <2>2. Head(free_q) \in Packet  BY <2>1, TailHolds
  <2>3. calls' \in Token  BY <2>1, BoundsAssumption DEF Token
  <2> QED BY <1>1, <1>3, <1>b, <2>2, <2>3 DEF Allocates
<1>c. ASSUME Notes(c), k.packet \in Packet
      PROVE Becomes(c, [k EXCEPT !.pc = "noted", !.expected = token[k.packet]])
  <2>1. token[k.packet] \in Token  BY <1>1, <1>c
  <2>2. [k EXCEPT !.pc = "noted", !.expected = token[k.packet]] \in ClientType
    BY <1>1, <2>1 DEF ClientType
  <2> QED BY <1>1, <1>c, <2>2 DEF Notes
<1>d. ASSUME Writes(c) PROVE Becomes(c, [k EXCEPT !.pc = "written"])
  BY <1>1, <1>2, <1>d DEF Writes
<1>e. ASSUME WriteFails(c) PROVE Becomes(c, [k EXCEPT !.pc = "idle", !.packet = None])
  <2>1. [k EXCEPT !.pc = "idle", !.packet = None] \in ClientType  BY <1>1 DEF ClientType
  <2> QED BY <1>1, <1>e, <2>1 DEF WriteFails
<1>f. ASSUME SendDone(c) PROVE Becomes(c, [k EXCEPT !.pc = "waiting"])
  BY <1>1, <1>2, <1>f DEF SendDone
<1>g. ASSUME Wakes(c)
      PROVE Becomes(c, [NewClient EXCEPT !.pc = "answered", !.answer = k.slot])
  <2>1. [NewClient EXCEPT !.pc = "answered", !.answer = k.slot] \in ClientType
    BY <1>4 DEF ClientType
  <2> QED BY <1>g, <2>1 DEF Wakes
<1>h. ASSUME TimesOut(c) PROVE Becomes(c, [k EXCEPT !.pc = "timedout"])
  BY <1>1, <1>2, <1>h DEF TimesOut
<1>i. ASSUME Forgets(c)
      PROVE Becomes(c, [k EXCEPT !.pc = "idle", !.packet = None, !.id = 0,
                                 !.expected = NoToken])
  <2>1. [k EXCEPT !.pc = "idle", !.packet = None, !.id = 0, !.expected = NoToken] \in ClientType
    BY <1>1, <1>4 DEF ClientType
  <2> QED BY <1>1, <1>i, <2>1 DEF Forgets
<1>j. ASSUME FreesAnswer(c) PROVE Becomes(c, [k EXCEPT !.pc = "idle", !.answer = None])
  <2>1. [k EXCEPT !.pc = "idle", !.answer = None] \in ClientType  BY <1>1, <1>4 DEF ClientType
  <2> QED BY <1>1, <1>j, <2>1 DEF FreesAnswer
<1>k. ASSUME Deregisters(c) PROVE Becomes(c, [k EXCEPT !.pc = "closing"])
  BY <1>1, <1>2, <1>k DEF Deregisters
<1>l. ASSUME Destroys(c) PROVE Becomes(c, NewClient)
  BY <1>4, <1>l DEF Destroys
<1> HIDE DEF Becomes
<1> QED BY <1>a, <1>b, <1>c, <1>d, <1>e, <1>f, <1>g, <1>h, <1>i, <1>j, <1>k, <1>l

-----------------------------------------------------------------------------
(* The inductive invariant. *)

Busy == {"filled", "noted", "written", "waiting", "timedout"}

\* A client that is out has nothing and is known to nobody; the others are there while
\* the link is up.  The signal is set while the slot is full.
ClientOK(c) ==
  /\ client[c].pc = "out" => client[c] = NewClient
  /\ link # "up" => client[c].pc = "out"
  /\ c \in sessions => client[c].pc \notin {"out", "closing"}
  /\ client[c].pc \in Busy => client[c].packet \in Packet /\ client[c].id # 0
  /\ client[c].signalled <=> client[c].slot # None
  /\ client[c].answer # None <=> client[c].pc = "answered"

\* The receiver has a buffer from the read to the end of the delivery; one that the
\* callback has freed is where put_buffer will find it.
ReceiverOK ==
  /\ receiver.buf # None <=> receiver.pc \in {"received", "callback", "refused"}
  /\ receiver.pc = "callback" => Callee \in Client
  /\ receiver.freed => receiver.pc = "refused"
  /\ receiver.freed => Holds(buff_list, receiver.buf)
  /\ link = "off" => receiver = NoThread /\ buff_list = <<>> /\ lost = {}

ShapeInv == ReceiverOK /\ \A c \in Client : ClientOK(c)

\* Buffer b is at place k, of client c if it is the slot or the hand of one.
Has(k, c, b) ==
  \/ k = "list" /\ c = None /\ Holds(buff_list, b)
  \/ k = "receiver" /\ c = None /\ receiver.buf = b /\ ~receiver.freed
  \/ k = "slot" /\ c \in Client /\ client[c].slot = b
  \/ k = "answer" /\ c \in Client /\ client[c].answer = b
  \/ k = "lost" /\ c = None /\ b \in lost

OneHolder(b) == \E k, c : Has(k, c, b) /\ \A l, d : Has(l, d, b) => l = k /\ d = c

BufferInv ==
  /\ Distinct(buff_list)
  /\ link # "off" /\ ~misfreed => \A b \in Buffer : OneHolder(b)

\* Packet p is in the queue or with a sender.
Owns(k, c, p) ==
  \/ k = "queue" /\ c = None /\ Holds(free_q, p)
  \/ k = "sender" /\ c \in Client /\ client[c].packet = p
     /\ client[c].pc \in {"filled", "noted", "written"}

OneOwnerOf(p) == \E k, c : Owns(k, c, p) /\ \A l, d : Owns(l, d, p) => l = k /\ d = c

PacketInv == Distinct(free_q) /\ \A p \in Packet : OneOwnerOf(p)

\* Every token is that of its command, unless another sender has cleared it.
Named(id, t) == t = id \/ id \in scrubbed

TokenInv ==
  /\ \A c \in Client :
       /\ client[c].pc \in {"filled", "noted"} => Named(client[c].id, token[client[c].packet])
       /\ client[c].pc \in {"noted", "written", "waiting"}
            => Named(client[c].id, client[c].expected)
  /\ \A m \in spf : Named(m.id, m.token)
  /\ \A i \in DOMAIN inbox : Named(inbox[i].id, inbox[i].token)
  /\ Named(receiver.msg.id, receiver.msg.token)
  /\ AnswersAreTaken

Inv == TypeOK /\ ShapeInv /\ BufferInv /\ PacketInv /\ TokenInv

-----------------------------------------------------------------------------
(* Every variable keeps its type. *)

BufferTypes == buff_list \in Seq(Buffer) /\ lost \subseteq Buffer
PacketTypes == free_q \in Seq(Packet) /\ token \in [Packet -> Token]
MessageSets == inbox \in Seq(Messages) /\ spf \subseteq Messages
HistoryTypes ==
  {scrubbed, dropped} \subseteq SUBSET (1 .. MaxCalls) /\ misfreed \in BOOLEAN
CounterTypes == calls \in 0 .. MaxCalls /\ events \in 0 .. MaxEvents
LinkTypes == link \in {"off", "thread", "hooked", "up", "stopping", "stopped"}

TypeParts ==
  /\ LinkTypes /\ BufferTypes /\ PacketTypes /\ MessageSets /\ HistoryTypes /\ CounterTypes
  /\ receiver \in ReceiverType /\ sessions \subseteq Client
  /\ client \in [Client -> ClientType]

LEMMA Types == TypeOK <=> TypeParts
BY DEF TypeOK, TypeParts, LinkTypes, BufferTypes, PacketTypes, MessageSets, HistoryTypes,
       CounterTypes, ReceiverType, ClientType, ClientPc

LEMMA TypesPrimed == TypeOK' <=> TypeParts'
BY DEF TypeOK, TypeParts, LinkTypes, BufferTypes, PacketTypes, MessageSets, HistoryTypes,
       CounterTypes, ReceiverType, ClientType, ClientPc

\* The link, SPF and the driver.
LEMMA LinkTypesKept ==
  ASSUME TypeOK, StartsThread \/ Hooks \/ Publishes \/ Stops \/ Joins \/ SpfAnswers \/ SpfSends
  PROVE  TypeOK'
<1> USE Types, TypesPrimed
    DEF TypeParts, counters, history, LinkTypes, BufferTypes, PacketTypes, MessageSets,
        HistoryTypes, CounterTypes
<1>1. CASE StartsThread
  BY <1>1, SetToSeqHolds, SetsAssumption, MessageTypes DEF StartsThread
<1>2. CASE Hooks \/ Publishes \/ Stops \/ Joins
  BY <1>2 DEF Hooks, Publishes, Stops, Joins
<1>3. CASE SpfAnswers
  BY <1>3, AppendHolds DEF SpfAnswers
<1>4. CASE SpfSends
  <2> PICK c \in Client, kind \in Kinds \ {"answer"} : SpfSends!(c, kind)
    BY <1>4 DEF SpfSends
  <2>1. [NoMsg EXCEPT !.to = c, !.kind = kind] \in Messages  BY MessageTypes
  <2>2. inbox' \in Seq(Messages)  BY <2>1, AppendHolds
  <2>3. events' \in 0 .. MaxEvents  BY BoundsAssumption
  <2> QED BY <2>2, <2>3
<1> QED BY <1>1, <1>2, <1>3, <1>4

\* The receiver's own record.
LEMMA ReceiverTypes ==
  ASSUME TypeOK
  PROVE  /\ \A pc \in {"none", "top", "poll", "received", "callback", "refused"} :
              [receiver EXCEPT !.pc = pc] \in ReceiverType
         /\ [receiver EXCEPT !.pc = "refused", !.freed = TRUE] \in ReceiverType
         /\ receiver.buf \in Bs /\ receiver.msg \in Messages
         /\ Callee \in Client \cup {None}
<1>1. receiver \in ReceiverType  BY Types DEF TypeParts
<1> QED BY <1>1 DEF ReceiverType, Callee, Messages

LEMMA ReceiverTypesKept ==
  ASSUME TypeOK, ShapeInv, ReceiverStep
  PROVE  TypeOK'
<1> USE DEF counters, history, At, Goes, Loops, Exits
<1>t. TypeParts  BY Types
<1>0. receiver \in ReceiverType /\ receiver.buf \in Bs /\ client \in [Client -> ClientType]
      /\ None \in Bs /\ \A c \in Client : client[c].slot \in Bs
  <2>1. receiver \in ReceiverType /\ client \in [Client -> ClientType]
    BY <1>t DEF TypeParts
  <2> QED BY <2>1 DEF ReceiverType, ClientType, Bs
<1>1. /\ BufferTypes /\ inbox \in Seq(Messages) /\ spf \subseteq Messages /\ HistoryTypes
  BY <1>t DEF TypeParts, MessageSets
\* What has to be shown of each step.
<1>2. ASSUME receiver' \in ReceiverType, BufferTypes', inbox' \in Seq(Messages), HistoryTypes',
             client' \in [Client -> ClientType],
             UNCHANGED <<link, spf, free_q, token, sessions, calls, events>>
      PROVE  TypeOK'
  BY <1>2, <1>t, TypesPrimed DEF TypeParts, LinkTypes, PacketTypes, MessageSets, CounterTypes
<1>3. ASSUME receiver' \in ReceiverType,
             UNCHANGED <<link, buff_list, lost, inbox, spf, free_q, token, sessions, client,
                         counters, history>>
      PROVE  TypeOK'
  BY <1>0, <1>1, <1>2, <1>3 DEF BufferTypes, HistoryTypes
<1>4. CASE Polls \/ EndsPoll \/ LooksUp
  BY <1>3, <1>4, ReceiverTypes, MessageTypes DEF Polls, EndsPoll, LooksUp
<1>5. CASE Reads
  <2>1. CASE buff_list = <<>>
    BY <1>3, <1>5, <2>1, ReceiverTypes DEF Reads
  <2>2. CASE buff_list # <<>>
    <3>1. /\ Head(buff_list) \in Buffer /\ Tail(buff_list) \in Seq(Buffer)
          /\ Head(inbox) \in Messages /\ Tail(inbox) \in Seq(Messages)
      BY <1>1, <1>5, <2>2, TailHolds DEF Reads, BufferTypes
    <3>2. receiver' = [pc |-> "received", buf |-> Head(buff_list), msg |-> Head(inbox),
                       freed |-> FALSE]
      BY <1>5, <2>2 DEF Reads
    <3>3. receiver' \in ReceiverType  BY <3>1, <3>2 DEF ReceiverType, Bs
    <3> QED BY <1>0, <1>1, <1>2, <1>5, <2>2, <3>1, <3>3
           DEF Reads, BufferTypes, HistoryTypes
  <2> QED BY <2>1, <2>2
<1>6. CASE ReadFails
  <2>1. Put(buff_list, receiver.buf) \in Seq(Buffer)  BY <1>0, <1>1, PutHolds DEF BufferTypes
  <2> QED BY <1>0, <1>1, <1>2, <1>6, <2>1, MessageTypes DEF ReadFails, BufferTypes, HistoryTypes
<1>7. CASE Discards \/ CallsNobody
  <2>1. receiver.buf \in Buffer
    BY <1>0, <1>7 DEF ShapeInv, ReceiverOK, Discards, CallsNobody, Bs
  <2>2. BufferTypes'
    BY <1>1, <1>7, <2>1, LosesEffect DEF Discards, CallsNobody, BufferTypes
  <2> QED
    BY <1>0, <1>1, <1>2, <1>7, <2>2, MessageTypes DEF Discards, CallsNobody, HistoryTypes
<1>8. CASE Notifies \/ PutsBack \/ Fails
  <2>1. PICK b \in Bs : Frees(receiver.buf, b)
    BY <1>0, <1>8 DEF Notifies, PutsBack, Fails
  <2>2. BufferTypes'  BY <1>0, <2>1, FreesEffect DEF BufferTypes
  <2> QED
    BY <1>0, <1>1, <1>2, <1>8, <2>2, MessageTypes, ReceiverTypes
       DEF Notifies, PutsBack, Fails, HistoryTypes
<1>9. CASE Answers
  <2>1. /\ Callee \in Client /\ client[Callee].slot \in Bs /\ receiver.buf \in Buffer
        /\ client[Callee] \in ClientType
    BY <1>9, <1>0 DEF Answers, ShapeInv, ReceiverOK, Bs
  <2>2. receiver' \in ReceiverType  BY <1>9, MessageTypes DEF Answers
  <2>3. PICK b \in Bs : Frees(client[Callee].slot, b)
    BY <1>0, <1>9 DEF Answers, Unwanted
  <2>4. BufferTypes'  BY <2>1, <2>3, FreesEffect DEF BufferTypes
  <2>5. client' \in [Client -> ClientType]
    <3>1. [client[Callee] EXCEPT !.slot = receiver.buf, !.signalled = TRUE] \in ClientType
      BY <2>1 DEF ClientType, Bs
    <3>2. client' = client \/
          client' = [client EXCEPT ![Callee] =
                       [client[Callee] EXCEPT !.slot = receiver.buf, !.signalled = TRUE]]
      BY <1>0, <1>9, <2>1 DEF Answers, ClientType
    <3> QED BY <1>0, <2>1, <3>1, <3>2
  <2>6. HistoryTypes'
    <3>1. Waiting(Callee) /\ client[Callee].id = receiver.msg.id => receiver.msg.id \in 1 .. MaxCalls
      BY <2>1, BoundsAssumption DEF Waiting, ShapeInv, ClientOK, Busy, ClientType, Token
    <3>2. misfreed' \in BOOLEAN /\ scrubbed' = scrubbed  BY <1>1, <1>9 DEF Answers, HistoryTypes
    <3>3. dropped' \in SUBSET (1 .. MaxCalls)
      BY <1>1, <1>9, <3>1 DEF Answers, HistoryTypes
    <3> QED BY <1>1, <3>2, <3>3 DEF HistoryTypes
  <2> QED BY <1>1, <1>2, <1>9, <2>2, <2>4, <2>5, <2>6 DEF Answers
<1> QED BY <1>4, <1>5, <1>6, <1>7, <1>8, <1>9 DEF ReceiverStep

\* The clients.
LEMMA ClientTypesKept ==
  ASSUME TypeOK, ShapeInv, NEW c \in Client, ClientActs(c)
  PROVE  TypeOK'
<1> USE DEF counters, history
<1>t. TypeParts  BY Types
<1>0. /\ client \in [Client -> ClientType] /\ client[c] \in ClientType /\ BufferTypes
      /\ PacketTypes /\ MessageSets /\ HistoryTypes /\ CounterTypes
  BY <1>t DEF TypeParts
<1>p. client[c].pc \in Busy => client[c].packet \in Packet /\ client[c].id \in 1 .. MaxCalls
  BY <1>0, BoundsAssumption DEF ShapeInv, ClientOK, Busy, ClientType, Token
<1>1. client' \in [Client -> ClientType]
  BY <1>p, ClientEffects, BecomesEffect DEF ClientActs, ClientStep, Busy, Notes, Is
<1>2. ASSUME BufferTypes', PacketTypes', MessageSets', HistoryTypes', CounterTypes',
             sessions' \subseteq Client, UNCHANGED <<link, receiver>>
      PROVE  TypeOK'
  BY <1>1, <1>2, <1>t, TypesPrimed DEF TypeParts, LinkTypes
<1> USE DEF Is
<1>3. CASE Registers(c) \/ Deregisters(c) \/ Notes(c) \/ TimesOut(c)
  BY <1>0, <1>2, <1>3, <1>t
     DEF Registers, Deregisters, Notes, TimesOut, TypeParts, BufferTypes, PacketTypes,
         MessageSets, HistoryTypes, CounterTypes
<1>4. CASE Allocates(c)
  <2>1. Head(free_q) \in Packet /\ Tail(free_q) \in Seq(Packet) /\ calls' \in 0 .. MaxCalls
    BY <1>0, <1>4, TailHolds, BoundsAssumption DEF Allocates, PacketTypes, CounterTypes
  <2>2. PacketTypes'  BY <1>0, <1>4, <2>1 DEF Allocates, PacketTypes, Token
  <2> QED
    BY <1>0, <1>2, <1>4, <1>t, <2>1, <2>2
       DEF Allocates, TypeParts, BufferTypes, MessageSets, HistoryTypes, CounterTypes
<1>5. CASE Writes(c)
  <2>1. [to |-> c, kind |-> "answer", id |-> client[c].id, token |-> token[client[c].packet]]
          \in Messages
    BY <1>0, <1>5, <1>p DEF Writes, Busy, PacketTypes, ClientType, Messages, Kinds
  <2> QED
    BY <1>0, <1>2, <1>5, <1>t, <2>1
       DEF Writes, TypeParts, BufferTypes, PacketTypes, MessageSets, HistoryTypes, CounterTypes
<1>6. CASE WriteFails(c) \/ SendDone(c)
  <2>1. Append(free_q, client[c].packet) \in Seq(Packet)
    BY <1>0, <1>6, <1>p, AppendHolds DEF WriteFails, SendDone, Busy, PacketTypes
  <2> QED
    BY <1>0, <1>2, <1>6, <1>t, <2>1
       DEF WriteFails, SendDone, TypeParts, BufferTypes, PacketTypes, MessageSets,
           HistoryTypes, CounterTypes
<1>7. CASE Wakes(c) \/ Forgets(c)
  <2>1. Scrubs(c) /\ client[c].packet \in Packet
    BY <1>7, <1>p DEF Wakes, Forgets, Busy
  <2>2. PacketTypes' /\ scrubbed' \in SUBSET (1 .. MaxCalls)
    <3>1. \A d \in Client : client[d].pc \in {"filled", "noted"} => client[d].id \in 1 .. MaxCalls
      BY <1>0, BoundsAssumption DEF ShapeInv, ClientOK, Busy, ClientType, Token
    <3>2. 0 \in Token  BY BoundsAssumption DEF Token
    <3>3. token' \in [Packet -> Token]  BY <1>0, <2>1, <3>2 DEF Scrubs, PacketTypes, NoToken
    <3>4. scrubbed' \in SUBSET (1 .. MaxCalls)
      BY <1>0, <2>1, <3>1 DEF Scrubs, HistoryTypes
    <3> QED BY <1>0, <1>7, <3>3, <3>4 DEF PacketTypes, Wakes, Forgets
  <2> QED
    BY <1>0, <1>2, <1>7, <1>t, <2>2
       DEF Wakes, Forgets, TypeParts, BufferTypes, MessageSets, HistoryTypes, CounterTypes
<1>8. CASE FreesAnswer(c) \/ Destroys(c)
  <2>1. PICK a \in Bs : Frees(a, None)
    BY <1>0, <1>8 DEF FreesAnswer, Destroys, ClientType
  <2>2. BufferTypes'  BY <2>1, FreesEffect DEF BufferTypes, Bs
  <2> QED
    BY <1>0, <1>2, <1>8, <1>t, <2>2
       DEF FreesAnswer, Destroys, TypeParts, PacketTypes, MessageSets, HistoryTypes,
           CounterTypes
<1> QED BY <1>3, <1>4, <1>5, <1>6, <1>7, <1>8 DEF ClientActs, ClientStep

LEMMA TypesUnchanged == ASSUME TypeOK, UNCHANGED vars PROVE TypeOK'
BY DEF vars, counters, history, TypeOK

-----------------------------------------------------------------------------
(* The shape of the records. *)

LEMMA ShapeInit == Init => ShapeInv
BY DEF Init, ShapeInv, ReceiverOK, ClientOK, NewClient, NoThread, AtRest, Busy

LEMMA LinkShapeKept ==
  ASSUME TypeOK, ShapeInv,
         StartsThread \/ Hooks \/ Publishes \/ Stops \/ Joins \/ SpfAnswers \/ SpfSends
  PROVE  ShapeInv'
<1> USE DEF counters, history, Callee
<1>1. CASE StartsThread
  BY <1>1 DEF StartsThread, ShapeInv, ReceiverOK, ClientOK, AtRest
<1>2. CASE Hooks \/ Publishes \/ Stops \/ Joins
  BY <1>2 DEF Hooks, Publishes, Stops, Joins, ShapeInv, ReceiverOK, ClientOK
<1>3. CASE SpfAnswers \/ SpfSends
  <2>1. UNCHANGED <<link, receiver, buff_list, lost, sessions, client>>
    BY <1>3 DEF SpfAnswers, SpfSends
  <2> QED BY <2>1 DEF ShapeInv, ReceiverOK, ClientOK
<1> QED BY <1>1, <1>2, <1>3

\* The receiver does nothing before the thread is there.
LEMMA ReceiverRuns == ASSUME ShapeInv, ReceiverStep PROVE link # "off"
BY DEF ShapeInv, ReceiverOK, NoThread, ReceiverStep, Polls, EndsPoll, Reads, ReadFails,
       Discards, LooksUp, Answers, Notifies, Fails, CallsNobody, PutsBack, At, AtRest

LEMMA ReceiverShapeKept ==
  ASSUME TypeOK, ShapeInv, ReceiverStep
  PROVE  ShapeInv'
<1> USE DEF counters, history, At, Goes, Loops, Exits
<1>0. /\ receiver \in ReceiverType /\ client \in [Client -> ClientType]
      /\ receiver.buf \in Bs /\ None \in Bs /\ \A c \in Client : client[c].slot \in Bs
      /\ buff_list \in Seq(Buffer)
  <2>1. /\ receiver \in ReceiverType /\ client \in [Client -> ClientType]
        /\ buff_list \in Seq(Buffer)
    BY Types DEF TypeParts, BufferTypes
  <2> QED BY <2>1 DEF ReceiverType, ClientType, Bs
<1>1. link # "off"  BY ReceiverRuns
<1>2. ASSUME UNCHANGED <<link, client, sessions>>, ReceiverOK'
      PROVE  ShapeInv'
  BY <1>2 DEF ShapeInv, ClientOK
<1>3. receiver' \in {AtRest, NoThread} /\ link' = link => ReceiverOK'
  BY <1>1 DEF ReceiverOK, AtRest, NoThread
<1>4. CASE Polls \/ EndsPoll \/ ReadFails \/ Discards \/ Notifies \/ CallsNobody \/ PutsBack
  <2>1. CASE Polls /\ link # "stopping"
    <3>1. receiver' = [receiver EXCEPT !.pc = "poll"]  BY <2>1 DEF Polls
    <3> QED BY <1>0, <1>1, <1>2, <2>1, <3>1 DEF Polls, ShapeInv, ReceiverOK, ReceiverType
  <2>2. CASE ~(Polls /\ link # "stopping")
    BY <1>2, <1>3, <1>4, <2>2
       DEF Polls, EndsPoll, ReadFails, Discards, Notifies, CallsNobody, PutsBack
  <2> QED BY <2>1, <2>2
<1>5. CASE Reads
  <2>1. CASE buff_list = <<>>
    <3>1. receiver' = [receiver EXCEPT !.pc = "top"]  BY <1>5, <2>1 DEF Reads
    <3> QED BY <1>0, <1>1, <1>2, <1>5, <3>1 DEF Reads, ShapeInv, ReceiverOK, ReceiverType
  <2>2. CASE buff_list # <<>>
    <3>1. Head(buff_list) \in Buffer  BY <1>0, <2>2, TailHolds
    <3>2. receiver' = [pc |-> "received", buf |-> Head(buff_list), msg |-> Head(inbox),
                       freed |-> FALSE]
      BY <1>5, <2>2 DEF Reads
    <3> QED BY <1>1, <1>2, <1>5, <3>1, <3>2, NoneAssumption DEF Reads, ReceiverOK
  <2> QED BY <2>1, <2>2
<1>6. CASE LooksUp
  <2>1. receiver' = [receiver EXCEPT !.pc = IF receiver.msg.to \in sessions THEN "callback"
                                            ELSE "refused"]
    BY <1>6 DEF LooksUp
  <2>2. sessions \subseteq Client  BY Types DEF TypeParts
  <2> QED
    BY <1>0, <1>1, <1>2, <1>6, <2>1, <2>2
       DEF LooksUp, ShapeInv, ReceiverOK, ReceiverType, Callee
<1>7. CASE Fails
  <2>1. Callee \in Client /\ link = "up" /\ receiver.buf \in Buffer
    BY <1>0, <1>7 DEF Fails, ShapeInv, ReceiverOK, ClientOK, Destroyed, Bs
  <2>2. Holds(buff_list', receiver.buf)  BY <1>0, <1>7, <2>1, FreesEffect DEF Fails
  <2>3. receiver' = [receiver EXCEPT !.pc = "refused", !.freed = TRUE]  BY <1>7 DEF Fails
  <2> QED
    BY <1>0, <1>1, <1>2, <1>7, <2>2, <2>3
       DEF Fails, ShapeInv, ReceiverOK, ReceiverType, Callee
<1>8. CASE Answers
  <2>1. Callee \in Client /\ receiver.buf # None
    BY <1>8 DEF Answers, ShapeInv, ReceiverOK
  <2>2. ReceiverOK'  BY <1>3, <1>8 DEF Answers
  <2>3. CASE client' = client
    BY <1>2, <1>8, <2>2, <2>3 DEF Answers
  <2>4. CASE client' = [client EXCEPT ![Callee].slot = receiver.buf, ![Callee].signalled = TRUE]
    <3> PICK c \in Client : c = Callee  BY <2>1
    <3>1. /\ \A d \in Client \ {c} : client'[d] = client[d]
          /\ client'[c] = [client[c] EXCEPT !.slot = receiver.buf, !.signalled = TRUE]
      BY <1>0, <2>4 DEF ClientType
    <3>2. client[c].pc # "out"  BY <1>8 DEF Answers, Destroyed
    <3>3. ClientOK(c) /\ client[c] \in ClientType  BY <1>0 DEF ShapeInv
    <3>4. UNCHANGED <<link, sessions>>  BY <1>8 DEF Answers
    <3>5. ClientOK(c)'
      BY <2>1, <3>1, <3>2, <3>3, <3>4 DEF ClientOK, ClientType
    <3>6. ASSUME NEW d \in Client \ {c} PROVE ClientOK(d)'
      BY <3>1, <3>4 DEF ShapeInv, ClientOK
    <3> QED BY <2>2, <3>5, <3>6 DEF ShapeInv
  <2> QED BY <1>8, <2>3, <2>4 DEF Answers
<1> QED BY <1>4, <1>5, <1>6, <1>7, <1>8 DEF ReceiverStep

\* The list of free buffers only grows when clients act.
LEMMA ClientFrees ==
  ASSUME TypeOK, ShapeInv, NEW c \in Client, ClientActs(c)
  PROVE  /\ UNCHANGED <<link, receiver>> /\ link = "up" /\ lost' = lost
         /\ \/ UNCHANGED buff_list
            \/ FreesAnswer(c) /\ Frees(client[c].answer, None)
            \/ Destroys(c) /\ Frees(client[c].slot, None)
BY DEF ShapeInv, ClientOK, ClientActs, ClientStep, Registers, Allocates, Deregisters, Notes,
       Writes, WriteFails, SendDone, Wakes, TimesOut, Forgets, FreesAnswer, Destroys, Is,
       Frees, Scrubs

LEMMA ClientShapeKept ==
  ASSUME TypeOK, ShapeInv, NEW c \in Client, ClientActs(c)
  PROVE  ShapeInv'
<1>t. /\ client \in [Client -> ClientType] /\ client[c] \in ClientType
      /\ client[c].slot \in Bs /\ client[c].answer \in Bs /\ None \in Bs
      /\ sessions \subseteq Client
  <2>1. client \in [Client -> ClientType] /\ sessions \subseteq Client
    BY Types DEF TypeParts
  <2> QED BY <2>1 DEF ClientType, Bs
<1>0. ClientOK(c) /\ link = "up"  BY ClientFrees DEF ShapeInv
<1>p. client[c].pc \in Busy => client[c].packet \in Packet
  BY <1>0 DEF ClientOK
<1>1. PICK r : Becomes(c, r)
  BY <1>p, ClientEffects DEF ClientActs, ClientStep, Busy, Notes, Is
<1>2. /\ \A d \in Client \ {c} : client'[d] = client[d]
      /\ client' \in [Client -> ClientType] /\ client'[c] = r
  BY <1>1, BecomesEffect
<1>3. ReceiverOK'
  <2>1. receiver.freed => Holds(buff_list', receiver.buf)
    <3>1. receiver.freed => receiver.buf \in Buffer /\ Holds(buff_list, receiver.buf)
      BY Types DEF TypeParts, ShapeInv, ReceiverOK, ReceiverType, Bs
    <3> QED BY <1>t, <3>1, ClientFrees, FreesEffect
  <2> QED BY <1>0, <2>1, ClientFrees DEF ShapeInv, ReceiverOK, Callee
<1>4. ASSUME NEW d \in Client \ {c} PROVE ClientOK(d)'
  <2>1. d \in sessions' => d \in sessions
    BY DEF ClientActs, ClientStep, Registers, Allocates, Deregisters, Notes, Writes,
           WriteFails, SendDone, Wakes, TimesOut, Forgets, FreesAnswer, Destroys
  <2> QED BY <1>2, <2>1, ClientFrees DEF ShapeInv, ClientOK
<1>5. ClientOK(c)'
  <2> DEFINE k == client[c]
  <2> USE DEF Is
  <2>0. link' = "up"  BY <1>0, ClientFrees
  <2>1. CASE Registers(c)
    <3>1. client'[c] = [NewClient EXCEPT !.pc = "idle"]
      BY <2>1, ClientEffects, BecomesEffect
    <3> QED BY <2>0, <3>1 DEF ClientOK, NewClient, Busy
  <2>2. CASE Allocates(c)
    <3>0. Becomes(c, [k EXCEPT !.pc = "filled", !.packet = Head(free_q), !.id = calls'])
      BY <2>2, ClientEffects
    <3>1. client'[c] = [k EXCEPT !.pc = "filled", !.packet = Head(free_q), !.id = calls']
      BY <3>0, BecomesEffect
    <3>2. free_q \in Seq(Packet) /\ calls \in Nat
      BY Types, BoundsAssumption DEF TypeParts, PacketTypes, CounterTypes
    <3>3. Head(free_q) \in Packet /\ calls' # 0
      BY <2>2, <3>2, TailHolds DEF Allocates
    <3>4. sessions' = sessions /\ k.pc = "idle"  BY <2>2 DEF Allocates
    <3> HIDE DEF k
    <3> QED BY <1>0, <1>t, <2>0, <3>1, <3>3, <3>4 DEF ClientOK, ClientType, Busy, k
  <2>3. CASE Notes(c)
    <3>1. client'[c] = [k EXCEPT !.pc = "noted", !.expected = token[k.packet]]
      BY <1>p, <2>3, ClientEffects, BecomesEffect DEF Notes, Busy
    <3> QED BY <1>0, <1>t, <2>0, <2>3, <3>1 DEF Notes, ClientOK, ClientType, Busy
  <2>4. CASE Writes(c) \/ SendDone(c) \/ TimesOut(c)
    <3>1. PICK pc \in {"written", "waiting", "timedout"} : client'[c] = [k EXCEPT !.pc = pc]
      BY <2>4, ClientEffects, BecomesEffect
    <3>2. k.pc \in {"noted", "written", "waiting"} /\ sessions' = sessions
      BY <2>4 DEF Writes, SendDone, TimesOut
    <3> QED BY <1>0, <1>t, <2>0, <3>1, <3>2 DEF ClientOK, ClientType, Busy
  <2>5. CASE WriteFails(c)
    <3>1. client'[c] = [k EXCEPT !.pc = "idle", !.packet = None]
      BY <2>5, ClientEffects, BecomesEffect
    <3> QED BY <1>0, <1>t, <2>0, <2>5, <3>1 DEF WriteFails, ClientOK, ClientType, Busy
  <2>6. CASE Wakes(c)
    <3>0. Becomes(c, [NewClient EXCEPT !.pc = "answered", !.answer = k.slot])
      BY <2>6, ClientEffects
    <3>1. client'[c] = [NewClient EXCEPT !.pc = "answered", !.answer = k.slot]
      BY <3>0, BecomesEffect
    <3>2. k.slot # None /\ sessions' = sessions /\ k.pc = "waiting"
      BY <1>0, <2>6 DEF Wakes, ClientOK
    <3> QED BY <1>0, <2>0, <3>1, <3>2 DEF ClientOK, NewClient, Busy
  <2>7. CASE Forgets(c)
    <3>0. Becomes(c, [k EXCEPT !.pc = "idle", !.packet = None, !.id = 0,
                                 !.expected = NoToken])
      BY <2>7, ClientEffects
    <3>1. client'[c] = [k EXCEPT !.pc = "idle", !.packet = None, !.id = 0,
                                 !.expected = NoToken]
      BY <3>0, BecomesEffect
    <3> QED BY <1>0, <1>t, <2>0, <2>7, <3>1 DEF Forgets, ClientOK, ClientType, Busy
  <2>8. CASE FreesAnswer(c)
    <3>1. client'[c] = [k EXCEPT !.pc = "idle", !.answer = None]
      BY <2>8, ClientEffects, BecomesEffect
    <3> QED BY <1>0, <1>t, <2>0, <2>8, <3>1 DEF FreesAnswer, ClientOK, ClientType, Busy
  <2>9. CASE Deregisters(c)
    <3>1. client'[c] = [k EXCEPT !.pc = "closing"]
      BY <2>9, ClientEffects, BecomesEffect
    <3>2. c \notin sessions' /\ k.pc = "idle"  BY <2>9 DEF Deregisters
    <3> QED BY <1>0, <1>t, <2>0, <3>1, <3>2 DEF ClientOK, ClientType, Busy
  <2>10. CASE Destroys(c)
    <3>1. client'[c] = NewClient
      BY <2>10, ClientEffects, BecomesEffect
    <3>2. c \notin sessions'  BY <1>0, <2>10 DEF Destroys, ClientOK
    <3> QED BY <2>0, <3>1, <3>2 DEF ClientOK, NewClient, Busy
  <2> QED
    BY <2>1, <2>2, <2>3, <2>4, <2>5, <2>6, <2>7, <2>8, <2>9, <2>10 DEF ClientActs, ClientStep
<1> QED BY <1>3, <1>4, <1>5 DEF ShapeInv

-----------------------------------------------------------------------------
(* Every buffer has one holder. *)

\* A buffer that stays where it is, or goes from one place to another.
Stays(y) == \A k, c : Has(k, c, y)' <=> Has(k, c, y)
Travels(y, k, c, l, d) ==
  /\ Has(k, c, y) /\ Has(l, d, y)'
  /\ \A m, e : Has(m, e, y)' => (m = l /\ e = d) \/ (Has(m, e, y) /\ ~(m = k /\ e = c))

LEMMA HolderStays == ASSUME NEW y, OneHolder(y), Stays(y) PROVE OneHolder(y)'
BY DEF OneHolder, Stays

LEMMA HolderMoves ==
  ASSUME NEW y, OneHolder(y), NEW k, NEW c, NEW l, NEW d, Travels(y, k, c, l, d)
  PROVE  OneHolder(y)'
BY DEF OneHolder, Travels

LEMMA BufferInit == Init => BufferInv
BY EmptyHolds DEF Init, BufferInv

\* What the places of buffers depend on.
LEMMA HoldersUnchanged ==
  ASSUME UNCHANGED <<buff_list, lost>>, receiver'.buf = receiver.buf,
         receiver'.freed = receiver.freed,
         \A c \in Client : client'[c].slot = client[c].slot /\ client'[c].answer = client[c].answer
  PROVE  \A y : Stays(y)
BY DEF Stays, Has

LEMMA BuffersUnchanged ==
  ASSUME BufferInv, UNCHANGED <<buff_list, lost, misfreed>>, link' = "off" => link = "off",
         link = "off" => link' = "off",
         receiver'.buf = receiver.buf, receiver'.freed = receiver.freed,
         \A c \in Client : client'[c].slot = client[c].slot /\ client'[c].answer = client[c].answer
  PROVE  BufferInv'
BY HoldersUnchanged, HolderStays DEF BufferInv

LEMMA LinkBuffersKept ==
  ASSUME TypeOK, ShapeInv, BufferInv,
         StartsThread \/ Hooks \/ Publishes \/ Stops \/ Joins \/ SpfAnswers \/ SpfSends
  PROVE  BufferInv'
<1> USE DEF counters, history
<1>1. CASE StartsThread
  <2>1. /\ Distinct(buff_list') /\ \A y \in Buffer : Holds(buff_list', y)
        /\ lost' = {} /\ receiver'.buf = None
        /\ \A c \in Client : client'[c].slot = None /\ client'[c].answer = None
    BY <1>1, SetToSeqHolds, SetsAssumption
       DEF StartsThread, ShapeInv, ClientOK, ReceiverOK, NewClient, AtRest
  <2>2. ASSUME NEW y \in Buffer PROVE OneHolder(y)'
    <3>1. y # None  BY NoneAssumption
    <3>2. Has("list", None, y)' /\ \A l, d : Has(l, d, y)' => l = "list" /\ d = None
      BY <2>1, <3>1 DEF Has
    <3> QED BY <3>2 DEF OneHolder
  <2> QED BY <2>1, <2>2 DEF BufferInv
<1>2. CASE Hooks \/ Publishes \/ Stops \/ Joins \/ SpfAnswers \/ SpfSends
  <2>1. /\ UNCHANGED <<buff_list, lost, misfreed, receiver, client>>
        /\ link' = "off" <=> link = "off"
    BY <1>2 DEF Hooks, Publishes, Stops, Joins, SpfAnswers, SpfSends
  <2> QED BY <2>1, BuffersUnchanged
<1> QED BY <1>1, <1>2

\* The buffer of the receiver is freed, or is freed already.
LEMMA ReceiverGivesBack ==
  ASSUME TypeOK, ShapeInv, BufferInv, link # "off", receiver.buf \in Buffer,
         NEW b \in {None, receiver.buf}, Frees(receiver.buf, b),
         receiver'.buf = None \/ receiver'.freed,
         UNCHANGED <<link, client, misfreed>>
  PROVE  BufferInv'
<1> DEFINE x == receiver.buf
<1>1. b \in Bs /\ x \in Bs /\ None \in Bs /\ b \in {None, x}  BY DEF Bs
<1>2. /\ buff_list' \in Seq(Buffer) /\ lost' \subseteq Buffer
      /\ Distinct(buff_list) => Distinct(buff_list')
      /\ \A y \in Buffer : Holds(buff_list', y)
           <=> Holds(buff_list, y) \/ (link = "up" /\ y \in {x, b})
      /\ \A y \in Buffer : y \in lost'
           <=> y \in lost \/ (link # "up" /\ y \in {x, b} /\ ~Holds(buff_list, y))
  BY <1>1, FreesEffect
<1>3. ASSUME ~misfreed, NEW y \in Buffer, OneHolder(y) PROVE OneHolder(y)'
  <2>0. y # None  BY NoneAssumption
  <2>1. CASE y # x
    <3>1. Stays(y)  BY <1>1, <1>2, <2>0, <2>1 DEF Stays, Has
    <3> QED BY <1>3, <3>1, HolderStays
  <2>2. CASE y = x /\ receiver.freed
    <3>1. Holds(buff_list, y)  BY <2>2 DEF ShapeInv, ReceiverOK
    <3>2. Stays(y)  BY <1>2, <2>0, <2>2, <3>1 DEF Stays, Has
    <3> QED BY <1>3, <3>2, HolderStays
  <2>3. CASE y = x /\ ~receiver.freed
    <3>1. Has("receiver", None, y)  BY <2>3 DEF Has
    <3>2. ~Holds(buff_list, y)  BY <1>3, <3>1 DEF OneHolder, Has
    <3>3. CASE link = "up"
      <4>1. Travels(y, "receiver", None, "list", None)
        BY <1>2, <2>0, <2>3, <3>1, <3>3 DEF Travels, Has
      <4> QED BY <1>3, <4>1, HolderMoves
    <3>4. CASE link # "up"
      <4>1. Travels(y, "receiver", None, "lost", None)
        BY <1>2, <2>0, <2>3, <3>1, <3>2, <3>4 DEF Travels, Has
      <4> QED BY <1>3, <4>1, HolderMoves
    <3> QED BY <3>3, <3>4
  <2> QED BY <2>1, <2>2, <2>3
<1> QED BY <1>2, <1>3 DEF BufferInv

LEMMA AnswerBuffersKept ==
  ASSUME TypeOK, ShapeInv, BufferInv, Answers
  PROVE  BufferInv'
<1> USE DEF Loops
<1> PICK c \in Client : c = Callee  BY DEF Answers, ShapeInv, ReceiverOK, At
<1>1. /\ client \in [Client -> ClientType] /\ client[c] \in ClientType
      /\ receiver \in ReceiverType
  BY Types DEF TypeParts
<1>2. /\ link = "up" /\ link' = link /\ receiver' = AtRest /\ receiver.buf \in Buffer
      /\ ~receiver.freed /\ client[c].slot \in Bs /\ None \in Bs
  BY <1>1 DEF Answers, Destroyed, ShapeInv, ClientOK, ReceiverOK, ReceiverType, ClientType, Bs, At
<1> DEFINE x == receiver.buf
           old == client[c].slot
<1>0. Has("receiver", None, x)  BY <1>2 DEF Has
<1>3. CASE receiver.msg.token = client[c].expected
  <2>1. /\ Frees(old, None) /\ misfreed' = misfreed
        /\ client' = [client EXCEPT ![c].slot = x, ![c].signalled = TRUE]
    BY <1>3 DEF Answers
  <2>2. /\ \A d \in Client \ {c} : client'[d] = client[d]
        /\ client'[c].slot = x /\ client'[c].answer = client[c].answer
    BY <1>1, <2>1 DEF ClientType
  <2>3. /\ Distinct(buff_list) => Distinct(buff_list')
        /\ \A y \in Buffer : Holds(buff_list', y) <=> Holds(buff_list, y) \/ y \in {old, None}
        /\ \A y \in Buffer : y \in lost' <=> y \in lost
    BY <1>2, <2>1, FreesEffect
  <2>4. ASSUME ~misfreed, NEW y \in Buffer, OneHolder(y), OneHolder(x) PROVE OneHolder(y)'
    <3>0. y # None /\ receiver'.buf = None  BY <1>2, NoneAssumption DEF AtRest
    <3>1. CASE y = x
      <4>1. ~Has("slot", c, y)  BY <1>0, <2>4, <3>1 DEF OneHolder
      <4>2. y # old  BY <4>1 DEF Has
      <4>3. Travels(y, "receiver", None, "slot", c)
        BY <1>0, <2>2, <2>3, <3>0, <3>1, <4>2 DEF Travels, Has
      <4> QED BY <2>4, <4>3, HolderMoves
    <3>2. CASE y = old /\ y # x
      <4>1. Travels(y, "slot", c, "list", None)
        BY <2>2, <2>3, <3>0, <3>2 DEF Travels, Has
      <4> QED BY <2>4, <4>1, HolderMoves
    <3>3. CASE y # x /\ y # old
      <4>1. Stays(y)  BY <2>2, <2>3, <3>0, <3>3 DEF Stays, Has
      <4> QED BY <2>4, <4>1, HolderStays
    <3> QED BY <3>1, <3>2, <3>3
  <2> QED BY <1>2, <2>1, <2>3, <2>4 DEF BufferInv
<1>4. CASE receiver.msg.token # client[c].expected
  <2>1. /\ Frees(old, x) /\ misfreed' = (misfreed \/ old # None) /\ client' = client
    BY <1>4 DEF Answers, Unwanted
  <2>2. /\ Distinct(buff_list) => Distinct(buff_list')
        /\ \A y \in Buffer : Holds(buff_list', y) <=> Holds(buff_list, y) \/ y \in {old, x}
        /\ \A y \in Buffer : y \in lost' <=> y \in lost
    BY <1>2, <2>1, FreesEffect DEF Bs
  <2>3. ASSUME ~misfreed', NEW y \in Buffer, OneHolder(y) PROVE OneHolder(y)'
    <3>0. y # None /\ receiver'.buf = None /\ old = None
      BY <1>2, <2>1, <2>3, NoneAssumption DEF AtRest
    <3>1. CASE y = x
      <4>1. Travels(y, "receiver", None, "list", None)
        BY <1>0, <2>1, <2>2, <3>0, <3>1 DEF Travels, Has
      <4> QED BY <2>3, <4>1, HolderMoves
    <3>2. CASE y # x
      <4>1. Stays(y)  BY <2>1, <2>2, <3>0, <3>2 DEF Stays, Has
      <4> QED BY <2>3, <4>1, HolderStays
    <3> QED BY <3>1, <3>2
  <2> QED BY <1>2, <2>1, <2>2, <2>3 DEF BufferInv
<1> QED BY <1>3, <1>4

LEMMA ReceiverBuffersKept ==
  ASSUME TypeOK, ShapeInv, BufferInv, ReceiverStep
  PROVE  BufferInv'
<1> USE DEF history, At, Goes, Loops, Exits
<1>1. link # "off"  BY ReceiverRuns
<1>2. receiver \in ReceiverType /\ receiver.buf \in Bs /\ buff_list \in Seq(Buffer)
  BY Types DEF TypeParts, ReceiverType, BufferTypes
<1>3. CASE Polls \/ EndsPoll \/ LooksUp \/ (Reads /\ buff_list = <<>>)
  <2>1. /\ UNCHANGED <<buff_list, lost, misfreed, link, client>>
        /\ receiver'.buf = receiver.buf /\ receiver'.freed = receiver.freed
    <3>1. receiver.freed \in BOOLEAN  BY <1>2 DEF ReceiverType
    <3>2. CASE EndsPoll \/ Polls
      BY <1>2, <3>1, <3>2
         DEF Polls, EndsPoll, ReceiverType, ShapeInv, ReceiverOK, AtRest, NoThread
    <3>3. CASE LooksUp \/ (Reads /\ buff_list = <<>>)
      BY <1>2, <3>3 DEF LooksUp, Reads, ReceiverType
    <3> QED BY <1>3, <3>2, <3>3
  <2> QED BY <2>1, BuffersUnchanged
<1>4. CASE Reads /\ buff_list # <<>>
  <2> DEFINE x == Head(buff_list)
  <2>1. /\ x \in Buffer /\ Holds(buff_list, x)
        /\ \A y : Holds(buff_list, y) <=> y = x \/ Holds(buff_list', y)
        /\ Distinct(buff_list') /\ ~Holds(buff_list', x)
    BY <1>2, <1>4, TailHolds DEF Reads, BufferInv
  <2>2. /\ receiver'.buf = x /\ ~receiver'.freed /\ receiver.buf = None
        /\ UNCHANGED <<lost, misfreed, link, client>>
    BY <1>4 DEF Reads, ShapeInv, ReceiverOK
  <2> HIDE DEF x
  <2>3. ASSUME NEW y \in Buffer, OneHolder(y) PROVE OneHolder(y)'
    <3>0. y # None  BY NoneAssumption
    <3>1. CASE y = x
      <4>1. Travels(y, "list", None, "receiver", None)
        BY <2>1, <2>2, <3>0, <3>1 DEF Travels, Has
      <4> QED BY <2>3, <4>1, HolderMoves
    <3>2. CASE y # x
      <4>1. Stays(y)  BY <2>1, <2>2, <3>0, <3>2 DEF Stays, Has
      <4> QED BY <2>3, <4>1, HolderStays
    <3> QED BY <3>1, <3>2
  <2> QED BY <2>1, <2>2, <2>3 DEF BufferInv
<1> DEFINE x == receiver.buf
<1>5. CASE ReadFails \/ Discards \/ CallsNobody
  <2>1. /\ x \in Buffer /\ ~receiver.freed /\ receiver'.buf = None
        /\ UNCHANGED <<misfreed, link, client>>
    BY <1>2, <1>5 DEF ReadFails, Discards, CallsNobody, ShapeInv, ReceiverOK, Bs, AtRest
  <2>2. Has("receiver", None, x)  BY <2>1 DEF Has
  <2>3. CASE ReadFails
    <3>1. /\ Distinct(buff_list) => Distinct(buff_list')
          /\ \A y \in Buffer : Holds(buff_list', y) <=> Holds(buff_list, y) \/ y = x
          /\ lost' = lost
      BY <1>2, <2>3, PutHolds DEF ReadFails
    <3>2. ASSUME NEW y \in Buffer, OneHolder(y) PROVE OneHolder(y)'
      <4>0. y # None  BY NoneAssumption
      <4>1. CASE y = x
        <5>1. Travels(y, "receiver", None, "list", None)
          BY <2>1, <2>2, <3>1, <4>0, <4>1 DEF Travels, Has
        <5> QED BY <3>2, <5>1, HolderMoves
      <4>2. CASE y # x
        <5>1. Stays(y)  BY <2>1, <3>1, <4>0, <4>2 DEF Stays, Has
        <5> QED BY <3>2, <5>1, HolderStays
      <4> QED BY <4>1, <4>2
    <3> QED BY <2>1, <3>1, <3>2 DEF BufferInv
  <2>4. CASE Discards \/ CallsNobody
    <3>1. /\ buff_list' = buff_list
          /\ \A y \in Buffer : y \in lost' <=> y \in lost \/ y = x
      BY <2>1, <2>4, LosesEffect DEF Discards, CallsNobody
    <3>2. ASSUME NEW y \in Buffer, OneHolder(y) PROVE OneHolder(y)'
      <4>0. y # None  BY NoneAssumption
      <4>1. CASE y = x
        <5>1. Travels(y, "receiver", None, "lost", None)
          BY <2>1, <2>2, <3>1, <4>0, <4>1 DEF Travels, Has
        <5> QED BY <3>2, <5>1, HolderMoves
      <4>2. CASE y # x
        <5>1. Stays(y)  BY <2>1, <3>1, <4>0, <4>2 DEF Stays, Has
        <5> QED BY <3>2, <5>1, HolderStays
      <4> QED BY <4>1, <4>2
    <3> QED BY <2>1, <3>1, <3>2 DEF BufferInv
  <2> QED BY <1>5, <2>3, <2>4
<1>6. CASE Notifies \/ Fails \/ PutsBack
  <2>1. PICK b \in {None, x} : Frees(x, b)
    BY <1>6 DEF Notifies, Fails, PutsBack
  <2>2. receiver'.buf = None \/ receiver'.freed
    <3>1. CASE Fails
      <4>1. receiver' = [receiver EXCEPT !.pc = "refused", !.freed = TRUE]  BY <3>1 DEF Fails
      <4> QED BY <1>2, <4>1 DEF ReceiverType
    <3> QED BY <1>6, <3>1 DEF Notifies, PutsBack, AtRest
  <2>3. x \in Buffer /\ UNCHANGED <<link, client, misfreed>>
    BY <1>2, <1>6 DEF Notifies, Fails, PutsBack, ShapeInv, ReceiverOK, Bs
  <2> QED BY <1>1, <2>1, <2>2, <2>3, ReceiverGivesBack
<1> QED BY <1>3, <1>4, <1>5, <1>6, AnswerBuffersKept DEF ReceiverStep

LEMMA ClientBuffersKept ==
  ASSUME TypeOK, ShapeInv, BufferInv, NEW c \in Client, ClientActs(c)
  PROVE  BufferInv'
<1> DEFINE k == client[c]
<1>1. /\ link = "up" /\ UNCHANGED <<link, receiver, misfreed>> /\ lost' = lost
  BY ClientFrees DEF ClientActs, ClientStep, Registers, Allocates, Deregisters, Notes, Writes,
       WriteFails, SendDone, Wakes, TimesOut, Forgets, FreesAnswer, Destroys, history
<1>2. k \in ClientType /\ k.slot \in Bs /\ k.answer \in Bs /\ None \in Bs
  BY Types DEF TypeParts, ClientType, Bs
<1>p. k.pc \in Busy => k.packet \in Packet  BY DEF ShapeInv, ClientOK
\* The others hold what they held.
<1>3. \A d \in Client \ {c} : client'[d] = client[d]
  BY <1>p, ClientEffects, BecomesEffect DEF ClientActs, ClientStep, Busy, Notes, Is
<1>4. CASE \/ Registers(c) \/ Allocates(c) \/ Deregisters(c) \/ Notes(c) \/ Writes(c)
           \/ WriteFails(c) \/ SendDone(c) \/ TimesOut(c) \/ Forgets(c)
  <2>1. client'[c].slot = k.slot /\ client'[c].answer = k.answer
    <3>1. CASE Registers(c)
      <4>1. client'[c] = [NewClient EXCEPT !.pc = "idle"] /\ k = NewClient
        BY <3>1, ClientEffects, BecomesEffect DEF Registers, Is, ShapeInv, ClientOK
      <4> QED BY <4>1 DEF NewClient
    <3>2. CASE Allocates(c)
      <4>0. Becomes(c, [k EXCEPT !.pc = "filled", !.packet = Head(free_q), !.id = calls'])
        BY <3>2, ClientEffects
      <4>1. client'[c] = [k EXCEPT !.pc = "filled", !.packet = Head(free_q), !.id = calls']
        BY <4>0, BecomesEffect
      <4> QED BY <1>2, <4>1 DEF ClientType
    <3>3. CASE Notes(c)
      <4>1. client'[c] = [k EXCEPT !.pc = "noted", !.expected = token[k.packet]]
        BY <1>p, <3>3, ClientEffects, BecomesEffect DEF Notes, Busy, Is
      <4> QED BY <1>2, <4>1 DEF ClientType
    <3>4. CASE Deregisters(c) \/ Writes(c) \/ SendDone(c) \/ TimesOut(c)
      <4>1. PICK pc : client'[c] = [k EXCEPT !.pc = pc]
        BY <3>4, ClientEffects, BecomesEffect
      <4> QED BY <1>2, <4>1 DEF ClientType
    <3>5. CASE WriteFails(c)
      <4>1. client'[c] = [k EXCEPT !.pc = "idle", !.packet = None]
        BY <3>5, ClientEffects, BecomesEffect
      <4> QED BY <1>2, <4>1 DEF ClientType
    <3>6. CASE Forgets(c)
      <4>0. Becomes(c, [k EXCEPT !.pc = "idle", !.packet = None, !.id = 0,
                                 !.expected = NoToken])
        BY <3>6, ClientEffects
      <4>1. client'[c] = [k EXCEPT !.pc = "idle", !.packet = None, !.id = 0,
                                   !.expected = NoToken]
        BY <4>0, BecomesEffect
      <4> QED BY <1>2, <4>1 DEF ClientType
    <3> QED BY <1>4, <3>1, <3>2, <3>3, <3>4, <3>5, <3>6
  <2>2. buff_list' = buff_list
    BY <1>4 DEF Registers, Allocates, Deregisters, Notes, Writes, WriteFails, SendDone,
                TimesOut, Forgets
  <2>3. \A d \in Client : client'[d].slot = client[d].slot /\ client'[d].answer = client[d].answer
    BY <1>3, <2>1
  <2> QED BY <1>1, <2>2, <2>3, BuffersUnchanged
<1>5. CASE Wakes(c)
  <2>0. Becomes(c, [NewClient EXCEPT !.pc = "answered", !.answer = k.slot])
    BY <1>5, ClientEffects
  <2>1. client'[c] = [NewClient EXCEPT !.pc = "answered", !.answer = k.slot]
    BY <2>0, BecomesEffect
  <2>2. client'[c].slot = None /\ client'[c].answer = k.slot /\ k.answer = None
        /\ buff_list' = buff_list
    <3>1. k.pc = "waiting" /\ buff_list' = buff_list  BY <1>5 DEF Wakes, Is
    <3>2. k.answer = None  BY <3>1 DEF ShapeInv, ClientOK
    <3> HIDE DEF k
    <3> QED BY <2>1, <3>1, <3>2 DEF NewClient
  <2>3. ASSUME NEW y \in Buffer, OneHolder(y) PROVE OneHolder(y)'
    <3>0. y # None  BY NoneAssumption
    <3>1. CASE y = k.slot
      <4>1. Travels(y, "slot", c, "answer", c)
        BY <1>1, <1>3, <2>2, <3>0, <3>1 DEF Travels, Has
      <4> QED BY <2>3, <4>1, HolderMoves
    <3>2. CASE y # k.slot
      <4>1. Stays(y)  BY <1>1, <1>3, <2>2, <3>0, <3>2 DEF Stays, Has
      <4> QED BY <2>3, <4>1, HolderStays
    <3> QED BY <3>1, <3>2
  <2> QED BY <1>1, <2>2, <2>3 DEF BufferInv
<1>6. CASE FreesAnswer(c)
  <2>1. client'[c] = [k EXCEPT !.pc = "idle", !.answer = None]
    BY <1>6, ClientEffects, BecomesEffect
  <2>2. client'[c].slot = k.slot /\ client'[c].answer = None  BY <1>2, <2>1 DEF ClientType
  <2>3. /\ Distinct(buff_list) => Distinct(buff_list')
        /\ \A y \in Buffer : Holds(buff_list', y)
             <=> Holds(buff_list, y) \/ (link = "up" /\ y \in {k.answer, None})
    BY <1>2, <1>6, FreesEffect DEF FreesAnswer
  <2>4. ASSUME NEW y \in Buffer, OneHolder(y) PROVE OneHolder(y)'
    <3>0. y # None  BY NoneAssumption
    <3>1. CASE y = k.answer
      <4>1. Travels(y, "answer", c, "list", None)
        BY <1>1, <1>3, <2>2, <2>3, <3>0, <3>1 DEF Travels, Has
      <4> QED BY <2>4, <4>1, HolderMoves
    <3>2. CASE y # k.answer
      <4>1. Stays(y)  BY <1>1, <1>3, <2>2, <2>3, <3>0, <3>2 DEF Stays, Has
      <4> QED BY <2>4, <4>1, HolderStays
    <3> QED BY <3>1, <3>2
  <2> QED BY <1>1, <2>3, <2>4 DEF BufferInv
<1>7. CASE Destroys(c)
  <2>1. client'[c] = NewClient  BY <1>7, ClientEffects, BecomesEffect
  <2>2. client'[c].slot = None /\ client'[c].answer = None /\ k.answer = None
    BY <1>7, <2>1 DEF NewClient, Destroys, Is, ShapeInv, ClientOK
  <2>3. /\ Distinct(buff_list) => Distinct(buff_list')
        /\ \A y \in Buffer : Holds(buff_list', y)
             <=> Holds(buff_list, y) \/ (link = "up" /\ y \in {k.slot, None})
    BY <1>2, <1>7, FreesEffect DEF Destroys
  <2>4. ASSUME NEW y \in Buffer, OneHolder(y) PROVE OneHolder(y)'
    <3>0. y # None  BY NoneAssumption
    <3>1. CASE y = k.slot
      <4>1. Travels(y, "slot", c, "list", None)
        BY <1>1, <1>3, <2>2, <2>3, <3>0, <3>1 DEF Travels, Has
      <4> QED BY <2>4, <4>1, HolderMoves
    <3>2. CASE y # k.slot
      <4>1. Stays(y)  BY <1>1, <1>3, <2>2, <2>3, <3>0, <3>2 DEF Stays, Has
      <4> QED BY <2>4, <4>1, HolderStays
    <3> QED BY <3>1, <3>2
  <2> QED BY <1>1, <2>3, <2>4 DEF BufferInv
<1> QED BY <1>4, <1>5, <1>6, <1>7 DEF ClientActs, ClientStep

-----------------------------------------------------------------------------
(* Every packet has one owner. *)

OwnerStays(p) == \A k, c : Owns(k, c, p)' <=> Owns(k, c, p)
OwnerMoves(p, k, c, l, d) ==
  /\ Owns(k, c, p) /\ Owns(l, d, p)'
  /\ \A m, e : Owns(m, e, p)' => (m = l /\ e = d) \/ (Owns(m, e, p) /\ ~(m = k /\ e = c))

LEMMA OneOwnerStays == ASSUME NEW p, OneOwnerOf(p), OwnerStays(p) PROVE OneOwnerOf(p)'
BY DEF OneOwnerOf, OwnerStays

LEMMA OneOwnerMoves ==
  ASSUME NEW p, OneOwnerOf(p), NEW k, NEW c, NEW l, NEW d, OwnerMoves(p, k, c, l, d)
  PROVE  OneOwnerOf(p)'
BY DEF OneOwnerOf, OwnerMoves

LEMMA PacketInit == Init => PacketInv
<1> SUFFICES ASSUME Init PROVE PacketInv  OBVIOUS
<1>1. /\ Distinct(free_q) /\ \A p \in Packet : Holds(free_q, p)
      /\ \A c \in Client : client[c].packet = None
  BY SetToSeqHolds, SetsAssumption DEF Init, NewClient
<1>2. ASSUME NEW p \in Packet PROVE OneOwnerOf(p)
  <2>1. Owns("queue", None, p) /\ \A l, d : Owns(l, d, p) => l = "queue" /\ d = None
    BY <1>1, NoneAssumption DEF Owns
  <2> QED BY <2>1 DEF OneOwnerOf
<1> QED BY <1>1, <1>2 DEF PacketInv

Sends(r) == r.pc \in {"filled", "noted", "written"}

\* A step that neither takes nor gives a packet.
LEMMA PacketsUnchanged ==
  ASSUME PacketInv, free_q' = free_q,
         \A c \in Client :
           /\ Sends(client'[c]) <=> Sends(client[c])
           /\ Sends(client[c]) => client'[c].packet = client[c].packet
  PROVE  PacketInv'
<1>1. \A p : OwnerStays(p)  BY DEF OwnerStays, Owns, Sends
<1> QED BY <1>1, OneOwnerStays DEF PacketInv

LEMMA OthersPacketsKept ==
  ASSUME TypeOK, ShapeInv, PacketInv,
         \/ ReceiverStep
         \/ StartsThread \/ Hooks \/ Publishes \/ Stops \/ Joins \/ SpfAnswers \/ SpfSends
  PROVE  PacketInv'
<1> USE DEF counters, history
<1>1. CASE Answers
  <2> PICK c \in Client : c = Callee  BY <1>1 DEF Answers, ShapeInv, ReceiverOK, At
  <2>1. client \in [Client -> ClientType] /\ client[c] \in ClientType  BY Types DEF TypeParts
  <2>2. \/ client' = client
        \/ client' = [client EXCEPT ![c].slot = receiver.buf, ![c].signalled = TRUE]
    BY <1>1 DEF Answers
  <2>3. \A d \in Client : client'[d].pc = client[d].pc /\ client'[d].packet = client[d].packet
    BY <2>1, <2>2 DEF ClientType
  <2>4. free_q' = free_q  BY <1>1 DEF Answers
  <2> QED BY <2>3, <2>4, PacketsUnchanged DEF Sends
<1>2. CASE ~Answers
  <2>1. UNCHANGED <<free_q, client>>
    BY <1>2 DEF StartsThread, Hooks, Publishes, Stops, Joins, SpfAnswers, SpfSends,
                ReceiverStep, Polls, EndsPoll, Reads, ReadFails, Discards, LooksUp, Notifies,
                Fails, CallsNobody, PutsBack
  <2> QED BY <2>1, PacketsUnchanged
<1> QED BY <1>1, <1>2

LEMMA ClientPacketsKept ==
  ASSUME TypeOK, ShapeInv, PacketInv, NEW c \in Client, ClientActs(c)
  PROVE  PacketInv'
<1> DEFINE k == client[c]
<1> USE DEF Is
<1>1. k \in ClientType /\ free_q \in Seq(Packet)
  BY Types DEF TypeParts, PacketTypes
<1>p. k.pc \in Busy => k.packet \in Packet  BY DEF ShapeInv, ClientOK
<1>2. \A d \in Client \ {c} : client'[d] = client[d]
  BY <1>p, ClientEffects, BecomesEffect DEF ClientActs, ClientStep, Busy, Notes
<1>3. CASE \/ Registers(c) \/ Deregisters(c) \/ Notes(c) \/ Writes(c) \/ Wakes(c)
           \/ TimesOut(c) \/ Forgets(c) \/ FreesAnswer(c) \/ Destroys(c)
  <2>0. free_q' = free_q
    BY <1>3 DEF Registers, Deregisters, Notes, Writes, Wakes, TimesOut, Forgets, FreesAnswer,
                Destroys
  <2>1. CASE Notes(c)
    <3>1. client'[c] = [k EXCEPT !.pc = "noted", !.expected = token[k.packet]]
      BY <1>p, <2>1, ClientEffects, BecomesEffect DEF Notes, Busy
    <3>2. k.pc = "filled"  BY <2>1 DEF Notes
    <3>3. client'[c].pc = "noted" /\ client'[c].packet = k.packet
      BY <1>1, <3>1 DEF ClientType
    <3> QED BY <1>2, <2>0, <3>2, <3>3, PacketsUnchanged DEF Sends
  <2>2. CASE Writes(c)
    <3>1. client'[c] = [k EXCEPT !.pc = "written"]  BY <2>2, ClientEffects, BecomesEffect
    <3>2. k.pc = "noted"  BY <2>2 DEF Writes
    <3>3. client'[c].pc = "written" /\ client'[c].packet = k.packet
      BY <1>1, <3>1 DEF ClientType
    <3> QED BY <1>2, <2>0, <3>2, <3>3, PacketsUnchanged DEF Sends
  <2>3. CASE \/ Registers(c) \/ Deregisters(c) \/ Wakes(c) \/ TimesOut(c) \/ Forgets(c)
             \/ FreesAnswer(c) \/ Destroys(c)
    <3>1. ~Sends(k)
      BY <2>3 DEF Sends, Registers, Deregisters, Wakes, TimesOut, Forgets, FreesAnswer, Destroys
    <3>2. ~Sends(client'[c])
      <4>1. CASE Registers(c)
        <5>1. client'[c] = [NewClient EXCEPT !.pc = "idle"]
          BY <4>1, ClientEffects, BecomesEffect
        <5> QED BY <5>1 DEF NewClient, Sends
      <4>2. CASE Deregisters(c) \/ TimesOut(c)
        <5>1. PICK pc \in {"closing", "timedout"} : client'[c] = [k EXCEPT !.pc = pc]
          BY <4>2, ClientEffects, BecomesEffect
        <5> QED BY <1>1, <5>1 DEF ClientType, Sends
      <4>3. CASE Wakes(c)
        <5>0. Becomes(c, [NewClient EXCEPT !.pc = "answered", !.answer = k.slot])
          BY <4>3, ClientEffects
        <5>1. client'[c] = [NewClient EXCEPT !.pc = "answered", !.answer = k.slot]
          BY <5>0, BecomesEffect
        <5> QED BY <5>1 DEF NewClient, Sends
      <4>4. CASE Forgets(c)
        <5>0. Becomes(c, [k EXCEPT !.pc = "idle", !.packet = None, !.id = 0,
                                   !.expected = NoToken])
          BY <4>4, ClientEffects
        <5>1. client'[c] = [k EXCEPT !.pc = "idle", !.packet = None, !.id = 0,
                                     !.expected = NoToken]
          BY <5>0, BecomesEffect
        <5> QED BY <1>1, <5>1 DEF ClientType, Sends
      <4>5. CASE FreesAnswer(c)
        <5>1. client'[c] = [k EXCEPT !.pc = "idle", !.answer = None]
          BY <4>5, ClientEffects, BecomesEffect
        <5> QED BY <1>1, <5>1 DEF ClientType, Sends
      <4>6. CASE Destroys(c)
        <5>1. client'[c] = NewClient  BY <4>6, ClientEffects, BecomesEffect
        <5> QED BY <5>1 DEF NewClient, Sends
      <4> QED BY <2>3, <4>1, <4>2, <4>3, <4>4, <4>5, <4>6
    <3> QED BY <1>2, <2>0, <3>1, <3>2, PacketsUnchanged
  <2> QED BY <1>3, <2>1, <2>2, <2>3
<1>4. CASE Allocates(c)
  <2> DEFINE x == Head(free_q)
  <2>0. Becomes(c, [k EXCEPT !.pc = "filled", !.packet = x, !.id = calls'])
    BY <1>4, ClientEffects
  <2>1. client'[c] = [k EXCEPT !.pc = "filled", !.packet = x, !.id = calls'] /\ k.pc = "idle"
    BY <1>4, <2>0, BecomesEffect DEF Allocates
  <2>2. /\ Holds(free_q, x) /\ Distinct(free_q')
        /\ \A y : Holds(free_q, y) <=> y = x \/ Holds(free_q', y)
        /\ ~Holds(free_q', x)
    BY <1>1, <1>4, TailHolds DEF Allocates, PacketInv
  <2> HIDE DEF x
  <2>3. client'[c].pc = "filled" /\ client'[c].packet = x  BY <1>1, <2>1 DEF ClientType
  <2>4. ASSUME NEW p \in Packet, OneOwnerOf(p) PROVE OneOwnerOf(p)'
    <3>1. CASE p = x
      <4>1. OwnerMoves(p, "queue", None, "sender", c)
        BY <1>2, <2>1, <2>2, <2>3, <3>1 DEF OwnerMoves, Owns
      <4> QED BY <2>4, <4>1, OneOwnerMoves
    <3>2. CASE p # x
      <4>1. OwnerStays(p)  BY <1>2, <2>1, <2>2, <2>3, <3>2 DEF OwnerStays, Owns
      <4> QED BY <2>4, <4>1, OneOwnerStays
    <3> QED BY <3>1, <3>2
  <2> QED BY <2>2, <2>4 DEF PacketInv
<1>5. CASE WriteFails(c) \/ SendDone(c)
  <2>1. /\ Sends(k) /\ k.packet \in Packet /\ free_q' = Append(free_q, k.packet)
        /\ k.pc \in {"filled", "noted", "written"}
    BY <1>5, <1>p DEF WriteFails, SendDone, Sends, Busy
  <2>2. ~Sends(client'[c])
    <3>1. CASE WriteFails(c)
      <4>1. client'[c] = [k EXCEPT !.pc = "idle", !.packet = None]
        BY <3>1, ClientEffects, BecomesEffect
      <4> QED BY <1>1, <4>1 DEF ClientType, Sends
    <3>2. CASE SendDone(c)
      <4>1. client'[c] = [k EXCEPT !.pc = "waiting"]  BY <3>2, ClientEffects, BecomesEffect
      <4> QED BY <1>1, <4>1 DEF ClientType, Sends
    <3> QED BY <1>5, <3>1, <3>2
  <2>3. Owns("sender", c, k.packet)  BY <2>1 DEF Owns
  <2>4. ~Holds(free_q, k.packet)  BY <2>1, <2>3 DEF PacketInv, OneOwnerOf, Owns
  <2>5. Distinct(free_q') /\ \A y : Holds(free_q', y) <=> Holds(free_q, y) \/ y = k.packet
    BY <1>1, <2>1, <2>4, AppendHolds DEF PacketInv
  <2>6. ASSUME NEW p \in Packet, OneOwnerOf(p) PROVE OneOwnerOf(p)'
    <3>1. CASE p = k.packet
      <4>1. OwnerMoves(p, "sender", c, "queue", None)
        BY <1>2, <2>2, <2>3, <2>5, <3>1 DEF OwnerMoves, Owns, Sends
      <4> QED BY <2>6, <4>1, OneOwnerMoves
    <3>2. CASE p # k.packet
      <4>1. OwnerStays(p)  BY <1>2, <2>1, <2>2, <2>5, <3>2 DEF OwnerStays, Owns, Sends
      <4> QED BY <2>6, <4>1, OneOwnerStays
    <3> QED BY <3>1, <3>2
  <2> QED BY <2>5, <2>6 DEF PacketInv
<1> QED BY <1>3, <1>4, <1>5 DEF ClientActs, ClientStep

-----------------------------------------------------------------------------
(* Every answer carries the token of its command, unless it was cleared. *)

MessagesNamed ==
  /\ \A m \in spf : Named(m.id, m.token)
  /\ \A i \in DOMAIN inbox : Named(inbox[i].id, inbox[i].token)
  /\ Named(receiver.msg.id, receiver.msg.token)

CallNamed(c) ==
  /\ client[c].pc \in {"filled", "noted"} => Named(client[c].id, token[client[c].packet])
  /\ client[c].pc \in {"noted", "written", "waiting"} => Named(client[c].id, client[c].expected)

LEMMA TokenParts ==
  TokenInv <=> MessagesNamed /\ (\A c \in Client : CallNamed(c)) /\ AnswersAreTaken
BY DEF TokenInv, MessagesNamed, CallNamed

LEMMA TokenPartsPrimed ==
  TokenInv' <=> MessagesNamed' /\ (\A c \in Client : CallNamed(c)') /\ AnswersAreTaken'
BY DEF TokenInv, MessagesNamed, CallNamed

LEMMA TokenInit == Init => TokenInv
BY DEF Init, TokenInv, Named, NoThread, AtRest, NoMsg, NoToken, AnswersAreTaken, NewClient

LEMMA OthersTokensKept ==
  ASSUME TypeOK, ShapeInv, TokenInv,
         \/ ReceiverStep
         \/ StartsThread \/ Hooks \/ Publishes \/ Stops \/ Joins \/ SpfAnswers \/ SpfSends
  PROVE  TokenInv'
<1> USE DEF counters, history, At, Goes, Loops, Exits
<1>0. /\ client \in [Client -> ClientType] /\ receiver \in ReceiverType
      /\ inbox \in Seq(Messages) /\ spf \subseteq Messages
  BY Types DEF TypeParts, MessageSets
<1>s. UNCHANGED <<token, scrubbed>>
  BY DEF StartsThread, Hooks, Publishes, Stops, Joins, SpfAnswers, SpfSends,
         ReceiverStep, Polls, EndsPoll, Reads, ReadFails, Discards, LooksUp, Answers, Notifies,
         Fails, CallsNobody, PutsBack
<1>r. AtRest.msg = NoMsg /\ NoThread.msg = NoMsg /\ Named(NoMsg.id, NoMsg.token)
  BY DEF AtRest, NoThread, NoMsg, NoToken, Named
<1>1. ASSUME UNCHANGED <<spf, inbox, client, dropped>>,
             receiver'.msg = receiver.msg \/ receiver'.msg = NoMsg
      PROVE  TokenInv'
  BY <1>1, <1>s, <1>r DEF TokenInv, Named, AnswersAreTaken
<1>2. CASE Hooks \/ Publishes \/ Stops \/ Joins \/ EndsPoll \/ ReadFails \/ Discards
           \/ LooksUp \/ Notifies \/ Fails \/ CallsNobody \/ PutsBack \/ StartsThread \/ Polls
  <2>1. UNCHANGED <<spf, inbox, client, dropped>>
    BY <1>2 DEF StartsThread, Hooks, Publishes, Stops, Joins, Polls, EndsPoll, ReadFails,
                Discards, LooksUp, Notifies, Fails, CallsNobody, PutsBack
  <2>2. \/ receiver' \in {receiver, AtRest, NoThread}
        \/ \E pc : receiver' = [receiver EXCEPT !.pc = pc]
        \/ receiver' = [receiver EXCEPT !.pc = "refused", !.freed = TRUE]
    BY <1>2 DEF StartsThread, Hooks, Publishes, Stops, Joins, Polls, EndsPoll, ReadFails,
                Discards, LooksUp, Notifies, Fails, CallsNobody, PutsBack
  <2>3. receiver'.msg = receiver.msg \/ receiver'.msg = NoMsg
    BY <1>0, <1>r, <2>2 DEF ReceiverType
  <2> QED BY <1>1, <2>1, <2>3
<1>3. CASE SpfAnswers
  <2> PICK m \in spf : SpfAnswers!(m)  BY <1>3 DEF SpfAnswers
  <2>1. m \in Messages /\ Named(m.id, m.token)  BY <1>0 DEF TokenInv
  <2>2. \A i \in DOMAIN inbox' : inbox'[i] = m \/ (i \in DOMAIN inbox /\ inbox'[i] = inbox[i])
    BY <1>0, <2>1
  <2>3. MessagesNamed'
    BY <1>s, <2>1, <2>2 DEF MessagesNamed, TokenInv, Named
  <2>4. UNCHANGED <<client, dropped>>  OBVIOUS
  <2> QED BY <1>s, <2>3, <2>4, TokenPartsPrimed DEF TokenInv, CallNamed, Named, AnswersAreTaken
<1>4. CASE SpfSends
  <2> PICK c \in Client, kind \in Kinds \ {"answer"} : SpfSends!(c, kind)
    BY <1>4 DEF SpfSends
  <2> DEFINE m == [NoMsg EXCEPT !.to = c, !.kind = kind]
  <2>1. m \in Messages /\ Named(m.id, m.token)
    BY MessageTypes DEF NoMsg, NoToken, Named
  <2>0. inbox' = Append(inbox, m)  OBVIOUS
  <2> HIDE DEF m
  <2>2. \A i \in DOMAIN inbox' : inbox'[i] = m \/ (i \in DOMAIN inbox /\ inbox'[i] = inbox[i])
    BY <1>0, <2>0, <2>1
  <2>4. UNCHANGED <<client, dropped, spf, receiver>>  OBVIOUS
  <2>3. MessagesNamed'
    BY <1>s, <2>1, <2>2, <2>4 DEF MessagesNamed, TokenInv, Named
  <2> QED BY <1>s, <2>3, <2>4, TokenPartsPrimed DEF TokenInv, CallNamed, Named, AnswersAreTaken
<1>5. CASE Reads
  <2>1. CASE buff_list = <<>>
    <3>1. receiver' = [receiver EXCEPT !.pc = "top"] /\ UNCHANGED <<spf, inbox, client, dropped>>
      BY <1>5, <2>1 DEF Reads
    <3>2. receiver'.msg = receiver.msg  BY <1>0, <3>1 DEF ReceiverType
    <3> QED BY <1>1, <3>1, <3>2
  <2>2. CASE buff_list # <<>>
    <3>1. receiver'.msg = Head(inbox) /\ inbox' = Tail(inbox) /\ inbox # <<>>
          /\ UNCHANGED <<spf, client, dropped>>
      BY <1>5, <2>2 DEF Reads
    <3>2. /\ \A i \in DOMAIN inbox' : i + 1 \in DOMAIN inbox /\ inbox'[i] = inbox[i + 1]
          /\ 1 \in DOMAIN inbox /\ Head(inbox) = inbox[1]
      BY <1>0, <3>1
    <3>3. MessagesNamed'
      BY <1>s, <3>1, <3>2 DEF MessagesNamed, TokenInv, Named
    <3> QED BY <1>s, <3>1, <3>3, TokenPartsPrimed DEF TokenInv, CallNamed, Named, AnswersAreTaken
  <2> QED BY <2>1, <2>2
<1>6. CASE Answers
  <2> PICK c \in Client : c = Callee  BY <1>6 DEF Answers, ShapeInv, ReceiverOK
  <2>1. client[c] \in ClientType  BY <1>0
  <2>2. \/ client' = client
        \/ client' = [client EXCEPT ![c].slot = receiver.buf, ![c].signalled = TRUE]
    BY <1>6 DEF Answers
  <2>3. \A d \in Client :
          /\ client'[d].pc = client[d].pc /\ client'[d].packet = client[d].packet
          /\ client'[d].id = client[d].id /\ client'[d].expected = client[d].expected
    BY <1>0, <2>1, <2>2 DEF ClientType
  <2>4. MessagesNamed'
    BY <1>6, <1>s, <1>r DEF Answers, MessagesNamed, TokenInv, Named
  <2>5. \A d \in Client : CallNamed(d)'
    BY <1>s, <2>3 DEF CallNamed, TokenInv, Named
  <2>6. AnswersAreTaken'
    <3>1. CASE receiver.msg.token # client[c].expected /\ Waiting(c)
               /\ client[c].id = receiver.msg.id
      <4>1. Named(receiver.msg.id, client[c].expected)
        BY <3>1 DEF Waiting, TokenInv
      <4>2. receiver.msg.id \in scrubbed  BY <3>1, <4>1 DEF Named, TokenInv
      <4> QED BY <1>6, <1>s, <3>1, <4>2 DEF Answers, AnswersAreTaken, TokenInv
    <3>2. CASE ~(receiver.msg.token # client[c].expected /\ Waiting(c)
                 /\ client[c].id = receiver.msg.id)
      <4>1. dropped' = dropped  BY <1>6, <3>2 DEF Answers
      <4> QED BY <1>s, <4>1 DEF AnswersAreTaken, TokenInv
    <3> QED BY <3>1, <3>2
  <2> QED BY <2>4, <2>5, <2>6, TokenPartsPrimed
<1> QED BY <1>2, <1>3, <1>4, <1>5, <1>6 DEF ReceiverStep

\* What a client does to its call; the tokens of the others are theirs, for a packet
\* has one owner, unless they are noted as cleared.
LEMMA ClientTokensKept ==
  ASSUME TypeOK, ShapeInv, PacketInv, TokenInv, NEW c \in Client, ClientActs(c)
  PROVE  TokenInv'
<1> DEFINE k == client[c]
<1> USE DEF Is, history
<1>1. /\ k \in ClientType /\ free_q \in Seq(Packet) /\ token \in [Packet -> Token]
      /\ spf \subseteq Messages
  BY Types DEF TypeParts, PacketTypes, MessageSets
<1>p. \A d \in Client : client[d].pc \in Busy => client[d].packet \in Packet
  BY DEF ShapeInv, ClientOK
<1>2. \A d \in Client \ {c} : client'[d] = client[d]
  BY <1>p, ClientEffects, BecomesEffect DEF ClientActs, ClientStep, Busy, Notes
<1>3. /\ UNCHANGED <<inbox, receiver, dropped>> /\ scrubbed \subseteq scrubbed'
      /\ spf \subseteq spf'
  BY DEF ClientActs, ClientStep, Registers, Allocates, Deregisters, Notes, Writes,
         WriteFails, SendDone, Wakes, TimesOut, Forgets, FreesAnswer, Destroys, Scrubs
<1>4. \A id, t : Named(id, t) => Named(id, t)'  BY <1>3 DEF Named
<1>5. AnswersAreTaken'  BY <1>3 DEF AnswersAreTaken, TokenInv
<1>6. MessagesNamed'
  <2>1. ASSUME NEW m \in spf' \ spf PROVE Named(m.id, m.token)'
    <3>1. Writes(c)
      BY DEF ClientActs, ClientStep, Registers, Allocates, Deregisters, Notes,
             WriteFails, SendDone, Wakes, TimesOut, Forgets, FreesAnswer, Destroys, Scrubs
    <3>2. m.id = k.id /\ m.token = token[k.packet] /\ k.pc = "noted"
      BY <3>1 DEF Writes
    <3>3. Named(k.id, token[k.packet])  BY <3>2 DEF TokenInv
    <3> QED BY <1>4, <3>2, <3>3
  <2> QED BY <1>3, <1>4, <2>1 DEF MessagesNamed, TokenInv
<1>7. ASSUME NEW d \in Client \ {c} PROVE CallNamed(d)'
  <2>1. CallNamed(d) /\ client'[d] = client[d]  BY <1>2, TokenParts
  <2>2. client[d].pc \in {"noted", "written", "waiting"}
          => Named(client[d].id, client[d].expected)'
    BY <1>4, <2>1 DEF CallNamed
  <2>3. ASSUME client[d].pc \in {"filled", "noted"}
        PROVE  Named(client[d].id, token[client[d].packet])'
    <3> DEFINE p == client[d].packet
    <3>1. p \in Packet /\ Owns("sender", d, p)  BY <1>p, <2>3 DEF Busy, Owns
    <3>2. Named(client[d].id, token[p])  BY <2>1, <2>3 DEF CallNamed
    <3>3. CASE token'[p] = token[p]  BY <1>4, <2>1, <3>2, <3>3 DEF Named
    <3>4. CASE Allocates(c)
      <4>1. ~Holds(free_q, p)  BY <3>1, NoneAssumption DEF PacketInv, OneOwnerOf, Owns
      <4>2. Head(free_q) # p  BY <1>1, <3>4, <4>1, TailHolds DEF Allocates
      <4> QED BY <1>1, <3>1, <3>3, <3>4, <4>2 DEF Allocates
    <3>5. CASE Wakes(c) \/ Forgets(c)
      <4>1. Scrubs(c)  BY <3>5 DEF Wakes, Forgets
      <4>2. CASE k.packet = p
        <5>1. client[d].id \in scrubbed'  BY <2>3, <4>1, <4>2 DEF Scrubs
        <5> QED BY <2>1, <5>1 DEF Named
      <4>3. CASE k.packet # p
        BY <1>1, <3>1, <3>3, <4>1, <4>3 DEF Scrubs
      <4> QED BY <4>2, <4>3
    <3>6. token' = token \/ Allocates(c) \/ Wakes(c) \/ Forgets(c)
      BY DEF ClientActs, ClientStep, Registers, Deregisters, Notes, Writes, WriteFails,
             SendDone, TimesOut, FreesAnswer, Destroys
    <3> QED BY <3>3, <3>4, <3>5, <3>6
  <2> QED BY <2>1, <2>2, <2>3 DEF CallNamed
<1>8. CallNamed(c)'
  <2>0. CallNamed(c)  BY TokenParts
  <2>1. CASE Registers(c)
    <3>1. client'[c] = [NewClient EXCEPT !.pc = "idle"]
      BY <2>1, ClientEffects, BecomesEffect
    <3> QED BY <3>1 DEF NewClient, CallNamed
  <2>2. CASE Allocates(c)
    <3>0. Becomes(c, [k EXCEPT !.pc = "filled", !.packet = Head(free_q), !.id = calls'])
      BY <2>2, ClientEffects
    <3>1. client'[c] = [k EXCEPT !.pc = "filled", !.packet = Head(free_q), !.id = calls']
      BY <3>0, BecomesEffect
    <3>2. client'[c].pc = "filled" /\ client'[c].packet = Head(free_q) /\ client'[c].id = calls'
      BY <1>1, <3>1 DEF ClientType
    <3>3. Head(free_q) \in Packet  BY <1>1, <2>2, TailHolds DEF Allocates
    <3>4. token'[Head(free_q)] = calls'  BY <1>1, <2>2, <3>3 DEF Allocates
    <3> QED BY <3>2, <3>4 DEF CallNamed, Named
  <2>3. CASE Notes(c)
    <3>0. k.pc = "filled" /\ token' = token  BY <2>3 DEF Notes
    <3>1. client'[c] = [k EXCEPT !.pc = "noted", !.expected = token[k.packet]]
      BY <1>p, <2>3, <3>0, ClientEffects, BecomesEffect DEF Busy
    <3>2. /\ client'[c].pc = "noted" /\ client'[c].packet = k.packet /\ client'[c].id = k.id
          /\ client'[c].expected = token[k.packet]
      BY <1>1, <3>1 DEF ClientType
    <3>3. Named(k.id, token[k.packet])'  BY <1>4, <2>0, <3>0, <3>2 DEF CallNamed, Named
    <3> QED BY <3>0, <3>2, <3>3 DEF CallNamed, Named
  <2>4. CASE Writes(c) \/ SendDone(c)
    <3>0. k.pc \in {"noted", "written"}  BY <2>4 DEF Writes, SendDone
    <3>1. PICK pc \in {"written", "waiting"} : client'[c] = [k EXCEPT !.pc = pc]
      BY <2>4, ClientEffects, BecomesEffect
    <3>2. /\ client'[c].pc = pc /\ client'[c].id = k.id /\ client'[c].expected = k.expected
      BY <1>1, <3>1 DEF ClientType
    <3>3. Named(k.id, k.expected)  BY <2>0, <3>0 DEF CallNamed
    <3> QED BY <1>4, <3>2, <3>3 DEF CallNamed, Named
  <2>5. CASE \/ Deregisters(c) \/ WriteFails(c) \/ Wakes(c) \/ TimesOut(c) \/ Forgets(c)
             \/ FreesAnswer(c) \/ Destroys(c)
    <3>1. client'[c].pc \in {"closing", "idle", "answered", "timedout", "out"}
      <4>2. CASE Deregisters(c) \/ TimesOut(c)
        <5>1. PICK pc \in {"closing", "timedout"} : client'[c] = [k EXCEPT !.pc = pc]
          BY <4>2, ClientEffects, BecomesEffect
        <5> QED BY <1>1, <5>1 DEF ClientType
      <4>3. CASE Wakes(c)
        <5>0. Becomes(c, [NewClient EXCEPT !.pc = "answered", !.answer = k.slot])
          BY <4>3, ClientEffects
        <5>1. client'[c] = [NewClient EXCEPT !.pc = "answered", !.answer = k.slot]
          BY <5>0, BecomesEffect
        <5> QED BY <5>1 DEF NewClient
      <4>4. CASE Forgets(c)
        <5>0. Becomes(c, [k EXCEPT !.pc = "idle", !.packet = None, !.id = 0,
                                   !.expected = NoToken])
          BY <4>4, ClientEffects
        <5>1. client'[c] = [k EXCEPT !.pc = "idle", !.packet = None, !.id = 0,
                                     !.expected = NoToken]
          BY <5>0, BecomesEffect
        <5> QED BY <1>1, <5>1 DEF ClientType
      <4>5. CASE FreesAnswer(c)
        <5>1. client'[c] = [k EXCEPT !.pc = "idle", !.answer = None]
          BY <4>5, ClientEffects, BecomesEffect
        <5> QED BY <1>1, <5>1 DEF ClientType
      <4>6. CASE Destroys(c)
        <5>1. client'[c] = NewClient  BY <4>6, ClientEffects, BecomesEffect
        <5> QED BY <5>1 DEF NewClient
      <4>7. CASE WriteFails(c)
        <5>1. client'[c] = [k EXCEPT !.pc = "idle", !.packet = None]
          BY <4>7, ClientEffects, BecomesEffect
        <5> QED BY <1>1, <5>1 DEF ClientType
      <4> QED BY <2>5, <4>2, <4>3, <4>4, <4>5, <4>6, <4>7
    <3> QED BY <3>1 DEF CallNamed
  <2> QED BY <2>1, <2>2, <2>3, <2>4, <2>5 DEF ClientActs, ClientStep
<1> QED BY <1>5, <1>6, <1>7, <1>8, TokenPartsPrimed

-----------------------------------------------------------------------------
(* The theorems. *)

LEMMA InvInit == Init => Inv
BY TypeInit, ShapeInit, BufferInit, PacketInit, TokenInit DEF Inv

LEMMA InvNext == Inv /\ [Next]_vars => Inv'
<1> SUFFICES ASSUME Inv, [Next]_vars PROVE Inv'  OBVIOUS
<1> USE DEF Inv
<1>1. CASE StartsThread \/ Hooks \/ Publishes \/ Stops \/ Joins \/ SpfAnswers \/ SpfSends
  BY <1>1, LinkTypesKept, LinkShapeKept, LinkBuffersKept, OthersPacketsKept, OthersTokensKept
<1>2. CASE ReceiverStep
  BY <1>2, ReceiverTypesKept, ReceiverShapeKept, ReceiverBuffersKept, OthersPacketsKept,
     OthersTokensKept
<1>3. ASSUME NEW c \in Client, ClientActs(c) PROVE Inv'
  BY <1>3, ClientTypesKept, ClientShapeKept, ClientBuffersKept, ClientPacketsKept,
     ClientTokensKept
<1>4. CASE UNCHANGED vars
  <2>1. TypeOK'  BY <1>4, TypesUnchanged
  <2>2. ShapeInv'
    BY <1>4 DEF vars, ShapeInv, ReceiverOK, ClientOK, Callee
  <2>3. BufferInv'
    BY <1>4, BuffersUnchanged DEF vars, history
  <2>4. PacketInv'  BY <1>4, PacketsUnchanged DEF vars
  <2>5. TokenInv'  BY <1>4 DEF vars, history, TokenInv, Named, AnswersAreTaken
  <2> QED BY <2>1, <2>2, <2>3, <2>4, <2>5
<1> QED BY <1>1, <1>2, <1>3, <1>4 DEF Next, ClientActs

\* Every variable has its type, whatever arrives, fails or comes late (gpr_drv.c,
\* gpr_lx.c).
THEOREM TypeCorrect == Spec => []TypeOK
<1>1. Inv => TypeOK  BY DEF Inv
<1> QED BY InvInit, InvNext, <1>1, PTL DEF Spec

\* The answer to a command whose sender waits is dropped only if another sender has
\* cleared the token in its packet (gsl_common.c:186, 218).
THEOREM AnswersReachTheirSenders == Spec => []AnswersAreTaken
<1>1. Inv => AnswersAreTaken  BY DEF Inv, TokenInv
<1> QED BY InvInit, InvNext, <1>1, PTL DEF Spec

\* The holders of a buffer, counted.
LEMMA OneHolderCounted ==
  ASSUME TypeOK, Distinct(buff_list), NEW b \in Buffer, OneHolder(b)
  PROVE  Cardinality(HoldersOf(b)) = 1
<1> PICK k, c : Has(k, c, b) /\ \A l, d : Has(l, d, b) => l = k /\ d = c
  BY DEF OneHolder
<1>1. \E x : HoldersOf(b) = {x}
  <2>1. CASE k = "list"
    <3>1. PICK i \in DOMAIN buff_list : buff_list[i] = b  BY <2>1 DEF Has, Holds
    <3>2. Places(buff_list, b) = {i}  BY <3>1 DEF Places, Distinct
    <3>3. /\ receiver.buf = b => receiver.freed
          /\ \A d \in Client : client[d].slot # b /\ client[d].answer # b
          /\ b \notin lost
      BY <2>1 DEF Has
    <3>4. HoldersOf(b) = {<<"list", i>>}  BY <3>2, <3>3 DEF HoldersOf
    <3> QED BY <3>4
  <2>2. CASE k # "list"
    <3>1. Places(buff_list, b) = {}  BY <2>2 DEF Has, Holds, Places
    <3>2. CASE k = "receiver"
      <4>1. receiver.buf = b /\ ~receiver.freed
            /\ (\A d \in Client : client[d].slot # b /\ client[d].answer # b) /\ b \notin lost
        BY <3>2 DEF Has
      <4>2. HoldersOf(b) = {<<"receiver", 0>>}  BY <3>1, <4>1 DEF HoldersOf
      <4> QED BY <4>2
    <3>3. CASE k = "lost"
      <4>1. (receiver.buf = b => receiver.freed) /\ b \in lost
            /\ (\A d \in Client : client[d].slot # b /\ client[d].answer # b)
        BY <3>3 DEF Has
      <4>2. HoldersOf(b) = {<<"lost", b>>}  BY <3>1, <4>1 DEF HoldersOf
      <4> QED BY <4>2
    <3>4. CASE k = "slot"
      <4>1. (receiver.buf = b => receiver.freed) /\ b \notin lost
            /\ c \in Client /\ client[c].slot = b
            /\ (\A d \in Client : client[d].slot = b => d = c)
            /\ (\A d \in Client : client[d].answer # b)
        BY <3>4 DEF Has
      <4>2. HoldersOf(b) = {<<"slot", c>>}  BY <3>1, <4>1 DEF HoldersOf
      <4> QED BY <4>2
    <3>5. CASE k = "answer"
      <4>1. (receiver.buf = b => receiver.freed) /\ b \notin lost
            /\ c \in Client /\ client[c].answer = b
            /\ (\A d \in Client : client[d].answer = b => d = c)
            /\ (\A d \in Client : client[d].slot # b)
        BY <3>5 DEF Has
      <4>2. HoldersOf(b) = {<<"answer", c>>}  BY <3>1, <4>1 DEF HoldersOf
      <4> QED BY <4>2
    <3> QED BY <2>2, <3>2, <3>3, <3>4, <3>5 DEF Has
  <2> QED BY <2>1, <2>2
<1> QED BY <1>1, FS_Singleton

\* The owners of a packet, counted.
LEMMA OneOwnerCounted ==
  ASSUME Distinct(free_q), NEW p \in Packet, OneOwnerOf(p)
  PROVE  Cardinality(OwnersOf(p)) = 1
<1> PICK k, c : Owns(k, c, p) /\ \A l, d : Owns(l, d, p) => l = k /\ d = c
  BY DEF OneOwnerOf
<1>1. CASE k = "queue"
  <2>1. PICK i \in DOMAIN free_q : free_q[i] = p  BY <1>1 DEF Owns, Holds
  <2>2. Places(free_q, p) = {i}  BY <2>1 DEF Places, Distinct
  <2>3. \A d \in Client : ~(client[d].packet = p /\ client[d].pc \in {"filled", "noted", "written"})
    BY <1>1 DEF Owns
  <2>4. OwnersOf(p) = {<<"queue", i>>}  BY <2>2, <2>3 DEF OwnersOf
  <2> QED BY <2>4, FS_Singleton
<1>2. CASE k = "sender"
  <2>1. Places(free_q, p) = {}  BY <1>2 DEF Owns, Holds, Places
  <2>2. {d \in Client : client[d].packet = p /\ client[d].pc \in {"filled", "noted", "written"}} = {c}
    BY <1>2 DEF Owns
  <2>3. OwnersOf(p) = {<<"sender", c>>}  BY <2>1, <2>2 DEF OwnersOf
  <2> QED BY <2>3, FS_Singleton
<1> QED BY <1>1, <1>2 DEF Owns

\* A receive buffer is with the link, with one client or lost, never in two places, and
\* a packet of the pool in the queue or with one sender (gpr_lx.c:162, gpr_memq).
THEOREM BuffersHaveOneOwner == Spec => []OneOwner
<1>1. Inv => OneOwner
  BY OneHolderCounted, OneOwnerCounted DEF Inv, BufferInv, PacketInv, OneOwner
<1> QED BY InvInit, InvNext, <1>1, PTL DEF Spec
=============================================================================
