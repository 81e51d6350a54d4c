---------------------------- MODULE Signal_proofs ----------------------------
(***************************************************************************)
(* Proofs about the two layers of a wait: GslSignal, what the senders of   *)
(* commands and GPR's thread make of struct gsl_signal, and OsalSignal, on *)
(* which it sleeps and which its lock has to protect.                      *)
(*                                                                         *)
(* GslSignal, for every set of signals and commands and every number of    *)
(* commands sent: types, no restart that goes unreported and no answer     *)
(* packet that is lost, however late answers come; no success that SPF has *)
(* not given and no packet freed twice as long as every wait ends with its *)
(* answer.                                                                 *)
(*                                                                         *)
(* OsalSignal: types for every set of threads, guarded or not, and no lost *)
(* wake-up for a signal that one thread waits on and that is set and       *)
(* cleared under its user's lock, whatever number of threads set it        *)
(* however often.                                                          *)
(***************************************************************************)
EXTENDS GslSignal, OsalSignal, FiniteSetTheorems, TLAPS

-----------------------------------------------------------------------------
(* GslSignal: types.  The tokens given out so far are 1 .. n, which is why the next command
   gets a fresh one. *)

TypeInv ==
  /\ TypeOK
  /\ \E n \in 0 .. MaxToken : sent \in [1 .. n -> Opcode]
  /\ answer \in [DOMAIN answer -> Status]

LEMMA TypeInit == Init => TypeInv
PROOF
  <1> SUFFICES ASSUME Init PROVE TypeInv
    OBVIOUS
  <1> USE DEF Init, Event, Flag, Status, Result, Token, NoToken
  <1>1. CreatedSignal \in SignalRecord
    BY DEF CreatedSignal, SignalRecord
  <1>2. IdleClient \in ClientRecord
    BY DEF IdleClient, ClientRecord
  <1>3. DOMAIN sent = {} /\ DOMAIN answer = {}
    OBVIOUS
  <1>4. sent \in [1 .. 0 -> Opcode] /\ 0 \in 0 .. MaxToken
    BY <1>3, MaxTokenType
  <1> QED
    BY <1>1, <1>2, <1>3, <1>4 DEF TypeInv, TypeOK, GraphState, PacketState

\* The next token: one more than the commands sent.
LEMMA NextToken ==
  ASSUME NEW n \in 0 .. MaxToken, sent \in [1 .. n -> Opcode]
  PROVE  Cardinality(DOMAIN sent) + 1 = n + 1
  BY MaxTokenType, FS_Interval

\* Freeing a packet leaves the others as they are.
LEMMA FreedPackets ==
  ASSUME NEW pk \in [Token -> PacketState],
         NEW t \in Token \cup {NoToken}
  PROVE  /\ Freed(pk, t) \in [Token -> PacketState]
         /\ \A u \in Token : u # t => Freed(pk, t)[u] = pk[u]
         /\ t # NoToken => Freed(pk, t)[t] =
              IF pk[t] \in {"flying", "kept"} THEN "freed" ELSE "freed twice"
         /\ t = NoToken => Freed(pk, t) = pk
  BY DEF Freed, PacketState

\* What gsl_signal_set does, in one place: s is the signal, f the flag, st the
\* status and t the answered command or no packet.
LEMMA SetSignal ==
  ASSUME TypeInv, NEW s \in Sig, NEW f \in Flag, NEW st \in Status,
         NEW t \in Token \cup {NoToken}, SignalSet(s, f, st, t)
  PROVE  /\ sig' \in [Sig -> SignalRecord]
         /\ packet' \in [Token -> PacketState]
         /\ \A r \in Sig : r # s => sig'[r] = sig[r]
         /\ sig'[s].flags = sig[s].flags \cup {f} /\ sig'[s].status = st
         /\ sig'[s].expected = sig[s].expected
         /\ sig'[s].signalled = (sig[s].signalled \/ Expects(s, t))
         /\ sig'[s].gpr_packet = IF Expects(s, t) THEN t ELSE sig[s].gpr_packet
PROOF
  <1> USE DEF SignalSet, SetFields, MergeFlags, Expects, TypeInv, TypeOK, SignalRecord, PacketState
  <1>1. FreePending(s) \in [Token -> PacketState]
    BY FreedPackets DEF FreePending
  <1>2. packet' \in [Token -> PacketState]
    <2>1. CASE t = NoToken
      BY <1>1, <2>1
    <2>2. CASE t # NoToken /\ Expects(s, t)
      BY <1>1, <2>2
    <2>3. CASE t # NoToken /\ ~Expects(s, t)
      BY <1>1, <2>3, FreedPackets
    <2> QED
      BY <2>1, <2>2, <2>3
  <1>3. sig' = [sig EXCEPT ![s] = SetFields(s, f, st, t)]
    OBVIOUS
  <1>4. sig \in [Sig -> SignalRecord]
    OBVIOUS
  <1> HIDE DEF SignalSet, TypeInv, TypeOK
  <1> QED
    BY <1>2, <1>3, <1>4

\* A sender's record keeps its type when it goes on.
LEMMA ClientGoesOn ==
  ASSUME client \in [Sig -> ClientRecord], NEW s \in Sig,
         NEW label \in {"idle", "admitted", "waiting", "woken", "leaving"}
  PROVE  /\ [client EXCEPT ![s].pc = label] \in [Sig -> ClientRecord]
         /\ [client EXCEPT ![s].pc = label, ![s].timedout = TRUE] \in [Sig -> ClientRecord]
  BY DEF ClientRecord

\* The record a command starts with.
LEMMA ClientStarts ==
  ASSUME NEW t \in Token \cup {NoToken}
  PROVE  /\ [IdleClient EXCEPT !.token = t] \in ClientRecord
         /\ [IdleClient EXCEPT !.token = t, !.pc = "waiting"] \in ClientRecord
  BY DEF IdleClient, ClientRecord, Status, Result, Flag, Event, NoToken

\* ... and the one with what a wait has returned.
LEMMA ClientTakes ==
  ASSUME NEW c \in ClientRecord, NEW fl \in SUBSET Flag, NEW st \in Status,
         NEW t \in Token \cup {NoToken}
  PROVE  [c EXCEPT !.pc = "leaving", !.flags = fl, !.status = st, !.rsp = t]
           \in ClientRecord
  BY DEF ClientRecord

LEMMA TypeSender ==
  ASSUME TypeInv, NEW s \in Sig, Sender(s)
  PROVE  TypeInv'
PROOF
  <1>1. /\ client \in [Sig -> ClientRecord] /\ sig \in [Sig -> SignalRecord]
        /\ packet \in [Token -> PacketState]
    BY DEF TypeInv, TypeOK
  <1>2. CASE Admit(s) \/ Leave(s) \/ Wake(s)
    <2>1. PICK label \in {"idle", "admitted", "woken"} :
            client' = [client EXCEPT ![s].pc = label]
      BY <1>2 DEF Admit, Leave, Wake
    <2>2. client' \in [Sig -> ClientRecord]
      BY <1>1, <2>1, ClientGoesOn
    <2> QED
      BY <1>2, <2>2 DEF Admit, Leave, Wake, TypeInv, TypeOK, environment, commands
  <1>3. CASE TimeOut(s)
    <2>1. client' \in [Sig -> ClientRecord]
      BY <1>1, <1>3, ClientGoesOn DEF TimeOut
    <2> QED
      BY <1>3, <2>1 DEF TimeOut, TypeInv, TypeOK, environment, commands
  <1>4. CASE Take(s)
    <2>1. TakenSignal(s) \in SignalRecord
      BY <1>1 DEF TakenSignal, CreatedSignal, SignalRecord, Status
    <2>2. sig' \in [Sig -> SignalRecord]
      BY <1>1, <1>4, <2>1 DEF Take
    <2>3. /\ sig[s].flags \in SUBSET Flag /\ sig[s].status \in Status
          /\ sig[s].gpr_packet \in Token \cup {NoToken}
      BY <1>1 DEF SignalRecord
    <2>4. client' = [client EXCEPT ![s] =
            [client[s] EXCEPT !.pc = "leaving", !.flags = sig[s].flags,
               !.status = sig[s].status, !.rsp = sig[s].gpr_packet]]
      BY <1>4 DEF Take
    <2>5. client' \in [Sig -> ClientRecord]
      BY <1>1, <2>3, <2>4, ClientTakes
    <2> QED
      BY <1>4, <2>2, <2>5 DEF Take, TypeInv, TypeOK, environment, commands
  <1>5. CASE Return(s)
    <2>1. sig' \in [Sig -> SignalRecord]
      BY <1>1, <1>5 DEF Return, SignalRecord
    <2>2. packet' \in [Token -> PacketState]
      BY <1>1, <1>5, FreedPackets DEF Return, ClientRecord
    <2>3. Outcome(client[s]) \in Result
      BY <1>1 DEF Outcome, Result, Status, ClientRecord
    <2>4. client' \in [Sig -> ClientRecord]
      BY <1>1, <1>5, <2>3 DEF Return, IdleClient, ClientRecord, Status, Flag, NoToken
    <2> QED
      BY <1>5, <2>1, <2>2, <2>4 DEF Return, TypeInv, TypeOK, environment, commands
  <1>6. CASE Send(s)
    <2>1. PICK n \in 0 .. MaxToken : sent \in [1 .. n -> Opcode]
      BY DEF TypeInv
    <2>2. Cardinality(DOMAIN sent) + 1 = n + 1
      BY <2>1, NextToken
    <2>3. PICK op \in Opcode :
            /\ n + 1 \in Token /\ sig' = NoteToken(s, n + 1)
            /\ sent' = [u \in DOMAIN sent \cup {n + 1} |-> IF u = n + 1 THEN op ELSE sent[u]]
            /\ \/ /\ spf' = spf \/ spf' = spf \cup {n + 1}
                  /\ client' = [client EXCEPT ![s] =
                                  [IdleClient EXCEPT !.token = n + 1, !.pc = "waiting"]]
               \/ /\ client' = [client EXCEPT ![s] = [IdleClient EXCEPT !.token = n + 1]]
                  /\ UNCHANGED spf
            /\ UNCHANGED <<environment, answer, packet, late>>
      BY <1>6, <2>2 DEF Send
    <2>4. (1 .. n) \cup {n + 1} = 1 .. n + 1
      BY <2>1, MaxTokenType
    <2>5. sent' \in [1 .. n + 1 -> Opcode]
      BY <2>1, <2>3, <2>4
    <2>6. n + 1 \in 0 .. MaxToken
      BY <2>1, <2>3, MaxTokenType DEF Token
    <2>7. sig' \in [Sig -> SignalRecord]
      BY <1>1, <2>3 DEF NoteToken, SignalRecord
    <2>8. client' \in [Sig -> ClientRecord]
      <3>1. /\ [IdleClient EXCEPT !.token = n + 1] \in ClientRecord
            /\ [IdleClient EXCEPT !.token = n + 1, !.pc = "waiting"] \in ClientRecord
        BY <2>3, ClientStarts
      <3> QED
        BY <1>1, <2>3, <3>1
    <2>9. /\ DOMAIN sent' \subseteq Token /\ DOMAIN sent \subseteq DOMAIN sent'
          /\ n + 1 \in DOMAIN sent'
      BY <2>1, <2>3, <2>4, <2>6, MaxTokenType DEF Token
    <2>10. spf' \subseteq DOMAIN sent'
      BY <2>3, <2>9 DEF TypeInv, TypeOK
    <2> QED
      BY <2>3, <2>5, <2>6, <2>7, <2>8, <2>9, <2>10 DEF TypeInv, TypeOK, environment
  <1> QED
    BY <1>2, <1>3, <1>4, <1>5, <1>6 DEF Sender

LEMMA TypeRest ==
  ASSUME TypeInv,
         SpfAnswer \/ GprCallback \/ SubsystemDown \/ CloseGraph \/ WakeSleeper
  PROVE  TypeInv'
PROOF
  <1> USE DEF TypeInv, TypeOK, environment, commands
  <1>1. CASE SpfAnswer
    <2>1. packet' \in [Token -> PacketState]
      BY <1>1 DEF SpfAnswer, PacketState
    <2> QED
      BY <1>1, <2>1 DEF SpfAnswer
  <1>2. CASE GprCallback
    <2>1. PICK t \in DOMAIN answer : SignalSet(GroupOf[sent[t]], "RSP", answer[t], t)
      BY <1>2 DEF GprCallback
    <2>2. GroupOf[sent[t]] \in Sig /\ answer[t] \in Status /\ t \in Token
      BY GroupOfType
    <2> QED
      BY <1>2, <2>1, <2>2, SetSignal DEF GprCallback, Flag
  <1>3. CASE SubsystemDown \/ CloseGraph
    BY <1>3 DEF SubsystemDown, CloseGraph, GraphState, Event
  <1>4. CASE WakeSleeper
    <2>1. PICK w \in to_wake : SignalSet(w[2], w[1], "OK", NoToken)
      BY <1>4 DEF WakeSleeper
    <2>2. w[2] \in Sig /\ w[1] \in Flag
      BY DEF Flag
    <2>3. /\ sig' \in [Sig -> SignalRecord]
          /\ packet' \in [Token -> PacketState]
      BY <2>1, <2>2, SetSignal DEF Status
    <2>4. client' \in [Sig -> ClientRecord]
      <3>1. PICK r \in Sig, hit \in BOOLEAN :
              client' = [client EXCEPT ![r].reset = @ \/ hit]
        BY <1>4 DEF WakeSleeper
      <3>2. (client[r].reset \/ hit) \in BOOLEAN
        OBVIOUS
      <3>3. client' = [client EXCEPT ![r] = [client[r] EXCEPT !.reset = client[r].reset \/ hit]]
        BY <3>1
      <3>4. client \in [Sig -> ClientRecord]
        OBVIOUS
      <3> HIDE DEF TypeInv, TypeOK
      <3> QED
        BY <3>2, <3>3, <3>4 DEF ClientRecord
    <2>5. /\ to_wake' \subseteq to_wake
          /\ UNCHANGED <<graph_state, closing, sent, spf, answer, late>>
      BY <1>4 DEF WakeSleeper
    <2> QED
      BY <2>3, <2>4, <2>5
  <1> QED
    BY <1>1, <1>2, <1>3, <1>4

LEMMA TypeNext == TypeInv /\ [Next]_vars => TypeInv'
PROOF
  <1>1. TypeInv /\ UNCHANGED vars => TypeInv'
    BY DEF vars, TypeInv, TypeOK
  <1> QED
    BY <1>1, TypeSender, TypeRest DEF Next

\* Every variable keeps its type: SPF answers only what was sent, tokens are handed
\* out once each, and every wait returns one of the codes its handler tests for.
THEOREM TypeCorrect == Spec => []TypeOK
PROOF
  <1>1. TypeInv => TypeOK
    BY DEF TypeInv
  <1> QED
    BY TypeInit, TypeNext, <1>1, PTL DEF Spec
-----------------------------------------------------------------------------
(* What holds however late an answer comes. *)

\* A command is answered once; only from then on is there a packet to hand over.
AnsweredOnce ==
  /\ \A t \in spf : t \notin DOMAIN answer
  /\ \A t \in Token : packet[t] # "none" => t \in DOMAIN answer
  /\ \A s \in Sig : {sig[s].gpr_packet, client[s].rsp} \subseteq DOMAIN answer \cup {NoToken}

\* A sender that waits has sent the command it names, one of its own group.
InWait == {"waiting", "woken", "leaving"}
SenderOfItsGroup == \A s \in Sig :
  LET c == client[s] IN
  /\ c.pc \in InWait => c.token # NoToken
  /\ c.token # NoToken => c.token \in DOMAIN sent /\ GroupOf[sent[c.token]] = s

\* Only a sender on its way out of a wait holds an answer packet or a timeout.
HoldsOnlyLeaving == \A s \in Sig :
  client[s].rsp # NoToken \/ client[s].timedout => client[s].pc = "leaving"

\* Nobody wakes to an empty signal: whoever sets it has stored a flag.
WokenByAFlag == \A s \in Sig :
  /\ sig[s].signalled => sig[s].flags # {}
  /\ client[s].pc = "woken" => sig[s].signalled

\* A restart that falls into a wait is in the signal, then in what the wait
\* returned, then in the command's result.
ResetIsSeen == \A s \in Sig :
  LET c == client[s] IN
  c.reset =>
    /\ c.pc \in {"waiting", "woken"} => "SSR" \in sig[s].flags
    /\ c.pc = "leaving" => c.timedout \/ "SSR" \in c.flags
    /\ c.pc \in {"idle", "admitted"} => c.rc # "OK"

\* What holds as long as no wait has ended without its answer: the answer to a
\* command that SPF or GPR still has finds the sender in its wait, with no other
\* packet; ...
Pending(t) == t \in spf \/ packet[t] = "flying"
Awaited(t) ==
  LET s == GroupOf[sent[t]] IN
  /\ client[s].pc \in {"waiting", "woken"} /\ client[s].token = t
  /\ sig[s].expected = t /\ sig[s].gpr_packet = NoToken
AwaitsWhatIsPending == \A t \in Token : Pending(t) => Awaited(t)

\* ... a packet in a signal is the one its sender waits for, with its status, ...
SignalHasTheAnswer == \A s \in Sig :
  LET t == sig[s].gpr_packet IN
  t # NoToken =>
    /\ client[s].pc \in {"waiting", "woken"} /\ client[s].token = t
    /\ t \in DOMAIN answer /\ answer[t] = sig[s].status /\ packet[t] = "kept"

\* ... as is the one a sender leaves its wait with, and it leaves with one.
LeavesWithTheAnswer == \A s \in Sig :
  LET c == client[s] IN
  c.pc = "leaving" =>
    /\ ~c.timedout /\ c.rsp = c.token
    /\ c.rsp \in DOMAIN answer /\ answer[c.rsp] = c.status /\ packet[c.rsp] = "kept"

OnTime ==
  /\ AwaitsWhatIsPending /\ SignalHasTheAnswer /\ LeavesWithTheAnswer
  /\ SuccessIsAlwaysReal /\ NothingEverFreedTwice

Bookkeeping ==
  /\ AnsweredOnce /\ SenderOfItsGroup /\ HoldsOnlyLeaving /\ WokenByAFlag
SignalInv == Bookkeeping /\ ResetIsSeen /\ NoPacketLeak /\ (~late => OnTime)

-----------------------------------------------------------------------------
(* What each step of a sender does to its own record and its signal; those of
   the other senders stay. *)

OthersKeep(s) == \A r \in Sig : r # s => client'[r] = client[r] /\ sig'[r] = sig[r]

LEMMA GoOnDoes ==
  ASSUME TypeInv, NEW s \in Sig, Admit(s) \/ Leave(s)
  PROVE  /\ {client[s].pc, client'[s].pc} \subseteq {"idle", "admitted"}
         /\ client'[s].token = client[s].token /\ client'[s].rsp = client[s].rsp
         /\ client'[s].reset = client[s].reset /\ client'[s].rc = client[s].rc
         /\ client'[s].timedout = client[s].timedout
         /\ OthersKeep(s)
         /\ UNCHANGED <<sig, sent, spf, answer, packet, late>>
  BY DEF TypeInv, TypeOK, ClientRecord, Admit, Leave, OthersKeep, commands

LEMMA WakeDoes ==
  ASSUME TypeInv, NEW s \in Sig, Wake(s)
  PROVE  /\ client[s].pc = "waiting" /\ client'[s].pc = "woken" /\ sig[s].signalled
         /\ client'[s].token = client[s].token /\ client'[s].rsp = client[s].rsp
         /\ client'[s].reset = client[s].reset
         /\ client'[s].timedout = client[s].timedout
         /\ OthersKeep(s)
         /\ UNCHANGED <<sig, sent, spf, answer, packet, late>>
  BY DEF TypeInv, TypeOK, ClientRecord, Wake, OthersKeep, commands

LEMMA TimeOutDoes ==
  ASSUME TypeInv, NEW s \in Sig, TimeOut(s)
  PROVE  /\ client[s].pc = "waiting" /\ client'[s].pc = "leaving"
         /\ client'[s].timedout /\ late'
         /\ client'[s].token = client[s].token /\ client'[s].rsp = client[s].rsp
         /\ client'[s].reset = client[s].reset
         /\ OthersKeep(s)
         /\ UNCHANGED <<sig, sent, spf, answer, packet>>
  BY DEF TypeInv, TypeOK, ClientRecord, TimeOut, OthersKeep, commands

LEMMA TakeDoes ==
  ASSUME TypeInv, NEW s \in Sig, Take(s)
  PROVE  /\ client[s].pc = "woken" /\ client'[s].pc = "leaving"
         /\ client'[s].flags = sig[s].flags /\ client'[s].status = sig[s].status
         /\ client'[s].rsp = sig[s].gpr_packet
         /\ client'[s].token = client[s].token /\ client'[s].reset = client[s].reset
         /\ client'[s].timedout = client[s].timedout
         /\ sig'[s].gpr_packet = NoToken /\ ~sig'[s].signalled
         /\ sig'[s].expected = sig[s].expected
         /\ late' = (late \/ (sig[s].flags # {} /\ sig[s].gpr_packet = NoToken))
         /\ OthersKeep(s)
         /\ UNCHANGED <<sent, spf, answer, packet>>
PROOF
  <1>1. /\ sig \in [Sig -> SignalRecord] /\ client \in [Sig -> ClientRecord]
    BY DEF TypeInv, TypeOK
  <1>2. TakenSignal(s).gpr_packet = NoToken /\ TakenSignal(s).signalled = FALSE
        /\ TakenSignal(s).expected = sig[s].expected
    BY DEF TakenSignal, CreatedSignal
  <1>3. /\ sig'[s] = TakenSignal(s) /\ \A r \in Sig : r # s => sig'[r] = sig[r]
    BY <1>1 DEF Take
  <1> QED
    BY <1>1, <1>2, <1>3 DEF Take, OthersKeep, commands, ClientRecord

LEMMA ReturnDoes ==
  ASSUME TypeInv, NEW s \in Sig, Return(s)
  PROVE  /\ client[s].pc = "leaving" /\ client'[s].pc \in {"idle", "admitted"}
         /\ client'[s].rc = Outcome(client[s]) /\ client'[s].rsp = NoToken
         /\ ~client'[s].timedout
         /\ client'[s].token = client[s].token /\ client'[s].reset = client[s].reset
         /\ \A t \in Token : t # client[s].rsp => packet'[t] = packet[t]
         /\ \A t \in Token : t = client[s].rsp =>
              packet'[t] = IF packet[t] \in {"flying", "kept"} THEN "freed" ELSE "freed twice"
         /\ sig'[s].gpr_packet = sig[s].gpr_packet /\ sig'[s].flags = sig[s].flags
         /\ sig'[s].signalled = sig[s].signalled /\ sig'[s].status = sig[s].status
         /\ OthersKeep(s)
         /\ UNCHANGED <<sent, spf, answer, late>>
PROOF
  <1>1. /\ sig \in [Sig -> SignalRecord] /\ client \in [Sig -> ClientRecord]
    BY DEF TypeInv, TypeOK
  <1>2. PICK p \in Token \cup {NoToken} : p = client[s].rsp
    BY <1>1 DEF ClientRecord
  <1>3. /\ \A t \in Token : t # p => packet'[t] = packet[t]
        /\ \A t \in Token : t = p =>
             packet'[t] = IF packet[t] \in {"flying", "kept"} THEN "freed" ELSE "freed twice"
    <2>1. packet' = Freed(packet, p) /\ packet \in [Token -> PacketState]
      BY <1>2 DEF Return, TypeInv, TypeOK
    <2>2. NoToken \notin Token
      BY DEF NoToken, Token
    <2>3. /\ \A u \in Token : u # p => Freed(packet, p)[u] = packet[u]
          /\ p # NoToken => Freed(packet, p)[p] =
               IF packet[p] \in {"flying", "kept"} THEN "freed" ELSE "freed twice"
      BY <2>1, FreedPackets
    <2> QED
      BY <2>1, <2>2, <2>3
  <1>4. /\ client[s].pc = "leaving" /\ client'[s].pc \in {"idle", "admitted"}
        /\ client'[s].rc = Outcome(client[s]) /\ client'[s].rsp = NoToken
        /\ ~client'[s].timedout
        /\ client'[s].token = client[s].token /\ client'[s].reset = client[s].reset
        /\ sig'[s].gpr_packet = sig[s].gpr_packet /\ sig'[s].flags = sig[s].flags
        /\ sig'[s].signalled = sig[s].signalled /\ sig'[s].status = sig[s].status
        /\ OthersKeep(s)
        /\ UNCHANGED <<sent, spf, answer, late>>
    BY <1>1 DEF Return, OthersKeep, commands, ClientRecord, SignalRecord, IdleClient
  <1> QED
    BY <1>2, <1>3, <1>4

\* The command gets a token nobody has had; SPF gets it if GPR takes it and the
\* subsystem is up.
LEMMA SendDoes ==
  ASSUME TypeInv, NEW s \in Sig, Send(s)
  PROVE  \E t \in Token :
         /\ t \notin DOMAIN sent /\ DOMAIN sent' = DOMAIN sent \cup {t}
         /\ \A u \in DOMAIN sent : sent'[u] = sent[u]
         /\ GroupOf[sent'[t]] = s
         /\ client[s].pc \in {"idle", "admitted"}
         /\ client'[s].token = t /\ client'[s].rsp = NoToken /\ ~client'[s].reset
         /\ ~client'[s].timedout
         /\ client'[s].rc = "NOT_SENT"
         /\ \/ client'[s].pc = "waiting" /\ (spf' = spf \/ spf' = spf \cup {t})
            \/ client'[s].pc = "idle" /\ spf' = spf
         /\ sig'[s].expected = t /\ sig'[s].gpr_packet = sig[s].gpr_packet
         /\ sig'[s].signalled = sig[s].signalled /\ sig'[s].flags = sig[s].flags
         /\ sig'[s].status = sig[s].status
         /\ OthersKeep(s)
         /\ UNCHANGED <<answer, packet, late>>
PROOF
  <1>1. /\ client \in [Sig -> ClientRecord] /\ sig \in [Sig -> SignalRecord]
    BY DEF TypeInv, TypeOK
  <1>2. PICK n \in 0 .. MaxToken : sent \in [1 .. n -> Opcode]
    BY DEF TypeInv
  <1>3. Cardinality(DOMAIN sent) + 1 = n + 1
    BY <1>2, NextToken
  <1>4. PICK op \in Opcode :
          /\ n + 1 \in Token /\ GroupOf[op] = s /\ MaySend(s, op)
          /\ sig' = NoteToken(s, n + 1)
          /\ sent' = [u \in DOMAIN sent \cup {n + 1} |-> IF u = n + 1 THEN op ELSE sent[u]]
          /\ \/ /\ spf' = spf \/ spf' = spf \cup {n + 1}
                /\ client' = [client EXCEPT ![s] =
                                [IdleClient EXCEPT !.token = n + 1, !.pc = "waiting"]]
             \/ /\ client' = [client EXCEPT ![s] = [IdleClient EXCEPT !.token = n + 1]]
                /\ UNCHANGED spf
          /\ UNCHANGED <<answer, packet, late>>
    BY <1>3, Send(s) DEF Send
  <1>5. n + 1 \notin DOMAIN sent
    BY <1>2
  <1>6. client[s].pc \in {"idle", "admitted"}
    BY <1>4 DEF MaySend
  <1>7. /\ client'[s].token = n + 1 /\ client'[s].rsp = NoToken /\ client'[s].reset = FALSE
        /\ client'[s].timedout = FALSE
        /\ client'[s].rc = "NOT_SENT"
        /\ \/ client'[s].pc = "waiting" /\ (spf' = spf \/ spf' = spf \cup {n + 1})
           \/ client'[s].pc = "idle" /\ spf' = spf
        /\ \A r \in Sig : r # s => client'[r] = client[r]
    <2> DEFINE c == [IdleClient EXCEPT !.token = n + 1]
               d == [IdleClient EXCEPT !.token = n + 1, !.pc = "waiting"]
    <2>1. /\ c.token = n + 1 /\ c.rsp = NoToken /\ c.reset = FALSE
          /\ c.timedout = FALSE
          /\ c.rc = "NOT_SENT" /\ c.pc = "idle"
      BY DEF IdleClient
    <2>2. /\ d.token = n + 1 /\ d.rsp = NoToken /\ d.reset = FALSE
          /\ d.timedout = FALSE
          /\ d.rc = "NOT_SENT" /\ d.pc = "waiting"
      BY DEF IdleClient
    <2>3. \/ client' = [client EXCEPT ![s] = c] /\ spf' = spf
          \/ /\ client' = [client EXCEPT ![s] = d]
             /\ spf' = spf \/ spf' = spf \cup {n + 1}
      BY <1>4
    <2> HIDE DEF c, d
    <2> QED
      BY <1>1, <2>1, <2>2, <2>3
  <1>8. /\ sig'[s].expected = n + 1 /\ sig'[s].gpr_packet = sig[s].gpr_packet
        /\ sig'[s].signalled = sig[s].signalled /\ sig'[s].flags = sig[s].flags
        /\ sig'[s].status = sig[s].status
        /\ \A r \in Sig : r # s => sig'[r] = sig[r]
    BY <1>1, <1>4 DEF NoteToken, SignalRecord
  <1>9. /\ DOMAIN sent' = DOMAIN sent \cup {n + 1} /\ sent'[n + 1] = op
        /\ \A u \in DOMAIN sent : sent'[u] = sent[u]
    BY <1>4, <1>5
  <1>10. GroupOf[sent'[n + 1]] = s
    BY <1>4, <1>9
  <1> QED
    BY <1>4, <1>5, <1>6, <1>7, <1>8, <1>9, <1>10 DEF OthersKeep

LEMMA SignalInit == Init => SignalInv
PROOF
  <1> SUFFICES ASSUME Init PROVE SignalInv
    OBVIOUS
  <1>1. \A s \in Sig :
          /\ client[s].pc = "idle" /\ client[s].token = NoToken /\ client[s].rsp = NoToken
          /\ client[s].reset = FALSE /\ client[s].rc = "NOT_SENT"
          /\ client[s].timedout = FALSE
          /\ sig[s].gpr_packet = NoToken /\ sig[s].signalled = FALSE
    BY DEF Init, IdleClient, CreatedSignal
  <1>2. spf = {} /\ DOMAIN answer = {} /\ \A t \in Token : packet[t] = "none"
    BY DEF Init
  <1>3. Bookkeeping
    BY <1>1, <1>2
       DEF Bookkeeping, AnsweredOnce, SenderOfItsGroup, InWait, HoldsOnlyLeaving,
           WokenByAFlag
  <1>4. ResetIsSeen /\ NoPacketLeak
    BY <1>1, <1>2 DEF ResetIsSeen, NoPacketLeak
  <1>5. OnTime
    BY <1>1, <1>2
       DEF OnTime, AwaitsWhatIsPending, Pending, SignalHasTheAnswer, LeavesWithTheAnswer,
           SuccessIsAlwaysReal, NothingEverFreedTwice
  <1> QED
    BY <1>3, <1>4, <1>5 DEF SignalInv

\* The types the steps below need.
LEMMA Types ==
  ASSUME TypeInv
  PROVE  /\ NoToken \notin Token
         /\ packet \in [Token -> PacketState]
         /\ \A s \in Sig : sig[s].gpr_packet \in Token \cup {NoToken}
         /\ \A s \in Sig : client[s].rsp \in Token \cup {NoToken}
         /\ DOMAIN answer \subseteq DOMAIN sent /\ DOMAIN sent \subseteq Token
         /\ spf \subseteq DOMAIN sent
         /\ \A t \in DOMAIN sent : GroupOf[sent[t]] \in Sig
         /\ \A t \in DOMAIN answer : answer[t] \in Status
PROOF
  <1>1. NoToken \notin Token
    BY DEF Token, NoToken
  <1>2. /\ \A s \in Sig : sig[s].gpr_packet \in Token \cup {NoToken}
        /\ \A s \in Sig : client[s].rsp \in Token \cup {NoToken}
    <2>1. sig \in [Sig -> SignalRecord] /\ client \in [Sig -> ClientRecord]
      BY DEF TypeInv, TypeOK
    <2> QED
      BY <2>1 DEF SignalRecord, ClientRecord
  <1>3. \A t \in DOMAIN sent : GroupOf[sent[t]] \in Sig
    BY GroupOfType DEF TypeInv, TypeOK
  <1> QED
    BY <1>1, <1>2, <1>3 DEF TypeInv, TypeOK

\* What gsl_signal_set does to the signal s when f is the flag, st the status and t
\* the answered command, or no packet: the pending packet is freed, the new one
\* kept if it is expected and freed otherwise.
IsSet(s, f, st, t) ==
  /\ \A r \in Sig : r # s => sig'[r] = sig[r]
  /\ sig'[s].flags = sig[s].flags \cup {f} /\ sig'[s].status = st
  /\ sig'[s].expected = sig[s].expected
  /\ sig[s].signalled => sig'[s].signalled
  /\ sig'[s].gpr_packet = IF Expects(s, t) THEN t ELSE sig[s].gpr_packet
  /\ \A u \in Token : u \notin {t, sig[s].gpr_packet} => packet'[u] = packet[u]
  /\ \A u \in Token : u # t /\ u = sig[s].gpr_packet =>
       packet'[u] = IF packet[u] \in {"flying", "kept"} THEN "freed" ELSE "freed twice"
  /\ t # NoToken /\ Expects(s, t) => packet'[t] = "kept"
  /\ t # NoToken /\ ~Expects(s, t) => packet'[t] \in {"freed", "freed twice"}

LEMMA SetDoes ==
  ASSUME TypeInv, NEW s \in Sig, NEW f \in Flag, NEW st \in Status,
         NEW t \in Token \cup {NoToken}, SignalSet(s, f, st, t)
  PROVE  IsSet(s, f, st, t)
PROOF
  <1> DEFINE pk == FreePending(s)
  <1>1. sig[s].gpr_packet \in Token \cup {NoToken} /\ NoToken \notin Token
    BY Types
  <1>2. /\ pk \in [Token -> PacketState]
        /\ \A u \in Token : u # sig[s].gpr_packet => pk[u] = packet[u]
        /\ \A u \in Token : u = sig[s].gpr_packet =>
             pk[u] = IF packet[u] \in {"flying", "kept"} THEN "freed" ELSE "freed twice"
    <2>1. PICK p \in Token \cup {NoToken} : p = sig[s].gpr_packet
      BY <1>1
    <2>2. pk = Freed(packet, p) /\ packet \in [Token -> PacketState]
      BY <2>1, Types DEF FreePending
    <2> HIDE DEF pk
    <2>3. /\ pk \in [Token -> PacketState]
          /\ \A u \in Token : u # p => pk[u] = packet[u]
          /\ p # NoToken => pk[p] = IF packet[p] \in {"flying", "kept"}
                                     THEN "freed" ELSE "freed twice"
      BY <2>2, FreedPackets
    <2> QED
      BY <1>1, <2>1, <2>3
  <1> DEFINE Packets ==
    /\ \A u \in Token : u \notin {t, sig[s].gpr_packet} => packet'[u] = packet[u]
    /\ \A u \in Token : u # t /\ u = sig[s].gpr_packet =>
         packet'[u] = IF packet[u] \in {"flying", "kept"} THEN "freed" ELSE "freed twice"
    /\ t # NoToken /\ Expects(s, t) => packet'[t] = "kept"
    /\ t # NoToken /\ ~Expects(s, t) => packet'[t] \in {"freed", "freed twice"}
  <1> DEFINE Fields ==
    /\ \A r \in Sig : r # s => sig'[r] = sig[r]
    /\ sig'[s].flags = sig[s].flags \cup {f} /\ sig'[s].status = st
    /\ sig'[s].expected = sig[s].expected
    /\ sig[s].signalled => sig'[s].signalled
    /\ sig'[s].gpr_packet = IF Expects(s, t) THEN t ELSE sig[s].gpr_packet
  <1>0. Fields
    BY SetSignal
  <1>3. CASE t = NoToken
    <2>1. packet' = pk
      <3> HIDE DEF pk
      <3>1. packet' = CASE t = NoToken     -> pk
                        [] ~ Expects(s, t) -> Freed(pk, t)
                        [] OTHER           -> [pk EXCEPT ![t] = "kept"]
        BY DEF SignalSet, pk
      <3> QED
        BY <1>3, <3>1 DEF Expects
    <2> HIDE DEF pk
    <2>2. Packets
      BY <1>1, <1>2, <1>3, <2>1
    <2> QED
      BY <1>0, <2>2 DEF IsSet
  <1>4. CASE t # NoToken /\ Expects(s, t)
    <2>1. packet' = [pk EXCEPT ![t] = "kept"]
      BY <1>4 DEF SignalSet
    <2> HIDE DEF pk
    <2>2. Packets
      BY <1>2, <1>4, <2>1
    <2> QED
      BY <1>0, <2>2 DEF IsSet
  <1>5. CASE t # NoToken /\ ~Expects(s, t)
    <2>1. packet' = Freed(pk, t)
      BY <1>5 DEF SignalSet
    <2> HIDE DEF pk
    <2>2. /\ \A u \in Token : u # t => packet'[u] = pk[u]
          /\ packet'[t] \in {"freed", "freed twice"}
      BY <1>2, <1>5, <2>1, FreedPackets
    <2>3. Packets
      BY <1>2, <1>5, <2>2
    <2> QED
      BY <1>0, <2>3 DEF IsSet
  <1> QED
    BY <1>3, <1>4, <1>5

LEMMA AnswerDoes ==
  ASSUME TypeInv, SpfAnswer
  PROVE  \E t \in spf :
         /\ spf' = spf \ {t} /\ DOMAIN answer' = DOMAIN answer \cup {t}
         /\ \A u \in DOMAIN answer : u # t => answer'[u] = answer[u]
         /\ packet'[t] = "flying" /\ \A u \in Token : u # t => packet'[u] = packet[u]
         /\ UNCHANGED <<sig, client, sent, late>>
  BY Types DEF SpfAnswer

LEMMA CallbackDoes ==
  ASSUME TypeInv, GprCallback
  PROVE  \E t \in DOMAIN answer :
         /\ packet[t] = "flying" /\ IsSet(GroupOf[sent[t]], "RSP", answer[t], t)
         /\ UNCHANGED <<client, sent, spf, answer, late>>
PROOF
  <1>1. PICK t \in DOMAIN answer :
          /\ packet[t] = "flying" /\ SignalSet(GroupOf[sent[t]], "RSP", answer[t], t)
          /\ UNCHANGED <<client, sent, spf, answer, late>>
    BY DEF GprCallback, commands
  <1>2. GroupOf[sent[t]] \in Sig /\ answer[t] \in Status /\ t \in Token /\ "RSP" \in Flag
    BY Types DEF Flag
  <1> QED
    BY <1>1, <1>2, SetDoes

LEMMA EventDoes ==
  ASSUME TypeInv, WakeSleeper
  PROVE  \E s \in Sig, e \in Event :
         /\ IsSet(s, e, "OK", NoToken)
         /\ \A r \in Sig :
              /\ client'[r].pc = client[r].pc /\ client'[r].token = client[r].token
              /\ client'[r].rsp = client[r].rsp /\ client'[r].rc = client[r].rc
              /\ client'[r].timedout = client[r].timedout
              /\ client'[r].flags = client[r].flags /\ client'[r].status = client[r].status
              /\ \/ client'[r].reset = client[r].reset
                 \/ r = s /\ e = "SSR" /\ client[r].pc \in {"waiting", "woken"}
         /\ UNCHANGED <<sent, spf, answer, late>>
PROOF
  <1>1. PICK w \in to_wake :
          /\ SignalSet(w[2], w[1], "OK", NoToken)
          /\ LET hit == w[1] = "SSR" /\ client[w[2]].pc \in {"waiting", "woken"}
             IN client' = [client EXCEPT ![w[2]].reset = @ \/ hit]
          /\ UNCHANGED <<sent, spf, answer, late>>
    BY DEF WakeSleeper, commands
  <1>2. PICK s \in Sig, e \in Event : w[2] = s /\ w[1] = e
    BY DEF TypeInv, TypeOK
  <1>3. IsSet(s, e, "OK", NoToken)
    BY <1>1, <1>2, SetDoes DEF Flag, Status
  <1>4. client \in [Sig -> ClientRecord]
    BY DEF TypeInv, TypeOK
  <1>5. PICK hit \in BOOLEAN :
          /\ hit => e = "SSR" /\ client[s].pc \in {"waiting", "woken"}
          /\ client' = [client EXCEPT
                           ![s] = [client[s] EXCEPT !.reset = client[s].reset \/ hit]]
    BY <1>1, <1>2
  <1>6. \A r \in Sig :
              /\ client'[r].pc = client[r].pc /\ client'[r].token = client[r].token
              /\ client'[r].rsp = client[r].rsp /\ client'[r].rc = client[r].rc
              /\ client'[r].timedout = client[r].timedout
              /\ client'[r].flags = client[r].flags /\ client'[r].status = client[r].status
              /\ \/ client'[r].reset = client[r].reset
                 \/ r = s /\ hit
    <2> DEFINE c == [client[s] EXCEPT !.reset = client[s].reset \/ hit]
    <2>1. /\ c.pc = client[s].pc /\ c.token = client[s].token /\ c.rsp = client[s].rsp
          /\ c.rc = client[s].rc /\ c.timedout = client[s].timedout
          /\ c.flags = client[s].flags /\ c.status = client[s].status
      BY <1>4 DEF ClientRecord
    <2>2. client' = [client EXCEPT ![s] = c]
      BY <1>5
    <2>3. c.reset = client[s].reset \/ hit
      BY <1>4 DEF ClientRecord
    <2> HIDE DEF c
    <2>4. /\ client'[s] = c
          /\ \A r \in Sig : r # s => client'[r] = client[r]
      BY <1>4, <2>2
    <2> QED
      BY <2>1, <2>3, <2>4
  <1> QED
    BY <1>1, <1>3, <1>5, <1>6

-----------------------------------------------------------------------------
(* The invariant that no delay breaks, step by step. *)

LEMMA BookkeepingSender ==
  ASSUME TypeInv, Bookkeeping, NEW s \in Sig, Sender(s)
  PROVE  Bookkeeping'
PROOF
  <1>0. NoToken \notin Token
    BY DEF Token, NoToken
  <1> USE DEF Bookkeeping, AnsweredOnce, SenderOfItsGroup, InWait, HoldsOnlyLeaving,
              WokenByAFlag, OthersKeep
  <1>1. CASE Admit(s) \/ Leave(s)
    BY <1>1, GoOnDoes
  <1>2. CASE Wake(s)
    BY <1>2, WakeDoes
  <1>3. CASE TimeOut(s)
    BY <1>3, TimeOutDoes
  <1>4. CASE Take(s)
    BY <1>4, TakeDoes
  <1>5. CASE Return(s)
    <2>1. /\ \A t \in Token : t # client[s].rsp => packet'[t] = packet[t]
          /\ client'[s].pc \in {"idle", "admitted"} /\ client'[s].rsp = NoToken
          /\ ~client'[s].timedout
          /\ client'[s].token = client[s].token
          /\ sig'[s].gpr_packet = sig[s].gpr_packet /\ sig'[s].flags = sig[s].flags
          /\ sig'[s].signalled = sig[s].signalled
          /\ OthersKeep(s)
          /\ UNCHANGED <<sent, spf, answer>>
      BY <1>5, ReturnDoes
    <2>2. \A t \in Token : packet'[t] # "none" => t \in DOMAIN answer
      BY <1>0, <2>1
    <2> QED
      BY <2>1, <2>2
  <1>6. CASE Send(s)
    <2>1. PICK t \in Token :
            /\ t \notin DOMAIN sent /\ DOMAIN sent' = DOMAIN sent \cup {t}
            /\ \A u \in DOMAIN sent : sent'[u] = sent[u]
            /\ GroupOf[sent'[t]] = s
            /\ client'[s].token = t /\ client'[s].rsp = NoToken /\ ~client'[s].timedout
            /\ \/ client'[s].pc = "waiting" /\ (spf' = spf \/ spf' = spf \cup {t})
               \/ client'[s].pc = "idle" /\ spf' = spf
            /\ sig'[s].gpr_packet = sig[s].gpr_packet
            /\ sig'[s].signalled = sig[s].signalled /\ sig'[s].flags = sig[s].flags
            /\ OthersKeep(s)
            /\ UNCHANGED <<answer, packet>>
      BY <1>6, SendDoes
    <2>2. t \notin DOMAIN answer
      BY <2>1 DEF TypeInv, TypeOK
    <2> QED
      BY <1>0, <2>1, <2>2
  <1> QED
    BY <1>1, <1>2, <1>3, <1>4, <1>5, <1>6 DEF Sender

LEMMA BookkeepingSet ==
  ASSUME TypeInv, Bookkeeping, NEW s \in Sig, NEW f, NEW st,
         NEW t \in DOMAIN answer \cup {NoToken}, IsSet(s, f, st, t),
         \A r \in Sig : /\ client'[r].pc = client[r].pc /\ client'[r].token = client[r].token
                       /\ client'[r].rsp = client[r].rsp
                       /\ client'[r].timedout = client[r].timedout,
         UNCHANGED <<sent, spf, answer>>
  PROVE  Bookkeeping'
PROOF
  <1>1. \A u \in Token : packet'[u] # "none" =>
          packet[u] # "none" \/ u = t \/ u = sig[s].gpr_packet
    BY DEF IsSet
  <1>2. \A u \in Token : packet'[u] # "none" => u \in DOMAIN answer
    BY <1>1, Types DEF Bookkeeping, AnsweredOnce
  <1>3. \A r \in Sig : sig'[r].gpr_packet \in {t, sig[r].gpr_packet}
    BY DEF IsSet
  <1>4. AnsweredOnce'
    BY <1>2, <1>3 DEF Bookkeeping, AnsweredOnce
  <1>5. SenderOfItsGroup' /\ HoldsOnlyLeaving'
    BY DEF Bookkeeping, SenderOfItsGroup, HoldsOnlyLeaving
  <1>6. WokenByAFlag'
    BY DEF Bookkeeping, WokenByAFlag, IsSet
  <1> QED
    BY <1>4, <1>5, <1>6 DEF Bookkeeping

LEMMA BookkeepingRest ==
  ASSUME TypeInv, Bookkeeping,
         SpfAnswer \/ GprCallback \/ SubsystemDown \/ CloseGraph \/ WakeSleeper
  PROVE  Bookkeeping'
PROOF
  <1> USE DEF Bookkeeping, AnsweredOnce, SenderOfItsGroup, InWait, HoldsOnlyLeaving,
              WokenByAFlag
  <1>1. CASE SpfAnswer
    <2>1. PICK t \in spf :
            /\ spf' = spf \ {t} /\ DOMAIN answer' = DOMAIN answer \cup {t}
            /\ \A u \in Token : u # t => packet'[u] = packet[u]
            /\ UNCHANGED <<sig, client, sent>>
      BY <1>1, AnswerDoes
    <2> QED
      BY <2>1
  <1>2. CASE GprCallback
    <2>1. PICK t \in DOMAIN answer :
            /\ IsSet(GroupOf[sent[t]], "RSP", answer[t], t)
            /\ UNCHANGED <<client, sent, spf, answer>>
      BY <1>2, CallbackDoes
    <2>2. GroupOf[sent[t]] \in Sig
      BY Types
    <2> HIDE DEF Bookkeeping
    <2> QED
      BY <2>1, <2>2, BookkeepingSet
  <1>3. CASE SubsystemDown \/ CloseGraph
    BY <1>3 DEF SubsystemDown, CloseGraph, commands
  <1>4. CASE WakeSleeper
    <2>1. PICK s \in Sig, e \in Event :
            /\ IsSet(s, e, "OK", NoToken)
            /\ \A r \in Sig :
                 /\ client'[r].pc = client[r].pc /\ client'[r].token = client[r].token
                 /\ client'[r].rsp = client[r].rsp
                 /\ client'[r].timedout = client[r].timedout
            /\ UNCHANGED <<sent, spf, answer>>
      BY <1>4, EventDoes
    <2> HIDE DEF Bookkeeping
    <2> QED
      BY <2>1, BookkeepingSet
  <1> QED
    BY <1>1, <1>2, <1>3, <1>4

-----------------------------------------------------------------------------
(* A restart that falls into a wait is reported. *)

LEMMA ResetSender ==
  ASSUME TypeInv, Bookkeeping, ResetIsSeen, NEW s \in Sig, Sender(s)
  PROVE  ResetIsSeen'
PROOF
  <1> USE DEF ResetIsSeen, OthersKeep
  <1>1. CASE Admit(s) \/ Leave(s)
    BY <1>1, GoOnDoes
  <1>2. CASE Wake(s)
    BY <1>2, WakeDoes
  <1>3. CASE TimeOut(s)
    BY <1>3, TimeOutDoes
  <1>4. CASE Take(s)
    BY <1>4, TakeDoes
  <1>5. CASE Return(s)
    <2>1. client[s].timedout \/ "SSR" \in client[s].flags => Outcome(client[s]) # "OK"
      BY DEF Outcome
    <2>2. /\ client[s].pc = "leaving" /\ client'[s].pc \in {"idle", "admitted"}
          /\ client'[s].rc = Outcome(client[s]) /\ client'[s].reset = client[s].reset
          /\ OthersKeep(s)
      BY <1>5, ReturnDoes
    <2> QED
      BY <2>1, <2>2
  <1>6. CASE Send(s)
    <2>1. /\ ~ client'[s].reset /\ OthersKeep(s)
      BY <1>6, SendDoes
    <2> QED
      BY <2>1
  <1> QED
    BY <1>1, <1>2, <1>3, <1>4, <1>5, <1>6 DEF Sender

LEMMA ResetRest ==
  ASSUME TypeInv, ResetIsSeen,
         SpfAnswer \/ GprCallback \/ SubsystemDown \/ CloseGraph \/ WakeSleeper
  PROVE  ResetIsSeen'
PROOF
  <1>1. CASE SpfAnswer \/ SubsystemDown \/ CloseGraph
    BY <1>1 DEF ResetIsSeen, SpfAnswer, SubsystemDown, CloseGraph
  <1>2. CASE GprCallback
    <2>1. PICK t \in DOMAIN answer :
            IsSet(GroupOf[sent[t]], "RSP", answer[t], t) /\ UNCHANGED client
      BY <1>2, CallbackDoes
    <2>2. PICK s \in Sig : s = GroupOf[sent[t]]
      BY Types
    <2>3. \A r \in Sig : sig[r].flags \subseteq sig'[r].flags
      BY <2>1, <2>2 DEF IsSet
    <2> QED
      BY <2>1, <2>3 DEF ResetIsSeen
  <1>3. CASE WakeSleeper
    <2>1. PICK s \in Sig, e \in Event :
            /\ IsSet(s, e, "OK", NoToken)
            /\ \A r \in Sig :
                 /\ client'[r].pc = client[r].pc /\ client'[r].rc = client[r].rc
                 /\ client'[r].timedout = client[r].timedout
                 /\ client'[r].flags = client[r].flags
                 /\ \/ client'[r].reset = client[r].reset
                    \/ r = s /\ e = "SSR" /\ client[r].pc \in {"waiting", "woken"}
      BY <1>3, EventDoes
    <2>2. \A r \in Sig : sig[r].flags \subseteq sig'[r].flags
      BY <2>1 DEF IsSet
    <2>3. e \in sig'[s].flags
      BY <2>1 DEF IsSet
    <2> QED
      BY <2>1, <2>2, <2>3 DEF ResetIsSeen
  <1> QED
    BY <1>1, <1>2, <1>3

-----------------------------------------------------------------------------
(* No answer packet is lost. *)

LEMMA LeakSender ==
  ASSUME TypeInv, Bookkeeping, NoPacketLeak, NEW s \in Sig, Sender(s)
  PROVE  NoPacketLeak'
PROOF
  <1>1. \A r \in Sig : client[r].pc # "leaving" => client[r].rsp = NoToken
    BY DEF Bookkeeping, HoldsOnlyLeaving
  <1>2. NoToken \notin Token
    BY Types
  <1> USE DEF NoPacketLeak, OthersKeep
  <1>3. CASE Admit(s) \/ Leave(s)
    BY <1>3, GoOnDoes
  <1>4. CASE Wake(s)
    BY <1>4, WakeDoes
  <1>5. CASE TimeOut(s)
    BY <1>5, TimeOutDoes
  <1>6. CASE Take(s)
    BY <1>1, <1>2, <1>6, TakeDoes
  <1>7. CASE Return(s)
    <2>1. /\ \A t \in Token : t # client[s].rsp => packet'[t] = packet[t]
          /\ \A t \in Token : t = client[s].rsp => packet'[t] # "kept"
          /\ sig'[s].gpr_packet = sig[s].gpr_packet /\ OthersKeep(s)
      BY <1>7, ReturnDoes
    <2> QED
      BY <2>1
  <1>8. CASE Send(s)
    <2>1. /\ client[s].pc \in {"idle", "admitted"} /\ UNCHANGED packet
          /\ sig'[s].gpr_packet = sig[s].gpr_packet /\ OthersKeep(s)
      BY <1>8, SendDoes
    <2> QED
      BY <1>1, <1>2, <2>1
  <1> QED
    BY <1>3, <1>4, <1>5, <1>6, <1>7, <1>8 DEF Sender

\* Of two packets for one signal the second takes the first one's place and the
\* first is freed.
LEMMA LeakSet ==
  ASSUME TypeInv, NoPacketLeak, NEW s \in Sig, NEW f, NEW st,
         NEW t \in Token \cup {NoToken}, IsSet(s, f, st, t),
         \A r \in Sig : client'[r].rsp = client[r].rsp
  PROVE  NoPacketLeak'
PROOF
  <1> SUFFICES ASSUME NEW u \in Token, packet'[u] = "kept"
               PROVE  \E r \in Sig : u \in {sig'[r].gpr_packet, client'[r].rsp}
    BY DEF NoPacketLeak
  <1>1. CASE u = t
    BY <1>1, Types DEF IsSet
  <1>2. CASE u # t
    <2>1. u # sig[s].gpr_packet /\ packet[u] = "kept"
      BY <1>2 DEF IsSet
    <2>2. PICK r \in Sig : u \in {sig[r].gpr_packet, client[r].rsp}
      BY <2>1 DEF NoPacketLeak
    <2>3. CASE r = s
      BY <2>1, <2>2, <2>3
    <2>4. CASE r # s
      BY <2>2, <2>4 DEF IsSet
    <2> QED
      BY <2>3, <2>4
  <1> QED
    BY <1>1, <1>2

LEMMA LeakRest ==
  ASSUME TypeInv, NoPacketLeak,
         SpfAnswer \/ GprCallback \/ SubsystemDown \/ CloseGraph \/ WakeSleeper
  PROVE  NoPacketLeak'
PROOF
  <1>1. CASE SpfAnswer
    <2>1. PICK t \in spf : /\ packet'[t] = "flying"
                           /\ \A u \in Token : u # t => packet'[u] = packet[u]
                           /\ UNCHANGED <<sig, client>>
      BY <1>1, AnswerDoes
    <2> QED
      BY <2>1 DEF NoPacketLeak
  <1>2. CASE SubsystemDown \/ CloseGraph
    BY <1>2 DEF NoPacketLeak, SubsystemDown, CloseGraph
  <1>3. CASE GprCallback
    <2>1. PICK t \in DOMAIN answer :
            IsSet(GroupOf[sent[t]], "RSP", answer[t], t) /\ UNCHANGED client
      BY <1>3, CallbackDoes
    <2>2. GroupOf[sent[t]] \in Sig /\ t \in Token
      BY Types
    <2> QED
      BY <2>1, <2>2, LeakSet
  <1>4. CASE WakeSleeper
    <2>1. PICK s \in Sig, e \in Event :
            /\ IsSet(s, e, "OK", NoToken)
            /\ \A r \in Sig : client'[r].rsp = client[r].rsp
      BY <1>4, EventDoes
    <2> QED
      BY <2>1, LeakSet
  <1> QED
    BY <1>1, <1>2, <1>3, <1>4

-----------------------------------------------------------------------------
(* Nothing is taken for an answer that is none, and no packet is freed twice, as
   long as every wait ends with its answer. *)

\* A command that is pending was sent; nobody else's sender waits for it.
LEMMA PendingIsSent ==
  ASSUME TypeInv, Bookkeeping, NEW t \in Token, Pending(t)
  PROVE  t \in DOMAIN sent /\ GroupOf[sent[t]] \in Sig
PROOF
  <1>1. t \in DOMAIN sent
    BY Types DEF Pending, Bookkeeping, AnsweredOnce
  <1> QED
    BY <1>1, Types

\* Two signals never hold, nor two senders name, the same command.
LEMMA NamedBySelf ==
  ASSUME Bookkeeping, NEW r \in Sig, NEW s \in Sig, r # s,
         client[r].token = client[s].token
  PROVE  client[r].token = NoToken
  BY DEF Bookkeeping, SenderOfItsGroup

\* A sender that is not in its wait has nothing coming and nothing in its signal.
LEMMA NotWaiting ==
  ASSUME TypeInv, Bookkeeping, OnTime, NEW s \in Sig,
         client[s].pc \notin {"waiting", "woken"}
  PROVE  /\ sig[s].gpr_packet = NoToken
         /\ \A t \in Token : Pending(t) => GroupOf[sent[t]] # s
  BY DEF OnTime, AwaitsWhatIsPending, Awaited, SignalHasTheAnswer

LEMMA OnTimeSends ==
  ASSUME TypeInv, Bookkeeping, OnTime, NEW s \in Sig, Send(s)
  PROVE  OnTime'
PROOF
  <1>1. PICK t \in Token :
         /\ t \notin DOMAIN sent /\ DOMAIN sent' = DOMAIN sent \cup {t}
         /\ \A u \in DOMAIN sent : sent'[u] = sent[u]
         /\ GroupOf[sent'[t]] = s
         /\ client[s].pc \in {"idle", "admitted"}
         /\ client'[s].token = t /\ client'[s].rc = "NOT_SENT"
         /\ \/ client'[s].pc = "waiting" /\ (spf' = spf \/ spf' = spf \cup {t})
            \/ client'[s].pc = "idle" /\ spf' = spf
         /\ sig'[s].expected = t /\ sig'[s].gpr_packet = sig[s].gpr_packet
         /\ OthersKeep(s)
         /\ UNCHANGED <<answer, packet>>
    BY SendDoes
  <1>2. /\ sig[s].gpr_packet = NoToken
        /\ \A u \in Token : Pending(u) => GroupOf[sent[u]] # s
    BY <1>1, NotWaiting
  <1>3. packet[t] # "flying" /\ t \notin spf
    BY <1>1, PendingIsSent DEF Pending
  <1>4. ASSUME NEW u \in Token, Pending(u)'
        PROVE  Awaited(u)'
    <2>1. CASE u = t
      BY <1>1, <1>2, <1>3, <1>4, <2>1 DEF Pending, Awaited
    <2>2. CASE u # t
      <3>1. Pending(u)
        BY <1>1, <1>4, <2>2 DEF Pending
      <3>2. PICK r \in Sig : r = GroupOf[sent[u]] /\ sent'[u] = sent[u]
        BY <1>1, <3>1, PendingIsSent
      <3> QED
        BY <1>1, <1>2, <3>1, <3>2 DEF OnTime, AwaitsWhatIsPending, Awaited, OthersKeep
    <2> QED
      BY <2>1, <2>2
  <1>5. AwaitsWhatIsPending'
    BY <1>4 DEF AwaitsWhatIsPending
  <1>6. SignalHasTheAnswer' /\ LeavesWithTheAnswer' /\ SuccessIsAlwaysReal'
    BY <1>1, <1>2
       DEF OnTime, SignalHasTheAnswer, LeavesWithTheAnswer, SuccessIsAlwaysReal, OthersKeep
  <1> QED
    BY <1>1, <1>5, <1>6 DEF OnTime, NothingEverFreedTwice

\* The steps of a sender that touch neither its signal nor a packet.
LEMMA OnTimeGoesOn ==
  ASSUME TypeInv, Bookkeeping, OnTime, NEW s \in Sig, Admit(s) \/ Leave(s) \/ Wake(s)
  PROVE  OnTime'
PROOF
  <1>1. /\ \/ /\ {client[s].pc, client'[s].pc} \subseteq {"idle", "admitted"}
              /\ client'[s].rc = client[s].rc
           \/ client[s].pc = "waiting" /\ client'[s].pc = "woken"
        /\ client'[s].token = client[s].token
        /\ OthersKeep(s) /\ UNCHANGED <<sig, sent, spf, answer, packet>>
    BY GoOnDoes, WakeDoes
  <1>2. AwaitsWhatIsPending'
    <2> SUFFICES ASSUME NEW t \in Token, Pending(t)' PROVE Awaited(t)'
      BY DEF AwaitsWhatIsPending
    <2>1. Pending(t)
      BY <1>1 DEF Pending
    <2>2. PICK r \in Sig : r = GroupOf[sent[t]]
      BY <2>1, PendingIsSent
    <2>3. Awaited(t)
      BY <2>1 DEF OnTime, AwaitsWhatIsPending
    <2> QED
      BY <1>1, <2>2, <2>3 DEF Awaited, OthersKeep
  <1>3. SignalHasTheAnswer'
    BY <1>1 DEF OnTime, SignalHasTheAnswer, OthersKeep
  <1>4. LeavesWithTheAnswer'
    BY <1>1 DEF OnTime, LeavesWithTheAnswer, OthersKeep
  <1>5. SuccessIsAlwaysReal'
    BY <1>1 DEF OnTime, SuccessIsAlwaysReal, OthersKeep
  <1> QED
    BY <1>1, <1>2, <1>3, <1>4, <1>5 DEF OnTime, NothingEverFreedTwice

\* A sender that takes its signal on time finds the packet in it.
LEMMA OnTimeTakes ==
  ASSUME TypeInv, Bookkeeping, OnTime, NEW s \in Sig, ~late', Take(s)
  PROVE  OnTime'
PROOF
  <1>1. /\ client[s].pc = "woken" /\ client'[s].pc = "leaving"
        /\ client'[s].status = sig[s].status /\ client'[s].rsp = sig[s].gpr_packet
        /\ client'[s].token = client[s].token
        /\ client'[s].timedout = client[s].timedout
        /\ sig'[s].gpr_packet = NoToken
        /\ late' = (late \/ (sig[s].flags # {} /\ sig[s].gpr_packet = NoToken))
        /\ OthersKeep(s)
        /\ UNCHANGED <<sent, spf, answer, packet>>
    BY TakeDoes
  <1>2. sig[s].gpr_packet # NoToken
    BY <1>1 DEF Bookkeeping, WokenByAFlag
  <1>3. ~client[s].timedout
    BY <1>1 DEF Bookkeeping, HoldsOnlyLeaving
  <1>4. \A t \in Token : Pending(t) => GroupOf[sent[t]] # s
    BY <1>2 DEF OnTime, AwaitsWhatIsPending, Awaited
  <1>5. AwaitsWhatIsPending'
    <2> SUFFICES ASSUME NEW t \in Token, Pending(t)' PROVE Awaited(t)'
      BY DEF AwaitsWhatIsPending
    <2>1. Pending(t)
      BY <1>1 DEF Pending
    <2>2. PICK r \in Sig : r = GroupOf[sent[t]]
      BY <2>1, PendingIsSent
    <2> QED
      BY <1>1, <1>4, <2>1, <2>2 DEF OnTime, AwaitsWhatIsPending, Awaited, OthersKeep
  <1>6. SignalHasTheAnswer' /\ SuccessIsAlwaysReal'
    BY <1>1 DEF OnTime, SignalHasTheAnswer, SuccessIsAlwaysReal, OthersKeep
  <1>7. LeavesWithTheAnswer'
    BY <1>1, <1>2, <1>3
       DEF OnTime, SignalHasTheAnswer, LeavesWithTheAnswer, OthersKeep
  <1> QED
    BY <1>1, <1>5, <1>6, <1>7 DEF OnTime, NothingEverFreedTwice

LEMMA OnTimeReturns ==
  ASSUME TypeInv, Bookkeeping, OnTime, NEW s \in Sig, Return(s)
  PROVE  OnTime'
PROOF
  <1>1. /\ client[s].pc = "leaving" /\ client'[s].pc \in {"idle", "admitted"}
        /\ client'[s].rc = Outcome(client[s]) /\ client'[s].token = client[s].token
        /\ \A t \in Token : t # client[s].rsp => packet'[t] = packet[t]
        /\ \A t \in Token : t = client[s].rsp =>
             packet'[t] = IF packet[t] \in {"flying", "kept"} THEN "freed" ELSE "freed twice"
        /\ sig'[s].gpr_packet = sig[s].gpr_packet
        /\ OthersKeep(s) /\ UNCHANGED <<sent, spf, answer>>
    BY ReturnDoes
  <1>2. /\ sig[s].gpr_packet = NoToken
        /\ \A t \in Token : Pending(t) => GroupOf[sent[t]] # s
    BY <1>1, NotWaiting
  <1>3. /\ client[s].rsp = client[s].token /\ client[s].token \in DOMAIN answer
        /\ answer[client[s].token] = client[s].status /\ packet[client[s].rsp] = "kept"
        /\ client[s].token # NoToken /\ client[s].token \in Token
    BY <1>1, Types DEF OnTime, LeavesWithTheAnswer, Bookkeeping, SenderOfItsGroup, InWait
  <1>4. AwaitsWhatIsPending'
    <2> SUFFICES ASSUME NEW t \in Token, Pending(t)' PROVE Awaited(t)'
      BY DEF AwaitsWhatIsPending
    <2>1. Pending(t)
      BY <1>1, <1>3 DEF Pending
    <2>2. PICK r \in Sig : r = GroupOf[sent[t]]
      BY <2>1, PendingIsSent
    <2> QED
      BY <1>1, <1>2, <2>1, <2>2 DEF OnTime, AwaitsWhatIsPending, Awaited, OthersKeep
  <1>5. \A r \in Sig : r # s => client[r].token # client[s].token
    BY <1>3, NamedBySelf
  <1>6. \A r \in Sig : r # s /\ client[r].token \in Token =>
          packet'[client[r].token] = packet[client[r].token]
    BY <1>1, <1>3, <1>5
  <1>7. SignalHasTheAnswer'
    <2>1. \A r \in Sig : r # s /\ sig[r].gpr_packet # NoToken =>
            packet'[sig[r].gpr_packet] = packet[sig[r].gpr_packet]
      BY <1>6, Types DEF OnTime, SignalHasTheAnswer
    <2>2. \A r \in Sig : sig'[r].gpr_packet # NoToken =>
            r # s /\ sig'[r] = sig[r] /\ client'[r] = client[r]
      BY <1>1, <1>2 DEF OthersKeep
    <2>3. UNCHANGED answer
      BY <1>1
    <2> HIDE <1>1
    <2> QED
      BY <2>1, <2>2, <2>3 DEF OnTime, SignalHasTheAnswer
  <1>8. LeavesWithTheAnswer'
    <2>1. \A r \in Sig : r # s /\ client[r].pc = "leaving" =>
            packet'[client[r].rsp] = packet[client[r].rsp]
      BY <1>6, Types DEF OnTime, LeavesWithTheAnswer
    <2>2. \A r \in Sig : client'[r].pc = "leaving" => r # s /\ client'[r] = client[r]
      BY <1>1 DEF OthersKeep
    <2>3. UNCHANGED answer
      BY <1>1
    <2> HIDE <1>1
    <2> QED
      BY <2>1, <2>2, <2>3 DEF OnTime, LeavesWithTheAnswer
  <1>9. Outcome(client[s]) = "OK" => client[s].status = "OK"
    BY DEF Outcome
  <1>10. SuccessIsAlwaysReal'
    BY <1>1, <1>3, <1>9 DEF OnTime, SuccessIsAlwaysReal, OthersKeep
  <1>11. NothingEverFreedTwice'
    BY <1>1, <1>3 DEF OnTime, NothingEverFreedTwice
  <1> QED
    BY <1>4, <1>7, <1>8, <1>10, <1>11 DEF OnTime

\* The answer to a command finds its sender waiting.
LEMMA OnTimeCallback ==
  ASSUME TypeInv, Bookkeeping, OnTime, GprCallback
  PROVE  OnTime'
PROOF
  <1>1. PICK t \in DOMAIN answer :
         /\ packet[t] = "flying" /\ IsSet(GroupOf[sent[t]], "RSP", answer[t], t)
         /\ UNCHANGED <<client, sent, spf, answer>>
    BY CallbackDoes
  <1>2. t \in Token /\ t # NoToken /\ Pending(t)
    BY <1>1, Types DEF Pending
  <1>3. PICK s \in Sig : s = GroupOf[sent[t]]
    BY Types
  <1>4. /\ client[s].pc \in {"waiting", "woken"} /\ client[s].token = t
        /\ sig[s].expected = t /\ sig[s].gpr_packet = NoToken
    BY <1>2, <1>3 DEF OnTime, AwaitsWhatIsPending, Awaited
  <1>5. /\ \A r \in Sig : r # s => sig'[r] = sig[r]
        /\ sig'[s].gpr_packet = t /\ sig'[s].status = answer[t]
        /\ packet'[t] = "kept" /\ \A u \in Token : u # t => packet'[u] = packet[u]
    BY <1>1, <1>2, <1>3, <1>4, Types DEF IsSet, Expects
  <1>6. AwaitsWhatIsPending'
    <2> SUFFICES ASSUME NEW u \in Token, Pending(u)' PROVE Awaited(u)'
      BY DEF AwaitsWhatIsPending
    <2>1. u # t /\ Pending(u)
      <3>1. t \notin spf
        BY DEF Bookkeeping, AnsweredOnce
      <3> QED
        BY <1>1, <1>5, <3>1 DEF Pending
    <2>2. PICK r \in Sig : r = GroupOf[sent[u]]
      BY <2>1, PendingIsSent
    <2>3. Awaited(u)
      BY <2>1 DEF OnTime, AwaitsWhatIsPending
    <2>4. r # s
      BY <1>4, <2>1, <2>2, <2>3 DEF Awaited
    <2> QED
      BY <1>1, <1>5, <2>2, <2>3, <2>4 DEF Awaited
  <1>7. \A u \in Token : packet[u] = "kept" => packet'[u] = "kept"
    BY <1>5
  <1>8. SignalHasTheAnswer'
    <2> SUFFICES ASSUME NEW r \in Sig, sig'[r].gpr_packet # NoToken
                 PROVE  LET u == sig'[r].gpr_packet IN
                        /\ client[r].pc \in {"waiting", "woken"} /\ client[r].token = u
                        /\ u \in DOMAIN answer /\ answer[u] = sig'[r].status
                        /\ packet'[u] = "kept"
      BY <1>1 DEF SignalHasTheAnswer
    <2>1. CASE r = s
      BY <1>4, <1>5, <2>1
    <2>2. CASE r # s
      BY <1>5, <1>7, <2>2, Types DEF OnTime, SignalHasTheAnswer
    <2> QED
      BY <2>1, <2>2
  <1>9. LeavesWithTheAnswer'
    BY <1>1, <1>7, Types DEF OnTime, LeavesWithTheAnswer
  <1>10. SuccessIsAlwaysReal' /\ NothingEverFreedTwice'
    BY <1>1, <1>5 DEF OnTime, SuccessIsAlwaysReal, NothingEverFreedTwice
  <1> QED
    BY <1>6, <1>8, <1>9, <1>10 DEF OnTime

\* An event frees the packet that its sender has not taken yet.
LEMMA OnTimeEvent ==
  ASSUME TypeInv, Bookkeeping, OnTime, WakeSleeper
  PROVE  OnTime'
PROOF
  <1>1. PICK s \in Sig, e \in Event :
         /\ IsSet(s, e, "OK", NoToken)
         /\ \A r \in Sig :
              /\ client'[r].pc = client[r].pc /\ client'[r].token = client[r].token
              /\ client'[r].rsp = client[r].rsp /\ client'[r].rc = client[r].rc
              /\ client'[r].timedout = client[r].timedout
              /\ client'[r].status = client[r].status
         /\ UNCHANGED <<sent, spf, answer>>
    BY EventDoes
  <1>2. /\ \A r \in Sig : r # s => sig'[r] = sig[r]
        /\ sig'[s].expected = sig[s].expected /\ sig'[s].gpr_packet = NoToken
        /\ \A u \in Token : u # sig[s].gpr_packet => packet'[u] = packet[u]
        /\ \A u \in Token : u = sig[s].gpr_packet =>
             packet'[u] = IF packet[u] \in {"flying", "kept"} THEN "freed" ELSE "freed twice"
    BY <1>1, Types DEF IsSet, Expects
  <1>3. \A u \in Token : u = sig[s].gpr_packet =>
          packet'[u] = "freed" /\ client[s].token = u
          /\ client[s].pc \in {"waiting", "woken"}
    <2>1. \A u \in Token : u = sig[s].gpr_packet =>
            /\ packet[u] = "kept" /\ client[s].token = u
            /\ client[s].pc \in {"waiting", "woken"}
      BY Types DEF OnTime, SignalHasTheAnswer
    <2> QED
      BY <1>2, <2>1
  <1>4. AwaitsWhatIsPending'
    <2> SUFFICES ASSUME NEW u \in Token, Pending(u)' PROVE Awaited(u)'
      BY DEF AwaitsWhatIsPending
    <2>1. Pending(u)
      BY <1>1, <1>2, <1>3 DEF Pending
    <2>2. PICK r \in Sig : r = GroupOf[sent[u]]
      BY <2>1, PendingIsSent
    <2>3. Awaited(u)
      BY <2>1 DEF OnTime, AwaitsWhatIsPending
    <2> QED
      BY <1>1, <1>2, <2>2, <2>3 DEF Awaited
  <1>5. \A r \in Sig : r # s /\ client[r].token \in Token =>
          packet'[client[r].token] = packet[client[r].token]
    <2> SUFFICES ASSUME NEW r \in Sig, r # s, client[r].token \in Token
                 PROVE  packet'[client[r].token] = packet[client[r].token]
      OBVIOUS
    <2>1. client[r].token # client[s].token
      BY NamedBySelf, Types
    <2>2. client[r].token # sig[s].gpr_packet
      BY <1>3, <2>1
    <2> QED
      BY <1>2, <2>2
  <1>6. SignalHasTheAnswer'
    <2> SUFFICES ASSUME NEW r \in Sig, sig'[r].gpr_packet # NoToken
                 PROVE  LET u == sig'[r].gpr_packet IN
                        /\ client[r].pc \in {"waiting", "woken"} /\ client[r].token = u
                        /\ u \in DOMAIN answer /\ answer[u] = sig'[r].status
                        /\ packet'[u] = "kept"
      BY <1>1 DEF SignalHasTheAnswer
    <2>1. r # s /\ sig'[r] = sig[r]
      BY <1>2
    <2> QED
      BY <1>5, <2>1, Types DEF OnTime, SignalHasTheAnswer
  <1>7. LeavesWithTheAnswer'
    <2>1. \A r \in Sig : client[r].pc = "leaving" =>
            packet'[client[r].rsp] = packet[client[r].rsp]
      <3> SUFFICES ASSUME NEW r \in Sig, client[r].pc = "leaving"
                   PROVE  packet'[client[r].rsp] = packet[client[r].rsp]
        OBVIOUS
      <3>1. client[r].rsp = client[r].token /\ client[r].token \in Token
        BY Types DEF OnTime, LeavesWithTheAnswer
      <3>2. CASE r = s
        BY <1>2, <1>3, <3>1, <3>2
      <3>3. CASE r # s
        BY <1>5, <3>1, <3>3
      <3> QED
        BY <3>2, <3>3
    <2> QED
      BY <1>1, <2>1 DEF OnTime, LeavesWithTheAnswer
  <1>8. SuccessIsAlwaysReal'
    BY <1>1 DEF OnTime, SuccessIsAlwaysReal
  <1>9. NothingEverFreedTwice'
    BY <1>2, <1>3 DEF OnTime, NothingEverFreedTwice
  <1> QED
    BY <1>4, <1>6, <1>7, <1>8, <1>9 DEF OnTime

LEMMA OnTimeRest ==
  ASSUME TypeInv, Bookkeeping, OnTime, SpfAnswer \/ SubsystemDown \/ CloseGraph
  PROVE  OnTime'
PROOF
  <1>1. CASE SpfAnswer
    <2>1. PICK t \in spf :
         /\ spf' = spf \ {t} /\ DOMAIN answer' = DOMAIN answer \cup {t}
         /\ \A u \in DOMAIN answer : u # t => answer'[u] = answer[u]
         /\ packet'[t] = "flying" /\ \A u \in Token : u # t => packet'[u] = packet[u]
         /\ UNCHANGED <<sig, client, sent>>
      BY <1>1, AnswerDoes
    <2>2. t \notin DOMAIN answer /\ Pending(t) /\ t \in Token
      BY Types DEF Bookkeeping, AnsweredOnce, Pending
    <2>3. /\ \A u \in Token : Pending(u)' => Pending(u)
          /\ \A u \in Token : Awaited(u) => Awaited(u)'
      BY <2>1, <2>2 DEF Pending, Awaited
    <2>4. AwaitsWhatIsPending'
      BY <2>3 DEF OnTime, AwaitsWhatIsPending
    <2>5. \A u \in DOMAIN answer : u \in DOMAIN answer' /\ u # t /\ answer'[u] = answer[u]
                                   /\ packet'[u] = packet[u]
      BY <2>1, <2>2, Types
    <2>6. SignalHasTheAnswer' /\ LeavesWithTheAnswer' /\ SuccessIsAlwaysReal'
      BY <2>1, <2>5
         DEF OnTime, SignalHasTheAnswer, LeavesWithTheAnswer, SuccessIsAlwaysReal
    <2>7. NothingEverFreedTwice'
      BY <2>1 DEF OnTime, NothingEverFreedTwice
    <2> QED
      BY <2>4, <2>6, <2>7 DEF OnTime
  <1>2. CASE SubsystemDown \/ CloseGraph
    <2>1. spf' \subseteq spf /\ UNCHANGED <<sig, client, sent, answer, packet>>
      BY <1>2 DEF SubsystemDown, CloseGraph, commands
    <2>2. /\ \A u \in Token : Pending(u)' => Pending(u)
          /\ \A u \in Token : Awaited(u) => Awaited(u)'
      BY <2>1 DEF Pending, Awaited
    <2> QED
      BY <2>1, <2>2
         DEF OnTime, AwaitsWhatIsPending, SignalHasTheAnswer, LeavesWithTheAnswer,
             SuccessIsAlwaysReal, NothingEverFreedTwice
  <1> QED
    BY <1>1, <1>2

-----------------------------------------------------------------------------
(* The theorems. *)

LEMMA SignalNext == TypeInv /\ SignalInv /\ [Next]_vars => SignalInv'
PROOF
  <1> SUFFICES ASSUME TypeInv, SignalInv, [Next]_vars PROVE SignalInv'
    OBVIOUS
  <1>1. CASE UNCHANGED vars
    BY <1>1
       DEF vars, SignalInv, Bookkeeping, AnsweredOnce, SenderOfItsGroup, HoldsOnlyLeaving,
           WokenByAFlag, ResetIsSeen, NoPacketLeak, OnTime, AwaitsWhatIsPending, Pending,
           Awaited, SignalHasTheAnswer, LeavesWithTheAnswer, SuccessIsAlwaysReal,
           NothingEverFreedTwice
  <1>2. ASSUME NEW s \in Sig, Sender(s) PROVE SignalInv'
    <2>1. Bookkeeping' /\ ResetIsSeen' /\ NoPacketLeak'
      BY <1>2, BookkeepingSender, ResetSender, LeakSender DEF SignalInv
    <2>2. ASSUME ~late' PROVE OnTime'
      <3>1. ~late
        BY <1>2, <2>2, GoOnDoes, WakeDoes, TimeOutDoes, TakeDoes, ReturnDoes, SendDoes
           DEF Sender
      <3>2. OnTime /\ Bookkeeping
        BY <3>1 DEF SignalInv
      <3>3. ~TimeOut(s)
        BY <2>2, TimeOutDoes
      <3> QED
        BY <1>2, <2>2, <3>2, <3>3, OnTimeGoesOn, OnTimeSends, OnTimeTakes, OnTimeReturns
           DEF Sender
    <2> QED
      BY <2>1, <2>2 DEF SignalInv
  <1>3. CASE SpfAnswer \/ GprCallback \/ SubsystemDown \/ CloseGraph \/ WakeSleeper
    <2>1. Bookkeeping' /\ ResetIsSeen' /\ NoPacketLeak'
      BY <1>3, BookkeepingRest, ResetRest, LeakRest DEF SignalInv
    <2>2. UNCHANGED late
      BY <1>3 DEF SpfAnswer, GprCallback, SubsystemDown, CloseGraph, WakeSleeper
    <2>3. ~late' => OnTime'
      BY <1>3, <2>2, OnTimeRest, OnTimeCallback, OnTimeEvent DEF SignalInv
    <2> QED
      BY <2>1, <2>3 DEF SignalInv
  <1> QED
    BY <1>1, <1>2, <1>3 DEF Next

LEMMA SignalInvariant == Spec => []SignalInv
  BY TypeInit, TypeNext, SignalInit, SignalNext, PTL DEF Spec

\* A command during whose wait the subsystem went down is never reported as a
\* success, in whatever order SPF's answer, the event and the sender come.
THEOREM RestartIsReported == Spec => []SsrIsReported
PROOF
  <1>1. SignalInv => SsrIsReported
    BY DEF SignalInv, ResetIsSeen, SsrIsReported
  <1> QED
    BY SignalInvariant, <1>1, PTL

\* However late an answer comes, its packet is freed, or a signal or a sender that
\* will free it still refers to it.
THEOREM PacketsAreNotLost == Spec => []NoPacketLeak
PROOF
  <1>1. SignalInv => NoPacketLeak
    BY DEF SignalInv
  <1> QED
    BY SignalInvariant, <1>1, PTL

\* As long as every wait has ended with its answer, success is SPF's word for that
\* very command, ...
THEOREM SuccessIsTheAnswer == Spec => []SuccessIsReal
PROOF
  <1>1. SignalInv => SuccessIsReal
    BY DEF SignalInv, OnTime, SuccessIsReal
  <1> QED
    BY SignalInvariant, <1>1, PTL

\* ... and the packet that is handed from the callback to the sender through the
\* signal is freed by one of them only.
THEOREM PacketsAreFreedOnce == Spec => []NothingFreedTwice
PROOF
  <1>1. SignalInv => NothingFreedTwice
    BY DEF SignalInv, OnTime, NothingFreedTwice
  <1> QED
    BY SignalInvariant, <1>1, PTL

-----------------------------------------------------------------------------
(* OsalSignal: types.  OsalTypeOK does not say that pc, rc and sets are functions, which an
   update of one thread's entry needs. *)

OsalTypeInv ==
  /\ OsalTypeOK
  /\ pc \in [Thread -> WaiterPc \cup SetterPc]
  /\ rc \in [Waiter -> {"OK", "FAILED"}]
  /\ sets \in [Setter -> 0 .. MaxSets]

LEMMA OsalTypeInit == OsalInit => OsalTypeInv
PROOF
  <1> SUFFICES ASSUME OsalInit PROVE OsalTypeInv
    OBVIOUS
  <1>1. /\ pc \in [Thread -> WaiterPc \cup SetterPc]
        /\ \A t \in Thread : pc[t] = "idle"
    BY DEF OsalInit, WaiterPc
  <1>2. rc \in [Waiter -> {"OK", "FAILED"}]
    BY DEF OsalInit
  <1>3. sets \in [Setter -> 0 .. MaxSets]
    BY ParametersType DEF OsalInit
  <1> QED
    BY <1>1, <1>2, <1>3 DEF OsalInit, OsalTypeInv, OsalTypeOK, Thread, WaiterPc, SetterPc

\* The steps that every thread makes: both kinds have the labels they go to.
LEMMA TypeStep ==
  ASSUME OsalTypeInv, NEW t \in Thread, Step(t)
  PROVE  OsalTypeInv'
PROOF
  <1> USE ThreadsAreDistinct DEF OsalTypeInv, OsalTypeOK, Thread, Goto, Unlock
  <1>1. CASE FirstUnlock(t)
    BY <1>1 DEF FirstUnlock, WaiterPc, SetterPc
  <1>2. CASE LastUnlock(t)
    <2>1. user_lock' \in Thread \cup {Free}
      BY <1>2 DEF LastUnlock, UserUnlock
    <2>2. \/ t \in Waiter /\ pc' = [pc EXCEPT ![t] = "to clear"]
          \/ pc' = [pc EXCEPT ![t] = "idle"]
      BY <1>2 DEF LastUnlock
    <2> QED
      BY <1>2, <2>1, <2>2 DEF LastUnlock, WaiterPc, SetterPc
  <1> QED
    BY <1>1, <1>2 DEF Step

LEMMA TypeWaiter ==
  ASSUME OsalTypeInv, NEW w \in Waiter,
         \/ Wait(w) \/ Check(w) \/ Sleep(w) \/ Reacquire(w) \/ Clear(w)
         \/ SpuriousWake(w) \/ SleepTimesOut(w)
  PROVE  OsalTypeInv'
PROOF
  <1> USE ThreadsAreDistinct DEF OsalTypeInv, OsalTypeOK, Thread, Goto, Unlock, Lock
  <1>1. CASE Wait(w) \/ SpuriousWake(w) \/ SleepTimesOut(w) \/ Sleep(w)
    BY <1>1 DEF Wait, SpuriousWake, SleepTimesOut, TimedOut, Sleep, WaiterPc
  <1>2. CASE Check(w)
    BY <1>2 DEF Check, WaiterPc
  <1>3. CASE Reacquire(w)
    BY <1>3 DEF Reacquire, WaiterPc
  <1>4. CASE Clear(w)
    <2>1. user_lock' \in Thread \cup {Free}
      BY <1>4 DEF Clear, UserLock, UserUnlock
    <2>2. PICK label \in WaiterPc : pc' = [pc EXCEPT ![w] = label]
      BY <1>4 DEF Clear, WaiterPc
    <2>3. /\ osal_mutex' \in Thread \cup {Free} /\ signalled' \in BOOLEAN
          /\ UNCHANGED <<rc, sets>>
      BY <1>4 DEF Clear
    <2> QED
      BY <2>1, <2>2, <2>3
  <1> QED
    BY <1>1, <1>2, <1>3, <1>4

LEMMA TypeSetter ==
  ASSUME OsalTypeInv, NEW s \in Setter,
         Set(s) \/ SetLock(s) \/ SetFlag(s) \/ Broadcast(s)
  PROVE  OsalTypeInv'
PROOF
  <1> USE ThreadsAreDistinct, ParametersType DEF OsalTypeInv, OsalTypeOK, Thread, Goto, Lock
  <1>1. CASE Set(s)
    <2>1. user_lock' \in Thread \cup {Free}
      BY <1>1 DEF Set, UserLock
    <2>2. sets[s] + 1 \in 0 .. MaxSets
      BY <1>1 DEF Set
    <2> QED
      BY <1>1, <2>1, <2>2 DEF Set, SetterPc
  <1>2. CASE SetLock(s) \/ SetFlag(s)
    BY <1>2 DEF SetLock, SetFlag, SetterPc
  <1>3. CASE Broadcast(s)
    <2>1. \A r \in Setter : pc[r] # "asleep"
      BY DEF SetterPc
    <2>2. \A t \in Thread : \/ t = s /\ pc'[t] = "unlock"
                            \/ t \in Waiter /\ pc'[t] = "awake"
                            \/ t # s /\ pc'[t] = pc[t]
      BY <1>3, <2>1 DEF Broadcast
    <2>3. pc' \in [Thread -> WaiterPc \cup SetterPc]
      BY <1>3, <2>2 DEF Broadcast, WaiterPc, SetterPc
    <2> QED
      BY <1>3, <2>2, <2>3 DEF Broadcast, WaiterPc, SetterPc
  <1> QED
    BY <1>1, <1>2, <1>3

LEMMA OsalTypeNext == OsalTypeInv /\ [OsalNext]_osal_vars => OsalTypeInv'
PROOF
  <1> SUFFICES ASSUME OsalTypeInv, [OsalNext]_osal_vars PROVE OsalTypeInv'
    OBVIOUS
  <1>1. CASE UNCHANGED osal_vars
    BY <1>1 DEF osal_vars, OsalTypeInv, OsalTypeOK
  <1>2. ASSUME NEW w \in Waiter, Wait(w) \/ WaiterStep(w) \/ SpuriousWake(w) \/ SleepTimesOut(w)
        PROVE  OsalTypeInv'
    BY <1>2, TypeStep, TypeWaiter DEF WaiterStep, Thread
  <1>3. ASSUME NEW s \in Setter, Set(s) \/ SetterStep(s) PROVE OsalTypeInv'
    BY <1>3, TypeStep, TypeSetter DEF SetterStep, Thread
  <1> QED
    BY <1>1, <1>2, <1>3 DEF OsalNext

\* Every variable keeps its type: the mutex and the user's lock are a thread's or
\* free although they are unlocked by whoever comes by.
THEOREM OsalTypeCorrect == OsalSpec => []OsalTypeOK
PROOF
  <1>1. OsalTypeInv => OsalTypeOK
    BY DEF OsalTypeInv
  <1> QED
    BY OsalTypeInit, OsalTypeNext, <1>1, PTL DEF OsalSpec

-----------------------------------------------------------------------------
(* OsalSignal: no lost wake-up.  The second unlock of the success path opens a mutex that
   another thread may hold, so the mutex alone excludes nobody.  What does is
   that the setters come one at a time and only the waiter clears the flag,
   under the same lock: whoever unlocks a mutex that is not its own has left
   the flag set, or is the waiter on its way to clear it. *)

\* The part of a thread's way in which it holds its user's lock.
InUserLock(t) ==
  \/ t \in Setter /\ pc[t] # "idle"
  \/ t \in Waiter /\ pc[t] \in {"clear lock", "clear", "clear unlock"}
UserLockHeld == \A t \in Thread : InUserLock(t) <=> user_lock = t

\* A setter past the flag; one that has the mutex or had it.
HasSet(s) == pc[s] \in {"broadcast", "unlock", "unlock again"}
FlagStays == \A s \in Setter : HasSet(s) => signalled

\* A waiter about to sleep has the mutex, and no setter is between its lock and
\* the end of its set.
Alone(w) == osal_mutex = w /\ \A s \in Setter : pc[s] \in {"idle", "lock"}
SleepsAlone == \A w \in Waiter :
  /\ pc[w] = "sleep" => Alone(w) /\ ~signalled
  /\ pc[w] = "check" => Alone(w) \/ signalled

\* A waiter that got the mutex back has it until its first unlock, ...
KeepsMutex == \A w \in Waiter :
  /\ pc[w] = "unlock" => rc[w] = "OK"
  /\ pc[w] = "unlock" \/ (pc[w] = "unlock again" /\ rc[w] = "FAILED") =>
       osal_mutex = w \/ signalled

\* ... and a setter about to set the flag has lost it only to one that goes on to
\* clear the flag, which the user's lock delays.
SetterKeepsMutex == \A s \in Setter : pc[s] = "set" =>
  \/ osal_mutex = s \/ signalled
  \/ \A w \in Waiter : pc[w] = "to clear"

WakeInv ==
  /\ UserLockHeld /\ FlagStays /\ SleepsAlone /\ KeepsMutex /\ SetterKeepsMutex
  /\ NoSleeperOverlooked

LEMMA WakeInit == OsalInit => WakeInv
  BY ThreadsAreDistinct
     DEF OsalInit, WakeInv, UserLockHeld, InUserLock, FlagStays, HasSet, SleepsAlone,
         KeepsMutex, SetterKeepsMutex, NoSleeperOverlooked, Thread

\* The waiter's steps up to its sleep.
LEMMA WakeWaits ==
  ASSUME OsalTypeInv, WakeInv, NEW w, Waiter = {w}, Wait(w) \/ Check(w) \/ Sleep(w)
  PROVE  WakeInv'
PROOF
  <1> USE ThreadsAreDistinct
      DEF OsalTypeInv, OsalTypeOK, Thread, Goto, Lock, Unlock, WakeInv, UserLockHeld,
          InUserLock, FlagStays, HasSet, SleepsAlone, Alone, KeepsMutex,
          SetterKeepsMutex, NoSleeperOverlooked, WaiterPc, SetterPc
  <1>1. CASE Wait(w)
    BY <1>1 DEF Wait
  <1>2. CASE Check(w)
    BY <1>2 DEF Check
  <1>3. CASE Sleep(w)
    BY <1>3 DEF Sleep
  <1> QED
    BY <1>1, <1>2, <1>3

\* ... and those after it: it takes the mutex back and, later, clears the flag.
LEMMA WakeReturns ==
  ASSUME OsalTypeInv, WakeInv, Guarded = TRUE, NEW w, Waiter = {w},
         SpuriousWake(w) \/ SleepTimesOut(w) \/ Reacquire(w) \/ Clear(w)
  PROVE  WakeInv'
PROOF
  <1> USE ThreadsAreDistinct
      DEF OsalTypeInv, OsalTypeOK, Thread, Goto, Lock, Unlock, WakeInv, UserLockHeld,
          InUserLock, FlagStays, HasSet, SleepsAlone, Alone, KeepsMutex,
          SetterKeepsMutex, NoSleeperOverlooked, WaiterPc, SetterPc
  <1>1. CASE SpuriousWake(w)
    BY <1>1 DEF SpuriousWake
  <1>2. CASE SleepTimesOut(w)
    BY <1>2 DEF SleepTimesOut, TimedOut
  <1>3. CASE Reacquire(w)
    BY <1>3 DEF Reacquire
  <1>4. CASE Clear(w)
    <2>1. \A s \in Setter : pc'[s] = pc[s]
      BY <1>4 DEF Clear
    <2>2. pc[w] # "to clear" => user_lock = w /\ \A s \in Setter : pc[s] = "idle"
      BY <1>4 DEF Clear
    <2>3. CASE pc[w] = "to clear"
      <3>1. /\ pc'[w] = "clear lock" /\ user_lock = Free /\ user_lock' = w
            /\ UNCHANGED <<signalled, osal_mutex>>
        BY <1>4, <2>3 DEF Clear, UserLock
      <3>2. \A s \in Setter : pc[s] = "idle"
        BY <3>1
      <3> QED
        BY <2>1, <3>1, <3>2
    <2>4. CASE pc[w] = "clear lock"
      BY <1>4, <2>2, <2>4 DEF Clear
    <2>5. CASE pc[w] = "clear"
      BY <1>4, <2>2, <2>5 DEF Clear
    <2>6. CASE pc[w] = "clear unlock"
      <3>1. /\ pc'[w] = "idle" /\ user_lock' = Free
            /\ UNCHANGED <<signalled, rc>>
        BY <1>4, <2>2, <2>6 DEF Clear, UserUnlock
      <3>2. \A s \in Setter : pc'[s] = "idle"
        BY <2>1, <2>2, <2>6
      <3>3. \A t \in Thread : ~ InUserLock(t)' /\ t # Free
        BY <3>1, <3>2
      <3> QED
        BY <3>1, <3>2, <3>3
    <2> QED
      BY <1>4, <2>3, <2>4, <2>5, <2>6 DEF Clear
  <1> QED
    BY <1>1, <1>2, <1>3, <1>4

\* The two unlocks of the success path, by either kind of thread.
LEMMA WakeUnlocks ==
  ASSUME OsalTypeInv, WakeInv, NEW w, Waiter = {w}, NEW t \in Thread, Step(t)
  PROVE  WakeInv'
PROOF
  <1> USE ThreadsAreDistinct
      DEF OsalTypeInv, OsalTypeOK, Thread, Goto, Lock, Unlock, WakeInv, UserLockHeld,
          InUserLock, FlagStays, HasSet, SleepsAlone, Alone, KeepsMutex,
          SetterKeepsMutex, NoSleeperOverlooked, WaiterPc, SetterPc
  <1>1. CASE FirstUnlock(t)
    BY <1>1 DEF FirstUnlock
  <1>2. CASE LastUnlock(t)
    <2>1. CASE t = w
      BY <1>2, <2>1 DEF LastUnlock, UserUnlock
    <2>2. CASE t \in Setter
      BY <1>2, <2>2 DEF LastUnlock, UserUnlock
    <2> QED
      BY <2>1, <2>2
  <1> QED
    BY <1>1, <1>2 DEF Step

LEMMA WakeSets ==
  ASSUME OsalTypeInv, WakeInv, Guarded = TRUE, NEW w, Waiter = {w},
         NEW s \in Setter, Set(s) \/ SetLock(s) \/ SetFlag(s) \/ Broadcast(s)
  PROVE  WakeInv'
PROOF
  <1> USE ThreadsAreDistinct
      DEF OsalTypeInv, OsalTypeOK, Thread, Goto, Lock, Unlock, WakeInv, UserLockHeld,
          InUserLock, FlagStays, HasSet, SleepsAlone, Alone, KeepsMutex,
          SetterKeepsMutex, NoSleeperOverlooked, WaiterPc, SetterPc
  <1>1. CASE Set(s)
    <2>1. /\ pc'[s] = "lock" /\ user_lock = Free /\ user_lock' = s
          /\ \A t \in Thread : t # s => pc'[t] = pc[t]
          /\ UNCHANGED <<signalled, osal_mutex, rc>>
      BY <1>1 DEF Set, UserLock
    <2>2. \A r \in Setter : pc[r] = "idle"
      BY <2>1
    <2>3. ~InUserLock(w)
      BY <2>1
    <2>4. UserLockHeld'
      BY <2>1, <2>2, <2>3
    <2> QED
      BY <2>1, <2>2, <2>4
  <1>2. CASE SetLock(s)
    BY <1>2 DEF SetLock
  <1>3. CASE SetFlag(s)
    BY <1>3 DEF SetFlag
  <1>4. CASE Broadcast(s)
    <2>1. /\ \A r \in Setter : pc'[r] = IF r = s THEN "unlock" ELSE pc[r]
          /\ pc'[w] = IF pc[w] = "asleep" THEN "awake" ELSE pc[w]
      BY <1>4 DEF Broadcast
    <2>2. user_lock = s /\ signalled /\ UNCHANGED <<signalled, osal_mutex, user_lock, rc>>
      BY <1>4 DEF Broadcast
    <2>3. \A t \in Thread : InUserLock(t)' <=> InUserLock(t)
      BY <1>4, <2>1 DEF Broadcast
    <2>4. UserLockHeld'
      BY <2>2, <2>3, Zenon DEF UserLockHeld
    <2>5. FlagStays' /\ SetterKeepsMutex'
      BY <2>1, <2>2
    <2>6. KeepsMutex' /\ NoSleeperOverlooked'
      BY <2>1, <2>2
    <2>7. pc'[w] # "sleep"
      BY <2>1, <2>2
    <2>8. SleepsAlone'
      BY <2>1, <2>2, <2>7
    <2> QED
      BY <2>4, <2>5, <2>6, <2>8
  <1> QED
    BY <1>1, <1>2, <1>3, <1>4

\* While one thread waits on a signal and those who set it hold its user's lock,
\* no wake-up is lost: the waiter never sleeps on a set flag unless the broadcast
\* that wakes it is still to come, although ar_osal_signal_timedwait unlocks a
\* mutex twice that somebody else may hold.  Each struct gsl_signal has one
\* sender at a time; a second waiter could open the mutex under the first and let
\* it sleep on.
THEOREM NoWakeupLost ==
  ASSUME Guarded = TRUE, NEW w, Waiter = {w}
  PROVE  OsalSpec => []NoSleeperOverlooked
PROOF
  <1>1. OsalTypeInv /\ WakeInv /\ [OsalNext]_osal_vars => WakeInv'
    <2> SUFFICES ASSUME OsalTypeInv, WakeInv, [OsalNext]_osal_vars PROVE WakeInv'
      OBVIOUS
    <2>1. CASE UNCHANGED osal_vars
      BY <2>1
         DEF osal_vars, WakeInv, UserLockHeld, InUserLock, FlagStays, HasSet, SleepsAlone,
             Alone, KeepsMutex, SetterKeepsMutex, NoSleeperOverlooked
    <2>2. CASE Wait(w) \/ WaiterStep(w) \/ SpuriousWake(w) \/ SleepTimesOut(w)
      BY <2>2, WakeWaits, WakeReturns, WakeUnlocks DEF WaiterStep, Thread
    <2>3. ASSUME NEW s \in Setter, Set(s) \/ SetterStep(s) PROVE WakeInv'
      BY <2>3, WakeSets, WakeUnlocks DEF SetterStep, Thread
    <2> QED
      BY <2>1, <2>2, <2>3 DEF OsalNext
  <1>2. WakeInv => NoSleeperOverlooked
    BY DEF WakeInv
  <1> QED
    BY OsalTypeInit, OsalTypeNext, WakeInit, <1>1, <1>2, PTL DEF OsalSpec
=============================================================================
