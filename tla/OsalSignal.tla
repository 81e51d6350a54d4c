----------------------------- MODULE OsalSignal -----------------------------
(***************************************************************************)
(* The OSAL signal that every wait of GSL rests on                         *)
(* (ar_osal/src/linux/ar_osal_signal.c): a flag, a pthread mutex and a     *)
(* condition variable.  A signal stays set until it is cleared; waiting    *)
(* does not clear it.  On success the wait and the set unlock the mutex    *)
(* once and then fall through to the error path, which unlocks it again.   *)
(* The mutex is a normal one, which pthread_mutex_unlock opens whoever     *)
(* holds it.                                                               *)
(*                                                                         *)
(* Most users set and clear a signal under a lock of their own, the lock   *)
(* of struct gsl_signal; GSL also has signals without one.                 *)
(*                                                                         *)
(* OsalInit, OsalNext and so on are named for the layer, so that a module  *)
(* can extend GslSignal as well.                                           *)
(***************************************************************************)
EXTENDS Naturals

CONSTANTS
  Waiter,    \* threads that wait on the signal
  Setter,    \* threads that set it
  MaxSets,   \* bound: how often each of them sets it
  Guarded,   \* is the signal set and cleared under its user's lock?
  Free       \* nobody: the holder of a free mutex

Thread == Waiter \cup Setter

ASSUME ThreadsAreDistinct == Waiter \cap Setter = {} /\ Free \notin Thread
ASSUME ParametersType == MaxSets \in Nat /\ Guarded \in BOOLEAN

VARIABLES
  signalled,   \* the flag
  osal_mutex,  \* the thread that holds the mutex
  user_lock,   \* the thread that holds the lock of the signal's user
  pc,          \* [Thread -> where it is]
  rc,          \* [Waiter -> result of its last wait]
  sets         \* [Setter -> how often it has set the signal]

osal_vars == <<signalled, osal_mutex, user_lock, pc, rc, sets>>

OsalInit ==
  /\ signalled = FALSE /\ osal_mutex = Free /\ user_lock = Free
  /\ pc = [t \in Thread |-> "idle"]
  /\ rc = [w \in Waiter |-> "OK"]
  /\ sets = [s \in Setter |-> 0]

Goto(t, label) == pc' = [pc EXCEPT ![t] = label]

\* pthread_mutex_lock and pthread_mutex_unlock.
Lock(t) == osal_mutex = Free /\ osal_mutex' = t
Unlock == osal_mutex' = Free

\* GSL_MUTEX_LOCK and GSL_MUTEX_UNLOCK of sig_p->lock, where there is one.
UserLock(t) == IF Guarded THEN user_lock = Free /\ user_lock' = t ELSE UNCHANGED user_lock

\* Mutant of UserUnlock: the lock is not given back.
UserUnlockForgotten(t) == UNCHANGED user_lock
UserUnlock(t) == user_lock' = IF user_lock = t THEN Free ELSE user_lock

\* The two unlocks of the success path, or the one of the other paths.
FirstUnlock(t) ==
  /\ pc[t] = "unlock" /\ Unlock /\ Goto(t, "unlock again")
  /\ UNCHANGED <<signalled, user_lock, rc, sets>>

LastUnlock(t) ==
  /\ pc[t] = "unlock again" /\ Unlock /\ UserUnlock(t)
  /\ Goto(t, IF t \in Waiter /\ rc[t] = "OK" THEN "to clear" ELSE "idle")
  /\ UNCHANGED <<signalled, rc, sets>>

-----------------------------------------------------------------------------
(* ar_osal_signal_timedwait, then ar_osal_signal_clear as in
   gsl_signal_timedwait. *)

Wait(w) ==
  /\ pc[w] = "idle" /\ Lock(w) /\ Goto(w, "check")
  /\ rc' = [rc EXCEPT ![w] = "OK"]
  /\ UNCHANGED <<signalled, user_lock, sets>>

\* Mutant of Check: it sleeps without looking at the flag.
CheckNothing(w) ==
  /\ pc[w] = "check" /\ Goto(w, "sleep")
  /\ UNCHANGED <<signalled, osal_mutex, user_lock, rc, sets>>

\* A set signal is returned at once, with one unlock.
Check(w) ==
  /\ pc[w] = "check" /\ Goto(w, IF signalled THEN "unlock again" ELSE "sleep")
  /\ UNCHANGED <<signalled, osal_mutex, user_lock, rc, sets>>

\* pthread_cond_timedwait gives the mutex up and sleeps.
Sleep(w) ==
  /\ pc[w] = "sleep" /\ Unlock /\ Goto(w, "asleep")
  /\ UNCHANGED <<signalled, user_lock, rc, sets>>

\* A condition variable may wake without having been signalled.
SpuriousWake(w) ==
  /\ pc[w] = "asleep" /\ Goto(w, "awake")
  /\ UNCHANGED <<signalled, osal_mutex, user_lock, rc, sets>>

TimedOut == "FAILED"

SleepTimesOut(w) ==
  /\ pc[w] = "asleep" /\ Goto(w, "awake")
  /\ rc' = [rc EXCEPT ![w] = TimedOut]
  /\ UNCHANGED <<signalled, osal_mutex, user_lock, sets>>

\* The flag is not looked at again.
Reacquire(w) ==
  /\ pc[w] = "awake" /\ Lock(w)
  /\ Goto(w, IF rc[w] = "OK" THEN "unlock" ELSE "unlock again")
  /\ UNCHANGED <<signalled, user_lock, rc, sets>>

Clear(w) ==
  /\ \/ /\ pc[w] = "to clear" /\ UserLock(w) /\ Goto(w, "clear lock")
        /\ UNCHANGED <<signalled, osal_mutex>>
     \/ /\ pc[w] = "clear lock" /\ Lock(w) /\ Goto(w, "clear")
        /\ UNCHANGED <<signalled, user_lock>>
     \/ /\ pc[w] = "clear" /\ signalled' = FALSE /\ Goto(w, "clear unlock")
        /\ UNCHANGED <<osal_mutex, user_lock>>
     \/ /\ pc[w] = "clear unlock" /\ Unlock /\ UserUnlock(w) /\ Goto(w, "idle")
        /\ UNCHANGED signalled
  /\ UNCHANGED <<rc, sets>>

-----------------------------------------------------------------------------
(* ar_osal_signal_set. *)

Set(s) ==
  /\ pc[s] = "idle" /\ sets[s] < MaxSets /\ UserLock(s)
  /\ sets' = [sets EXCEPT ![s] = @ + 1]
  /\ Goto(s, "lock")
  /\ UNCHANGED <<signalled, osal_mutex, rc>>

SetLock(s) ==
  /\ pc[s] = "lock" /\ Lock(s) /\ Goto(s, "set")
  /\ UNCHANGED <<signalled, user_lock, rc, sets>>

SetFlag(s) ==
  /\ pc[s] = "set" /\ signalled' = TRUE /\ Goto(s, "broadcast")
  /\ UNCHANGED <<osal_mutex, user_lock, rc, sets>>

\* pthread_cond_broadcast.
Broadcast(s) ==
  /\ pc[s] = "broadcast"
  /\ pc' = [t \in Thread |-> CASE t = s            -> "unlock"
                               [] pc[t] = "asleep" -> "awake"
                               [] OTHER            -> pc[t]]
  /\ UNCHANGED <<signalled, osal_mutex, user_lock, rc, sets>>

-----------------------------------------------------------------------------
Step(t) == FirstUnlock(t) \/ LastUnlock(t)
WaiterStep(w) == Step(w) \/ Check(w) \/ Sleep(w) \/ Reacquire(w) \/ Clear(w)
SetterStep(s) == Step(s) \/ SetLock(s) \/ SetFlag(s) \/ Broadcast(s)

OsalNext ==
  \/ \E w \in Waiter : Wait(w) \/ WaiterStep(w) \/ SpuriousWake(w) \/ SleepTimesOut(w)
  \/ \E s \in Setter : Set(s) \/ SetterStep(s)

OsalSpec == OsalInit /\ [][OsalNext]_osal_vars

\* Threads run on, and the mutex is handed to each that waits for it.  Neither a
\* timeout nor a spurious wake-up is counted on.
OsalFairSpec ==
  /\ OsalSpec
  /\ \A w \in Waiter : SF_osal_vars(WaiterStep(w))
  /\ \A s \in Setter : SF_osal_vars(SetterStep(s))

-----------------------------------------------------------------------------
WaiterPc == {"idle", "check", "sleep", "asleep", "awake", "unlock", "unlock again",
             "to clear", "clear lock", "clear", "clear unlock"}
SetterPc == {"idle", "lock", "set", "broadcast", "unlock", "unlock again"}

\* The type of every variable; a wait returns one of the two OSAL codes its
\* callers test for.
OsalTypeOK ==
  /\ signalled \in BOOLEAN /\ {osal_mutex, user_lock} \subseteq Thread \cup {Free}
  /\ \A w \in Waiter : pc[w] \in WaiterPc /\ rc[w] \in {"OK", "FAILED"}
  /\ \A s \in Setter : pc[s] \in SetterPc /\ sets[s] \in 0 .. MaxSets

\* "Any number of waiting threads ... will be released while the signal object's
\* state is signaled" (ar_osal_signal.h): nobody sleeps on a signal that is set,
\* but for a set whose broadcast is still to come.
NoSleeperOverlooked ==
  signalled => \A w \in Waiter :
    pc[w] = "asleep" => \E s \in Setter : pc[s] = "broadcast"

\* A thread that waits on a set signal returns from its wait and clears it.
SleepersAreReleased == \A w \in Waiter :
  signalled /\ pc[w] \in {"check", "sleep", "asleep", "awake"} ~> pc[w] = "idle"
=============================================================================
