----------------------------- MODULE FutexMutex -----------------------------
(***************************************************************************)
(* The mutex in one 32-bit word that guards shared memory                  *)
(* (lib/sync/futex.h, FutexMutex): 0 unlocked, 1 locked, 2 locked and      *)
(* somebody may sleep.  Each atomic operation on the word is one action;   *)
(* FutexWait and FutexWakeOne are system calls of their own, so a thread   *)
(* can be overtaken before each of them.                                   *)
(***************************************************************************)
EXTENDS Integers

CONSTANT Lockers      \* the threads, of any process, that use the mutex

VARIABLES word, at

mutexVars == <<word, at>>

\* swap: about to exchange(2).  sleep: about to call FutexWait(word, 2).
\* wake: the mutex is released, FutexWakeOne is still to be called.
Places == {"out", "swap", "sleep", "asleep", "held", "wake"}

TypeOK == word \in 0 .. 2 /\ at \in [Lockers -> Places]

Init == word = 0 /\ at = [t \in Lockers |-> "out"]

Goto(t, l) == at' = [at EXCEPT ![t] = l]

\* try_lock, and the first attempt of lock.
TryLock(t) ==
  /\ at[t] = "out" /\ word = 0
  /\ word' = 1
  /\ Goto(t, "held")

\* The failed first attempt of lock goes to sleep at once on a 2.
LockContended(t) ==
  /\ at[t] = "out" /\ word # 0
  /\ Goto(t, IF word = 2 THEN "sleep" ELSE "swap")
  /\ UNCHANGED word

\* Mutant of Exchange: a woken thread takes the mutex as if nobody else slept.
ExchangeOne(t) ==
  /\ at[t] = "swap"
  /\ word' = IF word = 0 THEN 1 ELSE 2
  /\ Goto(t, IF word = 0 THEN "held" ELSE "sleep")

\* exchange(2): a thread that ever waited takes the mutex with waiters.
Exchange(t) ==
  /\ at[t] = "swap"
  /\ word' = 2
  /\ Goto(t, IF word = 0 THEN "held" ELSE "sleep")

\* The kernel compares the word with 2 and sleeps in one step.
FutexWait(t) ==
  /\ at[t] = "sleep"
  /\ Goto(t, IF word = 2 THEN "asleep" ELSE "swap")
  /\ UNCHANGED word

\* FutexWait may also return because of a signal.
Interrupted(t) ==
  /\ at[t] = "asleep"
  /\ Goto(t, "swap")
  /\ UNCHANGED word

\* exchange(0) tells whether somebody may sleep.
Unlock(t) ==
  /\ at[t] = "held"
  /\ word' = 0
  /\ Goto(t, IF word = 2 THEN "wake" ELSE "out")

\* FutexWakeOne wakes one sleeper, if there is one.
FutexWakeOne(t) ==
  /\ at[t] = "wake"
  /\ \/ \E u \in Lockers : at[u] = "asleep" /\ at' = [at EXCEPT ![t] = "out", ![u] = "swap"]
     \/ (\A u \in Lockers : at[u] # "asleep") /\ Goto(t, "out")
  /\ UNCHANGED word

Next == \E t \in Lockers :
  \/ TryLock(t) \/ LockContended(t) \/ Exchange(t) \/ FutexWait(t) \/ Interrupted(t)
  \/ Unlock(t) \/ FutexWakeOne(t)

Spec == Init /\ [][Next]_mutexVars

-----------------------------------------------------------------------------
\* At most one thread holds the mutex, and the word says whether one does.
OneHolder ==
  /\ \A t, u \in Lockers : at[t] = "held" /\ at[u] = "held" => t = u
  /\ word = 0 <=> \A t \in Lockers : at[t] # "held"

\* A sleeping thread is never abandoned: the holder will see the 2 and wake
\* someone, or a wake is on its way, or a thread that was woken, or has not
\* slept yet, is about to set the word to 2 again.
NoSleeperForgotten ==
  \A t \in Lockers : at[t] = "asleep" =>
    word = 2 \/ \E u \in Lockers : at[u] \in {"wake", "swap"}

=============================================================================
