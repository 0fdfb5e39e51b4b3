------------------------------ MODULE Semaphore ------------------------------
(***************************************************************************)
(* The counting semaphore of src/SimIO/src/Sync.C, built on the Mutex and  *)
(* Condition wrappers of pthread_mutex_t and pthread_cond_t, shared by a   *)
(* set of threads that call Wait(), TryWait() and Post().                  *)
(*                                                                         *)
(* Every critical section of Sync.C runs from Lock() to Unlock() without   *)
(* blocking except in pthread_cond_wait, which releases the mutex and      *)
(* sleeps atomically.  Each such section is one action here, so the mutex  *)
(* is free between steps and is not a variable.  A sleeping thread leaves  *)
(* pthread_cond_wait when signalled or spuriously ("woken"), and then      *)
(* contends for the mutex before it re-tests m_count.                      *)
(***************************************************************************)
EXTENDS Integers, FiniteSets

CONSTANTS Thread,         \* the threads sharing the semaphore
          InitialCounts,  \* initialcount arguments the program may pass
          MaxCounts,      \* maxcount arguments the program may pass
          Garbage,        \* values an uninitialized int member may hold
          CountBound      \* stands for INT_MAX: m_count is never posted past it

ASSUME CountBound \in Nat \ {0}

VARIABLES count,     \* m_count
          maxcount,  \* m_maxcount
          pc         \* pc[t]: "idle", "sleeping" in pthread_cond_wait, or "woken"

vars == <<count, maxcount, pc>>

Sleeping == {t \in Thread : pc[t] = "sleeping"}

\* Semaphore(initialcount, maxcount): on invalid arguments only m_isOk is
\* set, to false, and then overwritten by m_mutex.IsOk() && m_cond.IsOk(),
\* so the object reports IsOk() with m_count and m_maxcount uninitialized.
InvalidArgs(ic, mc) == (ic < 0 \/ mc < 0) \/ (mc > 0 /\ ic > mc)

Init ==
  /\ \E ic \in InitialCounts, mc \in MaxCounts :
       IF InvalidArgs(ic, mc)
       THEN count \in Garbage /\ maxcount \in Garbage
       ELSE count = ic /\ maxcount = mc
  /\ pc = [t \in Thread |-> "idle"]

\* Condition::Signal(): pthread_cond_signal unblocks at least one thread
\* sleeping on the condition, if any.
Signal ==
  IF Sleeping = {}
  THEN UNCHANGED pc
  ELSE \E S \in SUBSET Sleeping :
         /\ S # {}
         /\ pc' = [t \in Thread |-> IF t \in S THEN "woken" ELSE pc[t]]

\* Wait(): Lock(); while (m_count == 0) m_cond.Wait(); --m_count; Unlock().
\* The first test of the loop, and either the decrement or the sleep.
Wait(t) ==
  /\ pc[t] = "idle"
  /\ IF count # 0
     THEN count' = count - 1 /\ UNCHANGED pc
     ELSE pc' = [pc EXCEPT ![t] = "sleeping"] /\ UNCHANGED count
  /\ UNCHANGED maxcount

\* A plausible slip: "if" for "while", the woken thread takes the token
\* it was signalled for without testing the count again.
WaitRetestOnce(t) ==
  /\ pc[t] = "woken"
  /\ count' = count - 1
  /\ pc' = [pc EXCEPT ![t] = "idle"]
  /\ UNCHANGED maxcount

\* Wait(): back from m_cond.Wait() holding the mutex again, the loop test
\* once more: decrement and return true, or sleep again.
WaitRetest(t) ==
  /\ pc[t] = "woken"
  /\ IF count # 0
     THEN count' = count - 1 /\ pc' = [pc EXCEPT ![t] = "idle"]
     ELSE pc' = [pc EXCEPT ![t] = "sleeping"] /\ UNCHANGED count
  /\ UNCHANGED maxcount

\* pthread_cond_wait may return without a signal.
SpuriousWakeup(t) ==
  /\ pc[t] = "sleeping"
  /\ pc' = [pc EXCEPT ![t] = "woken"]
  /\ UNCHANGED <<count, maxcount>>

\* TryWait(): Lock(); if (m_count == 0) return false; --m_count; Unlock().
TryWait(t) ==
  /\ pc[t] = "idle"
  /\ count' = IF count = 0 THEN count ELSE count - 1
  /\ UNCHANGED <<maxcount, pc>>

\* A plausible slip: signalling only when the count leaves zero, as if a
\* single sleeper could be waiting.
PostSignalFromZero(t) ==
  /\ pc[t] = "idle"
  /\ \/ /\ maxcount > 0 /\ count = maxcount
        /\ UNCHANGED <<count, pc>>
     \/ /\ ~(maxcount > 0 /\ count = maxcount)
        /\ count < CountBound
        /\ count' = count + 1
        /\ IF count = 0 THEN Signal ELSE UNCHANGED pc
  /\ UNCHANGED maxcount

\* Post(): Lock(); at the maximum return false; ++m_count; m_cond.Signal();
\* Unlock().  Without a maximum m_count is an int that must stay below
\* INT_MAX, here CountBound.
Post(t) ==
  /\ pc[t] = "idle"
  /\ \/ /\ maxcount > 0 /\ count = maxcount
        /\ UNCHANGED <<count, pc>>
     \/ /\ ~(maxcount > 0 /\ count = maxcount)
        /\ count < CountBound
        /\ count' = count + 1
        /\ Signal
  /\ UNCHANGED maxcount

Next ==
  \E t \in Thread :
    \/ Wait(t) \/ WaitRetest(t) \/ SpuriousWakeup(t) \/ TryWait(t) \/ Post(t)

\* A woken thread is runnable and every critical section releases the
\* mutex, so the scheduler eventually lets it re-test the count.  Threads
\* are never obliged to call Wait, TryWait or Post.
Spec == Init /\ [][Next]_vars /\ \A t \in Thread : WF_vars(WaitRetest(t))

-----------------------------------------------------------------------------
\* The count stays a number of available tokens, between 0 and the maximum
\* when there is one, whatever mix of Wait, TryWait, Post, signals and
\* spurious wakeups the threads go through: a woken waiter must re-test
\* m_count, because another thread may have taken the token it was
\* signalled for.  The object reports IsOk() in every state of the model.
CountInRange ==
  /\ count >= 0
  /\ maxcount > 0 => count <= maxcount

\* No lost wakeup: while tokens are available, a thread blocked in Wait()
\* is eventually back from Wait() or the tokens are all taken.
BlockedWaiterProgress ==
  \A t \in Thread :
    (pc[t] # "idle" /\ count > 0) ~> (pc[t] = "idle" \/ count = 0)
=============================================================================
