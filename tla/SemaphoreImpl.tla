---------------------------- MODULE SemaphoreImpl ----------------------------
(***************************************************************************)
(* The Semaphore of src/SimIO/src/Sync.C statement by statement, over the  *)
(* Mutex and Condition wrappers: the mutex has an owner, pthread_cond_wait *)
(* releases it and sleeps, and a thread back from it must take the mutex   *)
(* again.  --m_count and ++m_count are a load (into tmp) and a later store. *)
(*                                                                         *)
(* pthread_mutex_init and pthread_cond_init may fail.  Locking a mutex    *)
(* whose init failed is undefined; the model takes the outcome the code's *)
(* EINVAL case names: Lock() returns at once and excludes nobody.  A wait *)
(* on a condition whose init failed returns an error.  The Semaphore      *)
(* reports the failure through m_isOk (line 156).                         *)
(*                                                                         *)
(* Semaphore.tla, with one action per critical section, is the abstract   *)
(* specification this module implements while IsOk().                     *)
(***************************************************************************)
EXTENDS Integers, FiniteSets

CONSTANTS Thread, InitialCounts, MaxCounts, Garbage, CountBound,
          MutexInits,  \* outcomes of pthread_mutex_init: TRUE for success
          CondInits,   \* outcomes of pthread_cond_init
          NoThread     \* the owner of an unlocked mutex

VARIABLES m_count, m_maxcount,
          isOk,      \* Semaphore::m_isOk
          mutexOk,   \* Mutex::m_isOk
          condOk,    \* Condition::m_isOk
          owner,     \* the thread holding m_mutex, or NoThread
          pc,        \* pc[t]: where thread t is in Wait, TryWait or Post
          tmp        \* tmp[t]: m_count as thread t loaded it

vars == <<m_count, m_maxcount, isOk, mutexOk, condOk, owner, pc, tmp>>

Sleeping == {t \in Thread : pc[t] = "sleeping"}

\* Semaphore::Semaphore: the members m_mutex and m_cond constructed first.
MutexCtor == mutexOk \in MutexInits
CondCtor == condOk \in CondInits

\* A plausible slip: m_isOk taken from the condition alone.
SemaphoreCtorOkCondOnly == condOk

\* m_isOk = m_mutex.IsOk() && m_cond.IsOk().
SemaphoreCtorOk == mutexOk /\ condOk

Init ==
  /\ MutexCtor /\ CondCtor
  /\ \E ic \in InitialCounts, mc \in MaxCounts :
       IF (ic < 0 \/ mc < 0) \/ (mc > 0 /\ ic > mc)
       THEN m_count \in Garbage /\ m_maxcount \in Garbage
       ELSE m_count = ic /\ m_maxcount = mc
  /\ isOk = SemaphoreCtorOk
  /\ owner = NoThread
  /\ pc = [t \in Thread |-> "idle"]
  /\ tmp = [t \in Thread |-> 0]

\* Mutex::Lock() by t: blocks until the mutex is free, unless its init failed.
Lock(t) ==
  /\ mutexOk => owner = NoThread
  /\ owner' = IF mutexOk THEN t ELSE owner

\* Mutex::Unlock().
Unlock == owner' = IF mutexOk THEN NoThread ELSE owner

\* Condition::Signal(): pthread_cond_signal unblocks at least one sleeper,
\* if there is one: the sets of sleepers one call may wake.
Signal == IF Sleeping = {} THEN {{}} ELSE (SUBSET Sleeping) \ {{}}

Goto(t, l) == pc' = [pc EXCEPT ![t] = l]
Load(t) == tmp' = [tmp EXCEPT ![t] = m_count]

\* The three calls begin with m_mutex.Lock().
WaitLock(t) ==
  /\ pc[t] = "idle" /\ Lock(t) /\ Goto(t, "w_test")
  /\ UNCHANGED <<m_count, m_maxcount, isOk, mutexOk, condOk, tmp>>

TryWaitLock(t) ==
  /\ pc[t] = "idle" /\ Lock(t) /\ Goto(t, "t_test")
  /\ UNCHANGED <<m_count, m_maxcount, isOk, mutexOk, condOk, tmp>>

\* The program posts only while m_count is below INT_MAX (CountBound).  The
\* bound is on the call and, for the unlocked load a failed mutex allows,
\* on the load too; a thread that holds a working mutex always finishes.
PostLock(t) ==
  /\ pc[t] = "idle" /\ m_count < CountBound /\ Lock(t) /\ Goto(t, "p_test")
  /\ UNCHANGED <<m_count, m_maxcount, isOk, mutexOk, condOk, tmp>>

\* A plausible slip: "if" for "while", a thread back from pthread_cond_wait
\* takes the token it was signalled for without testing m_count again.
WaitTestNoRetest(t) ==
  /\ pc[t] \in {"w_test", "w_retest"}
  /\ \/ /\ m_count # 0 \/ pc[t] = "w_retest"
        /\ Load(t)
        /\ Goto(t, IF pc[t] = "w_test" THEN "w_dec" ELSE "w_rdec")
        /\ UNCHANGED owner
     \/ /\ m_count = 0 /\ pc[t] = "w_test" /\ condOk /\ mutexOk
        /\ Goto(t, "sleeping") /\ owner' = NoThread
        /\ UNCHANGED tmp
     \/ /\ m_count = 0 /\ pc[t] = "w_test" /\ ~(condOk /\ mutexOk)
        /\ Goto(t, "idle") /\ Unlock
        /\ UNCHANGED tmp
  /\ UNCHANGED <<m_count, m_maxcount, isOk, mutexOk, condOk>>

\* Wait(): while (m_count == 0) { if (m_cond.Wait() != 0) { Unlock();
\* return false; } }.  The test and the load of --m_count read the same
\* location with nothing in between, and are one step.  m_cond.Wait()
\* releases the mutex and sleeps, or fails.
WaitTest(t) ==
  /\ pc[t] \in {"w_test", "w_retest"}
  /\ \/ /\ m_count # 0
        /\ Load(t)
        /\ Goto(t, IF pc[t] = "w_test" THEN "w_dec" ELSE "w_rdec")
        /\ UNCHANGED owner
     \/ /\ m_count = 0 /\ condOk /\ mutexOk
        /\ Goto(t, "sleeping") /\ owner' = NoThread
        /\ UNCHANGED tmp
     \/ /\ m_count = 0 /\ ~(condOk /\ mutexOk)
        /\ Goto(t, "idle") /\ Unlock
        /\ UNCHANGED tmp
  /\ UNCHANGED <<m_count, m_maxcount, isOk, mutexOk, condOk>>

\* Wait(): --m_count stored; Unlock(); return true.
WaitDec(t) ==
  /\ pc[t] \in {"w_dec", "w_rdec"}
  /\ m_count' = tmp[t] - 1
  /\ Unlock /\ Goto(t, "idle")
  /\ UNCHANGED <<m_maxcount, isOk, mutexOk, condOk, tmp>>

\* pthread_cond_wait returns without a signal.
SpuriousWakeup(t) ==
  /\ pc[t] = "sleeping" /\ Goto(t, "w_relock")
  /\ UNCHANGED <<m_count, m_maxcount, isOk, mutexOk, condOk, owner, tmp>>

\* pthread_cond_wait takes the mutex again before it returns.
WaitRelock(t) ==
  /\ pc[t] = "w_relock" /\ Lock(t) /\ Goto(t, "w_retest")
  /\ UNCHANGED <<m_count, m_maxcount, isOk, mutexOk, condOk, tmp>>

\* TryWait(): if (m_count == 0) { Unlock(); return false; } and the load.
TryWaitTest(t) ==
  /\ pc[t] = "t_test"
  /\ \/ /\ m_count = 0 /\ Unlock /\ Goto(t, "idle") /\ UNCHANGED tmp
     \/ /\ m_count # 0 /\ Load(t) /\ Goto(t, "t_dec") /\ UNCHANGED owner
  /\ UNCHANGED <<m_count, m_maxcount, isOk, mutexOk, condOk>>

\* TryWait(): --m_count stored; Unlock(); return true.
TryWaitDec(t) ==
  /\ pc[t] = "t_dec"
  /\ m_count' = tmp[t] - 1
  /\ Unlock /\ Goto(t, "idle")
  /\ UNCHANGED <<m_maxcount, isOk, mutexOk, condOk, tmp>>

\* Post(): if (m_maxcount > 0 && m_count == m_maxcount) { Unlock(); return
\* false; } and the load of ++m_count.
PostTest(t) ==
  /\ pc[t] = "p_test"
  /\ \/ /\ m_maxcount > 0 /\ m_count = m_maxcount
        /\ Unlock /\ Goto(t, "idle") /\ UNCHANGED tmp
     \/ /\ ~(m_maxcount > 0 /\ m_count = m_maxcount)
        /\ m_count < CountBound
        /\ Load(t) /\ Goto(t, "p_inc") /\ UNCHANGED owner
  /\ UNCHANGED <<m_count, m_maxcount, isOk, mutexOk, condOk>>

\* A plausible slip: Post() storing the count without m_cond.Signal().
PostIncNoSignal(t) ==
  /\ pc[t] = "p_inc"
  /\ m_count' = tmp[t] + 1
  /\ Unlock /\ Goto(t, "idle")
  /\ UNCHANGED <<m_maxcount, isOk, mutexOk, condOk, tmp>>

\* A plausible slip: signalling only when the count leaves zero, as if a
\* single thread could be sleeping.
PostIncSignalFromZero(t) ==
  /\ pc[t] = "p_inc"
  /\ m_count' = tmp[t] + 1
  /\ Unlock
  /\ \E S \in IF tmp[t] = 0 THEN Signal ELSE {{}} :
       pc' = [u \in Thread |-> IF u = t THEN "idle"
                               ELSE IF u \in S THEN "w_relock" ELSE pc[u]]
  /\ UNCHANGED <<m_maxcount, isOk, mutexOk, condOk, tmp>>

\* Post(): ++m_count stored;
\* m_cond.Signal(); Unlock(); return.
PostInc(t) ==
  /\ pc[t] = "p_inc"
  /\ m_count' = tmp[t] + 1
  /\ Unlock
  /\ \E S \in Signal :
       pc' = [u \in Thread |-> IF u = t THEN "idle"
                               ELSE IF u \in S THEN "w_relock" ELSE pc[u]]
  /\ UNCHANGED <<m_maxcount, isOk, mutexOk, condOk, tmp>>

Next ==
  \E t \in Thread :
    \/ WaitLock(t) \/ WaitTest(t) \/ WaitDec(t) \/ SpuriousWakeup(t) \/ WaitRelock(t)
    \/ TryWaitLock(t) \/ TryWaitTest(t) \/ TryWaitDec(t)
    \/ PostLock(t) \/ PostTest(t) \/ PostInc(t)

\* A thread holding the mutex is runnable and runs on to Unlock() or to
\* pthread_cond_wait: weak fairness.  A thread back from pthread_cond_wait
\* can take the mutex only while nobody holds it, so only intermittently:
\* strong fairness.  No thread is obliged to call Wait, TryWait or Post.
Fairness ==
  \A t \in Thread :
    /\ WF_vars(WaitTest(t)) /\ WF_vars(WaitDec(t)) /\ WF_vars(TryWaitTest(t))
    /\ WF_vars(TryWaitDec(t)) /\ WF_vars(PostTest(t)) /\ WF_vars(PostInc(t))
    /\ SF_vars(WaitRelock(t))

Spec == Init /\ [][Next]_vars /\ Fairness

-----------------------------------------------------------------------------
\* The semaphore as Semaphore.tla sees it: a thread back from
\* pthread_cond_wait, before its re-test has taken effect, is "woken".
AbsPc == [t \in Thread |->
            CASE pc[t] = "sleeping" -> "sleeping"
              [] pc[t] \in {"w_relock", "w_retest", "w_rdec"} -> "woken"
              [] OTHER -> "idle"]

Sem == INSTANCE Semaphore WITH count <- m_count, maxcount <- m_maxcount, pc <- AbsPc

\* While the object reports IsOk(), its Wait, TryWait and Post behave as
\* the critical sections of Semaphore.tla taken one at a time, with that
\* module's fairness: the mutex really excludes, and Post's signal reaches
\* a sleeper.
AbsVars == <<m_count, m_maxcount, AbsPc>>

\* Semaphore.tla's Spec, given m_isOk.  Its fairness WF(WaitRetest(t)) is
\* written out: WaitRetest(t) is enabled exactly when t is "woken".
ImplementsSemaphore ==
  /\ isOk => Sem!Init
  /\ [][isOk => [Sem!Next]_AbsVars]_vars
  /\ \A t \in Thread :
       isOk => ([]<>(AbsPc[t] # "woken") \/ []<><<Sem!WaitRetest(t)>>_AbsVars)

\* While the object reports IsOk(), no token is created or lost: m_count
\* changes by one for each Post() returning after its increment, less one
\* for each Wait() or TryWait() returning true, and by nothing else.  Two unsynchronised
\* --m_count or ++m_count would lose an update.
Returning(t, from) == pc[t] \in from /\ pc'[t] = "idle"
TokensConserved ==
  [][isOk => m_count' - m_count =
       Cardinality({t \in Thread : Returning(t, {"p_inc"})})
       - Cardinality({t \in Thread : Returning(t, {"w_dec", "w_rdec", "t_dec"})})]_vars

\* While the object reports IsOk(), m_count stays a number of available
\* tokens, between 0 and the maximum when there is one: a thread back from
\* pthread_cond_wait may find the token it was signalled for taken by a
\* Wait or TryWait that got the mutex first, and must test m_count again.
CountInRange == isOk => Sem!CountInRange

\* No lost wakeup, stated on the code's own steps: while the object reports
\* IsOk() and tokens are available, a thread inside Wait() -- testing,
\* asleep in pthread_cond_wait, or contending for the mutex after it --
\* eventually returns from Wait() or sees every token taken.  Post() must
\* signal on every increment: two Posts in a row may each find a sleeper.
WaitPcs == {"w_test", "sleeping", "w_relock", "w_retest", "w_dec", "w_rdec"}
WaiterProgress ==
  isOk => \A t \in Thread :
            (pc[t] \in WaitPcs /\ m_count > 0) ~> (pc[t] = "idle" \/ m_count = 0)
=============================================================================
