---------------------------- MODULE FibersProofs ----------------------------
(* What Fibers guarantees for any number of fibers and calls.               *)
EXTENDS Fibers, TLAPS

-----------------------------------------------------------------------------
(* The inductive invariant.                                                *)

\* No thread has been created: the main fiber may run without the V8 lock.
Alone == \A f \in Fibers \ {Main} : pc[f] \in {"none", "new"}

\* Whoever runs JavaScript holds the V8 lock, unless it is the main fiber alone.
LockInv ==
    ~ unlocked => \A t \in Fibers : pc[t] \in Inside => lock = t \/ (t = Main /\ Alone)

\* While there is no other thread, the main fiber only can hold the V8 lock.
AloneInv == Alone => lock \in {None, Main} /\ current = Main /\ ~ unlocked /\ ~ slept

\* join knows its caller.
CallerInv ==
    ~ unlocked /\ ~ slept =>
        \A t \in Fibers : pc[t] \in {"joining", "joinwait", "joined"} => caller[t] = t

\* A fiber that sleeps without spoiling Fiber.current is the only one.
SleeperInv ==
    ~ unlocked /\ ~ slept =>
        \A t \in Fibers : pc[t] = "sleeping" =>
            current = t /\ \A f \in Fibers \ {t} : pc[f] \in Idle

MainInv == pc[Main] \notin Idle \cup {"starting", "ending"}

FiberInv ==
    /\ TypeOK
    /\ MainInv
    /\ LockInv
    /\ AloneInv
    /\ CallerInv
    /\ SleeperInv
    /\ CurrentRuns

\* At most one fiber is inside JavaScript.
LEMMA OnlyOne == FiberInv => OneRuns
  <1> SUFFICES ASSUME FiberInv, ~ unlocked,
                      NEW t \in Fibers, NEW u \in Fibers, pc[t] \in Inside, pc[u] \in Inside
               PROVE  t = u
    BY DEF OneRuns
  <1>1. \A f \in Fibers : pc[f] \in Inside => lock = f \/ (f = Main /\ Alone)
    BY DEF FiberInv, LockInv
  <1>2. Alone => t = Main /\ u = Main
    BY DEF Alone, Inside
  <1> QED
    BY <1>1, <1>2

\* When nobody holds the V8 lock, a thread that waits for it finds nobody inside.
LEMMA NobodyInside ==
    ASSUME FiberInv, ~ unlocked, lock = None,
           NEW t \in Fibers, pc[t] \in Outside, NEW u \in Fibers
    PROVE  pc[u] \notin Inside
  <1> SUFFICES ASSUME pc[u] \in Inside PROVE FALSE
    OBVIOUS
  <1>1. u = Main /\ Alone
    BY FibersConstants DEF FiberInv, LockInv
  <1>2. t = Main
    BY <1>1 DEF Alone, Outside
  <1> QED
    BY <1>1, <1>2 DEF Inside, Outside

\* The program starts with the main fiber alone.
LEMMA InitHolds == Init => FiberInv
  <1> SUFFICES ASSUME Init PROVE FiberInv
    OBVIOUS
  <1> USE FibersConstants DEF Init, Places, Idle, Outside, Inside
  <1>a. unlocked \in BOOLEAN /\ slept \in BOOLEAN
    OBVIOUS
  <1>b. pc \in [Fibers -> Places] /\ \A t \in Fibers : pc[t] \in {"running", "none"}
    OBVIOUS
  <1>1. TypeOK
    BY <1>a, <1>b DEF TypeOK
  <1>2. Alone /\ pc[Main] = "running" /\ \A t \in Fibers \ {Main} : pc[t] = "none"
    BY DEF Alone
  <1> QED
    BY <1>1, <1>2 DEF FiberInv, MainInv, LockInv, AloneInv, CallerInv, SleeperInv, CurrentRuns

\* A new fiber has no thread.
LEMMA FiberKeeps ==
    ASSUME FiberInv, NEW t \in Fibers, Runs(t), calls' \in 0 .. MaxCalls, NEW f \in Fibers, Fiber(f)
    PROVE  FiberInv'
  <1> USE FibersConstants DEF FiberInv, Runs, Fiber, To, Places, Idle, Outside, Inside, Undefined, Deleted
  <1>1. TypeOK'
    BY DEF TypeOK, Released, Caller
  <1>2. MainInv'
    BY DEF TypeOK, MainInv
  <1>3. LockInv'
    BY OnlyOne DEF TypeOK, MainInv, LockInv, AloneInv, Alone, OneRuns, Released
  <1>4. AloneInv'
    BY DEF TypeOK, MainInv, LockInv, AloneInv, Alone, Released
  <1>5. CallerInv'
    BY DEF TypeOK, CallerInv, CurrentRuns, Caller
  <1>6. SleeperInv'
    BY DEF TypeOK, SleeperInv, CurrentRuns
  <1>7. CurrentRuns'
    BY OnlyOne DEF TypeOK, CurrentRuns, OneRuns
  <1> QED
    BY <1>1, <1>2, <1>3, <1>4, <1>5, <1>6, <1>7

\* The fiber that starts another holds the V8 lock, or `unlocked' is set.
LEMMA CreateThreadKeeps ==
    ASSUME FiberInv, NEW t \in Fibers, Runs(t), calls' \in 0 .. MaxCalls, NEW f \in Fibers, CreateThread(t, f)
    PROVE  FiberInv'
  <1> USE FibersConstants DEF FiberInv, Runs, CreateThread, To, Places, Idle, Outside, Inside, Undefined, Deleted
  <1>1. TypeOK'
    BY DEF TypeOK, Released, Caller
  <1>2. MainInv'
    BY DEF TypeOK, MainInv
  <1>3. LockInv'
    <2> SUFFICES ASSUME ~ unlocked', NEW u \in Fibers, pc'[u] \in Inside PROVE lock' = u
      BY DEF LockInv
    <2>1. ~ unlocked /\ lock = t
      OBVIOUS
    <2>2. pc[u] \in Inside
      BY DEF TypeOK
    <2> QED
      BY <2>1, <2>2, OnlyOne DEF OneRuns
  <1>4. AloneInv'
    BY DEF TypeOK, MainInv, LockInv, AloneInv, Alone, Released
  <1>5. CallerInv'
    BY DEF TypeOK, CallerInv, CurrentRuns, Caller
  <1>6. SleeperInv'
    BY DEF TypeOK, SleeperInv, CurrentRuns
  <1>7. CurrentRuns'
    BY OnlyOne DEF TypeOK, CurrentRuns, OneRuns
  <1> QED
    BY <1>1, <1>2, <1>3, <1>4, <1>5, <1>6, <1>7

\* becomeRunnable, up to the mutex, keeps the V8 lock.
LEMMA BecomeRunnableKeeps ==
    ASSUME FiberInv, NEW t \in Fibers, Runs(t), calls' \in 0 .. MaxCalls, NEW f \in Fibers, BecomeRunnable(t, f)
    PROVE  FiberInv'
  <1> USE FibersConstants DEF FiberInv, Runs, BecomeRunnable, To, Places, Idle, Outside, Inside, Undefined, Deleted
  <1>1. TypeOK'
    BY DEF TypeOK, Released, Caller
  <1>2. MainInv'
    BY DEF TypeOK, MainInv
  <1>3. LockInv'
    BY OnlyOne DEF TypeOK, MainInv, LockInv, AloneInv, Alone, OneRuns, Released
  <1>4. AloneInv'
    BY DEF TypeOK, MainInv, LockInv, AloneInv, Alone, Released
  <1>5. CallerInv'
    BY DEF TypeOK, CallerInv, CurrentRuns, Caller
  <1>6. SleeperInv'
    BY DEF TypeOK, SleeperInv, CurrentRuns
  <1>7. CurrentRuns'
    BY OnlyOne DEF TypeOK, CurrentRuns, OneRuns
  <1> QED
    BY <1>1, <1>2, <1>3, <1>4, <1>5, <1>6, <1>7

\* join remembers Fiber.current, which is its caller, and leaves nobody inside.
LEMMA JoinKeeps ==
    ASSUME FiberInv, NEW t \in Fibers, Runs(t), calls' \in 0 .. MaxCalls, NEW f \in Fibers, Join(t, f)
    PROVE  FiberInv'
  <1> USE FibersConstants DEF FiberInv, Runs, Join, To, Places, Idle, Outside, Inside, Undefined, Deleted
  <1>1. TypeOK'
    BY DEF TypeOK, Released, Caller
  <1>2. MainInv'
    BY DEF TypeOK, MainInv
  <1>3. LockInv'
    BY OnlyOne DEF TypeOK, MainInv, LockInv, AloneInv, Alone, OneRuns, Released
  <1>4. AloneInv'
    BY DEF TypeOK, MainInv, LockInv, AloneInv, Alone, Released
  <1>5. CallerInv'
    BY DEF TypeOK, CallerInv, CurrentRuns, Caller
  <1>6. SleeperInv'
    BY DEF TypeOK, SleeperInv, CurrentRuns
  <1>7. CurrentRuns'
    BY OnlyOne DEF TypeOK, CurrentRuns, OneRuns
  <1> QED
    BY <1>1, <1>2, <1>3, <1>4, <1>5, <1>6, <1>7

\* suspend leaves nobody inside.
LEMMA SuspendKeeps ==
    ASSUME FiberInv, NEW t \in Fibers, Runs(t), calls' \in 0 .. MaxCalls, Suspend(t)
    PROVE  FiberInv'
  <1> USE FibersConstants DEF FiberInv, Runs, Suspend, To, Places, Idle, Outside, Inside, Undefined, Deleted
  <1>1. TypeOK'
    BY DEF TypeOK, Released, Caller
  <1>2. MainInv'
    BY DEF TypeOK, MainInv
  <1>3. LockInv'
    BY OnlyOne DEF TypeOK, MainInv, LockInv, AloneInv, Alone, OneRuns, Released
  <1>4. AloneInv'
    BY DEF TypeOK, MainInv, LockInv, AloneInv, Alone, Released
  <1>5. CallerInv'
    BY DEF TypeOK, CallerInv, CurrentRuns, Caller
  <1>6. SleeperInv'
    BY DEF TypeOK, SleeperInv, CurrentRuns
  <1>7. CurrentRuns'
    BY OnlyOne DEF TypeOK, CurrentRuns, OneRuns
  <1> QED
    BY <1>1, <1>2, <1>3, <1>4, <1>5, <1>6, <1>7

\* A sleep spoils nothing while every other fiber is idle.
LEMMA SleepKeeps ==
    ASSUME FiberInv, NEW t \in Fibers, Runs(t), calls' \in 0 .. MaxCalls, Sleep(t)
    PROVE  FiberInv'
  <1> USE FibersConstants DEF FiberInv, Runs, Sleep, To, Places, Idle, Outside, Inside, Undefined, Deleted
  <1>1. TypeOK'
    BY DEF TypeOK, Released, Caller
  <1>2. MainInv'
    BY DEF TypeOK, MainInv
  <1>3. LockInv'
    BY OnlyOne DEF TypeOK, MainInv, LockInv, AloneInv, Alone, OneRuns, Released
  <1>4. AloneInv'
    BY DEF TypeOK, MainInv, LockInv, AloneInv, Alone, Released
  <1>5. CallerInv'
    BY DEF TypeOK, CallerInv, CurrentRuns, Caller
  <1>6. SleeperInv'
    <2> SUFFICES ASSUME ~ unlocked', ~ slept', NEW u \in Fibers, pc'[u] = "sleeping"
                 PROVE  current' = u /\ \A f \in Fibers \ {u} : pc'[f] \in Idle
      BY DEF SleeperInv
    <2>1. ~ unlocked /\ ~ slept /\ \A f \in Fibers \ {t} : pc[f] \in Idle
      OBVIOUS
    <2>2. u = t
      BY <2>1 DEF TypeOK
    <2> QED
      BY <2>1, <2>2 DEF TypeOK, CurrentRuns
  <1>7. CurrentRuns'
    BY OnlyOne DEF TypeOK, CurrentRuns, OneRuns
  <1> QED
    BY <1>1, <1>2, <1>3, <1>4, <1>5, <1>6, <1>7

\* A fiber that ends leaves nobody inside.
LEMMA ReturnKeeps ==
    ASSUME FiberInv, NEW t \in Fibers, Runs(t), calls' \in 0 .. MaxCalls, Return(t)
    PROVE  FiberInv'
  <1> USE FibersConstants DEF FiberInv, Runs, Return, To, Places, Idle, Outside, Inside, Undefined, Deleted
  <1>1. TypeOK'
    BY DEF TypeOK, Released, unregisterFiber
  <1>2. MainInv'
    BY DEF TypeOK, MainInv
  <1>3. LockInv'
    BY OnlyOne DEF TypeOK, MainInv, LockInv, AloneInv, Alone, OneRuns, Released
  <1>4. AloneInv'
    BY DEF TypeOK, MainInv, LockInv, AloneInv, Alone, Released
  <1>5. CallerInv'
    BY DEF TypeOK, CallerInv, CurrentRuns, Caller
  <1>6. SleeperInv'
    BY DEF TypeOK, SleeperInv, CurrentRuns
  <1>7. CurrentRuns'
    BY OnlyOne DEF TypeOK, CurrentRuns, OneRuns
  <1> QED
    BY <1>1, <1>2, <1>3, <1>4, <1>5, <1>6, <1>7

\* The end of the process changes no fiber.
LEMMA ExitKeeps ==
    ASSUME FiberInv, NEW t \in Fibers, Runs(t), calls' \in 0 .. MaxCalls, Exit(t)
    PROVE  FiberInv'
  <1> USE FibersConstants DEF FiberInv, Runs, Exit, To, Places, Idle, Outside, Inside, Undefined, Deleted
  <1>1. TypeOK'
    BY DEF TypeOK, Released, Caller
  <1>2. MainInv'
    BY DEF TypeOK, MainInv
  <1>3. LockInv'
    BY OnlyOne DEF TypeOK, MainInv, LockInv, AloneInv, Alone, OneRuns, Released
  <1>4. AloneInv'
    BY DEF TypeOK, MainInv, LockInv, AloneInv, Alone, Released
  <1>5. CallerInv'
    BY DEF TypeOK, CallerInv, CurrentRuns, Caller
  <1>6. SleeperInv'
    BY DEF TypeOK, SleeperInv, CurrentRuns
  <1>7. CurrentRuns'
    BY OnlyOne DEF TypeOK, CurrentRuns, OneRuns
  <1> QED
    BY <1>1, <1>2, <1>3, <1>4, <1>5, <1>6, <1>7

\* A thread begins when nobody is inside, and becomes Fiber.current.
LEMMA StartKeeps ==
    ASSUME FiberInv, NEW t \in Fibers, Start(t)
    PROVE  FiberInv'
  <1> USE FibersConstants DEF FiberInv, Start, Enter, To, Places, Idle, Outside, Inside, Undefined, Deleted
  <1>0. ~ unlocked => \A u \in Fibers : pc[u] \notin Inside
    BY NobodyInside DEF Lock
  <1>1. TypeOK'
    BY DEF TypeOK, Lock, SetCurrent
  <1>2. MainInv'
    BY DEF TypeOK, MainInv
  <1>3. LockInv'
    BY <1>0 DEF TypeOK, LockInv, Lock
  <1>4. AloneInv'
    BY DEF TypeOK, MainInv, LockInv, AloneInv, Alone, Lock, SetCurrent
  <1>5. CallerInv'
    BY DEF TypeOK, CallerInv, CurrentRuns
  <1>6. SleeperInv'
    BY DEF TypeOK, SleeperInv, CurrentRuns, SetCurrent
  <1>7. CurrentRuns'
    BY <1>0 DEF TypeOK, CurrentRuns, SetCurrent, CallerInv, SleeperInv
  <1> QED
    BY <1>1, <1>2, <1>3, <1>4, <1>5, <1>6, <1>7

\* A signal moves its target from one place outside to another.
LEMMA SignalKeeps ==
    ASSUME FiberInv, NEW t \in Fibers, Signal(t)
    PROVE  FiberInv'
  <1> USE FibersConstants DEF FiberInv, Signal, Enter, To, Places, Idle, Outside, Inside, Undefined, Deleted
  <1>1. TypeOK'
    BY DEF TypeOK, Lock, SetCurrent
  <1>2. MainInv'
    BY DEF TypeOK, MainInv
  <1>3. LockInv'
    BY OnlyOne DEF TypeOK, MainInv, LockInv, AloneInv, Alone, OneRuns, Lock
  <1>4. AloneInv'
    BY DEF TypeOK, MainInv, LockInv, AloneInv, Alone, Lock, SetCurrent
  <1>5. CallerInv'
    BY DEF TypeOK, CallerInv, CurrentRuns
  <1>6. SleeperInv'
    BY DEF TypeOK, SleeperInv, CurrentRuns, SetCurrent
  <1>7. CurrentRuns'
    BY OnlyOne DEF TypeOK, CurrentRuns, OneRuns, SetCurrent, CallerInv, SleeperInv, Lock, LockInv
  <1> QED
    BY <1>1, <1>2, <1>3, <1>4, <1>5, <1>6, <1>7

\* The wait for the condition is outside.
LEMMA WaitKeeps ==
    ASSUME FiberInv, NEW t \in Fibers, Wait(t)
    PROVE  FiberInv'
  <1> USE FibersConstants DEF FiberInv, Wait, Enter, To, Places, Idle, Outside, Inside, Undefined, Deleted
  <1>1. TypeOK'
    BY DEF TypeOK, Lock, SetCurrent
  <1>2. MainInv'
    BY DEF TypeOK, MainInv
  <1>3. LockInv'
    BY OnlyOne DEF TypeOK, MainInv, LockInv, AloneInv, Alone, OneRuns, Lock
  <1>4. AloneInv'
    BY DEF TypeOK, MainInv, LockInv, AloneInv, Alone, Lock, SetCurrent
  <1>5. CallerInv'
    BY DEF TypeOK, CallerInv, CurrentRuns
  <1>6. SleeperInv'
    BY DEF TypeOK, SleeperInv, CurrentRuns, SetCurrent
  <1>7. CurrentRuns'
    BY OnlyOne DEF TypeOK, CurrentRuns, OneRuns, SetCurrent, CallerInv, SleeperInv, Lock, LockInv
  <1> QED
    BY <1>1, <1>2, <1>3, <1>4, <1>5, <1>6, <1>7

\* So is a wake-up that nobody asked for.
LEMMA WakeSpuriouslyKeeps ==
    ASSUME FiberInv, NEW t \in Fibers, WakeSpuriously(t)
    PROVE  FiberInv'
  <1> USE FibersConstants DEF FiberInv, WakeSpuriously, Enter, To, Places, Idle, Outside, Inside, Undefined, Deleted
  <1>1. TypeOK'
    BY DEF TypeOK, Lock, SetCurrent
  <1>2. MainInv'
    BY DEF TypeOK, MainInv
  <1>3. LockInv'
    BY OnlyOne DEF TypeOK, MainInv, LockInv, AloneInv, Alone, OneRuns, Lock
  <1>4. AloneInv'
    BY DEF TypeOK, MainInv, LockInv, AloneInv, Alone, Lock, SetCurrent
  <1>5. CallerInv'
    BY DEF TypeOK, CallerInv, CurrentRuns
  <1>6. SleeperInv'
    BY DEF TypeOK, SleeperInv, CurrentRuns, SetCurrent
  <1>7. CurrentRuns'
    BY OnlyOne DEF TypeOK, CurrentRuns, OneRuns, SetCurrent, CallerInv, SleeperInv, Lock, LockInv
  <1> QED
    BY <1>1, <1>2, <1>3, <1>4, <1>5, <1>6, <1>7

\* suspend returns when nobody is inside, and sets Fiber.current.
LEMMA ResumeKeeps ==
    ASSUME FiberInv, NEW t \in Fibers, Resume(t)
    PROVE  FiberInv'
  <1> USE FibersConstants DEF FiberInv, Resume, Enter, To, Places, Idle, Outside, Inside, Undefined, Deleted
  <1>0. ~ unlocked => \A u \in Fibers : pc[u] \notin Inside
    BY NobodyInside DEF Lock
  <1>1. TypeOK'
    BY DEF TypeOK, Lock, SetCurrent
  <1>2. MainInv'
    BY DEF TypeOK, MainInv
  <1>3. LockInv'
    BY <1>0 DEF TypeOK, LockInv, Lock
  <1>4. AloneInv'
    BY DEF TypeOK, MainInv, LockInv, AloneInv, Alone, Lock, SetCurrent
  <1>5. CallerInv'
    BY DEF TypeOK, CallerInv, CurrentRuns
  <1>6. SleeperInv'
    BY DEF TypeOK, SleeperInv, CurrentRuns, SetCurrent
  <1>7. CurrentRuns'
    BY <1>0 DEF TypeOK, CurrentRuns, SetCurrent, CallerInv, SleeperInv
  <1> QED
    BY <1>1, <1>2, <1>3, <1>4, <1>5, <1>6, <1>7

\* pthread_join is called outside.
LEMMA JoinThreadKeeps ==
    ASSUME FiberInv, NEW t \in Fibers, JoinThread(t)
    PROVE  FiberInv'
  <1> USE FibersConstants DEF FiberInv, JoinThread, Enter, To, Places, Idle, Outside, Inside, Undefined, Deleted
  <1>1. TypeOK'
    BY DEF TypeOK, Lock, SetCurrent
  <1>2. MainInv'
    BY DEF TypeOK, MainInv
  <1>3. LockInv'
    BY OnlyOne DEF TypeOK, MainInv, LockInv, AloneInv, Alone, OneRuns, Lock
  <1>4. AloneInv'
    BY DEF TypeOK, MainInv, LockInv, AloneInv, Alone, Lock, SetCurrent
  <1>5. CallerInv'
    BY DEF TypeOK, CallerInv, CurrentRuns
  <1>6. SleeperInv'
    BY DEF TypeOK, SleeperInv, CurrentRuns, SetCurrent
  <1>7. CurrentRuns'
    BY OnlyOne DEF TypeOK, CurrentRuns, OneRuns, SetCurrent, CallerInv, SleeperInv, Lock, LockInv
  <1> QED
    BY <1>1, <1>2, <1>3, <1>4, <1>5, <1>6, <1>7

\* And returns outside.
LEMMA JoinReturnsKeeps ==
    ASSUME FiberInv, NEW t \in Fibers, JoinReturns(t)
    PROVE  FiberInv'
  <1> USE FibersConstants DEF FiberInv, JoinReturns, Enter, To, Places, Idle, Outside, Inside, Undefined, Deleted
  <1>1. TypeOK'
    BY DEF TypeOK, Lock, SetCurrent
  <1>2. MainInv'
    BY DEF TypeOK, MainInv
  <1>3. LockInv'
    BY OnlyOne DEF TypeOK, MainInv, LockInv, AloneInv, Alone, OneRuns, Lock
  <1>4. AloneInv'
    BY DEF TypeOK, MainInv, LockInv, AloneInv, Alone, Lock, SetCurrent
  <1>5. CallerInv'
    BY DEF TypeOK, CallerInv, CurrentRuns
  <1>6. SleeperInv'
    BY DEF TypeOK, SleeperInv, CurrentRuns, SetCurrent
  <1>7. CurrentRuns'
    BY OnlyOne DEF TypeOK, CurrentRuns, OneRuns, SetCurrent, CallerInv, SleeperInv, Lock, LockInv
  <1> QED
    BY <1>1, <1>2, <1>3, <1>4, <1>5, <1>6, <1>7

\* join returns when nobody is inside, and gives Fiber.current back to its caller.
LEMMA JoinedKeeps ==
    ASSUME FiberInv, NEW t \in Fibers, Joined(t)
    PROVE  FiberInv'
  <1> USE FibersConstants DEF FiberInv, Joined, Enter, To, Places, Idle, Outside, Inside, Undefined, Deleted
  <1>0. ~ unlocked => \A u \in Fibers : pc[u] \notin Inside
    BY NobodyInside DEF Lock
  <1>1. TypeOK'
    BY DEF TypeOK, Lock, SetCurrent
  <1>2. MainInv'
    BY DEF TypeOK, MainInv
  <1>3. LockInv'
    BY <1>0 DEF TypeOK, LockInv, Lock
  <1>4. AloneInv'
    BY DEF TypeOK, MainInv, LockInv, AloneInv, Alone, Lock, SetCurrent, CallerInv
  <1>5. CallerInv'
    BY DEF TypeOK, CallerInv, CurrentRuns
  <1>6. SleeperInv'
    BY DEF TypeOK, SleeperInv, CurrentRuns, SetCurrent
  <1>7. CurrentRuns'
    BY <1>0 DEF TypeOK, CurrentRuns, SetCurrent, CallerInv, SleeperInv
  <1> QED
    BY <1>1, <1>2, <1>3, <1>4, <1>5, <1>6, <1>7

\* A sleep that spoils nothing ends with the Fiber.current it began with.
LEMMA WakeUpKeeps ==
    ASSUME FiberInv, NEW t \in Fibers, WakeUp(t)
    PROVE  FiberInv'
  <1> USE FibersConstants DEF FiberInv, WakeUp, Enter, To, Places, Idle, Outside, Inside, Undefined, Deleted
  <1>0. ~ unlocked => \A u \in Fibers : pc[u] \notin Inside
    BY NobodyInside DEF Lock
  <1>1. TypeOK'
    BY DEF TypeOK, Lock, SetCurrent
  <1>2. MainInv'
    BY DEF TypeOK, MainInv
  <1>3. LockInv'
    BY <1>0 DEF TypeOK, LockInv, Lock
  <1>4. AloneInv'
    BY DEF TypeOK, MainInv, LockInv, AloneInv, Alone, Lock, SetCurrent
  <1>5. CallerInv'
    BY DEF TypeOK, CallerInv, CurrentRuns
  <1>6. SleeperInv'
    BY DEF TypeOK, SleeperInv, CurrentRuns, SetCurrent
  <1>7. CurrentRuns'
    BY <1>0 DEF TypeOK, CurrentRuns, SetCurrent, CallerInv, SleeperInv
  <1> QED
    BY <1>1, <1>2, <1>3, <1>4, <1>5, <1>6, <1>7

\* The end of a thread is outside.
LEMMA DeleteKeeps ==
    ASSUME FiberInv, NEW t \in Fibers, Delete(t)
    PROVE  FiberInv'
  <1> USE FibersConstants DEF FiberInv, Delete, Enter, To, Places, Idle, Outside, Inside, Undefined, Deleted
  <1>1. TypeOK'
    BY DEF TypeOK, Lock, SetCurrent
  <1>2. MainInv'
    BY DEF TypeOK, MainInv
  <1>3. LockInv'
    BY OnlyOne DEF TypeOK, MainInv, LockInv, AloneInv, Alone, OneRuns, Lock
  <1>4. AloneInv'
    BY DEF TypeOK, MainInv, LockInv, AloneInv, Alone, Lock, SetCurrent
  <1>5. CallerInv'
    BY DEF TypeOK, CallerInv, CurrentRuns
  <1>6. SleeperInv'
    BY DEF TypeOK, SleeperInv, CurrentRuns, SetCurrent
  <1>7. CurrentRuns'
    BY OnlyOne DEF TypeOK, CurrentRuns, OneRuns, SetCurrent, CallerInv, SleeperInv, Lock, LockInv
  <1> QED
    BY <1>1, <1>2, <1>3, <1>4, <1>5, <1>6, <1>7

\* Every step keeps the invariant.
LEMMA NextKeeps == FiberInv /\ [Next]_vars => FiberInv'
  <1> SUFFICES ASSUME FiberInv, [Next]_vars PROVE FiberInv'
    OBVIOUS
  <1>1. ASSUME NEW t \in Fibers, Script(t) PROVE FiberInv'
    <2>1. Runs(t) /\ calls' \in 0 .. MaxCalls
      BY <1>1, FibersConstants DEF Script, Call, Return, Exit, FiberInv, TypeOK
    <2> QED
      BY <1>1, <2>1, FiberKeeps, CreateThreadKeeps, BecomeRunnableKeeps, JoinKeeps,
         SuspendKeeps, SleepKeeps, ReturnKeeps, ExitKeeps DEF Script, Call
  <1>2. ASSUME NEW t \in Fibers, Thread(t) PROVE FiberInv'
    BY <1>2, StartKeeps, SignalKeeps, WaitKeeps, ResumeKeeps, JoinThreadKeeps,
       JoinReturnsKeeps, JoinedKeeps, WakeUpKeeps, DeleteKeeps DEF Thread
  <1>3. CASE UNCHANGED vars
    BY <1>3 DEF vars, FiberInv, TypeOK, MainInv, LockInv, AloneInv, Alone, CallerInv,
       SleeperInv, CurrentRuns
  <1> QED
    BY <1>1, <1>2, <1>3, WakeSpuriouslyKeeps DEF Next

\* The invariant holds in every reachable state.
LEMMA Invariance == Spec => []FiberInv
  BY InitHolds, NextKeeps, PTL DEF Spec

-----------------------------------------------------------------------------
(* The theorems.                                                           *)

\* Types, over any calls of any scripts, up to where deleted data is read.
THEOREM TypeCorrect == Spec => []TypeOK
  <1>1. FiberInv => TypeOK
    BY DEF FiberInv
  <1> QED
    BY <1>1, Invariance, PTL

\* Once the fiber that starts the others holds the V8 lock, one runs at a time, for
\* any number of fibers that suspend, sleep, join and end.
THEOREM OneAtATime == Spec => []OneRuns
  BY OnlyOne, Invariance, PTL

\* Fiber.current is the fiber that runs, over any sequence of suspends and joins.
THEOREM CurrentIsRunning == Spec => []CurrentRuns
  <1>1. FiberInv => CurrentRuns
    BY DEF FiberInv
  <1> QED
    BY <1>1, Invariance, PTL

\* allRunningFibers lists no fiber whose data is deleted, and misses none that has
\* begun and not ended.
THEOREM RegistryExact == Spec => []RunningFibers
  <1>1. Init => RunningFibers
    BY FibersConstants DEF Init, RunningFibers, Idle
  <1>2. TypeOK /\ MainInv /\ RunningFibers /\ [Next]_vars => RunningFibers'
    <2> SUFFICES ASSUME TypeOK, RunningFibers, [Next]_vars PROVE RunningFibers'
      OBVIOUS
    <2> USE DEF TypeOK, RunningFibers, To, Idle, Undefined
    <2>1. ASSUME NEW t \in Fibers, Runs(t), Call(t) PROVE RunningFibers'
      <3> USE DEF Runs
      <3>1. ASSUME NEW f \in Fibers, Fiber(f) \/ CreateThread(t, f) PROVE RunningFibers'
        BY <2>1, <3>1 DEF Fiber, CreateThread
      <3>2. ASSUME NEW f \in Fibers, BecomeRunnable(t, f) \/ Join(t, f) PROVE RunningFibers'
        BY <2>1, <3>2 DEF BecomeRunnable, Join
      <3>3. CASE Suspend(t) \/ Sleep(t)
        BY <2>1, <3>3 DEF Suspend, Sleep
      <3> QED
        BY <2>1, <3>1, <3>2, <3>3 DEF Call
    <2>2. ASSUME NEW t \in Fibers, Runs(t), Return(t) \/ Exit(t) PROVE RunningFibers'
      BY <2>2 DEF Return, Exit, unregisterFiber, Runs
    <2>3. ASSUME NEW t \in Fibers, Thread(t) PROVE RunningFibers'
      <3>1. CASE Start(t)
        BY <3>1 DEF Start, Enter
      <3>2. CASE Signal(t)
        BY <3>2 DEF Signal
      <3>3. CASE Wait(t) \/ JoinReturns(t) \/ Delete(t)
        BY <3>3 DEF Wait, JoinReturns, Delete
      <3>4. CASE Resume(t) \/ Joined(t) \/ WakeUp(t)
        BY <3>4 DEF Resume, Joined, WakeUp, Enter
      <3>5. CASE JoinThread(t)
        BY <3>5 DEF JoinThread
      <3> QED
        BY <2>3, <3>1, <3>2, <3>3, <3>4, <3>5 DEF Thread
    <2>4. ASSUME NEW t \in Fibers, WakeSpuriously(t) PROVE RunningFibers'
      BY <2>4 DEF WakeSpuriously
    <2>5. CASE UNCHANGED vars
      BY <2>5 DEF vars
    <2> QED
      BY <2>1, <2>2, <2>3, <2>4, <2>5 DEF Next, Script
  <1>3. FiberInv => TypeOK /\ MainInv
    BY DEF FiberInv
  <1> QED
    BY <1>1, <1>2, <1>3, Invariance, PTL DEF Spec

-----------------------------------------------------------------------------
(* Nobody waits in a circle, and no signal falls between two steps: what    *)
(* LockIsGiven and NoLostSignal need besides fairness.                      *)

\* The V8 lock is held inside JavaScript only, also after a thread was started
\* without it.
HolderInside == lock # None => pc[lock] \in Inside

WantsLock(t) == pc[t] \in {"starting", "woken", "joined", "sleeping"}

\* t has a step that waits for nobody: a script calls, returns or exits; a thread
\* begins to wait, looks for the thread it joins, or ends; becomeRunnable gets the
\* mutex.
GoesOn(t) == \/ pc[t] \in {"running", "unlocking", "joining", "ending"}
             \/ pc[t] = "signal" /\ ~ HasMutex(target[t])

\* Whoever wants the V8 lock, or a mutex, finds it free, or held by a thread that goes
\* on, or waits for the mutex of one that goes on: suspend takes its mutex before it
\* releases the V8 lock, and becomeRunnable waits for a mutex with the V8 lock in hand,
\* and the two do not wait for each other (fibers.cc:275, 307).
NoCircularWait ==
    /\ \A t \in Fibers : WantsLock(t) =>
          \/ lock = None
          \/ GoesOn(lock)
          \/ pc[lock] = "signal" /\ GoesOn(target[lock])
    /\ \A t \in Fibers : pc[t] = "signal" => GoesOn(t) \/ GoesOn(target[t])

LEMMA HolderInsideHolds == Spec => [](TypeOK /\ HolderInside)
  <1>1. Init => HolderInside
    BY DEF Init, HolderInside
  <1>2. TypeOK /\ HolderInside /\ [Next]_vars => HolderInside'
    <2> SUFFICES ASSUME TypeOK, HolderInside, [Next]_vars PROVE HolderInside'
      OBVIOUS
    <2> USE FibersConstants DEF TypeOK, HolderInside, To, Inside, Outside, Idle, Places, Released, Undefined
    <2>1. ASSUME NEW t \in Fibers, Runs(t), Call(t) PROVE HolderInside'
      <3> USE DEF Runs
      <3>1. ASSUME NEW f \in Fibers, Fiber(f) \/ CreateThread(t, f) PROVE HolderInside'
        BY <3>1 DEF Fiber, CreateThread
      <3>2. ASSUME NEW f \in Fibers, BecomeRunnable(t, f) \/ Join(t, f) PROVE HolderInside'
        BY <2>1, <3>2 DEF BecomeRunnable, Join
      <3>3. CASE Suspend(t) \/ Sleep(t)
        BY <3>3 DEF Suspend, Sleep
      <3> QED
        BY <2>1, <3>1, <3>2, <3>3 DEF Call
    <2>2. ASSUME NEW t \in Fibers, Runs(t), Return(t) \/ Exit(t) PROVE HolderInside'
      BY <2>2 DEF Return, Exit
    <2>3. ASSUME NEW t \in Fibers, Start(t) \/ Resume(t) \/ Joined(t) \/ WakeUp(t)
          PROVE  HolderInside'
      BY <2>3 DEF Start, Resume, Joined, WakeUp, Enter, Lock
    <2>4. ASSUME NEW t \in Fibers, Wait(t) \/ JoinReturns(t) \/ Delete(t) \/ WakeSpuriously(t)
          PROVE  HolderInside'
      BY <2>4 DEF Wait, JoinReturns, Delete, WakeSpuriously
    <2>5. ASSUME NEW t \in Fibers, Signal(t) PROVE HolderInside'
      BY <2>5 DEF Signal
    <2>6. ASSUME NEW t \in Fibers, JoinThread(t) PROVE HolderInside'
      BY <2>6 DEF JoinThread
    <2>7. CASE UNCHANGED vars
      BY <2>7 DEF vars
    <2> QED
      BY <2>1, <2>2, <2>3, <2>4, <2>5, <2>6, <2>7 DEF Next, Script, Thread
  <1> QED
    BY <1>1, <1>2, TypeCorrect, PTL DEF Spec

\* No two of suspend, join, sleep and becomeRunnable wait for each other, whoever has
\* been started without the V8 lock.
THEOREM NobodyDeadlocks == Spec => []NoCircularWait
  <1>1. TypeOK /\ HolderInside => NoCircularWait
    BY DEF TypeOK, HolderInside, NoCircularWait, WantsLock, GoesOn, HasMutex, Inside
  <1> QED
    BY <1>1, HolderInsideHolds, PTL

\* A becomeRunnable under way to a fiber in suspend finds it there: the fiber does not
\* leave suspend before, but woken, and is woken when becomeRunnable is done; and a woken
\* fiber next runs (fibers.cc:272-281, 307-318).
InSuspend(f) == pc[f] \in {"unlocking", "waiting"}
Signals(t, f) == pc[t] = "signal" /\ target[t] = f
SignalStays ==
    \A t, f \in Fibers :
        /\ Signals(t, f) /\ InSuspend(f) =>
              (Signals(t, f) /\ InSuspend(f))' \/ pc'[f] = "woken"
        /\ pc[f] = "woken" => pc'[f] \in {"woken", "running"}

THEOREM SignalsReach == Spec => [][SignalStays]_vars
  <1>1. TypeOK /\ Next => SignalStays
    <2> SUFFICES ASSUME TypeOK, Next PROVE SignalStays
      OBVIOUS
    <2> USE DEF TypeOK, To, Signals, InSuspend, Undefined, SignalStays
    <2>1. ASSUME NEW u \in Fibers, Runs(u), Call(u) PROVE SignalStays
      <3> USE DEF Runs
      <3>1. ASSUME NEW g \in Fibers, Fiber(g) \/ CreateThread(u, g) PROVE SignalStays
        BY <3>1 DEF Fiber, CreateThread
      <3>2. ASSUME NEW g \in Fibers, BecomeRunnable(u, g) \/ Join(u, g) PROVE SignalStays
        BY <2>1, <3>2 DEF BecomeRunnable, Join
      <3>3. CASE Suspend(u) \/ Sleep(u)
        BY <2>1, <3>3 DEF Suspend, Sleep
      <3> QED
        BY <2>1, <3>1, <3>2, <3>3 DEF Call
    <2>2. ASSUME NEW u \in Fibers, Runs(u), Return(u) \/ Exit(u) PROVE SignalStays
      BY <2>2 DEF Return, Exit, Runs
    <2>3. ASSUME NEW u \in Fibers, Start(u) \/ Resume(u) \/ Joined(u) \/ WakeUp(u)
          PROVE  SignalStays
      BY <2>3 DEF Start, Resume, Joined, WakeUp, Enter
    <2>4. ASSUME NEW u \in Fibers, Wait(u) \/ JoinReturns(u) \/ Delete(u) \/ WakeSpuriously(u)
          PROVE  SignalStays
      BY <2>4 DEF Wait, JoinReturns, Delete, WakeSpuriously
    <2>5. ASSUME NEW u \in Fibers, Signal(u) PROVE SignalStays
      BY <2>5 DEF Signal, HasMutex, Deleted
    <2>6. ASSUME NEW u \in Fibers, JoinThread(u) PROVE SignalStays
      BY <2>6 DEF JoinThread
    <2> QED
      BY <2>1, <2>2, <2>3, <2>4, <2>5, <2>6 DEF Next, Script, Thread
  <1> QED
    BY <1>1, TypeCorrect, PTL DEF Spec
=============================================================================
