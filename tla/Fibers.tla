------------------------------- MODULE Fibers -------------------------------
(***************************************************************************)
(* src/lib/fibers/fibers.cc: fibers are threads that take turns at the V8  *)
(* lock.  Each has a NativeData with a mutex and a condition variable that *)
(* suspend waits on and becomeRunnable signals.                            *)
(*                                                                         *)
(* Scripts are abstract: a running fiber makes any call on any fiber, but  *)
(* suspends itself only, as fibers.cc:17 asks.  NativeData is deleted when *)
(* its thread ends ("done"); whoever reads it afterwards puts an end to    *)
(* what can be said of the program (over = "undefined").                   *)
(*                                                                         *)
(* The main fiber runs under no v8::Locker (app.cc:187), so it starts      *)
(* without the V8 lock and has it only after its first v8::Unlocker.       *)
(***************************************************************************)
EXTENDS Naturals, FiniteSets

CONSTANTS
    Fibers,
    Main,      \* the main fiber, made by SHARED_INIT
    MaxCalls,  \* bound: calls that scripts make
    None

ASSUME FibersConstants ==
    /\ Main \in Fibers
    /\ None \notin Fibers
    /\ MaxCalls \in Nat

VARIABLES
    pc,         \* where the thread of each fiber is (see Places)
    target,     \* whom a fiber signals or joins, else None
    caller,     \* join: caller_js_fiber, else None
    lock,       \* the fiber that holds the V8 lock, or None
    current,    \* Fiber.current
    registry,   \* fiber_id_to_native_data_map
    over,       \* "no", "undefined" or "exited"
    calls,      \* calls made
    unlocked,   \* history: a thread was started by a fiber without the V8 lock
    slept       \* history: a fiber slept while there were others

vars == <<pc, target, caller, lock, current, registry, over, calls, unlocked, slept>>

Idle ==
    { "none",      \* not constructed
      "new",       \* constructed, without a thread
      "failed",    \* its thread could not be created
      "done" }     \* its thread has ended and its NativeData is deleted
Outside ==
    { "starting",  \* a new thread, waits for the V8 lock
      "unlocking", \* in suspend, holds its mutex and has released the V8 lock
      "waiting",   \* in suspend, waits on its condition
      "woken",     \* in suspend, waits for the V8 lock
      "joining",   \* in join, has released the V8 lock
      "joinwait",  \* in join, in pthread_join
      "joined",    \* in join, waits for the V8 lock
      "sleeping",  \* in system.sleep or Socket.select
      "ending" }   \* has released the V8 lock for good
Inside ==
    { "running",   \* runs JavaScript
      "signal" }   \* in becomeRunnable, at pthread_mutex_lock
Places == Idle \cup Outside \cup Inside

Init ==
    /\ pc = [f \in Fibers |-> IF f = Main THEN "running" ELSE "none"]
    /\ target = [f \in Fibers |-> None]
    /\ caller = [f \in Fibers |-> None]
    /\ lock = None
    /\ current = Main
    /\ registry = {Main}
    /\ over = "no"
    /\ calls = 0
    /\ unlocked = FALSE /\ slept = FALSE

-----------------------------------------------------------------------------
(* The V8 lock: v8::Locker and v8::Unlocker.                               *)

\* Mutant: the lock is not waited for.
Lock_NoWait(t) == lock' = t

\* The end of an Unlocker, or the beginning of a Locker, on thread t.
Lock(t) ==
    /\ lock = None
    /\ lock' = t

\* Mutant: the lock is not released.
Released_Never == lock

\* An Unlocker releases the mutex, whoever holds it.
Released == None

\* Thread t goes on to another place.
To(t, place) == pc' = [pc EXCEPT ![t] = place]

Runs(t) == over = "no" /\ pc[t] = "running"

\* The NativeData of f has been deleted, and is read.
Deleted(f) == pc[f] = "done"
Undefined ==
    /\ over' = "undefined"
    /\ UNCHANGED <<pc, target, caller, lock, current, registry, unlocked, slept>>

-----------------------------------------------------------------------------
(* What a running fiber t calls.                                           *)

\* new Fiber(name, func)
Fiber(f) ==
    /\ pc[f] = "none"
    /\ To(f, "new")
    /\ UNCHANGED <<target, caller, lock, current, registry, over, unlocked, slept>>

\* becomeRunnable of a fiber without a thread: pthread_create, which may fail after
\* thread_created has been set.
CreateThread(t, f) ==
    /\ pc[f] = "new"
    /\ To(f, "starting") \/ To(f, "failed")
    /\ unlocked' = (unlocked \/ lock # t)
    /\ UNCHANGED <<target, caller, lock, current, registry, over, slept>>

\* becomeRunnable of a fiber with thread_created, up to the mutex.
BecomeRunnable(t, f) ==
    /\ pc[f] \notin {"none", "new"}
    /\ IF Deleted(f) THEN Undefined
       ELSE /\ To(t, "signal")
            /\ target' = [target EXCEPT ![t] = f]
            /\ UNCHANGED <<caller, lock, current, registry, over, unlocked, slept>>

\* suspend: the mutex is taken before the V8 lock is released.
Suspend(t) ==
    /\ To(t, "unlocking")
    /\ lock' = Released
    /\ UNCHANGED <<target, caller, current, registry, over, unlocked, slept>>

\* Mutant: join does not remember who called it.
Caller_Forgotten == None

\* caller_js_fiber
Caller == current

\* join, up to the Unlocker; it throws for a fiber that was never made runnable.
Join(t, f) ==
    /\ pc[f] \notin {"none", "new"}
    /\ IF Deleted(f) THEN Undefined
       ELSE /\ To(t, "joining")
            /\ target' = [target EXCEPT ![t] = f]
            /\ caller' = [caller EXCEPT ![t] = Caller]
            /\ lock' = Released
            /\ UNCHANGED <<current, registry, over, unlocked, slept>>

\* system.sleep and Socket.select.
Sleep(t) ==
    /\ To(t, "sleeping")
    /\ lock' = Released
    /\ slept' = (slept \/ \E f \in Fibers \ {t} : pc[f] \notin Idle)
    /\ UNCHANGED <<target, caller, current, registry, over, unlocked>>

Call(t) ==
    /\ calls < MaxCalls
    /\ calls' = calls + 1
    /\ \/ \E f \in Fibers :
              Fiber(f) \/ CreateThread(t, f) \/ BecomeRunnable(t, f) \/ Join(t, f)
       \/ Suspend(t)
       \/ Sleep(t)

\* Mutant: the fiber stays registered.
unregisterFiber_Never(f) == registry

unregisterFiber(f) == registry \ {f}

\* runJsFunc: the function returns, and the Locker is destroyed.
Return(t) ==
    /\ t # Main
    /\ To(t, "ending")
    /\ registry' = unregisterFiber(t)
    /\ lock' = Released
    /\ UNCHANGED <<target, caller, current, over, calls, unlocked, slept>>

\* The main script ends, and the process with it.
Exit(t) ==
    /\ t = Main
    /\ over' = "exited"
    /\ UNCHANGED <<pc, target, caller, lock, current, registry, calls, unlocked, slept>>

Script(t) == Runs(t) /\ (Call(t) \/ Return(t) \/ Exit(t))

-----------------------------------------------------------------------------
(* What the threads go through.                                            *)

\* Mutant: Fiber.current is left as it is.
SetCurrent_Never(fiber) == UNCHANGED current

SetCurrent(fiber) == current' = fiber

\* t is back in JavaScript, with the V8 lock and Fiber.current.
Enter(t, fiber) ==
    /\ Lock(t)
    /\ To(t, "running")
    /\ SetCurrent(fiber)
    /\ target' = [target EXCEPT ![t] = None]
    /\ caller' = [caller EXCEPT ![t] = None]
    /\ UNCHANGED <<over, calls, unlocked, slept>>

\* runJsFunc begins.
Start(t) ==
    /\ pc[t] = "starting"
    /\ Enter(t, t)
    /\ registry' = registry \cup {t}

\* Mutant: suspend takes its mutex after it has released the V8 lock.
HasMutex_Late(f) == FALSE

\* f is in suspend, between pthread_mutex_lock and pthread_cond_wait.
HasMutex(f) == pc[f] = "unlocking"

\* becomeRunnable: the condition is signalled under the mutex, and wakes whoever
\* waits on it.
Signal(t) ==
    /\ pc[t] = "signal"
    /\ ~ HasMutex(target[t])
    /\ IF Deleted(target[t]) THEN Undefined
       ELSE /\ pc' = [pc EXCEPT ![target[t]] = IF @ = "waiting" THEN "woken" ELSE @,
                                ![t] = "running"]
            /\ target' = [target EXCEPT ![t] = None]
            /\ UNCHANGED <<caller, lock, current, registry, over, unlocked, slept>>
    /\ UNCHANGED calls

\* suspend: pthread_cond_wait begins, and may return unasked.
Wait(t) ==
    /\ pc[t] = "unlocking"
    /\ To(t, "waiting")
    /\ UNCHANGED <<target, caller, lock, current, registry, over, calls, unlocked, slept>>

WakeSpuriously(t) ==
    /\ pc[t] = "waiting"
    /\ To(t, "woken")
    /\ UNCHANGED <<target, caller, lock, current, registry, over, calls, unlocked, slept>>

\* The end of suspend.
Resume(t) ==
    /\ pc[t] = "woken"
    /\ Enter(t, t)
    /\ UNCHANGED registry

\* pthread_join is refused: a thread that joins itself, is joined by the other, or is
\* joined already.  join does not look at the status.
Refused(t, f) ==
    \/ f = t
    \/ pc[f] = "joinwait" /\ target[f] = t
    \/ \E u \in Fibers : pc[u] = "joinwait" /\ target[u] = f

\* join: the thread is read from the NativeData after the V8 lock was released.
JoinThread(t) ==
    /\ pc[t] = "joining"
    /\ IF pc[target[t]] \in {"done", "failed"} THEN Undefined
       ELSE /\ To(t, IF Refused(t, target[t]) THEN "joined" ELSE "joinwait")
            /\ UNCHANGED <<target, caller, lock, current, registry, over, unlocked, slept>>
    /\ UNCHANGED calls

JoinReturns(t) ==
    /\ pc[t] = "joinwait"
    /\ pc[target[t]] = "done"
    /\ To(t, "joined")
    /\ UNCHANGED <<target, caller, lock, current, registry, over, calls, unlocked, slept>>

\* The end of join, and that of sleep and select.
Joined(t) ==
    /\ pc[t] = "joined"
    /\ Enter(t, caller[t])
    /\ UNCHANGED registry

WakeUp(t) ==
    /\ pc[t] = "sleeping"
    /\ Enter(t, current)
    /\ UNCHANGED registry

\* runJsFunc deletes the NativeData, and the thread ends.
Delete(t) ==
    /\ pc[t] = "ending"
    /\ To(t, "done")
    /\ UNCHANGED <<target, caller, lock, current, registry, over, calls, unlocked, slept>>

Thread(t) ==
    /\ over = "no"
    /\ \/ Start(t) \/ Signal(t) \/ Wait(t) \/ Resume(t)
       \/ JoinThread(t) \/ JoinReturns(t) \/ Joined(t) \/ WakeUp(t) \/ Delete(t)

Next ==
    \/ \E t \in Fibers : Script(t) \/ Thread(t)
    \/ \E t \in Fibers : over = "no" /\ WakeSpuriously(t)

Spec == Init /\ [][Next]_vars

\* Every thread goes on: pthreads schedules it and scripts do not compute for ever.
FairSpec == Spec /\ \A t \in Fibers : WF_vars(Script(t)) /\ WF_vars(Thread(t))

-----------------------------------------------------------------------------
(* Properties.                                                             *)

TypeOK ==
    /\ pc \in [Fibers -> Places]
    /\ target \in [Fibers -> Fibers \cup {None}]
    /\ caller \in [Fibers -> Fibers \cup {None}]
    /\ lock \in Fibers \cup {None}
    /\ current \in Fibers
    /\ registry \subseteq Fibers
    /\ over \in {"no", "undefined", "exited"}
    /\ calls \in 0 .. MaxCalls
    /\ unlocked \in BOOLEAN /\ slept \in BOOLEAN
    /\ \A t \in Fibers : pc[t] \in {"signal", "joining", "joinwait"} => target[t] \in Fibers
    /\ \A t \in Fibers : pc[t] \in {"joining", "joinwait", "joined"} => caller[t] \in Fibers

\* "They behave like fibers in that only one can be running at a time"
\* (fibers.cc:33), once the thread that starts the others holds the V8 lock.
OneRuns == ~ unlocked => \A t, u \in Fibers : pc[t] \in Inside /\ pc[u] \in Inside => t = u

\* Fiber.current, where fiber-local state is kept (fibers.cc:20), is the fiber that
\* runs, over any sequence of suspends, joins and ends of fibers; a sleep or select
\* of a fiber among others spoils it.
CurrentRuns == ~ unlocked /\ ~ slept => \A t \in Fibers : pc[t] \in Inside => current = t

\* allRunningFibers gives the "fibers that have started executing their functions
\* but not yet finished", suspended ones included (fibers.cc:24), so none whose
\* NativeData is deleted.
RunningFibers ==
    registry = {f \in Fibers : pc[f] \notin Idle \cup {"starting", "ending"}}

\* "Releasing the lock after we grab the mutex we ensure that another thread can't
\* signal the mutex before we wait on it" (fibers.cc:309): a becomeRunnable that
\* meets its fiber anywhere in suspend makes it run again.
NoLostSignal ==
    \A t, f \in Fibers :
        pc[t] = "signal" /\ target[t] = f /\ pc[f] \in {"unlocking", "waiting"} ~>
            pc[f] = "running" \/ over # "no"

\* A thread that wants the V8 lock gets it: no two of suspend, join, sleep and
\* becomeRunnable wait for each other's mutex and lock.
LockIsGiven ==
    \A t \in Fibers :
        pc[t] \in {"starting", "woken", "joined", "sleeping"} ~>
            pc[t] = "running" \/ over # "no"

\* "Wait for a fiber to complete" (fibers.cc:28): a fiber that completes while another
\* joins it has its data until the join has found the thread to wait for.
JoinFindsThread == \A t \in Fibers : pc[t] = "joining" => ~ Deleted(target[t])
=============================================================================
