----------------------------- MODULE EventLoop -----------------------------
(***************************************************************************)
(* The event loop of lib/eventloop.js over Socket.select of                *)
(* src/lib/socket/socket.cc: timers, socket listeners, and run(), whose    *)
(* callbacks may add and clear events, abort the run, return or throw.     *)
(*                                                                         *)
(* Time is kept relative: a timer's due counts down to 0, where it stays,  *)
(* so that item.ts > now reads due > 0 and no clock has to be bounded.     *)
(* A pair <<s, TRUE>> is the readability, <<s, FALSE>> the writability of  *)
(* socket s.  The program has no fiber beside the one in run(): then no    *)
(* script runs while the thread is in select, although select gives up the *)
(* lock of V8, and its arrays are taken from the listeners when it returns.*)
(***************************************************************************)
EXTENDS Integers, FiniteSets

CONSTANTS
    Sockets,
    Delays,    \* delays and periods asked for, in units of time
    MaxTimes,  \* arguments of run(); 0: none given
    Throws,    \* may callbacks throw?
    Word,      \* number of values of an Int32, an even number
    MaxIds,    \* bound: listeners added
    MaxRuns,   \* bound: calls of run() that start
    None

Ids == 0 .. MaxIds - 1
Conditions == Sockets \X BOOLEAN

\* A timer: how long it has to wait, its period, -1 for a timeout, and whether it is
\* the one that run() sets to abort itself.
TimerRecords == [due : Nat, repeat : Delays \cup {-1}, abort : BOOLEAN]

ASSUME EventLoopConstants ==
    /\ Delays \subseteq Nat /\ MaxTimes \subseteq Nat
    /\ Throws \in BOOLEAN
    /\ MaxIds \in Nat /\ MaxRuns \in Nat
    /\ Word \in Nat \ {0} /\ Word % 2 = 0
    /\ None \notin Int \cup Conditions \cup TimerRecords

VARIABLES
    time,        \* events.time: id -> None or a timer
    socket,      \* events.socket: id -> None or the condition listened for
    eventCount,
    lastId,
    running,
    aborted,
    pc,          \* "out", or where run() is: "loop", "select", "time", "sockets"
    callback,    \* the listener whose callback is running, or None
    todo,        \* ids the for-in in progress may still visit
    wait,        \* select: what is left of the timeout, None when it has none
    selected,    \* what select left in the arrays read and write
    lag,         \* time since the now of processTime
    ready,       \* the host: the conditions that hold
    cleared,     \* history: ids that were cleared by a script
    runs         \* history: runs started

events == <<time, socket, eventCount, lastId>>
flags == <<running, aborted>>
pass == <<todo, wait, selected, lag>>
vars == <<events, flags, pc, callback, pass, ready, cleared, runs>>

Init ==
    /\ time = [i \in Ids |-> None]
    /\ socket = [i \in Ids |-> None]
    /\ eventCount = 0 /\ lastId = 0
    /\ running = FALSE /\ aborted = FALSE
    /\ pc = "out" /\ callback = None
    /\ todo = {} /\ wait = None /\ selected = {} /\ lag = 0
    /\ ready = {} /\ cleared = {} /\ runs = 0

Timers == {i \in Ids : time[i] # None}
Listeners == {i \in Ids : socket[i] # None}

-----------------------------------------------------------------------------
(* What scripts call: before, between and after runs, and in callbacks.    *)

NewId ==
    /\ lastId < MaxIds
    /\ eventCount' = eventCount + 1
    /\ lastId' = lastId + 1

addTimeListener(delay, repeat, abort) ==
    /\ NewId
    /\ time' = [time EXCEPT ![lastId] =
                   [due |-> delay, repeat |-> IF repeat THEN delay ELSE -1,
                    abort |-> abort]]

SetTimer(delay, repeat) ==
    /\ addTimeListener(delay, repeat, FALSE)
    /\ UNCHANGED <<socket, aborted, cleared, ready>>

AddSocketListener(condition) ==
    /\ NewId
    /\ socket' = [socket EXCEPT ![lastId] = condition]
    /\ UNCHANGED <<time, aborted, cleared, ready>>

\* Mutants: an id that is gone is counted again; nothing is deleted.
Counted_All(table, gone) == Cardinality(gone)
Without_Nothing(table, gone) == table

\* if (id in events...) { delete ...; eventCount--; }
Counted(table, gone) == Cardinality({i \in gone : table[i] # None})
Without(table, gone) == [i \in Ids |-> IF i \in gone THEN None ELSE table[i]]

\* clearTimeout and clearInterval, of a timer that may be gone.
ClearTimer(i) ==
    /\ time' = Without(time, {i})
    /\ eventCount' = eventCount - Counted(time, {i})
    /\ cleared' = cleared \cup ({i} \cap Timers)
    /\ UNCHANGED <<socket, lastId, aborted, ready>>

\* clearSocket of an id, or of every listener of a socket.
ClearSocket(gone) ==
    /\ socket' = Without(socket, gone)
    /\ eventCount' = eventCount - Counted(socket, gone)
    /\ cleared' = cleared \cup (gone \cap Listeners)
    /\ UNCHANGED <<time, lastId, aborted, ready>>

Abort ==
    /\ aborted' = TRUE
    /\ UNCHANGED <<events, cleared, ready>>

\* A callback reads what has arrived, or fills the send buffer.
UseSocket(condition) ==
    /\ ready' = ready \ {condition}
    /\ UNCHANGED <<events, aborted, cleared>>

Script ==
    /\ pc = "out" \/ callback # None
    /\ \/ \E d \in Delays, repeat \in BOOLEAN : SetTimer(d, repeat)
       \/ \E c \in Conditions : AddSocketListener(c) \/ UseSocket(c)
       \/ \E i \in 0 .. lastId - 1 : ClearTimer(i) \/ ClearSocket({i})
       \/ \E s \in Sockets : ClearSocket({i \in Listeners : socket[i][1] = s})
       \/ Abort
    /\ UNCHANGED <<running, pc, callback, pass, runs>>

\* run(), from outside: inside a callback it throws and changes nothing, as it does
\* outside when running is still set; without events it returns false.
Run(maxTime) ==
    /\ pc = "out" /\ ~ running /\ eventCount # 0
    /\ runs < MaxRuns
    /\ runs' = runs + 1
    /\ running' = TRUE /\ aborted' = FALSE
    /\ pc' = "loop"
    /\ IF maxTime = 0 THEN UNCHANGED <<time, eventCount, lastId>>
       ELSE addTimeListener(maxTime, FALSE, TRUE)
    /\ UNCHANGED <<socket, callback, pass, ready, cleared>>

-----------------------------------------------------------------------------
(* The loop.                                                               *)

\* run() goes on with its loop, or is left: its local variables are dead.
LeaveTo(place) ==
    /\ pc' = place
    /\ todo' = {} /\ wait' = None /\ selected' = {} /\ lag' = 0

\* while (eventCount && !aborted)
EndLoop ==
    /\ pc = "loop"
    /\ eventCount = 0 \/ aborted
    /\ running' = FALSE
    /\ LeaveTo("out")
    /\ UNCHANGED <<events, aborted, callback, ready, cleared, runs>>

Int32(n) == LET m == n % Word IN IF m < Word \div 2 THEN m ELSE m - Word

Closest(i) == i \in Timers /\ \A j \in Timers : time[i].due <= time[j].due

\* The closest timer gives the timeout.
CallSelect ==
    /\ pc = "loop"
    /\ eventCount # 0 /\ ~ aborted
    /\ \/ Timers = {} /\ wait' = None
       \/ \E i \in Ids : /\ Closest(i) /\ Int32(time[i].due) >= 0
                         /\ wait' = Int32(time[i].due)
    /\ pc' = "select"
    /\ UNCHANGED <<events, flags, callback, todo, selected, lag, ready, cleared, runs>>

\* select fails when its timeout is negative, and may when it is given something to
\* listen to: a closed socket, or what is no Socket.  Any exception is caught, and the
\* loop is left with its events.
SelectFails ==
    /\ pc = "loop"
    /\ eventCount # 0 /\ ~ aborted
    /\ Listeners # {} \/ \E i \in Ids : Closest(i) /\ Int32(time[i].due) < 0
    /\ running' = FALSE
    /\ LeaveTo("out")
    /\ UNCHANGED <<events, aborted, callback, ready, cleared, runs>>

Watched == {socket[i] : i \in Listeners}

\* Mutant: timers have to wait for a pass without sockets.
Due_SocketsFirst == IF Watched \cap ready # {} THEN {} ELSE {i \in Timers : time[i].due = 0}

Due == {i \in Timers : time[i].due = 0}

\* select returns when a condition holds or the time is over, and removes the
\* sockets that are not ready from the arrays; processTime takes its now.
SelectReturns ==
    /\ pc = "select"
    /\ selected' = Watched \cap ready
    /\ selected' # {} \/ wait = 0
    /\ pc' = "time"
    /\ todo' = Due
    /\ wait' = None
    /\ UNCHANGED <<events, flags, callback, lag, ready, cleared, runs>>

\* A for-in visits ids in ascending order, neither those deleted nor those added
\* since it began.
Visits(i, present) == i \in present /\ \A j \in present : i <= j

Left(n) == IF n > lag THEN n - lag ELSE 0

\* processTime, one timer: a timeout is cleared and an interval moved before the
\* callback is called.  The callback of the timer that run() sets is abort.
CallTimer(i) ==
    /\ pc = "time" /\ callback = None
    /\ Visits(i, todo \cap Timers)
    /\ todo' = todo \ {i}
    /\ IF time[i].repeat = -1
       THEN time' = Without(time, {i}) /\ eventCount' = eventCount - Counted(time, {i})
       ELSE /\ time' = [time EXCEPT ![i].due = Left(time[i].repeat)]
            /\ UNCHANGED eventCount
    /\ IF time[i].abort
       THEN aborted' = TRUE /\ UNCHANGED callback
       ELSE callback' = i /\ UNCHANGED aborted
    /\ UNCHANGED <<socket, lastId, running, pc, wait, selected, lag, ready, cleared, runs>>

\* Mutant: sockets have to wait until there is no timer.
HasSockets_TimersFirst == selected # {} /\ Timers = {}

\* The result of select.
HasSockets == selected # {}

EndTime ==
    /\ pc = "time" /\ callback = None
    /\ todo \cap Timers = {}
    /\ IF HasSockets
       THEN pc' = "sockets" /\ todo' = Listeners /\ lag' = 0 /\ UNCHANGED <<wait, selected>>
       ELSE LeaveTo("loop")
    /\ UNCHANGED <<events, flags, callback, ready, cleared, runs>>

ToCall == {i \in todo \cap Listeners : socket[i] \in selected}

\* processSockets, one listener.
CallSocket(i) ==
    /\ pc = "sockets" /\ callback = None
    /\ Visits(i, ToCall)
    /\ todo' = todo \ {i}
    /\ callback' = i
    /\ UNCHANGED <<events, flags, pc, wait, selected, lag, ready, cleared, runs>>

EndSockets ==
    /\ pc = "sockets" /\ callback = None
    /\ ToCall = {}
    /\ LeaveTo("loop")
    /\ UNCHANGED <<events, flags, callback, ready, cleared, runs>>

CallbackReturns ==
    /\ callback # None
    /\ callback' = None
    /\ UNCHANGED <<events, flags, pc, pass, ready, cleared, runs>>

\* An exception goes through run(), which has no finally.
CallbackThrows ==
    /\ Throws
    /\ callback # None
    /\ callback' = None
    /\ LeaveTo("out")
    /\ UNCHANGED <<events, flags, ready, cleared, runs>>

Loop ==
    \/ EndLoop
    \/ CallSelect
    \/ SelectFails
    \/ SelectReturns
    \/ \E i \in Ids : CallTimer(i) \/ CallSocket(i)
    \/ EndTime
    \/ EndSockets
    \/ CallbackReturns

-----------------------------------------------------------------------------
(* The host.                                                               *)

Arrive(condition) ==
    /\ ready' = ready \cup {condition}
    /\ UNCHANGED <<events, flags, pc, callback, pass, cleared, runs>>

Before(n) == IF n = 0 THEN 0 ELSE n - 1

\* A lag longer than every period makes no difference.
Tick ==
    /\ time' = [i \in Ids |->
                   IF i \in Timers THEN [time[i] EXCEPT !.due = Before(@)] ELSE None]
    /\ wait' = IF wait = None THEN None ELSE Before(wait)
    /\ lag' = IF pc = "time" /\ \E d \in Delays : lag < d THEN lag + 1 ELSE lag
    /\ UNCHANGED <<socket, eventCount, lastId, flags, pc, callback, todo, selected,
                   ready, cleared, runs>>

Next ==
    \/ Script
    \/ \E m \in MaxTimes : Run(m)
    \/ Loop
    \/ CallbackThrows
    \/ \E c \in Conditions : Arrive(c)
    \/ Tick

Spec == Init /\ [][Next]_vars

\* The thread in run() goes on, callbacks return, and time passes.
FairSpec == Spec /\ WF_vars(Loop) /\ WF_vars(Tick)

-----------------------------------------------------------------------------
(* Properties.                                                             *)

TypeOK ==
    /\ time \in [Ids -> TimerRecords \cup {None}]
    /\ socket \in [Ids -> Conditions \cup {None}]
    /\ eventCount \in Nat
    /\ lastId \in 0 .. MaxIds
    /\ running \in BOOLEAN /\ aborted \in BOOLEAN
    /\ pc \in {"out", "loop", "select", "time", "sockets"}
    /\ callback \in Ids \cup {None}
    /\ todo \subseteq Ids
    /\ wait \in Nat \cup {None}
    /\ selected \subseteq Conditions /\ ready \subseteq Conditions
    /\ lag \in Nat
    /\ cleared \subseteq Ids
    /\ runs \in 0 .. MaxRuns

\* eventCount, which decides whether run() goes on (eventloop.js:82), is the number
\* of events there are, however they are added, cleared twice, cleared from their
\* own callback or cleared by socket.
CountExact == eventCount = Cardinality(Timers) + Cardinality(Listeners)

\* A callback that was cleared is not called any more, when it is cleared by an
\* earlier callback of the same pass either (the for-in of eventloop.js:41 and 56).
ClearedNotCalled ==
    [][callback' \notin {None, callback} => callback' \notin cleared]_vars

\* A timer of a run that goes on is called or cleared: sockets that are always
\* ready do not starve it.  A run that is left, by a failing select for instance, is
\* over; and a timer that another fiber sets during select would wait for its return.
TimersServed ==
    \A i \in Ids :
        i \in Timers /\ pc # "out" ~> callback = i \/ i \notin Timers \/ pc = "out"

\* A listener whose socket is ready is called, and not starved by timers that are
\* always due.
ListenersServed ==
    \A i \in Ids :
        i \in Listeners /\ socket[i] \in ready /\ pc # "out" ~>
            callback = i \/ i \notin Listeners \/ socket[i] \notin ready \/ pc = "out"

=============================================================================
