-------------------------- MODULE EventLoopProofs --------------------------
(***************************************************************************)
(* Proofs about EventLoop, for any sockets, delays and numbers of events   *)
(* and runs.  The count of events is a number of ids, so the lemmas on     *)
(* tables say what becomes of the ids that are present.  The last part is   *)
(* about sleep: run() neither oversleeps an event nor forgets one.         *)
(***************************************************************************)
EXTENDS EventLoop, FiniteSetTheorems, WellFoundedInduction, TLAPS

\* The ids of a table that are taken.
Present(table) == {i \in Ids : table[i] # None}

Size(table) == Cardinality(Present(table))

\* Ids are given in order and only once: none that was cleared is taken again, and
\* none is a timer and a listener.
IdsInv ==
    /\ \A i \in Ids : time[i] # None \/ socket[i] # None => i < lastId /\ i \notin cleared
    /\ \A i \in cleared : i < lastId
    /\ \A i \in Ids : time[i] = None \/ socket[i] = None

EventTypes ==
    /\ time \in [Ids -> TimerRecords \cup {None}]
    /\ socket \in [Ids -> Conditions \cup {None}]
    /\ eventCount \in Nat /\ lastId \in 0 .. MaxIds /\ cleared \subseteq Ids

EventsInv == EventTypes /\ CountExact /\ IdsInv

Inv == TypeOK /\ CountExact /\ IdsInv
-----------------------------------------------------------------------------
(* Tables.                                                                 *)

LEMMA FiniteTable ==
    ASSUME NEW table
    PROVE  IsFiniteSet(Present(table)) /\ Size(table) \in Nat
PROOF
  <1>1. IsFiniteSet(Ids)
    BY EventLoopConstants, FS_Interval DEF Ids
  <1>2. Present(table) \subseteq Ids
    BY DEF Present
  <1> QED
    BY <1>1, <1>2, FS_Subset, FS_CardinalityType DEF Size

LEMMA Added ==
    ASSUME NEW table, DOMAIN table = Ids, NEW i \in Ids, table[i] = None,
           NEW entry, entry # None
    PROVE  Size([table EXCEPT ![i] = entry]) = Size(table) + 1
PROOF
  <1> DEFINE after == [table EXCEPT ![i] = entry]
  <1>1. Present(after) = Present(table) \cup {i}
    BY DEF Present
  <1>2. i \notin Present(table)
    BY DEF Present
  <1> HIDE DEF after
  <1>3. Cardinality(Present(table) \cup {i}) = Cardinality(Present(table)) + 1
    BY <1>2, FiniteTable, FS_AddElement
  <1> QED
    BY <1>1, <1>3 DEF Size, after

LEMMA Moved ==
    ASSUME NEW table, DOMAIN table = Ids, NEW i \in Ids, table[i] # None,
           NEW entry, entry # None
    PROVE  Size([table EXCEPT ![i] = entry]) = Size(table)
PROOF
  <1>1. Present([table EXCEPT ![i] = entry]) = Present(table)
    BY DEF Present
  <1> QED
    BY <1>1 DEF Size

\* Deleting ids, present or not, takes off as many as are counted.
LEMMA Removed ==
    ASSUME NEW table, NEW gone \in SUBSET Ids
    PROVE  /\ Counted(table, gone) \in Nat
           /\ Size(Without(table, gone)) = Size(table) - Counted(table, gone)
PROOF
  <1> DEFINE off == {i \in gone : table[i] # None}
  <1>1. off \subseteq Present(table)
    BY DEF Present
  <1>2. Present(Without(table, gone)) = Present(table) \ off
    BY DEF Present, Without
  <1>3. Counted(table, gone) = Cardinality(off)
    BY DEF Counted
  <1> HIDE DEF off
  <1>4. IsFiniteSet(off) /\ Cardinality(off) \in Nat
    BY <1>1, FiniteTable, FS_Subset, FS_CardinalityType
  <1>5. Present(table) \cap off = off
    BY <1>1
  <1>6. Cardinality(Present(table) \ off)
           = Cardinality(Present(table)) - Cardinality(Present(table) \cap off)
    BY <1>4, FiniteTable, FS_Difference
  <1> QED
    BY <1>2, <1>3, <1>4, <1>5, <1>6 DEF Size
-----------------------------------------------------------------------------
LEMMA Sizes ==
    /\ CountExact <=> eventCount = Size(time) + Size(socket)
    /\ Size(time) \in Nat /\ Size(socket) \in Nat
PROOF
  <1>1. Timers = Present(time) /\ Listeners = Present(socket)
    BY DEF Timers, Listeners, Present
  <1> QED
    BY <1>1, FiniteTable DEF CountExact, Size

LEMMA Nothing == None \notin Nat /\ None \notin Conditions /\ None \notin TimerRecords
PROOF
  BY EventLoopConstants

\* The id that a listener gets is free.
LEMMA FreeId ==
    ASSUME EventsInv, NewId
    PROVE  /\ lastId \in Ids /\ lastId \in Nat /\ lastId + 1 \in 0 .. MaxIds
           /\ time[lastId] = None /\ socket[lastId] = None /\ lastId \notin cleared
           /\ \A i \in Ids : i < lastId + 1 <=> i < lastId \/ i = lastId
PROOF
  <1>1. lastId \in Nat /\ MaxIds \in Nat /\ lastId < MaxIds
    BY EventLoopConstants DEF EventsInv, EventTypes, NewId
  <1>2. lastId \in Ids
    BY <1>1 DEF Ids
  <1> QED
    BY <1>1, <1>2 DEF EventsInv, IdsInv, Ids

LEMMA TimerAdded ==
    ASSUME EventsInv, NEW delay \in Nat, NEW repeat \in BOOLEAN, NEW abort \in BOOLEAN,
           repeat => delay \in Delays, addTimeListener(delay, repeat, abort),
           UNCHANGED <<socket, cleared>>
    PROVE  EventsInv'
PROOF
  <1> DEFINE entry == [due |-> delay, repeat |-> IF repeat THEN delay ELSE -1,
                       abort |-> abort]
  <1>1. NewId /\ time' = [time EXCEPT ![lastId] = entry]
    BY DEF addTimeListener
  <1>2. entry \in TimerRecords
    BY DEF TimerRecords
  <1>3. entry # None
    BY <1>2, Nothing
  <1> HIDE DEF entry
  <1>4. DOMAIN time = Ids /\ eventCount \in Nat /\ eventCount' = eventCount + 1
        /\ lastId' = lastId + 1
    BY <1>1 DEF EventsInv, EventTypes, NewId
  <1>5. EventTypes'
    BY <1>1, <1>2, <1>4, FreeId DEF EventsInv, EventTypes
  <1>6. CountExact'
    <2>1. Size(time') = Size(time) + 1
      BY <1>1, <1>3, <1>4, FreeId, Added
    <2>2. eventCount = Size(time) + Size(socket)
      BY Sizes DEF EventsInv
    <2>3. Size(time) \in Nat /\ Size(socket) \in Nat /\ Size(socket') = Size(socket)
      BY Sizes
    <2>4. eventCount' = Size(time') + Size(socket')
      BY <1>4, <2>1, <2>2, <2>3
    <2>5. Timers' = Present(time') /\ Listeners' = Present(socket')
      BY DEF Timers, Listeners, Present
    <2> QED
      BY <2>4, <2>5 DEF CountExact, Size
  <1>7. IdsInv'
    <2>1. \A i \in Ids : i # lastId => time'[i] = time[i]
      BY <1>1, <1>4
    <2>2. \A i \in cleared : i \in Ids
      BY DEF EventsInv, EventTypes
    <2> QED
      BY <1>1, <1>4, <2>1, <2>2, FreeId DEF EventsInv, IdsInv
  <1> QED
    BY <1>5, <1>6, <1>7 DEF EventsInv

LEMMA ListenerAdded ==
    ASSUME EventsInv, NEW condition \in Conditions, AddSocketListener(condition)
    PROVE  EventsInv'
PROOF
  <1>1. NewId /\ socket' = [socket EXCEPT ![lastId] = condition]
        /\ UNCHANGED <<time, cleared>>
    BY DEF AddSocketListener
  <1>2. condition # None
    BY Nothing
  <1>3. DOMAIN socket = Ids /\ eventCount \in Nat /\ eventCount' = eventCount + 1
        /\ lastId' = lastId + 1
    BY <1>1 DEF EventsInv, EventTypes, NewId
  <1>4. EventTypes'
    BY <1>1, <1>3, FreeId DEF EventsInv, EventTypes
  <1>5. CountExact'
    <2>1. Size(socket') = Size(socket) + 1
      BY <1>1, <1>2, <1>3, FreeId, Added
    <2>2. eventCount = Size(time) + Size(socket)
      BY Sizes DEF EventsInv
    <2>3. Size(time) \in Nat /\ Size(socket) \in Nat /\ Size(time') = Size(time)
      BY <1>1, Sizes
    <2>4. eventCount' = Size(time') + Size(socket')
      BY <1>3, <2>1, <2>2, <2>3
    <2>5. Timers' = Present(time') /\ Listeners' = Present(socket')
      BY DEF Timers, Listeners, Present
    <2> QED
      BY <2>4, <2>5 DEF CountExact, Size
  <1>6. IdsInv'
    <2>1. \A i \in Ids : i # lastId => socket'[i] = socket[i]
      BY <1>1, <1>3
    <2>2. \A i \in cleared : i \in Ids
      BY DEF EventsInv, EventTypes
    <2> QED
      BY <1>1, <1>3, <2>1, <2>2, FreeId DEF EventsInv, IdsInv
  <1> QED
    BY <1>4, <1>5, <1>6 DEF EventsInv

\* What is deleted is counted off, whether it was there or not.
LEMMA Deleted ==
    ASSUME EventsInv, NEW gone \in SUBSET Ids, NEW gone2 \in SUBSET Ids,
           time' = Without(time, gone), socket' = Without(socket, gone2),
           eventCount' = eventCount - (Counted(time, gone) + Counted(socket, gone2)),
           lastId' = lastId,
           \/ cleared' = cleared
           \/ cleared' = cleared \cup (gone \cap Timers) \cup (gone2 \cap Listeners)
    PROVE  EventsInv'
PROOF
  <1>1. /\ Counted(time, gone) \in Nat /\ Counted(socket, gone2) \in Nat
        /\ Size(time') = Size(time) - Counted(time, gone)
        /\ Size(socket') = Size(socket) - Counted(socket, gone2)
    BY Removed
  <1>2. /\ Size(time) \in Nat /\ Size(socket) \in Nat
        /\ Size(time') \in Nat /\ Size(socket') \in Nat
        /\ eventCount = Size(time) + Size(socket)
    BY Sizes, FiniteTable DEF EventsInv
  <1>3. eventCount' = Size(time') + Size(socket') /\ eventCount' \in Nat
    BY <1>1, <1>2
  <1>4. CountExact'
    <2>1. Timers' = Present(time') /\ Listeners' = Present(socket')
      BY DEF Timers, Listeners, Present
    <2> QED
      BY <1>3, <2>1 DEF CountExact, Size
  <1>5. cleared' \subseteq Ids
    BY DEF EventsInv, EventTypes
  <1>6. EventTypes'
    BY <1>3, <1>5 DEF EventsInv, EventTypes, Without
  <1>7. \A i \in Ids : /\ time'[i] = IF i \in gone THEN None ELSE time[i]
                       /\ socket'[i] = IF i \in gone2 THEN None ELSE socket[i]
    BY DEF Without
  <1>8. IdsInv'
    <2>1. \A i \in Ids : time'[i] # None \/ socket'[i] # None =>
             i < lastId /\ i \notin cleared'
      BY <1>7 DEF EventsInv, IdsInv, Timers, Listeners
    <2>2. \A i \in cleared' : i < lastId
      BY DEF EventsInv, IdsInv, Timers, Listeners
    <2>3. \A i \in Ids : time'[i] = None \/ socket'[i] = None
      BY <1>7 DEF EventsInv, IdsInv
    <2> QED
      BY <2>1, <2>2, <2>3 DEF IdsInv
  <1> QED
    BY <1>4, <1>6, <1>8 DEF EventsInv

-----------------------------------------------------------------------------
(* The steps.                                                              *)

FlagTypes == running \in BOOLEAN /\ aborted \in BOOLEAN
PlaceTypes ==
    /\ pc \in {"out", "loop", "select", "time", "sockets"}
    /\ callback \in Ids \cup {None}
    /\ todo \subseteq Ids
    /\ wait \in Nat \cup {None}
    /\ selected \subseteq Conditions /\ ready \subseteq Conditions
    /\ lag \in Nat
    /\ runs \in 0 .. MaxRuns

RestTypes == FlagTypes /\ PlaceTypes

LEMMA Parts ==
    /\ Inv <=> EventsInv /\ RestTypes
    /\ EventsInv' /\ RestTypes' => Inv'
PROOF
  BY DEF Inv, EventsInv, EventTypes, RestTypes, FlagTypes, PlaceTypes, TypeOK

LEMMA Initially == Init => Inv
PROOF
  <1> SUFFICES ASSUME Init  PROVE EventsInv /\ RestTypes
    BY Parts
  <1>1. EventTypes /\ IdsInv
    BY EventLoopConstants DEF Init, EventTypes, IdsInv, Ids
  <1>2. RestTypes
    <2>1. FlagTypes
      BY DEF Init, FlagTypes
    <2>2. PlaceTypes
      BY EventLoopConstants DEF Init, PlaceTypes
    <2> QED
      BY <2>1, <2>2 DEF RestTypes
  <1>3. CountExact
    <2>1. Timers = {} /\ Listeners = {}
      BY DEF Init, Timers, Listeners
    <2>2. Cardinality({}) = 0
      BY FS_EmptySet
    <2> QED
      BY <2>1, <2>2 DEF Init, CountExact
  <1> QED
    BY <1>1, <1>2, <1>3 DEF EventsInv

\* A step that changes no event.
LEMMA SameEvents ==
    ASSUME EventsInv, UNCHANGED <<events, cleared>>
    PROVE  EventsInv'
PROOF
  <1>1. UNCHANGED <<time, socket, eventCount, lastId, cleared>>
    BY DEF events
  <1> QED
    BY <1>1 DEF EventsInv, EventTypes, CountExact, IdsInv, Timers, Listeners

LEMMA NoneGone == \A table : Counted(table, {}) = 0
PROOF
  <1> SUFFICES ASSUME NEW table  PROVE Counted(table, {}) = 0
    OBVIOUS
  <1>1. {i \in {} : table[i] # None} = {}
    OBVIOUS
  <1> QED
    BY <1>1, FS_EmptySet DEF Counted

LEMMA NoneTaken ==
    ASSUME NEW table, NEW S, table \in [Ids -> S]
    PROVE  Without(table, {}) = table
PROOF
  BY DEF Without

LEMMA ClearTimerKeeps ==
    ASSUME EventsInv, NEW i \in Ids, ClearTimer(i)
    PROVE  EventsInv'
PROOF
  <1> DEFINE gone == {i}
  <1>1. gone \in SUBSET Ids /\ {} \in SUBSET Ids
    OBVIOUS
  <1>2. /\ time' = Without(time, gone) /\ eventCount' = eventCount - Counted(time, gone)
        /\ cleared' = cleared \cup (gone \cap Timers) /\ socket' = socket /\ lastId' = lastId
    BY DEF ClearTimer
  <1> HIDE DEF gone
  <1>3. socket' = Without(socket, {}) /\ Counted(socket, {}) = 0
    BY <1>2, NoneGone, NoneTaken DEF EventsInv, EventTypes
  <1>4. eventCount' = eventCount - (Counted(time, gone) + Counted(socket, {}))
    BY <1>1, <1>2, <1>3, Removed
  <1>5. cleared' = cleared \cup (gone \cap Timers) \cup ({} \cap Listeners)
    BY <1>2
  <1> QED
    BY <1>1, <1>2, <1>3, <1>4, <1>5, Deleted

LEMMA ClearSocketKeeps ==
    ASSUME EventsInv, NEW gone \in SUBSET Ids, ClearSocket(gone)
    PROVE  EventsInv'
PROOF
  <1>1. /\ socket' = Without(socket, gone) /\ eventCount' = eventCount - Counted(socket, gone)
        /\ cleared' = cleared \cup (gone \cap Listeners) /\ time' = time /\ lastId' = lastId
    BY DEF ClearSocket
  <1>2. time' = Without(time, {}) /\ Counted(time, {}) = 0 /\ {} \in SUBSET Ids
    BY <1>1, NoneGone, NoneTaken DEF EventsInv, EventTypes
  <1>3. eventCount' = eventCount - (Counted(time, {}) + Counted(socket, gone))
    BY <1>1, <1>2, Removed
  <1>4. cleared' = cleared \cup ({} \cap Timers) \cup (gone \cap Listeners)
    BY <1>1
  <1> QED
    BY <1>1, <1>2, <1>3, <1>4, Deleted

LEMMA ScriptKeeps ==
    ASSUME Inv, Script
    PROVE  Inv'
PROOF
  <1>1. EventsInv /\ RestTypes /\ UNCHANGED <<running, pc, callback, pass, runs>>
    BY Parts DEF Script
  <1>2. 0 .. lastId - 1 \subseteq Ids
    BY <1>1, EventLoopConstants DEF EventsInv, EventTypes, Ids
  <1>3. ASSUME aborted' \in BOOLEAN, ready' \subseteq Conditions, EventsInv'
        PROVE  Inv'
    BY <1>1, <1>3, Parts DEF RestTypes, FlagTypes, PlaceTypes, pass
  <1>4. ASSUME NEW d \in Delays, NEW repeat \in BOOLEAN, SetTimer(d, repeat)
        PROVE  Inv'
    <2>1. d \in Nat /\ addTimeListener(d, repeat, FALSE) /\ UNCHANGED <<socket, cleared>>
          /\ UNCHANGED <<aborted, ready>>
      BY <1>4, EventLoopConstants DEF SetTimer
    <2>2. EventsInv'
      BY <1>1, <2>1, TimerAdded
    <2> QED
      BY <1>1, <1>3, <2>1, <2>2 DEF RestTypes, FlagTypes, PlaceTypes
  <1>5. ASSUME NEW c \in Conditions, AddSocketListener(c)
        PROVE  Inv'
    <2>1. UNCHANGED <<aborted, ready>>
      BY <1>5 DEF AddSocketListener
    <2> QED
      BY <1>1, <1>3, <1>5, <2>1, ListenerAdded DEF RestTypes, FlagTypes, PlaceTypes
  <1>6. ASSUME NEW c \in Conditions, UseSocket(c)
        PROVE  Inv'
    <2>1. ready' = ready \ {c} /\ UNCHANGED <<events, aborted, cleared>>
      BY <1>6 DEF UseSocket
    <2> QED
      BY <1>1, <1>3, <2>1, SameEvents DEF RestTypes, FlagTypes, PlaceTypes
  <1>7. ASSUME NEW i \in 0 .. lastId - 1, ClearTimer(i)
        PROVE  Inv'
    <2>1. UNCHANGED <<aborted, ready>>
      BY <1>7 DEF ClearTimer
    <2> QED
      BY <1>1, <1>2, <1>3, <1>7, <2>1, ClearTimerKeeps DEF RestTypes, FlagTypes, PlaceTypes
  <1>8. ASSUME NEW gone \in SUBSET Ids, ClearSocket(gone)
        PROVE  Inv'
    <2>1. UNCHANGED <<aborted, ready>>
      BY <1>8 DEF ClearSocket
    <2> QED
      BY <1>1, <1>3, <1>8, <2>1, ClearSocketKeeps DEF RestTypes, FlagTypes, PlaceTypes
  <1>9. ASSUME Abort
        PROVE  Inv'
    <2>1. aborted' = TRUE /\ UNCHANGED <<events, cleared, ready>>
      BY <1>9 DEF Abort
    <2> QED
      BY <1>1, <1>3, <2>1, SameEvents DEF RestTypes, FlagTypes, PlaceTypes
  <1>10. \A s : {i \in Listeners : socket[i][1] = s} \in SUBSET Ids
    BY DEF Listeners
  <1> QED
    BY <1>2, <1>4, <1>5, <1>6, <1>7, <1>8, <1>9, <1>10 DEF Script

LEMMA RunKeeps ==
    ASSUME Inv, NEW maxTime \in MaxTimes, Run(maxTime)
    PROVE  Inv'
PROOF
  <1>1. EventsInv /\ RestTypes
    BY Parts
  <1>2. /\ runs < MaxRuns /\ runs' = runs + 1 /\ running' = TRUE /\ aborted' = FALSE
        /\ pc' = "loop" /\ UNCHANGED <<socket, callback, pass, ready, cleared>>
    BY DEF Run
  <1>3. RestTypes'
    <2>1. runs' \in 0 .. MaxRuns
      BY <1>1, <1>2, EventLoopConstants DEF RestTypes, FlagTypes, PlaceTypes
    <2> QED
      BY <1>1, <1>2, <2>1 DEF RestTypes, FlagTypes, PlaceTypes, pass
  <1>4. CASE maxTime = 0
    <2>1. UNCHANGED <<events, cleared>>
      BY <1>2, <1>4 DEF Run, events
    <2> QED
      BY <1>1, <1>3, <2>1, SameEvents, Parts
  <1>5. CASE maxTime # 0
    <2>1. addTimeListener(maxTime, FALSE, TRUE) /\ maxTime \in Nat
      BY <1>5, EventLoopConstants DEF Run
    <2>2. EventsInv'
      BY <1>1, <1>2, <2>1, TimerAdded
    <2> QED
      BY <1>3, <2>2, Parts
  <1> QED
    BY <1>4, <1>5

\* The parts of the loop that change no event.
LEMMA PassKeeps ==
    ASSUME Inv, \/ EndLoop \/ CallSelect \/ SelectFails \/ SelectReturns
                \/ EndTime \/ EndSockets \/ CallbackReturns \/ CallbackThrows
                \/ \E i \in Ids : CallSocket(i)
                \/ \E c \in Conditions : Arrive(c)
    PROVE  Inv'
PROOF
  <1>1. EventsInv /\ RestTypes
    BY Parts
  <1>2. UNCHANGED <<events, cleared>>
    BY DEF EndLoop, CallSelect, SelectFails, SelectReturns, EndTime, EndSockets,
           CallbackReturns, CallbackThrows, CallSocket, Arrive, LeaveTo
  <1>3. Timers \subseteq Ids /\ Listeners \subseteq Ids
    BY DEF Timers, Listeners
  <1>4. ASSUME EndLoop  PROVE RestTypes'
    <2>1. FlagTypes'
      BY <1>1, <1>4, Zenon DEF EndLoop, LeaveTo, RestTypes, FlagTypes
    <2>2. PlaceTypes'
      BY <1>1, <1>4 DEF EndLoop, LeaveTo, RestTypes, PlaceTypes
    <2> QED
      BY <2>1, <2>2 DEF RestTypes
  <1>5. ASSUME CallSelect  PROVE RestTypes'
    <2>1. UNCHANGED <<running, aborted, callback, todo, selected, lag, ready, runs>>
      BY <1>5 DEF CallSelect, flags
    <2>2. pc' = "select"
      BY <1>5 DEF CallSelect
    <2>3. wait' \in Nat \cup {None}
      <3>1. ASSUME NEW n \in Nat, Int32(n) >= 0  PROVE Int32(n) \in Nat
        BY <3>1, EventLoopConstants DEF Int32
      <3>2. \A i \in Timers : time[i].due \in Nat
        BY <1>1 DEF EventsInv, EventTypes, Timers, TimerRecords
      <3> QED
        BY <1>5, <3>1, <3>2 DEF CallSelect, Closest
    <2>4. FlagTypes'
      BY <1>1, <2>1, Zenon DEF RestTypes, FlagTypes
    <2>5. PlaceTypes'
      BY <1>1, <2>1, <2>2, <2>3 DEF RestTypes, PlaceTypes
    <2> QED
      BY <2>4, <2>5 DEF RestTypes
  <1>6. ASSUME SelectReturns  PROVE RestTypes'
    <2>1. selected' \subseteq Conditions /\ todo' \subseteq Ids
      BY <1>1, <1>3, <1>6 DEF SelectReturns, RestTypes, FlagTypes, PlaceTypes, Due
    <2>2. FlagTypes'
      BY <1>1, <1>6, Zenon DEF SelectReturns, RestTypes, FlagTypes, flags
    <2>3. PlaceTypes'
      BY <1>1, <1>6, <2>1 DEF SelectReturns, RestTypes, PlaceTypes
    <2> QED
      BY <2>2, <2>3 DEF RestTypes
  <1>7. ASSUME EndTime  PROVE RestTypes'
    <2>1. FlagTypes'
      BY <1>1, <1>7, Zenon DEF EndTime, LeaveTo, flags, RestTypes, FlagTypes
    <2>2. PlaceTypes'
      BY <1>1, <1>3, <1>7 DEF EndTime, LeaveTo, flags, RestTypes, PlaceTypes
    <2> QED
      BY <2>1, <2>2 DEF RestTypes
  <1>8. ASSUME EndSockets  PROVE RestTypes'
    <2>1. FlagTypes'
      BY <1>1, <1>8, Zenon DEF EndSockets, LeaveTo, flags, RestTypes, FlagTypes
    <2>2. PlaceTypes'
      BY <1>1, <1>8 DEF EndSockets, LeaveTo, flags, RestTypes, PlaceTypes
    <2> QED
      BY <2>1, <2>2 DEF RestTypes
  <1>9. ASSUME CallbackReturns  PROVE RestTypes'
    <2>1. FlagTypes'
      BY <1>1, <1>9, Zenon DEF CallbackReturns, flags, pass, RestTypes, FlagTypes
    <2>2. PlaceTypes'
      BY <1>1, <1>9 DEF CallbackReturns, flags, pass, RestTypes, PlaceTypes
    <2> QED
      BY <2>1, <2>2 DEF RestTypes
  <1>10. ASSUME CallbackThrows  PROVE RestTypes'
    <2>1. FlagTypes'
      BY <1>1, <1>10, Zenon DEF CallbackThrows, LeaveTo, flags, RestTypes, FlagTypes
    <2>2. PlaceTypes'
      BY <1>1, <1>10 DEF CallbackThrows, LeaveTo, flags, RestTypes, PlaceTypes
    <2> QED
      BY <2>1, <2>2 DEF RestTypes
  <1>11. ASSUME NEW i \in Ids, CallSocket(i)  PROVE RestTypes'
    BY <1>1, <1>11 DEF CallSocket, RestTypes, FlagTypes, PlaceTypes, flags
  <1>12. ASSUME NEW c \in Conditions, Arrive(c)  PROVE RestTypes'
    BY <1>1, <1>12 DEF Arrive, RestTypes, FlagTypes, PlaceTypes, flags, pass
  <1>13. ASSUME SelectFails  PROVE RestTypes'
    <2>1. FlagTypes'
      BY <1>1, <1>13, Zenon DEF SelectFails, LeaveTo, RestTypes, FlagTypes
    <2>2. PlaceTypes'
      BY <1>1, <1>13 DEF SelectFails, LeaveTo, RestTypes, PlaceTypes
    <2> QED
      BY <2>1, <2>2 DEF RestTypes
  <1>14. RestTypes'
    BY <1>4, <1>5, <1>6, <1>7, <1>8, <1>9, <1>10, <1>11, <1>12, <1>13
  <1> QED
    BY <1>1, <1>2, <1>14, SameEvents, Parts

LEMMA CallTimerKeeps ==
    ASSUME Inv, NEW i \in Ids, CallTimer(i)
    PROVE  Inv' /\ i \in Timers
PROOF
  <1>1. EventsInv /\ RestTypes
    BY Parts
  <1>2. i \in Timers
    BY DEF CallTimer, Visits
  <1>3. UNCHANGED <<socket, lastId, running, pc, wait, selected, lag, ready, cleared, runs>>
        /\ todo' = todo \ {i}
    BY DEF CallTimer
  <1>4. RestTypes'
    BY <1>1, <1>3 DEF CallTimer, RestTypes, FlagTypes, PlaceTypes
  <1>5. CASE time[i].repeat = -1
    <2> DEFINE gone == {i}
    <2>1. time' = Without(time, gone) /\ eventCount' = eventCount - Counted(time, gone)
          /\ gone \in SUBSET Ids
      BY <1>5 DEF CallTimer
    <2> HIDE DEF gone
    <2>2. socket' = Without(socket, {}) /\ Counted(socket, {}) = 0 /\ {} \in SUBSET Ids
      BY <1>1, <1>3, NoneGone, NoneTaken DEF EventsInv, EventTypes
    <2>3. eventCount' = eventCount - (Counted(time, gone) + Counted(socket, {}))
      BY <2>1, <2>2, Removed
    <2>4. EventsInv'
      BY <1>1, <1>3, <2>1, <2>2, <2>3, Deleted
    <2> QED
      BY <1>2, <1>4, <2>4, Parts
  <1>6. CASE time[i].repeat # -1
    <2> DEFINE entry == [time[i] EXCEPT !.due = Left(time[i].repeat)]
    <2>1. time' = [time EXCEPT ![i] = entry] /\ eventCount' = eventCount
      BY <1>6 DEF CallTimer
    <2>2. time[i] \in TimerRecords /\ DOMAIN time = Ids
      BY <1>1, <1>2 DEF EventsInv, EventTypes, Timers
    <2>3. entry \in TimerRecords
      <3>1. time[i].repeat \in Nat /\ lag \in Nat
        BY <1>1, <1>6, <2>2, EventLoopConstants DEF TimerRecords, RestTypes, FlagTypes, PlaceTypes
      <3>2. Left(time[i].repeat) \in Nat
        BY <3>1 DEF Left
      <3> QED
        BY <2>2, <3>2 DEF TimerRecords
    <2> HIDE DEF entry
    <2>4. entry # None /\ time[i] # None
      BY <1>2, <2>3, Nothing DEF Timers
    <2>5. EventTypes'
      BY <1>1, <1>3, <2>1, <2>2, <2>3 DEF EventsInv, EventTypes
    <2>6. CountExact'
      <3>1. Size(time') = Size(time)
        BY <2>1, <2>2, <2>4, Moved
      <3>2. Timers' = Present(time') /\ Listeners' = Present(socket')
        BY DEF Timers, Listeners, Present
      <3>3. eventCount = Size(time) + Size(socket)
        BY <1>1, Sizes DEF EventsInv
      <3> QED
        BY <1>3, <2>1, <3>1, <3>2, <3>3 DEF CountExact, Size
    <2>7. IdsInv'
      <3>1. \A j \in Ids : time'[j] = None <=> time[j] = None
        BY <2>1, <2>2, <2>4
      <3> QED
        BY <1>1, <1>3, <3>1 DEF EventsInv, IdsInv
    <2> QED
      BY <1>2, <1>4, <2>5, <2>6, <2>7, Parts DEF EventsInv
  <1> QED
    BY <1>5, <1>6

LEMMA TickKeeps ==
    ASSUME Inv, Tick
    PROVE  Inv'
PROOF
  <1>1. EventsInv /\ RestTypes
    BY Parts
  <1>2. UNCHANGED <<socket, eventCount, lastId, flags, pc, callback, todo, selected,
                    ready, cleared, runs>>
    BY DEF Tick
  <1>3. \A n \in Nat : Before(n) \in Nat
    BY DEF Before
  <1>4. \A i \in Ids : time'[i] = IF time[i] # None
                                  THEN [time[i] EXCEPT !.due = Before(@)] ELSE None
    BY DEF Tick, Timers
  <1>5. \A i \in Ids : time[i] # None => time'[i] \in TimerRecords /\ time'[i] # None
    <2> SUFFICES ASSUME NEW i \in Ids, time[i] # None
                 PROVE  time'[i] \in TimerRecords /\ time'[i] # None
      OBVIOUS
    <2>1. time[i] \in TimerRecords
      BY <1>1 DEF EventsInv, EventTypes
    <2>2. time'[i] \in TimerRecords
      BY <1>3, <1>4, <2>1 DEF TimerRecords
    <2> QED
      BY <2>2, Nothing
  <1>6. EventTypes'
    <2>1. time' \in [Ids -> TimerRecords \cup {None}]
      BY <1>4, <1>5 DEF Tick
    <2> QED
      BY <1>1, <1>2, <2>1 DEF EventsInv, EventTypes
  <1>7. \A i \in Ids : time'[i] = None <=> time[i] = None
    BY <1>4, <1>5
  <1>8. CountExact'
    <2>1. Timers' = Timers /\ Listeners' = Listeners
      BY <1>2, <1>7 DEF Timers, Listeners
    <2> QED
      BY <1>1, <1>2, <2>1 DEF EventsInv, CountExact
  <1>9. IdsInv'
    BY <1>1, <1>2, <1>7 DEF EventsInv, IdsInv
  <1>10. RestTypes'
    <2>1. wait' \in Nat \cup {None}
      BY <1>1, <1>3 DEF Tick, RestTypes, FlagTypes, PlaceTypes
    <2>2. lag' \in Nat
      BY <1>1 DEF Tick, RestTypes, FlagTypes, PlaceTypes
    <2> QED
      BY <1>1, <1>2, <2>1, <2>2 DEF RestTypes, FlagTypes, PlaceTypes, flags
  <1> QED
    BY <1>6, <1>8, <1>9, <1>10, Parts DEF EventsInv

LEMMA StepKeeps == Inv /\ [Next]_vars => Inv'
PROOF
  <1> SUFFICES ASSUME Inv, [Next]_vars  PROVE Inv'
    OBVIOUS
  <1>1. CASE Script
    BY <1>1, ScriptKeeps
  <1>2. ASSUME NEW m \in MaxTimes, Run(m)  PROVE Inv'
    BY <1>2, RunKeeps
  <1>3. CASE Loop
    BY <1>3, PassKeeps, CallTimerKeeps DEF Loop
  <1>4. CASE CallbackThrows \/ \E c \in Conditions : Arrive(c)
    BY <1>4, PassKeeps
  <1>5. CASE Tick
    BY <1>5, TickKeeps
  <1>6. CASE UNCHANGED vars
    <2>1. UNCHANGED <<events, cleared>> /\ UNCHANGED <<running, aborted, pc, callback, todo,
             wait, selected, lag, ready, runs>>
      BY <1>6 DEF vars, events, flags, pass
    <2> QED
      BY <2>1, SameEvents, Parts DEF RestTypes, FlagTypes, PlaceTypes
  <1> QED
    BY <1>1, <1>2, <1>3, <1>4, <1>5, <1>6 DEF Next

LEMMA Invariant == Spec => []Inv
PROOF
  BY Initially, StepKeeps, PTL DEF Spec
-----------------------------------------------------------------------------
\* The tables and the state of run() keep their types; the count is never negative and
\* the timeout given to select never is.
THEOREM TypeCorrect == Spec => []TypeOK
PROOF
  <1>1. Inv => TypeOK
    BY DEF Inv
  <1> QED
    BY <1>1, Invariant, PTL

\* The count that decides whether run() goes on is the number of events, whatever
\* scripts and callbacks add, clear, clear twice or leave by an exception.
THEOREM CountIsExact == Spec => []CountExact
PROOF
  <1>1. Inv => CountExact
    BY DEF Inv
  <1> QED
    BY <1>1, Invariant, PTL

\* No callback of a cleared event is called: ids are not given twice, and both loops
\* look into the table again for each.
THEOREM ClearedIsGone == Spec => ClearedNotCalled
PROOF
  <1> DEFINE A == callback' \notin {None, callback} => callback' \notin cleared
  <1>1. ASSUME Inv, Next  PROVE A
    <2> SUFFICES ASSUME callback' \notin {None, callback}  PROVE callback' \notin cleared
      OBVIOUS
    <2>1. PICK i \in Ids : CallTimer(i) \/ CallSocket(i)
      BY <1>1 DEF Next, Script, Run, Loop, EndLoop, CallSelect, SelectFails, LeaveTo,
                  SelectReturns, EndTime, EndSockets, CallbackReturns, CallbackThrows, Arrive, Tick
    <2>2. callback' = i /\ i \in Timers \cup Listeners
      BY <2>1 DEF CallTimer, CallSocket, Visits, ToCall
    <2> QED
      BY <1>1, <2>2 DEF Inv, IdsInv, Timers, Listeners
  <1>2. Inv /\ [Next]_vars => [A]_vars
    BY <1>1
  <1> QED
    BY <1>2, Invariant, PTL DEF Spec, ClearedNotCalled
-----------------------------------------------------------------------------
(* What TimersServed and ListenersServed need besides fairness: run() does  *)
(* not sleep past a timer, does not drop what is due or ready, and has a    *)
(* step as long as there is such an event.                                  *)

\* select is told to wait for the closest timer at most, and for ever only when there
\* is a listener and no timer.  No script runs meanwhile.
SleepInv ==
    /\ pc \in {"out", "loop", "select"} => callback = None
    /\ \A i \in Timers : time[i].abort => time[i].repeat = -1
    /\ pc = "select" =>
          /\ Timers = {} => wait = None /\ Listeners # {}
          /\ Timers # {} => wait \in Nat
          /\ \A i \in Timers : wait <= time[i].due

\* run() owes the timer a call, in the pass that comes or in this one.
DueOwed(i) ==
    /\ i \in Timers
    /\ \/ pc \in {"loop", "select"} /\ time[i].due = 0
       \/ pc = "time" /\ i \in todo

\* The same for a listener: select has found its socket ready, or will.
ReadyOwed(i) ==
    /\ i \in Listeners
    /\ \/ pc \in {"loop", "select"} /\ socket[i] \in ready
       \/ pc = "time" /\ socket[i] \in selected
       \/ pc = "sockets" /\ socket[i] \in selected /\ i \in todo

\* What is owed stays owed until it is called or cleared, unless the run is left: by an
\* abort, by an exception of a callback, or by a select that fails. What is due makes no
\* select fail: without a listener this is no exception for a timer.
OwedIsKept ==
    \A i \in Ids :
        /\ DueOwed(i) =>
              \/ DueOwed(i)'
              \/ callback' = i \/ i \notin Timers'
              \/ /\ pc' = "out"
                 /\ aborted \/ callback # None \/ (pc = "loop" /\ Listeners # {})
        /\ ReadyOwed(i) =>
              \/ ReadyOwed(i)'
              \/ callback' = i \/ i \notin Listeners'
              \/ pc' = "out" /\ (aborted \/ callback # None \/ pc = "loop")

\* run(), or the callback that it has called, has a step: the guards of Loop.
LoopGoesOn ==
    \/ callback # None
    \/ pc = "loop"
    \/ pc = "select" /\ (Watched \cap ready # {} \/ wait = 0)
    \/ pc = "time" /\ (todo \cap Timers = {} \/ \E i \in Ids : Visits(i, todo \cap Timers))
    \/ pc = "sockets" /\ (ToCall = {} \/ \E i \in Ids : Visits(i, ToCall))

OwedGoesOn == (\E i \in Ids : DueOwed(i) \/ ReadyOwed(i)) => LoopGoesOn

LEMMA LeastId ==
    ASSUME NEW T, T \subseteq Ids, T # {}
    PROVE  \E i \in Ids : Visits(i, T)
PROOF
  <1>1. T \subseteq Nat
    BY EventLoopConstants DEF Ids
  <1>2. PICK n \in T : \A m \in T : ~ (<<m, n>> \in OpToRel(<, Nat))
    BY <1>1, NatLessThanWellFounded, WFMin
  <1>3. ASSUME NEW m \in T  PROVE n <= m
    <2>1. m \in Nat /\ n \in Nat
      BY <1>1
    <2>2. ~ (<<m, n>> \in OpToRel(<, Nat))
      BY <1>2
    <2>3. ~ (m < n)
      BY <2>1, <2>2 DEF OpToRel
    <2> QED
      BY <2>1, <2>3
  <1> QED
    BY <1>3 DEF Visits

LEMMA Int32Facts ==
    /\ \A n \in Nat : Int32(n) \in Int /\ Int32(n) <= n
    /\ Int32(0) = 0
PROOF
  <1>0. Word \in Nat \ {0} /\ Word % 2 = 0
    BY EventLoopConstants
  <1>1. ASSUME NEW n \in Nat  PROVE n % Word \in 0 .. Word - 1 /\ n % Word <= n
    <2> DEFINE q == n \div Word
               r == n % Word
    <2>1. q \in Int /\ r \in 0 .. Word - 1 /\ n = Word * q + r
      BY <1>0
    <2> HIDE DEF q, r
    <2>2. q >= 0
      <3>1. CASE q < 0
        <4>1. Word * q <= Word * (-1)
          BY <1>0, <2>1, <3>1
        <4> QED
          BY <1>0, <2>1, <4>1
      <3> QED
        BY <2>1, <3>1
    <2>3. Word * q >= 0
      BY <1>0, <2>1, <2>2
    <2>4. r <= n
      BY <1>0, <2>1, <2>3
    <2> QED
      BY <2>1, <2>4 DEF r
  <1>2. 0 % Word = 0
    BY <1>1
  <1>3. 0 < Word \div 2
    BY <1>0
  <1> QED
    BY <1>0, <1>1, <1>2, <1>3 DEF Int32

\* What a script does to the tables: an entry stays, goes, or is new.
LEMMA ScriptTables ==
    ASSUME Inv, Script
    PROVE  /\ UNCHANGED <<pc, callback, todo, wait, selected>>
           /\ pc = "out" \/ callback # None
           /\ \A i \in Ids : \/ time'[i] \in {time[i], None}
                             \/ time[i] = None /\ time'[i].abort = FALSE
           /\ \A i \in Ids : socket'[i] \in {socket[i], None} \/ socket[i] = None
PROOF
  <1>0. EventsInv
    BY Parts
  <1>t. time \in [Ids -> TimerRecords \cup {None}] /\ socket \in [Ids -> Conditions \cup {None}]
    BY <1>0 DEF EventsInv, EventTypes
  <1>1. /\ UNCHANGED <<pc, callback, todo, wait, selected>>
        /\ pc = "out" \/ callback # None
    BY DEF Script, pass
  <1>2. ASSUME NEW d \in Delays, NEW repeat \in BOOLEAN, SetTimer(d, repeat)
        PROVE  /\ \A i \in Ids : \/ time'[i] \in {time[i], None}
                                 \/ time[i] = None /\ time'[i].abort = FALSE
               /\ socket' = socket
    <2>1. NewId
      BY <1>2 DEF SetTimer, addTimeListener
    <2>2. lastId \in Ids /\ time[lastId] = None
      BY <1>0, <2>1, FreeId
    <2> QED
      BY <1>t, <1>2, <2>2 DEF SetTimer, addTimeListener
  <1>3. ASSUME NEW c \in Conditions, AddSocketListener(c)
        PROVE  /\ time' = time
               /\ \A i \in Ids : socket'[i] \in {socket[i], None} \/ socket[i] = None
    <2>1. NewId
      BY <1>3 DEF AddSocketListener
    <2>2. lastId \in Ids /\ socket[lastId] = None
      BY <1>0, <2>1, FreeId
    <2> QED
      BY <1>t, <1>3, <2>2 DEF AddSocketListener
  <1>4. ASSUME NEW i, ClearTimer(i) \/ ClearSocket(i)
        PROVE  \A j \in Ids : time'[j] \in {time[j], None} /\ socket'[j] \in {socket[j], None}
    BY <1>t, <1>4 DEF ClearTimer, ClearSocket, Without
  <1>5. ASSUME Abort \/ \E c \in Conditions : UseSocket(c)
        PROVE  UNCHANGED <<time, socket>>
    BY <1>5 DEF Abort, UseSocket, events
  <1> QED
    BY <1>1, <1>2, <1>3, <1>4, <1>5 DEF Script

LEMMA SleepInit == Init => SleepInv
PROOF
  BY DEF Init, SleepInv, Timers

\* The timeout that is given to select.
LEMMA SleepSelect ==
    ASSUME Inv, SleepInv, CallSelect
    PROVE  SleepInv'
PROOF
  <1>0. EventsInv /\ RestTypes
    BY Parts
  <1>1. /\ pc = "loop" /\ eventCount # 0 /\ ~ aborted
        /\ UNCHANGED <<time, socket, callback>>
    BY DEF CallSelect, events
  <1>2. callback' = None /\ Timers' = Timers /\ Listeners' = Listeners
    BY <1>1 DEF SleepInv, Timers, Listeners
  <1>3. \A i \in Timers : time[i].due \in Nat
    BY <1>0 DEF EventsInv, EventTypes, Timers, TimerRecords
  <1>4. CASE Timers = {} /\ pc' = "select" /\ wait' = None
    <2>1. Listeners # {}
      <3>1. CountExact
        BY DEF Inv
      <3> QED
        BY <1>1, <1>4, <3>1, FS_EmptySet DEF CountExact
    <2> QED
      BY <1>1, <1>2, <1>4, <2>1 DEF SleepInv
  <1>5. ASSUME NEW i \in Ids, Closest(i), Int32(time[i].due) >= 0,
               wait' = Int32(time[i].due), pc' = "select"
        PROVE  SleepInv'
    <2>1. i \in Timers /\ \A j \in Timers : time[i].due <= time[j].due
      BY <1>5 DEF Closest
    <2>2. wait' \in Nat /\ wait' <= time[i].due
      BY <1>3, <1>5, <2>1, Int32Facts
    <2>3. \A j \in Timers : wait' <= time[j].due
      BY <1>3, <2>1, <2>2
    <2> QED
      BY <1>1, <1>2, <1>5, <2>1, <2>2, <2>3 DEF SleepInv
  <1> QED
    BY <1>4, <1>5 DEF CallSelect

LEMMA SleepTick ==
    ASSUME Inv, SleepInv, Tick
    PROVE  SleepInv'
PROOF
  <1>0. EventsInv /\ RestTypes
    BY Parts
  <1>1. UNCHANGED <<socket, pc, callback>>
    BY DEF Tick
  <1>2. \A i \in Ids : time'[i] = IF time[i] # None
                                  THEN [time[i] EXCEPT !.due = Before(@)] ELSE None
    BY DEF Tick, Timers
  <1>3. \A i \in Timers : /\ time[i] \in TimerRecords /\ i \in Ids
                          /\ time'[i].due = Before(time[i].due)
                          /\ time'[i].abort = time[i].abort
                          /\ time'[i].repeat = time[i].repeat
    <2>1. \A i \in Timers : time[i] \in TimerRecords /\ i \in Ids /\ time[i] # None
      BY <1>0 DEF EventsInv, EventTypes, Timers
    <2>2. ASSUME NEW i \in Timers
          PROVE  /\ time'[i].due = Before(time[i].due)
                 /\ time'[i].abort = time[i].abort
                 /\ time'[i].repeat = time[i].repeat
      <3>1. time'[i] = [time[i] EXCEPT !.due = Before(@)]
        BY <1>2, <2>1
      <3>2. time[i] \in TimerRecords
        BY <2>1
      <3> QED
        BY <3>1, <3>2 DEF TimerRecords
    <2> QED
      BY <2>1, <2>2
  <1>4. Timers' = Timers /\ Listeners' = Listeners
    <2>2. \A i \in Timers : time'[i] # None
      <3> SUFFICES ASSUME NEW i \in Timers  PROVE time'[i] # None
        OBVIOUS
      <3>1. time'[i] = [time[i] EXCEPT !.due = Before(@)] /\ time[i] \in TimerRecords
        BY <1>2, <1>3 DEF Timers
      <3>2. time'[i] \in TimerRecords
        BY <3>1 DEF TimerRecords, Before
      <3> QED
        BY <3>2, Nothing
    <2> QED
      BY <1>1, <1>2, <2>2 DEF Timers, Listeners
  <1>5. pc = "select" =>
          /\ Timers = {} => wait' = None /\ Listeners # {}
          /\ Timers # {} => wait' \in Nat
          /\ \A i \in Timers : wait' <= time'[i].due
    <2> SUFFICES ASSUME pc = "select"
                 PROVE  /\ Timers = {} => wait' = None /\ Listeners # {}
                        /\ Timers # {} => wait' \in Nat
                        /\ \A i \in Timers : wait' <= time'[i].due
      OBVIOUS
    <2>1. wait' = IF wait = None THEN None ELSE Before(wait)
      BY DEF Tick
    <2>2. CASE Timers = {}
      BY <2>1, <2>2 DEF SleepInv
    <2>3. CASE Timers # {}
      <3>1. wait \in Nat /\ wait # None
        BY <2>3, Nothing DEF SleepInv
      <3>2. wait' = Before(wait) /\ wait' \in Nat
        BY <2>1, <3>1 DEF Before
      <3>3. ASSUME NEW i \in Timers  PROVE wait' <= time'[i].due
        <4>1. wait <= time[i].due /\ time[i].due \in Nat
          BY <1>3 DEF SleepInv, TimerRecords
        <4>2. time'[i].due = Before(time[i].due)
          BY <1>3
        <4> QED
          BY <3>1, <3>2, <4>1, <4>2 DEF Before
      <3> QED
        BY <2>3, <3>2, <3>3
    <2> QED
      BY <2>2, <2>3
  <1> QED
    BY <1>1, <1>3, <1>4, <1>5 DEF SleepInv

LEMMA SleepCall ==
    ASSUME Inv, SleepInv, NEW i \in Ids, CallTimer(i)
    PROVE  /\ SleepInv'
           /\ pc = "time" /\ pc' = "time" /\ i \in Timers /\ i \in todo
           /\ UNCHANGED <<socket, selected>> /\ todo' = todo \ {i}
           /\ \A j \in Ids \ {i} : time'[j] = time[j]
           /\ callback' = i \/ i \notin Timers'
PROOF
  <1>0. EventsInv /\ RestTypes
    BY Parts
  <1>1. /\ pc = "time" /\ callback = None /\ i \in Timers /\ i \in todo
        /\ UNCHANGED <<socket, selected, pc>> /\ todo' = todo \ {i}
    BY DEF CallTimer, Visits
  <1>2. time \in [Ids -> TimerRecords \cup {None}] /\ time[i] \in TimerRecords
    BY <1>0, <1>1 DEF EventsInv, EventTypes, Timers
  <1>3. CASE time[i].repeat = -1
    <2>1. time'[i] = None /\ \A j \in Ids \ {i} : time'[j] = time[j]
      BY <1>2, <1>3 DEF CallTimer, Without
    <2> QED
      BY <1>1, <2>1 DEF SleepInv, Timers
  <1>4. CASE time[i].repeat # -1
    <2>1. /\ \A j \in Ids \ {i} : time'[j] = time[j]
          /\ time'[i].abort = time[i].abort /\ time'[i].repeat = time[i].repeat
      BY <1>2, <1>4 DEF CallTimer, TimerRecords
    <2>2. ~ time[i].abort
      BY <1>1, <1>4 DEF SleepInv
    <2>3. callback' = i
      BY <2>2 DEF CallTimer
    <2> QED
      BY <1>1, <2>1, <2>2, <2>3 DEF SleepInv, Timers
  <1> QED
    BY <1>3, <1>4

LEMMA SleepStep == Inv /\ SleepInv /\ [Next]_vars => SleepInv'
PROOF
  <1> SUFFICES ASSUME Inv, SleepInv, [Next]_vars  PROVE SleepInv'
    OBVIOUS
  <1>0. EventsInv /\ RestTypes
    BY Parts
  <1>1. CASE Script
    <2>1. pc' = pc /\ callback' = callback /\ pc \notin {"loop", "select"}
      BY <1>1, ScriptTables DEF SleepInv
    <2>2. ASSUME NEW i \in Timers', time'[i].abort  PROVE time'[i].repeat = -1
      <3>1. i \in Ids /\ time'[i] # None
        BY DEF Timers
      <3>2. time'[i] = time[i]
        BY <1>1, <2>2, <3>1, ScriptTables
      <3> QED
        BY <2>2, <3>1, <3>2 DEF SleepInv, Timers
    <2> QED
      BY <2>1, <2>2 DEF SleepInv
  <1>2. ASSUME NEW m \in MaxTimes, Run(m)  PROVE SleepInv'
    <2>1. pc = "out" /\ pc' = "loop" /\ callback' = callback
      BY <1>2 DEF Run
    <2>2. ASSUME NEW i \in Timers', time'[i].abort  PROVE time'[i].repeat = -1
      <3>1. i \in Ids /\ time'[i] # None
        BY DEF Timers
      <3>2. CASE time' = time
        BY <2>2, <3>1, <3>2 DEF SleepInv, Timers
      <3>3. CASE addTimeListener(m, FALSE, TRUE)
        <4>1. lastId \in Ids /\ DOMAIN time = Ids
          BY <1>0, <3>3, FreeId DEF addTimeListener, EventsInv, EventTypes
        <4>2. i = lastId \/ time'[i] = time[i]
          BY <3>1, <3>3, <4>1 DEF addTimeListener
        <4>3. time'[lastId].repeat = -1
          BY <3>3, <4>1 DEF addTimeListener
        <4> QED
          BY <2>2, <3>1, <4>2, <4>3 DEF SleepInv, Timers
      <3> QED
        BY <1>2, <3>2, <3>3 DEF Run
    <2> QED
      BY <2>1, <2>2 DEF SleepInv
  <1>3. CASE CallSelect
    BY <1>3, SleepSelect
  <1>4. CASE Tick
    BY <1>4, SleepTick
  <1>5. ASSUME NEW i \in Ids, CallTimer(i)  PROVE SleepInv'
    BY <1>5, SleepCall
  <1>6. CASE \/ EndLoop \/ SelectFails \/ SelectReturns \/ EndTime \/ EndSockets
             \/ CallbackReturns \/ CallbackThrows
             \/ \E i \in Ids : CallSocket(i)
    <2>1. UNCHANGED <<time, socket>> /\ pc' # "select"
      <3>1. CallbackReturns => pc # "select"
        <4>1. CallbackReturns => callback # None
          BY DEF CallbackReturns
        <4> QED
          BY <4>1 DEF SleepInv
      <3> QED
        BY <1>6, <3>1 DEF EndLoop, SelectFails, SelectReturns, EndTime, EndSockets,
           CallbackReturns, CallbackThrows, CallSocket, LeaveTo, events
    <2>2. pc' \in {"out", "loop"} => callback' = None
      <3>1. EndLoop \/ SelectFails => callback = None
        BY DEF EndLoop, SelectFails, SleepInv
      <3> QED
        BY <1>6, <3>1 DEF EndLoop, SelectFails, SelectReturns, EndTime, EndSockets,
           CallbackReturns, CallbackThrows, CallSocket, LeaveTo
    <2> QED
      BY <2>1, <2>2 DEF SleepInv, Timers
  <1>7. CASE UNCHANGED vars \/ \E c \in Conditions : Arrive(c)
    <2>1. UNCHANGED <<time, socket, pc, callback, wait>>
      BY <1>7 DEF vars, Arrive, events, pass
    <2> QED
      BY <2>1 DEF SleepInv, Timers, Listeners
  <1> QED
    BY <1>1, <1>2, <1>3, <1>4, <1>5, <1>6, <1>7 DEF Next, Loop

LEMMA SleepHolds == Spec => [](Inv /\ SleepInv)
PROOF
  BY Initially, StepKeeps, SleepInit, SleepStep, PTL DEF Spec

\* While anything is due or ready run() has a step: it is not asleep in select for
\* longer than the closest timer, and its passes have an id to visit or end.
THEOREM OwedHasStep == Spec => []OwedGoesOn
PROOF
  <1>1. Inv /\ SleepInv => OwedGoesOn
    <2> SUFFICES ASSUME Inv, SleepInv, NEW i \in Ids, DueOwed(i) \/ ReadyOwed(i)
                 PROVE  LoopGoesOn
      BY DEF OwedGoesOn
    <2>1. pc \in {"loop", "select", "time", "sockets"}
      BY DEF DueOwed, ReadyOwed
    <2>2. CASE pc = "select"
      <3>1. CASE DueOwed(i)
        <4>1. i \in Timers /\ time[i].due = 0
          BY <2>2, <3>1 DEF DueOwed
        <4>2. wait \in Nat /\ wait <= time[i].due
          BY <2>2, <4>1 DEF SleepInv
        <4>3. wait = 0
          BY <4>1, <4>2
        <4> QED
          BY <2>2, <4>3 DEF LoopGoesOn
      <3>2. CASE ReadyOwed(i)
        <4>1. socket[i] \in Watched \cap ready
          BY <2>2, <3>2 DEF ReadyOwed, Watched
        <4> QED
          BY <2>2, <4>1 DEF LoopGoesOn
      <3> QED
        BY <3>1, <3>2
    <2>3. CASE pc = "time"
      BY <2>3, LeastId DEF LoopGoesOn, Timers
    <2>4. CASE pc = "sockets"
      BY <2>4, LeastId DEF LoopGoesOn, ToCall, Listeners
    <2> QED
      BY <2>1, <2>2, <2>3, <2>4 DEF LoopGoesOn
  <1> QED
    BY <1>1, SleepHolds, PTL

\* What is due or ready is not dropped: a timer that is due when the loop comes round,
\* or comes up in a pass, is called in that pass, and so is a listener whose socket is
\* ready, whatever the callbacks before add and clear. The exceptions are an abort, an
\* exception of a callback, and any failure of select: the catch of line 102 leaves run()
\* with its events, for a closed socket as for a timeout that wraps.
THEOREM OwedIsNotDropped == Spec => [][OwedIsKept]_vars
PROOF
  <1>1. ASSUME Inv, SleepInv, Next  PROVE OwedIsKept
    <2>0. EventsInv /\ RestTypes
      BY <1>1, Parts
    <2>1. ASSUME NEW i \in Ids, DueOwed(i)
          PROVE  \/ DueOwed(i)'
                 \/ callback' = i \/ i \notin Timers'
                 \/ /\ pc' = "out"
                    /\ aborted \/ callback # None \/ (pc = "loop" /\ Listeners # {})
      <3>t. /\ i \in Timers /\ time[i] # None /\ time[i] \in TimerRecords
            /\ pc \in {"loop", "select", "time"}
            /\ pc \in {"loop", "select"} => time[i].due = 0
            /\ pc = "time" => i \in todo
        BY <2>0, <2>1 DEF DueOwed, Timers, EventsInv, EventTypes
      <3>1. CASE Script
        <4>1. UNCHANGED <<pc, todo, callback>> /\ callback # None
          BY <1>1, <3>t, <3>1, ScriptTables
        <4>2. pc = "time"
          BY <1>1, <3>t, <4>1 DEF SleepInv
        <4> QED
          BY <3>t, <4>1, <4>2 DEF DueOwed
      <3>2. CASE \E m \in MaxTimes : Run(m)
        BY <3>t, <3>2 DEF Run
      <3>3. CASE EndLoop
        <4>1. eventCount # 0
          <5>1. Timers = Present(time) /\ CountExact
            BY <1>1 DEF Inv, Timers, Present
          <5>2. IsFiniteSet(Present(time))
            BY FiniteTable
          <5>3. Size(time) # 0
            BY <3>t, <5>1, <5>2, FS_EmptySet DEF Size
          <5> QED
            BY <5>1, <5>3, Sizes
        <4> QED
          BY <3>3, <4>1 DEF EndLoop, LeaveTo
      <3>4. CASE CallSelect
        <4>1. UNCHANGED time /\ pc = "loop" /\ time[i].due = 0
          BY <3>t, <3>4 DEF CallSelect, events
        <4>2. pc' = "select"
          BY <3>4 DEF CallSelect
        <4> QED
          BY <3>t, <4>1, <4>2 DEF DueOwed, Timers
      <3>12. CASE SelectFails
        <4>1. ASSUME NEW j \in Ids, Closest(j)  PROVE ~ (Int32(time[j].due) < 0)
          <5>1. j \in Timers /\ time[j].due <= time[i].due
            BY <3>t, <4>1 DEF Closest
          <5>2. time[j].due \in Nat
            BY <2>0, <5>1 DEF EventsInv, EventTypes, Timers, TimerRecords
          <5>3. time[j].due = 0
            BY <3>t, <3>12, <5>1, <5>2 DEF SelectFails
          <5> QED
            BY <5>3, Int32Facts
        <4> QED
          BY <3>12, <4>1 DEF SelectFails, LeaveTo
      <3>5. CASE SelectReturns
        BY <3>t, <3>5 DEF SelectReturns, DueOwed, Due, Timers, events
      <3>6. ASSUME NEW j \in Ids, CallTimer(j)
            PROVE  DueOwed(i)' \/ callback' = i \/ i \notin Timers'
        <4>1. /\ pc' = "time" /\ todo' = todo \ {j} /\ pc = "time"
              /\ \A k \in Ids \ {j} : time'[k] = time[k]
              /\ callback' = j \/ j \notin Timers'
          BY <1>1, <3>6, SleepCall
        <4> QED
          BY <3>t, <4>1 DEF DueOwed, Timers
      <3>7. CASE EndTime
        BY <3>t, <3>7 DEF EndTime
      <3>8. CASE EndSockets \/ \E j \in Ids : CallSocket(j)
        BY <3>t, <3>8 DEF EndSockets, CallSocket
      <3>9. CASE CallbackReturns \/ \E c \in Conditions : Arrive(c)
        <4>1. UNCHANGED <<time, pc, todo>>
          BY <3>9 DEF CallbackReturns, Arrive, events, pass
        <4> QED
          BY <3>t, <4>1 DEF DueOwed, Timers
      <3>10. CASE CallbackThrows
        BY <3>10 DEF CallbackThrows, LeaveTo
      <3>11. CASE Tick
        <4>1. /\ UNCHANGED <<pc, todo>>
              /\ time'[i] = [time[i] EXCEPT !.due = Before(@)]
          BY <3>t, <3>11 DEF Tick, Timers
        <4>2. time'[i] \in TimerRecords /\ (time[i].due = 0 => time'[i].due = 0)
          BY <3>t, <4>1 DEF TimerRecords, Before
        <4>3. time'[i] # None
          BY <4>2, Nothing
        <4> QED
          BY <3>t, <4>1, <4>2, <4>3 DEF DueOwed, Timers
      <3> QED
        BY <1>1, <3>1, <3>2, <3>3, <3>4, <3>5, <3>6, <3>7, <3>8, <3>9, <3>10, <3>11, <3>12
           DEF Next, Loop
    <2>2. ASSUME NEW i \in Ids, ReadyOwed(i)
          PROVE  \/ ReadyOwed(i)'
                 \/ callback' = i \/ i \notin Listeners'
                 \/ pc' = "out" /\ (aborted \/ callback # None \/ pc = "loop")
      <3>t. /\ i \in Listeners /\ socket[i] # None
            /\ pc \in {"loop", "select", "time", "sockets"}
            /\ pc \in {"loop", "select"} => socket[i] \in ready
            /\ pc \in {"time", "sockets"} => socket[i] \in selected
            /\ pc = "sockets" => i \in todo
        BY <2>2 DEF ReadyOwed, Listeners
      <3>1. CASE Script
        <4>1. UNCHANGED <<pc, todo, callback, selected>> /\ callback # None
              /\ socket'[i] \in {socket[i], None}
          BY <1>1, <3>t, <3>1, ScriptTables
        <4>2. pc \in {"time", "sockets"}
          BY <1>1, <3>t, <4>1 DEF SleepInv
        <4> QED
          BY <3>t, <4>1, <4>2 DEF ReadyOwed, Listeners
      <3>2. CASE \E m \in MaxTimes : Run(m)
        BY <3>t, <3>2 DEF Run
      <3>3. CASE EndLoop
        <4>1. eventCount # 0
          <5>1. Listeners = Present(socket) /\ CountExact
            BY <1>1 DEF Inv, Listeners, Present
          <5>2. IsFiniteSet(Present(socket))
            BY FiniteTable
          <5>3. Size(socket) # 0
            BY <3>t, <5>1, <5>2, FS_EmptySet DEF Size
          <5> QED
            BY <5>1, <5>3, Sizes
        <4> QED
          BY <3>3, <4>1 DEF EndLoop, LeaveTo
      <3>4. CASE CallSelect
        <4>1. UNCHANGED <<socket, ready>> /\ pc = "loop"
          BY <3>4 DEF CallSelect, events
        <4>2. pc' = "select"
          BY <3>4 DEF CallSelect
        <4> QED
          BY <3>t, <4>1, <4>2 DEF ReadyOwed, Listeners
      <3>5. CASE SelectReturns
        BY <3>t, <3>5 DEF SelectReturns, ReadyOwed, Watched, Listeners, events
      <3>6. CASE \E j \in Ids : CallTimer(j)
        BY <1>1, <3>t, <3>6, SleepCall DEF ReadyOwed, Listeners
      <3>7. CASE EndTime
        BY <3>t, <3>7 DEF EndTime, HasSockets, ReadyOwed, Listeners, events
      <3>8. ASSUME NEW j \in Ids, CallSocket(j)
            PROVE  ReadyOwed(i)' \/ callback' = i
        BY <3>t, <3>8 DEF CallSocket, ReadyOwed, Listeners, events
      <3>9. CASE EndSockets
        BY <3>t, <3>9 DEF EndSockets, ToCall
      <3>10. CASE CallbackReturns
        BY <3>t, <3>10 DEF CallbackReturns, ReadyOwed, Listeners, events, pass
      <3>11. CASE CallbackThrows
        BY <3>11 DEF CallbackThrows, LeaveTo
      <3>12. CASE Tick \/ \E c \in Conditions : Arrive(c)
        <4>1. UNCHANGED <<socket, pc, todo, selected>> /\ ready \subseteq ready'
          BY <3>12 DEF Tick, Arrive, events, pass
        <4> QED
          BY <3>t, <4>1 DEF ReadyOwed, Listeners
      <3>13. CASE SelectFails
        BY <3>13 DEF SelectFails, LeaveTo
      <3> QED
        BY <1>1, <3>1, <3>2, <3>3, <3>4, <3>5, <3>6, <3>7, <3>8, <3>9, <3>10, <3>11, <3>12,
           <3>13 DEF Next, Loop
    <2> QED
      BY <2>1, <2>2 DEF OwedIsKept
  <1>2. Inv /\ SleepInv /\ [Next]_vars => [OwedIsKept]_vars
    BY <1>1
  <1> QED
    BY <1>2, SleepHolds, PTL DEF Spec
=============================================================================
