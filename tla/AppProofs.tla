----------------------------- MODULE AppProofs -----------------------------
(* What the module loader guarantees for any modules, keys, loads that fail *)
(* and numbers of requests.                                                 *)
EXTENDS App, SequenceTheorems, TLAPS

\* The base of every stack in finish is a callback, all other frames are modules
\* under their own key.
FrameShape ==
    \A i \in 1 .. Len(stack) :
        IF IsModule(stack[i])
        THEN /\ stack[i].key = Key[stack[i].mod] /\ stack[i].obj \in Objects
             /\ stack[i].runs => stack[i].todo # <<>>
        ELSE /\ stack[i].key = None /\ stack[i].runs /\ stack[i].todo = <<>>
             /\ called > 0

\* What has been loaded is not being loaded.
LoadedNotLoading ==
    \A d \in done : \A i \in 1 .. Len(stack) : stack[i].key # d.key

IdleHasNoStack == phase = "idle" => stack = <<>>

LoaderInv ==
    /\ TypeOK
    /\ FrameShape
    /\ LoadingOwnsExports
    /\ LoadedStays
    /\ LoadedNotLoading
    /\ NoStaleExports
    /\ IdleHasNoStack
    /\ CachedIsLoaded

LEMMA Constants ==
    /\ None \notin Modules /\ None \notin Keys /\ None \notin Nat
    /\ \A m \in Modules : Key[m] \in Keys /\ Parts[m] \in Seq({"dso", "js"})
    /\ Config \in Modules /\ Codes \subseteq Nat
    /\ MaxRequests \in Nat /\ MaxLoads \in Nat /\ MaxOnexit \in Nat
  BY AppConstants DEF AppConstants, Keys

LEMMA StackFacts ==
    ASSUME TypeOK
    PROVE  /\ Depth \in Nat
           /\ Depth > 0 => /\ Top \in Frames
                           /\ Pop \in Seq(Frames)
                           /\ Len(Pop) = Depth - 1
                           /\ \A i \in 1 .. Depth - 1 : Pop[i] = stack[i]
  <1>1. stack \in Seq(Frames) /\ Depth = Len(stack)
    BY DEF TypeOK, LoaderTypes, Depth
  <1> HIDE DEF Frames
  <1>2. Depth \in Nat
    BY <1>1
  <1>3. ASSUME Depth > 0  PROVE stack[Depth] \in Frames
    BY <1>1, <1>2, <1>3
  <1>4. ASSUME Depth > 0
        PROVE  /\ Pop \in Seq(Frames) /\ Len(Pop) = Depth - 1
               /\ \A i \in 1 .. Depth - 1 : Pop[i] = stack[i]
    BY <1>1, <1>2, <1>4, SubSeqProperties DEF Pop
  <1> QED
    BY <1>2, <1>3, <1>4 DEF Top

LEMMA LoaderInit == Init => LoaderInv
  <1> SUFFICES ASSUME Init PROVE LoaderInv
    OBVIOUS
  <1>1. stack \in Seq(Frames) /\ onexit \in Seq(1 .. MaxOnexit) /\ ran \in Seq(1 .. MaxOnexit)
    BY EmptySeq DEF Init
  <1>2. called \in 0 .. Len(onexit) /\ first \in 1 .. objects + 1
    BY DEF Init
  <1>3. exports \in [Keys -> Objects \cup {None}]
    BY DEF Init
  <1>4. /\ phase = "idle" /\ outcome = "none" /\ mainfile = None
        /\ done = {} /\ thrown = {} /\ exit_code = 0
        /\ requests = 0 /\ objects = 0 /\ callbacks = 0
    BY DEF Init
  <1>5. TypeOK
    BY <1>1, <1>2, <1>3, <1>4, Constants DEF TypeOK, LoaderTypes, RequestTypes
  <1> QED
    BY <1>5 DEF Init, LoaderInv, FrameShape, LoadingOwnsExports, LoadedStays,
       LoadedNotLoading, NoStaleExports, IdleHasNoStack, CachedIsLoaded

\* A new frame on top of the stack, with exports of its own.
LEMMA BeginLoadKeeps ==
    ASSUME LoaderInv, NEW m \in Modules, ~ Cached(m), BeginLoad(m), phase # "idle",
           UNCHANGED <<phase, mainfile, onexit, called, exit_code,
                       requests, first, done, thrown, callbacks, ran>>,
           outcome' \in {"none", "ok", "error"}
    PROVE  LoaderInv'
  <1> DEFINE frame == [mod |-> m, key |-> Key[m], obj |-> objects + 1,
                       todo |-> Parts[m], runs |-> FALSE]
  <1>t. LoaderTypes /\ RequestTypes
    BY DEF LoaderInv, TypeOK, LoaderTypes
  <1>0. LoaderTypes /\ Key[m] \in Keys /\ objects + 1 \in Objects /\ objects + 1 \in Nat
        /\ frame \in Frames /\ None \notin Keys
    <2>1. LoaderTypes /\ Key[m] \in Keys /\ Parts[m] \in Seq({"dso", "js"}) /\ None \notin Keys
      BY <1>t, Constants
    <2>2. objects + 1 \in Objects /\ objects + 1 \in Nat
      BY <2>1, Constants DEF BeginLoad, LoaderTypes, Objects
    <2> QED
      BY <2>1, <2>2 DEF Frames
  <1>1. /\ stack' = Append(stack, frame)
        /\ stack' \in Seq(Frames) /\ Len(stack') = Len(stack) + 1
        /\ \A i \in 1 .. Len(stack) : stack'[i] = stack[i]
        /\ stack'[Len(stack) + 1] = frame
    <2>1. stack \in Seq(Frames) /\ stack' = Append(stack, frame)
      BY <1>0 DEF LoaderTypes, BeginLoad
    <2> HIDE DEF frame, Frames
    <2> QED
      BY <1>0, <2>1, AppendProperties
  <1>2. exports' = [exports EXCEPT ![Key[m]] = objects + 1] /\ objects' = objects + 1
    BY DEF BeginLoad
  <1>3. exports[Key[m]] = None
    BY DEF Cached
  <1>4. TypeOK'
    <2>1. objects' \in 0 .. MaxLoads /\ first' \in 1 .. objects' + 1
      <3>1. objects < MaxLoads /\ first' = first
        BY DEF BeginLoad
      <3> QED
        BY <1>t, <1>2, <3>1, Constants DEF LoaderTypes
    <2>2. exports' \in [Keys -> Objects \cup {None}]
      BY <1>0, <1>2 DEF LoaderTypes
    <2>3. RequestTypes'
      BY <1>t DEF RequestTypes
    <2>4. stack' \in Seq(Frames) /\ done' = done /\ thrown' = thrown
      BY <1>1
    <2> QED
      BY <1>t, <2>1, <2>2, <2>3, <2>4 DEF TypeOK, LoaderTypes
  <1>5. FrameShape'
    <2> SUFFICES ASSUME NEW i \in 1 .. Len(stack')
                 PROVE  IF stack'[i].mod # None
                        THEN /\ stack'[i].key = Key[stack'[i].mod] /\ stack'[i].obj \in Objects
                             /\ stack'[i].runs => stack'[i].todo # <<>>
                        ELSE /\ stack'[i].key = None /\ stack'[i].runs
                             /\ stack'[i].todo = <<>> /\ called' > 0
      BY DEF FrameShape, IsModule
    <2>1. CASE i = Len(stack) + 1
      BY <1>0, <1>1, <2>1, Constants
    <2>2. CASE i # Len(stack) + 1
      <3>1. i \in 1 .. Len(stack) /\ stack'[i] = stack[i]
        BY <1>0, <1>1, <2>2 DEF LoaderTypes
      <3> QED
        BY <3>1 DEF LoaderInv, FrameShape, IsModule
    <2> QED
      BY <2>1, <2>2
  <1>6. \A i \in 1 .. Len(stack) : stack[i].key # Key[m]
    <2> SUFFICES ASSUME NEW i \in 1 .. Len(stack), stack[i].key = Key[m]  PROVE FALSE
      OBVIOUS
    <2>1. CASE IsModule(stack[i])
      <3>1. exports[stack[i].key] = stack[i].obj /\ stack[i].obj \in Objects
        BY <2>1 DEF LoaderInv, FrameShape, LoadingOwnsExports
      <3> QED
        BY <1>3, <3>1, Constants DEF Objects
    <2>2. CASE ~ IsModule(stack[i])
      BY <2>2, <1>0 DEF LoaderInv, FrameShape
    <2> QED
      BY <2>1, <2>2
  <1>7. LoadingOwnsExports'
    BY <1>0, <1>1, <1>2, <1>6 DEF LoaderInv, LoadingOwnsExports, IsModule, FrameShape, TypeOK, LoaderTypes
  <1>8. \A d \in done : d.key # Key[m]
    <2> SUFFICES ASSUME NEW d \in done, d.key = Key[m]  PROVE FALSE
      OBVIOUS
    <2>1. exports[d.key] = d.obj /\ d.obj \in Objects
      BY DEF LoaderInv, LoadedStays, TypeOK, LoaderTypes
    <2> QED
      BY <1>3, <2>1, Constants DEF Objects
  <1>9. LoadedStays'
    BY <1>2, <1>8, <1>0 DEF LoaderInv, LoadedStays, TypeOK, LoaderTypes
  <1>10. LoadedNotLoading'
    BY <1>0, <1>1, <1>8 DEF LoaderInv, LoadedNotLoading, TypeOK, LoaderTypes
  <1>11. NoStaleExports'
    BY <1>0, <1>2 DEF LoaderInv, NoStaleExports, TypeOK, LoaderTypes
  <1>12. IdleHasNoStack'
    BY DEF IdleHasNoStack
  <1>13. CachedIsLoaded'
    <2> SUFFICES ASSUME NEW k \in Keys, exports'[k] # None
                 PROVE  \/ Loading(k)'
                        \/ \E d \in done' : d.key = k /\ d.obj = exports'[k]
                        \/ exports'[k] \in thrown'
      BY DEF CachedIsLoaded
    <2>1. CASE k = Key[m]
      <3>1. Len(stack') \in 1 .. Len(stack') /\ stack'[Len(stack')].key = k
            /\ stack'[Len(stack')].obj = exports'[k]
        BY <2>1, <1>0, <1>1, <1>2 DEF LoaderTypes
      <3> QED
        BY <3>1 DEF Loading
    <2>2. CASE k # Key[m]
      <3>1. exports'[k] = exports[k]
        BY <1>0, <1>2, <2>2 DEF LoaderTypes
      <3>2. Loading(k) => Loading(k)'
        BY <1>0, <1>1, <3>1 DEF Loading, LoaderTypes
      <3> QED
        BY <3>1, <3>2 DEF LoaderInv, CachedIsLoaded
    <2> QED
      BY <2>1, <2>2
  <1> QED
    BY <1>4, <1>5, <1>7, <1>9, <1>10, <1>11, <1>12, <1>13 DEF LoaderInv

\* What every step that leaves a frame has in common: the frames below stay.
LEMMA PopKeeps ==
    ASSUME LoaderInv, Depth > 0, stack' = Pop, called' = called
    PROVE  /\ stack' \in Seq(Frames) /\ Len(stack') = Len(stack) - 1
           /\ \A i \in 1 .. Len(stack') : i \in 1 .. Len(stack) /\ stack'[i] = stack[i]
           /\ FrameShape'
           /\ \A i \in 1 .. Len(stack') :
                 IsModule(Top) => stack'[i].key # Top.key
           /\ \A k \in Keys : exports'[k] = exports[k] /\ Loading(k) =>
                 \/ Loading(k)'
                 \/ k = Top.key /\ exports[k] = Top.obj
  <1>1. stack \in Seq(Frames) /\ TypeOK /\ Depth = Len(stack) /\ Top = stack[Len(stack)]
    BY DEF LoaderInv, TypeOK, LoaderTypes, Depth, Top
  <1>2. /\ stack' \in Seq(Frames) /\ Len(stack') = Len(stack) - 1
        /\ \A i \in 1 .. Len(stack') : i \in 1 .. Len(stack) /\ stack'[i] = stack[i]
    BY <1>1, StackFacts
  <1>3. FrameShape'
    BY <1>2 DEF LoaderInv, FrameShape, IsModule
  <1>4. ASSUME NEW i \in 1 .. Len(stack'), IsModule(Top)
        PROVE  stack'[i].key # Top.key
    <2>1. i \in 1 .. Len(stack) /\ i # Len(stack) /\ Len(stack) \in 1 .. Len(stack)
      BY <1>1, <1>2
    <2>2. stack[i].key # stack[Len(stack)].key
      BY <1>1, <1>4, <2>1 DEF LoaderInv, LoadingOwnsExports
    <2> QED
      BY <1>1, <1>2, <2>2
  <1>5. ASSUME NEW k \in Keys, exports'[k] = exports[k], Loading(k)
        PROVE  Loading(k)' \/ (k = Top.key /\ exports[k] = Top.obj)
    <2>1. PICK i \in 1 .. Len(stack) : stack[i].key = k /\ stack[i].obj = exports[k]
      BY <1>5 DEF Loading
    <2>2. CASE i = Len(stack)
      BY <1>1, <2>1, <2>2
    <2>3. CASE i # Len(stack)
      <3>1. i \in 1 .. Len(stack')
        BY <1>1, <1>2, <2>3
      <3> QED
        BY <1>2, <1>5, <2>1, <3>1 DEF Loading
    <2> QED
      BY <2>2, <2>3
  <1> QED
    BY <1>2, <1>3, <1>4, <1>5

\* A frame that is not running JavaScript, or still has files to load, is a module.
LEMMA TopIsModule ==
    ASSUME LoaderInv, Depth > 0, ~ Top.runs \/ Top.todo # <<>> \/ IsModule(Top)
    PROVE  /\ IsModule(Top) /\ Top.mod \in Modules
           /\ Top.key = Key[Top.mod] /\ Top.key \in Keys /\ Top.obj \in Objects
           /\ exports[Top.key] = Top.obj
           /\ \A d \in done : d.key # Top.key
  <1>1. stack \in Seq(Frames) /\ Depth = Len(stack) /\ Top = stack[Len(stack)]
        /\ Len(stack) \in 1 .. Len(stack)
    BY DEF LoaderInv, TypeOK, LoaderTypes, Depth, Top
  <1>2. IsModule(Top) /\ Top.key = Key[Top.mod] /\ Top.obj \in Objects
    BY <1>1 DEF LoaderInv, FrameShape
  <1>3. Top \in Frames
    BY StackFacts DEF LoaderInv
  <1>4. Top.mod \in Modules
    BY <1>2, <1>3 DEF Frames, IsModule
  <1> QED
    BY <1>1, <1>2, <1>4, Constants DEF LoaderInv, LoadingOwnsExports, LoadedNotLoading

-----------------------------------------------------------------------------
(* The steps of require().                                                 *)

\* A module that has loaded keeps its exports; its frame becomes an entry of done.
LEMMA EndLoadKeeps == LoaderInv /\ EndLoad => LoaderInv'
  <1> SUFFICES ASSUME LoaderInv, EndLoad PROVE LoaderInv'
    OBVIOUS
  <1>0. /\ Depth > 0 /\ stack' = Pop /\ called' = called /\ ~ Top.runs
        /\ outcome' \in {outcome, "ok"}
        /\ done' = done \cup {[mod |-> Top.mod, key |-> Top.key, obj |-> Top.obj]}
        /\ UNCHANGED <<phase, mainfile, exports, onexit, called, exit_code,
                       requests, objects, first, thrown, callbacks, ran>>
    BY DEF EndLoad, Leave, serving, cache, loads, atexit
  <1>1. /\ IsModule(Top) /\ Top.mod \in Modules
        /\ Top.key = Key[Top.mod] /\ Top.key \in Keys /\ Top.obj \in Objects
        /\ exports[Top.key] = Top.obj
        /\ \A d \in done : d.key # Top.key
    BY <1>0, TopIsModule
  <1>2. /\ stack' \in Seq(Frames) /\ Len(stack') = Len(stack) - 1
        /\ \A i \in 1 .. Len(stack') : i \in 1 .. Len(stack) /\ stack'[i] = stack[i]
        /\ FrameShape'
        /\ \A i \in 1 .. Len(stack') : stack'[i].key # Top.key
        /\ \A k \in Keys : Loading(k) =>
              Loading(k)' \/ (k = Top.key /\ exports[k] = Top.obj)
    BY <1>0, <1>1, PopKeeps
  <1>3. LoaderTypes /\ RequestTypes
    BY DEF LoaderInv, TypeOK
  <1>4. TypeOK'
    <2>1. LoaderTypes'
      BY <1>0, <1>1, <1>2, <1>3 DEF LoaderTypes
    <2>2. RequestTypes'
      BY <1>0, <1>3 DEF RequestTypes
    <2> QED
      BY <2>1, <2>2 DEF TypeOK
  <1>5. LoadingOwnsExports'
    BY <1>0, <1>2 DEF LoaderInv, LoadingOwnsExports, IsModule
  <1>6. LoadedStays'
    BY <1>0, <1>1 DEF LoaderInv, LoadedStays
  <1>7. LoadedNotLoading'
    BY <1>0, <1>1, <1>2 DEF LoaderInv, LoadedNotLoading
  <1>8. NoStaleExports' /\ IdleHasNoStack'
    <2>1. phase # "idle"
      BY <1>0 DEF LoaderInv, IdleHasNoStack, Depth
    <2> QED
      BY <1>0, <2>1 DEF LoaderInv, NoStaleExports, IdleHasNoStack
  <1>9. CachedIsLoaded'
    <2> SUFFICES ASSUME NEW k \in Keys, exports[k] # None
                 PROVE  \/ Loading(k)'
                        \/ \E d \in done' : d.key = k /\ d.obj = exports[k]
                        \/ exports[k] \in thrown
      BY <1>0 DEF CachedIsLoaded
    <2>1. CASE k = Top.key /\ exports[k] = Top.obj
      <3> DEFINE d == [mod |-> Top.mod, key |-> Top.key, obj |-> Top.obj]
      <3>1. d \in done' /\ d.key = k /\ d.obj = exports[k]
        BY <1>0, <2>1
      <3> QED
        BY <3>1
    <2>2. CASE Loading(k) /\ ~ (k = Top.key /\ exports[k] = Top.obj)
      BY <1>2, <2>2
    <2>3. CASE ~ Loading(k)
      BY <1>0, <2>3 DEF LoaderInv, CachedIsLoaded
    <2> QED
      BY <2>1, <2>2, <2>3
  <1> QED
    BY <1>2, <1>4, <1>5, <1>6, <1>7, <1>8, <1>9 DEF LoaderInv

\* A thrown string leaves the exports of the frame behind, marked as such.
LEMMA LoadThrowsKeeps == LoaderInv /\ LoadThrows => LoaderInv'
  <1> SUFFICES ASSUME LoaderInv, LoadThrows PROVE LoaderInv'
    OBVIOUS
  <1>0. /\ Depth > 0 /\ stack' = Pop /\ called' = called /\ ~ Top.runs
        /\ outcome' \in {outcome, "error"}
        /\ thrown' = thrown \cup {Top.obj}
        /\ UNCHANGED <<phase, mainfile, exports, onexit, called, exit_code,
                       requests, objects, first, done, callbacks, ran>>
    BY DEF LoadThrows, Leave, AtFile, serving, cache, loads, atexit
  <1>1. /\ IsModule(Top) /\ Top.key \in Keys /\ Top.obj \in Objects
        /\ exports[Top.key] = Top.obj
    BY <1>0, TopIsModule
  <1>2. /\ stack' \in Seq(Frames) /\ Len(stack') = Len(stack) - 1
        /\ \A i \in 1 .. Len(stack') : i \in 1 .. Len(stack) /\ stack'[i] = stack[i]
        /\ FrameShape'
        /\ \A k \in Keys : Loading(k) =>
              Loading(k)' \/ (k = Top.key /\ exports[k] = Top.obj)
    BY <1>0, <1>1, PopKeeps
  <1>3. LoaderTypes /\ RequestTypes
    BY DEF LoaderInv, TypeOK
  <1>4. TypeOK'
    <2>1. LoaderTypes'
      BY <1>0, <1>1, <1>2, <1>3 DEF LoaderTypes
    <2>2. RequestTypes'
      BY <1>0, <1>3 DEF RequestTypes
    <2> QED
      BY <2>1, <2>2 DEF TypeOK
  <1>5. LoadingOwnsExports'
    BY <1>0, <1>2 DEF LoaderInv, LoadingOwnsExports, IsModule
  <1>6. LoadedStays' /\ LoadedNotLoading'
    BY <1>0, <1>2 DEF LoaderInv, LoadedStays, LoadedNotLoading
  <1>7. NoStaleExports' /\ IdleHasNoStack'
    <2>1. phase # "idle"
      BY <1>0 DEF LoaderInv, IdleHasNoStack, Depth
    <2> QED
      BY <1>0, <2>1 DEF LoaderInv, NoStaleExports, IdleHasNoStack
  <1>8. CachedIsLoaded'
    <2> SUFFICES ASSUME NEW k \in Keys, exports[k] # None
                 PROVE  \/ Loading(k)'
                        \/ \E d \in done : d.key = k /\ d.obj = exports[k]
                        \/ exports[k] \in thrown'
      BY <1>0 DEF CachedIsLoaded
    <2>1. CASE Loading(k)
      BY <1>0, <1>2, <2>1
    <2>2. CASE ~ Loading(k)
      BY <1>0, <2>2 DEF LoaderInv, CachedIsLoaded
    <2> QED
      BY <2>1, <2>2
  <1> QED
    BY <1>2, <1>4, <1>5, <1>6, <1>7, <1>8 DEF LoaderInv

\* A script that fails takes its own exports with it, and no others: its key is
\* neither that of a loaded module nor that of another one being loaded.
LEMMA LoadFailsKeeps == LoaderInv /\ LoadFails => LoaderInv'
  <1> SUFFICES ASSUME LoaderInv, LoadFails PROVE LoaderInv'
    OBVIOUS
  <1>a. Depth > 0 /\ IsModule(Top)
    BY TopIsModule DEF LoadFails, AtFile, Running
  <1>0. /\ Depth > 0 /\ stack' = Pop /\ called' = called /\ IsModule(Top)
        /\ outcome' \in {outcome, "error"}
        /\ exports' = [exports EXCEPT ![Top.key] = None]
        /\ UNCHANGED <<phase, mainfile, onexit, called, exit_code,
                       requests, objects, first, done, thrown, callbacks, ran>>
    BY <1>a DEF LoadFails, Leave, removeExports, serving, cache, loads, atexit
  <1>1. /\ Top.key \in Keys /\ \A d \in done : d.key # Top.key
    BY <1>0, TopIsModule
  <1>2. /\ stack' \in Seq(Frames) /\ Len(stack') = Len(stack) - 1
        /\ \A i \in 1 .. Len(stack') : i \in 1 .. Len(stack) /\ stack'[i] = stack[i]
        /\ FrameShape'
        /\ \A i \in 1 .. Len(stack') : stack'[i].key # Top.key
        /\ \A k \in Keys : exports'[k] = exports[k] /\ Loading(k) =>
              Loading(k)' \/ (k = Top.key /\ exports[k] = Top.obj)
    BY <1>0, PopKeeps
  <1>3. LoaderTypes /\ RequestTypes
    BY DEF LoaderInv, TypeOK
  <1>x. exports'[Top.key] = None /\ \A k \in Keys \ {Top.key} : exports'[k] = exports[k]
    BY <1>0, <1>1, <1>3 DEF LoaderTypes
  <1>4. TypeOK'
    <2>1. LoaderTypes'
      BY <1>0, <1>1, <1>2, <1>3 DEF LoaderTypes
    <2>2. RequestTypes'
      BY <1>0, <1>3 DEF RequestTypes
    <2> QED
      BY <2>1, <2>2 DEF TypeOK
  <1>5. LoadingOwnsExports'
    <2> SUFFICES ASSUME NEW i \in 1 .. Len(stack'), IsModule(stack'[i])
                 PROVE  /\ exports'[stack'[i].key] = stack'[i].obj
                        /\ \A j \in 1 .. Len(stack') : stack'[j].key = stack'[i].key => j = i
      BY DEF LoadingOwnsExports, IsModule
    <2>2. stack'[i] = stack[i] /\ i \in 1 .. Len(stack) /\ stack[i].key # Top.key
      BY <1>2
    <2>1. stack[i].key \in Keys
      <3>1. stack[i] \in Frames /\ stack[i].mod # None
        BY <1>3, <2>2 DEF LoaderTypes, IsModule
      <3>2. stack[i].mod \in Modules
        BY <3>1 DEF Frames
      <3> QED
        BY <2>2, <3>1, <3>2, Constants DEF LoaderInv, FrameShape, IsModule
    <2>3. /\ exports[stack[i].key] = stack[i].obj
          /\ \A j \in 1 .. Len(stack) : stack[j].key = stack[i].key => j = i
      BY <2>2 DEF LoaderInv, LoadingOwnsExports, IsModule
    <2>4. exports'[stack[i].key] = exports[stack[i].key]
      BY <1>x, <2>1, <2>2
    <2>5. \A j \in 1 .. Len(stack') : stack'[j].key = stack'[i].key => j = i
      BY <1>2, <2>2, <2>3
    <2> QED
      BY <2>2, <2>3, <2>4, <2>5
  <1>6. LoadedStays' /\ LoadedNotLoading'
    BY <1>0, <1>1, <1>x, <1>2, <1>3
       DEF LoaderInv, LoadedStays, LoadedNotLoading, LoaderTypes
  <1>7. NoStaleExports' /\ IdleHasNoStack'
    <2>1. phase # "idle"
      BY <1>0 DEF LoaderInv, IdleHasNoStack, Depth
    <2> QED
      BY <1>0, <1>x, <2>1 DEF LoaderInv, NoStaleExports, IdleHasNoStack
  <1>8. CachedIsLoaded'
    BY <1>0, <1>1, <1>2, <1>x DEF LoaderInv, CachedIsLoaded
  <1> QED
    BY <1>2, <1>4, <1>5, <1>6, <1>7, <1>8 DEF LoaderInv

\* Steps that change only what the innermost frame has left to do.
LEMMA ProgressKeeps ==
    LoaderInv /\ (LoadDso \/ CallModule \/ ModuleReturns) => LoaderInv'
  <1> SUFFICES ASSUME LoaderInv, LoadDso \/ CallModule \/ ModuleReturns
               PROVE  LoaderInv'
    OBVIOUS
  <1>t. LoaderTypes /\ RequestTypes /\ stack \in Seq(Frames)
        /\ Depth = Len(stack) /\ Top = stack[Len(stack)]
    BY DEF LoaderInv, TypeOK, LoaderTypes, Depth, Top
  <1>0. /\ Len(stack) > 0 /\ (~ Top.runs \/ IsModule(Top))
        /\ UNCHANGED <<phase, mainfile, exports, onexit, called, exit_code, outcome,
                       requests, objects, first, done, thrown, callbacks, ran>>
    BY <1>t DEF LoadDso, CallModule, ModuleReturns, AtFile, Running,
                    serving, cache, loads, atexit
  <1>1. \E frame \in Frames :
            /\ frame.mod = Top.mod /\ frame.key = Top.key /\ frame.obj = Top.obj
            /\ frame.runs => frame.todo # <<>>
            /\ stack' = [stack EXCEPT ![Len(stack)] = frame]
    <2>1. Top \in Frames /\ Len(stack) \in 1 .. Len(stack)
      BY <1>t, <1>0
    <2>a. Top.todo # <<>>
      BY <1>t, <2>1 DEF LoaderInv, FrameShape, LoadDso, CallModule, ModuleReturns, AtFile, Running
    <2>2. CASE LoadDso
      <3> DEFINE f == [Top EXCEPT !.todo = Tail(@)]
      <3>1. stack' = [stack EXCEPT ![Len(stack)] = f]
        BY <1>t, <2>1, <2>2 DEF LoadDso
      <3>2. Tail(Top.todo) \in Seq({"dso", "js"})
        BY <2>1, <2>a, HeadTailProperties DEF Frames
      <3>3. f \in Frames /\ f.runs = Top.runs /\ f.mod = Top.mod /\ f.key = Top.key /\ f.obj = Top.obj
        BY <2>1, <3>2 DEF Frames
      <3>4. ~ f.runs
        BY <1>t, <2>2, <3>3 DEF LoadDso, AtFile
      <3> QED
        BY <3>1, <3>3, <3>4
    <2>3. CASE CallModule
      <3> DEFINE f == [Top EXCEPT !.runs = TRUE]
      <3>1. stack' = [stack EXCEPT ![Len(stack)] = f]
        BY <1>t, <2>1, <2>3 DEF CallModule
      <3>2. f \in Frames /\ f.todo = Top.todo /\ f.mod = Top.mod /\ f.key = Top.key /\ f.obj = Top.obj
        BY <2>1 DEF Frames
      <3> QED
        BY <2>a, <3>1, <3>2
    <2>4. CASE ModuleReturns
      <3> DEFINE f == [Top EXCEPT !.runs = FALSE, !.todo = Tail(@)]
      <3>1. stack' = [stack EXCEPT ![Len(stack)] = f]
        BY <1>t, <2>1, <2>4 DEF ModuleReturns
      <3>2. Tail(Top.todo) \in Seq({"dso", "js"})
        BY <2>1, <2>a, HeadTailProperties DEF Frames
      <3>3. f \in Frames /\ ~ f.runs /\ f.mod = Top.mod /\ f.key = Top.key /\ f.obj = Top.obj
        BY <2>1, <3>2 DEF Frames
      <3> QED
        BY <3>1, <3>3
    <2> QED
      BY <2>2, <2>3, <2>4
  <1>2. PICK frame \in Frames :
            /\ frame.mod = Top.mod /\ frame.key = Top.key /\ frame.obj = Top.obj
            /\ frame.runs => frame.todo # <<>>
            /\ stack' = [stack EXCEPT ![Len(stack)] = frame]
    BY <1>1
  <1>3. /\ stack' \in Seq(Frames) /\ Len(stack') = Len(stack)
        /\ \A i \in 1 .. Len(stack) :
              /\ stack'[i].mod = stack[i].mod /\ stack'[i].key = stack[i].key
              /\ stack'[i].obj = stack[i].obj
              /\ IF i = Len(stack) THEN stack'[i] = frame ELSE stack'[i] = stack[i]
    <2> HIDE DEF Frames
    <2>1. Len(stack) \in 1 .. Len(stack)
      BY <1>t, <1>0
    <2> QED
      BY <1>t, <1>2, <2>1, ExceptSeq
  <1>4. IsModule(Top)
    BY <1>t, <1>0, TopIsModule
  <1>5. TypeOK'
    BY <1>t, <1>0, <1>3 DEF TypeOK, LoaderTypes, RequestTypes
  <1>6. FrameShape'
    BY <1>t, <1>0, <1>2, <1>3, <1>4 DEF LoaderInv, FrameShape, IsModule
  <1>7. LoadingOwnsExports'
    BY <1>0, <1>3 DEF LoaderInv, LoadingOwnsExports, IsModule
  <1>8. LoadedStays' /\ LoadedNotLoading'
    BY <1>0, <1>3 DEF LoaderInv, LoadedStays, LoadedNotLoading
  <1>9. NoStaleExports' /\ IdleHasNoStack'
    <2>1. phase # "idle"
      BY <1>0 DEF LoaderInv, IdleHasNoStack
    <2> QED
      BY <1>0, <2>1 DEF LoaderInv, NoStaleExports, IdleHasNoStack
  <1>10. CachedIsLoaded'
    BY <1>0, <1>3 DEF LoaderInv, CachedIsLoaded, Loading
  <1> QED
    BY <1>5, <1>6, <1>7, <1>8, <1>9, <1>10 DEF LoaderInv

LEMMA LoadKeeps == LoaderInv /\ Load => LoaderInv'
  BY EndLoadKeeps, LoadThrowsKeeps, LoadFailsKeeps, ProgressKeeps DEF Load

-----------------------------------------------------------------------------
(* JavaScript and the request.                                             *)

LEMMA JavaScriptKeeps == LoaderInv /\ JavaScript => LoaderInv'
  <1> SUFFICES ASSUME LoaderInv, JavaScript PROVE LoaderInv'
    OBVIOUS
  <1>t. LoaderTypes /\ RequestTypes
    BY DEF LoaderInv, TypeOK
  <1>1. phase # "idle"
    <2>1. stack # <<>>
      BY <1>t DEF JavaScript, JsRequire, JsOnexit, JsExit, Running, Depth, LoaderTypes
    <2> QED
      BY <2>1 DEF LoaderInv, IdleHasNoStack
  <1>2. ASSUME NEW m \in Modules, JsRequire(m)  PROVE LoaderInv'
    <2>1. outcome' \in {"none", "ok", "error"}
      BY <1>t, <1>2 DEF JsRequire, RequestTypes
    <2>2. /\ ~ Cached(m) /\ BeginLoad(m)
          /\ UNCHANGED <<phase, mainfile, onexit, called, exit_code,
                         requests, first, done, thrown, callbacks, ran>>
      BY <1>2 DEF JsRequire, serving, cache, loads, atexit
    <2> QED
      BY <1>1, <2>1, <2>2, BeginLoadKeeps
  <1>3. CASE JsOnexit
    <2>1. /\ callbacks' = callbacks + 1 /\ onexit' = Append(onexit, callbacks + 1)
          /\ callbacks + 1 \in 1 .. MaxOnexit
          /\ UNCHANGED <<phase, mainfile, exports, stack, called, exit_code, outcome,
                         requests, objects, first, done, thrown, ran>>
      BY <1>t, <1>3, Constants DEF JsOnexit, RequestTypes, serving, cache, loads, atexit
    <2>2. onexit' \in Seq(1 .. MaxOnexit) /\ called' \in 0 .. Len(onexit')
      BY <1>t, <2>1, AppendProperties DEF RequestTypes
    <2>3. TypeOK'
      BY <1>t, <2>1, <2>2, Constants DEF TypeOK, LoaderTypes, RequestTypes
    <2> QED
      BY <2>1, <2>3 DEF LoaderInv, FrameShape, LoadingOwnsExports, LoadedStays,
         LoadedNotLoading, NoStaleExports, IdleHasNoStack, CachedIsLoaded, Loading
  <1>4. ASSUME NEW code \in Codes, JsExit(code)  PROVE LoaderInv'
    <2>1. /\ exit_code' \in Nat
          /\ UNCHANGED <<phase, mainfile, exports, stack, onexit, called, outcome,
                         requests, objects, first, done, thrown, callbacks, ran>>
      BY <1>4, Constants DEF JsExit, serving, cache, loads, atexit
    <2>3. TypeOK'
      BY <1>t, <2>1 DEF TypeOK, LoaderTypes, RequestTypes
    <2> QED
      BY <2>1, <2>3 DEF LoaderInv, FrameShape, LoadingOwnsExports, LoadedStays,
         LoadedNotLoading, NoStaleExports, IdleHasNoStack, CachedIsLoaded, Loading
  <1> QED
    BY <1>2, <1>3, <1>4 DEF JavaScript

LEMMA StartRequestKeeps ==
    ASSUME LoaderInv, NEW m \in Modules \cup {None}, StartRequest(m)
    PROVE  LoaderInv'
  <1>t. LoaderTypes /\ RequestTypes
    BY DEF LoaderInv, TypeOK
  <1>0. /\ phase = "idle" /\ phase' = "config" /\ requests < MaxRequests
        /\ requests' = requests + 1 /\ mainfile' = IF m = None THEN mainfile ELSE m
        /\ outcome' = "none" /\ first' = objects + 1
        /\ UNCHANGED <<exports, stack, onexit, called, exit_code, objects, done, thrown,
                       callbacks, ran>>
    BY DEF StartRequest, serving, cache, loads, atexit
  <1>1. stack = <<>> /\ \A k \in Keys : exports[k] = None
    BY <1>0 DEF LoaderInv, IdleHasNoStack, NoStaleExports
  <1>2. LoaderTypes'
    BY <1>t, <1>0, Constants DEF LoaderTypes
  <1>3. RequestTypes'
    BY <1>t, <1>0, Constants DEF RequestTypes
  <1>4. NoStaleExports' /\ IdleHasNoStack' /\ CachedIsLoaded'
    BY <1>0, <1>1 DEF NoStaleExports, IdleHasNoStack, CachedIsLoaded
  <1> QED
    BY <1>0, <1>2, <1>3, <1>4 DEF LoaderInv, TypeOK, FrameShape, LoadingOwnsExports,
       LoadedStays, LoadedNotLoading

LEMMA TopRequireKeeps ==
    ASSUME LoaderInv, NEW p \in {"config", "main"}, NEW m \in Modules \cup {None},
           TopRequire(p, m)
    PROVE  LoaderInv'
  <1>t. LoaderTypes /\ RequestTypes
    BY DEF LoaderInv, TypeOK
  <1>0. /\ phase # "idle"
        /\ UNCHANGED <<phase, mainfile, onexit, called, exit_code,
                       requests, first, done, thrown, callbacks, ran>>
    BY DEF TopRequire, serving, cache, loads, atexit
  <1>1. CASE UNCHANGED <<exports, stack, objects>> /\ outcome' \in {"error", "ok"}
    <2>1. TypeOK'
      BY <1>t, <1>0, <1>1 DEF TypeOK, LoaderTypes, RequestTypes
    <2> QED
      BY <1>0, <1>1, <2>1 DEF LoaderInv, FrameShape, LoadingOwnsExports, LoadedStays,
         LoadedNotLoading, NoStaleExports, IdleHasNoStack, CachedIsLoaded, Loading
  <1>2. CASE m \in Modules /\ ~ Cached(m) /\ BeginLoad(m) /\ UNCHANGED outcome
    <2>1. outcome' \in {"none", "ok", "error"}
      BY <1>t, <1>2 DEF RequestTypes
    <2> QED
      BY <1>0, <1>2, <2>1, BeginLoadKeeps
  <1> QED
    BY <1>1, <1>2 DEF TopRequire, cache

\* The steps of execute and finish that load nothing.
LEMMA FinishKeeps ==
    ASSUME LoaderInv, (\E paths \in BOOLEAN : Prepared(paths)) \/ Finish
    PROVE  LoaderInv'
  <1>t. LoaderTypes /\ RequestTypes
    BY DEF LoaderInv, TypeOK
  <1>0. /\ phase # "idle" /\ phase' \in {"main", "finish"}
        /\ outcome' \in {"none", "ok", "error"} /\ exit_code' \in Nat
        /\ UNCHANGED <<mainfile, exports, stack, onexit, called,
                       requests, objects, first, done, thrown, callbacks, ran>>
    BY <1>t DEF Prepared, Finish, RequestTypes, serving, cache, loads, atexit
  <1>1. TypeOK'
    BY <1>t, <1>0 DEF TypeOK, LoaderTypes, RequestTypes
  <1> QED
    BY <1>0, <1>1 DEF LoaderInv, FrameShape, LoadingOwnsExports, LoadedStays,
       LoadedNotLoading, NoStaleExports, IdleHasNoStack, CachedIsLoaded, Loading

LEMMA CallOnexitKeeps == LoaderInv /\ CallOnexit => LoaderInv'
  <1> SUFFICES ASSUME LoaderInv, CallOnexit PROVE LoaderInv'
    OBVIOUS
  <1> DEFINE frame == [mod |-> None, key |-> None, obj |-> None, todo |-> <<>>, runs |-> TRUE]
  <1>t. LoaderTypes /\ RequestTypes
    BY DEF LoaderInv, TypeOK
  <1>0. /\ phase # "idle" /\ stack = <<>> /\ stack' = <<frame>>
        /\ called' = called + 1 /\ called < Len(onexit)
        /\ UNCHANGED <<phase, mainfile, exports, onexit, exit_code, outcome,
                       requests, objects, first, done, thrown, callbacks, ran>>
    BY DEF CallOnexit, MoreCallbacks, serving, cache, loads, atexit
  <1>1. frame \in Frames
    <2>1. <<>> \in Seq({"dso", "js"})
      BY EmptySeq
    <2> QED
      BY <2>1 DEF Frames
  <1>2. stack' \in Seq(Frames) /\ Len(stack') = 1 /\ stack'[1] = frame
    <2> HIDE DEF frame, Frames
    <2> QED
      BY <1>0, <1>1
  <1>3. LoaderTypes'
    BY <1>t, <1>0, <1>2 DEF LoaderTypes
  <1>4. RequestTypes'
    <2>1. called' \in 0 .. Len(onexit)
      BY <1>t, <1>0, LenProperties DEF RequestTypes
    <2> QED
      BY <1>t, <1>0, <2>1 DEF RequestTypes
  <1>5. FrameShape' /\ LoadingOwnsExports'
    BY <1>t, <1>0, <1>2 DEF FrameShape, LoadingOwnsExports, IsModule, RequestTypes
  <1>6. LoadedNotLoading'
    BY <1>t, <1>0, <1>2, Constants DEF LoadedNotLoading, LoaderTypes
  <1>7. CachedIsLoaded'
    <2>1. \A k \in Keys : ~ Loading(k)
      BY <1>0 DEF Loading
    <2> QED
      BY <1>0, <2>1 DEF LoaderInv, CachedIsLoaded
  <1> QED
    BY <1>0, <1>3, <1>4, <1>5, <1>6, <1>7
       DEF LoaderInv, TypeOK, LoadedStays, NoStaleExports, IdleHasNoStack

LEMMA OnexitReturnsKeeps == LoaderInv /\ OnexitReturns => LoaderInv'
  <1> SUFFICES ASSUME LoaderInv, OnexitReturns PROVE LoaderInv'
    OBVIOUS
  <1>t. LoaderTypes /\ RequestTypes /\ TypeOK
    BY DEF LoaderInv, TypeOK
  <1>0. /\ Depth > 0 /\ ~ IsModule(Top) /\ stack' = Pop
        /\ ran' = Append(ran, onexit[called])
        /\ UNCHANGED <<phase, mainfile, exports, onexit, called, exit_code, outcome,
                       requests, objects, first, done, thrown, callbacks>>
    BY DEF OnexitReturns, Running, serving, cache, loads, atexit
  <1>1. Top.key = None /\ called > 0
    <2>1. Len(stack) \in 1 .. Len(stack) /\ Top = stack[Len(stack)]
      BY <1>t, <1>0 DEF LoaderTypes, Depth, Top
    <2> QED
      BY <1>0, <2>1 DEF LoaderInv, FrameShape
  <1>2. /\ stack' \in Seq(Frames) /\ Len(stack') = Len(stack) - 1
        /\ \A i \in 1 .. Len(stack') : i \in 1 .. Len(stack) /\ stack'[i] = stack[i]
        /\ FrameShape'
        /\ \A k \in Keys : Loading(k) =>
              Loading(k)' \/ (k = Top.key /\ exports[k] = Top.obj)
    BY <1>0, PopKeeps
  <1>3. LoaderTypes'
    BY <1>t, <1>0, <1>2 DEF LoaderTypes
  <1>4. RequestTypes'
    <2>1. onexit[called] \in 1 .. MaxOnexit
      <3>1. onexit \in Seq(1 .. MaxOnexit) /\ called \in 1 .. Len(onexit)
        BY <1>t, <1>1, LenProperties DEF RequestTypes
      <3> QED
        BY <3>1, ElementOfSeq
    <2>2. ran' \in Seq(1 .. MaxOnexit)
      BY <1>t, <1>0, <2>1, AppendProperties DEF RequestTypes
    <2> QED
      BY <1>t, <1>0, <2>2 DEF RequestTypes
  <1>5. LoadingOwnsExports' /\ LoadedStays' /\ LoadedNotLoading'
    <2>1. LoadingOwnsExports'
      BY <1>0, <1>2 DEF LoaderInv, LoadingOwnsExports, IsModule
    <2>2. LoadedStays' /\ LoadedNotLoading'
      BY <1>0, <1>2 DEF LoaderInv, LoadedStays, LoadedNotLoading
    <2> QED
      BY <2>1, <2>2
  <1>6. NoStaleExports' /\ IdleHasNoStack'
    <2>1. phase # "idle"
      BY <1>0 DEF LoaderInv, IdleHasNoStack, Depth
    <2> QED
      BY <1>0, <2>1 DEF LoaderInv, NoStaleExports, IdleHasNoStack
  <1>7. CachedIsLoaded'
    BY <1>0, <1>1, <1>2, Constants DEF LoaderInv, CachedIsLoaded
  <1> QED
    BY <1>2, <1>3, <1>4, <1>5, <1>6, <1>7 DEF LoaderInv, TypeOK

LEMMA EndRequestKeeps == LoaderInv /\ EndRequest => LoaderInv'
  <1> SUFFICES ASSUME LoaderInv, EndRequest PROVE LoaderInv'
    OBVIOUS
  <1>t. LoaderTypes /\ RequestTypes
    BY DEF LoaderInv, TypeOK
  <1>0. /\ stack = <<>> /\ phase' = "idle" /\ onexit' = <<>> /\ called' = 0
        /\ exports' = [k \in Keys |-> None] /\ done' = {} /\ thrown' = {}
        /\ UNCHANGED <<mainfile, stack, exit_code, outcome,
                       requests, objects, first, callbacks, ran>>
    BY DEF EndRequest, clearExports, clearOnexit, serving, cache, loads, atexit
  <1>1. LoaderTypes'
    BY <1>t, <1>0 DEF LoaderTypes
  <1>2. RequestTypes'
    <2>1. onexit' \in Seq(1 .. MaxOnexit) /\ called' \in 0 .. Len(onexit')
      BY <1>0, EmptySeq
    <2> QED
      BY <1>t, <1>0, <2>1 DEF RequestTypes
  <1> QED
    BY <1>0, <1>1, <1>2 DEF LoaderInv, TypeOK, FrameShape, LoadingOwnsExports, LoadedStays,
       LoadedNotLoading, NoStaleExports, IdleHasNoStack, CachedIsLoaded

LEMMA LoaderStep == LoaderInv /\ [Next]_vars => LoaderInv'
  <1> SUFFICES ASSUME LoaderInv, [Next]_vars PROVE LoaderInv'
    OBVIOUS
  <1>1. CASE Load
    BY <1>1, LoadKeeps
  <1>2. CASE JavaScript
    BY <1>2, JavaScriptKeeps
  <1>3. CASE Request
    <2>1. Config \in Modules \cup {None} /\ mainfile \in Modules \cup {None}
      BY Constants DEF LoaderInv, TypeOK, RequestTypes
    <2> QED
      BY <1>3, <2>1, StartRequestKeeps, TopRequireKeeps, FinishKeeps, CallOnexitKeeps,
         OnexitReturnsKeeps, EndRequestKeeps DEF Request
  <1>4. CASE UNCHANGED vars
    <2>1. UNCHANGED <<phase, mainfile, exports, stack, onexit, called, exit_code, outcome,
                      requests, objects, first, done, thrown, callbacks, ran>>
      BY <1>4 DEF vars, serving, cache, loads, atexit
    <2>2. TypeOK'
      BY <2>1 DEF LoaderInv, TypeOK, LoaderTypes, RequestTypes
    <2> QED
      BY <2>1, <2>2 DEF LoaderInv, FrameShape, LoadingOwnsExports, LoadedStays,
         LoadedNotLoading, NoStaleExports, IdleHasNoStack, CachedIsLoaded, Loading
  <1> QED
    BY <1>1, <1>2, <1>3, <1>4 DEF Next

\* Type correctness, the numbering of the export objects of a request included.
THEOREM TypeCorrect == Spec => []TypeOK
  BY LoaderInit, LoaderStep, PTL DEF Spec, LoaderInv

\* Cyclic requires end: modules being loaded never share a key, and each finds its
\* own exports under it when it goes on, whatever failed above it.
THEOREM CyclesEnd == Spec => []LoadingOwnsExports
  BY LoaderInit, LoaderStep, PTL DEF Spec, LoaderInv

\* A module that has loaded gives the same exports to the end of its request.
THEOREM LoadedModulesStay == Spec => []LoadedStays
  BY LoaderInit, LoaderStep, PTL DEF Spec, LoaderInv

\* No request sees the exports of an earlier one.
THEOREM RequestsAreSeparate == Spec => []NoStaleExports
  BY LoaderInit, LoaderStep, PTL DEF Spec, LoaderInv

\* Apart from what a thrown string left behind, cached exports are those of modules
\* that are loaded or being loaded; those of a failed script are gone.
THEOREM OnlyLoadedCached == Spec => []CachedIsLoaded
  BY LoaderInit, LoaderStep, PTL DEF Spec, LoaderInv

-----------------------------------------------------------------------------
(* Callbacks.  onexit holds the last of the numbers given out, in order, and *)
(* ran all up to the one that is running.  Only the base of the stack can be *)
(* a callback, and a request that is over leaves none.                       *)

BaseOnly == \A i \in 1 .. Len(stack) : i # 1 => IsModule(stack[i])

\* A callback is running, or waits for what it requires.
Pending == IF \E i \in 1 .. Len(stack) : i = 1 /\ ~ IsModule(stack[i]) THEN 1 ELSE 0

Registered ==
    /\ Len(onexit) <= callbacks
    /\ \A i \in 1 .. Len(onexit) : onexit[i] = callbacks - Len(onexit) + i

RanInOrder ==
    /\ Len(ran) = callbacks - Len(onexit) + called - Pending
    /\ \A i \in 1 .. Len(ran) : ran[i] = i

IdleIsClear == phase = "idle" => onexit = <<>> /\ called = 0

AtexitInv == BaseOnly /\ Registered /\ RanInOrder /\ IdleIsClear

LEMMA AtexitTypes ==
    ASSUME LoaderInv
    PROVE  /\ stack \in Seq(Frames) /\ Depth = Len(stack) /\ Len(stack) \in Nat
           /\ Top = stack[Len(stack)]
           /\ onexit \in Seq(1 .. MaxOnexit) /\ Len(onexit) \in Nat
           /\ ran \in Seq(1 .. MaxOnexit) /\ Len(ran) \in Nat
           /\ callbacks \in Nat /\ called \in Nat /\ called <= Len(onexit)
           /\ (phase = "idle" => stack = <<>>)
  <1>1. LoaderTypes /\ RequestTypes /\ IdleHasNoStack
    BY DEF LoaderInv, TypeOK
  <1> QED
    BY <1>1, Constants, LenProperties DEF LoaderTypes, RequestTypes, IdleHasNoStack, Depth, Top

LEMMA AtexitInit == Init => AtexitInv
  BY DEF Init, AtexitInv, BaseOnly, Pending, Registered, RanInOrder, IdleIsClear

LEMMA AtexitImplies == LoaderInv /\ AtexitInv => OnexitOnce
  <1> SUFFICES ASSUME LoaderInv, AtexitInv, phase = "idle"
               PROVE  ran = [i \in 1 .. callbacks |-> i]
    BY DEF OnexitOnce
  <1>1. stack = <<>> /\ onexit = <<>> /\ called = 0
    BY AtexitTypes DEF AtexitInv, IdleIsClear
  <1>2. Pending = 0 /\ Len(onexit) = 0
    BY <1>1 DEF Pending
  <1>3. Len(ran) = callbacks
    BY <1>1, <1>2, AtexitTypes DEF AtexitInv, RanInOrder
  <1>4. ran = [i \in 1 .. Len(ran) |-> ran[i]]
    BY AtexitTypes
  <1> QED
    BY <1>3, <1>4 DEF AtexitInv, RanInOrder

\* Loading pushes, changes and pops modules: a callback at the base stays there.
LEMMA LoadLeavesBase ==
    ASSUME LoaderInv, BaseOnly,
           \/ Load
           \/ \E m \in Modules : BeginLoad(m)
    PROVE  BaseOnly' /\ Pending' = Pending
  <1>t. /\ stack \in Seq(Frames) /\ Depth = Len(stack) /\ Len(stack) \in Nat
        /\ Top = stack[Len(stack)]
    BY AtexitTypes
  <1>1. ASSUME NEW m \in Modules, BeginLoad(m)  PROVE BaseOnly' /\ Pending' = Pending
    <2> DEFINE frame == [mod |-> m, key |-> Key[m], obj |-> objects + 1,
                         todo |-> Parts[m], runs |-> FALSE]
    <2>1. stack' = Append(stack, frame) /\ IsModule(frame)
      BY <1>1, Constants DEF BeginLoad, IsModule
    <2> HIDE DEF frame, Frames
    <2>2. /\ Len(stack') = Len(stack) + 1 /\ stack'[Len(stack) + 1] = frame
          /\ \A i \in 1 .. Len(stack) : stack'[i] = stack[i]
      BY <1>t, <2>1
    <2> QED
      BY <1>t, <2>1, <2>2 DEF BaseOnly, Pending, IsModule
  <1>2. ASSUME Depth > 0, stack' = Pop, IsModule(Top)
        PROVE  BaseOnly' /\ Pending' = Pending
    <2>1. Len(stack') = Len(stack) - 1 /\ \A i \in 1 .. Len(stack) - 1 : stack'[i] = stack[i]
      BY <1>t, <1>2, StackFacts DEF LoaderInv
    <2> QED
      BY <1>t, <1>2, <2>1 DEF BaseOnly, Pending, IsModule
  <1>3. CASE EndLoad \/ LoadThrows \/ LoadFails
    <2>1. Depth > 0 /\ stack' = Pop /\ (~ Top.runs \/ IsModule(Top))
      BY <1>3 DEF EndLoad, LoadThrows, LoadFails, Leave, AtFile, Running
    <2> QED
      BY <1>2, <2>1, TopIsModule
  <1>4. CASE LoadDso \/ CallModule \/ ModuleReturns
    <2>1. Len(stack) \in 1 .. Len(stack) /\ stack[Len(stack)] \in Frames
      <3>1. Len(stack) > 0
        BY <1>t, <1>4 DEF LoadDso, CallModule, ModuleReturns, AtFile, Running
      <3> HIDE DEF Frames
      <3> QED
        BY <1>t, <3>1
    <2>2. /\ Len(stack') = Len(stack)
          /\ \A i \in 1 .. Len(stack) : stack'[i].mod = stack[i].mod
      <3>1. CASE LoadDso
        BY <1>t, <2>1, <3>1 DEF LoadDso, Frames
      <3>2. CASE CallModule
        BY <1>t, <2>1, <3>2 DEF CallModule, Frames
      <3>3. CASE ModuleReturns
        BY <1>t, <2>1, <3>3 DEF ModuleReturns, Frames
      <3> QED
        BY <1>4, <3>1, <3>2, <3>3
    <2> QED
      BY <1>t, <2>2 DEF BaseOnly, Pending, IsModule
  <1> QED
    BY <1>1, <1>3, <1>4 DEF Load

LEMMA AtexitStep == LoaderInv /\ AtexitInv /\ [Next]_vars => AtexitInv'
  <1> SUFFICES ASSUME LoaderInv, AtexitInv, [Next]_vars PROVE AtexitInv'
    OBVIOUS
  <1> USE DEF AtexitInv
  <1>t. /\ stack \in Seq(Frames) /\ Depth = Len(stack) /\ Len(stack) \in Nat
        /\ Top = stack[Len(stack)]
        /\ onexit \in Seq(1 .. MaxOnexit) /\ Len(onexit) \in Nat
        /\ ran \in Seq(1 .. MaxOnexit) /\ Len(ran) \in Nat
        /\ callbacks \in Nat /\ called \in Nat /\ called <= Len(onexit)
        /\ (phase = "idle" => stack = <<>>)
    BY AtexitTypes
  <1>1. ASSUME UNCHANGED <<onexit, called, callbacks, ran>>,
               BaseOnly', Pending' = Pending,
               phase' = "idle" => phase = "idle"
        PROVE  AtexitInv'
    BY <1>1 DEF Registered, RanInOrder, IdleIsClear
  <1>2. CASE Load
    <2>1. UNCHANGED <<onexit, called, callbacks, ran, phase>>
      BY <1>2 DEF Load, EndLoad, LoadThrows, LoadFails, LoadDso, CallModule, ModuleReturns,
         serving, atexit
    <2> QED
      BY <1>1, <1>2, <2>1, LoadLeavesBase
  <1>3. ASSUME NEW m \in Modules \cup {None}, NEW p,
               (JsRequire(m) /\ m \in Modules) \/ TopRequire(p, m)
        PROVE  AtexitInv'
    <2>1. UNCHANGED <<onexit, called, callbacks, ran, phase>>
      BY <1>3 DEF JsRequire, TopRequire, serving, atexit
    <2>2. (m \in Modules /\ BeginLoad(m)) \/ UNCHANGED stack
      BY <1>3 DEF JsRequire, TopRequire
    <2>3. UNCHANGED stack => BaseOnly' /\ Pending' = Pending
      BY DEF BaseOnly, Pending, IsModule
    <2> QED
      BY <1>1, <2>1, <2>2, <2>3, LoadLeavesBase
  <1>4. CASE JsOnexit
    <2>1. /\ callbacks' = callbacks + 1 /\ onexit' = Append(onexit, callbacks + 1)
          /\ UNCHANGED <<stack, called, ran, phase>>
          /\ Len(stack) > 0
      BY <1>t, <1>4 DEF JsOnexit, Running, serving
    <2>2. /\ Len(onexit') = Len(onexit) + 1 /\ onexit'[Len(onexit) + 1] = callbacks + 1
          /\ \A i \in 1 .. Len(onexit) : onexit'[i] = onexit[i]
      BY <1>t, <2>1
    <2>3. Registered'
      <3>1. Len(onexit) <= callbacks /\ callbacks' = callbacks + 1
        BY <2>1 DEF Registered
      <3>2. ASSUME NEW i \in 1 .. Len(onexit) + 1
            PROVE  onexit'[i] = callbacks + 1 - (Len(onexit) + 1) + i
        <4>1. CASE i = Len(onexit) + 1
          BY <1>t, <2>2, <4>1
        <4>2. CASE i # Len(onexit) + 1
          <5>1. i \in 1 .. Len(onexit)
            BY <1>t, <4>2
          <5>2. onexit'[i] = callbacks - Len(onexit) + i
            BY <2>2, <5>1 DEF Registered
          <5> QED
            BY <1>t, <5>1, <5>2
        <4> QED
          BY <4>1, <4>2
      <3> QED
        BY <1>t, <2>2, <3>1, <3>2 DEF Registered
    <2>4. BaseOnly' /\ Pending' = Pending
      BY <2>1 DEF BaseOnly, Pending, IsModule
    <2>5. RanInOrder'
      <3>1. /\ Len(ran) = callbacks - Len(onexit) + called - Pending
            /\ \A i \in 1 .. Len(ran) : ran[i] = i
        BY DEF RanInOrder
      <3>2. Pending \in {0, 1}
        BY DEF Pending
      <3>3. /\ callbacks' = callbacks + 1 /\ Len(onexit') = Len(onexit) + 1
            /\ called' = called /\ ran' = ran /\ Pending' = Pending
        BY <2>1, <2>2, <2>4
      <3>4. /\ callbacks \in Nat /\ Len(onexit) \in Nat /\ called \in Nat
            /\ callbacks' \in Nat /\ Len(onexit') \in Nat /\ called' \in Nat
            /\ Pending \in Nat /\ Pending' \in Nat
        BY <1>t, <3>2, <3>3
      <3>5. Len(ran') = callbacks' - Len(onexit') + called' - Pending'
        <4>1. Len(ran') = Len(ran) /\ Len(ran) = callbacks - Len(onexit) + called - Pending
          BY <3>1, <3>3
        <4>2. callbacks' - Len(onexit') = callbacks - Len(onexit)
          <5>1. callbacks' = callbacks + 1 /\ Len(onexit') = Len(onexit) + 1
            BY <3>3
          <5> QED
            BY <5>1, <3>4
        <4>3. called' = called /\ Pending' = Pending
          BY <3>3
        <4> QED
          BY <4>1, <4>2, <4>3, <3>4
      <3>6. \A i \in 1 .. Len(ran') : ran'[i] = i
        BY <3>1, <3>3
      <3> QED
        BY <3>5, <3>6 DEF RanInOrder
    <2>6. phase' # "idle"
      BY <1>t, <2>1
    <2> QED
      BY <2>3, <2>4, <2>5, <2>6 DEF IdleIsClear
  <1>5. CASE \/ \E code \in Codes : JsExit(code)
             \/ \E m \in Modules \cup {None} : StartRequest(m)
             \/ \E paths \in BOOLEAN : Prepared(paths)
             \/ Finish
             \/ UNCHANGED vars
    <2>1. /\ UNCHANGED <<onexit, called, callbacks, ran, stack>>
          /\ phase' = "idle" => phase = "idle"
      BY <1>5 DEF JsExit, StartRequest, Prepared, Finish, vars, serving, atexit
    <2>2. BaseOnly' /\ Pending' = Pending
      BY <2>1 DEF BaseOnly, Pending, IsModule
    <2> QED
      BY <1>1, <2>1, <2>2
  <1>6. CASE CallOnexit
    <2> DEFINE frame == [mod |-> None, key |-> None, obj |-> None, todo |-> <<>>,
                         runs |-> TRUE]
    <2>1. /\ stack = <<>> /\ stack' = <<frame>> /\ ~ IsModule(frame)
          /\ called' = called + 1
          /\ UNCHANGED <<onexit, callbacks, ran, phase>> /\ phase # "idle"
      BY <1>6 DEF CallOnexit, serving, IsModule
    <2> HIDE DEF frame
    <2>2. Len(stack') = 1 /\ stack'[1] = frame /\ Len(stack) = 0
      BY <2>1
    <2>3. BaseOnly' /\ Pending = 0 /\ Pending' = 1
      BY <2>1, <2>2 DEF BaseOnly, Pending, IsModule
    <2> QED
      BY <1>t, <2>1, <2>3 DEF Registered, RanInOrder, IdleIsClear
  <1>7. CASE OnexitReturns
    <2>1. /\ Len(stack) > 0 /\ ~ IsModule(Top) /\ stack' = Pop
          /\ ran' = Append(ran, onexit[called])
          /\ UNCHANGED <<onexit, called, callbacks, phase>>
      BY <1>t, <1>7 DEF OnexitReturns, Running, serving
    <2>2. Len(stack) = 1
      BY <1>t, <2>1 DEF BaseOnly
    <2>3. Len(stack') = 0
      BY <1>t, <2>1, <2>2, StackFacts DEF LoaderInv
    <2>4. BaseOnly' /\ Pending = 1 /\ Pending' = 0
      BY <1>t, <2>1, <2>2, <2>3 DEF BaseOnly, Pending
    <2>5. called \in 1 .. Len(onexit)
      <3>1. called > 0
        BY <1>t, <2>1, <2>2 DEF LoaderInv, FrameShape
      <3> QED
        BY <1>t, <3>1
    <2>6. onexit[called] = Len(ran) + 1
      BY <1>t, <2>4, <2>5 DEF Registered, RanInOrder
    <2>7. /\ Len(ran') = Len(ran) + 1 /\ ran'[Len(ran) + 1] = onexit[called]
          /\ \A i \in 1 .. Len(ran) : ran'[i] = ran[i]
      BY <1>t, <2>1, <2>6 DEF Registered
    <2>8. RanInOrder'
      <3>1. Len(ran') = callbacks' - Len(onexit') + called' - Pending'
        BY <1>t, <2>1, <2>4, <2>7 DEF RanInOrder
      <3>2. ASSUME NEW i \in 1 .. Len(ran) + 1  PROVE ran'[i] = i
        <4>1. CASE i = Len(ran) + 1
          BY <2>6, <2>7, <4>1
        <4>2. CASE i # Len(ran) + 1
          <5>1. i \in 1 .. Len(ran)
            BY <1>t, <4>2
          <5> QED
            BY <2>7, <5>1 DEF RanInOrder
        <4> QED
          BY <4>1, <4>2
      <3> QED
        BY <2>7, <3>1, <3>2 DEF RanInOrder
    <2> QED
      BY <2>1, <2>4, <2>8 DEF Registered, IdleIsClear
  <1>8. CASE EndRequest
    <2>1. /\ stack = <<>> /\ called >= Len(onexit)
          /\ onexit' = <<>> /\ called' = 0
          /\ UNCHANGED <<stack, callbacks, ran>>
      BY <1>t, <1>8 DEF EndRequest, MoreCallbacks, clearOnexit
    <2>2. BaseOnly' /\ Pending = 0 /\ Pending' = 0 /\ Len(onexit') = 0
      BY <2>1 DEF BaseOnly, Pending
    <2> QED
      BY <1>t, <2>1, <2>2 DEF Registered, RanInOrder, IdleIsClear
  <1> QED
    BY <1>2, <1>3, <1>4, <1>5, <1>6, <1>7, <1>8, Constants
       DEF Next, JavaScript, Request, LoaderInv, TypeOK, RequestTypes

\* When a request is over each callback registered in it has run once and in order,
\* those that other callbacks registered and those left by an exception included.
THEOREM CallbacksRunOnce == Spec => []OnexitOnce
  BY LoaderInit, LoaderStep, AtexitInit, AtexitStep, AtexitImplies, PTL DEF Spec

-----------------------------------------------------------------------------
(* The loader implements ModuleRegistry.                                    *)

\* A step that leaves the exports, what is loading and what is loaded as they are
\* leaves every key where it stands.
LEMMA SameKeyState ==
    ASSUME UNCHANGED <<exports, done>>, \A k \in Keys : Loading(k)' <=> Loading(k)
    PROVE  KeyState' = KeyState
  BY DEF KeyState

\* Where the key of a frame that can be left stands.
LEMMA TopStands ==
    ASSUME LoaderInv, Depth > 0, IsModule(Top)
    PROVE  /\ Top.key \in Keys /\ exports[Top.key] = Top.obj /\ Top.obj # None
           /\ Loading(Top.key) /\ KeyState[Top.key] = "loading"
           /\ \A d \in done : d.key # Top.key
  <1>1. /\ Top.key \in Keys /\ exports[Top.key] = Top.obj /\ Top.obj \in Objects
        /\ \A d \in done : d.key # Top.key
    BY TopIsModule
  <1>2. Top.obj # None
    BY <1>1, Constants DEF Objects
  <1>3. Top = stack[Len(stack)] /\ Len(stack) \in 1 .. Len(stack)
    BY DEF LoaderInv, TypeOK, LoaderTypes, Depth, Top
  <1>4. Loading(Top.key)
    BY <1>1, <1>3 DEF Loading
  <1> QED
    BY <1>1, <1>2, <1>4 DEF KeyState

\* When a frame is left no other key starts or stops loading.
LEMMA PopLoads ==
    ASSUME LoaderInv, Depth > 0, stack' = Pop, called' = called
    PROVE  /\ \A k \in Keys : IsModule(Top) /\ k = Top.key => ~ Loading(k)'
           /\ \A k \in Keys : exports'[k] = exports[k] /\ k # Top.key =>
                 (Loading(k)' <=> Loading(k))
  <1>1. /\ \A i \in 1 .. Len(stack') : i \in 1 .. Len(stack) /\ stack'[i] = stack[i]
        /\ \A i \in 1 .. Len(stack') : IsModule(Top) => stack'[i].key # Top.key
        /\ \A k \in Keys : exports'[k] = exports[k] /\ Loading(k) =>
              \/ Loading(k)'
              \/ k = Top.key /\ exports[k] = Top.obj
    BY PopKeeps
  <1>2. ASSUME NEW k \in Keys, IsModule(Top), k = Top.key
        PROVE  ~ Loading(k)'
    BY <1>1, <1>2 DEF Loading
  <1>3. ASSUME NEW k \in Keys, exports'[k] = exports[k], k # Top.key
        PROVE  Loading(k)' <=> Loading(k)
    <2>1. Loading(k)' => Loading(k)
      BY <1>1, <1>3 DEF Loading
    <2> QED
      BY <1>1, <1>3, <2>1
  <1> QED
    BY <1>2, <1>3

\* A key takes a new place, all others stay.
LEMMA BeginIsBegin ==
    ASSUME LoaderInv, NEW m \in Modules, ~ Cached(m), BeginLoad(m), UNCHANGED done
    PROVE  Registry!Begin(Key[m])
  <1> DEFINE frame == [mod |-> m, key |-> Key[m], obj |-> objects + 1,
                       todo |-> Parts[m], runs |-> FALSE]
  <1>1. /\ stack \in Seq(Frames) /\ exports \in [Keys -> Objects \cup {None}]
        /\ Len(stack) \in Nat /\ Key[m] \in Keys /\ objects + 1 \in Nat
    BY Constants, LenProperties DEF LoaderInv, TypeOK, LoaderTypes
  <1>2. /\ exports' = [exports EXCEPT ![Key[m]] = objects + 1]
        /\ objects' = objects + 1 /\ stack' = Append(stack, frame)
    BY DEF BeginLoad
  <1>3. /\ Len(stack') = Len(stack) + 1 /\ stack'[Len(stack) + 1] = frame
        /\ \A i \in 1 .. Len(stack) : stack'[i] = stack[i]
    <2> HIDE DEF frame, Frames
    <2> QED
      BY <1>1, <1>2, AppendProperties
  <1>4. objects + 1 # None
    BY <1>1, Constants
  <1>5. Loading(Key[m])'
    <2>1. Len(stack) + 1 \in 1 .. Len(stack')
      BY <1>1, <1>3
    <2>2. exports'[Key[m]] = objects + 1
      BY <1>1, <1>2
    <2>3. frame.key = Key[m] /\ frame.obj = objects + 1
      OBVIOUS
    <2> QED
      BY <1>3, <2>1, <2>2, <2>3 DEF Loading
  <1>6. ASSUME NEW k \in Keys, k # Key[m]
        PROVE  exports'[k] = exports[k] /\ (Loading(k)' <=> Loading(k))
    <2>1. exports'[k] = exports[k]
      BY <1>1, <1>2, <1>6
    <2>2. frame.key # k
      BY <1>6
    <2>3. \A i \in 1 .. Len(stack') : i \in 1 .. Len(stack) \/ stack'[i] = frame
      <3> HIDE DEF frame
      <3> QED
        BY <1>1, <1>3
    <2>4. 1 .. Len(stack) \subseteq 1 .. Len(stack')
      BY <1>1, <1>3
    <2> HIDE DEF frame
    <2>5. Loading(k)' => Loading(k)
      BY <1>3, <2>1, <2>2, <2>3 DEF Loading
    <2>6. Loading(k) => Loading(k)'
      BY <1>3, <2>1, <2>4 DEF Loading
    <2> QED
      BY <2>1, <2>5, <2>6
  <1>7. KeyState[Key[m]] = "absent"
    BY <1>1 DEF KeyState, Cached
  <1>8. KeyState' = [KeyState EXCEPT ![Key[m]] = "loading"]
    <2>1. KeyState'[Key[m]] = "loading"
      BY <1>1, <1>2, <1>4, <1>5 DEF KeyState
    <2>2. \A k \in Keys : k # Key[m] => KeyState'[k] = KeyState[k]
      BY <1>6 DEF KeyState
    <2>3. /\ KeyState = [k \in Keys |-> KeyState[k]]
          /\ KeyState' = [k \in Keys |-> KeyState'[k]]
      BY DEF KeyState
    <2> QED
      BY <1>1, <2>1, <2>2, <2>3
  <1> QED
    BY <1>2, <1>7, <1>8 DEF Registry!Begin

\* What becomes of the key of a frame that is left, whatever it is.
LEMMA LeaveSettles ==
    ASSUME LoaderInv, Depth > 0, IsModule(Top), stack' = Pop, called' = called,
           \A k \in Keys \ {Top.key} : exports'[k] = exports[k],
           \A k \in Keys \ {Top.key} :
              (\E d \in done' : d.key = k) <=> (\E d \in done : d.key = k)
    PROVE  KeyState' = [KeyState EXCEPT ![Top.key] =
              CASE exports'[Top.key] = None -> "absent"
                [] exports'[Top.key] # None ->
                      IF \E d \in done' : d.key = Top.key THEN "loaded" ELSE "broken"]
  <1>1. Top.key \in Keys
    BY TopStands
  <1>2. /\ \A k \in Keys : k = Top.key => ~ Loading(k)'
        /\ \A k \in Keys \ {Top.key} : Loading(k)' <=> Loading(k)
    BY PopLoads
  <1>3. \A k \in Keys \ {Top.key} : KeyState'[k] = KeyState[k]
    BY <1>2 DEF KeyState
  <1>4. KeyState'[Top.key] =
              CASE exports'[Top.key] = None -> "absent"
                [] exports'[Top.key] # None ->
                      IF \E d \in done' : d.key = Top.key THEN "loaded" ELSE "broken"
    <2> SUFFICES ASSUME NEW k \in Keys, k = Top.key
                 PROVE  KeyState'[k] =
                           CASE exports'[k] = None -> "absent"
                             [] exports'[k] # None ->
                                   IF \E d \in done' : d.key = k THEN "loaded" ELSE "broken"
      BY <1>1
    <2>1. ~ Loading(k)'
      BY <1>2
    <2>2. CASE exports'[k] = None
      BY <2>1, <2>2 DEF KeyState
    <2>3. CASE exports'[k] # None
      BY <2>1, <2>3 DEF KeyState
    <2> QED
      BY <2>2, <2>3
  <1>5. /\ KeyState = [k \in Keys |-> KeyState[k]]
        /\ KeyState' = [k \in Keys |-> KeyState'[k]]
    BY DEF KeyState
  <1> QED
    BY <1>1, <1>3, <1>4, <1>5

LEMMA LoadRegisters ==
    LoaderInv /\ Load => Registry!Next \/ UNCHANGED <<KeyState, exports, objects>>
  <1> SUFFICES ASSUME LoaderInv, Load
               PROVE  Registry!Next \/ UNCHANGED <<KeyState, exports, objects>>
    OBVIOUS
  <1>t. LoaderTypes
    BY DEF LoaderInv, TypeOK
  <1>1. CASE EndLoad
    <2> DEFINE d == [mod |-> Top.mod, key |-> Top.key, obj |-> Top.obj]
    <2>1. /\ Depth > 0 /\ stack' = Pop /\ called' = called /\ ~ Top.runs
          /\ done' = done \cup {d} /\ UNCHANGED <<exports, objects>>
      BY <1>1 DEF EndLoad, Leave, cache, atexit
    <2>2. IsModule(Top)
      BY <2>1, TopIsModule
    <2>3. Top.key \in Keys /\ exports[Top.key] # None /\ KeyState[Top.key] = "loading"
      BY <2>1, <2>2, TopStands
    <2>4. (\E e \in done' : e.key = Top.key)
          /\ \A k \in Keys \ {Top.key} :
                (\E e \in done' : e.key = k) <=> (\E e \in done : e.key = k)
      <3>1. d.key = Top.key
        OBVIOUS
      <3>2. d \in done' /\ \A e \in done' : e \in done \/ e = d
        BY <2>1
      <3>3. \A e \in done : e \in done'
        BY <2>1
      <3> HIDE DEF d
      <3> QED
        BY <3>1, <3>2, <3>3
    <2>5. KeyState' = [KeyState EXCEPT ![Top.key] = "loaded"]
      BY <2>1, <2>2, <2>3, <2>4, LeaveSettles
    <2>6. Registry!End(Top.key, "loaded")
      BY <2>1, <2>3, <2>5 DEF Registry!End
    <2> QED
      BY <2>3, <2>6 DEF Registry!Next
  <1>2. CASE LoadThrows
    <2>1. /\ Depth > 0 /\ stack' = Pop /\ called' = called /\ ~ Top.runs
          /\ UNCHANGED <<exports, objects, done>>
      BY <1>2 DEF LoadThrows, Leave, AtFile, cache, atexit
    <2>2. IsModule(Top)
      BY <2>1, TopIsModule
    <2>3. /\ Top.key \in Keys /\ exports[Top.key] # None /\ KeyState[Top.key] = "loading"
          /\ ~ \E d \in done' : d.key = Top.key
      BY <2>1, <2>2, TopStands
    <2>5. KeyState' = [KeyState EXCEPT ![Top.key] = "broken"]
      BY <2>1, <2>2, <2>3, LeaveSettles
    <2>6. Registry!End(Top.key, "broken")
      BY <2>1, <2>3, <2>5 DEF Registry!End
    <2> QED
      BY <2>3, <2>6 DEF Registry!Next
  <1>3. CASE LoadFails
    <2>1. /\ Depth > 0 /\ stack' = Pop /\ called' = called
          /\ ~ Top.runs \/ IsModule(Top)
          /\ exports' = [exports EXCEPT ![Top.key] = None]
          /\ UNCHANGED <<objects, done>>
      BY <1>3 DEF LoadFails, Leave, AtFile, Running, removeExports, loads, atexit
    <2>2. IsModule(Top)
      BY <2>1, TopIsModule
    <2>3. Top.key \in Keys /\ KeyState[Top.key] = "loading"
      BY <2>1, <2>2, TopStands
    <2>4. exports'[Top.key] = None /\ \A k \in Keys \ {Top.key} : exports'[k] = exports[k]
      BY <1>t, <2>1, <2>3 DEF LoaderTypes
    <2>5. KeyState' = [KeyState EXCEPT ![Top.key] = "absent"]
      BY <2>1, <2>2, <2>3, <2>4, LeaveSettles
    <2>6. Registry!Fail(Top.key)
      BY <2>1, <2>3, <2>5 DEF Registry!Fail
    <2> QED
      BY <2>3, <2>6 DEF Registry!Next
  <1>4. CASE LoadDso \/ CallModule \/ ModuleReturns
    <2>1. UNCHANGED <<exports, objects, done>>
      BY <1>4 DEF LoadDso, CallModule, ModuleReturns, cache, loads
    <2>2. Len(stack) \in 1 .. Len(stack) /\ stack[Len(stack)] \in Frames
      <3>1. Len(stack) > 0 /\ stack \in Seq(Frames)
        BY <1>t, <1>4 DEF LoadDso, CallModule, ModuleReturns, AtFile, Running, Depth, LoaderTypes
      <3> HIDE DEF Frames
      <3> QED
        BY <3>1
    <2>3. /\ Len(stack') = Len(stack)
          /\ \A i \in 1 .. Len(stack) : /\ stack'[i].key = stack[i].key
                                        /\ stack'[i].obj = stack[i].obj
      <3>t. stack \in Seq(Frames) /\ Depth = Len(stack)
        BY <1>t DEF LoaderTypes, Depth
      <3>1. CASE LoadDso
        BY <3>t, <2>2, <3>1 DEF LoadDso, Frames
      <3>2. CASE CallModule
        BY <3>t, <2>2, <3>2 DEF CallModule, Frames
      <3>3. CASE ModuleReturns
        BY <3>t, <2>2, <3>3 DEF ModuleReturns, Frames
      <3> QED
        BY <1>4, <3>1, <3>2, <3>3
    <2>4. \A k \in Keys : Loading(k)' <=> Loading(k)
      BY <2>1, <2>3 DEF Loading
    <2> QED
      BY <2>1, <2>4, SameKeyState
  <1> QED
    BY <1>1, <1>2, <1>3, <1>4 DEF Load

LEMMA RegistryInit == Init => Registry!Init
  BY DEF Init, Registry!Init, KeyState

LEMMA RegistryStep ==
    LoaderInv /\ [Next]_vars => Registry!Next \/ UNCHANGED <<KeyState, exports, objects>>
  <1> SUFFICES ASSUME LoaderInv, [Next]_vars
               PROVE  Registry!Next \/ UNCHANGED <<KeyState, exports, objects>>
    OBVIOUS
  <1>t. LoaderTypes /\ RequestTypes
    BY DEF LoaderInv, TypeOK
  <1>1. ASSUME UNCHANGED <<exports, objects, done, stack>>
        PROVE  UNCHANGED <<KeyState, exports, objects>>
    <2>1. \A k \in Keys : Loading(k)' <=> Loading(k)
      BY <1>1 DEF Loading
    <2> QED
      BY <1>1, <2>1, SameKeyState
  <1>2. ASSUME NEW m \in Modules, ~ Cached(m), BeginLoad(m), UNCHANGED done
        PROVE  Registry!Next
    <2>1. Registry!Begin(Key[m]) /\ Key[m] \in Keys
      BY <1>2, BeginIsBegin, Constants
    <2> QED
      BY <2>1 DEF Registry!Next
  <1>3. CASE Load
    BY <1>3, LoadRegisters
  <1>4. ASSUME NEW m \in Modules, JsRequire(m)
        PROVE  Registry!Next
    BY <1>2, <1>4 DEF JsRequire, loads
  <1>5. ASSUME NEW m \in Modules \cup {None}, NEW p, TopRequire(p, m)
        PROVE  Registry!Next \/ UNCHANGED <<KeyState, exports, objects>>
    <2>1. UNCHANGED done /\ (UNCHANGED <<exports, objects, stack>>
             \/ (m \in Modules /\ ~ Cached(m) /\ BeginLoad(m)))
      BY <1>5 DEF TopRequire, loads, cache
    <2> QED
      BY <1>1, <1>2, <2>1
  <1>6. CASE \/ JsOnexit
             \/ \E code \in Codes : JsExit(code)
             \/ \E m \in Modules \cup {None} : StartRequest(m)
             \/ \E paths \in BOOLEAN : Prepared(paths)
             \/ Finish
             \/ UNCHANGED vars
    <2>1. UNCHANGED <<exports, objects, done, stack>>
      BY <1>6 DEF JsOnexit, JsExit, StartRequest, Prepared, Finish, vars, cache, loads
    <2> QED
      BY <1>1, <2>1
  <1>7. CASE CallOnexit
    <2> DEFINE frame == [mod |-> None, key |-> None, obj |-> None, todo |-> <<>>,
                         runs |-> TRUE]
    <2>1. stack = <<>> /\ stack' = <<frame>> /\ frame.key = None
          /\ UNCHANGED <<exports, objects, done>>
      BY <1>7 DEF CallOnexit, cache, loads
    <2> HIDE DEF frame
    <2>2. \A k \in Keys : Loading(k)' <=> Loading(k)
      BY <2>1, Constants DEF Loading
    <2> QED
      BY <2>1, <2>2, SameKeyState
  <1>8. CASE OnexitReturns
    <2>1. /\ Depth > 0 /\ ~ IsModule(Top) /\ stack' = Pop /\ called' = called
          /\ UNCHANGED <<exports, objects, done>>
      BY <1>8 DEF OnexitReturns, Running, cache, loads
    <2>2. Top.key = None
      <3>1. Len(stack) \in 1 .. Len(stack) /\ Top = stack[Len(stack)]
        BY <1>t, <2>1 DEF LoaderTypes, Depth, Top
      <3> QED
        BY <2>1, <3>1 DEF LoaderInv, FrameShape
    <2>3. \A k \in Keys : Loading(k)' <=> Loading(k)
      BY <2>1, <2>2, PopLoads, Constants
    <2> QED
      BY <2>1, <2>3, SameKeyState
  <1>9. CASE EndRequest
    <2>1. /\ stack = <<>> /\ exports' = [k \in Keys |-> None] /\ UNCHANGED objects
      BY <1>9 DEF EndRequest, clearExports
    <2>2. \A k \in Keys : KeyState[k] # "loading"
      BY <2>1 DEF KeyState, Loading
    <2>3. KeyState' = [k \in Keys |-> "absent"]
      BY <2>1 DEF KeyState
    <2> QED
      BY <2>1, <2>2, <2>3 DEF Registry!Next, Registry!Over
  <1> QED
    <2>1. Config \in Modules \cup {None} /\ mainfile \in Modules \cup {None}
      BY <1>t, Constants DEF RequestTypes
    <2> QED
      BY <1>3, <1>4, <1>5, <1>6, <1>7, <1>8, <1>9, <2>1 DEF Next, JavaScript, Request

\* The loader implements ModuleRegistry, for any modules, keys, hybrid or missing
\* modules and failures: within a request a key that loads or has loaded stands for
\* one object, and only the failure of its own script or the end of the request, when
\* nothing loads, gives it back.
THEOREM ImplementsRegistry == Spec => RequireKept
  <1>1. LoaderInv /\ [Next]_vars => [Registry!Next]_Registry!vars
    BY RegistryStep DEF Registry!vars
  <1> QED
    BY <1>1, RegistryInit, LoaderInit, LoaderStep, PTL DEF Spec, RequireKept, Registry!Spec
=============================================================================
