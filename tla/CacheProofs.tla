---------------------------- MODULE CacheProofs ----------------------------
(* What Cache guarantees for any files and any number of changes to them.   *)
EXTENDS Cache, TLAPS

-----------------------------------------------------------------------------
(* Handles.  erase decrements a count that must not be zero, so the type of *)
(* the counts, the liveness of the cached handles and that of the image in  *)
(* flight are one inductive invariant.                                      *)

ImageInFlight ==
    op.pc = "loaded" /\ op.file \in Libs =>
        loaded[op.file].refs > 0 /\ loaded[op.file].ver = op.ver

HandleInv == TypeOK /\ HandleAlive /\ ImageInFlight

\* The cache is empty when the process starts.
LEMMA HandleInit == Init => HandleInv
  BY CacheConstants DEF Init, HandleInv, TypeOK, HandleAlive, ImageInFlight,
     Idle, Calls, Contents, Versions, Times, Files

\* A change of the files touches no handle and no image.
LEMMA HandleHost == HandleInv /\ Host => HandleInv'
  <1> SUFFICES ASSUME HandleInv, Host PROVE HandleInv'
    OBVIOUS
  <1> USE CacheConstants DEF HandleInv, HandleAlive, ImageInFlight, TypeOK,
          Calls, Contents, Versions, Times, Files, Disturb
  <1>1. ASSUME NEW f \in Files, NEW t \in Times, NEW good \in BOOLEAN,
               Replace(f, t, good)
        PROVE  HandleInv'
    <2>a. writes + 1 \in Times /\ writes' \in Times
      BY <1>1 DEF Replace, entries
    <2>b. disk' \in [Files -> Versions \cup {None}]
      BY <1>1, <2>a DEF Replace, entries
    <2>c. op' \in Calls /\ op'.pc = op.pc /\ op'.file = op.file
      BY <1>1 DEF Replace, entries
    <2>1. TypeOK'
      BY <1>1, <2>a, <2>b, <2>c DEF Replace, entries
    <2> QED
      BY <1>1, <2>1 DEF Replace, entries
  <1>2. ASSUME NEW f \in Scripts, NEW good \in BOOLEAN, Truncate(f, good)
        PROVE  HandleInv'
    <2>a. writes + 1 \in Times /\ writes' \in Times
      BY <1>2 DEF Truncate, entries
    <2>b. disk' \in [Files -> Versions \cup {None}]
      BY <1>2, <2>a DEF Truncate, entries
    <2>c. op' \in Calls /\ op'.pc = op.pc /\ op'.file = op.file
      BY <1>2 DEF Truncate, entries
    <2>1. TypeOK'
      BY <1>2, <2>a, <2>b, <2>c DEF Truncate, entries
    <2> QED
      BY <1>2, <2>1 DEF Truncate, entries
  <1>3. ASSUME NEW f \in Files, Delete(f)
        PROVE  HandleInv'
    <2>1. TypeOK'
      BY <1>3 DEF Delete, entries
    <2> QED
      BY <1>3, <2>1 DEF Delete, entries
  <1> QED
    BY <1>1, <1>2, <1>3 DEF Host

\* A call keeps it: what erase closes it also forgets, and what dlopen returns
\* stays open until mark has stored it.
LEMMA HandleCall ==
    ASSUME HandleInv, (\E f \in Files : Hit(f) \/ Miss(f)) \/ Proceed
    PROVE  HandleInv'
  <1> USE DEF HandleInv, HandleAlive, ImageInFlight, TypeOK, Calls
  <1>0. /\ None \in Contents /\ Times \subseteq Contents
        /\ Files = Scripts \cup Libs /\ Scripts \cap Libs = {}
        /\ None \notin Files
        /\ Idle \in [pc : {"idle"}, file : {None}, ver : {None}, ok : {FALSE},
                    raced : {FALSE}, short : {FALSE}]
    BY CacheConstants DEF Contents, Files, Idle
  <1>1. ASSUME NEW f \in Files, Hit(f)  PROVE HandleInv'
    BY <1>0, <1>1 DEF Hit, entries
  <1>2. ASSUME NEW f \in Files, Miss(f)  PROVE HandleInv'
    <2>1. CASE Stale(f)
      <3>1. loaded' \in [Files -> [ver : Contents, refs : Nat]]
        <4>1. CASE handles[f] = None
          BY <1>2, <2>1, <4>1 DEF Miss, entries, erase, dlclose, Forget
        <4>2. CASE handles[f] # None
          <5>1. loaded[f].refs - 1 \in Nat
            BY <4>2
          <5>2. loaded' = [loaded EXCEPT ![f].refs = @ - 1]
            BY <1>2, <2>1, <4>2 DEF Miss, entries, erase, dlclose, Forget
          <5> QED
            BY <5>1, <5>2
        <4> QED
          BY <4>1, <4>2
      <3>2. /\ handles' = [handles EXCEPT ![f] = None]
            /\ scripts' = [scripts EXCEPT ![f] = None]
            /\ \A g \in Files \ {f} : loaded'[g] = loaded[g]
            /\ op' = [Idle EXCEPT !.pc = "miss", !.file = f]
            /\ raced' = raced \ {f}
            /\ UNCHANGED <<disk, writes, modified>>
        BY <1>2, <2>1 DEF Miss, entries, erase, dlclose, Forget
      <3>3. /\ op' \in Calls
            /\ op'.pc = "miss" /\ op'.file = f
        BY <1>0, <3>2 DEF Idle
      <3>4. TypeOK'
        BY <1>0, <3>1, <3>2, <3>3
      <3> QED
        BY <3>2, <3>3, <3>4
    <2>2. CASE ~ Stale(f)
      BY <1>0, <1>2, <2>2 DEF Miss, entries, Idle
    <2> QED
      BY <2>1, <2>2
  <1>3. CASE OpenSource
    BY <1>0, <1>3 DEF OpenSource, entries, Idle, Versions
  <1>4. CASE ReadSource
    BY <1>0, <1>4 DEF ReadSource, entries, Compiled
  <1>5. CASE DlOpen
    <2> DEFINE f == op.file
    <2>1. f \in Files
      BY <1>5 DEF DlOpen, entries
    <2>2. CASE loaded[f].refs > 0
      <3>1. /\ loaded' = [loaded EXCEPT ![f].refs = @ + 1]
            /\ op' = [op EXCEPT !.pc = "loaded", !.ver = loaded[f].ver]
        BY <1>0, <1>5, <2>2 DEF DlOpen, entries
      <3>2. loaded' \in [Files -> [ver : Contents, refs : Nat]]
        <4>1. loaded[f].refs + 1 \in Nat /\ loaded[f] \in [ver : Contents, refs : Nat]
          BY <2>1
        <4> QED
          BY <3>1, <4>1
      <3>3. op' \in Calls /\ op'.pc = "loaded" /\ op'.file = f
        BY <1>0, <2>1, <3>1
      <3>4. UNCHANGED <<disk, writes, modified, scripts, handles, raced>>
        BY <1>5 DEF DlOpen, entries
      <3>5. TypeOK'
        BY <2>1, <3>2, <3>3, <3>4
      <3> QED
        BY <2>1, <3>1, <3>3, <3>4, <3>5
    <2>3. CASE ~ (loaded[f].refs > 0) /\ disk[f] # None /\ disk[f].ok
      <3>0. disk[f].ver \in Contents
        BY <1>0, <2>1, <2>3 DEF Versions
      <3>1. /\ loaded' = [loaded EXCEPT ![f] = [ver |-> disk[f].ver, refs |-> 1]]
            /\ op' = [op EXCEPT !.pc = "loaded", !.ver = disk[f].ver]
        BY <1>0, <1>5, <2>3 DEF DlOpen, entries
      <3>2. loaded' \in [Files -> [ver : Contents, refs : Nat]]
        BY <2>1, <3>0, <3>1
      <3>3. op' \in Calls /\ op'.pc = "loaded" /\ op'.file = f
        BY <3>0, <3>1
      <3>4. UNCHANGED <<disk, writes, modified, scripts, handles, raced>>
        BY <1>5 DEF DlOpen, entries
      <3>5. TypeOK'
        BY <2>1, <3>2, <3>3, <3>4
      <3>6. \A g \in Files : handles[g] # None => g # f \/ loaded[f].refs > 0
        OBVIOUS
      <3> QED
        BY <2>1, <2>3, <3>1, <3>3, <3>4, <3>5, <3>6
    <2>4. CASE ~ (loaded[f].refs > 0) /\ ~ (disk[f] # None /\ disk[f].ok)
      BY <1>0, <1>5, <2>4 DEF DlOpen, entries
    <2> QED
      BY <2>2, <2>3, <2>4
  <1>6. ASSUME NEW t \in Times, Mark(t)  PROVE HandleInv'
    <2>1. TypeOK'
      BY <1>0, <1>6 DEF Mark, entries
    <2> QED
      BY <1>0, <1>6, <2>1 DEF Mark, entries
  <1> QED
    BY <1>1, <1>2, <1>3, <1>4, <1>5, <1>6 DEF Proceed

LEMMA HandleStep == HandleInv /\ [Next]_vars => HandleInv'
  <1>1. ASSUME HandleInv, UNCHANGED vars  PROVE HandleInv'
    BY <1>1 DEF HandleInv, HandleAlive, ImageInFlight, TypeOK, vars, entries
  <1> QED
    BY <1>1, HandleHost, HandleCall DEF Next

\* Type correctness; above all, the count of an image never goes below zero
\* (Cache::erase never closes an image twice).
THEOREM TypeCorrect == Spec => []TypeOK
  BY HandleInit, HandleStep, PTL DEF Spec, HandleInv

\* A handle that the cache holds, and that the next getHandle may return, is never
\* one that was closed, whatever the host does to the files.
THEOREM HandlesStayOpen == Spec => []HandleAlive
  BY HandleInit, HandleStep, PTL DEF Spec, HandleInv

-----------------------------------------------------------------------------
(* Freshness of scripts.  When every change gives a file an mtime it never  *)
(* had, the mtime names the content: on disk, in the call in flight, and in *)
(* modified.                                                                *)

MtimeNamesContent ==
    \A f \in Files : disk[f] # None => disk[f].mtime = disk[f].ver

\* What an undisturbed call has read is what mark will see.
ReadIsCurrent ==
    op.file \in Scripts /\ op.pc \in {"opened", "loaded"} /\ ~ op.raced
    /\ (op.pc = "opened" => ~ op.short) =>
        disk[op.file] # None /\ disk[op.file].ver = op.ver

\* The recorded mtime is the one the cached content had.
RecordedMtime ==
    \A f \in Scripts \ raced : scripts[f] # None => modified[f] = scripts[f]

FreshInv == MtimeNamesContent /\ ReadIsCurrent /\ RecordedMtime

LEMMA FreshImplies == TypeOK /\ FreshInv => FreshScripts
  BY DEF TypeOK, FreshInv, MtimeNamesContent, RecordedMtime, FreshScripts, Cached, Files

LEMMA FreshInit == Init => FreshInv
  BY CacheConstants DEF Init, Idle, FreshInv, MtimeNamesContent, ReadIsCurrent,
     RecordedMtime, Files

LEMMA FreshStep ==
    ASSUME "reuse_mtime" \notin Faults
    PROVE  TypeOK /\ FreshInv /\ [Next]_vars => FreshInv'
  <1> SUFFICES ASSUME TypeOK, FreshInv, [Next]_vars PROVE FreshInv'
    OBVIOUS
  <1> USE DEF FreshInv, MtimeNamesContent, ReadIsCurrent, RecordedMtime
  <1>0. /\ Files = Scripts \cup Libs /\ Scripts \cap Libs = {} /\ None \notin Files
        /\ op \in Calls /\ writes \in Nat
        /\ disk \in [Files -> Versions \cup {None}]
        /\ modified \in [Files -> Contents] /\ scripts \in [Files -> Contents]
        /\ None \notin Nat
    BY CacheConstants DEF Files, TypeOK, Times
  <1>1. ASSUME NEW f \in Files, NEW t \in Times, NEW good \in BOOLEAN,
               Replace(f, t, good)
        PROVE  FreshInv'
    <2>1. t = writes + 1
      BY <1>1 DEF Replace, entries, NewMtime
    <2>2. MtimeNamesContent'
      BY <1>0, <1>1, <2>1 DEF Replace, entries
    <2>3. ReadIsCurrent'
      BY <1>0, <1>1 DEF Replace, entries, Disturb, Calls
    <2> QED
      BY <1>1, <2>2, <2>3 DEF Replace, entries
  <1>2. ASSUME NEW f \in Scripts, NEW good \in BOOLEAN, Truncate(f, good)
        PROVE  FreshInv'
    <2>1. MtimeNamesContent'
      BY <1>0, <1>2 DEF Truncate, entries
    <2>2. ReadIsCurrent'
      BY <1>0, <1>2 DEF Truncate, entries, Calls
    <2> QED
      BY <1>2, <2>1, <2>2 DEF Truncate, entries
  <1>3. ASSUME NEW f \in Files, Delete(f)
        PROVE  FreshInv'
    <2>1. ReadIsCurrent'
      BY <1>0, <1>3 DEF Delete, entries, Disturb, Calls
    <2> QED
      BY <1>0, <1>3, <2>1 DEF Delete, entries
  <1>4. ASSUME NEW f \in Files, Hit(f)  PROVE FreshInv'
    BY <1>0, <1>4 DEF Hit, entries, Calls
  <1>5. ASSUME NEW f \in Files, Miss(f)  PROVE FreshInv'
    <2>1. ReadIsCurrent'
      BY <1>0, <1>5 DEF Miss, entries, Idle
    <2>2. CASE Stale(f)
      BY <1>0, <1>5, <2>1, <2>2 DEF Miss, entries, erase, dlclose, Forget
    <2>3. CASE ~ Stale(f)
      BY <1>0, <1>5, <2>1, <2>3 DEF Miss, entries
    <2> QED
      BY <2>2, <2>3
  <1>6. CASE OpenSource
    BY <1>0, <1>6 DEF OpenSource, entries, Idle, Calls
  <1>7. CASE ReadSource
    BY <1>0, <1>7 DEF ReadSource, entries, Compiled, Idle, Calls
  <1>8. CASE DlOpen
    <2>1. op' = Idle \/ \E v \in Contents : op' = [op EXCEPT !.pc = "loaded", !.ver = v]
      <3>1. CASE loaded[op.file].refs > 0
        BY <1>0, <1>8, <3>1 DEF DlOpen, entries, TypeOK
      <3>2. CASE ~ (loaded[op.file].refs > 0) /\ disk[op.file] # None /\ disk[op.file].ok
        BY <1>0, <1>8, <3>2 DEF DlOpen, entries, Contents, Versions
      <3>3. CASE ~ (loaded[op.file].refs > 0) /\ ~ (disk[op.file] # None /\ disk[op.file].ok)
        BY <1>0, <1>8, <3>3 DEF DlOpen, entries
      <3> QED
        BY <3>1, <3>2, <3>3
    <2>2. op'.file \notin Scripts
      <3>1. CASE op' = Idle
        BY <1>0, <3>1 DEF Idle
      <3>2. ASSUME NEW v \in Contents, op' = [op EXCEPT !.pc = "loaded", !.ver = v]
            PROVE  op'.file \notin Scripts
        BY <1>0, <1>8, <3>2 DEF DlOpen, entries, Calls
      <3> QED
        BY <2>1, <3>1, <3>2
    <2> QED
      BY <1>0, <1>8, <2>2 DEF DlOpen, entries
  <1>9. ASSUME NEW t \in Times, Mark(t)  PROVE FreshInv'
    <2>1. CASE op.file \in Libs
      BY <1>0, <1>9, <2>1 DEF Mark, entries, Idle
    <2>2. CASE op.file \notin Libs
      <3>1. op.file \in Scripts
        BY <1>0, <1>9, <2>2 DEF Mark, entries, TypeOK
      <3>2. ~ op.raced /\ disk[op.file] # None => t = op.ver
        BY <1>0, <1>9, <3>1 DEF Mark, entries
      <3> QED
        BY <1>0, <1>9, <2>2, <3>1, <3>2 DEF Mark, entries, Idle
    <2> QED
      BY <2>1, <2>2
  <1>10. CASE UNCHANGED vars
    BY <1>10 DEF vars, entries
  <1> QED
    BY <1>1, <1>2, <1>3, <1>4, <1>5, <1>6, <1>7, <1>8, <1>9, <1>10
       DEF Next, Host, Proceed

\* As long as no change reuses an mtime, a cached script that did not change while
\* it was being loaded is the content of the file whenever getScript can return it:
\* deleted, replaced and shortened files, failed loads and reloads included.
THEOREM ScriptsFresh ==
    ASSUME "reuse_mtime" \notin Faults
    PROVE  Spec => []FreshScripts
  <1>1. TypeOK /\ FreshInv /\ [Next]_vars => FreshInv'
    BY FreshStep
  <1>2. Spec => []TypeOK
    BY TypeCorrect
  <1> QED
    BY <1>1, <1>2, FreshInit, FreshImplies, PTL DEF Spec

-----------------------------------------------------------------------------
(* The calm host: files are replaced or cut short, never removed, and every *)
(* change gives an mtime that the file never had.  Then a recorded mtime is *)
(* one the file has or had, so a hit comes after a mark and not after an    *)
(* erase; and a call that misses finds no handle left, so that dlopen opens *)
(* the file and does not return an image that is still open.                *)

CalmHost == "reuse_mtime" \notin Faults /\ "delete" \notin Faults

FilesStay ==
    \A f \in Files : disk[f] # None /\ disk[f].mtime = disk[f].ver /\ disk[f].ver <= writes

RecordedPast == \A f \in Files : modified[f] # None => modified[f] <= disk[f].mtime

\* Neither what was never recorded nor what is being loaded has a handle.
HandlesRecorded ==
    \A f \in Files :
        modified[f] = None \/ (op.pc \in {"miss", "loaded"} /\ op.file = f) =>
            handles[f] = None \/ f \notin Libs

\* What has been read or mapped is a content.
ContentInFlight ==
    /\ op.pc \in {"opened", "loaded"} => op.ver # None
    /\ \A f \in Files : loaded[f].refs > 0 => loaded[f].ver # None

OnlyLibsHandled == \A f \in Files : handles[f] # None => f \in Libs

\* FreshLibs, over the recorded mtime and the image in flight.
LibRecorded ==
    /\ \A f \in Libs \ raced : handles[f] # None => modified[f] = handles[f]
    /\ op.file \in Libs /\ op.pc = "loaded" /\ ~ op.raced => disk[op.file].ver = op.ver

CalmInv ==
    /\ FilesStay /\ RecordedPast /\ HandlesRecorded /\ ContentInFlight /\ OnlyLibsHandled
    /\ HitHasEntry /\ RefsExact /\ LibRecorded

LEMMA CalmImplies == TypeOK /\ CalmInv => HitHasEntry /\ RefsExact /\ FreshLibs
  BY DEF TypeOK, CalmInv, FilesStay, LibRecorded, FreshLibs, Cached, Files

LEMMA CalmInit == Init => CalmInv
  <1> SUFFICES ASSUME Init PROVE CalmInv
    OBVIOUS
  <1>0. [mtime |-> 0, ver |-> 0, ok |-> TRUE] \in Versions
    BY CacheConstants DEF Versions, Times
  <1>1. [mtime |-> 0, ver |-> 0, ok |-> TRUE] # None
    BY <1>0, CacheConstants
  <1> QED
    BY <1>1, CacheConstants DEF Init, Idle, CalmInv, FilesStay, RecordedPast,
       HandlesRecorded, ContentInFlight, OnlyLibsHandled, HitHasEntry, RefsExact, Held,
       Cached, Entry, LibRecorded, Files

\* A type invariant in the terms of the proofs below.
LEMMA CalmTypes ==
    ASSUME TypeOK
    PROVE  /\ Files = Scripts \cup Libs /\ Scripts \cap Libs = {} /\ None \notin Files
           /\ None \notin Nat /\ writes \in Nat /\ op \in Calls
           /\ disk \in [Files -> Versions \cup {None}]
           /\ modified \in [Files -> Contents]
           /\ \A f \in Files : disk[f] # None => disk[f].mtime \in Nat /\ disk[f].ver \in Nat
           /\ \A f \in Files : modified[f] # None => modified[f] \in Nat
  BY CacheConstants DEF Files, TypeOK, Times, Contents, Versions

\* What a change of f does, seen from the cache: f is newer than anything recorded.
Changed(f) ==
    /\ disk'[f] # None
    /\ disk'[f].mtime = writes + 1 /\ disk'[f].ver = writes + 1
    /\ \A g \in Files \ {f} : disk'[g] = disk[g]
    /\ writes' = writes + 1
    /\ op'.pc = op.pc /\ op'.file = op.file /\ op'.ver = op.ver
    /\ op.raced => op'.raced
    /\ op.file = f /\ op.pc = "loaded" => op'.raced
    /\ UNCHANGED <<modified, entries>>

LEMMA HostChanges ==
    ASSUME CalmHost, TypeOK, Host
    PROVE  \E f \in Files : Changed(f)
  <1>0. /\ op \in Calls /\ writes \in Nat /\ Scripts \subseteq Files
        /\ disk \in [Files -> Versions \cup {None}]
    BY CalmTypes
  <1>1. ASSUME NEW f \in Files, NEW t, NEW good \in BOOLEAN, writes < MaxWrites,
               t = writes + 1,
               disk' = [disk EXCEPT ![f] = [mtime |-> t, ver |-> writes + 1, ok |-> good]]
        PROVE  /\ disk'[f] # None
               /\ disk'[f].mtime = writes + 1 /\ disk'[f].ver = writes + 1
               /\ \A g \in Files \ {f} : disk'[g] = disk[g]
    <2>1. [mtime |-> t, ver |-> writes + 1, ok |-> good] \in Versions
      BY <1>0, <1>1, CacheConstants DEF Versions, Times
    <2> QED
      BY <1>0, <1>1, <2>1, CacheConstants
  <1>2. ASSUME NEW f \in Files, NEW t \in Times, NEW good \in BOOLEAN,
               Replace(f, t, good)
        PROVE  Changed(f)
    <2>1. t = writes + 1
      BY <1>2 DEF Replace, NewMtime, CalmHost
    <2>2. /\ op'.pc = op.pc /\ op'.file = op.file /\ op'.ver = op.ver
          /\ op.raced => op'.raced
          /\ op.file = f /\ op.pc = "loaded" => op'.raced
      BY <1>0, <1>2 DEF Replace, Disturb, Calls
    <2> QED
      BY <1>1, <1>2, <2>1, <2>2 DEF Replace, Changed
  <1>3. ASSUME NEW f \in Scripts, NEW good \in BOOLEAN, Truncate(f, good)
        PROVE  Changed(f)
    <2>1. /\ op'.pc = op.pc /\ op'.file = op.file /\ op'.ver = op.ver
          /\ op.raced => op'.raced
          /\ op.file = f /\ op.pc = "loaded" => op'.raced
      BY <1>0, <1>3 DEF Truncate, Calls
    <2> QED
      BY <1>0, <1>1, <1>3, <2>1 DEF Truncate, Changed
  <1> QED
    BY <1>0, <1>2, <1>3 DEF Host, Delete, CalmHost

LEMMA CalmHostStep ==
    ASSUME CalmHost, TypeOK, CalmInv, Host
    PROVE  CalmInv'
  <1>1. PICK f \in Files : Changed(f)
    BY HostChanges
  <1>2. FilesStay'
    BY <1>1, CalmTypes DEF Changed, CalmInv, FilesStay
  <1>3. RecordedPast' /\ \A g \in Files : Cached(g)' => Cached(g)
    BY <1>1, CalmTypes DEF Changed, entries, CalmInv, FilesStay, RecordedPast, Cached
  <1>4. HandlesRecorded' /\ OnlyLibsHandled'
    BY <1>1 DEF Changed, entries, CalmInv, HandlesRecorded, OnlyLibsHandled
  <1>5. ContentInFlight'
    BY <1>1 DEF Changed, entries, CalmInv, ContentInFlight
  <1>6. HitHasEntry'
    BY <1>1, <1>3 DEF Changed, entries, CalmInv, HitHasEntry, Entry
  <1>7. RefsExact'
    BY <1>1 DEF Changed, entries, CalmInv, RefsExact, Held
  <1>8. LibRecorded'
    BY <1>1, CalmTypes DEF Changed, entries, CalmInv, LibRecorded, Calls
  <1> QED
    BY <1>2, <1>3, <1>4, <1>5, <1>6, <1>7, <1>8 DEF CalmInv

\* A call that begins: what it misses has no handle any more.
LEMMA CalmMiss ==
    ASSUME TypeOK, CalmInv, NEW f \in Files, Miss(f)
    PROVE  CalmInv'
  <1>1. /\ UNCHANGED <<disk, writes, modified>>
        /\ op'.pc = "miss" /\ op'.file = f /\ op.pc = "idle"
        /\ disk[f] # None /\ modified[f] # disk[f].mtime
        /\ \A g \in Files : loaded[g].refs = IF handles[g] # None THEN 1 ELSE 0
    BY CalmTypes DEF Miss, Idle, Cached, CalmInv, FilesStay, RefsExact, Held
  <1>2. CASE Stale(f)
    <2>1. /\ handles' = [handles EXCEPT ![f] = None]
          /\ scripts' = [scripts EXCEPT ![f] = None]
          /\ raced' = raced \ {f}
          /\ loaded' = IF handles[f] = None THEN loaded
                       ELSE [loaded EXCEPT ![f].refs = @ - 1]
      BY <1>2 DEF Miss, erase, Forget, dlclose
    <2>2. /\ handles'[f] = None
          /\ \A g \in Files \ {f} : handles'[g] = handles[g] /\ scripts'[g] = scripts[g]
                                    /\ loaded'[g] = loaded[g]
          /\ loaded'[f].ver = loaded[f].ver
          /\ loaded'[f].refs = 0
      BY <1>1, <2>1 DEF TypeOK
    <2>3. FilesStay' /\ RecordedPast'
      BY <1>1 DEF CalmInv, FilesStay, RecordedPast
    <2>4. HandlesRecorded' /\ OnlyLibsHandled'
      BY <1>1, <2>2 DEF CalmInv, HandlesRecorded, OnlyLibsHandled
    <2>5. ContentInFlight'
      BY <1>1, <2>2 DEF CalmInv, ContentInFlight
    <2>6. HitHasEntry'
      BY <1>1, <2>2 DEF CalmInv, HitHasEntry, Entry, Cached
    <2>7. RefsExact'
      BY <1>1, <2>2 DEF RefsExact, Held
    <2>8. LibRecorded'
      BY <1>1, <2>1, <2>2 DEF CalmInv, LibRecorded, Files
    <2> QED
      BY <2>3, <2>4, <2>5, <2>6, <2>7, <2>8 DEF CalmInv
  <1>3. CASE ~ Stale(f)
    <2>1. modified[f] = None /\ UNCHANGED entries
      BY <1>1, <1>3 DEF Miss, Stale
    <2>2. FilesStay' /\ RecordedPast'
      BY <1>1 DEF CalmInv, FilesStay, RecordedPast
    <2>3. HandlesRecorded' /\ OnlyLibsHandled'
      BY <1>1, <2>1 DEF CalmInv, HandlesRecorded, OnlyLibsHandled, entries
    <2>4. ContentInFlight'
      BY <1>1, <2>1 DEF CalmInv, ContentInFlight, entries
    <2>5. HitHasEntry'
      BY <1>1, <2>1 DEF CalmInv, HitHasEntry, Entry, Cached, entries
    <2>6. RefsExact'
      BY <1>1, <2>1 DEF RefsExact, Held, entries
    <2>7. LibRecorded'
      BY <1>1, <2>1 DEF CalmInv, LibRecorded, entries
    <2> QED
      BY <2>2, <2>3, <2>4, <2>5, <2>6, <2>7 DEF CalmInv
  <1> QED
    BY <1>2, <1>3

\* The steps of getSource, and a hit, touch the call alone.
LEMMA CalmSource ==
    ASSUME TypeOK, CalmInv, (\E f \in Files : Hit(f)) \/ OpenSource \/ ReadSource
    PROVE  CalmInv'
  <1>1. UNCHANGED <<disk, writes, modified, entries>>
    BY DEF Hit, OpenSource, ReadSource
  <1>2. /\ op'.pc \in {"opened", "loaded"} => op'.ver # None
        /\ op'.pc \in {"miss", "loaded"} /\ op'.file \in Libs =>
              op.pc = op'.pc /\ op.file = op'.file /\ op.ver = op'.ver /\ op.raced = op'.raced
        /\ \A f \in Libs : op.file = f /\ op.pc = "loaded" <=> op'.file = f /\ op'.pc = "loaded"
    <2>1. CASE \E f \in Files : Hit(f)
      BY <2>1, CalmTypes DEF Hit, CalmInv, ContentInFlight, Calls
    <2>2. CASE OpenSource
      BY <2>2, CalmTypes, CacheConstants
         DEF OpenSource, Idle, Calls, CalmInv, FilesStay
    <2>3. CASE ReadSource
      BY <2>3, CalmTypes
         DEF ReadSource, Compiled, Idle, Calls, CalmInv, ContentInFlight, TypeOK
    <2> QED
      BY <2>1, <2>2, <2>3
  <1>3. FilesStay' /\ RecordedPast' /\ OnlyLibsHandled' /\ HitHasEntry'
    BY <1>1 DEF CalmInv, FilesStay, RecordedPast, OnlyLibsHandled, HitHasEntry, Entry,
       Cached, entries
  <1>4. HandlesRecorded' /\ ContentInFlight'
    BY <1>1, <1>2 DEF CalmInv, HandlesRecorded, ContentInFlight, entries
  <1>5. RefsExact'
    BY <1>1, <1>2 DEF CalmInv, RefsExact, Held, entries
  <1>6. LibRecorded'
    BY <1>1, <1>2 DEF CalmInv, LibRecorded, entries
  <1> QED
    BY <1>3, <1>4, <1>5, <1>6 DEF CalmInv

\* dlopen finds no image that is still open, so it opens the file or throws.
LEMMA CalmDlOpen ==
    ASSUME TypeOK, CalmInv, DlOpen
    PROVE  CalmInv'
  <1> DEFINE f == op.file
  <1>1. /\ f \in Files /\ f \in Libs /\ op.pc = "miss" /\ handles[f] = None
        /\ loaded[f].refs = 0
        /\ UNCHANGED <<disk, writes, modified, scripts, handles, raced>>
    BY CalmTypes DEF DlOpen, CalmInv, HandlesRecorded, RefsExact, Held
  <1>2. FilesStay' /\ RecordedPast' /\ OnlyLibsHandled' /\ HitHasEntry'
    BY <1>1 DEF CalmInv, FilesStay, RecordedPast, OnlyLibsHandled, HitHasEntry, Entry,
       Cached
  <1>3. CASE disk[f].ok
    <2>1. /\ loaded' = [loaded EXCEPT ![f] = [ver |-> disk[f].ver, refs |-> 1]]
          /\ op' = [op EXCEPT !.pc = "loaded", !.ver = disk[f].ver]
          /\ disk[f].ver # None
      BY <1>1, <1>3, CalmTypes DEF DlOpen, CalmInv, FilesStay
    <2>2. /\ op'.pc = "loaded" /\ op'.file = f /\ op'.ver = disk[f].ver
          /\ op'.raced = op.raced
          /\ loaded'[f].refs = 1 /\ loaded'[f].ver = disk[f].ver
          /\ \A g \in Files \ {f} : loaded'[g] = loaded[g]
      BY <1>1, <2>1, CalmTypes DEF Calls, TypeOK
    <2>3. HandlesRecorded' /\ ContentInFlight'
      BY <1>1, <2>1, <2>2 DEF CalmInv, HandlesRecorded, ContentInFlight
    <2>4. RefsExact'
      BY <1>1, <2>2 DEF CalmInv, RefsExact, Held
    <2>5. LibRecorded'
      BY <1>1, <2>2 DEF CalmInv, LibRecorded
    <2> QED
      BY <1>2, <2>3, <2>4, <2>5 DEF CalmInv
  <1>4. CASE ~ disk[f].ok
    <2>1. op' = Idle /\ UNCHANGED loaded
      BY <1>1, <1>4 DEF DlOpen
    <2>2. HandlesRecorded' /\ ContentInFlight' /\ LibRecorded'
      BY <1>1, <2>1, CalmTypes DEF CalmInv, HandlesRecorded, ContentInFlight, LibRecorded,
         Idle
    <2>3. RefsExact'
      BY <1>1, <2>1 DEF CalmInv, RefsExact, Held, Idle
    <2> QED
      BY <1>2, <2>2, <2>3 DEF CalmInv
  <1> QED
    BY <1>3, <1>4

\* mark records the mtime the file has now, and what was loaded becomes its entry.
LEMMA CalmMark ==
    ASSUME TypeOK, CalmInv, NEW t \in Times, Mark(t)
    PROVE  CalmInv'
  <1> DEFINE f == op.file
  <1>1. /\ f \in Files /\ op.pc = "loaded" /\ op.ver # None
        /\ disk[f] # None /\ t = disk[f].mtime /\ t # None
        /\ UNCHANGED <<disk, writes, loaded>>
        /\ modified'[f] = t /\ \A g \in Files \ {f} : modified'[g] = modified[g]
        /\ op' = Idle
    BY CalmTypes DEF Mark, TypeOK, CalmInv, FilesStay, ContentInFlight
  <1>2. /\ f \in Libs =>
              /\ handles[f] = None
              /\ handles'[f] = op.ver /\ \A g \in Files \ {f} : handles'[g] = handles[g]
              /\ scripts' = scripts
        /\ f \notin Libs =>
              /\ handles' = handles
              /\ scripts'[f] = op.ver /\ \A g \in Files \ {f} : scripts'[g] = scripts[g]
    BY <1>1 DEF Mark, TypeOK, CalmInv, HandlesRecorded
  <1>3. raced' = IF op.raced THEN raced \cup {f} ELSE raced \ {f}
    BY <1>1 DEF Mark
  <1>4. FilesStay' /\ RecordedPast'
    BY <1>1, CalmTypes DEF CalmInv, FilesStay, RecordedPast
  <1>5. HandlesRecorded' /\ OnlyLibsHandled' /\ ContentInFlight'
    BY <1>1, <1>2 DEF CalmInv, HandlesRecorded, OnlyLibsHandled, ContentInFlight, Idle
  <1>6. HitHasEntry'
    BY <1>1, <1>2, CalmTypes DEF CalmInv, HitHasEntry, Entry, Cached
  <1>7. RefsExact'
    <2> SUFFICES ASSUME NEW g \in Files PROVE (loaded[g].refs = Held(g))'
      BY DEF RefsExact
    <2>1. CASE g = f /\ f \in Libs
      BY <1>1, <1>2, <2>1 DEF CalmInv, RefsExact, Held, Idle
    <2>2. CASE g # f \/ f \notin Libs
      BY <1>1, <1>2, <2>2 DEF CalmInv, RefsExact, Held, Idle
    <2> QED
      BY <2>1, <2>2
  <1>8. LibRecorded'
    BY <1>1, <1>2, <1>3, CalmTypes DEF CalmInv, LibRecorded, FilesStay, Idle
  <1> QED
    BY <1>4, <1>5, <1>6, <1>7, <1>8 DEF CalmInv

LEMMA CalmStep ==
    ASSUME CalmHost
    PROVE  TypeOK /\ CalmInv /\ [Next]_vars => CalmInv'
  <1> SUFFICES ASSUME TypeOK, CalmInv, [Next]_vars PROVE CalmInv'
    OBVIOUS
  <1>1. CASE UNCHANGED vars
    BY <1>1 DEF vars, entries, CalmInv, FilesStay, RecordedPast, HandlesRecorded,
       ContentInFlight, OnlyLibsHandled, HitHasEntry, Cached, Entry, RefsExact, Held,
       LibRecorded
  <1> QED
    BY <1>1, CalmHostStep, CalmMiss, CalmSource, CalmDlOpen, CalmMark DEF Next, Proceed

LEMMA CalmAlways ==
    ASSUME CalmHost
    PROVE  Spec => [](HitHasEntry /\ RefsExact /\ FreshLibs)
  <1>1. TypeOK /\ CalmInv /\ [Next]_vars => CalmInv'
    BY CalmStep
  <1>2. Spec => []TypeOK
    BY TypeCorrect
  <1> QED
    BY <1>1, <1>2, CalmInit, CalmImplies, PTL DEF Spec

\* While files stay and no mtime comes twice, isCached never says yes of a file that
\* has no entry: getScript and getHandle do not dereference end(), whatever changes
\* between two system calls of a call, and however loads fail.
THEOREM HitsHaveEntries ==
    ASSUME CalmHost
    PROVE  Spec => []HitHasEntry
  <1>1. Spec => [](HitHasEntry /\ RefsExact /\ FreshLibs)
    BY CalmAlways
  <1> QED
    BY <1>1, PTL

\* Under the same host every dlopen has its one entry, and every entry that is
\* erased its one dlclose: nothing is leaked and nothing closed twice.
THEOREM DlopensArePaired ==
    ASSUME CalmHost
    PROVE  Spec => []RefsExact
  <1>1. Spec => [](HitHasEntry /\ RefsExact /\ FreshLibs)
    BY CalmAlways
  <1> QED
    BY <1>1, PTL

\* ... and a library that did not change while it was being loaded is what its file
\* holds whenever getHandle returns it.
THEOREM LibrariesFresh ==
    ASSUME CalmHost
    PROVE  Spec => []FreshLibs
  <1>1. Spec => [](HitHasEntry /\ RefsExact /\ FreshLibs)
    BY CalmAlways
  <1> QED
    BY <1>1, PTL
=============================================================================
