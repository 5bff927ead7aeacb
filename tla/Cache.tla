------------------------------- MODULE Cache -------------------------------
(***************************************************************************)
(* The file caches of src/cache.cc: compiled scripts (getScript) and       *)
(* dlopen handles (getHandle), both validated by the file's mtime.         *)
(*                                                                         *)
(* One thread calls the cache, so at most one call is in progress (op);    *)
(* the rest of the host may change the files between two system calls of   *)
(* that call.  A call is cut exactly at its system calls: the stat of      *)
(* isCached, the fopen and the reads of getSource (or the dlopen), and the *)
(* second stat, in mark.                                                   *)
(*                                                                         *)
(* A content is named by the number of the write that produced it, and a   *)
(* clock that ticks at every write gives that number as the mtime too.     *)
(* Faults says in which ways the host departs from "every change is a new  *)
(* file, atomically renamed over the old one, with a new mtime".           *)
(***************************************************************************)
EXTENDS Naturals

CONSTANTS
    Scripts,    \* names of JavaScript files
    Libs,       \* names of shared libraries, the files with DSO_EXT
    Faults,     \* the departures the host makes, a subset of FaultKinds
    MaxWrites,  \* bound: number of changes the host makes to the files
    MaxRefs,    \* bound: no call is started on an image opened that many times
    None        \* "no such entry"

FaultKinds ==
    { "reuse_mtime",  \* a change leaves an mtime seen before (cp -p, same second)
      "delete",       \* a file disappears
      "truncate" }    \* a file is shortened in place instead of replaced

Files == Scripts \cup Libs
Times == 0 .. MaxWrites

\* What a file is: its mtime, its content, and whether that compiles, or has an init.
Versions == [mtime : Times, ver : Times, ok : BOOLEAN]

ASSUME CacheConstants ==
    /\ Scripts \cap Libs = {}
    /\ Faults \subseteq FaultKinds
    /\ MaxWrites \in Nat
    /\ MaxRefs \in Nat
    /\ None \notin Nat \cup Files \cup Versions

VARIABLES
    disk,      \* the files: None or a version
    writes,    \* number of changes made so far
    modified,  \* Cache::modified, file -> mtime
    scripts,   \* Cache::scripts, file -> content that was compiled
    handles,   \* Cache::handles, file -> content of the image behind the handle
    loaded,    \* the dynamic loader: image and number of dlopens not yet closed
    op,        \* the call in progress
    raced      \* history: files that changed during the load of their entry

entries == <<scripts, handles, loaded, raced>>
vars == <<disk, writes, modified, entries, op>>

Idle == [pc |-> "idle", file |-> None, ver |-> None, ok |-> FALSE,
         raced |-> FALSE, short |-> FALSE]

Init ==
    /\ disk = [f \in Files |-> [mtime |-> 0, ver |-> 0, ok |-> TRUE]]
    /\ writes = 0
    /\ modified = [f \in Files |-> None]
    /\ scripts = [f \in Files |-> None]
    /\ handles = [f \in Files |-> None]
    /\ loaded = [f \in Files |-> [ver |-> None, refs |-> 0]]
    /\ op = Idle
    /\ raced = {}

-----------------------------------------------------------------------------
(* The host.                                                               *)

\* A change of f between the moment its content was read and the stat of mark:
\* the mtime that mark records will not be that of the content.
Disturb(f) ==
    op' = IF op.file = f /\ op.pc \in {"opened", "loaded"}
          THEN [op EXCEPT !.raced = TRUE] ELSE op

NewMtime(t) == t = writes + 1 \/ "reuse_mtime" \in Faults

\* A new version is renamed over the old one (or created).
Replace(f, t, good) ==
    /\ writes < MaxWrites
    /\ NewMtime(t)
    /\ writes' = writes + 1
    /\ disk' = [disk EXCEPT ![f] = [mtime |-> t, ver |-> writes + 1, ok |-> good]]
    /\ Disturb(f)
    /\ UNCHANGED <<modified, entries>>

\* A script is shortened in place.  If getSource has already asked for the size
\* it now waits for bytes that never come (fread returns 0 and i stays).  The same
\* done to a mapped library is outside the model.
Truncate(f, good) ==
    /\ "truncate" \in Faults
    /\ writes < MaxWrites
    /\ disk[f] # None
    /\ writes' = writes + 1
    /\ disk' = [disk EXCEPT ![f] = [mtime |-> writes + 1, ver |-> writes + 1, ok |-> good]]
    /\ op' = IF op.file # f THEN op
             ELSE [op EXCEPT !.raced = @ \/ op.pc = "loaded",
                             !.short = @ \/ op.pc = "opened"]
    /\ UNCHANGED <<modified, entries>>

Delete(f) ==
    /\ "delete" \in Faults
    /\ disk[f] # None
    /\ disk' = [disk EXCEPT ![f] = None]
    /\ Disturb(f)
    /\ UNCHANGED <<writes, modified, entries>>

Host ==
    \/ \E f \in Files, t \in Times, good \in BOOLEAN : Replace(f, t, good)
    \/ \E f \in Scripts, good \in BOOLEAN : Truncate(f, good)
    \/ \E f \in Files : Delete(f)

-----------------------------------------------------------------------------
(* One call of getScript or getHandle.                                     *)

\* The entry that a call of getScript or getHandle for f looks up.
Entry(f) == IF f \in Libs THEN handles[f] ELSE scripts[f]

\* Mutant: any entry that was ever marked counts as cached.
Cached_NoCompare(f) == disk[f] # None /\ modified[f] # None

\* isCached, the value it returns ...
Cached(f) == disk[f] # None /\ modified[f] = disk[f].mtime

\* ... and when it calls erase before it returns false.
Stale(f) == disk[f] # None /\ modified[f] \notin {None, disk[f].mtime}

\* Mutants: the handle is not closed; it is closed and not forgotten.
dlclose_Never(f) == loaded
Forget_Nothing(table, f) == table

\* dlclose of the handle of f, if there is one.
dlclose(f) == IF handles[f] = None THEN loaded ELSE [loaded EXCEPT ![f].refs = @ - 1]

Forget(table, f) == [table EXCEPT ![f] = None]

\* erase closes the handle and drops both entries, but not the mtime.
erase(f) ==
    /\ loaded' = dlclose(f)
    /\ handles' = Forget(handles, f)
    /\ scripts' = Forget(scripts, f)
    /\ raced' = raced \ {f}

\* A hit returns the entry that find() gives, without asking whether there is one:
\* when there is none, the end() iterator is dereferenced.
Hit(f) ==
    /\ op.pc = "idle"
    /\ Cached(f)
    /\ op' = IF Entry(f) # None THEN op ELSE [op EXCEPT !.pc = "undefined", !.file = f]
    /\ UNCHANGED <<disk, writes, modified, entries>>

Miss(f) ==
    /\ op.pc = "idle"
    /\ ~ Cached(f)
    /\ loaded[f].refs < MaxRefs
    /\ op' = [Idle EXCEPT !.pc = "miss", !.file = f]
    /\ IF Stale(f) THEN erase(f) ELSE UNCHANGED entries
    /\ UNCHANGED <<disk, writes, modified>>

\* getSource: fopen (or throw), fseek, ftell.
OpenSource ==
    /\ op.pc = "miss"
    /\ op.file \in Scripts
    /\ op' = IF disk[op.file] = None THEN Idle
             ELSE [op EXCEPT !.pc = "opened", !.ver = disk[op.file].ver,
                             !.ok = disk[op.file].ok]
    /\ UNCHANGED <<disk, writes, modified, entries>>

\* Mutants: a script that does not compile is read again, or marked as cached.
Compiled_Retries == [op EXCEPT !.pc = IF op.ok THEN "loaded" ELSE "miss"]
Compiled_Marks == [op EXCEPT !.pc = "loaded", !.ver = IF op.ok THEN @ ELSE None]

\* Script::Compile: a failure returns an empty script, without mark.
Compiled == IF op.ok THEN [op EXCEPT !.pc = "loaded"] ELSE Idle

\* getSource: the fread loop; then the compiler.
ReadSource ==
    /\ op.pc = "opened"
    /\ ~ op.short
    /\ op' = Compiled
    /\ UNCHANGED <<disk, writes, modified, entries>>

\* dlopen: an image that is still open under this name is returned again, whatever
\* the file is now; otherwise the file is loaded, or the call throws.
DlOpen ==
    LET f == op.file IN
    /\ op.pc = "miss"
    /\ f \in Libs
    /\ IF loaded[f].refs > 0
       THEN /\ loaded' = [loaded EXCEPT ![f].refs = @ + 1]
            /\ op' = [op EXCEPT !.pc = "loaded", !.ver = loaded[f].ver]
       ELSE IF disk[f] # None /\ disk[f].ok
       THEN /\ loaded' = [loaded EXCEPT ![f] = [ver |-> disk[f].ver, refs |-> 1]]
            /\ op' = [op EXCEPT !.pc = "loaded", !.ver = disk[f].ver]
       ELSE /\ op' = Idle
            /\ UNCHANGED loaded
    /\ UNCHANGED <<disk, writes, modified, scripts, handles, raced>>

\* mark and the insertion.  The result of its stat is not looked at: when the file
\* has gone, st_mtime is whatever the stack held.
Mark(t) ==
    LET f == op.file IN
    /\ op.pc = "loaded"
    /\ disk[f] # None => t = disk[f].mtime
    /\ modified' = [modified EXCEPT ![f] = t]
    /\ IF f \in Libs
       THEN handles' = [handles EXCEPT ![f] = op.ver] /\ UNCHANGED scripts
       ELSE scripts' = [scripts EXCEPT ![f] = op.ver] /\ UNCHANGED handles
    /\ raced' = IF op.raced \/ disk[f] = None THEN raced \cup {f} ELSE raced \ {f}
    /\ op' = Idle
    /\ UNCHANGED <<disk, writes, loaded>>

\* The steps of a call once it has missed.
Proceed ==
    \/ OpenSource
    \/ ReadSource
    \/ DlOpen
    \/ \E t \in Times : Mark(t)

Next ==
    \/ Host
    \/ \E f \in Files : Hit(f) \/ Miss(f)
    \/ Proceed

Spec == Init /\ [][Next]_vars

\* Nothing but the file itself holds a call up: the thread that called goes on.
\* Every file is asked for again and again, between the calls for the others.
FairSpec == Spec /\ WF_vars(Proceed) /\ \A f \in Files : SF_vars(Miss(f))

-----------------------------------------------------------------------------
(* Properties.                                                             *)

Contents == Times \cup {None}

Calls == [pc : {"idle", "miss", "opened", "loaded", "undefined"},
          file : Files \cup {None}, ver : Contents, ok : BOOLEAN,
          raced : BOOLEAN, short : BOOLEAN]

TypeOK ==
    /\ disk \in [Files -> Versions \cup {None}]
    /\ writes \in Times
    /\ modified \in [Files -> Contents]
    /\ scripts \in [Files -> Contents]
    /\ handles \in [Files -> Contents]
    /\ loaded \in [Files -> [ver : Contents, refs : Nat]]
    /\ op \in Calls
    /\ op.pc # "idle" => op.file \in Files
    /\ op.pc = "opened" => op.file \in Scripts
    /\ raced \subseteq Files

\* "Is this file already cached?" (cache.cc:18-20): when isCached says yes there
\* is an entry to return, so getScript and getHandle never dereference end().
HitHasEntry == \A f \in Files : Cached(f) => Entry(f) # None

\* What a hit returns is what the file contains, for a script that did not change
\* while it was being loaded (cache.h:4, "checks file's MTIME").
FreshScripts ==
    \A f \in Scripts \ raced :
        Cached(f) /\ scripts[f] # None => scripts[f] = disk[f].ver

\* The same of a shared library (cache.h:2).
FreshLibs ==
    \A f \in Libs \ raced :
        Cached(f) /\ handles[f] # None => handles[f] = disk[f].ver

Held(f) ==
    (IF handles[f] # None THEN 1 ELSE 0)
    + (IF op.file = f /\ op.pc = "loaded" /\ f \in Libs THEN 1 ELSE 0)

\* Every dlopen is paired with the entry that will dlclose it: no image is leaked
\* and none is closed twice, however calls, reloads and failed loads follow each
\* other (erase, getHandle).
RefsExact == \A f \in Files : loaded[f].refs = Held(f)

\* A handle in the cache is never one that the loader has already closed, and the
\* image behind it is the one that was opened (erase closes, then forgets).
HandleAlive ==
    \A f \in Files : handles[f] # None =>
        loaded[f].refs > 0 /\ loaded[f].ver = handles[f]

\* A hit on f, with the content that f has, unless that changed during the load.
Served(f) == /\ Cached(f) /\ Entry(f) # None
             /\ Entry(f) = disk[f].ver \/ f \in raced

\* A file that is good in the end is served in the end, whatever has failed before: a
\* version that does not load, of it or of another file, is neither kept nor tried for
\* ever, and getSource's loop (cache.cc:80-83) ends unless the very file it reads is
\* cut short between its size and its bytes.
GoodFilesServed ==
    \A f \in Files : <>[](disk[f] # None /\ disk[f].ok) => <>[]Served(f) \/ <>[]op.short
=============================================================================
