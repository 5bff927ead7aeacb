-------------------------------- MODULE App --------------------------------
(***************************************************************************)
(* TeaJS_App (src/app.cc): one process serving requests one after another, *)
(* the module loader behind require(), the exports cache that lives for a  *)
(* request, and the onexit callbacks that end it.                          *)
(*                                                                         *)
(* A module is named by what resolve_module finds for it: its files, the   *)
(* shared library before the script (none when it cannot be found), and    *)
(* its key, files[0] up to the last dot.  JavaScript is abstract: a module *)
(* or a callback that runs may call require, onexit and exit in any order, *)
(* then return or throw; a caller that catches what a require threw simply *)
(* goes on.  The files themselves are those of Cache: here a load may fail *)
(* in every way in which a file can be missing or broken.                  *)
(***************************************************************************)
EXTENDS Naturals, Sequences

CONSTANTS
    Modules,      \* what scripts can ask for
    Parts,        \* module -> sequence of "dso" and "js", its files in order
    Key,          \* module -> name under which its exports are cached
    Config,       \* the configuration file, a module
    Codes,        \* arguments of exit()
    None,
    MaxRequests,  \* bound: requests served
    MaxLoads,     \* bound: export objects created
    MaxOnexit     \* bound: callbacks registered

Keys == {Key[m] : m \in Modules}

ASSUME AppConstants ==
    /\ Parts \in [Modules -> Seq({"dso", "js"})]
    /\ Key = [m \in Modules |-> Key[m]]
    /\ Config \in Modules
    /\ Codes \subseteq Nat
    /\ None \notin Modules \cup Keys \cup Nat
    /\ MaxRequests \in Nat /\ MaxLoads \in Nat /\ MaxOnexit \in Nat

VARIABLES
    phase,      \* how far execute() is
    mainfile,   \* the script to run, None when it is ""
    exports,    \* Cache::exports, key -> export object (a number) or None
    stack,      \* require() calls and callbacks in progress, the innermost last
    onexit,     \* registered callbacks
    called,     \* finish(): number of callbacks called
    exit_code,
    outcome     \* of the top-level require: "none", "ok" or "error"

VARIABLES       \* history
    requests,   \* requests started
    objects,    \* export objects created
    first,      \* number of the first export object of this request
    done,       \* the modules of this request that finished loading
    thrown,     \* export objects of this request whose load was left by a string
    callbacks,  \* callbacks registered
    ran         \* callbacks run to their end, in order

serving == <<phase, mainfile, requests, first>>
cache == <<exports, objects>>
loads == <<done, thrown>>
atexit == <<onexit, called, callbacks, ran>>
vars == <<serving, cache, loads, atexit, exit_code, stack, outcome>>

Init ==
    /\ phase = "idle"
    /\ mainfile = None
    /\ exports = [k \in Keys |-> None]
    /\ stack = <<>>
    /\ onexit = <<>>
    /\ called = 0
    /\ exit_code = 0
    /\ outcome = "none"
    /\ requests = 0
    /\ objects = 0
    /\ first = 1
    /\ done = {}
    /\ thrown = {}
    /\ callbacks = 0
    /\ ran = <<>>

Depth == Len(stack)
Top == stack[Depth]
Pop == SubSeq(stack, 1, Depth - 1)
IsModule(frame) == frame.mod # None
Running == Depth > 0 /\ Top.runs

-----------------------------------------------------------------------------
(* require().                                                              *)

Found(m) == Parts[m] # <<>>

\* Mutant: exports that are cached are not found.
Cached_Never(m) == FALSE

Cached(m) == exports[Key[m]] # None

\* The blank exports object is cached before the module's files are loaded, so a
\* cyclic require finds it.
BeginLoad(m) ==
    /\ objects < MaxLoads
    /\ objects' = objects + 1
    /\ exports' = [exports EXCEPT ![Key[m]] = objects + 1]
    /\ stack' = Append(stack, [mod |-> m, key |-> Key[m], obj |-> objects + 1,
                               todo |-> Parts[m], runs |-> FALSE])

\* How a require() that is left tells its caller: the outermost one tells execute.
Leave(result) ==
    /\ stack' = Pop
    /\ outcome' = IF Depth = 1 THEN result ELSE outcome

\* The loop over the files of a module is at a file of this kind.
AtFile(kind) == Depth > 0 /\ ~ Top.runs /\ Top.todo # <<>> /\ Head(Top.todo) = kind

\* After the last file: the module is loaded.
EndLoad ==
    /\ Depth > 0 /\ ~ Top.runs /\ Top.todo = <<>>
    /\ Leave("ok")
    /\ done' = done \cup {[mod |-> Top.mod, key |-> Top.key, obj |-> Top.obj]}
    /\ UNCHANGED <<serving, cache, thrown, atexit, exit_code>>

\* load_dso or getSource throws a string: it unwinds require, which has not looked
\* at the exports it has cached.
LoadThrows ==
    /\ AtFile("dso") \/ AtFile("js")
    /\ Leave("error")
    /\ thrown' = thrown \cup {Top.obj}
    /\ UNCHANGED <<serving, cache, done, atexit, exit_code>>

\* Mutant: nothing is removed.
removeExports_Nothing(key) == exports

removeExports(key) == [exports EXCEPT ![key] = None]

\* load_js returns 1: the script does not compile, or the code of the module threw.
LoadFails ==
    /\ AtFile("js") \/ (Running /\ IsModule(Top))
    /\ Leave("error")
    /\ exports' = removeExports(Top.key)
    /\ UNCHANGED <<serving, objects, loads, atexit, exit_code>>

\* load_dso: init of the library returns.  load_js: the compiled function is
\* called ...
LoadDso ==
    /\ AtFile("dso")
    /\ stack' = [stack EXCEPT ![Depth].todo = Tail(@)]
    /\ UNCHANGED <<serving, cache, loads, atexit, exit_code, outcome>>

CallModule ==
    /\ AtFile("js")
    /\ stack' = [stack EXCEPT ![Depth].runs = TRUE]
    /\ UNCHANGED <<serving, cache, loads, atexit, exit_code, outcome>>

\* ... and returns.
ModuleReturns ==
    /\ Running /\ IsModule(Top)
    /\ stack' = [stack EXCEPT ![Depth].runs = FALSE, ![Depth].todo = Tail(@)]
    /\ UNCHANGED <<serving, cache, loads, atexit, exit_code, outcome>>

Load == EndLoad \/ LoadThrows \/ LoadFails \/ LoadDso \/ CallModule \/ ModuleReturns

-----------------------------------------------------------------------------
(* What running JavaScript can call.                                       *)

\* A module that cannot be found throws, and one with cached exports returns
\* them: neither changes anything.
JsRequire(m) ==
    /\ Running
    /\ Found(m) /\ ~ Cached(m)
    /\ BeginLoad(m)
    /\ UNCHANGED <<serving, loads, atexit, exit_code, outcome>>

JsOnexit ==
    /\ Running
    /\ callbacks < MaxOnexit
    /\ callbacks' = callbacks + 1
    /\ onexit' = Append(onexit, callbacks + 1)
    /\ UNCHANGED <<serving, cache, loads, called, ran, exit_code, stack, outcome>>

\* TerminateExecution is commented out: the script goes on.
JsExit(code) ==
    /\ Running
    /\ exit_code' = code
    /\ UNCHANGED <<serving, cache, loads, atexit, stack, outcome>>

JavaScript ==
    \/ \E m \in Modules : JsRequire(m)
    \/ JsOnexit
    \/ \E code \in Codes : JsExit(code)

-----------------------------------------------------------------------------
(* execute() and finish().                                                 *)

\* A request arrives; the environment may name the main file, else the last one
\* stays.
StartRequest(m) ==
    /\ phase = "idle" /\ requests < MaxRequests
    /\ phase' = "config"
    /\ mainfile' = IF m = None THEN mainfile ELSE m
    /\ outcome' = "none"
    /\ requests' = requests + 1
    /\ first' = objects + 1
    /\ UNCHANGED <<cache, loads, atexit, exit_code, stack>>

\* The require() that prepare makes for the configuration file and execute for
\* the main file.
TopRequire(p, m) ==
    /\ phase = p /\ stack = <<>> /\ outcome = "none"
    /\ IF m = None \/ ~ Found(m)
       THEN outcome' = "error" /\ UNCHANGED <<cache, stack>>
       ELSE IF Cached(m)
       THEN outcome' = "ok" /\ UNCHANGED <<cache, stack>>
       ELSE BeginLoad(m) /\ UNCHANGED outcome
    /\ UNCHANGED <<serving, loads, atexit, exit_code>>

\* prepare goes on if the configuration has filled require.paths.
Prepared(paths) ==
    /\ phase = "config" /\ stack = <<>> /\ outcome = "ok"
    /\ phase' = "main"
    /\ outcome' = IF paths THEN "none" ELSE "error"
    /\ UNCHANGED <<mainfile, requests, first, cache, loads, atexit, exit_code, stack>>

\* execute is left by its end or by its catch clause; finish begins.
Finish ==
    /\ phase \in {"config", "main"} /\ stack = <<>>
    /\ outcome = "error" \/ (outcome = "ok" /\ phase = "main")
    /\ phase' = "finish"
    /\ exit_code' = IF outcome = "error" THEN 1 ELSE exit_code
    /\ UNCHANGED <<mainfile, requests, first, cache, loads, atexit, stack, outcome>>

\* Mutant: one callback too many.
MoreCallbacks_OffByOne == called <= Len(onexit)

MoreCallbacks == called < Len(onexit)

\* The loop of finish, over a vector that the callbacks may extend, calls one ...
CallOnexit ==
    /\ phase = "finish" /\ stack = <<>>
    /\ MoreCallbacks
    /\ called' = called + 1
    /\ stack' = <<[mod |-> None, key |-> None, obj |-> None, todo |-> <<>>, runs |-> TRUE]>>
    /\ UNCHANGED <<serving, cache, loads, onexit, callbacks, ran, exit_code, outcome>>

\* ... which returns or throws: finish does not look.
OnexitReturns ==
    /\ Running /\ ~ IsModule(Top)
    /\ stack' = Pop
    /\ ran' = Append(ran, onexit[called])
    /\ UNCHANGED <<serving, cache, loads, onexit, called, callbacks, exit_code, outcome>>

\* Mutants: the exports, or the callbacks, survive the request.
clearExports_Nothing == exports
clearOnexit_Nothing == onexit

clearExports == [k \in Keys |-> None]
clearOnexit == <<>>

EndRequest ==
    /\ phase = "finish" /\ stack = <<>>
    /\ ~ MoreCallbacks
    /\ phase' = "idle"
    /\ onexit' = clearOnexit
    /\ called' = 0
    /\ exports' = clearExports
    /\ done' = {} /\ thrown' = {}
    /\ UNCHANGED <<mainfile, requests, first, objects, callbacks, ran, exit_code, stack, outcome>>

Request ==
    \/ \E m \in Modules \cup {None} : StartRequest(m)
    \/ TopRequire("config", Config)
    \/ \E paths \in BOOLEAN : Prepared(paths)
    \/ TopRequire("main", mainfile)
    \/ Finish
    \/ CallOnexit
    \/ OnexitReturns
    \/ EndRequest

Next == Load \/ JavaScript \/ Request

Spec == Init /\ [][Next]_vars

-----------------------------------------------------------------------------
(* Properties.                                                             *)

Objects == 1 .. MaxLoads
Frames == [mod : Modules \cup {None}, key : Keys \cup {None}, obj : Objects \cup {None},
           todo : Seq({"dso", "js"}), runs : BOOLEAN]

LoaderTypes ==
    /\ exports \in [Keys -> Objects \cup {None}]
    /\ stack \in Seq(Frames)
    /\ objects \in 0 .. MaxLoads
    /\ first \in 1 .. objects + 1
    /\ done \subseteq [mod : Modules, key : Keys, obj : Objects]
    /\ thrown \subseteq Objects

RequestTypes ==
    /\ phase \in {"idle", "config", "main", "finish"}
    /\ mainfile \in Modules \cup {None}
    /\ onexit \in Seq(1 .. MaxOnexit)
    /\ called \in 0 .. Len(onexit)
    /\ exit_code \in Nat
    /\ outcome \in {"none", "ok", "error"}
    /\ requests \in 0 .. MaxRequests
    /\ callbacks \in 0 .. MaxOnexit
    /\ ran \in Seq(1 .. MaxOnexit)

TypeOK == LoaderTypes /\ RequestTypes

\* Modules that are being loaded have different keys, and each still owns the
\* exports cached under its key: a cyclic require ends with the unfinished exports
\* instead of loading again, so no require nests deeper than there are modules
\* (addExports before load_js, app.cc:283-285).
LoadingOwnsExports ==
    \A i \in 1 .. Len(stack) : IsModule(stack[i]) =>
        /\ exports[stack[i].key] = stack[i].obj
        /\ \A j \in 1 .. Len(stack) : stack[j].key = stack[i].key => j = i

\* Once a module has loaded, every later require of it in the request returns the
\* same exports (unit/tests/require.js:12), whatever loads fail in between.
LoadedStays == \A d \in done : exports[d.key] = d.obj

\* Exports live "through whole request" (cache.h:5) and not longer: nothing that an
\* earlier request loaded, in its onexit callbacks either, is seen by a later one.
NoStaleExports ==
    /\ \A k \in Keys : exports[k] # None => exports[k] >= first
    /\ phase = "idle" => \A k \in Keys : exports[k] = None

Loading(k) == \E i \in 1 .. Len(stack) : stack[i].key = k /\ stack[i].obj = exports[k]

\* What require returns is a module that is loaded or still being loaded; a script
\* that does not compile or whose code threw is loaded anew by the next require.
\* The exports left behind by a thrown string are the exception.
CachedIsLoaded ==
    \A k \in Keys : exports[k] # None =>
        \/ Loading(k)
        \/ \E d \in done : d.key = k /\ d.obj = exports[k]
        \/ exports[k] \in thrown

\* When a request is over, each callback registered in it, in a callback too, has
\* run once, in the order of registration, and none is left for the next request
\* ("add a function to be executed when context ends", app.cc:75).
OnexitOnce == phase = "idle" => ran = [i \in 1 .. callbacks |-> i]

\* Where each key stands, as the scripts of the request can tell it.
KeyState ==
    [k \in Keys |->
        CASE exports[k] = None -> "absent"
          [] exports[k] # None /\ Loading(k) -> "loading"
          [] exports[k] # None /\ ~ Loading(k) ->
                IF \E d \in done : d.key = k THEN "loaded" ELSE "broken"]

Registry == INSTANCE ModuleRegistry WITH
    Names <- Keys, Nothing <- None,
    state <- KeyState, object <- exports, used <- objects

\* The loader keeps what ModuleRegistry promises: within a request a key stands for
\* one object from the start of its load on, through cyclic requires and failures of
\* others, and only its own failure or the end of the request, when nothing is being
\* loaded any more, gives it back (app.cc:272-300, the clear of app.cc:213).
RequireKept == Registry!Spec
=============================================================================
