# Verification of TeaJS

TeaJS runs JavaScript (V8) on the server: a C++ core (`src/src/*.cc`) that serves
requests from the command line, CGI, FastCGI or Apache, native modules
(`src/src/lib/*/*.cc`) and JavaScript modules (`src/lib/*.js`). This directory holds
TLA+ models of its stateful parts, the TLC configurations that check them on small
instances, and TLAPS proofs of what holds for every instance. Paths below are relative
to the repository root, which is `src/` in `PROJECT.json`; `PROJECT.json` maps every
definition of a model to its lines.

    tlc -config MCCache_calm.cfg MCCache.tla      # check a run
    tlapm CacheProofs.tla                         # check the proofs of a module

## 1. The system

### Components, their state, what they do, and what makes them correct

| component | state | operations | what must hold |
|---|---|---|---|
| **File caches** (`src/cache.cc`, class `Cache`) | `modified` (mtimes), `scripts` (compiled), `handles` (dlopen), `exports` | `isCached`, `mark`, `erase`, `getSource`, `getScript`, `getHandle`; `addExports`, `removeExports`, `clearExports` | a hit has an entry and is what the file holds; every dlopen is paired with one dlclose; no closed handle is used; calls end |
| **Application and loader** (`src/app.cc`, `src/teajs.cc`) | main file, `exports`, `onexit` vector, `exit_code`, the JavaScript stack | `init`, `prepare`, `execute`, `require`, `load_js`, `load_dso`, `onexit`, `exit`, `finish`; the FastCGI loop of `main` | cyclic requires end; a loaded module keeps its exports through the request; a failed one is not served; requests do not see each other; every callback runs once |
| **Event loop** (`lib/eventloop.js`, `_select` of `src/lib/socket/socket.cc`) | `events.time`, `events.socket`, `eventCount`, `lastId`, `running`, `aborted` | `setTimeout`, `setInterval`, `readSocket`, `writeSocket`, the `clear…` functions, `abort`, `run` | the count that keeps the loop alive is exact; what is cleared is not called; neither timers nor sockets starve; a run can be followed by a run |
| **Fibers** (`src/lib/fibers/fibers.cc`) | per fiber: thread, mutex, condition; the V8 lock, `Fiber.current`, the registry | `new Fiber`, `becomeRunnable`, `suspend`, `join`, `allRunningFibers` | one runs at a time; `current` is it; no resume is lost; nothing waits for ever on the lock; no deleted data is read |
| **Receiving** (`_select` aside: `lib/socket/socket.cc`, `lib/tls/tls.cc`) | the stream of a connection; per call the storage, the header and the file it fills | `receive`, `receive_strict` | no byte is lost but with an error; the header ends at the blank line; a count is kept |
| **WebSocket server** (`lib/websocket.js`) | clients: socket, app, frame, buffered bytes, partial message | accept, TLS and WebSocket handshake, receive and parse, send, disconnect | each client: connect, messages, disconnect, in this order and once; fragments reassembled; one peer does not stop the others |
| **Process** (`src/lib/process/process.cc`) | the pipe ends of parent and children | `exec`, `exec2`, `open3`, `exec3`, `fork`, `waitpid` | no deadlock of parent and child; all of the output; nothing left behind |
| **Buffers and GC** (`src/lib/binary`, `src/gc.cc`) | storages shared by views, external memory told to V8 | constructor, `range`, `slice`, `copy`, `fill`, indexing; growth from C++; finalizers | storage freed once and with the last view; accounting covers what is held; indices stay inside |
| **Sessions** (`lib/session.js`) | one JSON file per session | load, save, clear, garbage collection | concurrent requests do not corrupt or revive a session |
| **System object** (`src/system.cc`) | standard streams, environment, `fcgi_pre_accepted` | `sleep`, FastCGI accept from JavaScript | each accepted request is answered |
| fs, HTTP, databases, bindings, pure JavaScript libraries | mostly the kernel's or a library's | wrappers | – |

### How they interact

* `main` (`teajs.cc`) calls `TeaJS_App::execute` per request; that makes a context, and
  `require`s the configuration and then the main file through the **loader**, which asks
  the **file caches** for compiled scripts and handles, and the exports cache for modules
  that the request has loaded already. `finish` calls the `onexit` callbacks and drops
  the exports. The file caches outlive the request.
* Scripts that serve sockets call `run()` of the **event loop**, which calls
  `Socket.select` and then their callbacks, in one thread. The **WebSocket server** is a
  client of the event loop: its listeners **receive** from a socket or a TLS connection and
  call the application, which may send to and disconnect any client from within.
* **Process** runs children beside the script, joined to it by pipes alone; a child inherits
  every pipe end that the script holds.
* What C++ code reads (files, sockets, pipes) becomes a **Buffer**, whose storage V8's
  collector frees through a finalizer.
* `Socket.select`, `system.sleep` and two methods of `Fiber` release the V8 lock; another
  **fiber** may then run.
* Several processes (FastCGI, Apache) share files: scripts, libraries, sessions.

### What is hard in it

Files change between two system calls of one cache call; a load fails half way through a
tree of requires, by a status or by a C++ string thrown through JavaScript; callbacks
change the tables that the loop walks, throw through it, and outlive the run; threads
hand the V8 lock around and delete what others point to. TCP cuts frames and headers
anywhere; parent and child wait on each other over pipes that are full; a view outlives the
object it was taken from; `size_t` indices wrap. `PROJECT.json` lists the hazards
line by line, with the property that watches each, or why there is none.

## 2. The models

| module | models | runs in | theorems in |
|---|---|---|---|
| `Cache` | the file caches against a host that changes files | `MCCache` | `CacheProofs` |
| `App` | requests, loader, exports cache, onexit, exit | `MCApp` | `AppProofs` |
| `ModuleRegistry` | what `require` promises the scripts of a request; `App` refines it | – | – |
| `EventLoop` | the event loop over select | `MCEventLoop` | `EventLoopProofs` |
| `Fibers` | threads, V8 lock, condition variables | `MCFibers` | `FibersProofs` |
| `Buffers` | storages, views, finalizers, external memory | `MCBuffers` | `BuffersProofs` |
| `Process` | calls, children, pipes | `MCProcess` | `ProcessProofs` |
| `Stream` | `receive` and `receive_strict` of sockets and TLS connections | `MCStream` | `StreamProofs` |
| `WebSocket` | the WebSocket server, its peers and its application | `MCWebSocket` | `WebSocketProofs` |
| `ClientView` | what an application of the server is promised; `WebSocket` refines it | – | – |

A definition that ends in `_Word` behind a comment `Mutant:` is a bug that the code could
have and has not. Each property of a passing run is violated by one of them
(`PROJECT.json`, `mutants`); no specification uses them.

### Cache

One process has one thread in the cache, so at most one call (`op`) is in progress; it is
cut at its system calls, and the host acts between them. `Hit` and `Miss` are the call up
to `isCached`'s stat and, when the entry is stale, `erase`; `OpenSource`, `ReadSource`
are `getSource` up to `ftell` and its read loop with the compilation; `DlOpen` is dlopen
with the loader's own table (`loaded`: an image that is open under a name is returned
again, with one more reference); `Mark` is the second stat and the insertion.
A content is named by the number of the write that made it. `Faults` says how the host
departs from "every change is a new file, renamed over the old one, with a new mtime":
`reuse_mtime`, `delete`, `truncate`. A hit without an entry (`end()` is dereferenced)
leads to the state `undefined`, where nothing follows. `Mark` of a file that has gone
records an arbitrary mtime, because the code does not look at the result of its stat.
`raced` remembers the files that changed while their entry was being loaded: those may be
stale, by the design of the code (the mtime is taken after the source), and the freshness
properties except them. `op.short` says that a script was cut short between `ftell` and
the read loop, which then waits for bytes that never come.

### App and ModuleRegistry

A module is what `resolve_module` finds: its files (the library before the script) and
its key in the exports cache. A frame of `stack` is a `require` in progress (or an
`onexit` callback), with the files it still has to load and whether its JavaScript runs.
`BeginLoad` is `require` up to the caching of the blank exports, `LoadDso`, `CallModule`,
`ModuleReturns` the loop over files, `EndLoad`, `LoadFails` (status 1: exports removed)
and `LoadThrows` (a string: nothing removed) its three ends. Whether a file exists,
opens, compiles or throws is free, so every order of successes and failures is explored;
a caller that catches an error goes on, one that does not is itself left by
`LoadFails`/`LoadThrows`. Running JavaScript may `require`, `onexit` and `exit` at will.
`StartRequest`, `TopRequire`, `Prepared`, `Finish`, `CallOnexit`, `OnexitReturns`,
`EndRequest` are `main`, `prepare`, `execute` and `finish`. The file caches are not
composed in: what they add to a load is that it can fail or succeed, which `App` allows
at every file.

`ModuleRegistry` is what scripts may rely on when they `require`: of each key whether it is
absent, loading, loaded or broken, and the object that asking for it gives. A load begins
only where nothing is cached, with an object that nobody has seen; it ends in `loaded`, or
gives the key back, or breaks (a thrown string: the blank object stays); the end of a request
clears everything, and comes when nothing loads. `KeyState` maps `App` to it: `stack`, `done`
and `exports` together say where a key stands. That keys own their exports while they load
(`LoadingOwnsExports`) and keep them when loaded (`LoadedStays`) follows; the two are parts of
the invariant of the proof and have theorems of their own.

### EventLoop

The tables are functions from ids; a timer's due time counts down to 0 (`Tick`), so time
needs no bound. `Run`, `CallSelect`, `SelectFails`, `SelectReturns`, `CallTimer`, `EndTime`,
`CallSocket`, `EndSockets`, `EndLoop` follow `run`, `processTime` and `processSockets`;
`callback` is the callback that is running, and `Script` what it (or the script outside
`run`) calls. The for-in loops visit ids in order and skip those deleted meanwhile; the
timeout of select is an Int32 that wraps. `select` fails when the timeout is negative, and may
fail whenever it is given sockets (a closed one, or what is no Socket): the `catch` of `run`
leaves the loop for any error alike. The model is of a program without other fibers: `select`
gives up the lock of V8 (`socket.cc:378`), and a timer or listener that another fiber adds
meanwhile is not seen before it returns. `Arrive` and `UseSocket` change which sockets
are ready, `Tick` passes time; these are the host. An exception leaves `run` at once
(`CallbackThrows`), with what it had set.

### Fibers

`pc` says where the thread of each fiber is: idle, outside of the V8 lock, or inside
JavaScript. A call that releases the lock, waits and takes it again is three steps or
more: `Suspend`, `Wait`, `Resume`; `Join`, `JoinThread`, `JoinReturns`, `Joined`; `Sleep`,
`WakeUp`. `becomeRunnable` is `CreateThread`, or `BecomeRunnable` and `Signal`, because
it may block on the mutex that a fiber in `suspend` holds (that fiber is at
`"unlocking"`, so no variable is needed for the mutex). `Start`, `Return`, `Delete` are
`runJsFunc`. Condition variables may wake spuriously, `pthread_create` may fail,
`pthread_join` may refuse. The main script runs under no `Locker` (`app.cc:187` is
commented out), so `lock` is `None` at first although the main fiber runs; its first
Unlocker, in `system.sleep` or `select` for instance, gives it the lock on the way out.
Two histories say when the program has left the ground on which `fibers.cc` stands:
`unlocked` (a thread was started by a fiber without the V8 lock) and `slept` (a fiber gave
up the lock outside of `fibers.cc` while there were others). Reading deleted `NativeData`
ends the behaviour with `over = "undefined"`.

### Buffers

A Buffer owns one `ByteStorage`, so `obj` keeps the view (storage, offset, length) with its
object; `store` holds the `ByteStorageData` (length, allocation, instance count), `account`
what V8 was told of each storage. `NewLength`, `NewContents`, `NewCopy`, `NewShared`,
`RangeOf`, `Slice`, `WrapData` are the ways in which a Buffer comes to be; `weak` says
whether the constructor got as far as to register its finalizer. Calls that only touch bytes
do not change the state: they are the sets of bytes that they touch (`Span`, `Source`, `At`,
`Fill`, `Copy`), for all indices at once (`Touched`). Indices and the amount that `copy` moves
are computed modulo `Word`, the 2^64 of `size_t`. The constructors convert a length and the
indices into a Buffer to `int` (`AsInt`, up to `IntMax`): an index of 2 GiB becomes a negative
one, and the view begins before its storage. The history `astray` marks these views and the
views of them; what the properties say of a view, they say of all others. `NewData`, `AddData` and `PopBack` are the C++
code that fills a storage before it wraps it. `Drop`, `Finalize` and `Vanish` are V8: the
collector takes objects in any order and may leave their storage behind.

### Process

Every process has a table of the pipe ends that it holds; `Fork` copies the parent's, because
no descriptor is closed on exec, and `Setup` closes in the child what the code closes there.
`pc` says where a call is: `fork`, `close`, `in` (writing the input), `out`, `err` (reading
one stream and then the other), `wait` (`waitpid`). A pipe holds `Cap` bytes and ends when
nobody holds its write end. A child is external: it is in one system call at a time (`doing`)
and chooses the next freely; a child of `exec3`, whose ends are set `O_NONBLOCK`, is not held
up by a pipe that is full or empty (`ChildWouldBlock`). `Faults` makes `pipe`, `fork`, `popen` and `read` fail, and the
error returns leave open what the code leaves open. `popen` that fails hands NULL to `fgets`
(place `dead`). `Jammed` are the two circular waits; `CallGoesOn` and `ChildGoesOn` say that
what the next system call of the script, or of a child, waits for has come, so that
`OnlyJamsStop` is about states and not about time. A chunk is appended as a C string (`Upto`), so it is cut at a NUL.

### Stream

One connected object, a socket or a TLS connection, blocking or not; the peer may close,
reset, or cut a TLS connection without a goodbye. `SocketReceive` and `TlsReceive` are one
read. `BeginStrict`, `ReadBlock`, `WriteFails` and the two `…Stops` are the loop of
`receive_strict`: into a storage, or over TLS into a header storage up to the blank line
(`ReadHeader`) and then into a file (`ReadBody`). The storage grows as `ByteStorageData::add`
does. The search for the blank line begins at an address taken before `add`, so when `add`
moves the data it finds nothing, or anything (`ReadHeaderWild`, place `undefined`).

### WebSocket and ClientView

The bytes of a connection are units `<<i, k>>`, the k-th of the three parts of frame i (its
header, mask and payload), so TCP may cut a frame anywhere that
matters to the parser; frame 0 is the HTTP request. `inbox` is what has arrived, `data` what
the server has read and not used, `need` what the frame in work waits for, `payload` the
unfinished message. A listener's turn is `Accept`, `TLSHandshake`, `HelloPart`, `Hello`,
`HelloFails`, `ReadingError` or `Receive`; after `Receive` the parser goes frame by frame
(`Incomplete`, `Refuse`, `DataFrame`, `Ping`, `CloseFrame`), and its errors end in `Catch`.
`stack` holds the callbacks of the application that run; each may send (`AppSends`, which
spins while the socket is full), disconnect any client, from a callback of another client
too, return, or throw, through the parser or through the loop (`up`). `Secure` puts a TLS
handshake in front. `Polite` says that the application does not call `disconnect` on a client
while it is being told that this client was lost: the server still has the client in its
table then, and would tell it a second time (section 5).

`ClientView` is what an application may rely on: of each client it is told that it is there,
then of its messages, whole, in order and once, then once that it is gone; while the block in
which the end came is still being parsed (`leaving`) more messages may follow, and never
after that. `Seen` maps `WebSocket` to it: what a peer has said is defined from its frames by
`Messages`, a definition that knows no parser state: some frames end a message (`Ends`), its
frames are those behind the end before (`Parts`), and the messages are these sets, in the
order of their ends (`InOrder`). `told` keeps what the application was told
of each client, `"twice"` when it was told of the end again; without `Polite` that state is
reached and `AppSees` fails.

## 3. What is checked

| run | question | instance |
|---|---|---|
| `cache_calm` | While files are replaced by renaming and scripts cut short in place, with new mtimes: does a hit have an entry (`HitHasEntry`), are libraries current (`FreshLibs`), is no image leaked or closed twice (`RefsExact`), is a file that is good in the end served in the end (`GoodFilesServed`)? | 1 script, 1 library, 4 changes |
| `cache_safe` | With deletion and truncation: are scripts current (`FreshScripts`), are cached handles open (`HandleAlive`)? | 3 changes |
| `app_requests` | Does `require` keep what `ModuleRegistry` promises (`RequireKept`), are requests separate (`NoStaleExports`), do cached exports belong to a module (`CachedIsLoaded`), does each callback run once and in order (`OnexitOnce`)? | 4 modules, 2 requests, 5 loads, 2 callbacks |
| `eventloop_safe` | Is the event count exact (`CountExact`), is nothing called that was cleared (`ClearedNotCalled`), with callbacks that throw, a `select` that fails and a delay too long for it? | 1 socket, 3 events, 2 runs |
| `eventloop_live` | Are timers and sockets served, until the run is left (`TimersServed`, `ListenersServed`)? | 2 events, 1 run |
| `fibers_turns` | Does one fiber run at a time (`OneRuns`), is it `Fiber.current` (`CurrentRuns`), is the registry exact (`RunningFibers`), is no resume lost (`NoLostSignal`), does everybody get the lock (`LockIsGiven`)? | 3 fibers, 7 calls |
| `buffers_heap` | Is a storage freed with its last view and not before (`InstancesExact`), are views of views inside (`ViewsInside`), does any index reach outside or into freed memory (`AccessInside`), is V8 told enough (`AccountCovers`), where the indices fit an `int`? | 3 objects, 2 storages |
| `process_pipes` | Is a call that stands still in one of two jams (`OnlyJamsStop`), do all others return (`CallReturns`), with all of the output (`OutputComplete`), leaving nothing (`NothingLeft`)? | 2 calls of 4 methods, 4 faults |
| `stream_receive` | Is no byte lost but with an error (`NothingSkipped`), do headers end at the blank line (`HeaderSplit`), are counts kept, except over TLS without a file (`CountKept`)? | 8 bytes in blocks of at most 3 |
| `websocket_clients` | Does the application see what `ClientView` promises (`AppSees`), are clients served (`ClientsServed`)? | 2 clients, 2 frames of 6 kinds |
| `fibers_join` | violation of `JoinFindsThread` | 3 fibers, 6 calls |
| `stream_header` | violation of `AllSplit` | 6 bytes, block and allocation of 5 |

### Bounds

* `MaxWrites` (3 or 4): a stale entry needs a load, a change and a hit; the longest known
  violation takes three changes. One script and one library: entries of different files
  do not touch each other. `MaxRefs` = 3 only caps a count that leaks.
* `MaxRequests` = 2 shows what one request leaves to the next; `MaxLoads` = 5 allows the
  configuration, a nested pair and a reload after a failure in two requests; three
  loadable modules make cycles of length one, two and three.
* `MaxIds` = 3 allows a callback that clears one event and adds another while a third is
  pending. `Word` = 4 stands for 2^32: a delay of 3 is then one that wraps below zero.
  `MaxRuns` = 2: what one run leaves to the next.
* `MaxCalls` = 7 in `fibers_turns`: the sleep that gives main the lock, four calls that make
  and start two fibers, and two more. The proofs cover longer histories.

* `buffers_heap`: three objects over two storages allow a view of a view, the death of the
  middle one first, and a copy into another storage. `MaxLen` = 2 with `Word` = 16 leaves
  room for an index between the length and 2^64 and for one below zero; `IntMax` = 1 makes
  the largest index one that does not fit an int. Objects and storages
  are interchangeable (`Identical`).
* `process_pipes`: a child of the first call may live into the second and hold its ends. A
  pipe of `Cap` = 1 byte is full at once; inputs and errors of 2 bytes are larger than it,
  and `MAX_BUFFER` = 2 makes reads that are short and reads that are not.
* `stream_receive`: `Block` = 3 cuts the four bytes of a blank line; `Room` = 7 is outgrown
  by a stream of 8, so that a header moves; a count of 4 is more than one block.
  `stream_header`: `Block` = `Room`, as in the code, where both are 10240.
* `websocket_clients`: two frames allow every message of two fragments, a control frame
  between or behind, and a frame after a close in one block; the second client, which sends
  no frames, can be disconnected or sent to from the callbacks of the first. `Room` = 1: the
  second send to a client that does not read spins. Kind `cont` differs from `end` only with
  three frames: the run does not reach it, the theorems hold for any number of frames of all
  kinds.

`CHECK_DEADLOCK FALSE` is set where the system may stop: in both runs of `Cache` at the bound
on changes of the host in a call that waits for truncated bytes, and in `cache_safe` at a
dereferenced `end()`; in `App` when all requests have been served; in `Fibers` when all fibers are
suspended or the process has ended; in `Buffers` when all objects have been made and
collected; in `Process` when parent and child have jammed or the script has made its calls;
in `Stream` and `WebSocket` when peers have reached their bounds, an exception has left the
event loop, or the behaviour is undefined.

### Fairness

* `Cache!FairSpec`: the calling thread goes on (`WF(Proceed)`), a thread in the middle of
  a call waits only for the file system. The next call may be for any file, and each file that
  is not cached is asked for again (`SF(Miss(f))`; strong, because a thread is between calls
  only now and then). What holds a file up for ever is then the cache itself, or a read that
  waits for bytes cut off under it (`op.short`, the exception of `GoodFilesServed`). The host
  has no fairness.
* `EventLoop!FairSpec`: the thread in `run` goes on and its callbacks return (`WF(Loop)`),
  time passes (`WF(Tick)`). Nothing is assumed of scripts or peers.
* `Fibers!FairSpec`: each thread is scheduled (`WF(Thread(t))`), and a script does not
  compute for ever without calling anything, so it calls or returns (`WF(Script(t))`).
  No strong fairness of the V8 lock is assumed: scripts make finitely many calls
  (`MaxCalls`), and then weak fairness is enough.
* `Process!Spec`: a call goes on when it can (`WF(Step)`), and a child comes to its end or
  blocks (`WF(Child(c))`): its output is bounded. A child of `exec3` may also try for ever; no
  call waits for it. The script need not do anything.
* `WebSocket!Spec`: the loop gets to each client that has data (`SF` of `Receive` and
  `ReadingError` per client). This is what `EventLoop!ListenersServed` says of a listener
  whose socket is ready. It is strong because the loop is busy with others in between, and
  those may always have data. The parser goes on (`WF(Parse)`), `send` goes on when there is
  room (`WF(SpinEnds)`), and a callback makes finitely many calls and returns
  (`SF(Returns)`: it may be stuck in a `send` again and again, but not for ever). Peers need
  not send or read; `ClientsServed` therefore asks for `[]<>(spin = None)`.

## 4. What is proved

Every module of the system has its theorems, in a proof module of its own, for every value of
the constants that satisfies the ASSUME of the module (finite types are not assumed). All
safety invariants of the passing runs and both refinements (`RequireKept`, `AppSees`) are
proved; what is left are the seven liveness properties, some with their safe half.

* **Cache**: `TypeCorrect`, `HandlesStayOpen` (no cached handle is closed, under every
  fault), `ScriptsFresh` (under `"reuse_mtime" \notin Faults`: freshness of scripts, with
  deletions and truncations). The count of the loader would leave `Nat` if `erase` closed
  a dead handle, so the type of the counts, `HandleAlive` and "the image in flight is
  open" are one inductive invariant. Freshness needs that no mtime recorded or in the
  file system is ahead of the writes made, and that the content in flight is the file's
  unless `raced`. `HitsHaveEntries`, `DlopensArePaired` and `LibrariesFresh` hold under
  `CalmHost`: nothing is deleted and no mtime comes back. Then a recorded mtime is one that
  the file has or had (`RecordedPast`), so a hit comes after a `mark` and not after an
  `erase`; and what was never recorded has no handle (`HandlesRecorded`), so that `dlopen`
  never meets an image that is still open. Section 5 says what happens without it.
* **App**: `TypeCorrect`, `CyclesEnd`, `LoadedModulesStay`, `RequestsAreSeparate`,
  `OnlyLoadedCached`. The invariant is `LoaderInv`: types, the shape of frames (a callback
  is alone and at the bottom), keys of frames pairwise different and owned,
  `LoadedStays`, "nothing loaded is being loaded" (so that a failing load removes only its
  own exports), numbering of the exports by request, and an empty stack between requests.
  It keeps `removeExports` of one module from ever hitting another. `CallbacksRunOnce` has
  its own invariant `AtexitInv`: only the bottom frame is a callback, what was registered is
  1, 2, … in order, and what has run with what is still to run is all of it.
  `ImplementsRegistry` maps each step to one of `ModuleRegistry` from the same `LoaderInv`: a
  new frame is a `Begin`, a frame that is left an `End` or a `Fail` of its key and of no other
  (`LeaveSettles`), a callback nothing, and the end of a request `Over`, as no frame is left.
* **EventLoop**: `CountIsExact`, `ClearedIsGone`. `eventCount` is a cardinality of two
  tables; the invariant adds that an id is in one of them at most, below `lastId`, and not
  among the cleared ones (`IdsInv`), without which an insertion could replace an event and
  the count drift. `OwedHasStep` and `OwedIsNotDropped` are the safe halves of `TimersServed`
  and `ListenersServed`: while a timer is due or a watched socket ready, `run()` has a step
  (`LoopGoesOn`; `SleepInv`: `select` is never told to sleep past the closest timer, even when
  the timeout is cut to 32 bits, nor without an event), and no step forgets the event: it stays owed
  (`DueOwed`, `ReadyOwed`) until its callback is called, it is cleared, or the run is left by
  an abort, an exception of a callback, or a `select` that fails (for a timer that is due: only
  with listeners beside it). What remains for fairness is that a pass ends.
* **Fibers**: `TypeCorrect`, `OneAtATime`, `CurrentIsRunning`, `RegistryExact`. The
  invariant says who may be inside without the lock (the main fiber, alone), that a join
  remembers its caller, and that a sleep that spoils nothing has no other thread beside
  it; mutual exclusion alone is not inductive because the main fiber starts outside of the
  protocol. `NobodyDeadlocks` and `SignalsReach` are the safe halves of `LockIsGiven` and
  `NoLostSignal`: whoever wants the V8 lock or a mutex finds a thread that can go on
  (`NoCircularWait`, from `HolderInside`: the V8 lock is held inside JavaScript only, so its
  holder never waits for it), and a signal under way finds its fiber in `suspend`, which is
  left only woken. With a mutex that `suspend` takes too late the proof fails.
* **Buffers**: `CountsInstances`, `ViewsStayInside`, `AccountIsEnough`, `TouchesOwnBytes`.
  All are about Buffers of any size; the last three except the views that are `astray`, and
  `TouchesOwnBytes` the constructor with an index beyond `IntMax`. The invariant joins types,
  places (an object has a storage exactly when it has a view of
  one; an allocation is larger than its length while it is filled), and the three
  properties: a view that is deleted must be known to be inside for the account to cover
  what is given back. `TouchesOwnBytes` goes over every call and every index, with `%` by
  an arbitrary `Word`.
* **Stream**: `NothingIsSkipped`, `HeadersSplit`, `CountsKept`. The invariant says what
  `received` counts, that a file is filled only behind a blank line, and that a header that
  has not moved has no blank line until one is found and then ends with its first
  (`HeaderInv`): the search may begin in the last bytes of the blocks before because a blank
  line that ends in the new block cannot begin earlier. `CountsKept` is about sockets and about
  TLS into a file; over TLS without a file the code does not keep its count (section 5).
* **Process**: `CallsLeaveNothing`, `OutputIsComplete`. `EndsInv` says who may hold which
  end: ends of later calls do not exist (`Order`, `Ownership`), the script has closed what
  its place implies (`Closed`), and what a call has closed and its dead child had is held by
  nobody (`Clean`), although every child inherits what earlier calls left open. `OutInv`
  says that what is collected, with what is in the pipe, is what was written, as long as
  that has no NUL (`Collected`); a prefix argument about `Upto` carries it over a chunk. `CallsStopInJams` is the safe half of
  `CallReturns`: if neither the script's call nor its child can go on, they wait in one of the
  two circles of `Jammed`. `HoldInv` says that a child has the ends it works on for as long as
  it runs, and the script those that it has not closed yet; a pipe that ends has lost all of
  its writers, later children and earlier ones included. `JamsAreReal` is the converse, that
  `Jammed` excuses nothing that could go on, and `JamsLast` that only a failing read ends a
  jam.
* **WebSocket**: `ImplementsView`, under `Polite`: each step of the server is, for each client,
  a step of the life that `ClientView` gives it or none. `ToldInOrder` is the half about
  phases (`OneLife`: new, in, leaving, gone, and messages only in the middle two): `Lives` ties
  what the application was told to the connection, `Turns` the turn to the callbacks that run.
  The other half is the messages. `PeerInv` follows the units of a peer: what has arrived and
  what the server has read and not used follow each other without a gap and end where the peer
  is (`Stream`), `need` is what is left of the frame in work, and `payload` is what the
  frames behind the last message have brought (`Loose`). So the frame that ends a message
  ends the next of `Messages`, and `heard` is a prefix of them. The lemmas on `InOrder` and
  `Messages` (appending, prefixes, the next one) are proved from a definition that counts the
  members below, without recursion. `TypeCorrect` and `MessagesWhole` (`HeardIsSaid`) hold for
  every application, polite or not.

Left to TLC: liveness (`GoodFilesServed`, `CallReturns`, `TimersServed`, `ListenersServed`, `NoLostSignal`, `LockIsGiven`, `ClientsServed`), which needs fairness and
ENABLED. Where a theorem above is the safe half of one of these, its guards (`GoesOn`,
`LoopGoesOn`, `CallGoesOn`, `ChildGoesOn`) stand for ENABLED; TLC has compared them with ENABLED of
the actions on the instances of the runs, where they agree.

## 5. Disagreements met

Two runs refute a sentence of the repository; `PROJECT.json` quotes it.

* `join` reads `native_data` after it has released the V8 lock, when the fiber it waits
  for may delete it (`fibers_join`).
* The header of a TLS `receive_strict` is searched for its blank line at an address that
  `add` has given up, as soon as one full block has come (`stream_header`).

Behaviours of the models that contradict what one would expect, without a run of their own:

* Cache: `erase` drops the entries of a file and keeps its mtime, so with an mtime that comes
  back after a reload that failed, a hit has no entry (`HitHasEntry` fails with
  `"reuse_mtime"`). With deletions `FreshLibs` and `RefsExact` fail: a library that was
  missing at the stat of `isCached` is reopened without closing the old handle. A script
  replaced between its read and the stat of `mark` is served stale (`raced`). Under
  truncation `getSource` may wait for ever.
* App: the blank exports of a module whose load threw a string stay cached (`thrown`); files
  that differ only behind the last dot share their exports (`Key`); `exit()` does not end
  the script, although its comment says so.
* EventLoop: an exception through `run()` leaves `running` set for good; the abort timer of
  `run(maxTime)` outlives its run and ends the next one early; one closed socket that is
  still listened to ends `run()`, which returns `true` as if its events had been served.
* Fibers: a fiber that has ended cannot be joined; without the lock of `app.cc:187` the main
  script runs beside the first fiber that it starts.
* WebSocket: when a connection is lost the application is told before the client is removed
  (`websocket.js:175`), so that a `disconnect` of it from within tells it again (hence
  `Polite`); data that came before the end of a connection are thrown away with it (`:329`);
  pongs and close frames are sent once and may be lost or cut (`:300`).
* Buffers: a view or copy that starts at 2 GiB or more starts before its storage
  (`binary.cc:60`), and when such a view is the last to go, it may give back more memory
  than was reported. A `receive_strict` or an Array can make a Buffer of that size.
* Process: the two circular waits of `Jammed`; the error returns leave pipe ends open and
  children unreaped.
* Stream: over a non-blocking TLS connection `receive_strict` treats a read that would block
  as an error and loses what it has read; without a file its count bounds each read and not
  their sum (`tls.cc:347`).

Read in the source and outside of the models: `session.js:92` subtracts the BigInt of
`fs.stat` from a Number, a TypeError, once a session file exists; the first `FCGI_Accept`
leaves the request that `main` has accepted unanswered (`system.cc:129`); `GC::WeakCallback`
asks a handle made weak for a parameter for its internal field, so that finalizers may never
act (`Vanish` of `Buffers` allows it); a `READ_NONBLOCK` that would block makes a Buffer of
−1 bytes (`macros.h:164`); in `pgsql.cc`
`query` with parameters executes twice (366–398), `sendQuery` loops while a query is
outstanding (517–566), and boolean columns are read from row 0.

## 6. What is not modelled, and the plan

Abstracted in the models: V8 contexts and their handles (a compiled script is its
content), path search, command line and configuration parsing, error texts, `Fiber`
names and thread attributes, the exec context of Apache, the bits of a WebSocket header,
masks and close codes, the values of bytes in a Buffer.

Of the lines of C++ and JavaScript the models stand for those that carry the runtime's own
state. Most of the rest of the repository cannot be modelled with any gain:

* The graphics bindings (`src/lib/GL`: gl, glu, glut, gles) are more than half of the C++ lines, most of them
  generated: each function unpacks its arguments, makes one call and packs the result.
* XDOM (9000 lines) is a wrapper in the same style around a DOM of Xerces, written against an
  older V8 API; it keeps no state of its own. `dom.js` is a tree in one thread.
* The databases (pgsql, mysql, sqlite, memcached) pass each call to a client library. Where
  `pgsql.cc` has control flow of its own, the faults named in section 5 sit on straight-line
  paths: a model would repeat them line by line.
* Sessions: once a session file exists the constructor throws before it loads anything, so
  there is no behaviour of concurrent sessions to model. The garbage collection behind that
  line would be the thing to model when it is repaired.
* `FCGI_Accept`, the Apache module, paths and macros, fs, HTTP, transcoding, `binary-b` (the
  older Buffers) and the pure JavaScript libraries are straight-line code, wrappers of one
  call, or formatting and parsing; the reasons are in `PROJECT.json`.
* `system()` and the pid functions of Process, and connect, accept, send and the options of
  sockets, are one system call each.

What is worth doing next, in this order:

1. The safe half of `ClientsServed` of the WebSocket server, as a theorem: which steps a
   frame that has arrived still has before it, and that no other client delays them.
2. The frame codec of `websocket.js` (lengths of 7, 16 and 64 bits, masks) and
   `path_normalize` as operators against a reference, over bounded inputs.
3. A third frame and a second sending client in `websocket_clients`, when the time of the
   run allows it.
