------------------------------ MODULE Buffers ------------------------------
(***************************************************************************)
(* Buffers and the memory behind them: ByteStorageData (the allocation),   *)
(* ByteStorage (a view of one) and the Buffer objects of JavaScript, whose *)
(* finalizers delete the views (src/lib/binary, src/gc.cc).                *)
(*                                                                         *)
(* A Buffer owns exactly one ByteStorage, so the view is kept with its     *)
(* object.  The values of the bytes are left out: a call that only reads   *)
(* or writes bytes is the set of the bytes it touches.  V8 is external:    *)
(* when a script loses an object and when the object is collected is its   *)
(* choice, and the calls themselves never overlap, as scripts hold V8's    *)
(* lock.  A call that ends in a JavaScript error changes none of this and  *)
(* has no step.                                                            *)
(***************************************************************************)
EXTENDS Integers, FiniteSets

CONSTANTS Objs,      \* the Buffer objects a script can make, each made once
          Storages,  \* the allocations that can be made, each made once
          None,      \* no storage: the object is not made yet
          MaxLen,    \* bound: a storage that is not a copy is no longer
          Chunk,     \* what a growing storage is allocated at first
          Word,      \* 2^w of size_t, scaled down
          IntMax     \* the largest int, scaled down

ASSUME LimitsAssumption ==
    /\ MaxLen \in Nat /\ Chunk \in Nat \ {0} /\ IntMax \in Nat
    /\ Word \in Nat /\ Word > MaxLen + 1 /\ Word > 2 * IntMax + 2
    /\ IsFiniteSet(Objs) /\ None \notin Storages

VARIABLES store,   \* the ByteStorageData at each address
          obj,     \* the Buffer objects, each with its ByteStorage
          account  \* of what AdjustAmountOfExternalAllocatedMemory was told,
                   \* the part due to each storage

vars == <<store, obj, account>>

Phases == {"none",    \* not allocated yet
           "data",    \* held by C++ code that fills it
           "live",    \* behind ByteStorage views
           "freed"}
Lives == {"unborn", "held",
          "dropped",  \* no longer reachable for the script
          "lost",     \* collected, and its ByteStorage not deleted
          "deleted"}

\* astray is no field of the code but the view's history: the constructor made
\* it, or a view it is of, from an index that does not fit an int.
TypeOK ==
    /\ store \in [Storages -> [phase: Phases, length: Nat, allocated: Nat,
                               instances: Nat]]
    /\ obj \in [Objs -> [life: Lives, st: Storages \cup {None}, off: Int, len: Nat,
                         weak: BOOLEAN, astray: BOOLEAN]]
    /\ account \in [Storages -> Int]

Init ==
    /\ store = [s \in Storages |-> [phase |-> "none", length |-> 0,
                                    allocated |-> 0, instances |-> 0]]
    /\ obj = [o \in Objs |-> [life |-> "unborn", st |-> None, off |-> 0, len |-> 0,
                              weak |-> FALSE, astray |-> FALSE]]
    /\ account = [s \in Storages |-> 0]

Lengths == 0 .. MaxLen
\* What a script may pass as an index: -1 becomes the largest of all.
Indices == -1 .. MaxLen

HasView(o) == obj[o].life \in {"held", "dropped", "lost"}
ViewsOf(s) == {o \in Objs : HasView(o) /\ obj[o].st = s}
-----------------------------------------------------------------------------
(* Indices.  An undefined first index is 0 and an undefined last one the   *)
(* length, which 0 and -1 stand for.                                       *)

Least(a, b) == IF a <= b THEN a ELSE b

\* Indices are held in a size_t: the tests for a negative one never hold,
\* and it is cut to the length like any other that is too large.
firstIndex(i, length) == Least(i % Word, length)

\* Mutant: it is not cut.
lastIndex_Uncut(i, length) == i % Word
lastIndex(i, length) == Least(i % Word, length)

\* Every call with two indices refuses a start behind the end.
Ordered(p, i, j) == firstIndex(i, obj[p].len) <= lastIndex(j, obj[p].len)
SpanLength(p, i, j) == lastIndex(j, obj[p].len) - firstIndex(i, obj[p].len)

\* The conversion of a size_t or an int64_t to an int.
AsInt(n) == LET m == n % (2 * IntMax + 2)
            IN  IF m <= IntMax THEN m ELSE m - (2 * IntMax + 2)

\* The constructor from a Buffer converts both indices before it compares and
\* subtracts them: a start of 2 GiB comes before any other index, and before
\* the first byte.
index1(p, i) == AsInt(firstIndex(i, obj[p].len))
index2(p, j) == AsInt(lastIndex(j, obj[p].len))
IndicesFit(p, i, j) == /\ firstIndex(i, obj[p].len) <= IntMax
                       /\ lastIndex(j, obj[p].len) <= IntMax
-----------------------------------------------------------------------------
(* Making and deleting views.                                              *)

\* ByteStorageData(length): one byte more for the terminator, or nothing.
Allocation(n) == IF n = 0 THEN 0 ELSE n + 1

\* A new storage s of n bytes with its first view, for the new object o.
Allocate(o, s, n, weak) ==
    /\ obj[o].life = "unborn" /\ store[s].phase = "none"
    /\ store' = [store EXCEPT ![s] = [phase |-> "live", length |-> n,
                    allocated |-> Allocation(n), instances |-> 1]]
    /\ obj' = [obj EXCEPT ![o] = [life |-> "held", st |-> s, off |-> 0,
                                  len |-> n, weak |-> weak, astray |-> FALSE]]
    /\ account' = [account EXCEPT ![s] = @ + n]

\* Mutant: the view constructor without its count.
Share_Uncounted(o, p, i, n, weak, astray) ==
    /\ obj[o].life = "unborn"
    /\ obj' = [obj EXCEPT ![o] = [life |-> "held", st |-> obj[p].st,
                  off |-> obj[p].off + i, len |-> n, weak |-> weak,
                  astray |-> obj[p].astray \/ astray]]
    /\ UNCHANGED <<store, account>>

\* ByteStorage(master, i, j): a further view of the storage of p.
Share(o, p, i, n, weak, astray) ==
    /\ obj[o].life = "unborn"
    /\ store' = [store EXCEPT ![obj[p].st].instances = @ + 1]
    /\ obj' = [obj EXCEPT ![o] = [life |-> "held", st |-> obj[p].st,
                  off |-> obj[p].off + i, len |-> n, weak |-> weak,
                  astray |-> obj[p].astray \/ astray]]
    /\ UNCHANGED account

\* ~ByteStorage: the last view frees the storage, and takes from the
\* account its own length, not what the storage was reported with.
Released(s) == store[s].instances - 1

\* Mutant: each view gives its own length back, not only the last.
DeleteView_Always(o) ==
    LET s == obj[o].st IN
    /\ store' = [store EXCEPT ![s].instances = Released(s),
                              ![s].phase = IF Released(s) = 0 THEN "freed" ELSE @]
    /\ account' = [account EXCEPT ![s] = @ - obj[o].len]
    /\ obj' = [obj EXCEPT ![o].life = "deleted"]

DeleteView(o) ==
    LET s == obj[o].st IN
    /\ store' = [store EXCEPT ![s].instances = Released(s),
                              ![s].phase = IF Released(s) = 0 THEN "freed" ELSE @]
    /\ account' = [account EXCEPT ![s] =
                      IF Released(s) = 0 THEN @ - obj[o].len ELSE @]
    /\ obj' = [obj EXCEPT ![o].life = "deleted"]
-----------------------------------------------------------------------------
(* The Buffer constructor.  Its early returns skip the registration of the *)
(* finalizer, that only the lengths and the Externals of C++ code reach.   *)

NewLength(o, s, n) == AsInt(n) >= 0 /\ Allocate(o, s, AsInt(n), TRUE)

\* From an Array or a String: the bytes are stored one by one, or copied
\* out of what iconv has made.
NewContents(o, s, n) == Allocate(o, s, n, FALSE)

\* A difference that is no int overflows: the build may have it as it is, or
\* as a length that no allocation has, and then no Buffer is made.
NewCopy(o, p, s, i, j) ==
    /\ obj[p].life = "held" /\ index1(p, i) <= index2(p, j)
    /\ Allocate(o, s, index2(p, j) - index1(p, i), FALSE)

NewShared(o, p, i, j) ==
    /\ obj[p].life = "held" /\ index1(p, i) <= index2(p, j)
    /\ Share(o, p, index1(p, i), index2(p, j) - index1(p, i), FALSE,
             ~ IndicesFit(p, i, j))
-----------------------------------------------------------------------------
(* The methods that make a Buffer: it is constructed from an External.     *)

\* A part of the same storage.
RangeOf(o, p, i, j) ==
    /\ obj[p].life = "held" /\ Ordered(p, i, j)
    /\ Share(o, p, firstIndex(i, obj[p].len), SpanLength(p, i, j), TRUE, FALSE)

\* A copy of a part; JS_BUFFER makes one of what C++ code has read.
Slice(o, p, s, i, j) ==
    /\ obj[p].life = "held" /\ Ordered(p, i, j)
    /\ Allocate(o, s, SpanLength(p, i, j), TRUE)
-----------------------------------------------------------------------------
(* The calls that only touch bytes: which bytes of the view of o.          *)

\* n of them from the i-th on, by address: toString and the copying calls.
Raw(o, i, n) == {<<obj[o].st, obj[o].off + k>> : k \in i .. i + n - 1}

\* The same through getByte and setByte, which ignore what is outside.
Checked(o, i, n) == {<<obj[o].st, obj[o].off + k>> :
                        k \in {m \in i .. i + n - 1 : m < obj[o].len}}

\* toString and slice.
Span(o, i, j) ==
    IF Ordered(o, i, j)
    THEN Raw(o, firstIndex(i, obj[o].len), SpanLength(o, i, j))
    ELSE {}

\* The constructor that copies from a Buffer.
Source(o, i, j) ==
    IF index1(o, i) <= index2(o, j)
    THEN Raw(o, index1(o, i), index2(o, j) - index1(o, i))
    ELSE {}

\* An index of the language is a uint32_t; outside it is a RangeError.
At(o, i) == IF i >= obj[o].len THEN {} ELSE Checked(o, i, 1)

Fill(o, i, j) ==
    IF Ordered(o, i, j)
    THEN Checked(o, firstIndex(i, obj[o].len), SpanLength(o, i, j))
    ELSE {}

\* How much copy and copyFrom move: the difference is one of size_t, so an
\* end before the start moves all that the other side, of the given length,
\* has room for behind its offset.
CopyAmount(length, offset, start, end) ==
    Least(length - offset, (end - start) % Word)

\* Between o (this) and p; with an Array for p, of p's length, only o's.
Copy(o, p, k, i, j) ==
    LET start  == firstIndex(i, obj[o].len)
        offset == firstIndex(k, obj[p].len)
        amount == CopyAmount(obj[p].len, offset, start, lastIndex(j, obj[o].len))
    IN  Checked(o, start, amount) \cup Checked(p, offset, amount)

\* The Buffers of a script, but for the views that are astray.
Sane == {o \in Objs : obj[o].life = "held" /\ ~ obj[o].astray}

\* What the calls on those touch, but for copies that begin or end at 2 GiB.
Touched ==
    UNION {(UNION {Span(o, i, j) \cup Fill(o, i, j) : i, j \in Indices}) \cup
           (UNION {IF IndicesFit(o, i, j) THEN Source(o, i, j) ELSE {} :
                      i, j \in Indices}) \cup
           (UNION {At(o, i) : i \in Lengths}) \cup
           (UNION {Copy(o, p, k, i, j) : k, i, j \in Indices, p \in Sane}) : o \in Sane}
-----------------------------------------------------------------------------
(* A storage that C++ code fills (receive_strict) and then makes a Buffer. *)

\* ByteStorageData(0, Chunk)
NewData(s) ==
    /\ store[s].phase = "none"
    /\ store' = [store EXCEPT ![s] = [phase |-> "data", length |-> 0,
                    allocated |-> Chunk, instances |-> 1]]
    /\ UNCHANGED <<obj, account>>

\* Mutant: the loop of add stops when the data just fits.
Grown_Tight(s, n) ==
    LET need == store[s].length + n
    IN  IF need < store[s].allocated THEN {store[s].allocated}
        ELSE {m \in need .. 2 * need - 1 :
                 \E k \in 0 .. need : m = store[s].allocated * 2^k}

\* The allocation is doubled until it is more than what is needed.
Grown(s, n) ==
    LET need == store[s].length + n
    IN  IF need < store[s].allocated THEN {store[s].allocated}
        ELSE {m \in need + 1 .. 2 * need :
                 \E k \in 1 .. need : m = store[s].allocated * 2^k}

AddData(s, n) ==
    /\ store[s].phase = "data"
    /\ store[s].length + n <= MaxLen
    /\ \E m \in Grown(s, n) :
          store' = [store EXCEPT ![s].allocated = m, ![s].length = @ + n]
    /\ UNCHANGED <<obj, account>>

\* Mutant: pop_back does not compare with the length.
PopBack_Unchecked(s, n) ==
    /\ store[s].phase = "data"
    /\ store' = [store EXCEPT ![s].length = @ - n]
    /\ UNCHANGED <<obj, account>>

\* A length that is too large is an error, and changes nothing.
PopBack(s, n) ==
    /\ store[s].phase = "data"
    /\ n <= store[s].length
    /\ store' = [store EXCEPT ![s].length = @ - n]
    /\ UNCHANGED <<obj, account>>

\* ByteStorage(ByteStorageData): what is reported is the allocation.
WrapData(o, s) ==
    /\ obj[o].life = "unborn" /\ store[s].phase = "data"
    /\ store' = [store EXCEPT ![s].phase = "live"]
    /\ obj' = [obj EXCEPT ![o] = [life |-> "held", st |-> s, off |-> 0,
                                  len |-> store[s].length, weak |-> TRUE,
                                  astray |-> FALSE]]
    /\ account' = [account EXCEPT ![s] = @ + store[s].allocated]
-----------------------------------------------------------------------------
(* The script and the collector.                                           *)

Drop(o) == /\ obj[o].life = "held"
           /\ obj' = [obj EXCEPT ![o].life = "dropped"]
           /\ UNCHANGED <<store, account>>

\* WeakCallback: the finalizer deletes the view.
Finalize(o) == /\ obj[o].life = "dropped" /\ obj[o].weak
               /\ DeleteView(o)

\* Without a finalizer the object goes and its view stays.  So it does with
\* one if V8 has no internal field to hand to it: WeakCallback asks for it
\* although the handle was made weak for a parameter.
Vanish(o) == /\ obj[o].life = "dropped"
             /\ obj' = [obj EXCEPT ![o].life = "lost"]
             /\ UNCHANGED <<store, account>>

Create ==
    \E o \in Objs :
       \/ \E s \in Storages, n \in Lengths : NewLength(o, s, n) \/ NewContents(o, s, n)
       \/ \E p \in Objs, s \in Storages, i, j \in Indices :
             NewCopy(o, p, s, i, j) \/ Slice(o, p, s, i, j)
       \/ \E p \in Objs, i, j \in Indices : NewShared(o, p, i, j) \/ RangeOf(o, p, i, j)
       \/ \E s \in Storages : WrapData(o, s)

Build == \E s \in Storages :
            \/ NewData(s)
            \/ \E n \in Lengths : AddData(s, n) \/ PopBack(s, n)

Collect == \E o \in Objs : Drop(o) \/ Finalize(o) \/ Vanish(o)

Next == Create \/ Build \/ Collect

Spec == Init /\ [][Next]_vars
-----------------------------------------------------------------------------
(* Properties.                                                             *)

\* The instance count of a storage is the number of the ByteStorage objects
\* that exist over it, through any order of range, views of views, and
\* finalizers: a storage with a view is never freed, and none without is kept
\* (bytestorage.cc, the view constructor and the destructor).
InstancesExact ==
    \A s \in Storages :
       /\ store[s].phase = "live" => store[s].instances = Cardinality(ViewsOf(s))
       /\ store[s].phase = "live" <=> ViewsOf(s) # {}

\* A view lies inside its storage, that of a view of a view too, whatever
\* indices the calls were given: the arithmetic of size_t never makes one that
\* reaches outside, and that of int only from an index that is no int.
ViewsInside ==
    \A o \in Objs : HasView(o) /\ ~ obj[o].astray =>
        obj[o].off >= 0 /\ obj[o].off + obj[o].len <= store[obj[o].st].length

\* No call on a Buffer touches a byte of a storage that is freed, or outside
\* of it, whatever indices it is given, except through a view that is astray
\* and in the constructor from a Buffer with an index that is no int; nor does
\* C++ code that fills a storage leave its allocation, with the terminator
\* that pop_back writes.
AccessInside ==
    /\ \A a \in Touched : /\ store[a[1]].phase = "live"
                          /\ a[2] \in 0 .. store[a[1]].length - 1
    /\ \A s \in Storages :
          store[s].phase = "data" => store[s].length < store[s].allocated

\* V8 is never told less than what the buffers hold: what is reported of a
\* storage is at least its length while it lives, and what is given back at
\* its end, the length of the view that happens to go last, is no more, unless
\* one of its views went astray.
AccountCovers ==
    \A s \in Storages :
       \/ account[s] >= IF store[s].phase = "live" THEN store[s].length ELSE 0
       \/ \E o \in Objs : obj[o].st = s /\ obj[o].astray
=============================================================================
