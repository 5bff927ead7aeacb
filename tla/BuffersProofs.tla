--------------------------- MODULE BuffersProofs ---------------------------
(***************************************************************************)
(* Proofs about Buffers, for any number of Buffer objects and storages and *)
(* any lengths, those that are more than an int included.  Inv is the      *)
(* inductive invariant.                                                    *)
(***************************************************************************)
EXTENDS Buffers, FiniteSetTheorems, TLAPS

\* A view is one of a live storage, and only a view goes astray; what is being filled
\* has room for a terminator.
Places ==
    /\ \A o \in Objs : obj[o].life = "unborn" => ~ obj[o].astray
    /\ \A o \in Objs : HasView(o) =>
          obj[o].st \in Storages /\ store[obj[o].st].phase = "live"
    /\ \A s \in Storages :
          store[s].phase = "data" => /\ store[s].length < store[s].allocated
                                     /\ store[s].instances = 1

Inv == TypeOK /\ Places /\ InstancesExact /\ ViewsInside /\ AccountCovers

\* The size_t of an index is a number, and a cut one is inside.
LEMMA IndexCut ==
    ASSUME NEW i \in Int, NEW n \in Nat
    PROVE  /\ firstIndex(i, n) \in 0 .. n
           /\ lastIndex(i, n) \in 0 .. n
PROOF
  <1>1. Word \in Nat \ {0}
    BY LimitsAssumption
  <1>2. i % Word \in 0 .. Word - 1
    BY <1>1
  <1> QED
    BY <1>1, <1>2 DEF firstIndex, lastIndex, Least

\* An index that fits an int is the same as an int, and one that does not is an int.
LEMMA IntKept ==
    ASSUME NEW n \in Nat
    PROVE  AsInt(n) \in Int /\ (n <= IntMax => AsInt(n) = n)
PROOF
  <1> DEFINE w == 2 * IntMax + 2
  <1>1. w \in Nat /\ w > IntMax /\ IntMax \in Nat
    BY LimitsAssumption
  <1>2. AsInt(n) = LET m == n % w IN IF m <= IntMax THEN m ELSE m - w
    BY DEF AsInt
  <1> HIDE DEF w
  <1>3. n % w \in 0 .. w - 1 /\ (n < w => n % w = n)
    BY <1>1
  <1> QED
    BY <1>1, <1>2, <1>3

\* The views of a storage are finitely many.
LEMMA FiniteViews ==
    ASSUME NEW s \in Storages
    PROVE  IsFiniteSet(ViewsOf(s))
PROOF
  <1>1. ViewsOf(s) \subseteq Objs
    BY DEF ViewsOf
  <1> QED
    BY <1>1, FS_Subset, LimitsAssumption

LEMMA Initially == Init => Inv
PROOF
  <1> SUFFICES ASSUME Init  PROVE Inv
    OBVIOUS
  <1>1. TypeOK
    BY DEF Init, TypeOK, Phases, Lives
  <1>2. \A o \in Objs : ~ HasView(o)
    BY DEF Init, HasView
  <1>3. \A s \in Storages : ViewsOf(s) = {}
    BY <1>2 DEF ViewsOf
  <1>4. Places /\ ViewsInside
    BY <1>2 DEF Init, Places, ViewsInside
  <1>5. InstancesExact
    BY <1>3 DEF Init, InstancesExact
  <1>6. AccountCovers
    BY DEF Init, AccountCovers
  <1> QED
    BY <1>1, <1>4, <1>5, <1>6 DEF Inv

\* A new storage with one view of all of it.
LEMMA AllocateKeeps ==
    ASSUME Inv, NEW o \in Objs, NEW s \in Storages, NEW n \in Nat,
           NEW weak \in BOOLEAN, Allocate(o, s, n, weak)
    PROVE  Inv'
PROOF
  <1> USE DEF Inv
  <1>0. /\ store' = [store EXCEPT ![s] = [phase |-> "live", length |-> n,
                        allocated |-> Allocation(n), instances |-> 1]]
        /\ obj' = [obj EXCEPT ![o] = [life |-> "held", st |-> s, off |-> 0,
                                      len |-> n, weak |-> weak, astray |-> FALSE]]
        /\ account' = [account EXCEPT ![s] = @ + n]
        /\ obj[o].life = "unborn" /\ store[s].phase = "none"
    BY DEF Allocate
  <1>1. TypeOK'
    BY <1>0 DEF TypeOK, Allocation, Phases, Lives
  <1>2. ~ HasView(o) /\ HasView(o)' /\ obj'[o].st = s
    BY <1>0 DEF HasView, TypeOK
  <1>3. \A p \in Objs \ {o} : obj'[p] = obj[p] /\ (HasView(p)' <=> HasView(p))
    BY <1>0 DEF HasView, TypeOK
  <1>4. \A t \in Storages \ {s} : store'[t] = store[t] /\ account'[t] = account[t]
    BY <1>0 DEF TypeOK
  <1>5. ViewsOf(s) = {}
    BY <1>0 DEF InstancesExact
  <1>6. ViewsOf(s)' = {o}
    <2>1. \A p \in Objs : HasView(p)' /\ obj'[p].st = s <=> p = o
      BY <1>2, <1>3, <1>5 DEF ViewsOf
    <2> QED
      BY <2>1 DEF ViewsOf
  <1>7. \A t \in Storages \ {s} : ViewsOf(t)' = ViewsOf(t)
    BY <1>2, <1>3 DEF ViewsOf
  <1>8. /\ store'[s].phase = "live" /\ store'[s].length = n
        /\ store'[s].instances = 1 /\ account'[s] = account[s] + n
    BY <1>0 DEF TypeOK
  <1>9. Places'
    BY <1>0, <1>2, <1>3, <1>4, <1>8 DEF Places
  <1>10. InstancesExact'
    <2>1. Cardinality({o}) = 1
      BY FS_Singleton
    <2> QED
      BY <1>4, <1>6, <1>7, <1>8, <2>1 DEF InstancesExact
  <1>11. ViewsInside'
    <2> SUFFICES ASSUME NEW p \in Objs, HasView(p)', ~ obj'[p].astray
                 PROVE  (/\ obj[p].off >= 0
                         /\ obj[p].off + obj[p].len <= store[obj[p].st].length)'
      BY DEF ViewsInside
    <2>1. CASE p = o
      BY <2>1, <1>0, <1>8 DEF TypeOK
    <2>2. CASE p # o
      <3>1. HasView(p) /\ obj'[p] = obj[p]
        BY <2>2, <1>3
      <3>2. obj[p].st \in Storages /\ obj[p].st # s
        BY <3>1, <1>0 DEF Places
      <3> QED
        BY <3>1, <3>2, <1>4 DEF ViewsInside
    <2> QED
      BY <2>1, <2>2
  <1>12. AccountCovers'
    <2>1. \A t \in Storages : (\E p \in Objs : obj[p].st = t /\ obj[p].astray) =>
                                 (\E p \in Objs : obj'[p].st = t /\ obj'[p].astray)
      BY <1>0, <1>3 DEF Places
    <2>2. account[s] \in Int
      BY DEF TypeOK
    <2> QED
      BY <2>1, <2>2, <1>0, <1>4, <1>8 DEF AccountCovers
  <1> QED
    BY <1>1, <1>9, <1>10, <1>11, <1>12

\* One more view of a storage that has one, inside that one or astray.
LEMMA ShareKeeps ==
    ASSUME Inv, NEW o \in Objs, NEW p \in Objs, NEW i \in Int, NEW n \in Nat,
           NEW weak \in BOOLEAN, NEW astray \in BOOLEAN, obj[p].life = "held",
           astray \/ (i >= 0 /\ i + n <= obj[p].len),
           Share(o, p, i, n, weak, astray)
    PROVE  Inv'
PROOF
  <1> USE DEF Inv
  <1>a. HasView(p) /\ obj[p].st \in Storages
    BY DEF HasView, Places
  <1>s. PICK s \in Storages : s = obj[p].st
    BY <1>a
  <1>0. /\ store' = [store EXCEPT ![s].instances = @ + 1]
        /\ obj' = [obj EXCEPT ![o] = [life |-> "held", st |-> s,
                      off |-> obj[p].off + i, len |-> n, weak |-> weak,
                      astray |-> obj[p].astray \/ astray]]
        /\ account' = account
        /\ obj[o].life = "unborn"
    BY <1>s DEF Share
  <1>1. HasView(p) /\ obj[p].st = s /\ store[s].phase = "live"
    BY <1>a, <1>s DEF Places
  <1>2. TypeOK'
    BY <1>0, <1>1 DEF TypeOK, Phases, Lives
  <1>3. ~ HasView(o) /\ HasView(o)' /\ obj'[o].st = s
    BY <1>0 DEF HasView, TypeOK
  <1>4. \A q \in Objs \ {o} : obj'[q] = obj[q] /\ (HasView(q)' <=> HasView(q))
    BY <1>0 DEF HasView, TypeOK
  <1>5. \A t \in Storages : /\ store'[t].phase = store[t].phase
                            /\ store'[t].length = store[t].length
                            /\ store'[t].allocated = store[t].allocated
                            /\ t # s => store'[t] = store[t]
    BY <1>0 DEF TypeOK
  <1>6. store'[s].instances = store[s].instances + 1
    BY <1>0, <1>1 DEF TypeOK
  <1>7. ViewsOf(s)' = ViewsOf(s) \cup {o} /\ o \notin ViewsOf(s)
    <2>1. \A q \in Objs : HasView(q)' /\ obj'[q].st = s <=>
                             (HasView(q) /\ obj[q].st = s) \/ q = o
      BY <1>3, <1>4
    <2> QED
      BY <2>1, <1>3 DEF ViewsOf
  <1>8. \A t \in Storages \ {s} : ViewsOf(t)' = ViewsOf(t)
    BY <1>3, <1>4 DEF ViewsOf
  <1>9. Places'
    BY <1>0, <1>1, <1>3, <1>4, <1>5 DEF Places
  <1>10. InstancesExact'
    <2>1. Cardinality(ViewsOf(s)') = Cardinality(ViewsOf(s)) + 1
      <3>1. IsFiniteSet(ViewsOf(s))
        BY <1>1, FiniteViews
      <3>2. Cardinality(ViewsOf(s) \cup {o}) = Cardinality(ViewsOf(s)) + 1
        BY <1>7, <3>1, FS_AddElement
      <3> QED
        BY <1>7, <3>2
    <2>2. ViewsOf(s)' # {}
      BY <1>7
    <2>3. \A t \in Storages \ {s} :
             /\ store'[t].phase = "live" => store'[t].instances = Cardinality(ViewsOf(t)')
             /\ store'[t].phase = "live" <=> ViewsOf(t)' # {}
      BY <1>5, <1>8 DEF InstancesExact
    <2>4. store'[s].phase = "live" /\ store'[s].instances = Cardinality(ViewsOf(s)')
      BY <2>1, <1>1, <1>5, <1>6 DEF InstancesExact
    <2> QED
      BY <2>2, <2>3, <2>4 DEF InstancesExact
  <1>11. ViewsInside'
    <2> SUFFICES ASSUME NEW q \in Objs, HasView(q)', ~ obj'[q].astray
                 PROVE  (/\ obj[q].off >= 0
                         /\ obj[q].off + obj[q].len <= store[obj[q].st].length)'
      BY DEF ViewsInside
    <2>1. CASE q = o
      <3>1. /\ obj'[o].off = obj[p].off + i /\ obj'[o].len = n
            /\ obj'[o].astray <=> obj[p].astray \/ astray
        BY <1>0 DEF TypeOK
      <3>2. obj[p].off >= 0 /\ obj[p].off + obj[p].len <= store[s].length
        BY <2>1, <3>1, <1>1 DEF ViewsInside
      <3>3. obj[p].off \in Int /\ obj[p].len \in Nat /\ store[s].length \in Nat
        BY <1>1 DEF TypeOK
      <3> QED
        BY <2>1, <3>1, <3>2, <3>3, <1>1, <1>3, <1>5
    <2>2. CASE q # o
      <3>1. HasView(q) /\ obj'[q] = obj[q]
        BY <2>2, <1>4
      <3>2. obj[q].st \in Storages
        BY <3>1 DEF Places
      <3> QED
        BY <3>1, <3>2, <1>5 DEF ViewsInside
    <2> QED
      BY <2>1, <2>2
  <1>12. AccountCovers'
    <2>1. ~ obj[o].astray
      BY <1>0 DEF Places
    <2> QED
      BY <2>1, <1>0, <1>4, <1>5 DEF AccountCovers
  <1> QED
    BY <1>2, <1>9, <1>10, <1>11, <1>12

\* A view goes, and with the last one its storage.  What is given back is no more than
\* was reported, as a view is no longer than its storage.
LEMMA DeleteKeeps ==
    ASSUME Inv, NEW o \in Objs, obj[o].life = "dropped", DeleteView(o)
    PROVE  Inv'
PROOF
  <1> USE DEF Inv
  <1>a. HasView(o) /\ obj[o].st \in Storages
    BY DEF HasView, Places
  <1>s. PICK s \in Storages : s = obj[o].st
    BY <1>a
  <1> DEFINE last == store[s].instances - 1 = 0
  <1>0. /\ store' = [store EXCEPT ![s].instances = @ - 1,
                                  ![s].phase = IF last THEN "freed" ELSE @]
        /\ account' = [account EXCEPT ![s] = IF last THEN @ - obj[o].len ELSE @]
        /\ obj' = [obj EXCEPT ![o].life = "deleted"]
    BY <1>s DEF DeleteView, Released, TypeOK
  <1>1. HasView(o) /\ obj[o].st = s /\ store[s].phase = "live"
    BY <1>a, <1>s DEF Places
  <1>2. o \in ViewsOf(s) /\ IsFiniteSet(ViewsOf(s))
    BY <1>1, FiniteViews DEF ViewsOf
  <1>3. /\ store[s].instances = Cardinality(ViewsOf(s))
        /\ store[s].instances \in Nat /\ store[s].instances - 1 \in Nat
        /\ Cardinality(ViewsOf(s) \ {o}) = store[s].instances - 1
    <2>1. Cardinality(ViewsOf(s) \ {o}) = Cardinality(ViewsOf(s)) - 1
      BY <1>2, FS_RemoveElement
    <2>2. Cardinality(ViewsOf(s) \ {o}) \in Nat /\ Cardinality(ViewsOf(s)) \in Nat
      BY <1>2, FS_RemoveElement, FS_CardinalityType
    <2>3. store[s].instances = Cardinality(ViewsOf(s))
      BY <1>1 DEF InstancesExact
    <2> QED
      BY <2>1, <2>2, <2>3
  <1>4. TypeOK'
    <2>1. store' \in [Storages -> [phase: Phases, length: Nat, allocated: Nat,
                                   instances: Nat]]
      <3>1. store[s] \in [phase: Phases, length: Nat, allocated: Nat, instances: Nat]
        BY DEF TypeOK
      <3>2. /\ store[s].instances - 1 \in Nat
            /\ (IF last THEN "freed" ELSE store[s].phase) \in Phases
        BY <1>3, <3>1 DEF Phases
      <3> HIDE DEF last
      <3> QED
        BY <1>0, <3>1, <3>2 DEF TypeOK
    <2>2. account' \in [Storages -> Int]
      <3>1. (IF last THEN account[s] - obj[o].len ELSE account[s]) \in Int
        BY DEF TypeOK
      <3> HIDE DEF last
      <3> QED
        BY <1>0, <3>1 DEF TypeOK
    <2>3. obj' \in [Objs -> [life: Lives, st: Storages \cup {None}, off: Int, len: Nat,
                             weak: BOOLEAN, astray: BOOLEAN]]
      BY <1>0 DEF TypeOK, Lives
    <2> QED
      BY <2>1, <2>2, <2>3 DEF TypeOK
  <1>5. ~ HasView(o)' /\ \A q \in Objs \ {o} : obj'[q] = obj[q] /\ (HasView(q)' <=> HasView(q))
    BY <1>0 DEF HasView, TypeOK
  <1>6. \A t \in Storages \ {s} : store'[t] = store[t] /\ account'[t] = account[t]
    BY <1>0, <1>1 DEF TypeOK
  <1>7. /\ store'[s].length = store[s].length
        /\ store'[s].instances = store[s].instances - 1
        /\ store'[s].phase = IF last THEN "freed" ELSE "live"
        /\ account'[s] = IF last THEN account[s] - obj[o].len ELSE account[s]
    BY <1>0, <1>1 DEF TypeOK
  <1>8. ViewsOf(s)' = ViewsOf(s) \ {o} /\ \A t \in Storages \ {s} : ViewsOf(t)' = ViewsOf(t)
    <2>1. \A q \in Objs, t \in Storages :
             HasView(q)' /\ obj'[q].st = t <=> (HasView(q) /\ obj[q].st = t) /\ q # o
      BY <1>5
    <2>2. \A t \in Storages : ViewsOf(t)' = ViewsOf(t) \ {o}
      BY <2>1 DEF ViewsOf
    <2>3. \A t \in Storages \ {s} : o \notin ViewsOf(t)
      BY <1>1 DEF ViewsOf
    <2> QED
      BY <2>2, <2>3
  <1>9. last <=> ViewsOf(s)' = {}
    <2>1. IsFiniteSet(ViewsOf(s) \ {o})
      BY <1>2, FS_RemoveElement
    <2> QED
      BY <2>1, <1>3, <1>8, FS_EmptySet
  <1> HIDE DEF last
  <1>10. Places'
    <2> SUFFICES ASSUME NEW q \in Objs, HasView(q)'
                 PROVE  obj'[q].st \in Storages /\ store'[obj'[q].st].phase = "live"
      <3>1. \A q \in Objs : obj'[q].life = "unborn" => ~ obj'[q].astray
        BY <1>0 DEF Places, TypeOK
      <3>2. \A t \in Storages : store'[t].phase = "data" => t # s
        BY <1>7
      <3> QED
        BY <1>6, <3>1, <3>2 DEF Places
    <2>1. q # o /\ HasView(q) /\ obj'[q] = obj[q]
      BY <1>5
    <2>2. obj[q].st \in Storages /\ store[obj[q].st].phase = "live"
      BY <2>1 DEF Places
    <2>3. obj[q].st = s => q \in ViewsOf(s)'
      BY <2>1, <1>8 DEF ViewsOf
    <2> QED
      BY <2>1, <2>2, <2>3, <1>6, <1>7, <1>9
  <1>11. InstancesExact'
    <2>1. store'[s].phase = "live" => store'[s].instances = Cardinality(ViewsOf(s)')
      BY <1>3, <1>7, <1>8
    <2>2. store'[s].phase = "live" <=> ViewsOf(s)' # {}
      BY <1>7, <1>9
    <2>3. \A t \in Storages \ {s} :
             /\ store'[t].phase = "live" => store'[t].instances = Cardinality(ViewsOf(t)')
             /\ store'[t].phase = "live" <=> ViewsOf(t)' # {}
      BY <1>6, <1>8 DEF InstancesExact
    <2> QED
      BY <2>1, <2>2, <2>3 DEF InstancesExact
  <1>12. ViewsInside'
    <2> SUFFICES ASSUME NEW q \in Objs, HasView(q)', ~ obj'[q].astray
                 PROVE  (/\ obj[q].off >= 0
                         /\ obj[q].off + obj[q].len <= store[obj[q].st].length)'
      BY DEF ViewsInside
    <2>1. q # o /\ HasView(q) /\ obj'[q] = obj[q] /\ obj[q].st \in Storages
      BY <1>5 DEF Places
    <2> QED
      BY <2>1, <1>6, <1>7 DEF ViewsInside
  <1>13. AccountCovers'
    <2>1. /\ account[s] \in Int /\ store[s].length \in Nat
          /\ obj[o].len \in Nat /\ obj[o].off \in Int
      BY DEF TypeOK
    <2>2. \A q \in Objs : obj'[q].st = obj[q].st /\ obj'[q].astray = obj[q].astray
      BY <1>0 DEF TypeOK
    <2>3. ASSUME ~ \E q \in Objs : obj[q].st = s /\ obj[q].astray
          PROVE  account'[s] >= IF store'[s].phase = "live" THEN store'[s].length ELSE 0
      <3>1. account[s] >= store[s].length
        BY <2>3, <1>1 DEF AccountCovers
      <3>2. obj[o].off >= 0 /\ obj[o].off + obj[o].len <= store[s].length
        BY <2>3, <1>1 DEF ViewsInside
      <3>3. account[s] - obj[o].len >= 0
        BY <2>1, <3>1, <3>2
      <3> QED
        BY <2>1, <3>1, <3>3, <1>7
    <2> QED
      BY <2>2, <2>3, <1>6 DEF AccountCovers
  <1> QED
    BY <1>4, <1>10, <1>11, <1>12, <1>13

\* A storage that no view shows may be filled, as long as there is room.
LEMMA FillKeeps ==
    ASSUME Inv, NEW s \in Storages, store[s].phase \in {"none", "data"},
           store' \in [Storages -> [phase: Phases, length: Nat, allocated: Nat,
                                    instances: Nat]],
           store'[s].phase = "data", store'[s].length < store'[s].allocated,
           store'[s].instances = 1,
           \A t \in Storages \ {s} : store'[t] = store[t],
           UNCHANGED <<obj, account>>
    PROVE  Inv'
PROOF
  <1> USE DEF Inv
  <1>1. TypeOK'
    BY DEF TypeOK
  <1>2. \A o \in Objs : HasView(o)' <=> HasView(o)
    BY DEF HasView
  <1>3. \A t \in Storages : ViewsOf(t)' = ViewsOf(t)
    BY <1>2 DEF ViewsOf
  <1>4. \A o \in Objs : HasView(o) => obj[o].st \in Storages \ {s}
    BY DEF Places
  <1>5. Places'
    BY <1>2, <1>4 DEF Places
  <1>6. InstancesExact'
    <2>1. ViewsOf(s)' = {}
      BY <1>3 DEF InstancesExact
    <2>2. \A t \in Storages \ {s} :
             /\ store'[t].phase = "live" => store'[t].instances = Cardinality(ViewsOf(t)')
             /\ store'[t].phase = "live" <=> ViewsOf(t)' # {}
      BY <1>3 DEF InstancesExact
    <2>3. store'[s].phase # "live"
      OBVIOUS
    <2> QED
      BY <2>1, <2>2, <2>3 DEF InstancesExact
  <1>7. ViewsInside'
    BY <1>2, <1>4 DEF ViewsInside
  <1>8. AccountCovers'
    BY DEF AccountCovers, TypeOK
  <1> QED
    BY <1>1, <1>5, <1>6, <1>7, <1>8

LEMMA BuildKeeps == ASSUME Inv, Build  PROVE Inv'
PROOF
  <1> USE DEF Inv
  <1>1. ASSUME NEW s \in Storages, NewData(s)  PROVE Inv'
    <2>1. /\ store' = [store EXCEPT ![s] = [phase |-> "data", length |-> 0,
                          allocated |-> Chunk, instances |-> 1]]
          /\ store[s].phase = "none" /\ UNCHANGED <<obj, account>>
      BY <1>1 DEF NewData
    <2>2. Chunk \in Nat /\ 0 < Chunk
      BY LimitsAssumption
    <2> QED
      BY <2>1, <2>2, FillKeeps DEF TypeOK, Phases
  <1>2. ASSUME NEW s \in Storages, NEW n \in Lengths, AddData(s, n)  PROVE Inv'
    <2>1. PICK m \in Grown(s, n) :
             store' = [store EXCEPT ![s].allocated = m, ![s].length = @ + n]
      BY <1>2 DEF AddData
    <2>2. store[s].phase = "data" /\ UNCHANGED <<obj, account>>
      BY <1>2 DEF AddData
    <2>3. n \in Nat
      BY LimitsAssumption DEF Lengths
    <2>4. store[s] \in [phase: Phases, length: Nat, allocated: Nat, instances: Nat]
      BY DEF TypeOK
    <2>5. m \in Nat /\ store[s].length + n < m
      <3>1. CASE store[s].length + n < store[s].allocated
        BY <2>1, <2>4, <3>1 DEF Grown
      <3>2. CASE ~ store[s].length + n < store[s].allocated
        <4>1. m \in store[s].length + n + 1 .. 2 * (store[s].length + n)
          BY <2>1, <3>2 DEF Grown
        <4> QED
          BY <4>1, <2>3, <2>4
      <3> QED
        BY <3>1, <3>2
    <2>6. /\ store' \in [Storages -> [phase: Phases, length: Nat, allocated: Nat,
                                      instances: Nat]]
          /\ store'[s].phase = "data" /\ store'[s].length < store'[s].allocated
          /\ store'[s].instances = 1
          /\ \A t \in Storages \ {s} : store'[t] = store[t]
      <3>1. store[s].length + n \in Nat /\ store[s].instances = 1
        BY <2>2, <2>3, <2>4 DEF Places
      <3>2. store' = [store EXCEPT ![s] = [store[s] EXCEPT !.allocated = m,
                                                          !.length = store[s].length + n]]
        BY <2>1, <2>4 DEF TypeOK
      <3>3. [store[s] EXCEPT !.allocated = m, !.length = store[s].length + n]
               \in [phase: Phases, length: Nat, allocated: Nat, instances: Nat]
        BY <2>4, <2>5, <3>1
      <3>4. /\ store'[s].phase = "data" /\ store'[s].length = store[s].length + n
            /\ store'[s].allocated = m /\ store'[s].instances = 1
        BY <2>2, <2>4, <3>1, <3>2 DEF TypeOK
      <3> QED
        BY <2>5, <3>2, <3>3, <3>4 DEF TypeOK
    <2> QED
      BY <2>2, <2>6, FillKeeps
  <1>3. ASSUME NEW s \in Storages, NEW n \in Lengths, PopBack(s, n)  PROVE Inv'
    <2>1. /\ store' = [store EXCEPT ![s].length = @ - n]
          /\ store[s].phase = "data" /\ n <= store[s].length
          /\ UNCHANGED <<obj, account>>
      BY <1>3 DEF PopBack
    <2>2. n \in Nat
      BY LimitsAssumption DEF Lengths
    <2>3. store[s].length \in Nat /\ store[s].allocated \in Nat
      BY DEF TypeOK
    <2>4. store[s].length - n \in Nat /\ store[s].length - n < store[s].allocated
      BY <2>1, <2>2, <2>3 DEF Places
    <2>5. /\ store' \in [Storages -> [phase: Phases, length: Nat, allocated: Nat,
                                      instances: Nat]]
          /\ store'[s].phase = "data" /\ store'[s].length < store'[s].allocated
          /\ store'[s].instances = 1
          /\ \A t \in Storages \ {s} : store'[t] = store[t]
      BY <2>1, <2>4 DEF TypeOK, Places
    <2> QED
      BY <2>1, <2>5, FillKeeps
  <1> QED
    BY <1>1, <1>2, <1>3 DEF Build

\* What has been filled gets its first view.
LEMMA WrapKeeps ==
    ASSUME Inv, NEW o \in Objs, NEW s \in Storages, WrapData(o, s)
    PROVE  Inv'
PROOF
  <1> USE DEF Inv
  <1>0. /\ store' = [store EXCEPT ![s].phase = "live"]
        /\ obj' = [obj EXCEPT ![o] = [life |-> "held", st |-> s, off |-> 0,
                                      len |-> store[s].length, weak |-> TRUE,
                                      astray |-> FALSE]]
        /\ account' = [account EXCEPT ![s] = @ + store[s].allocated]
        /\ obj[o].life = "unborn" /\ store[s].phase = "data"
    BY DEF WrapData
  <1>1. TypeOK'
    <2>1. store[s].length \in Nat /\ store[s].allocated \in Nat /\ account[s] \in Int
      BY DEF TypeOK
    <2> QED
      BY <1>0, <2>1 DEF TypeOK, Phases, Lives
  <1>2. ~ HasView(o) /\ HasView(o)' /\ obj'[o].st = s
    BY <1>0 DEF HasView, TypeOK
  <1>3. \A p \in Objs \ {o} : obj'[p] = obj[p] /\ (HasView(p)' <=> HasView(p))
    BY <1>0 DEF HasView, TypeOK
  <1>4. \A t \in Storages \ {s} : store'[t] = store[t] /\ account'[t] = account[t]
    BY <1>0 DEF TypeOK
  <1>5. ViewsOf(s) = {}
    BY <1>0 DEF InstancesExact
  <1>6. ViewsOf(s)' = {o}
    <2>1. \A p \in Objs : HasView(p)' /\ obj'[p].st = s <=> p = o
      BY <1>2, <1>3, <1>5 DEF ViewsOf
    <2> QED
      BY <2>1 DEF ViewsOf
  <1>7. \A t \in Storages \ {s} : ViewsOf(t)' = ViewsOf(t)
    BY <1>2, <1>3 DEF ViewsOf
  <1>8. /\ store'[s].phase = "live" /\ store'[s].length = store[s].length
        /\ store'[s].instances = store[s].instances
        /\ account'[s] = account[s] + store[s].allocated
    BY <1>0 DEF TypeOK
  <1>9. Places'
    BY <1>0, <1>2, <1>3, <1>4, <1>8 DEF Places
  <1>10. InstancesExact'
    <2>1. Cardinality({o}) = 1
      BY FS_Singleton
    <2>2. store[s].instances = 1
      BY <1>0 DEF Places
    <2> QED
      BY <1>4, <1>6, <1>7, <1>8, <2>1, <2>2 DEF InstancesExact
  <1>11. ViewsInside'
    <2> SUFFICES ASSUME NEW p \in Objs, HasView(p)', ~ obj'[p].astray
                 PROVE  (/\ obj[p].off >= 0
                         /\ obj[p].off + obj[p].len <= store[obj[p].st].length)'
      BY DEF ViewsInside
    <2>1. CASE p = o
      <3>1. obj'[o].off = 0 /\ obj'[o].len = store[s].length /\ store[s].length \in Nat
        BY <1>0 DEF TypeOK
      <3> QED
        BY <2>1, <3>1, <1>2, <1>8
    <2>2. CASE p # o
      <3>1. HasView(p) /\ obj'[p] = obj[p]
        BY <2>2, <1>3
      <3>2. obj[p].st \in Storages /\ obj[p].st # s
        BY <3>1, <1>0 DEF Places
      <3> QED
        BY <3>1, <3>2, <1>4 DEF ViewsInside
    <2> QED
      BY <2>1, <2>2
  <1>12. AccountCovers'
    <2>1. /\ account[s] \in Int /\ store[s].length < store[s].allocated
          /\ store[s].length \in Nat /\ store[s].allocated \in Nat
      BY <1>0 DEF TypeOK, Places
    <2>2. \A t \in Storages : (\E p \in Objs : obj[p].st = t /\ obj[p].astray) =>
                                 (\E p \in Objs : obj'[p].st = t /\ obj'[p].astray)
      BY <1>0, <1>3 DEF Places
    <2> QED
      BY <2>1, <2>2, <1>0, <1>4, <1>8 DEF AccountCovers
  <1> QED
    BY <1>1, <1>9, <1>10, <1>11, <1>12

\* An object that is only moved on keeps its view.
LEMMA RelabelKeeps ==
    ASSUME Inv, NEW o \in Objs, HasView(o), NEW life \in {"dropped", "lost"},
           obj' = [obj EXCEPT ![o].life = life], UNCHANGED <<store, account>>
    PROVE  Inv'
PROOF
  <1> USE DEF Inv
  <1>1. TypeOK'
    BY DEF TypeOK, Lives
  <1>2. \A p \in Objs : /\ HasView(p)' <=> HasView(p)
                        /\ obj'[p].st = obj[p].st
                        /\ obj'[p].off = obj[p].off /\ obj'[p].len = obj[p].len
                        /\ obj'[p].astray = obj[p].astray
                        /\ obj'[p].life = "unborn" => obj[p].life = "unborn"
    BY DEF HasView, TypeOK
  <1>3. \A t \in Storages : ViewsOf(t)' = ViewsOf(t)
    BY <1>2 DEF ViewsOf
  <1>4. Places'
    BY <1>2 DEF Places
  <1>5. InstancesExact'
    BY <1>3 DEF InstancesExact
  <1>6. ViewsInside'
    BY <1>2 DEF ViewsInside
  <1>7. AccountCovers'
    BY <1>2 DEF AccountCovers
  <1> QED
    BY <1>1, <1>4, <1>5, <1>6, <1>7

LEMMA CollectKeeps == ASSUME Inv, Collect  PROVE Inv'
PROOF
  <1>1. ASSUME NEW o \in Objs, Drop(o)  PROVE Inv'
    BY <1>1, RelabelKeeps DEF Drop, HasView
  <1>2. ASSUME NEW o \in Objs, Finalize(o)  PROVE Inv'
    BY <1>2, DeleteKeeps DEF Finalize
  <1>3. ASSUME NEW o \in Objs, Vanish(o)  PROVE Inv'
    BY <1>3, RelabelKeeps DEF Vanish, HasView
  <1> QED
    BY <1>1, <1>2, <1>3 DEF Collect

\* The span between two cut indices that are in order lies inside the view.
LEMMA SpanInside ==
    ASSUME TypeOK, NEW p \in Objs, NEW i \in Indices, NEW j \in Indices, Ordered(p, i, j)
    PROVE  /\ firstIndex(i, obj[p].len) \in Nat /\ SpanLength(p, i, j) \in Nat
           /\ firstIndex(i, obj[p].len) + SpanLength(p, i, j) <= obj[p].len
PROOF
  <1>1. i \in Int /\ j \in Int /\ obj[p].len \in Nat
    BY LimitsAssumption DEF Indices, TypeOK
  <1>2. /\ firstIndex(i, obj[p].len) \in 0 .. obj[p].len
        /\ lastIndex(j, obj[p].len) \in 0 .. obj[p].len
    BY <1>1, IndexCut
  <1>3. firstIndex(i, obj[p].len) <= lastIndex(j, obj[p].len)
    BY DEF Ordered
  <1> QED
    BY <1>1, <1>2, <1>3 DEF SpanLength

\* The indices that the constructor from a Buffer works with are ints, and those of a
\* span of the view if they fit.
LEMMA CastIndices ==
    ASSUME TypeOK, NEW p \in Objs, NEW i \in Indices, NEW j \in Indices
    PROVE  /\ index1(p, i) \in Int /\ index2(p, j) \in Int
           /\ IndicesFit(p, i, j) => /\ index1(p, i) \in Nat
                                     /\ index2(p, j) <= obj[p].len
PROOF
  <1>1. i \in Int /\ j \in Int /\ obj[p].len \in Nat
    BY LimitsAssumption DEF Indices, TypeOK
  <1>2. /\ firstIndex(i, obj[p].len) \in 0 .. obj[p].len
        /\ lastIndex(j, obj[p].len) \in 0 .. obj[p].len
    BY <1>1, IndexCut
  <1>3. firstIndex(i, obj[p].len) \in Nat /\ lastIndex(j, obj[p].len) \in Nat
    BY <1>1, <1>2
  <1> QED
    BY <1>1, <1>2, <1>3, IntKept DEF index1, index2, IndicesFit

LEMMA CreateKeeps == ASSUME Inv, Create  PROVE Inv'
PROOF
  <1>1. ASSUME NEW o \in Objs, NEW s \in Storages, NEW n \in Lengths,
               NewLength(o, s, n) \/ NewContents(o, s, n)
        PROVE  Inv'
    <2>1. n \in Nat
      BY LimitsAssumption DEF Lengths
    <2>2. CASE NewLength(o, s, n)
      <3>1. AsInt(n) \in Nat
        BY <2>1, <2>2, IntKept DEF NewLength
      <3> QED
        BY <2>2, <3>1, AllocateKeeps DEF NewLength
    <2>3. CASE NewContents(o, s, n)
      BY <2>1, <2>3, AllocateKeeps DEF NewContents
    <2> QED
      BY <1>1, <2>2, <2>3
  <1>2. ASSUME NEW o \in Objs, NEW p \in Objs, NEW s \in Storages,
               NEW i \in Indices, NEW j \in Indices,
               NewCopy(o, p, s, i, j) \/ Slice(o, p, s, i, j)
        PROVE  Inv'
    <2>1. CASE NewCopy(o, p, s, i, j)
      <3>1. index2(p, j) - index1(p, i) \in Nat
        BY <2>1, CastIndices DEF NewCopy, Inv
      <3> QED
        BY <2>1, <3>1, AllocateKeeps DEF NewCopy
    <2>2. CASE Slice(o, p, s, i, j)
      <3>1. SpanLength(p, i, j) \in Nat
        BY <2>2, SpanInside DEF Slice, Inv
      <3> QED
        BY <2>2, <3>1, AllocateKeeps DEF Slice
    <2> QED
      BY <1>2, <2>1, <2>2
  <1>3. ASSUME NEW o \in Objs, NEW p \in Objs, NEW i \in Indices, NEW j \in Indices,
               NewShared(o, p, i, j) \/ RangeOf(o, p, i, j)
        PROVE  Inv'
    <2>1. CASE NewShared(o, p, i, j)
      <3> DEFINE n == index2(p, j) - index1(p, i)
      <3>1. /\ index1(p, i) \in Int /\ n \in Nat
            /\ IndicesFit(p, i, j) => index1(p, i) >= 0 /\ index1(p, i) + n <= obj[p].len
        BY <2>1, CastIndices DEF NewShared, Inv
      <3>2. IndicesFit(p, i, j) \in BOOLEAN
        BY DEF IndicesFit
      <3> QED
        BY <2>1, <3>1, <3>2, ShareKeeps DEF NewShared
    <2>2. CASE RangeOf(o, p, i, j)
      <3> DEFINE first == firstIndex(i, obj[p].len)
                 n     == SpanLength(p, i, j)
      <3>1. first \in Nat /\ n \in Nat /\ first + n <= obj[p].len
        BY <2>2, SpanInside DEF RangeOf, Inv
      <3>2. obj[p].life = "held" /\ Share(o, p, first, n, TRUE, FALSE)
        BY <2>2 DEF RangeOf
      <3> HIDE DEF first, n
      <3>3. first \in Int /\ first >= 0
        BY <3>1
      <3> QED
        BY <3>1, <3>2, <3>3, ShareKeeps
    <2> QED
      BY <1>3, <2>1, <2>2
  <1>4. ASSUME NEW o \in Objs, NEW s \in Storages, WrapData(o, s)  PROVE Inv'
    BY <1>4, WrapKeeps
  <1> QED
    BY <1>1, <1>2, <1>3, <1>4 DEF Create

LEMMA StepKeeps == Inv /\ [Next]_vars => Inv'
PROOF
  <1> SUFFICES ASSUME Inv, [Next]_vars  PROVE Inv'
    OBVIOUS
  <1>1. CASE Create
    BY <1>1, CreateKeeps
  <1>2. CASE Build
    BY <1>2, BuildKeeps
  <1>3. CASE Collect
    BY <1>3, CollectKeeps
  <1>4. CASE UNCHANGED vars
    <2>1. ASSUME NEW s \in Storages  PROVE ViewsOf(s)' = ViewsOf(s)
      BY <1>4 DEF vars, ViewsOf, HasView
    <2> QED
      BY <1>4, <2>1 DEF vars, Inv, TypeOK, Places, InstancesExact, ViewsInside,
                        AccountCovers, HasView
  <1> QED
    BY <1>1, <1>2, <1>3, <1>4 DEF Next

LEMMA Invariant == Spec => []Inv
  BY Initially, StepKeeps, PTL DEF Spec
-----------------------------------------------------------------------------
(* Results.                                                                *)

\* The types of storages, objects and the account, for any number of them.
THEOREM TypeCorrect == Spec => []TypeOK
PROOF
  <1>1. Inv => TypeOK
    BY DEF Inv
  <1> QED
    BY <1>1, Invariant, PTL

\* Instance counts are exact (the view constructor and ~ByteStorage): no storage is freed
\* under a view, and none stays without one, in any order of views and finalizers.
THEOREM CountsInstances == Spec => []InstancesExact
PROOF
  <1>1. Inv => InstancesExact
    BY DEF Inv
  <1> QED
    BY <1>1, Invariant, PTL

\* Views of views of any depth lie inside their storage (firstIndex and lastIndex), but
\* for those of the constructor with an index beyond an int, and the views of those.
THEOREM ViewsStayInside == Spec => []ViewsInside
PROOF
  <1>1. Inv => ViewsInside
    BY DEF Inv
  <1> QED
    BY <1>1, Invariant, PTL

\* V8 is told of at least as much memory as a storage holds, and nothing less than
\* nothing once it is gone (AdjustAmountOfExternalAllocatedMemory in bytestorage.cc),
\* unless a view of it was made with an index beyond an int.
THEOREM AccountIsEnough == Spec => []AccountCovers
PROOF
  <1>1. Inv => AccountCovers
    BY DEF Inv
  <1> QED
    BY <1>1, Invariant, PTL
-----------------------------------------------------------------------------
(* The bytes that calls touch.                                             *)

\* A byte of a storage that is there.
Sound(a) == store[a[1]].phase = "live" /\ a[2] \in 0 .. store[a[1]].length - 1

LEMMA ByteSound ==
    ASSUME Inv, NEW o \in Sane, NEW k \in Nat, k < obj[o].len
    PROVE  Sound(<<obj[o].st, obj[o].off + k>>)
PROOF
  <1>1. o \in Objs /\ HasView(o) /\ ~ obj[o].astray
    BY DEF HasView, Sane
  <1>2. obj[o].st \in Storages /\ store[obj[o].st].phase = "live"
    BY <1>1 DEF Inv, Places
  <1>3. obj[o].off >= 0 /\ obj[o].off + obj[o].len <= store[obj[o].st].length
    BY <1>1 DEF Inv, ViewsInside
  <1>4. obj[o].off \in Int /\ obj[o].len \in Nat /\ store[obj[o].st].length \in Nat
    BY <1>1, <1>2 DEF Inv, TypeOK
  <1>5. obj[o].off + k \in 0 .. store[obj[o].st].length - 1
    BY <1>3, <1>4
  <1> QED
    BY <1>2, <1>5 DEF Sound

\* getByte and setByte leave out what is behind the view, wherever they are sent.
LEMMA CheckedSound ==
    ASSUME Inv, NEW o \in Sane, NEW i \in Nat, NEW n,
           NEW a \in Checked(o, i, n)
    PROVE  Sound(a)
PROOF
  <1>1. PICK k \in {m \in i .. i + n - 1 : m < obj[o].len} :
           a = <<obj[o].st, obj[o].off + k>>
    BY DEF Checked
  <1>2. k \in Nat /\ k < obj[o].len
    BY <1>1
  <1> QED
    BY <1>1, <1>2, ByteSound

LEMMA SpanSound ==
    ASSUME Inv, NEW o \in Sane, NEW i \in Indices, NEW j \in Indices,
           NEW a \in Span(o, i, j)
    PROVE  Sound(a)
PROOF
  <1> DEFINE first == firstIndex(i, obj[o].len)
             n     == SpanLength(o, i, j)
  <1> o \in Objs
    BY DEF Sane
  <1>1. Ordered(o, i, j) /\ a \in Raw(o, first, n)
    BY DEF Span
  <1>2. first \in Nat /\ n \in Nat /\ first + n <= obj[o].len
    BY <1>1, SpanInside DEF Inv
  <1>3. obj[o].len \in Nat
    BY DEF Inv, TypeOK
  <1> HIDE DEF first, n
  <1>4. PICK k \in first .. first + n - 1 : a = <<obj[o].st, obj[o].off + k>>
    BY <1>1 DEF Raw
  <1>5. k \in Nat /\ k < obj[o].len
    BY <1>2, <1>3, <1>4
  <1> QED
    BY <1>4, <1>5, ByteSound

LEMMA SourceSound ==
    ASSUME Inv, NEW o \in Sane, NEW i \in Indices, NEW j \in Indices,
           IndicesFit(o, i, j), NEW a \in Source(o, i, j)
    PROVE  Sound(a)
PROOF
  <1> DEFINE first == index1(o, i)
             n     == index2(o, j) - index1(o, i)
  <1> o \in Objs
    BY DEF Sane
  <1>1. index1(o, i) <= index2(o, j) /\ a \in Raw(o, first, n)
    BY DEF Source
  <1>2. first \in Nat /\ n \in Nat /\ first + n <= obj[o].len
    BY <1>1, CastIndices DEF Inv
  <1>3. obj[o].len \in Nat
    BY DEF Inv, TypeOK
  <1> HIDE DEF first, n
  <1>4. PICK k \in first .. first + n - 1 : a = <<obj[o].st, obj[o].off + k>>
    BY <1>1 DEF Raw
  <1>5. k \in Nat /\ k < obj[o].len
    BY <1>2, <1>3, <1>4
  <1> QED
    BY <1>4, <1>5, ByteSound

LEMMA TouchedSound ==
    ASSUME Inv, NEW a \in Touched
    PROVE  Sound(a)
PROOF
  <1> USE DEF Sane
  <1>0. \A i \in Indices, p \in Objs : firstIndex(i, obj[p].len) \in Nat
    <2> TAKE i \in Indices, p \in Objs
    <2>1. i \in Int /\ obj[p].len \in Nat
      BY LimitsAssumption DEF Indices, Inv, TypeOK
    <2>2. firstIndex(i, obj[p].len) \in 0 .. obj[p].len
      BY <2>1, IndexCut
    <2> QED
      BY <2>1, <2>2
  <1>1. PICK o \in Sane :
           \/ \E i \in Indices, j \in Indices : a \in Span(o, i, j) \cup Fill(o, i, j)
           \/ \E i \in Indices, j \in Indices :
                 IndicesFit(o, i, j) /\ a \in Source(o, i, j)
           \/ \E i \in Lengths : a \in At(o, i)
           \/ \E k \in Indices, i \in Indices, j \in Indices, p \in Sane :
                 a \in Copy(o, p, k, i, j)
    <2> DEFINE Spans(o)  == UNION {Span(o, i, j) \cup Fill(o, i, j) : i, j \in Indices}
               Sources(o) == UNION {IF IndicesFit(o, i, j) THEN Source(o, i, j) ELSE {} :
                                       i, j \in Indices}
               Ats(o)    == UNION {At(o, i) : i \in Lengths}
               Copies(o) == UNION {Copy(o, p, k, i, j) : k, i, j \in Indices, p \in Sane}
    <2>1. a \in UNION {Spans(o) \cup Sources(o) \cup Ats(o) \cup Copies(o) : o \in Sane}
      BY DEF Touched
    <2>2. PICK o \in Sane :
             a \in Spans(o) \/ a \in Sources(o) \/ a \in Ats(o) \/ a \in Copies(o)
      <3> HIDE DEF Spans, Sources, Ats, Copies
      <3> QED
        BY <2>1
    <2>3. a \in Spans(o) => \E i \in Indices, j \in Indices :
                                a \in Span(o, i, j) \cup Fill(o, i, j)
      OBVIOUS
    <2>4. a \in Sources(o) => \E i \in Indices, j \in Indices :
                                  IndicesFit(o, i, j) /\ a \in Source(o, i, j)
      OBVIOUS
    <2>5. a \in Ats(o) => \E i \in Lengths : a \in At(o, i)
      OBVIOUS
    <2>6. a \in Copies(o) => \E k \in Indices, i \in Indices, j \in Indices, p \in Sane :
                                 a \in Copy(o, p, k, i, j)
      OBVIOUS
    <2> HIDE DEF Spans, Sources, Ats, Copies
    <2> QED
      BY <2>2, <2>3, <2>4, <2>5, <2>6
  <1>2. CASE \E i \in Indices, j \in Indices : a \in Span(o, i, j) \cup Fill(o, i, j)
    <2>1. PICK i \in Indices, j \in Indices : a \in Span(o, i, j) \cup Fill(o, i, j)
      BY <1>2
    <2>2. CASE a \in Span(o, i, j)
      BY <2>2, SpanSound
    <2>3. CASE a \in Fill(o, i, j)
      <3>1. a \in Checked(o, firstIndex(i, obj[o].len), SpanLength(o, i, j))
        BY <2>3 DEF Fill
      <3> QED
        BY <3>1, <1>0, CheckedSound
    <2> QED
      BY <2>1, <2>2, <2>3
  <1>3. CASE \E i \in Lengths : a \in At(o, i)
    <2>1. PICK i \in Lengths : a \in Checked(o, i, 1)
      BY <1>3 DEF At
    <2>2. i \in Nat
      BY LimitsAssumption DEF Lengths
    <2> QED
      BY <2>1, <2>2, CheckedSound
  <1>4. CASE \E k \in Indices, i \in Indices, j \in Indices, p \in Sane :
                a \in Copy(o, p, k, i, j)
    <2>1. PICK k \in Indices, i \in Indices, j \in Indices, p \in Sane :
             a \in Copy(o, p, k, i, j)
      BY <1>4
    <2>2. PICK amount : \/ a \in Checked(o, firstIndex(i, obj[o].len), amount)
                        \/ a \in Checked(p, firstIndex(k, obj[p].len), amount)
      BY <2>1 DEF Copy
    <2> QED
      BY <2>2, <1>0, CheckedSound
  <1>5. CASE \E i \in Indices, j \in Indices : IndicesFit(o, i, j) /\ a \in Source(o, i, j)
    BY <1>5, SourceSound
  <1> QED
    BY <1>1, <1>2, <1>3, <1>4, <1>5

\* No call on a Buffer reads or writes a byte of a freed storage or outside of a live one
\* (toString, slice, copy, fill, the index operator), and add and pop_back keep room for
\* the terminator, for any lengths, indices and number of views; so does the constructor
\* from a Buffer with indices that fit an int.
THEOREM TouchesOwnBytes == Spec => []AccessInside
PROOF
  <1>1. Inv => AccessInside
    <2> SUFFICES ASSUME Inv  PROVE AccessInside
      OBVIOUS
    <2>1. \A a \in Touched : Sound(a)
      BY TouchedSound
    <2>2. \A s \in Storages :
             store[s].phase = "data" => store[s].length < store[s].allocated
      BY DEF Inv, Places
    <2> QED
      BY <2>1, <2>2 DEF AccessInside, Sound
  <1> QED
    BY <1>1, Invariant, PTL
=============================================================================
