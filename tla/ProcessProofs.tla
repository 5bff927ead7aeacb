--------------------------- MODULE ProcessProofs ---------------------------
(* What Process guarantees for any number of calls and children, any sizes  *)
(* of pipes and buffers, and any failing system calls.                      *)
EXTENDS Process, SequenceTheorems, WellFoundedInduction, TLAPS

Held(p) == reads[p] \cup writes[p]

-----------------------------------------------------------------------------
(* The invariant of the ends.                                              *)

\* What has not been called yet has no method, no child and no result.
Order ==
    /\ pc # "idle" => cur \in Calls
    /\ \A c \in Calls : kind[c] = "none" <=> c > cur
    /\ \A c \in Calls : c > cur \/ (c = cur /\ pc # "idle") => outcome[c] = "open"
    /\ \A c \in Calls : child[c] # "none" => c <= cur /\ (pc = "fork" => c < cur)

\* An end is of a pipe that its call has made, and a child holds those of its own
\* call and of earlier ones, as long as it lives.
Ownership ==
    /\ \A p \in Processes : \A e \in Held(p) : e[2] \in Pipes(kind[e[1]]) /\ e[1] <= cur
    /\ \A c \in Calls : \A e \in Held(c) : e[1] <= c /\ child[c] \in {"starting", "running"}
    /\ \A c \in Calls : child[c] = "starting" =>
          \A s \in Pipes(kind[c]) : <<c, s>> \in reads[c] /\ <<c, s>> \in writes[c]
    /\ pc = "fork" => \A e \in Held(Parent) : e[1] < cur

\* What the script has closed at each place of its call.
Closed ==
    /\ pc \in {"in", "out", "err", "wait"} =>
          /\ <<cur, "in">> \notin reads[Parent]
          /\ <<cur, "out">> \notin writes[Parent] /\ <<cur, "err">> \notin writes[Parent]
    /\ pc = "in" => kind[cur] \in {"exec2", "fork"}
    /\ pc \in {"out", "err", "wait"} =>
          kind[cur] \in {"exec", "exec2"} /\ <<cur, "in">> \notin writes[Parent]
    /\ pc \in {"err", "wait"} => <<cur, "out">> \notin reads[Parent]
    /\ pc = "err" => kind[cur] = "exec2"
    /\ pc = "wait" => <<cur, "err">> \notin reads[Parent]

\* NothingLeft, end by end.
CleanAt(c) ==
    outcome[c] = "ok" =>
        /\ kind[c] \in {"exec", "exec2"} =>
              /\ child[c] = "reaped"
              /\ \A p \in Processes : \A e \in Held(p) : e[1] # c
        /\ kind[c] = "fork" => \A p \in Processes \ {c} : \A e \in Held(p) : e[1] # c
        /\ kind[c] = "exec3" =>
              /\ <<c, "in">> \notin reads[Parent]
              /\ <<c, "out">> \notin writes[Parent] /\ <<c, "err">> \notin writes[Parent]

Clean == \A c \in Calls : CleanAt(c)

EndsInv == Order /\ Ownership /\ Closed /\ Clean

LEMMA Sets ==
    /\ N \in Nat /\ Calls = 1 .. N /\ Parent = 0 /\ Parent \notin Calls
    /\ Processes = Calls \cup {Parent}
    /\ Streams = {"in", "out", "err"}
    /\ \A k \in Kinds \cup {"none"} : Pipes(k) \subseteq Streams
    /\ Pipes("exec2") = Streams /\ Pipes("exec3") = Streams
    /\ Pipes("fork") = {"in"} /\ Pipes("exec") = {"out"} /\ Pipes("none") = {}
    /\ \A k \in Kinds : k \in {"exec", "exec2", "exec3", "fork"}
  BY LimitsAssumption DEF Calls, Parent, Processes, Streams, Pipes

\* The ends of a call, and what TypeOK says of those that a process holds.
LEMMA EndFacts ==
    ASSUME TypeOK
    PROVE  /\ cur \in Nat
           /\ \A c \in Calls : kind[c] \in Kinds \cup {"none"}
           /\ \A c \in Calls : Own(c) \subseteq Ends
           /\ \A c \in Calls : \A e : e \in Own(c) <=>
                 \E s \in Pipes(kind[c]) : e = <<c, s>>
           /\ \A p \in Processes : reads[p] \subseteq Ends /\ writes[p] \subseteq Ends
           /\ \A e \in Ends : e = <<e[1], e[2]>> /\ e[1] \in Calls /\ e[2] \in Streams
           /\ \A c \in Calls, s \in Streams : <<c, s>> \in Ends
  <1>1. /\ cur \in Nat
        /\ \A c \in Calls : kind[c] \in Kinds \cup {"none"}
        /\ \A p \in Processes : reads[p] \subseteq Ends /\ writes[p] \subseteq Ends
    BY Sets DEF TypeOK
  <1>2. /\ \A e \in Ends : e = <<e[1], e[2]>> /\ e[1] \in Calls /\ e[2] \in Streams
        /\ \A c \in Calls, s \in Streams : <<c, s>> \in Ends
    BY DEF Ends
  <1>3. \A c \in Calls : \A e : e \in Own(c) <=> \E s \in Pipes(kind[c]) : e = <<c, s>>
    BY DEF Own
  <1>4. ASSUME NEW c \in Calls, NEW e \in Own(c)  PROVE e \in Ends
    <2>1. PICK s \in Pipes(kind[c]) : e = <<c, s>>
      BY <1>3
    <2>2. s \in Streams
      BY <1>1, Sets
    <2> QED
      BY <1>2, <2>1, <2>2
  <1> QED
    BY <1>1, <1>2, <1>3, <1>4

LEMMA CleanShrinks ==
    ASSUME NEW c \in Calls, CleanAt(c),
           outcome'[c] = "ok" => outcome[c] = "ok",
           kind'[c] = kind[c],
           child[c] = "reaped" => child'[c] = "reaped",
           \A p \in Processes : \A e \in Held(p)' :
               e[1] = c => e \in Held(p) \/ e \in Held(Parent),
           \A s \in Streams : <<c, s>> \in reads'[Parent] => <<c, s>> \in reads[Parent],
           \A s \in Streams : <<c, s>> \in writes'[Parent] => <<c, s>> \in writes[Parent]
    PROVE  CleanAt(c)'
  <1>1. Parent \in Processes /\ Parent # c /\ Streams = {"in", "out", "err"}
    BY Sets
  <1>2. CASE outcome'[c] # "ok"
    BY <1>2 DEF CleanAt
  <1>3. CASE outcome'[c] = "ok" /\ kind[c] \in {"exec", "exec2"}
    BY <1>1, <1>3 DEF CleanAt
  <1>4. CASE outcome'[c] = "ok" /\ kind[c] = "fork"
    BY <1>1, <1>4 DEF CleanAt
  <1>5. CASE outcome'[c] = "ok" /\ kind[c] = "exec3"
    BY <1>1, <1>5 DEF CleanAt
  <1>6. CASE kind[c] \notin {"exec", "exec2", "fork", "exec3"}
    BY <1>6 DEF CleanAt
  <1> QED
    BY <1>2, <1>3, <1>4, <1>5, <1>6

LEMMA EndsImply == TypeOK /\ EndsInv => NothingLeft
  <1> SUFFICES ASSUME TypeOK, EndsInv, NEW c \in Calls, outcome[c] = "ok"
               PROVE  LET held == {p \in Processes : (reads[p] \cup writes[p]) \cap Own(c) # {}} IN
                      CASE kind[c] \in {"exec", "exec2"} -> held = {} /\ child[c] = "reaped"
                        [] kind[c] = "fork"  -> held \subseteq {c}
                        [] kind[c] = "exec3" ->
                             /\ reads[Parent] \cap Own(c) \subseteq ({c} \X {"out", "err"})
                             /\ writes[Parent] \cap Own(c) \subseteq {<<c, "in">>}
    BY DEF NothingLeft
  <1>1. kind[c] \in {"exec", "exec2", "exec3", "fork"}
    BY EndFacts, Sets DEF EndsInv, Order
  <1>2. CleanAt(c) /\ \A e \in Own(c) : e[1] = c /\ e[2] \in Streams /\ e = <<e[1], e[2]>>
    BY EndFacts DEF EndsInv, Clean
  <1>3. CASE kind[c] \in {"exec", "exec2"}
    BY <1>2, <1>3 DEF CleanAt, Held
  <1>4. CASE kind[c] = "fork"
    BY <1>2, <1>4 DEF CleanAt, Held
  <1>5. CASE kind[c] = "exec3"
    <2>1. \A e \in reads[Parent] \cap Own(c) : e \in {c} \X {"out", "err"}
      BY <1>2, <1>5, Sets DEF CleanAt
    <2>2. \A e \in writes[Parent] \cap Own(c) : e \in {<<c, "in">>}
      BY <1>2, <1>5, Sets DEF CleanAt
    <2> QED
      BY <1>5, <2>1, <2>2
  <1> QED
    BY <1>1, <1>3, <1>4, <1>5

LEMMA EndsInit == Init => EndsInv
  <1> SUFFICES ASSUME Init PROVE EndsInv
    OBVIOUS
  <1>1. /\ pc = "idle" /\ cur = 0
        /\ \A c \in Calls : kind[c] = "none" /\ outcome[c] = "open" /\ child[c] = "none"
        /\ \A p \in Processes : Held(p) = {}
    BY DEF Init, Held
  <1>2. Calls \subseteq Processes /\ \A c \in Calls : c > 0
    BY Sets
  <1> QED
    BY <1>1, <1>2 DEF EndsInv, Order, Ownership, Closed, Clean, CleanAt

\* Steps that open no end: what is left to see of them is where the script goes, and
\* that a call that ends well has closed its own.
LEMMA EndsShrink ==
    ASSUME TypeOK, EndsInv, UNCHANGED <<cur, kind>>,
           \A p \in Processes : reads'[p] \subseteq reads[p] /\ writes'[p] \subseteq writes[p],
           pc' = "fork" => pc = "fork",
           pc' # "idle" => pc # "idle",
           \A c \in Calls : outcome'[c] = outcome[c] \/ (c = cur /\ pc' = "idle"),
           \A c \in Calls :
               /\ child[c] = "none" => child'[c] = "none"
               /\ child[c] = "reaped" => child'[c] = "reaped"
               /\ child'[c] = "starting" => child[c] = "starting" /\ reads'[c] = reads[c]
                                            /\ writes'[c] = writes[c]
               /\ child'[c] \in {"starting", "running"} \/ Held(c)' = {},
           Closed',
           cur \in Calls => outcome'[cur] = outcome[cur] \/ CleanAt(cur)'
    PROVE  EndsInv'
  <1>1. Calls \subseteq Processes /\ Parent \in Processes
    BY Sets
  <1>2. Order'
    <2>1. \A c \in Calls : child'[c] # "none" => c <= cur' /\ (pc' = "fork" => c < cur')
      BY DEF EndsInv, Order
    <2>2. pc' # "idle" => cur' \in Calls
      BY DEF EndsInv, Order
    <2>3. \A c \in Calls : kind'[c] = "none" <=> c > cur'
      BY DEF EndsInv, Order
    <2>4. ASSUME NEW c \in Calls, c > cur \/ (c = cur /\ pc' # "idle")
          PROVE  outcome'[c] = "open"
      <3>1. outcome[c] = "open"
        BY <2>4 DEF EndsInv, Order
      <3>2. ~ (c = cur /\ pc' = "idle")
        BY <2>4, EndFacts, Sets
      <3> QED
        BY <3>1, <3>2
    <2> QED
      BY <2>1, <2>2, <2>3, <2>4 DEF Order
  <1>3. \A p \in Processes : \A e \in Held(p)' : e \in Held(p)
    BY DEF Held
  <1>4. Ownership'
    <2>1. \A p \in Processes : \A e \in Held(p)' : e[2] \in Pipes(kind'[e[1]]) /\ e[1] <= cur'
      BY <1>3 DEF EndsInv, Ownership
    <2>2. \A c \in Calls : \A e \in Held(c)' : e[1] <= c /\ child'[c] \in {"starting", "running"}
      BY <1>1, <1>3 DEF EndsInv, Ownership
    <2>3. \A c \in Calls : child'[c] = "starting" =>
              \A s \in Pipes(kind'[c]) : <<c, s>> \in reads'[c] /\ <<c, s>> \in writes'[c]
      BY DEF EndsInv, Ownership
    <2>4. pc' = "fork" => \A e \in Held(Parent)' : e[1] < cur'
      BY <1>1, <1>3 DEF EndsInv, Ownership
    <2> QED
      BY <2>1, <2>2, <2>3, <2>4 DEF Ownership
  <1>5. ASSUME NEW c \in Calls  PROVE CleanAt(c)'
    <2>1. CASE outcome'[c] = outcome[c]
      <3>1. CleanAt(c)
        BY DEF EndsInv, Clean
      <3> QED
        BY <1>1, <1>3, <2>1, <3>1, CleanShrinks
    <2>2. CASE c = cur /\ CleanAt(cur)'
      BY <2>2
    <2> QED
      BY <2>1, <2>2
  <1> QED
    BY <1>2, <1>4, <1>5 DEF EndsInv, Clean

-----------------------------------------------------------------------------
(* The steps of the script and the ends.                                   *)

LEMMA EndsCall ==
    ASSUME TypeOK, EndsInv, NEW k \in Kinds, NEW n \in 0 .. MaxIn, Call(k, n)
    PROVE  EndsInv'
  <1>0. cur \in Nat /\ cur < N /\ cur + 1 \in Calls
    BY Sets, EndFacts DEF Call
  <1>1. /\ pc = "idle" /\ pc' = "fork" /\ cur < N /\ cur' = cur + 1 /\ cur' \in Calls
        /\ cur \in Nat /\ kind' = [kind EXCEPT ![cur'] = k]
        /\ UNCHANGED <<outcome, reads, writes, child>>
        /\ k # "none" /\ kind \in [Calls -> Kinds \cup {"none"}]
    <2>1. k # "none"
      BY Sets
    <2> QED
      BY <1>0, <2>1 DEF Call, family, TypeOK
  <1>2. \A c \in Calls : c <= cur => kind'[c] = kind[c]
    BY <1>1, Sets
  <1>3. Order'
    BY <1>1, Sets DEF EndsInv, Order
  <1>4. \A p \in Processes : \A e \in Held(p) : e[1] \in Calls /\ e[1] <= cur
    BY EndFacts DEF EndsInv, Ownership, Held
  <1>5. Ownership'
    <2>1. \A p \in Processes : \A e \in Held(p)' : e[2] \in Pipes(kind'[e[1]]) /\ e[1] <= cur'
      <3> SUFFICES ASSUME NEW p \in Processes, NEW e \in Held(p)
                   PROVE  e[2] \in Pipes(kind'[e[1]]) /\ e[1] <= cur'
        BY <1>1 DEF Held
      <3>1. kind'[e[1]] = kind[e[1]] /\ e[1] <= cur /\ e[1] \in Calls
        BY <1>2, <1>4
      <3> QED
        BY <1>1, <3>1, Sets DEF EndsInv, Ownership
    <2>2. \A c \in Calls : child[c] = "starting" => kind'[c] = kind[c]
      BY <1>2 DEF EndsInv, Order
    <2>3. \A e \in Held(Parent)' : e[1] < cur'
      <3> SUFFICES ASSUME NEW e \in Held(Parent) PROVE e[1] < cur + 1
        BY <1>1 DEF Held
      <3>1. e[1] \in Calls /\ e[1] <= cur
        BY <1>4, Sets
      <3> QED
        BY <1>1, <3>1, Sets
    <2> QED
      BY <1>1, <2>1, <2>2, <2>3 DEF EndsInv, Ownership, Held
  <1>6. Closed'
    BY <1>1 DEF Closed
  <1>7. ASSUME NEW c \in Calls  PROVE CleanAt(c)'
    <2>1. CASE c <= cur
      <3>1. CleanAt(c) /\ kind'[c] = kind[c]
        BY <1>2, <2>1 DEF EndsInv, Clean
      <3> QED
        BY <1>1, <3>1, CleanShrinks DEF Held
    <2>2. CASE c > cur
      BY <1>1, <2>2 DEF EndsInv, Order, CleanAt
    <2> QED
      BY <1>1, <2>1, <2>2, Sets
  <1> QED
    BY <1>3, <1>5, <1>6, <1>7 DEF EndsInv, Clean

\* A call that fails before it has a child leaves ends of its own open.
LEMMA EndsNoChild ==
    ASSUME TypeOK, EndsInv, PipeFails \/ ForkFails
    PROVE  EndsInv'
  <1>1. /\ pc = "fork" /\ pc' = "idle" /\ cur \in Calls
        /\ UNCHANGED <<cur, kind, child>>
        /\ outcome' = [outcome EXCEPT ![cur] = "error"]
        /\ outcome \in [Calls -> {"open", "ok", "error"}]
    BY DEF PipeFails, ForkFails, Return, family, EndsInv, Order, TypeOK
  <1>2. PICK ss : ss \subseteq Pipes(kind[cur]) /\ Open(ss)
    BY DEF PipeFails, ForkFails
  <1>3. /\ \A p \in Calls : reads'[p] = reads[p] /\ writes'[p] = writes[p]
        /\ reads'[Parent] = reads[Parent] \cup ({cur} \X ss)
        /\ writes'[Parent] = writes[Parent] \cup ({cur} \X ss)
    BY <1>2, Sets DEF Open, TypeOK
  <1>4. \A p \in Processes : \A e \in Held(p)' :
            e \in Held(p) \/ (e[1] = cur /\ e[2] \in Pipes(kind[cur]))
    BY <1>2, <1>3, Sets DEF Held
  <1>5. Order'
    <2>1. \A c \in Calls : c > cur' => outcome'[c] = "open"
      <3> SUFFICES ASSUME NEW c \in Calls, c > cur PROVE outcome'[c] = "open"
        BY <1>1
      <3>1. c # cur /\ outcome[c] = "open"
        BY <1>1, Sets DEF EndsInv, Order
      <3> QED
        BY <1>1, <3>1
    <2>2. \A c \in Calls : kind'[c] = "none" <=> c > cur'
      BY <1>1 DEF EndsInv, Order
    <2>3. \A c \in Calls : child'[c] # "none" => c <= cur'
      BY <1>1 DEF EndsInv, Order
    <2> QED
      BY <1>1, <2>1, <2>2, <2>3 DEF Order
  <1>6. Ownership'
    <2>1. \A p \in Processes : \A e \in Held(p)' : e[2] \in Pipes(kind'[e[1]]) /\ e[1] <= cur'
      BY <1>1, <1>4, Sets DEF EndsInv, Ownership
    <2> QED
      BY <1>1, <1>3, <2>1, Sets DEF EndsInv, Ownership, Held
  <1>7. Closed'
    BY <1>1 DEF Closed
  <1>8. ASSUME NEW c \in Calls  PROVE CleanAt(c)'
    <2>1. CASE c = cur
      BY <1>1, <2>1 DEF CleanAt
    <2>2. CASE c # cur
      <3>1. CleanAt(c) /\ outcome'[c] = outcome[c]
        BY <1>1, <2>2 DEF EndsInv, Clean
      <3>2. /\ \A p \in Processes : \A e \in Held(p)' : e[1] = c => e \in Held(p)
            /\ \A s \in Streams : <<c, s>> \in reads'[Parent] => <<c, s>> \in reads[Parent]
            /\ \A s \in Streams : <<c, s>> \in writes'[Parent] => <<c, s>> \in writes[Parent]
        BY <1>3, <1>4, <2>2
      <3> QED
        BY <1>1, <3>1, <3>2, CleanShrinks
    <2> QED
      BY <2>1, <2>2
  <1> QED
    BY <1>5, <1>6, <1>7, <1>8 DEF EndsInv, Clean

\* fork copies what the script holds, the new pipes included.
LEMMA EndsFork ==
    ASSUME TypeOK, EndsInv, Fork
    PROVE  EndsInv'
  <1>1. /\ pc = "fork" /\ pc' = "close" /\ cur \in Calls
        /\ UNCHANGED <<cur, kind, outcome>>
        /\ child' = [child EXCEPT ![cur] = "starting"]
        /\ child \in [Calls -> {"none", "starting", "running", "zombie", "reaped"}]
        /\ child[cur] = "none"
    BY DEF Fork, GoTo, EndsInv, Order, TypeOK
  <1>2. /\ \A p \in Calls \ {cur} : reads'[p] = reads[p] /\ writes'[p] = writes[p]
        /\ reads'[Parent] = reads[Parent] \cup Own(cur)
        /\ writes'[Parent] = writes[Parent] \cup Own(cur)
        /\ reads'[cur] = reads[Parent] \cup Own(cur)
        /\ writes'[cur] = writes[Parent] \cup Own(cur)
    BY <1>1, Sets DEF Fork, TypeOK
  <1>3. \A e : e \in Own(cur) => e[1] = cur /\ e[2] \in Pipes(kind[cur])
    BY <1>1, EndFacts
  <1>4. \A p \in Processes : \A e \in Held(p)' :
            \/ e \in Held(p) /\ p # cur
            \/ e \in Held(Parent) /\ p \in {cur, Parent}
            \/ e[1] = cur /\ e[2] \in Pipes(kind[cur]) /\ p \in {cur, Parent}
    BY <1>2, <1>3, Sets DEF Held
  <1>5. Order'
    <2>1. \A c \in Calls : child'[c] # "none" => c <= cur'
      <3> SUFFICES ASSUME NEW c \in Calls, child'[c] # "none" PROVE c <= cur
        BY <1>1
      <3>1. CASE c = cur
        BY <1>1, <3>1, EndFacts
      <3>2. CASE c # cur
        BY <1>1, <3>2 DEF EndsInv, Order
      <3> QED
        BY <3>1, <3>2
    <2>2. \A c \in Calls : kind'[c] = "none" <=> c > cur'
      BY <1>1 DEF EndsInv, Order
    <2>3. \A c \in Calls : c > cur' \/ (c = cur' /\ pc' # "idle") => outcome'[c] = "open"
      BY <1>1 DEF EndsInv, Order
    <2> QED
      BY <1>1, <2>1, <2>2, <2>3 DEF Order
  <1>6. Ownership'
    <2>1. \A p \in Processes : \A e \in Held(p)' : e[2] \in Pipes(kind'[e[1]]) /\ e[1] <= cur'
      BY <1>1, <1>4, Sets DEF EndsInv, Ownership
    <2>2. \A c \in Calls : \A e \in Held(c)' : e[1] <= c /\ child'[c] \in {"starting", "running"}
      <3> SUFFICES ASSUME NEW c \in Calls, NEW e \in Held(c)'
                   PROVE  e[1] <= c /\ child'[c] \in {"starting", "running"}
        OBVIOUS
      <3>1. CASE c # cur
        BY <1>1, <1>4, <3>1, Sets DEF EndsInv, Ownership
      <3>2. CASE c = cur
        BY <1>1, <1>4, <3>2, Sets DEF EndsInv, Ownership
      <3> QED
        BY <3>1, <3>2
    <2>3. \A c \in Calls : child'[c] = "starting" =>
              \A s \in Pipes(kind'[c]) : <<c, s>> \in reads'[c] /\ <<c, s>> \in writes'[c]
      <3> SUFFICES ASSUME NEW c \in Calls, child'[c] = "starting", NEW s \in Pipes(kind[c])
                   PROVE  <<c, s>> \in reads'[c] /\ <<c, s>> \in writes'[c]
        BY <1>1
      <3>1. CASE c # cur
        BY <1>1, <1>2, <3>1 DEF EndsInv, Ownership
      <3>2. CASE c = cur
        BY <1>1, <1>2, <3>2, EndFacts
      <3> QED
        BY <3>1, <3>2
    <2> QED
      BY <1>1, <2>1, <2>2, <2>3 DEF Ownership
  <1>7. Closed'
    BY <1>1 DEF Closed
  <1>8. ASSUME NEW c \in Calls  PROVE CleanAt(c)'
    <2>1. CASE c = cur
      BY <1>1, <2>1 DEF EndsInv, Order, CleanAt
    <2>2. CASE c # cur
      <3>1. CleanAt(c) /\ child'[c] = child[c]
        BY <1>1, <2>2 DEF EndsInv, Clean
      <3>2. /\ \A p \in Processes : \A e \in Held(p)' :
                   e[1] = c => e \in Held(p) \/ e \in Held(Parent)
            /\ \A s \in Streams : <<c, s>> \in reads'[Parent] => <<c, s>> \in reads[Parent]
            /\ \A s \in Streams : <<c, s>> \in writes'[Parent] => <<c, s>> \in writes[Parent]
        BY <1>2, <1>3, <1>4, <2>2
      <3> QED
        BY <1>1, <3>1, <3>2, CleanShrinks
    <2> QED
      BY <2>1, <2>2
  <1> QED
    BY <1>5, <1>6, <1>7, <1>8 DEF EndsInv, Clean

\* What the script closes of its own ends; no child has a part in it.
LEMMA EndsCloses ==
    ASSUME TypeOK, EndsInv, NEW rs, NEW ws,
           UNCHANGED <<cur, kind, child>>,
           reads' = [reads EXCEPT ![Parent] = @ \ rs],
           writes' = [writes EXCEPT ![Parent] = @ \ ws],
           pc' = "fork" => pc = "fork",
           pc' # "idle" => pc # "idle",
           \A c \in Calls : outcome'[c] = outcome[c] \/ (c = cur /\ pc' = "idle"),
           Closed',
           cur \in Calls => outcome'[cur] = outcome[cur] \/ CleanAt(cur)'
    PROVE  EndsInv'
  <1>1. \A p \in Processes : reads'[p] \subseteq reads[p] /\ writes'[p] \subseteq writes[p]
    BY Sets DEF TypeOK
  <1>2. \A c \in Calls : reads'[c] = reads[c] /\ writes'[c] = writes[c]
    BY Sets DEF TypeOK
  <1>3. \A c \in Calls : child[c] \in {"starting", "running"} \/ Held(c)' = {}
    <2>1. \A c \in Calls : Held(c)' = Held(c)
      BY <1>2 DEF Held
    <2> QED
      BY <2>1 DEF EndsInv, Ownership
  <1>4. \A c \in Calls :
           /\ child[c] = "none" => child'[c] = "none"
           /\ child[c] = "reaped" => child'[c] = "reaped"
           /\ child'[c] = "starting" => child[c] = "starting" /\ reads'[c] = reads[c]
                                        /\ writes'[c] = writes[c]
           /\ child'[c] \in {"starting", "running"} \/ Held(c)' = {}
    BY <1>2, <1>3
  <1> QED
    BY <1>1, <1>4, EndsShrink

\* An end that a process holds of the current call is one of its pipes.
LEMMA CurrentEnds ==
    ASSUME TypeOK, EndsInv
    PROVE  \A p \in Processes, s \in Streams : <<cur, s>> \in Held(p) => s \in Pipes(kind[cur])
  <1> SUFFICES ASSUME NEW p \in Processes, NEW s \in Streams, <<cur, s>> \in Held(p)
               PROVE  s \in Pipes(kind[cur])
    OBVIOUS
  <1>1. <<cur, s>>[1] = cur /\ <<cur, s>>[2] = s
    OBVIOUS
  <1>2. \A e \in Held(p) : e[2] \in Pipes(kind[e[1]])
    BY DEF EndsInv, Ownership
  <1> QED
    BY <1>1, <1>2

LEMMA EndsPopenFails ==
    ASSUME TypeOK, EndsInv, PopenFails
    PROVE  EndsInv'
  <1>1. /\ pc' = "dead" /\ pc = "fork"
        /\ UNCHANGED <<cur, kind, child, outcome>>
        /\ reads' = [reads EXCEPT ![Parent] = @ \ reads[Parent]]
        /\ writes' = [writes EXCEPT ![Parent] = @ \ writes[Parent]]
    BY Sets DEF PopenFails, GoTo, family, TypeOK
  <1>2. Closed'
    BY <1>1 DEF Closed
  <1> QED
    BY <1>1, <1>2, EndsCloses

LEMMA EndsCloseChildEnds ==
    ASSUME TypeOK, EndsInv, CloseChildEnds
    PROVE  EndsInv'
  <1>1. /\ pc = "close" /\ cur \in Calls /\ kind[cur] \in {"exec", "exec2", "exec3", "fork"}
        /\ UNCHANGED <<cur, kind, child>>
        /\ reads' = [reads EXCEPT ![Parent] = @ \ ({cur} \X {"in"})]
        /\ writes' = [writes EXCEPT ![Parent] = @ \ (Own(cur) \ ParentKeeps)]
        /\ outcome \in [Calls -> {"open", "ok", "error"}]
    BY Sets, EndFacts DEF CloseChildEnds, Return, GoTo, family, EndsInv, Order, TypeOK
  <1>2. /\ <<cur, "in">> \notin reads'[Parent]
        /\ <<cur, "out">> \notin writes'[Parent] /\ <<cur, "err">> \notin writes'[Parent]
        /\ "in" \notin Pipes(kind[cur]) => <<cur, "in">> \notin writes'[Parent]
    <2>1. \A s \in Streams : <<cur, s>> \in writes[Parent] => s \in Pipes(kind[cur])
      BY CurrentEnds, Sets DEF Held
    <2>2. \A s \in {"out", "err"} : <<cur, s>> \in Own(cur) => <<cur, s>> \in Own(cur) \ ParentKeeps
      BY DEF ParentKeeps
    <2>3. \A s \in Streams : s \in Pipes(kind[cur]) => <<cur, s>> \in Own(cur)
      BY <1>1, EndFacts
    <2>4. reads'[Parent] = reads[Parent] \ ({cur} \X {"in"})
          /\ writes'[Parent] = writes[Parent] \ (Own(cur) \ ParentKeeps)
      BY <1>1, Sets DEF TypeOK
    <2> QED
      BY <2>1, <2>2, <2>3, <2>4, Sets
  <1>3. CASE kind[cur] = "exec3"
    <2>1. pc' = "idle" /\ outcome' = [outcome EXCEPT ![cur] = "ok"]
      BY <1>3 DEF CloseChildEnds, Return
    <2>2. Closed'
      BY <2>1 DEF Closed
    <2>3. CleanAt(cur)'
      BY <1>1, <1>2, <1>3 DEF CleanAt
    <2>4. \A c \in Calls : outcome'[c] = outcome[c] \/ (c = cur /\ pc' = "idle")
      BY <1>1, <2>1
    <2> QED
      BY <1>1, <2>1, <2>2, <2>3, <2>4, EndsCloses
  <1>4. CASE kind[cur] # "exec3"
    <2>1. pc' = (IF kind[cur] = "exec" THEN "out" ELSE "in") /\ outcome' = outcome
      BY <1>4 DEF CloseChildEnds, GoTo
    <2>2. Closed'
      <3>1. CASE kind[cur] = "exec"
        BY <1>1, <1>2, <2>1, <3>1, Sets DEF Closed
      <3>2. CASE kind[cur] # "exec"
        BY <1>1, <1>2, <1>4, <2>1, <3>2, Sets DEF Closed
      <3> QED
        BY <3>1, <3>2
    <2> QED
      BY <1>1, <2>1, <2>2, EndsCloses
  <1> QED
    BY <1>3, <1>4

\* These close nothing.
LEMMA EndsStays ==
    ASSUME TypeOK, EndsInv,
           \/ WriteInput \/ WriteFails
           \/ \E s \in {"out", "err"} : ReadChunk(s) \/ ReadFails(s)
    PROVE  EndsInv'
  <1>1. /\ UNCHANGED <<cur, kind, child>>
        /\ reads' = [reads EXCEPT ![Parent] = @ \ {}]
        /\ writes' = [writes EXCEPT ![Parent] = @ \ {}]
    <2>1. UNCHANGED <<cur, kind, child, reads, writes>>
      BY DEF WriteInput, WriteFails, ReadChunk, ReadFails, Return, family
    <2> QED
      BY <2>1 DEF TypeOK
  <1>2. CASE WriteInput \/ \E s \in {"out", "err"} : ReadChunk(s)
    <2>1. UNCHANGED <<pc, outcome, cur, kind, reads, writes>>
      BY <1>2 DEF WriteInput, ReadChunk
    <2>2. Closed'
      BY <2>1 DEF EndsInv, Closed
    <2> QED
      BY <1>1, <2>1, <2>2, EndsCloses
  <1>3. CASE WriteFails \/ \E s \in {"out", "err"} : ReadFails(s)
    <2>1. /\ pc' = "idle" /\ pc # "idle"
          /\ outcome' = [outcome EXCEPT ![cur] = "error"] /\ cur \in Calls
          /\ outcome \in [Calls -> {"open", "ok", "error"}]
      BY <1>3 DEF WriteFails, ReadFails, Return, EndsInv, Order, TypeOK
    <2>2. Closed' /\ CleanAt(cur)'
      BY <1>1, <2>1 DEF Closed, CleanAt
    <2>3. \A c \in Calls : outcome'[c] = outcome[c] \/ (c = cur /\ pc' = "idle")
      BY <2>1
    <2> QED
      BY <1>1, <2>1, <2>2, <2>3, EndsCloses
  <1> QED
    BY <1>2, <1>3

\* No other child has ends of the current call: they are all older.
LEMMA OnlyChild ==
    ASSUME TypeOK, EndsInv, NEW p \in Calls, NEW e \in Held(p), e[1] = cur
    PROVE  p = cur
  <1>1. cur <= p /\ p <= cur
    BY DEF EndsInv, Ownership, Order
  <1> QED
    BY <1>1, EndFacts, Sets

LEMMA EndsCloseInput ==
    ASSUME TypeOK, EndsInv, CloseInput
    PROVE  EndsInv'
  <1>1. /\ pc = "in" /\ cur \in Calls /\ kind[cur] \in {"exec2", "fork"}
        /\ UNCHANGED <<cur, kind, child, reads>>
        /\ reads' = [reads EXCEPT ![Parent] = @ \ {}]
        /\ writes' = [writes EXCEPT ![Parent] = @ \ {Stdin}]
        /\ outcome \in [Calls -> {"open", "ok", "error"}]
        /\ writes'[Parent] = writes[Parent] \ {Stdin}
        /\ \A p \in Calls : writes'[p] = writes[p]
    BY Sets DEF CloseInput, Return, GoTo, family, EndsInv, Order, Closed, TypeOK
  <1>2. Stdin = <<cur, "in">>
    BY DEF Stdin
  <1>3. /\ Stdin \notin reads[Parent] /\ Stdin \notin writes'[Parent]
        /\ <<cur, "out">> \notin writes'[Parent] /\ <<cur, "err">> \notin writes'[Parent]
    BY <1>1, <1>2 DEF EndsInv, Closed
  <1>4. CASE kind[cur] = "fork"
    <2>1. pc' = "idle" /\ outcome' = [outcome EXCEPT ![cur] = "ok"]
      BY <1>4 DEF CloseInput, Return
    <2>2. Closed'
      BY <2>1 DEF Closed
    <2>3. ASSUME NEW p \in Processes \ {cur}, NEW e \in Held(p)', e[1] = cur  PROVE FALSE
      <3>1. e \in Held(p)
        BY <1>1, Sets DEF Held
      <3>2. p = Parent
        BY <2>3, <3>1, OnlyChild, Sets
      <3>3. e \in Ends /\ e[2] \in Pipes(kind[e[1]])
        BY <3>1, EndFacts DEF Held, EndsInv, Ownership
      <3>4. e = Stdin
        BY <1>2, <1>4, <2>3, <3>3, EndFacts, Sets
      <3> QED
        BY <1>1, <1>3, <2>3, <3>2, <3>4 DEF Held
    <2>4. CleanAt(cur)'
      BY <1>1, <1>4, <2>3 DEF CleanAt
    <2>5. \A c \in Calls : outcome'[c] = outcome[c] \/ (c = cur /\ pc' = "idle")
      BY <1>1, <2>1
    <2> QED
      BY <1>1, <2>1, <2>2, <2>4, <2>5, EndsCloses
  <1>5. CASE kind[cur] # "fork"
    <2>1. pc' = "out" /\ outcome' = outcome
      BY <1>5 DEF CloseInput, GoTo
    <2>2. Closed'
      BY <1>1, <1>2, <1>3, <1>5, <2>1 DEF Closed
    <2> QED
      BY <1>1, <2>1, <2>2, EndsCloses
  <1> QED
    BY <1>4, <1>5

LEMMA EndsReadEnd ==
    ASSUME TypeOK, EndsInv, NEW s \in {"out", "err"}, ReadEnd(s)
    PROVE  EndsInv'
  <1>1. /\ pc = s /\ cur \in Calls /\ kind[cur] \in {"exec", "exec2"}
        /\ UNCHANGED <<cur, kind, child, outcome, writes>>
        /\ reads' = [reads EXCEPT ![Parent] = @ \ {<<cur, s>>}]
        /\ writes' = [writes EXCEPT ![Parent] = @ \ {}]
        /\ reads'[Parent] = reads[Parent] \ {<<cur, s>>}
        /\ pc' = (IF s = "out" THEN AfterOut ELSE "wait")
    BY Sets DEF ReadEnd, GoTo, family, EndsInv, Order, Closed, TypeOK
  <1>2. /\ <<cur, "in">> \notin reads'[Parent] /\ <<cur, "in">> \notin writes'[Parent]
        /\ <<cur, "out">> \notin writes'[Parent] /\ <<cur, "err">> \notin writes'[Parent]
        /\ <<cur, "out">> \notin reads'[Parent]
    BY <1>1 DEF EndsInv, Closed
  <1>3. pc' = "wait" => <<cur, "err">> \notin reads'[Parent]
    <2>1. CASE s = "err"
      BY <1>1, <2>1
    <2>2. CASE s = "out" /\ kind[cur] = "exec"
      BY <1>1, <2>2, CurrentEnds, Sets DEF Held
    <2>3. CASE s = "out" /\ kind[cur] # "exec"
      BY <1>1, <2>3 DEF AfterOut
    <2> QED
      BY <2>1, <2>2, <2>3
  <1>4. pc' \in {"err", "wait"} /\ (pc' = "err" => kind[cur] = "exec2")
    BY <1>1 DEF AfterOut
  <1>5. Closed'
    BY <1>1, <1>2, <1>3, <1>4 DEF Closed
  <1> QED
    BY <1>1, <1>4, <1>5, EndsCloses

LEMMA EndsWaitpid ==
    ASSUME TypeOK, EndsInv, Waitpid
    PROVE  EndsInv'
  <1>1. /\ pc = "wait" /\ pc' = "idle" /\ cur \in Calls /\ kind[cur] \in {"exec", "exec2"}
        /\ UNCHANGED <<cur, kind, reads, writes>>
        /\ outcome' = [outcome EXCEPT ![cur] = "ok"]
        /\ outcome \in [Calls -> {"open", "ok", "error"}]
        /\ child[cur] = "zombie" /\ child' = [child EXCEPT ![cur] = "reaped"]
        /\ child \in [Calls -> {"none", "starting", "running", "zombie", "reaped"}]
    BY DEF Waitpid, Return, EndsInv, Order, Closed, TypeOK
  <1>2. ASSUME NEW p \in Processes, NEW e \in Held(p), e[1] = cur  PROVE FALSE
    <2>1. Held(cur) = {}
      BY <1>1 DEF EndsInv, Ownership
    <2>2. p = Parent
      BY <1>2, <2>1, OnlyChild, Sets
    <2>3. e \in Ends
      BY <1>2, EndFacts DEF Held
    <2>4. e \in {<<cur, "in">>, <<cur, "out">>, <<cur, "err">>}
      BY <1>2, <2>3, EndFacts, Sets
    <2> QED
      BY <1>1, <1>2, <2>2, <2>4 DEF Held, EndsInv, Closed
  <1>3. CleanAt(cur)'
    BY <1>1, <1>2 DEF CleanAt, Held
  <1>4. Closed'
    BY <1>1 DEF Closed
  <1>5. \A c \in Calls :
           /\ child[c] = "none" => child'[c] = "none"
           /\ child[c] = "reaped" => child'[c] = "reaped"
           /\ child'[c] = "starting" => child[c] = "starting"
           /\ child'[c] \in {"starting", "running"} \/ Held(c)' = {}
    <2>1. \A c \in Calls : Held(c)' = Held(c)
      BY <1>1 DEF Held
    <2> QED
      BY <1>1, <2>1 DEF EndsInv, Ownership
  <1>6. \A c \in Calls : outcome'[c] = outcome[c] \/ (c = cur /\ pc' = "idle")
    BY <1>1
  <1> QED
    BY <1>1, <1>3, <1>4, <1>5, <1>6, EndsShrink

LEMMA EndsScriptCloses ==
    ASSUME TypeOK, EndsInv, NEW c \in Calls, NEW s \in Streams, ScriptCloses(c, s)
    PROVE  EndsInv'
  <1>1. /\ UNCHANGED <<pc, cur, kind, child, outcome>> /\ pc = "idle"
        /\ reads' = [reads EXCEPT ![Parent] = @ \ {<<c, s>>}]
        /\ writes' = [writes EXCEPT ![Parent] = @ \ {<<c, s>>}]
    BY DEF ScriptCloses, Handed, family
  <1>2. Closed'
    BY <1>1 DEF Closed
  <1> QED
    BY <1>1, <1>2, EndsCloses

\* A child that sets itself up keeps its standard streams, which it holds already.
LEMMA EndsChild ==
    ASSUME TypeOK, EndsInv, NEW c \in Calls, Child(c)
    PROVE  EndsInv'
  <1>1. UNCHANGED <<pc, cur, kind, outcome>>
    BY DEF Child, Setup, ChildReads, ChildWouldBlock, ChildWrites, Exit, script
  <1>2. CASE UNCHANGED <<child, reads, writes>>
    BY <1>1, <1>2 DEF EndsInv, Order, Ownership, Closed, Clean, CleanAt, Held
  <1>3. CASE Setup(c) \/ Exit(c)
    <2>1. /\ child[c] \in {"starting", "running"}
          /\ child' = [child EXCEPT ![c] = IF Setup(c) THEN "running" ELSE "zombie"]
          /\ child \in [Calls -> {"none", "starting", "running", "zombie", "reaped"}]
          /\ Setup(c) => child[c] = "starting"
      BY <1>3 DEF Setup, Exit, TypeOK
    <2>2. /\ \A p \in Processes \ {c} : reads'[p] = reads[p] /\ writes'[p] = writes[p]
          /\ reads'[c] \subseteq reads[c] /\ writes'[c] \subseteq writes[c]
          /\ ~Setup(c) => Held(c)' = {}
      <3>1. CASE Setup(c)
        <4>1. \A e \in Own(c) : e \in reads[c] /\ e \in writes[c]
          BY <2>1, <3>1, EndFacts DEF EndsInv, Ownership
        <4>2. /\ reads'[c] = (reads[c] \ ChildCloses(c)) \cup (Own(c) \cap ({c} \X {"in"}))
              /\ writes'[c] = (writes[c] \ ChildCloses(c)) \cup (Own(c) \cap ({c} \X {"out", "err"}))
              /\ \A p \in Processes \ {c} : reads'[p] = reads[p] /\ writes'[p] = writes[p]
          BY <3>1, Sets DEF Setup, TypeOK
        <4> QED
          BY <3>1, <4>1, <4>2
      <3>2. CASE ~Setup(c)
        <4>1. /\ reads' = [reads EXCEPT ![c] = {}] /\ writes' = [writes EXCEPT ![c] = {}]
              /\ reads \in [Processes -> SUBSET Ends] /\ writes \in [Processes -> SUBSET Ends]
          BY <1>3, <3>2 DEF Exit, TypeOK
        <4>2. reads'[c] = {} /\ writes'[c] = {}
          BY <4>1, Sets
        <4>3. \A p \in Processes \ {c} : reads'[p] = reads[p] /\ writes'[p] = writes[p]
          BY <4>1, Sets
        <4> QED
          BY <3>2, <4>2, <4>3 DEF Held
      <3> QED
        BY <3>1, <3>2
    <2>3. \A d \in Calls :
             /\ child[d] = "none" => child'[d] = "none"
             /\ child[d] = "reaped" => child'[d] = "reaped"
             /\ child'[d] = "starting" => child[d] = "starting" /\ reads'[d] = reads[d]
                                          /\ writes'[d] = writes[d]
             /\ child'[d] \in {"starting", "running"} \/ Held(d)' = {}
      <3> SUFFICES ASSUME NEW d \in Calls
                   PROVE  /\ child[d] = "none" => child'[d] = "none"
                          /\ child[d] = "reaped" => child'[d] = "reaped"
                          /\ child'[d] = "starting" => child[d] = "starting" /\ reads'[d] = reads[d]
                                                       /\ writes'[d] = writes[d]
                          /\ child'[d] \in {"starting", "running"} \/ Held(d)' = {}
        OBVIOUS
      <3>1. CASE d = c
        BY <2>1, <2>2, <3>1
      <3>2. CASE d # c
        <4>1. child'[d] = child[d] /\ reads'[d] = reads[d] /\ writes'[d] = writes[d]
          BY <2>1, <2>2, <3>2, Sets
        <4>2. Held(d)' = Held(d)
          BY <4>1 DEF Held
        <4> QED
          BY <4>1, <4>2 DEF EndsInv, Ownership
      <3> QED
        BY <3>1, <3>2
    <2>4. \A p \in Processes : reads'[p] \subseteq reads[p] /\ writes'[p] \subseteq writes[p]
      BY <2>2
    <2>5. Closed'
      BY <1>1, <2>4, Sets DEF EndsInv, Closed
    <2> QED
      BY <1>1, <2>3, <2>4, <2>5, EndsShrink
  <1> QED
    BY <1>2, <1>3 DEF Child, ChildReads, ChildWouldBlock, ChildWrites

LEMMA EndsNext ==
    ASSUME TypeOK, EndsInv, [Next]_vars
    PROVE  EndsInv'
  <1>1. CASE UNCHANGED vars
    BY <1>1 DEF vars, local, family, EndsInv, Order, Ownership, Closed, Clean, CleanAt, Held
  <1>2. CASE Step
    BY <1>2, EndsNoChild, EndsPopenFails, EndsFork, EndsCloseChildEnds, EndsStays,
       EndsCloseInput, EndsReadEnd, EndsWaitpid DEF Step
  <1>3. CASE Script
    BY <1>3, EndsCall, EndsScriptCloses DEF Script
  <1>4. CASE \E c \in Calls : Child(c)
    BY <1>4, EndsChild
  <1> QED
    BY <1>1, <1>2, <1>3, <1>4 DEF Next

-----------------------------------------------------------------------------
(* Types.                                                                  *)

\* Between calls nothing of an input has been sent.
TypeInv == TypeOK /\ (pc \in {"idle", "fork", "close"} => sent = 0)

LEMMA LeastExists ==
    ASSUME NEW T, T \subseteq Nat, T # {}
    PROVE  \E n \in T : \A m \in T : n <= m
  <1>1. PICK n \in T : \A m \in T : ~ (<<m, n>> \in OpToRel(<, Nat))
    BY NatLessThanWellFounded, WFMin
  <1>2. ASSUME NEW m \in T  PROVE n <= m
    <2>1. ~ (<<m, n>> \in OpToRel(<, Nat))
      BY <1>1
    <2>2. ~ (m < n)
      BY <2>1 DEF OpToRel
    <2> QED
      BY <2>2
  <1> QED
    BY <1>2

\* What append takes of a chunk is its longest part without a NUL.
LEMMA UptoIsPrefix ==
    ASSUME NEW chunk \in Seq(Bytes)
    PROVE  /\ Upto(chunk) \in Seq(Bytes)
           /\ (\A i \in 1 .. Len(chunk) : chunk[i] # "nul") => Upto(chunk) = chunk
  <1> DEFINE Stops(n) == /\ \A i \in 1 .. n : chunk[i] # "nul"
                         /\ n < Len(chunk) => chunk[n + 1] = "nul"
  <1>1. \E n \in 0 .. Len(chunk) : Stops(n)
    <2>1. CASE \A i \in 1 .. Len(chunk) : chunk[i] # "nul"
      <3>1. Len(chunk) \in 0 .. Len(chunk) /\ ~ (Len(chunk) < Len(chunk))
        BY LenProperties
      <3> QED
        BY <2>1, <3>1
    <2>2. CASE \E i \in 1 .. Len(chunk) : chunk[i] = "nul"
      <3> DEFINE T == {i \in 1 .. Len(chunk) : chunk[i] = "nul"}
      <3>1. PICK k \in T : \A m \in T : k <= m
        <4>1. T \subseteq Nat /\ T # {}
          BY <2>2
        <4> HIDE DEF T
        <4> QED
          BY <4>1, LeastExists
      <3>2. k - 1 \in 0 .. Len(chunk) /\ chunk[(k - 1) + 1] = "nul"
        BY <3>1, LenProperties
      <3>3. \A i \in 1 .. k - 1 : chunk[i] # "nul"
        BY <3>1, LenProperties
      <3> QED
        BY <3>2, <3>3
    <2> QED
      BY <2>1, <2>2
  <1> DEFINE k == CHOOSE n \in 0 .. Len(chunk) : Stops(n)
  <1>2. k \in 0 .. Len(chunk) /\ Stops(k)
    BY <1>1
  <1>3. Upto(chunk) = SubSeq(chunk, 1, k)
    BY DEF Upto
  <1> HIDE DEF k
  <1>4. /\ Len(chunk) \in Nat /\ k \in Nat /\ k <= Len(chunk)
        /\ \A i \in 1 .. k : chunk[i] \in Bytes
    BY <1>2, LenProperties, ElementOfSeq
  <1>5. SubSeq(chunk, 1, k) \in Seq(Bytes)
    BY <1>4, SubSeqProperties
  <1>6. ASSUME \A i \in 1 .. Len(chunk) : chunk[i] # "nul"  PROVE SubSeq(chunk, 1, k) = chunk
    <2>1. k = Len(chunk)
      BY <1>2, <1>4, <1>6
    <2> QED
      BY <2>1, SubSeqFull
  <1> QED
    BY <1>3, <1>5, <1>6

LEMMA PipeTypes ==
    ASSUME TypeOK, NEW e \in Ends
    PROVE  /\ pipe[e] \in Seq(Bytes) /\ Len(pipe[e]) \in Nat /\ Len(pipe[e]) <= Cap
           /\ Cap \in Nat
           /\ \A q \in Seq(Bytes) :
                 Len(q) <= Cap =>
                    /\ [pipe EXCEPT ![e] = q] \in [Ends -> Seq(Bytes)]
                    /\ \A f \in Ends : Len([pipe EXCEPT ![e] = q][f]) <= Cap
           /\ ~Full(e) => \A b \in Bytes : Append(pipe[e], b) \in Seq(Bytes)
                                          /\ Len(Append(pipe[e], b)) <= Cap
           /\ \A n \in 1 .. Len(pipe[e]) :
                 /\ SubSeq(pipe[e], 1, n) \in Seq(Bytes)
                 /\ SubSeq(pipe[e], n + 1, Len(pipe[e])) \in Seq(Bytes)
                 /\ Len(SubSeq(pipe[e], n + 1, Len(pipe[e]))) <= Cap
           /\ pipe[e] # <<>> => Tail(pipe[e]) \in Seq(Bytes) /\ Len(Tail(pipe[e])) <= Cap
  <1>1. /\ pipe[e] \in Seq(Bytes) /\ Len(pipe[e]) \in Nat /\ Len(pipe[e]) <= Cap /\ Cap \in Nat
        /\ pipe \in [Ends -> Seq(Bytes)] /\ \A f \in Ends : Len(pipe[f]) <= Cap
    BY LenProperties, LimitsAssumption DEF TypeOK
  <1>2. ASSUME NEW q \in Seq(Bytes), Len(q) <= Cap
        PROVE  /\ [pipe EXCEPT ![e] = q] \in [Ends -> Seq(Bytes)]
               /\ \A f \in Ends : Len([pipe EXCEPT ![e] = q][f]) <= Cap
    <2>1. \A f \in Ends : [pipe EXCEPT ![e] = q][f] = IF f = e THEN q ELSE pipe[f]
      BY <1>1
    <2> QED
      BY <1>1, <1>2, <2>1
  <1>3. ASSUME ~Full(e), NEW b \in Bytes
        PROVE  Append(pipe[e], b) \in Seq(Bytes) /\ Len(Append(pipe[e], b)) <= Cap
    <2>1. Len(pipe[e]) + 1 <= Cap
      BY <1>1, <1>3 DEF Full
    <2> QED
      BY <1>1, <2>1, AppendProperties
  <1>4. ASSUME NEW n \in 1 .. Len(pipe[e])
        PROVE  /\ SubSeq(pipe[e], 1, n) \in Seq(Bytes)
               /\ SubSeq(pipe[e], n + 1, Len(pipe[e])) \in Seq(Bytes)
               /\ Len(SubSeq(pipe[e], n + 1, Len(pipe[e]))) <= Cap
    <2>1. \A i \in 1 .. Len(pipe[e]) : pipe[e][i] \in Bytes
      BY <1>1, ElementOfSeq
    <2>2. SubSeq(pipe[e], 1, n) \in Seq(Bytes)
      BY <1>1, <2>1, SubSeqProperties
    <2>3. /\ SubSeq(pipe[e], n + 1, Len(pipe[e])) \in Seq(Bytes)
          /\ Len(SubSeq(pipe[e], n + 1, Len(pipe[e]))) =
                 IF n + 1 <= Len(pipe[e]) THEN Len(pipe[e]) - (n + 1) + 1 ELSE 0
      BY <1>1, <2>1, SubSeqProperties
    <2> QED
      BY <1>1, <2>2, <2>3
  <1>5. ASSUME pipe[e] # <<>>
        PROVE  Tail(pipe[e]) \in Seq(Bytes) /\ Len(Tail(pipe[e])) <= Cap
    <2>1. Tail(pipe[e]) \in Seq(Bytes) /\ Len(Tail(pipe[e])) = Len(pipe[e]) - 1
      BY <1>1, <1>5, HeadTailProperties
    <2> QED
      BY <1>1, <2>1
  <1> QED
    BY <1>1, <1>2, <1>3, <1>4, <1>5

LEMMA TypeInit == Init => TypeInv
  <1> SUFFICES ASSUME Init PROVE TypeInv
    OBVIOUS
  <1>1. <<>> \in Seq(Bytes) /\ Len(<<>>) = 0
    BY EmptySeq
  <1>2. 0 \in 0 .. N /\ 0 \in 0 .. MaxIn /\ 0 \in 0 .. 0 /\ 0 <= Cap /\ 0 \in Nat
    BY LimitsAssumption
  <1> QED
    BY <1>1, <1>2 DEF Init, TypeInv, TypeOK, Nothing

LEMMA TypeCall ==
    ASSUME TypeInv, NEW k \in Kinds, NEW n \in 0 .. MaxIn, Call(k, n)
    PROVE  TypeInv'
  <1>1. cur' \in 0 .. N
    BY LimitsAssumption DEF Call, TypeInv, TypeOK
  <1>2. kind' \in [Calls -> Kinds \cup {"none"}]
    BY DEF Call, TypeInv, TypeOK
  <1>3. sent' = 0 /\ input' \in 0 .. MaxIn /\ sent' \in 0 .. input' /\ pc' = "fork"
    BY LimitsAssumption DEF Call, TypeInv
  <1> QED
    BY <1>1, <1>2, <1>3 DEF Call, family, TypeInv, TypeOK

\* What a return sets is typed, and so is a step to another place.
LEMMA TypeReturn ==
    ASSUME TypeInv, NEW r \in {"ok", "error"}, Return(r)
    PROVE  /\ pc' = "idle" /\ cur' \in 0 .. N /\ kind' \in [Calls -> Kinds \cup {"none"}]
           /\ outcome' \in [Calls -> {"open", "ok", "error"}]
           /\ input' \in 0 .. MaxIn /\ sent' \in 0 .. input' /\ sent' = 0
           /\ written' \in [Streams -> Seq(Bytes)] /\ got' \in [Streams -> Seq(Bytes)]
  <1>1. <<>> \in Seq(Bytes) /\ 0 \in 0 .. MaxIn /\ 0 \in 0 .. 0
    BY EmptySeq, LimitsAssumption
  <1> QED
    BY <1>1 DEF Return, TypeInv, TypeOK, Nothing

LEMMA TypeOpens ==
    ASSUME TypeInv, EndsInv, PipeFails \/ ForkFails
    PROVE  TypeInv'
  <1>1. PICK ss : ss \subseteq Pipes(kind[cur]) /\ Open(ss)
    BY DEF PipeFails, ForkFails
  <1>2. cur \in Calls /\ ss \subseteq Streams
    BY <1>1, EndFacts, Sets DEF PipeFails, ForkFails, TypeInv, EndsInv, Order
  <1>3. {cur} \X ss \subseteq Ends
    BY <1>2 DEF Ends
  <1>4. reads' \in [Processes -> SUBSET Ends] /\ writes' \in [Processes -> SUBSET Ends]
    BY <1>1, <1>3, Sets DEF Open, TypeInv, TypeOK
  <1>5. Return("error") /\ UNCHANGED <<pipe, family>>
    BY DEF PipeFails, ForkFails
  <1> QED
    BY <1>4, <1>5, TypeReturn DEF TypeInv, TypeOK, family

LEMMA TypeFork ==
    ASSUME TypeInv, EndsInv, Fork
    PROVE  TypeInv'
  <1>1. cur \in Calls /\ Own(cur) \subseteq Ends
    BY EndFacts DEF Fork, TypeInv, EndsInv, Order
  <1>2. reads' \in [Processes -> SUBSET Ends] /\ writes' \in [Processes -> SUBSET Ends]
    <2>1. reads \in [Processes -> SUBSET Ends] /\ writes \in [Processes -> SUBSET Ends]
      BY DEF TypeInv, TypeOK
    <2>2. /\ reads[Parent] \cup Own(cur) \in SUBSET Ends
          /\ writes[Parent] \cup Own(cur) \in SUBSET Ends
      BY <1>1, <2>1, Sets
    <2>3. /\ reads' = [reads EXCEPT ![Parent] = @ \cup Own(cur),
                                   ![cur] = reads[Parent] \cup Own(cur)]
          /\ writes' = [writes EXCEPT ![Parent] = @ \cup Own(cur),
                                     ![cur] = writes[Parent] \cup Own(cur)]
      BY DEF Fork
    <2> QED
      BY <2>1, <2>2, <2>3
  <1>3. child' \in [Calls -> {"none", "starting", "running", "zombie", "reaped"}]
    BY DEF Fork, TypeInv, TypeOK
  <1> QED
    BY <1>2, <1>3 DEF Fork, GoTo, local, TypeInv, TypeOK

\* Steps of the script that change nothing but its place, its ends and the local state.
LEMMA TypeCloses ==
    ASSUME TypeInv,
           \/ PopenFails \/ CloseChildEnds \/ WriteFails \/ CloseInput \/ Waitpid
           \/ \E s \in {"out", "err"} : ReadFails(s) \/ ReadEnd(s)
    PROVE  TypeInv'
  <1>1. reads' \in [Processes -> SUBSET Ends] /\ writes' \in [Processes -> SUBSET Ends]
    BY Sets DEF TypeInv, TypeOK, PopenFails, CloseChildEnds, WriteFails, CloseInput, Waitpid,
                ReadFails, ReadEnd
  <1>2. child' \in [Calls -> {"none", "starting", "running", "zombie", "reaped"}]
    BY DEF TypeInv, TypeOK, PopenFails, CloseChildEnds, WriteFails, CloseInput, Waitpid,
           ReadFails, ReadEnd, family
  <1>3. UNCHANGED <<doing, pipe, eof, made>>
    BY DEF PopenFails, CloseChildEnds, WriteFails, CloseInput, Waitpid, ReadFails, ReadEnd, family
  <1>4. CASE Return("ok") \/ Return("error")
    BY <1>1, <1>2, <1>3, <1>4, TypeReturn DEF TypeInv, TypeOK
  <1>5. CASE /\ UNCHANGED <<cur, kind, outcome, local>>
             /\ pc' \in {"out", "err", "wait", "dead"} \/ (pc' = "in" /\ pc = "close")
    BY <1>1, <1>2, <1>3, <1>5 DEF TypeInv, TypeOK, local
  <1> QED
    BY <1>4, <1>5 DEF PopenFails, CloseChildEnds, WriteFails, CloseInput, Waitpid, ReadFails,
                      ReadEnd, AfterOut, GoTo

LEMMA TypeWriteInput ==
    ASSUME TypeInv, EndsInv, WriteInput
    PROVE  TypeInv'
  <1>1. Stdin \in Ends /\ ~Full(Stdin)
    BY EndFacts, Sets DEF WriteInput, Stdin, TypeInv, EndsInv, Order
  <1>2. pipe' \in [Ends -> Seq(Bytes)] /\ \A e \in Ends : Len(pipe'[e]) <= Cap
    BY <1>1, PipeTypes DEF WriteInput, TypeInv, Bytes
  <1>3. sent' \in 0 .. input' /\ input' \in 0 .. MaxIn
    BY LimitsAssumption DEF WriteInput, TypeInv, TypeOK
  <1> QED
    BY <1>2, <1>3 DEF WriteInput, family, TypeInv, TypeOK

LEMMA TypeReadChunk ==
    ASSUME TypeInv, EndsInv, NEW s \in {"out", "err"}, ReadChunk(s)
    PROVE  TypeInv'
  <1> DEFINE e == <<cur, s>>
  <1>1. PICK n \in 1 .. MAX_BUFFER :
           /\ pc = s /\ n <= Len(pipe[e])
           /\ got' = [got EXCEPT ![s] = @ \o Upto(SubSeq(pipe[e], 1, n))]
           /\ pipe' = [pipe EXCEPT ![e] = SubSeq(@, n + 1, Len(@))]
           /\ UNCHANGED <<pc, cur, kind, outcome, reads, writes, input, sent, written, family>>
    BY DEF ReadChunk
  <1>2. e \in Ends
    BY <1>1, EndFacts, Sets DEF TypeInv, EndsInv, Order
  <1>3. n \in 1 .. Len(pipe[e])
    BY <1>1, <1>2, PipeTypes, LimitsAssumption DEF TypeInv
  <1>4. pipe' \in [Ends -> Seq(Bytes)] /\ \A f \in Ends : Len(pipe'[f]) <= Cap
    <2>1. pipe' = [pipe EXCEPT ![e] = SubSeq(pipe[e], n + 1, Len(pipe[e]))]
      BY <1>1
    <2> QED
      BY <1>2, <1>3, <2>1, PipeTypes DEF TypeInv
  <1>5. got' \in [Streams -> Seq(Bytes)]
    <2>1. Upto(SubSeq(pipe[e], 1, n)) \in Seq(Bytes)
      BY <1>2, <1>3, PipeTypes, UptoIsPrefix DEF TypeInv
    <2>2. got \in [Streams -> Seq(Bytes)] /\ got[s] \in Seq(Bytes)
      BY Sets DEF TypeInv, TypeOK
    <2>3. got[s] \o Upto(SubSeq(pipe[e], 1, n)) \in Seq(Bytes)
      BY <2>1, <2>2, ConcatProperties
    <2> QED
      BY <1>1, <2>2, <2>3
  <1> QED
    BY <1>1, <1>4, <1>5 DEF family, TypeInv, TypeOK

LEMMA TypeScriptCloses ==
    ASSUME TypeInv, NEW c \in Calls, NEW s \in Streams, ScriptCloses(c, s)
    PROVE  TypeInv'
  <1>1. reads' \in [Processes -> SUBSET Ends] /\ writes' \in [Processes -> SUBSET Ends]
    BY Sets DEF TypeInv, TypeOK, ScriptCloses
  <1> QED
    BY <1>1 DEF ScriptCloses, local, family, TypeInv, TypeOK

LEMMA TypeChild ==
    ASSUME TypeInv, EndsInv, NEW c \in Calls, Child(c)
    PROVE  TypeInv'
  <1>1. Own(c) \subseteq Ends /\ Pipes(kind[c]) \subseteq Streams
    BY EndFacts, Sets DEF TypeInv
  <1>2. UNCHANGED script
    BY DEF Child, Setup, ChildReads, ChildWouldBlock, ChildWrites, Exit
  <1>3. Chooses(c) => doing' \in [Calls -> {"exit"} \cup Streams]
    BY <1>1 DEF Chooses, TypeInv, TypeOK
  <1>4. CASE Setup(c)
    <2>1. reads' \in [Processes -> SUBSET Ends] /\ writes' \in [Processes -> SUBSET Ends]
      BY <1>1, <1>4, Sets DEF Setup, TypeInv, TypeOK
    <2>2. child' \in [Calls -> {"none", "starting", "running", "zombie", "reaped"}]
      BY <1>4 DEF Setup, TypeInv, TypeOK
    <2> QED
      BY <1>2, <1>3, <1>4, <2>1, <2>2 DEF Setup, script, TypeInv, TypeOK
  <1>5. CASE Exit(c)
    <2>1. /\ reads' \in [Processes -> SUBSET Ends] /\ writes' \in [Processes -> SUBSET Ends]
          /\ doing' \in [Calls -> {"exit"} \cup Streams]
      BY <1>5, Sets DEF Exit, TypeInv, TypeOK
    <2>2. child' \in [Calls -> {"none", "starting", "running", "zombie", "reaped"}]
      BY <1>5 DEF Exit, TypeInv, TypeOK
    <2> QED
      BY <1>2, <1>5, <2>1, <2>2 DEF Exit, script, TypeInv, TypeOK
  <1>6. CASE ChildReads(c)
    <2>1. <<c, "in">> \in Ends
      BY EndFacts, Sets DEF TypeInv
    <2>2. pipe' \in [Ends -> Seq(Bytes)] /\ \A f \in Ends : Len(pipe'[f]) <= Cap
      <3>1. CASE pipe[<<c, "in">>] # <<>>
        <4>1. pipe' = [pipe EXCEPT ![<<c, "in">>] = Tail(pipe[<<c, "in">>])]
          BY <1>6, <3>1 DEF ChildReads
        <4> QED
          BY <2>1, <3>1, <4>1, PipeTypes DEF TypeInv
      <3>2. CASE pipe[<<c, "in">>] = <<>>
        BY <1>6, <3>2 DEF ChildReads, TypeInv, TypeOK
      <3> QED
        BY <3>1, <3>2
    <2>3. eof' \subseteq Calls
      BY <1>6 DEF ChildReads, TypeInv, TypeOK
    <2> QED
      BY <1>2, <1>3, <1>6, <2>2, <2>3 DEF ChildReads, script, TypeInv, TypeOK
  <1>7. ASSUME NEW s \in Streams, NEW b \in Bytes, ChildWrites(c, s, b)  PROVE TypeInv'
    <2>1. <<c, s>> \in Ends /\ ~Full(<<c, s>>)
      BY <1>7, EndFacts DEF ChildWrites, TypeInv
    <2>2. pipe' \in [Ends -> Seq(Bytes)] /\ \A f \in Ends : Len(pipe'[f]) <= Cap
      <3>1. pipe' = [pipe EXCEPT ![<<c, s>>] = Append(pipe[<<c, s>>], b)]
        BY <1>7 DEF ChildWrites
      <3> QED
        BY <2>1, <3>1, PipeTypes DEF TypeInv
    <2>3. made' \in [Ends -> Nat]
      BY <1>7, <2>1 DEF ChildWrites, TypeInv, TypeOK
    <2>4. written' \in [Streams -> Seq(Bytes)]
      <3>1. written \in [Streams -> Seq(Bytes)] /\ Append(written[s], b) \in Seq(Bytes)
        BY AppendProperties DEF TypeInv, TypeOK
      <3> QED
        BY <1>7, <3>1 DEF ChildWrites
    <2> QED
      BY <1>2, <1>3, <1>7, <2>2, <2>3, <2>4 DEF ChildWrites, script, TypeInv, TypeOK
  <1>8. CASE ChildWouldBlock(c)
    BY <1>2, <1>3, <1>8 DEF ChildWouldBlock, script, TypeInv, TypeOK
  <1> QED
    BY <1>4, <1>5, <1>6, <1>7, <1>8 DEF Child

LEMMA TypeNext ==
    ASSUME TypeInv, EndsInv, [Next]_vars
    PROVE  TypeInv'
  <1>1. CASE UNCHANGED vars
    BY <1>1 DEF vars, local, family, TypeInv, TypeOK
  <1>2. CASE Step
    BY <1>2, TypeOpens, TypeFork, TypeCloses, TypeWriteInput, TypeReadChunk DEF Step
  <1>3. CASE Script
    BY <1>3, TypeCall, TypeScriptCloses DEF Script
  <1>4. CASE \E c \in Calls : Child(c)
    BY <1>4, TypeChild
  <1> QED
    BY <1>1, <1>2, <1>3, <1>4 DEF Next
-----------------------------------------------------------------------------
(* The theorems.                                                           *)

Inv == TypeInv /\ EndsInv

LEMMA InvHolds == Spec => []Inv
  <1>1. Init => Inv
    BY EndsInit, TypeInit DEF Inv
  <1>2. Inv /\ [Next]_vars => Inv'
    BY EndsNext, TypeNext DEF Inv, TypeInv
  <1> QED
    BY <1>1, <1>2, PTL DEF Spec

\* Every variable has its type; no pipe holds more than it can, and no more is sent
\* than there is.
THEOREM TypeCorrect == Spec => []TypeOK
  BY InvHolds, PTL DEF Inv, TypeInv

\* A call that ends well leaves nothing behind, however its system calls interleave
\* with the children of earlier calls, that have inherited what was open when they
\* were forked, and whatever has failed before.
THEOREM CallsLeaveNothing == Spec => []NothingLeft
  <1>1. Inv => NothingLeft
    BY EndsImply DEF Inv, TypeInv
  <1> QED
    BY <1>1, InvHolds, PTL

-----------------------------------------------------------------------------
(* The output of the children.                                             *)

\* A child makes calls on the streams of its own pipes only, while it runs, and
\* holds the write ends of its output until it ends.
Writing ==
    \A c \in Calls :
        /\ doing[c] \in {"exit"} \cup Pipes(kind[c])
        /\ doing[c] # "exit" => child[c] = "running"
        /\ child[c] \in {"starting", "running"} =>
              \A s \in Pipes(kind[c]) \ {"in"} : <<c, s>> \in writes[c]

Text(bytes) == \A i \in 1 .. Len(bytes) : bytes[i] # "nul"

\* What the child of the current call has written has been collected or is in the pipe.
Covered(s) == Text(written[s]) => written[s] = got[s] \o pipe[<<cur, s>>]

Unused == /\ \A c \in Calls : c > cur \/ (c = cur /\ pc = "fork") =>
                \A s \in Streams : pipe[<<c, s>>] = <<>>
          /\ \A c \in Calls : \A s \in Streams \ Pipes(kind[c]) : pipe[<<c, s>>] = <<>>
          /\ pc \in {"idle", "fork"} => written = Nothing /\ got = Nothing

Collected ==
    /\ pc \in {"close", "in", "out", "err", "wait"} =>
          child[cur] \in {"starting", "running", "zombie"} /\ Covered("out") /\ Covered("err")
    /\ pc \in {"err", "wait"} => child[cur] = "zombie" /\ pipe[<<cur, "out">>] = <<>>
    /\ pc = "wait" => pipe[<<cur, "err">>] = <<>>

OutInv == Writing /\ Unused /\ Collected

LEMMA OutImplies == TypeOK /\ OutInv => OutputComplete
  <1> SUFFICES ASSUME TypeOK, OutInv, pc = "wait"
               PROVE  /\ child[cur] = "zombie"
                      /\ \A s \in {"out", "err"} :
                            (\A i \in DOMAIN written[s] : written[s][i] = "text")
                               => got[s] = written[s]
    BY DEF OutputComplete
  <1>1. child[cur] = "zombie"
    BY DEF OutInv, Collected
  <1>2. ASSUME NEW s \in {"out", "err"}, \A i \in DOMAIN written[s] : written[s][i] = "text"
        PROVE  got[s] = written[s]
    <2>1. written[s] \in Seq(Bytes) /\ got[s] \in Seq(Bytes)
      BY Sets DEF TypeOK
    <2>2. Text(written[s])
      BY <1>2, <2>1, LenProperties DEF Text
    <2>3. written[s] = got[s] \o pipe[<<cur, s>>] /\ pipe[<<cur, s>>] = <<>>
      BY <2>2 DEF OutInv, Collected, Covered
    <2> QED
      BY <2>1, <2>3, ConcatEmptySeq
  <1> QED
    BY <1>1, <1>2

LEMMA OutInit == Init => OutInv
  <1> SUFFICES ASSUME Init PROVE OutInv
    OBVIOUS
  <1>1. \A c \in Calls, s \in Streams : pipe[<<c, s>>] = <<>>
    BY DEF Init, Ends
  <1> QED
    BY <1>1 DEF Init, OutInv, Writing, Unused, Collected

\* The steps of the script leave the children's calls alone, except for starting a child.
LEMMA WritingScript ==
    ASSUME Inv, Writing, UNCHANGED <<doing, kind>>,
           \A c \in Calls : writes'[c] = writes[c],
           \A c \in Calls : child'[c] = child[c]
                            \/ (child[c] = "zombie" /\ child'[c] = "reaped")
    PROVE  Writing'
  BY DEF Writing

LEMMA OutCall ==
    ASSUME Inv, OutInv, NEW k \in Kinds, NEW n \in 0 .. MaxIn, Call(k, n)
    PROVE  OutInv'
  <1>1. /\ pc = "idle" /\ pc' = "fork" /\ cur' = cur + 1 /\ cur \in Nat
        /\ kind' = [kind EXCEPT ![cur'] = k] /\ kind \in [Calls -> Kinds \cup {"none"}]
        /\ UNCHANGED <<doing, child, writes, pipe, written, got>>
    BY EndFacts DEF Call, family, Inv, TypeInv, TypeOK
  <1>2. \A c \in Calls : c = cur + 1 \/ kind'[c] = kind[c]
    BY <1>1
  <1>3. \A c \in Calls : c = cur + 1 =>
           child[c] = "none" /\ \A s \in Streams : pipe[<<c, s>>] = <<>>
    <2> SUFFICES ASSUME NEW c \in Calls, c = cur + 1
                 PROVE  child[c] = "none" /\ \A s \in Streams : pipe[<<c, s>>] = <<>>
      OBVIOUS
    <2>1. c > cur /\ ~ (c <= cur)
      BY <1>1
    <2> QED
      BY <2>1 DEF Inv, EndsInv, Order, OutInv, Unused
  <1>4. Writing'
    <2> SUFFICES ASSUME NEW c \in Calls
                 PROVE  /\ doing[c] \in {"exit"} \cup Pipes(kind'[c])
                        /\ doing[c] # "exit" => child[c] = "running"
                        /\ child[c] \in {"starting", "running"} =>
                              \A s \in Pipes(kind'[c]) \ {"in"} : <<c, s>> \in writes[c]
      BY <1>1 DEF Writing
    <2> QED
      BY <1>2, <1>3 DEF OutInv, Writing
  <1>5. Unused'
    <2>1. \A c \in Calls : c > cur + 1 \/ c = cur + 1 => c > cur
      BY <1>1, Sets
    <2>2. \A c \in Calls : c > cur' \/ (c = cur' /\ pc' = "fork") =>
             \A s \in Streams : pipe'[<<c, s>>] = <<>>
      BY <1>1, <2>1 DEF OutInv, Unused
    <2>3. \A c \in Calls : \A s \in Streams \ Pipes(kind'[c]) : pipe'[<<c, s>>] = <<>>
      BY <1>1, <1>2, <1>3 DEF OutInv, Unused
    <2> QED
      BY <1>1, <2>2, <2>3 DEF OutInv, Unused
  <1> QED
    BY <1>1, <1>4, <1>5 DEF OutInv, Collected

\* A call that ends forgets its output.
LEMMA OutReturn ==
    ASSUME Inv, OutInv, NEW r \in {"ok", "error"}, Return(r), UNCHANGED <<doing, pipe>>,
           \A c \in Calls : writes'[c] = writes[c],
           \A c \in Calls : child'[c] = child[c]
                            \/ (child[c] = "zombie" /\ child'[c] = "reaped")
    PROVE  OutInv'
  <1>1. /\ pc' = "idle" /\ UNCHANGED <<cur, kind>>
        /\ written' = Nothing /\ got' = Nothing
    BY DEF Return
  <1>2. Writing'
    BY <1>1, WritingScript DEF OutInv
  <1> QED
    BY <1>1, <1>2 DEF OutInv, Unused, Collected

LEMMA OutFork ==
    ASSUME Inv, OutInv, Fork
    PROVE  OutInv'
  <1>1. /\ pc = "fork" /\ pc' = "close" /\ cur \in Calls
        /\ UNCHANGED <<cur, kind, doing, pipe, written, got>>
        /\ child' = [child EXCEPT ![cur] = "starting"]
        /\ child \in [Calls -> {"none", "starting", "running", "zombie", "reaped"}]
        /\ child[cur] = "none"
    BY DEF Fork, GoTo, local, Inv, EndsInv, Order, TypeInv, TypeOK
  <1>2. /\ \A p \in Calls \ {cur} : writes'[p] = writes[p]
        /\ writes'[cur] = writes[Parent] \cup Own(cur)
    BY <1>1, Sets DEF Fork, Inv, TypeInv, TypeOK
  <1>3. Writing'
    <2> SUFFICES ASSUME NEW c \in Calls
                 PROVE  /\ doing[c] \in {"exit"} \cup Pipes(kind[c])
                        /\ doing[c] # "exit" => child'[c] = "running"
                        /\ child'[c] \in {"starting", "running"} =>
                              \A s \in Pipes(kind[c]) \ {"in"} : <<c, s>> \in writes'[c]
      BY <1>1 DEF Writing
    <2>1. CASE c # cur
      BY <1>1, <1>2, <2>1 DEF OutInv, Writing
    <2>2. CASE c = cur
      <3>1. \A s \in Pipes(kind[c]) : <<c, s>> \in Own(c)
        BY EndFacts DEF Inv, TypeInv
      <3> QED
        BY <1>1, <1>2, <2>2, <3>1 DEF OutInv, Writing
    <2> QED
      BY <2>1, <2>2
  <1>4. Unused'
    BY <1>1 DEF OutInv, Unused
  <1>5. \A s \in {"out", "err"} : Covered(s)'
    <2>1. \A s \in {"out", "err"} :
              written'[s] = <<>> /\ got'[s] = <<>> /\ pipe'[<<cur', s>>] = <<>>
      BY <1>1, Sets DEF OutInv, Unused, Nothing
    <2>2. <<>> = <<>> \o <<>>
      BY ConcatEmptySeq, EmptySeq
    <2> QED
      BY <2>1, <2>2 DEF Covered
  <1>6. Collected'
    BY <1>1, <1>5 DEF Collected
  <1> QED
    BY <1>3, <1>4, <1>6 DEF OutInv

\* The steps of a call before it collects its output.
LEMMA OutBefore ==
    ASSUME Inv, OutInv, PopenFails \/ CloseChildEnds \/ WriteInput \/ CloseInput,
           ~Return("ok")
    PROVE  OutInv'
  <1>1. /\ UNCHANGED <<cur, kind, doing, child, written, got>>
        /\ pc \in {"fork", "close", "in"} /\ (pc' = pc \/ pc' \in {"in", "out", "dead"})
        /\ pc = "fork" => pc' = "dead"
        /\ pc' # "fork"
    BY DEF PopenFails, CloseChildEnds, WriteInput, CloseInput, GoTo, local, family
  <1>2. \A c \in Calls : writes'[c] = writes[c]
    BY Sets DEF PopenFails, CloseChildEnds, WriteInput, CloseInput, Inv, TypeInv, TypeOK
  <1>3. Writing'
    BY <1>1, <1>2, WritingScript DEF OutInv
  <1>4. \A c \in Calls, s \in Streams :
           pipe'[<<c, s>>] = pipe[<<c, s>>] \/ (WriteInput /\ c = cur /\ s = "in")
    <2>1. CASE WriteInput
      BY <2>1 DEF WriteInput, Stdin, Inv, TypeInv, TypeOK, Ends
    <2>2. CASE ~WriteInput
      BY <2>2 DEF PopenFails, CloseChildEnds, CloseInput
    <2> QED
      BY <2>1, <2>2
  <1>5. Unused'
    <2>1. WriteInput => pc = "in" /\ kind[cur] \in {"exec2", "fork"}
      BY DEF WriteInput, Inv, EndsInv, Closed
    <2>2. WriteInput => "in" \in Pipes(kind[cur])
      BY <2>1, Sets
    <2>3. \A c \in Calls : c > cur => c # cur
      BY EndFacts, Sets DEF Inv, TypeInv
    <2> QED
      BY <1>1, <1>4, <2>2, <2>3 DEF OutInv, Unused
  <1>6. Collected'
    <2>1. CASE pc = "fork"
      BY <1>1, <2>1 DEF Collected
    <2>2. CASE pc # "fork"
      <3>1. cur \in Calls
        BY <1>1 DEF Inv, EndsInv, Order
      <3>2. pipe'[<<cur, "out">>] = pipe[<<cur, "out">>] /\ pipe'[<<cur, "err">>] = pipe[<<cur, "err">>]
        BY <1>4, <3>1, Sets
      <3>3. Covered("out")' /\ Covered("err")'
        BY <1>1, <2>2, <3>2 DEF OutInv, Collected, Covered
      <3> QED
        BY <1>1, <2>2, <3>3 DEF OutInv, Collected
    <2> QED
      BY <2>1, <2>2
  <1> QED
    BY <1>3, <1>5, <1>6 DEF OutInv

LEMMA TextParts ==
    ASSUME NEW a \in Seq(Bytes), NEW b \in Seq(Bytes), Text(a \o b)
    PROVE  Text(a) /\ Text(b)
  <1>1. /\ Len(a) \in Nat /\ Len(b) \in Nat /\ Len(a \o b) = Len(a) + Len(b)
        /\ \A i \in 1 .. Len(a) + Len(b) : (a \o b)[i] = IF i <= Len(a) THEN a[i] ELSE b[i - Len(a)]
    BY ConcatProperties, LenProperties
  <1>2. ASSUME NEW i \in 1 .. Len(a)  PROVE a[i] # "nul"
    <2>1. i \in 1 .. Len(a) + Len(b) /\ i <= Len(a)
      BY <1>1
    <2> QED
      BY <1>1, <2>1 DEF Text
  <1>3. ASSUME NEW i \in 1 .. Len(b)  PROVE b[i] # "nul"
    <2>1. Len(a) + i \in 1 .. Len(a) + Len(b) /\ ~ (Len(a) + i <= Len(a)) /\ (Len(a) + i) - Len(a) = i
      BY <1>1
    <2> QED
      BY <1>1, <2>1 DEF Text
  <1> QED
    BY <1>2, <1>3 DEF Text

LEMMA Associative ==
    ASSUME NEW a \in Seq(Bytes), NEW b \in Seq(Bytes), NEW c \in Seq(Bytes)
    PROVE  (a \o b) \o c = a \o (b \o c)
  BY ConcatAssociative

\* A chunk moves from the pipe to what has been collected.
LEMMA OutReadChunk ==
    ASSUME Inv, OutInv, NEW s \in {"out", "err"}, ReadChunk(s)
    PROVE  OutInv'
  <1> DEFINE e == <<cur, s>>
             q == pipe[e]
  <1>1. PICK n \in 1 .. MAX_BUFFER :
           /\ pc = s /\ n <= Len(q)
           /\ got' = [got EXCEPT ![s] = @ \o Upto(SubSeq(q, 1, n))]
           /\ pipe' = [pipe EXCEPT ![e] = SubSeq(q, n + 1, Len(q))]
           /\ UNCHANGED <<pc, cur, kind, outcome, reads, writes, input, sent, written, family>>
    BY DEF ReadChunk
  <1>2. cur \in Calls /\ e \in Ends /\ s \in Streams
    BY <1>1, EndFacts, Sets DEF Inv, TypeInv, EndsInv, Order
  <1>3. /\ q \in Seq(Bytes) /\ Len(q) \in Nat /\ n \in 1 .. Len(q)
        /\ SubSeq(q, 1, n) \in Seq(Bytes) /\ SubSeq(q, n + 1, Len(q)) \in Seq(Bytes)
    <2>1. q \in Seq(Bytes) /\ Len(q) \in Nat
      BY <1>2, PipeTypes DEF Inv, TypeInv
    <2>2. n \in 1 .. Len(q)
      BY <1>1, <2>1, LimitsAssumption
    <2> QED
      BY <1>2, <2>1, <2>2, PipeTypes DEF Inv, TypeInv
  <1>4. q # <<>>
    BY <1>3, LenProperties, EmptySeq
  <1>5. /\ \A c \in Calls, t \in Streams : (c # cur \/ t # s) => pipe'[<<c, t>>] = pipe[<<c, t>>]
        /\ pipe'[e] = SubSeq(q, n + 1, Len(q))
        /\ got'[s] = got[s] \o Upto(SubSeq(q, 1, n))
        /\ \A t \in Streams \ {s} : got'[t] = got[t]
        /\ got[s] \in Seq(Bytes)
    BY <1>1, <1>2 DEF Inv, TypeInv, TypeOK, Ends
  <1>6. s \in Pipes(kind[cur])
    BY <1>2, <1>4 DEF OutInv, Unused
  <1>7. Writing'
    BY <1>1, WritingScript DEF OutInv, family
  <1>8. Unused'
    <2>1. \A c \in Calls : c > cur => c # cur
      BY EndFacts, Sets DEF Inv, TypeInv
    <2>2. \A c \in Calls : c > cur' \/ (c = cur' /\ pc' = "fork") =>
             \A t \in Streams : pipe'[<<c, t>>] = <<>>
      BY <1>1, <1>5, <2>1 DEF OutInv, Unused
    <2>3. ASSUME NEW c \in Calls, NEW t \in Streams \ Pipes(kind[c])
          PROVE  pipe'[<<c, t>>] = <<>>
      <3>1. c # cur \/ t # s
        BY <1>6, <2>3
      <3> QED
        BY <1>5, <2>3, <3>1 DEF OutInv, Unused
    <2> QED
      BY <1>1, <2>2, <2>3 DEF OutInv, Unused
  <1>9. Covered(s)'
    <2> SUFFICES ASSUME Text(written[s])
                 PROVE  written[s] = got'[s] \o pipe'[e]
      BY <1>1 DEF Covered
    <2>1. written[s] = got[s] \o q
      BY <1>1 DEF OutInv, Collected, Covered
    <2>2. q = SubSeq(q, 1, n) \o SubSeq(q, n + 1, Len(q))
      <3>1. q = SubSeq(q, 1, Len(q))
        BY <1>3, SubSeqFull
      <3>2. SubSeq(q, 1, n) \o SubSeq(q, n + 1, Len(q)) = SubSeq(q, 1, Len(q))
        <4>1. 1 \in 1 .. Len(q) + 1 /\ n \in 1 - 1 .. Len(q) /\ Len(q) \in n .. Len(q)
          BY <1>3
        <4> QED
          BY <1>3, <4>1, ConcatAdjacentSubSeq
      <3> QED
        BY <3>1, <3>2
    <2>3. Text(q)
      BY <1>3, <1>5, <2>1, TextParts
    <2>4. Text(SubSeq(q, 1, n))
      BY <1>3, <2>2, <2>3, TextParts
    <2>5. Upto(SubSeq(q, 1, n)) = SubSeq(q, 1, n)
      BY <1>3, <2>4, UptoIsPrefix DEF Text
    <2>6. (got[s] \o SubSeq(q, 1, n)) \o SubSeq(q, n + 1, Len(q))
             = got[s] \o (SubSeq(q, 1, n) \o SubSeq(q, n + 1, Len(q)))
      BY <1>3, <1>5, Associative
    <2>7. got'[s] = got[s] \o SubSeq(q, 1, n) /\ pipe'[e] = SubSeq(q, n + 1, Len(q))
      BY <1>5, <2>5
    <2> QED
      BY <2>1, <2>2, <2>6, <2>7
  <1>10. ASSUME NEW t \in {"out", "err"} \ {s}  PROVE Covered(t)'
    <2>1. Covered(t)
      BY <1>1 DEF OutInv, Collected
    <2>2. t \in Streams \ {s}
      BY Sets
    <2>3. got'[t] = got[t] /\ pipe'[<<cur, t>>] = pipe[<<cur, t>>]
      BY <1>2, <1>5, <2>2
    <2> QED
      BY <1>1, <2>1, <2>3 DEF Covered
  <1>11. Collected'
    <2>1. pc = "err" => pipe'[<<cur, "out">>] = pipe[<<cur, "out">>]
      BY <1>1, <1>2, <1>5, Sets
    <2> QED
      BY <1>1, <1>9, <1>10, <2>1 DEF OutInv, Collected, family
  <1> QED
    BY <1>7, <1>8, <1>11 DEF OutInv

\* The end of the output: no process has its write end, so the child has ended.
LEMMA OutReadEnd ==
    ASSUME Inv, OutInv, NEW s \in {"out", "err"}, ReadEnd(s)
    PROVE  OutInv'
  <1>1. /\ pc = s /\ cur \in Calls /\ kind[cur] \in {"exec", "exec2"}
        /\ UNCHANGED <<cur, kind, child, doing, pipe, writes, written, got>>
        /\ pc' = (IF s = "out" THEN AfterOut ELSE "wait")
        /\ pipe[<<cur, s>>] = <<>> /\ Writers(<<cur, s>>) = {}
    BY DEF ReadEnd, GoTo, NoMore, AtEnd, local, family, Inv, EndsInv, Order, Closed
  <1>2. pc' \in {"err", "wait"} /\ (s = "out" /\ pc' = "wait" => kind[cur] = "exec")
    BY <1>1 DEF AfterOut
  <1>3. child[cur] = "zombie"
    <2>1. s \in Pipes(kind[cur])
      BY <1>1, Sets DEF Inv, EndsInv, Closed
    <2>2. <<cur, s>> \notin writes[cur]
      BY <1>1, Sets DEF Writers
    <2> QED
      BY <1>1, <2>1, <2>2 DEF OutInv, Writing, Collected
  <1>4. pipe[<<cur, "out">>] = <<>>
    BY <1>1 DEF OutInv, Collected
  <1>5. pc' = "wait" => pipe[<<cur, "err">>] = <<>>
    BY <1>1, <1>2, Sets DEF OutInv, Unused
  <1>6. Writing'
    BY <1>1, WritingScript DEF OutInv
  <1>7. Unused'
    BY <1>1, <1>2 DEF OutInv, Unused
  <1>8. Covered("out")' /\ Covered("err")'
    BY <1>1 DEF OutInv, Collected, Covered
  <1>9. Collected'
    BY <1>1, <1>2, <1>3, <1>4, <1>5, <1>8 DEF Collected
  <1> QED
    BY <1>6, <1>7, <1>9 DEF OutInv

LEMMA OutEnds ==
    ASSUME Inv, OutInv,
           \/ PipeFails \/ ForkFails \/ WriteFails \/ Waitpid
           \/ (CloseChildEnds \/ CloseInput) /\ Return("ok")
           \/ \E s \in {"out", "err"} : ReadFails(s)
    PROVE  OutInv'
  <1>1. Return("ok") \/ Return("error")
    BY DEF PipeFails, ForkFails, WriteFails, Waitpid, ReadFails
  <1>2. UNCHANGED <<doing, pipe>>
    BY DEF PipeFails, ForkFails, WriteFails, Waitpid, ReadFails, CloseChildEnds, CloseInput, family
  <1>3. \A c \in Calls : writes'[c] = writes[c]
    BY Sets DEF PipeFails, Open, ForkFails, WriteFails, Waitpid, ReadFails, CloseChildEnds,
                CloseInput, Inv, TypeInv, TypeOK
  <1>4. \A c \in Calls : child'[c] = child[c]
                         \/ (child[c] = "zombie" /\ child'[c] = "reaped")
    BY DEF PipeFails, ForkFails, WriteFails, Waitpid, ReadFails, CloseChildEnds, CloseInput,
           family, Inv, TypeInv, TypeOK
  <1> QED
    BY <1>1, <1>2, <1>3, <1>4, OutReturn

LEMMA OutScriptCloses ==
    ASSUME Inv, OutInv, NEW c \in Calls, NEW s \in Streams, ScriptCloses(c, s)
    PROVE  OutInv'
  <1>1. /\ pc = "idle" /\ UNCHANGED <<pc, cur, kind, child, doing, pipe, written, got>>
    BY DEF ScriptCloses, Handed, local, family
  <1>2. \A p \in Calls : writes'[p] = writes[p]
    BY Sets DEF ScriptCloses, Inv, TypeInv, TypeOK
  <1>3. Writing'
    BY <1>1, <1>2, WritingScript DEF OutInv
  <1> QED
    BY <1>1, <1>3 DEF OutInv, Unused, Collected

\* A child that reads changes a pipe that is not collected, and one that writes the end
\* of one that is covered.
LEMMA OutChild ==
    ASSUME Inv, OutInv, NEW c \in Calls, Child(c)
    PROVE  OutInv'
  <1>1. UNCHANGED <<pc, cur, kind, got>>
    BY DEF Child, Setup, ChildReads, ChildWouldBlock, ChildWrites, Exit, script
  <1>2. child[c] # "none" => c <= cur /\ (pc = "fork" => c < cur)
    BY DEF Inv, EndsInv, Order
  <1>3. cur \in Nat /\ c \in Nat /\ \A d \in Calls, s \in Streams : <<d, s>> \in Ends
    BY EndFacts, Sets DEF Inv, TypeInv
  <1>4. Chooses(c) => /\ doing'[c] \in {"exit"} \cup Pipes(kind[c])
                      /\ \A d \in Calls \ {c} : doing'[d] = doing[d]
    BY DEF Chooses, Inv, TypeInv, TypeOK
  <1>5. CASE Setup(c) \/ Exit(c)
    <2>1. /\ UNCHANGED <<pipe, written>>
          /\ child' = [child EXCEPT ![c] = IF Setup(c) THEN "running" ELSE "zombie"]
          /\ child \in [Calls -> {"none", "starting", "running", "zombie", "reaped"}]
          /\ child[c] \in {"starting", "running"}
          /\ \A d \in Calls \ {c} : doing'[d] = doing[d] /\ writes'[d] = writes[d]
      <3>1. /\ child \in [Calls -> {"none", "starting", "running", "zombie", "reaped"}]
            /\ doing \in [Calls -> {"exit"} \cup Streams]
            /\ writes \in [Processes -> SUBSET Ends]
        BY DEF Inv, TypeInv, TypeOK
      <3>2. CASE Setup(c)
        BY <1>4, <3>1, <3>2, Sets DEF Setup
      <3>3. CASE Exit(c) /\ ~Setup(c)
        BY <3>1, <3>3, Sets DEF Exit
      <3> QED
        BY <1>5, <3>2, <3>3
    <2>2. /\ doing'[c] \in {"exit"} \cup Pipes(kind[c])
          /\ ~Setup(c) => doing'[c] = "exit"
      BY <1>4, <1>5 DEF Setup, Exit, Inv, TypeInv, TypeOK
    <2>3. Setup(c) => \A s \in Pipes(kind[c]) \ {"in"} : <<c, s>> \in writes'[c]
      <3> SUFFICES ASSUME Setup(c), NEW s \in Pipes(kind[c]) \ {"in"}
                   PROVE  <<c, s>> \in writes'[c]
        OBVIOUS
      <3>1. <<c, s>> \in Own(c) /\ s \in {"out", "err"}
        <4>1. Pipes(kind[c]) \subseteq Streams
          BY EndFacts, Sets DEF Inv, TypeInv
        <4> QED
          BY <4>1, EndFacts, Sets DEF Inv, TypeInv
      <3>2. <<c, s>> \in Own(c) \cap ({c} \X {"out", "err"})
        BY <3>1
      <3> QED
        BY <3>2, Sets DEF Setup, Inv, TypeInv, TypeOK
    <2>4. Writing'
      <3> SUFFICES ASSUME NEW d \in Calls
                   PROVE  /\ doing'[d] \in {"exit"} \cup Pipes(kind[d])
                          /\ doing'[d] # "exit" => child'[d] = "running"
                          /\ child'[d] \in {"starting", "running"} =>
                                \A s \in Pipes(kind[d]) \ {"in"} : <<d, s>> \in writes'[d]
        BY <1>1 DEF Writing
      <3>1. CASE d = c
        BY <2>1, <2>2, <2>3, <3>1
      <3>2. CASE d # c
        BY <2>1, <3>2 DEF OutInv, Writing
      <3> QED
        BY <3>1, <3>2
    <2>5. Unused'
      BY <1>1, <2>1 DEF OutInv, Unused
    <2>6. child[cur] \in {"starting", "running", "zombie"} =>
             child'[cur] \in {"starting", "running", "zombie"}
      BY <2>1
    <2>7. child[cur] = "zombie" => child'[cur] = "zombie"
      BY <2>1
    <2>8. (Covered("out") => Covered("out")') /\ (Covered("err") => Covered("err")')
      BY <1>1, <2>1 DEF Covered
    <2>9. Collected'
      BY <1>1, <2>1, <2>6, <2>7, <2>8 DEF OutInv, Collected
    <2> QED
      BY <2>4, <2>5, <2>9 DEF OutInv
  <1>6. ASSUME UNCHANGED <<child, writes>>, Chooses(c), child[c] = "running"
        PROVE  Writing'
    <2> SUFFICES ASSUME NEW d \in Calls
                 PROVE  /\ doing'[d] \in {"exit"} \cup Pipes(kind[d])
                        /\ doing'[d] # "exit" => child[d] = "running"
                        /\ child[d] \in {"starting", "running"} =>
                              \A s \in Pipes(kind[d]) \ {"in"} : <<d, s>> \in writes[d]
      BY <1>1, <1>6 DEF Writing
    <2>1. CASE d = c
      BY <1>4, <1>6, <2>1 DEF OutInv, Writing
    <2>2. CASE d # c
      BY <1>4, <1>6, <2>2 DEF OutInv, Writing
    <2> QED
      BY <2>1, <2>2
  <1>7. CASE ChildReads(c)
    <2>1. /\ child[c] = "running" /\ "in" \in Pipes(kind[c])
          /\ UNCHANGED <<child, writes, written>>
      BY <1>7 DEF ChildReads, OutInv, Writing
    <2>2. \A d \in Calls, s \in Streams : (d # c \/ s # "in") => pipe'[<<d, s>>] = pipe[<<d, s>>]
      BY <1>3, <1>7 DEF ChildReads, Inv, TypeInv, TypeOK
    <2>3. Writing'
      BY <1>6, <1>7, <2>1 DEF ChildReads
    <2>4. Unused'
      <3>1. \A d \in Calls : d > cur \/ (d = cur /\ pc = "fork") => d # c
        BY <1>2, <1>3, <2>1, Sets
      <3>2. ASSUME NEW d \in Calls, NEW s \in Streams \ Pipes(kind[d])
            PROVE  pipe'[<<d, s>>] = <<>>
        <4>1. d # c \/ s # "in"
          BY <2>1, <3>2
        <4> QED
          BY <2>2, <3>2, <4>1 DEF OutInv, Unused
      <3> QED
        BY <1>1, <2>1, <2>2, <3>1, <3>2 DEF OutInv, Unused
    <2>5. Collected'
      <3>1. CASE pc \in {"close", "in", "out", "err", "wait"}
        <4>1. cur \in Calls
          BY <3>1 DEF Inv, EndsInv, Order
        <4>2. pipe'[<<cur, "out">>] = pipe[<<cur, "out">>]
              /\ pipe'[<<cur, "err">>] = pipe[<<cur, "err">>]
          BY <2>2, <4>1, Sets
        <4>3. (Covered("out") => Covered("out")') /\ (Covered("err") => Covered("err")')
          BY <1>1, <2>1, <4>2 DEF Covered
        <4> QED
          BY <1>1, <2>1, <4>2, <4>3 DEF OutInv, Collected
      <3>2. CASE pc \notin {"close", "in", "out", "err", "wait"}
        BY <1>1, <3>2 DEF Collected
      <3> QED
        BY <3>1, <3>2
    <2> QED
      BY <2>3, <2>4, <2>5 DEF OutInv
  <1>8. ASSUME NEW s \in Streams, NEW b \in Bytes, ChildWrites(c, s, b)  PROVE OutInv'
    <2>1. /\ child[c] = "running" /\ s \in Pipes(kind[c]) /\ s \in {"out", "err"}
          /\ UNCHANGED <<child, writes>>
      BY <1>8, Sets DEF ChildWrites, OutInv, Writing
    <2>2. /\ \A d \in Calls, t \in Streams :
                 (d # c \/ t # s) => pipe'[<<d, t>>] = pipe[<<d, t>>]
          /\ pipe'[<<c, s>>] = Append(pipe[<<c, s>>], b)
          /\ pipe[<<c, s>>] \in Seq(Bytes)
      BY <1>3, <1>8 DEF ChildWrites, Inv, TypeInv, TypeOK
    <2>3. Writing'
      BY <1>6, <1>8, <2>1 DEF ChildWrites
    <2>4. Unused'
      <3>1. \A d \in Calls : d > cur \/ (d = cur /\ pc = "fork") => d # c
        BY <1>2, <1>3, <2>1, Sets
      <3>2. ASSUME NEW d \in Calls, NEW t \in Streams \ Pipes(kind[d])
            PROVE  pipe'[<<d, t>>] = <<>>
        <4>1. d # c \/ t # s
          BY <2>1, <3>2
        <4> QED
          BY <2>2, <3>2, <4>1 DEF OutInv, Unused
      <3>3. pc \in {"idle", "fork"} => written' = written
        <4>1. pc = "fork" => c # cur
          BY <1>2, <1>3, <2>1
        <4> QED
          BY <1>8, <4>1 DEF ChildWrites
      <3> QED
        BY <1>1, <2>1, <2>2, <3>1, <3>2, <3>3 DEF OutInv, Unused
    <2>5. CASE pc \in {"close", "in", "out", "err", "wait"}
      <3>1. cur \in Calls
        BY <2>5 DEF Inv, EndsInv, Order
      <3>2. pc \in {"err", "wait"} => c # cur
        BY <2>1 DEF OutInv, Collected
      <3>3. ASSUME NEW t \in {"out", "err"}, c # cur \/ t # s, Covered(t)
            PROVE  Covered(t)' /\ pipe'[<<cur, t>>] = pipe[<<cur, t>>]
        <4>1. t \in Streams /\ pipe'[<<cur, t>>] = pipe[<<cur, t>>]
          BY <2>2, <3>1, <3>3, Sets
        <4>2. written'[t] = written[t]
          BY <1>8, <3>3, <4>1 DEF ChildWrites, Inv, TypeInv, TypeOK
        <4> QED
          BY <1>1, <3>3, <4>1, <4>2 DEF Covered
      <3>4. ASSUME c = cur, Covered(s)  PROVE Covered(s)'
        <4>1. /\ written'[s] = Append(written[s], b)
              /\ written[s] \in Seq(Bytes) /\ got[s] \in Seq(Bytes)
          BY <1>8, <2>5, <3>4 DEF ChildWrites, Inv, TypeInv, TypeOK
        <4>2. /\ Append(written[s], b) = written[s] \o <<b>>
              /\ Append(pipe[<<c, s>>], b) = pipe[<<c, s>>] \o <<b>> /\ <<b>> \in Seq(Bytes)
          BY <2>2, <4>1, AppendIsConcat, SMTT(30)
        <4>3. Text(written'[s]) => Text(written[s])
          BY <4>1, <4>2, TextParts
        <4>4. (got[s] \o pipe[<<c, s>>]) \o <<b>> = got[s] \o (pipe[<<c, s>>] \o <<b>>)
          BY <2>2, <4>1, <4>2, Associative
        <4> QED
          BY <1>1, <2>2, <3>4, <4>1, <4>2, <4>3, <4>4 DEF Covered
      <3>5. Covered("out") /\ Covered("err")
        BY <2>5 DEF OutInv, Collected
      <3>6. Covered("out")' /\ Covered("err")'
        BY <2>1, <3>3, <3>4, <3>5
      <3> QED
        BY <1>1, <2>1, <2>3, <2>4, <2>5, <3>2, <3>3, <3>5, <3>6 DEF OutInv, Collected
    <2>6. CASE pc \notin {"close", "in", "out", "err", "wait"}
      BY <1>1, <2>3, <2>4, <2>6 DEF OutInv, Collected
    <2> QED
      BY <2>5, <2>6
  <1>9. CASE ChildWouldBlock(c)
    <2>1. /\ UNCHANGED <<child, reads, writes, pipe, made, written>>
          /\ child[c] = "running" /\ Chooses(c)
      BY <1>9 DEF ChildWouldBlock
    <2>2. Writing'
      BY <1>6, <2>1
    <2> QED
      BY <1>1, <2>1, <2>2 DEF OutInv, Unused, Collected, Covered
  <1> QED
    BY <1>5, <1>7, <1>8, <1>9 DEF Child

LEMMA OutNext ==
    ASSUME Inv, OutInv, [Next]_vars
    PROVE  OutInv'
  <1>1. CASE UNCHANGED vars
    BY <1>1 DEF vars, local, family, OutInv, Writing, Unused, Collected, Covered
  <1>2. CASE Step
    <2>1. PopenFails \/ WriteInput => ~Return("ok")
      BY DEF PopenFails, WriteInput, GoTo, Return
    <2> QED
      BY <1>2, <2>1, OutFork, OutBefore, OutEnds, OutReadChunk, OutReadEnd DEF Step
  <1>3. CASE Script
    BY <1>3, OutCall, OutScriptCloses DEF Script
  <1>4. CASE \E c \in Calls : Child(c)
    BY <1>4, OutChild
  <1> QED
    BY <1>1, <1>2, <1>3, <1>4 DEF Next

\* What is collected is all that the child has written, in whatever pieces it comes
\* and whichever stream the child prefers: the end of a stream that the script sees
\* is the end of the child.
THEOREM OutputIsComplete == Spec => []OutputComplete
  <1>1. Init => OutInv
    BY OutInit
  <1>2. Inv /\ Inv' /\ OutInv /\ [Next]_vars => OutInv'
    BY OutNext
  <1>3. Inv /\ OutInv => OutputComplete
    BY OutImplies DEF Inv, TypeInv
  <1> QED
    BY <1>1, <1>2, <1>3, InvHolds, PTL DEF Spec

-----------------------------------------------------------------------------
(* Waiting: what CallReturns needs besides fairness.                       *)

\* A child that has set itself up has its ends and not the other one of its input; one
\* that is in a system call runs, and in one of its streams.
ChildEnds ==
    \A c \in Calls :
        /\ child[c] = "running" =>
              /\ <<c, "in">> \notin writes[c]
              /\ "in" \in Pipes(kind[c]) => <<c, "in">> \in reads[c]
              /\ \A s \in Pipes(kind[c]) \ {"in"} : <<c, s>> \in writes[c]
        /\ doing[c] # "exit" => child[c] = "running" /\ doing[c] \in Pipes(kind[c])

\* The script has the ends that it will read from.
ParentEnds ==
    /\ pc \in {"close", "in", "out"} =>
          \A s \in Pipes(kind[cur]) \ {"in"} : <<cur, s>> \in reads[Parent]

HoldInv == ChildEnds /\ ParentEnds

LEMMA HoldInit == Init => HoldInv
  BY DEF Init, HoldInv, ChildEnds, ParentEnds

\* Steps of the script that change no child.
LEMMA HoldKept ==
    ASSUME HoldInv, UNCHANGED <<cur, kind, doing>>,
           \A c \in Calls : child'[c] = "running" => child[c] = "running",
           \A c \in Calls : child[c] = "running" => child'[c] = "running",
           \A c \in Calls : reads'[c] = reads[c] /\ writes'[c] = writes[c],
           ParentEnds'
    PROVE  HoldInv'
  BY DEF HoldInv, ChildEnds

LEMMA HoldStep ==
    ASSUME Inv, HoldInv, Step
    PROVE  HoldInv'
  <1>1. /\ TypeOK /\ (pc # "idle" => cur \in Calls) /\ Parent \notin Calls
        /\ reads \in [Processes -> SUBSET Ends] /\ writes \in [Processes -> SUBSET Ends]
        /\ Parent \in Processes /\ Calls \subseteq Processes
    BY Sets DEF Inv, TypeInv, TypeOK, EndsInv, Order
  <1>2. CASE PipeFails \/ ForkFails \/ PopenFails
    <2>1. UNCHANGED <<cur, kind, doing, child>> /\ pc' \in {"idle", "dead"}
      BY <1>2 DEF PipeFails, ForkFails, PopenFails, Return, GoTo, family
    <2>2. \A c \in Calls : reads'[c] = reads[c] /\ writes'[c] = writes[c]
      <3>1. PICK r, w : /\ reads' = [reads EXCEPT ![Parent] = r]
                        /\ writes' = [writes EXCEPT ![Parent] = w]
        BY <1>2 DEF PipeFails, ForkFails, PopenFails, Open
      <3> QED
        BY <1>1, <3>1
    <2> QED
      BY <2>1, <2>2, HoldKept DEF ParentEnds
  <1>3. CASE Fork
    <2>1. /\ pc = "fork" /\ pc' = "close" /\ cur \in Calls /\ UNCHANGED <<cur, kind, doing>>
          /\ child' = [child EXCEPT ![cur] = "starting"] /\ child[cur] = "none"
          /\ \A c \in Calls \ {cur} : reads'[c] = reads[c] /\ writes'[c] = writes[c]
          /\ reads'[Parent] = reads[Parent] \cup Own(cur)
      <3>1. /\ pc = "fork" /\ pc' = "close" /\ cur \in Calls /\ UNCHANGED <<cur, kind, doing>>
            /\ child' = [child EXCEPT ![cur] = "starting"]
        BY <1>1, <1>3 DEF Fork, GoTo
      <3>2. child[cur] = "none"
        <4>1. cur \in Nat
          BY <1>1, EndFacts
        <4> QED
          BY <3>1, <4>1 DEF Inv, EndsInv, Order
      <3>3. PICK r, w : /\ reads' = [reads EXCEPT ![Parent] = reads[Parent] \cup Own(cur), ![cur] = r]
                        /\ writes' = [writes EXCEPT ![Parent] = writes[Parent] \cup Own(cur), ![cur] = w]
        BY <1>3 DEF Fork
      <3> QED
        BY <1>1, <3>1, <3>2, <3>3
    <2>2. \A s \in Pipes(kind[cur]) : <<cur, s>> \in Own(cur)
      BY DEF Own
    <2>3. ParentEnds'
      BY <2>1, <2>2 DEF ParentEnds
    <2>4. child \in [Calls -> {"none", "starting", "running", "zombie", "reaped"}]
      BY <1>1 DEF TypeOK
    <2>5. doing[cur] = "exit" /\ child'[cur] = "starting"
      BY <2>1, <2>4 DEF HoldInv, ChildEnds
    <2>6. \A c \in Calls \ {cur} : child'[c] = child[c]
      BY <2>1, <2>4
    <2> QED
      BY <2>1, <2>3, <2>5, <2>6 DEF HoldInv, ChildEnds
  <1>4. CASE CloseChildEnds
    <2>1. UNCHANGED <<cur, kind, doing, child>> /\ pc = "close"
      BY <1>4 DEF CloseChildEnds, Return, GoTo, family
    <2>2. /\ \A c \in Calls : reads'[c] = reads[c] /\ writes'[c] = writes[c]
          /\ reads'[Parent] = reads[Parent] \ ({cur} \X {"in"})
      BY <1>1, <1>4, Sets DEF CloseChildEnds, TypeOK
    <2> QED
      BY <2>1, <2>2, HoldKept DEF ParentEnds, HoldInv
  <1>5. CASE WriteInput \/ WriteFails \/ \E s \in {"out", "err"} : ReadChunk(s) \/ ReadFails(s)
    <2>1. UNCHANGED <<cur, kind, doing, child, reads, writes>> /\ pc' \in {pc, "idle"}
      BY <1>5 DEF WriteInput, WriteFails, ReadChunk, ReadFails, Return, family
    <2> QED
      BY <2>1, HoldKept DEF ParentEnds, HoldInv
  <1>6. CASE CloseInput
    <2>1. UNCHANGED <<cur, kind, doing, child, reads>> /\ pc = "in"
      BY <1>6 DEF CloseInput, Return, GoTo, family
    <2>2. \A c \in Calls : writes'[c] = writes[c]
      BY <1>1, <1>6 DEF CloseInput, TypeOK
    <2> QED
      BY <2>1, <2>2, HoldKept DEF ParentEnds, HoldInv
  <1>7. CASE \E s \in {"out", "err"} : ReadEnd(s)
    <2>1. UNCHANGED <<cur, kind, doing, child, writes>> /\ pc' \in {"err", "wait"}
      BY <1>7 DEF ReadEnd, GoTo, AfterOut, family
    <2>2. \A c \in Calls : reads'[c] = reads[c]
      BY <1>1, <1>7 DEF ReadEnd, TypeOK
    <2> QED
      BY <2>1, <2>2, HoldKept DEF ParentEnds, HoldInv
  <1>8. CASE Waitpid
    <2>1. /\ UNCHANGED <<cur, kind, doing, reads, writes>> /\ pc' = "idle" /\ cur \in Calls
          /\ child[cur] = "zombie" /\ child' = [child EXCEPT ![cur] = "reaped"]
      BY <1>1, <1>8 DEF Waitpid, Return
    <2>2. \A c \in Calls : child'[c] = "running" <=> child[c] = "running"
      BY <1>1, <2>1 DEF TypeOK
    <2> QED
      BY <2>1, <2>2, HoldKept DEF ParentEnds
  <1> QED
    BY <1>2, <1>3, <1>4, <1>5, <1>6, <1>7, <1>8 DEF Step

LEMMA HoldScript ==
    ASSUME Inv, HoldInv, Script
    PROVE  HoldInv'
  <1>1. TypeOK /\ Parent \notin Calls /\ cur \in Nat
    BY Sets, EndFacts DEF Inv, TypeInv
  <1>2. ASSUME NEW k \in Kinds, NEW n \in 0 .. MaxIn, Call(k, n)  PROVE HoldInv'
    <2>1. /\ UNCHANGED <<reads, writes, child, doing>> /\ pc' = "fork" /\ cur' = cur + 1
          /\ cur' \in Calls /\ kind' = [kind EXCEPT ![cur'] = k]
      BY <1>1, <1>2, Sets DEF Call, family
    <2>2. child[cur'] = "none"
      BY <1>1, <2>1 DEF Inv, EndsInv, Order
    <2>3. \A c \in Calls \ {cur'} : kind'[c] = kind[c]
      BY <1>1, <2>1 DEF TypeOK
    <2> QED
      BY <2>1, <2>2, <2>3 DEF HoldInv, ChildEnds, ParentEnds
  <1>3. ASSUME NEW c \in Calls, NEW s \in Streams, ScriptCloses(c, s)  PROVE HoldInv'
    <2>1. UNCHANGED <<pc, cur, kind, doing, child>> /\ pc = "idle"
      BY <1>3 DEF ScriptCloses, Handed, family
    <2>2. \A d \in Calls : reads'[d] = reads[d] /\ writes'[d] = writes[d]
      BY <1>1, <1>3 DEF ScriptCloses, TypeOK
    <2> QED
      BY <2>1, <2>2, HoldKept DEF ParentEnds
  <1> QED
    BY <1>2, <1>3 DEF Script

LEMMA HoldChild ==
    ASSUME Inv, HoldInv, NEW c \in Calls, Child(c)
    PROVE  HoldInv'
  <1>1. TypeOK /\ Parent \notin Calls /\ Parent \in Processes /\ Calls \subseteq Processes
    BY Sets DEF Inv, TypeInv
  <1>2. UNCHANGED <<pc, cur, kind>>
    BY DEF Child, Setup, ChildReads, ChildWouldBlock, ChildWrites, Exit, script
  <1>3. CASE \/ ChildReads(c) \/ ChildWouldBlock(c)
             \/ \E s \in Streams, b \in Bytes : ChildWrites(c, s, b)
    <2>1. UNCHANGED <<child, reads, writes>> /\ doing[c] # "exit" /\ Chooses(c)
      BY <1>3 DEF ChildReads, ChildWouldBlock, ChildWrites, Streams
    <2>2. doing'[c] \in {"exit"} \cup Pipes(kind[c]) /\ \A d \in Calls \ {c} : doing'[d] = doing[d]
      BY <1>1, <2>1 DEF Chooses, TypeOK
    <2>3. child[c] = "running"
      BY <2>1 DEF HoldInv, ChildEnds
    <2> QED
      BY <1>2, <2>1, <2>2, <2>3 DEF HoldInv, ChildEnds, ParentEnds
  <1>4. CASE Setup(c)
    <2>1. /\ reads'[c] = (reads[c] \ ChildCloses(c)) \cup (Own(c) \cap ({c} \X {"in"}))
          /\ writes'[c] = (writes[c] \ ChildCloses(c)) \cup (Own(c) \cap ({c} \X {"out", "err"}))
          /\ \A p \in Processes \ {c} : reads'[p] = reads[p] /\ writes'[p] = writes[p]
          /\ child'[c] = "running" /\ \A d \in Calls \ {c} : child'[d] = child[d]
          /\ Chooses(c)
      BY <1>1, <1>4 DEF Setup, TypeOK
    <2>2. doing'[c] \in {"exit"} \cup Pipes(kind[c]) /\ \A d \in Calls \ {c} : doing'[d] = doing[d]
      BY <1>1, <2>1 DEF Chooses, TypeOK
    <2>3. <<c, "in">> \notin writes'[c]
      <3>1. <<c, "in">> \in Own(c) \/ <<c, "in">> \notin writes[c]
        <4>1. \A e \in writes[c] : e[2] \in Pipes(kind[e[1]])
          BY <1>1 DEF Inv, EndsInv, Ownership, Held
        <4>2. <<c, "in">>[1] = c /\ <<c, "in">>[2] = "in"
          OBVIOUS
        <4> QED
          BY <4>1, <4>2 DEF Own
      <3> QED
        BY <2>1, <3>1 DEF ChildCloses
    <2>4. \A s \in Pipes(kind[c]) : <<c, s>> \in Own(c)
      BY DEF Own
    <2>5. Pipes(kind[c]) \subseteq {"in", "out", "err"}
      BY <1>1, Sets, EndFacts
    <2>6. /\ "in" \in Pipes(kind[c]) => <<c, "in">> \in reads'[c]
          /\ \A s \in Pipes(kind[c]) \ {"in"} : <<c, s>> \in writes'[c]
      <3>1. ASSUME NEW s \in Pipes(kind[c]) \ {"in"}  PROVE <<c, s>> \in {c} \X {"out", "err"}
        BY <2>5
      <3>2. /\ (reads[c] \ ChildCloses(c)) \cup (Own(c) \cap ({c} \X {"in"})) = reads'[c]
            /\ (writes[c] \ ChildCloses(c)) \cup (Own(c) \cap ({c} \X {"out", "err"})) = writes'[c]
        BY <2>1
      <3>3. <<c, "in">> \in {c} \X {"in"}
        OBVIOUS
      <3>4. "in" \in Pipes(kind[c]) => <<c, "in">> \in reads'[c]
        BY <2>4, <3>2, <3>3, Zenon
      <3>5. ASSUME NEW s \in Pipes(kind[c]) \ {"in"}  PROVE <<c, s>> \in writes'[c]
        <4>1. <<c, s>> \in Own(c) /\ <<c, s>> \in {c} \X {"out", "err"}
          BY <2>4, <3>1
        <4> QED
          BY <3>2, <4>1, Zenon
      <3> QED
        BY <3>4, <3>5
    <2>7. ChildEnds'
      <3>1. \A d \in Calls \ {c} : /\ reads'[d] = reads[d] /\ writes'[d] = writes[d]
                                  /\ child'[d] = child[d] /\ doing'[d] = doing[d]
        BY <1>1, <2>1, <2>2
      <3>2. child'[c] = "running" /\ kind' = kind
        BY <1>2, <2>1
      <3> QED
        BY <2>2, <2>3, <2>6, <3>1, <3>2 DEF HoldInv, ChildEnds
    <2>8. ParentEnds'
      BY <1>1, <1>2, <2>1 DEF HoldInv, ParentEnds
    <2> QED
      BY <2>7, <2>8 DEF HoldInv
  <1>5. CASE Exit(c)
    <2>1. /\ doing'[c] = "exit" /\ \A d \in Calls \ {c} : doing'[d] = doing[d]
          /\ child'[c] = "zombie" /\ \A d \in Calls \ {c} : child'[d] = child[d]
          /\ \A p \in Processes \ {c} : reads'[p] = reads[p] /\ writes'[p] = writes[p]
      BY <1>1, <1>5 DEF Exit, TypeOK
    <2>2. ChildEnds'
      BY <1>1, <1>2, <2>1 DEF HoldInv, ChildEnds
    <2>3. ParentEnds'
      BY <1>1, <1>2, <2>1 DEF HoldInv, ParentEnds
    <2> QED
      BY <2>2, <2>3 DEF HoldInv
  <1> QED
    BY <1>3, <1>4, <1>5 DEF Child

LEMMA HoldHolds == Spec => [](Inv /\ OutInv /\ HoldInv)
  <1>1. Init => OutInv /\ HoldInv
    BY OutInit, HoldInit
  <1>2. Inv /\ Inv' /\ OutInv /\ [Next]_vars => OutInv'
    BY OutNext
  <1>3. Inv /\ HoldInv /\ [Next]_vars => HoldInv'
    <2> SUFFICES ASSUME Inv, HoldInv, [Next]_vars PROVE HoldInv'
      OBVIOUS
    <2>1. CASE UNCHANGED vars
      BY <2>1 DEF vars, family, HoldInv, ChildEnds, ParentEnds
    <2> QED
      BY <2>1, HoldStep, HoldScript, HoldChild DEF Next
  <1> QED
    BY <1>1, <1>2, <1>3, InvHolds, PTL DEF Spec

\* Whoever holds an end of the current call is the script or the call's child, that
\* lives.
LEMMA WhoHolds ==
    ASSUME Inv, cur \in Calls, NEW p \in Processes, NEW s \in Streams, <<cur, s>> \in Held(p)
    PROVE  p = Parent \/ (p = cur /\ child[cur] \in {"starting", "running"})
  <1>1. TypeOK /\ EndsInv /\ <<cur, s>>[1] = cur
    BY DEF Inv, TypeInv
  <1>2. CASE p \in Calls
    BY <1>1, <1>2, OnlyChild DEF EndsInv, Ownership
  <1> QED
    BY <1>2, Sets

\* What is full is not empty.
LEMMA FullFacts ==
    ASSUME TypeOK, NEW e \in Ends
    PROVE  Full(e) => pipe[e] # <<>>
  <1>1. Cap \in Nat \ {0} /\ pipe[e] \in Seq(Bytes)
    BY LimitsAssumption DEF TypeOK
  <1>2. pipe[e] = <<>> => Len(pipe[e]) = 0
    BY <1>1, EmptySeq
  <1> QED
    BY <1>1, <1>2 DEF Full

\* Every call goes on, or its child does, unless they wait on each other in one of the
\* two ways (OnlyJamsStop, process.cc:225): the children of earlier calls, with the ends
\* that they have inherited, and the script's own ends, cannot hold it up.
THEOREM CallsStopInJams == Spec => []OnlyJamsStop
  <1>1. Inv /\ OutInv /\ HoldInv => OnlyJamsStop
    <2> SUFFICES ASSUME Inv, OutInv, HoldInv, pc \notin {"idle", "dead"},
                        ~CallGoesOn, ~ChildGoesOn(cur)
                 PROVE  Jammed(cur)
      BY DEF OnlyJamsStop
    <2>1. /\ TypeOK /\ cur \in Calls /\ Closed /\ Ownership
          /\ Parent \in Processes /\ cur \in Processes /\ Streams = {"in", "out", "err"}
          /\ \A s \in Streams : <<cur, s>> \in Ends
      BY Sets, EndFacts DEF Inv, TypeInv, EndsInv, Order
    <2>2. pc \in {"in", "out", "err", "wait"}
      BY <2>1 DEF TypeOK, CallGoesOn
    <2>3. child[cur] \in {"running", "zombie"}
      BY <2>2 DEF OutInv, Collected, ChildGoesOn
    <2>4. ASSUME NEW s \in Streams
          PROVE  /\ Readers(<<cur, s>>) # {} => <<cur, s>> \in reads[Parent] \/ child[cur] = "running"
                 /\ Writers(<<cur, s>>) # {} => \/ <<cur, s>> \in writes[Parent]
                                                \/ child[cur] = "running" /\ <<cur, s>> \in writes[cur]
      BY <2>1, <2>3, WhoHolds DEF Readers, Writers, Held
    <2>5. ASSUME child[cur] = "running"
          PROVE  \/ doing[cur] = "in" /\ pipe[<<cur, "in">>] = <<>> /\ Writers(<<cur, "in">>) # {}
                 \/ doing[cur] \in {"out", "err"} /\ Full(<<cur, doing[cur]>>)
      BY <2>1, <2>5 DEF ChildGoesOn, AtEnd, TypeOK
    <2>6. CASE pc = "in"
      <3>1. sent < input /\ Readers(Stdin) # {} /\ Full(Stdin)
        <4>1. sent \in 0 .. input /\ input \in 0 .. MaxIn /\ MaxIn \in Nat
          BY <2>1, LimitsAssumption DEF TypeOK
        <4> QED
          BY <2>6, <4>1 DEF CallGoesOn
      <3>2. child[cur] = "running"
        BY <2>1, <2>4, <2>6, <3>1 DEF Closed, Stdin
      <3>3. pipe[<<cur, "in">>] # <<>>
        BY <2>1, <3>1, FullFacts DEF Stdin
      <3> QED
        BY <2>5, <2>6, <3>1, <3>2, <3>3 DEF Jammed, Stdin
    <2>7. CASE pc = "out"
      <3>1. pipe[<<cur, "out">>] = <<>> /\ Writers(<<cur, "out">>) # {}
        BY <2>7 DEF CallGoesOn, AtEnd
      <3>2. child[cur] = "running"
        BY <2>1, <2>4, <2>7, <3>1 DEF Closed
      <3>3. Writers(<<cur, "in">>) = {}
        BY <2>1, <2>4, <2>7, <3>2 DEF Closed, HoldInv, ChildEnds
      <3>4. ~Full(<<cur, "out">>)
        BY <2>1, <3>1, FullFacts
      <3> QED
        BY <2>5, <2>7, <3>2, <3>3, <3>4 DEF Jammed
    <2>8. CASE pc = "err"
      <3>1. pipe[<<cur, "err">>] = <<>> /\ Writers(<<cur, "err">>) # {}
        BY <2>8 DEF CallGoesOn, AtEnd
      <3>2. child[cur] = "zombie"
        BY <2>8 DEF OutInv, Collected
      <3> QED
        BY <2>1, <2>4, <2>8, <3>1, <3>2 DEF Closed
    <2>9. CASE pc = "wait"
      BY <2>9 DEF CallGoesOn, OutInv, Collected
    <2> QED
      BY <2>2, <2>6, <2>7, <2>8, <2>9
  <1> QED
    BY <1>1, HoldHolds, PTL

\* The jams are real: the child does not go on in either, and the script that writes its
\* input does not either; it reads on in the other until the output is empty.
JamIsReal ==
    pc \notin {"idle", "dead"} /\ Jammed(cur) => ~ChildGoesOn(cur) /\ (pc = "in" => ~CallGoesOn)

LEMMA JamFacts ==
    ASSUME Inv, HoldInv, pc \notin {"idle", "dead"}, Jammed(cur)
    PROVE  /\ TypeOK /\ cur \in Calls /\ pc \in {"in", "out"}
           /\ child[cur] = "running" /\ doing[cur] \in {"out", "err"}
           /\ doing[cur] \in Pipes(kind[cur]) /\ Full(<<cur, doing[cur]>>)
           /\ Parent \in Readers(<<cur, doing[cur]>>)
           /\ pc = "in" => /\ sent < input /\ Full(Stdin) /\ cur \in Readers(Stdin)
                           /\ sent # input
           /\ pc = "out" => doing[cur] = "err" /\ cur \in Writers(<<cur, "out">>)
           /\ kind[cur] # "exec3"
  <1>1. /\ TypeOK /\ cur \in Calls /\ Closed
        /\ Parent \in Processes /\ cur \in Processes
        /\ Pipes("exec2") = Streams /\ Pipes("fork") = {"in"} /\ Pipes("exec") = {"out"}
        /\ Streams = {"in", "out", "err"}
    BY Sets DEF Inv, TypeInv, EndsInv, Order
  <1>2. pc \in {"in", "out"} /\ doing[cur] \in {"out", "err"} /\ Full(<<cur, doing[cur]>>)
    BY DEF Jammed
  <1>3. child[cur] = "running" /\ doing[cur] \in Pipes(kind[cur])
    BY <1>1, <1>2 DEF HoldInv, ChildEnds
  <1>4. Parent \in Readers(<<cur, doing[cur]>>)
    BY <1>1, <1>2, <1>3 DEF HoldInv, ParentEnds, Readers
  <1>5. pc = "in" => /\ sent < input /\ Full(Stdin) /\ cur \in Readers(Stdin) /\ sent # input
    <2>1. CASE pc = "in"
      <3>1. sent < input /\ Full(Stdin)
        BY <2>1 DEF Jammed, Stdin
      <3>2. "in" \in Pipes(kind[cur])
        BY <1>1, <2>1 DEF Closed
      <3>3. sent \in 0 .. input /\ input \in 0 .. MaxIn /\ MaxIn \in Nat
        BY <1>1, LimitsAssumption DEF TypeOK
      <3>4. sent # input
        BY <3>1, <3>3
      <3> QED
        BY <1>1, <1>3, <3>1, <3>2, <3>4 DEF HoldInv, ChildEnds, Readers, Stdin
    <2> QED
      BY <2>1
  <1>6. pc = "out" => doing[cur] = "err" /\ cur \in Writers(<<cur, "out">>)
    <2>1. CASE pc = "out"
      <3>1. doing[cur] = "err"
        BY <2>1 DEF Jammed
      <3>2. "out" \in Pipes(kind[cur])
        BY <1>1, <2>1 DEF Closed
      <3> QED
        BY <1>1, <1>3, <3>1, <3>2 DEF HoldInv, ChildEnds, Writers
    <2> QED
      BY <2>1
  <1>7. kind[cur] # "exec3"
    BY <1>1, <1>2 DEF Closed
  <1> QED
    BY <1>1, <1>2, <1>3, <1>4, <1>5, <1>6, <1>7

THEOREM JamsAreReal == Spec => []JamIsReal
  <1>1. Inv /\ OutInv /\ HoldInv => JamIsReal
    <2> SUFFICES ASSUME Inv, HoldInv, pc \notin {"idle", "dead"}, Jammed(cur)
                 PROVE  ~ChildGoesOn(cur) /\ (pc = "in" => ~CallGoesOn)
      BY DEF JamIsReal
    <2> QED
      BY JamFacts DEF ChildGoesOn, CallGoesOn
  <1> QED
    BY <1>1, HoldHolds, PTL

\* And nothing ends a jam but a read that fails: neither the script, nor the child, nor
\* the children of other calls.
JamStays ==
    pc \notin {"idle", "dead"} /\ Jammed(cur) =>
        \/ UNCHANGED <<pc, cur>> /\ Jammed(cur)'
        \/ pc = "out" /\ pc' = "idle" /\ "read" \in Faults

THEOREM JamsLast == Spec => [][JamStays]_vars
  <1>1. Inv /\ OutInv /\ HoldInv /\ Next => JamStays
    <2> SUFFICES ASSUME Inv, HoldInv, Next, pc \notin {"idle", "dead"}, Jammed(cur)
                 PROVE  \/ UNCHANGED <<pc, cur>> /\ Jammed(cur)'
                        \/ pc = "out" /\ pc' = "idle" /\ "read" \in Faults
      BY DEF JamStays
    <2> DEFINE d == doing[cur]
    <2>1. /\ TypeOK /\ cur \in Calls /\ pc \in {"in", "out"} /\ child[cur] = "running"
          /\ d \in {"out", "err"} /\ Full(<<cur, d>>) /\ Parent \in Readers(<<cur, d>>)
          /\ pc = "in" => /\ sent < input /\ Full(Stdin) /\ cur \in Readers(Stdin)
                          /\ sent # input
          /\ pc = "out" => d = "err" /\ cur \in Writers(<<cur, "out">>)
          /\ kind[cur] # "exec3"
      BY JamFacts
    <2>2. /\ Streams = {"in", "out", "err"} /\ \A c \in Calls, s \in Streams : <<c, s>> \in Ends
          /\ pipe \in [Ends -> Seq(Bytes)]
      BY <2>1, Sets, EndFacts DEF TypeOK
    <2>3. CASE Step
      <3>1. \E s \in {"out", "err"} : pc = s /\ (ReadChunk(s) \/ ReadFails(s) \/ ReadEnd(s))
        BY <2>1, <2>3 DEF Step, PipeFails, ForkFails, PopenFails, Fork, CloseChildEnds,
                          WriteInput, WriteFails, CloseInput, Waitpid, ReadChunk, ReadFails, ReadEnd
      <3>2. pc = "out" /\ ~ReadEnd("out")
        BY <2>1, <3>1 DEF ReadEnd, NoMore, AtEnd
      <3>3. CASE ReadFails("out")
        BY <3>2, <3>3 DEF ReadFails, Return
      <3>4. CASE ReadChunk("out")
        <4>1. /\ UNCHANGED <<pc, cur, doing>>
              /\ \E q : pipe' = [pipe EXCEPT ![<<cur, "out">>] = q]
          BY <3>4 DEF ReadChunk, family
        <4>2. pipe'[<<cur, "err">>] = pipe[<<cur, "err">>]
          BY <2>1, <2>2, <4>1
        <4> QED
          BY <2>1, <3>2, <4>1, <4>2 DEF Jammed, Full
      <3> QED
        BY <3>1, <3>2, <3>3, <3>4
    <2>4. CASE Script
      BY <2>1, <2>4 DEF Script, Call, ScriptCloses, Handed
    <2>5. ASSUME NEW c \in Calls, Child(c)
          PROVE  UNCHANGED <<pc, cur>> /\ Jammed(cur)'
      <3>1. UNCHANGED <<pc, cur, input, sent>>
        BY <2>5 DEF Child, Setup, ChildReads, ChildWouldBlock, ChildWrites, Exit, script
      <3>2. c # cur
        <4>1. ~Setup(cur) /\ ~ChildReads(cur) /\ ~ChildWouldBlock(cur) /\ ~Exit(cur)
          BY <2>1 DEF Setup, ChildReads, ChildWouldBlock, Exit
        <4>2. \A s \in Streams, b \in Bytes : ~ChildWrites(cur, s, b)
          BY <2>1 DEF ChildWrites
        <4> QED
          BY <2>5, <4>1, <4>2 DEF Child
      <3>3. doing'[cur] = doing[cur]
        BY <2>1, <2>5, <3>2
           DEF Child, Setup, ChildReads, ChildWouldBlock, ChildWrites, Exit, Chooses, TypeOK
      <3>4. pipe' = pipe \/ \E s \in Streams : \E q : pipe' = [pipe EXCEPT ![<<c, s>>] = q]
        BY <2>5, <2>2 DEF Child, Setup, ChildReads, ChildWouldBlock, ChildWrites, Exit
      <3>5. \A s \in Streams : pipe'[<<cur, s>>] = pipe[<<cur, s>>]
        BY <2>1, <2>2, <3>2, <3>4
      <3> QED
        BY <2>1, <2>2, <3>1, <3>3, <3>5 DEF Jammed, Full
    <2> QED
      BY <2>3, <2>4, <2>5 DEF Next
  <1> QED
    BY <1>1, HoldHolds, PTL DEF Spec
=============================================================================
