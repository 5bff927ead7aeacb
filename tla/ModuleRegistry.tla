--------------------------- MODULE ModuleRegistry ---------------------------
(***************************************************************************)
(* What the scripts of a request may rely on when they require modules: a  *)
(* name that is being loaded, or has been loaded, stands for one object to *)
(* the end of the request, so that whoever asks gets that one and no file  *)
(* is run twice.  A failed load gives the name back, and the next one gets *)
(* an object that nobody has seen.  It is not promised that every failure  *)
(* gives the name back: a load may break, and the object of a module that  *)
(* never ran to its end then stays.                                        *)
(***************************************************************************)
EXTENDS Naturals

CONSTANTS Names, Nothing

VARIABLES state,    \* of each name: absent, loading, loaded, broken
          object,   \* what asking for it gives, Nothing when it is absent
          used      \* objects created, numbered from 1

vars == <<state, object, used>>

Init == /\ state = [n \in Names |-> "absent"]
        /\ object = [n \in Names |-> Nothing]
        /\ used = 0

Begin(n) == /\ state[n] = "absent"
            /\ state' = [state EXCEPT ![n] = "loading"]
            /\ object' = [object EXCEPT ![n] = used + 1]
            /\ used' = used + 1

\* A load ends: the module is there, or it broke.
End(n, result) == /\ state[n] = "loading"
                  /\ state' = [state EXCEPT ![n] = result]
                  /\ UNCHANGED <<object, used>>

Fail(n) == /\ state[n] = "loading"
           /\ state' = [state EXCEPT ![n] = "absent"]
           /\ object' = [object EXCEPT ![n] = Nothing]
           /\ UNCHANGED used

\* The request is over, and with it all that it loaded.
Over == /\ \A n \in Names : state[n] # "loading"
        /\ state' = [n \in Names |-> "absent"]
        /\ object' = [n \in Names |-> Nothing]
        /\ UNCHANGED used

Next == \/ \E n \in Names :
              \/ Begin(n)
              \/ \E result \in {"loaded", "broken"} : End(n, result)
              \/ Fail(n)
        \/ Over

Spec == Init /\ [][Next]_vars
=============================================================================
