------------------------------- MODULE MCApp -------------------------------
(* App on a small set of modules: the configuration, a script, a hybrid of a *)
(* shared library and a script, and a module that does not exist.            *)
EXTENDS App

CONSTANTS config, a, b, missing

SomeModules == {config, a, b, missing}
SomeParts ==
    [m \in SomeModules |->
        CASE m \in {config, a} -> <<"js">>
          [] m = b -> <<"dso", "js">>
          [] m = missing -> <<>>]

\* Each module under its own key.
OwnKey == [m \in SomeModules |-> m]
=============================================================================
