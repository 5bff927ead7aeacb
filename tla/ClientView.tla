----------------------------- MODULE ClientView -----------------------------
(***************************************************************************)
(* What an application of the WebSocket server may rely on, for each       *)
(* client: it is told of the connection, then of the messages of the peer, *)
(* in their order and none twice, and of the disconnection, once.  The     *)
(* server does not promise that the last is the end: while it still works  *)
(* on the block of data in which the end came (leaving), more messages may *)
(* follow.  Nor does it promise that all messages come.                    *)
(***************************************************************************)
EXTENDS Sequences, Naturals

CONSTANT Clients

VARIABLES said,   \* the messages that the peer has sent
          heard,  \* those that the application has been given
          phase   \* what it has been told: new, in, leaving, gone

vars == <<said, heard, phase>>

Init == /\ said  = [c \in Clients |-> <<>>]
        /\ heard = [c \in Clients |-> <<>>]
        /\ phase = [c \in Clients |-> "new"]

Say(c) == /\ Len(said'[c]) = Len(said[c]) + 1
          /\ said' = [said EXCEPT ![c] = Append(@, said'[c][Len(@) + 1])]
          /\ UNCHANGED <<heard, phase>>

Connect(c) == /\ phase[c] = "new"
              /\ phase' = [phase EXCEPT ![c] = "in"]
              /\ UNCHANGED <<said, heard>>

Hear(c) == /\ phase[c] \in {"in", "leaving"}
           /\ Len(heard[c]) < Len(said[c])
           /\ heard' = [heard EXCEPT ![c] = Append(@, said[c][Len(@) + 1])]
           /\ UNCHANGED <<said, phase>>

Disconnect(c) == /\ phase[c] = "in"
                 /\ \E p \in {"leaving", "gone"} : phase' = [phase EXCEPT ![c] = p]
                 /\ UNCHANGED <<said, heard>>

Leave(c) == /\ phase[c] = "leaving"
            /\ phase' = [phase EXCEPT ![c] = "gone"]
            /\ UNCHANGED <<said, heard>>

Next == \E c \in Clients :
           Say(c) \/ Connect(c) \/ Hear(c) \/ Disconnect(c) \/ Leave(c)

Spec == Init /\ [][Next]_vars
=============================================================================
