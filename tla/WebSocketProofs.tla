-------------------------- MODULE WebSocketProofs --------------------------
(***************************************************************************)
(* Proofs about WebSocket, for any clients, frames and room: the types,    *)
(* what the application is told of a client in which order, and that it is *)
(* given the messages of the peer, which together is ClientView.           *)
(***************************************************************************)
EXTENDS WebSocket, SequenceTheorems, FiniteSetTheorems, TLAPS

-----------------------------------------------------------------------------
(* Types.                                                                  *)

LEMMA UnitFacts == /\ End \in Units
                   /\ \A i \in Nat : \A k \in 0 .. 3 : <<i, k>> \in Units
                   /\ \A unit \in Units : unit[1] \in Nat
  BY DEF End, Units

\* What the operations on a client keep of the types.
LEMMA CloseTypes ==
    ASSUME TypeOK, NEW c, closeClient(c)
    PROVE  /\ conn' \in [Clients -> {"none", "tls", "hello", "open", "closed"}]
           /\ inbox' \in [Clients -> Seq(Units)]
           /\ out' \in [Clients -> 0 .. Room]
  <1>1. 0 \in 0 .. Room /\ <<>> \in Seq(Units)
    BY WebSocketAssumption, EmptySeq
  <1> QED
    BY <1>1 DEF closeClient, TypeOK

LEMMA OfferTypes ==
    ASSUME TypeOK, NEW c \in Clients, Offer(c)
    PROVE  out' \in [Clients -> 0 .. Room]
  <1>1. out[c] \in 0 .. Room /\ Room \in Nat
    BY WebSocketAssumption DEF TypeOK
  <1>2. (IF out[c] < Room THEN out[c] + 1 ELSE out[c]) \in 0 .. Room
    BY <1>1
  <1> QED
    BY <1>2 DEF Offer, TypeOK

LEMMA DismissTypes ==
    ASSUME TypeOK, NEW c, Dismiss(c)
    PROVE  told' \in [Clients -> {"new", "in", "gone", "twice"}]
  BY DEF Dismiss, TypeOK

Callbacks == {"connect", "message", "gone", "lost", "idle"}

LEMMA CatchTypes ==
    ASSUME TypeOK, NEW callbacks \in Seq(Callbacks), Catch(callbacks)
    PROVE  /\ conn' \in [Clients -> {"none", "tls", "hello", "open", "closed"}]
           /\ inbox' \in [Clients -> Seq(Units)]
           /\ out' \in [Clients -> 0 .. Room]
           /\ told' \in [Clients -> {"new", "in", "gone", "twice"}]
           /\ stack' \in Seq(Callbacks)
           /\ turn' \in Clients \cup {None} /\ pc' \in {"idle", "parse", "catch"}
  <1>1. CASE conn[turn] = "open"
    <2>1. closeClient(turn) /\ Dismiss(turn)
          /\ stack' = Append(callbacks, "gone") /\ pc' = "catch" /\ turn' = turn
      BY <1>1 DEF Catch, Disconnect
    <2>2. Append(callbacks, "gone") \in Seq(Callbacks)
      BY AppendProperties DEF Callbacks
    <2> QED
      BY <2>1, <2>2, CloseTypes, DismissTypes DEF TypeOK
  <1>2. CASE conn[turn] # "open"
    BY <1>2 DEF Catch, EndTurn, socket, TypeOK
  <1> QED
    BY <1>1, <1>2

\* The callback that the server has called stays when one within it returns.
LEMMA FrontKeeps ==
    ASSUME NEW s \in Seq(Callbacks), Len(s) > 1
    PROVE  Front(s) # <<>> /\ Front(s)[1] = s[1]
  <1>1. Len(s) \in Nat
    BY LenProperties
  <1>2. \A i \in 1 .. Len(s) - 1 : s[i] \in Callbacks
    BY <1>1, ElementOfSeq
  <1>3. Len(SubSeq(s, 1, Len(s) - 1)) = Len(s) - 1 /\ SubSeq(s, 1, Len(s) - 1)[1] = s[1]
    BY <1>1, <1>2, SubSeqProperties
  <1>4. Front(s) = SubSeq(s, 1, Len(s) - 1)
    BY DEF Front
  <1>5. Len(s) - 1 # 0
    <2>1. \A n \in Nat : n > 1 => n - 1 # 0
      OBVIOUS
    <2> QED
      BY <1>1, <2>1
  <1> QED
    BY <1>3, <1>4, <1>5, EmptySeq

LEMMA TypesInit == Init => TypeOK
  <1>1. <<>> \in Seq(Kinds) /\ <<>> \in Seq(Units) /\ <<>> \in Seq(Nat) /\ <<>> \in Seq(Seq(Nat))
        /\ <<>> \in Seq(Callbacks) /\ 0 \in 0 .. Room
    BY EmptySeq, WebSocketAssumption
  <1> QED
    BY <1>1, UnitFacts DEF Init, TypeOK, Callbacks, End

LEMMA TypesPeer ==
    ASSUME TypeOK, Peer
    PROVE  TypeOK'
  <1>1. PICK c \in Clients : \/ PeerGreets(c) \/ PeerBegins(c) \/ PeerGoesOn(c)
                             \/ PeerCloses(c) \/ PeerReads(c)
    BY DEF Peer
  <1>2. wire[c] \in Seq(Kinds) /\ Len(wire[c]) \in Nat /\ inbox[c] \in Seq(Units)
    BY LenProperties DEF TypeOK
  <1>3. ASSUME NEW unit \in Units, Arrives(c, unit)
        PROVE  /\ sent' \in [Clients -> Units] /\ inbox' \in [Clients -> Seq(Units)]
               /\ UNCHANGED <<out, conn, parser, view, loop>>
    <2>1. Append(inbox[c], unit) \in Seq(Units)
      BY <1>2, AppendProperties
    <2> QED
      BY <1>3, <2>1 DEF Arrives, TypeOK
  <1>4. CASE PeerGreets(c)
    <2>1. PICK k \in 1 .. 2 : Arrives(c, <<0, k>>)
      BY <1>4 DEF PeerGreets
    <2>2. <<0, k>> \in Units
      <3>1. k \in 0 .. 3 /\ 0 \in Nat
        OBVIOUS
      <3> QED
        BY <3>1 DEF Units
    <2> QED
      BY <1>3, <1>4, <2>1, <2>2 DEF PeerGreets, TypeOK, parser, view, loop
  <1>5. CASE PeerBegins(c)
    <2>1. PICK k \in Kinds : wire' = [wire EXCEPT ![c] = Append(@, k)]
      BY <1>5 DEF PeerBegins
    <2>2. Append(wire[c], k) \in Seq(Kinds)
      BY <1>2, AppendProperties
    <2>3. wire' \in [Clients -> Seq(Kinds)]
      BY <2>1, <2>2 DEF TypeOK
    <2>4. <<Len(wire[c]) + 1, 1>> \in Units
      <3>1. 1 \in 0 .. 3 /\ Len(wire[c]) + 1 \in Nat
        BY <1>2
      <3> QED
        BY <3>1 DEF Units
    <2> QED
      BY <1>3, <1>5, <2>3, <2>4 DEF PeerBegins, TypeOK, parser, view, loop
  <1>6. CASE PeerGoesOn(c)
    <2>1. PICK k \in 2 .. 3 : Arrives(c, <<Len(wire[c]), k>>)
      BY <1>6 DEF PeerGoesOn
    <2>2. <<Len(wire[c]), k>> \in Units
      <3>1. k \in 0 .. 3
        OBVIOUS
      <3> QED
        BY <1>2, <3>1 DEF Units
    <2> QED
      BY <1>3, <1>6, <2>1, <2>2 DEF PeerGoesOn, TypeOK, parser, view, loop
  <1>7. CASE PeerCloses(c)
    <2>1. Append(inbox[c], End) \in Seq(Units)
      BY <1>2, UnitFacts, AppendProperties
    <2> QED
      BY <1>7, <2>1 DEF PeerCloses, TypeOK, peer, parser, view, loop
  <1>8. CASE PeerReads(c)
    <2>1. out[c] - 1 \in 0 .. Room
      BY <1>8, WebSocketAssumption DEF PeerReads, TypeOK
    <2> QED
      BY <1>8, <2>1 DEF PeerReads, TypeOK, peer, parser, view, loop
  <1> QED
    BY <1>1, <1>4, <1>5, <1>6, <1>7, <1>8

LEMMA TypesListener ==
    ASSUME TypeOK, NEW c \in Clients, Listener(c)
    PROVE  TypeOK'
  <1>1. /\ Block(c) \in Seq(Units) /\ <<>> \in Seq(Units)
        /\ <<"connect">> \in Seq(Callbacks) /\ <<"lost">> \in Seq(Callbacks)
    <2>1. data[c] \in Seq(Units) /\ inbox[c] \in Seq(Units)
      BY DEF TypeOK
    <2>2. Block(c) \in Seq(Units)
      BY <2>1, ConcatProperties DEF Block
    <2> QED
      BY <2>2, EmptySeq DEF Callbacks
  <1>2. CASE Accept(c)
    BY <1>2 DEF Accept, TypeOK, peer, parser, view, loop
  <1>3. CASE TLSHandshake(c)
    <2>1. CASE closeClient(c)
      BY <1>3, <2>1, CloseTypes DEF TLSHandshake, TypeOK, peer, parser, view, loop
    <2>2. CASE ~closeClient(c)
      BY <1>3, <2>2 DEF TLSHandshake, TypeOK, peer, parser, view, loop
    <2> QED
      BY <2>1, <2>2
  <1>4. CASE HelloPart(c)
    BY <1>1, <1>4 DEF HelloPart, TypeOK, peer, view, loop
  <1>5. CASE HelloFails(c)
    BY <1>5, CloseTypes DEF HelloFails, TypeOK, peer, parser, view, loop
  <1>6. CASE Hello(c)
    BY <1>1, <1>6, OfferTypes DEF Hello, TypeOK, Callbacks, peer
  <1>7. CASE ReadingError(c)
    BY <1>1, <1>7, DismissTypes DEF ReadingError, TypeOK, Callbacks, peer, socket, parser
  <1>8. CASE Receive(c)
    BY <1>1, <1>8 DEF Receive, TypeOK, peer, view
  <1> QED
    BY <1>2, <1>3, <1>4, <1>5, <1>6, <1>7, <1>8 DEF Listener

\* What the parser uses of its data leaves a sequence of units.
LEMMA UseTypes ==
    ASSUME TypeOK, turn \in Clients, NEW n \in Nat, n <= Len(data[turn]), Use(n)
    PROVE  data' \in [Clients -> Seq(Units)]
  <1>1. data[turn] \in Seq(Units) /\ Len(data[turn]) \in Nat
        /\ \A i \in 1 .. Len(data[turn]) : data[turn][i] \in Units
    BY LenProperties, ElementOfSeq DEF TypeOK
  <1>2. SubSeq(data[turn], n + 1, Len(data[turn])) \in Seq(Units)
    BY <1>1, SubSeqProperties, SMTT(30)
  <1> QED
    BY <1>2 DEF Use, TypeOK

LEMMA FrameTypes ==
    ASSUME TypeOK, turn \in Clients, NEW kinds, Frame(kinds)
    PROVE  /\ data' \in [Clients -> Seq(Units)] /\ need' \in [Clients -> {2, 3}]
           /\ Number \in Nat
  <1>1. need[turn] \in Nat /\ need[turn] >= 2 /\ need[turn] <= Len(data[turn])
        /\ data[turn] \in Seq(Units) /\ Len(data[turn]) \in Nat
    BY LenProperties DEF Frame, TypeOK
  <1>2. data[turn] # <<>>
    BY <1>1, EmptySeq
  <1>3. Head(data[turn]) \in Units
    BY <1>1, <1>2, HeadTailProperties
  <1> QED
    BY <1>1, <1>3, UseTypes, UnitFacts DEF Frame, Number, TypeOK

LEMMA TypesParse ==
    ASSUME TypeOK, turn \in Clients, Parse
    PROVE  TypeOK'
  <1>1. <<>> \in Seq(Callbacks) /\ <<"message">> \in Seq(Callbacks)
    BY EmptySeq DEF Callbacks
  <1>2. CASE Incomplete
    <2>1. data' \in [Clients -> Seq(Units)] /\ need' \in [Clients -> {2, 3}]
      <3>1. CASE need[turn] = 3 /\ data[turn] # <<>>
        <4>1. Len(data[turn]) \in Nat /\ Len(data[turn]) # 0
          BY <3>1, LenProperties, EmptySeq DEF TypeOK
        <4>2. Use(1) /\ need' = [need EXCEPT ![turn] = 2] /\ 1 <= Len(data[turn])
          BY <1>2, <3>1, <4>1 DEF Incomplete
        <4> QED
          BY <4>2, UseTypes DEF TypeOK
      <3>2. CASE ~ (need[turn] = 3 /\ data[turn] # <<>>)
        BY <1>2, <3>2 DEF Incomplete, TypeOK
      <3> QED
        BY <3>1, <3>2
    <2> QED
      BY <1>2, <2>1 DEF Incomplete, EndTurn, TypeOK, peer, socket, view
  <1>3. CASE Refuse
    BY <1>1, <1>3, CatchTypes DEF Refuse, TypeOK, Callbacks, peer, parser
  <1>4. CASE DataFrame
    <2>1. data' \in [Clients -> Seq(Units)] /\ need' \in [Clients -> {2, 3}] /\ Number \in Nat
          /\ UNCHANGED <<peer, spin, up>>
      BY <1>4, FrameTypes DEF DataFrame, Frame
    <2>2. CASE Catch(<<>>) /\ UNCHANGED <<payload, heard>>
      BY <1>1, <2>1, <2>2, CatchTypes DEF TypeOK, Callbacks, peer
    <2>3. CASE /\ payload' = [payload EXCEPT ![turn] = Append(@, Number)]
               /\ IF Kind \in {"text", "end"}
                  THEN /\ heard' = [heard EXCEPT ![turn] = Append(@, payload'[turn])]
                       /\ stack' = <<"message">>
                  ELSE UNCHANGED <<heard, stack>>
               /\ UNCHANGED <<socket, told, turn, pc>>
      <3>1. payload' \in [Clients -> Seq(Nat)]
        <4>1. Append(payload[turn], Number) \in Seq(Nat)
          BY <2>1, AppendProperties DEF TypeOK
        <4> QED
          BY <2>3, <4>1 DEF TypeOK
      <3>2. heard' \in [Clients -> Seq(Seq(Nat))]
        <4>1. Append(heard[turn], payload'[turn]) \in Seq(Seq(Nat))
          BY <3>1, AppendProperties DEF TypeOK
        <4> QED
          BY <2>3, <4>1 DEF TypeOK
      <3>3. stack' \in Seq(Callbacks)
        BY <1>1, <2>3 DEF TypeOK, Callbacks
      <3> QED
        BY <2>1, <2>3, <3>1, <3>2, <3>3 DEF TypeOK, Callbacks, peer, socket
    <2> QED
      BY <1>4, <2>2, <2>3 DEF DataFrame
  <1>5. CASE Ping
    <2>1. data' \in [Clients -> Seq(Units)] /\ need' \in [Clients -> {2, 3}]
          /\ UNCHANGED <<peer, spin, up, payload, heard>>
      BY <1>5, FrameTypes DEF Ping, Frame
    <2>2. CASE Catch(<<>>)
      BY <1>1, <2>1, <2>2, CatchTypes DEF TypeOK, Callbacks, peer
    <2>3. CASE Offer(turn) /\ UNCHANGED <<inbox, conn, told, turn, pc, stack>>
      BY <2>1, <2>3, OfferTypes DEF TypeOK, peer
    <2> QED
      BY <1>5, <2>2, <2>3 DEF Ping
  <1>6. CASE CloseFrame
    <2>1. data' \in [Clients -> Seq(Units)] /\ need' \in [Clients -> {2, 3}]
          /\ UNCHANGED <<peer, spin, up, payload, heard>>
      BY <1>6, FrameTypes DEF CloseFrame, Frame
    <2>2. CASE Catch(<<>>)
      BY <1>1, <2>1, <2>2, CatchTypes DEF TypeOK, Callbacks, peer
    <2>3. CASE Disconnect(turn, <<>>) /\ UNCHANGED <<turn, pc>>
      <3>1. Append(<<>>, "gone") \in Seq(Callbacks)
        BY <1>1, AppendProperties DEF Callbacks
      <3> QED
        BY <2>1, <2>3, <3>1, CloseTypes, DismissTypes DEF Disconnect, TypeOK, Callbacks, peer
    <2>4. CASE UNCHANGED <<socket, told, stack, turn, pc>>
      BY <2>1, <2>4 DEF TypeOK, peer, socket
    <2> QED
      BY <1>6, <2>2, <2>3, <2>4 DEF CloseFrame
  <1> QED
    BY <1>2, <1>3, <1>4, <1>5, <1>6 DEF Parse

LEMMA TypesApp ==
    ASSUME TypeOK, App \/ SpinEnds
    PROVE  TypeOK'
  <1>1. CASE Idle
    <2>1. <<"idle">> \in Seq(Callbacks)
      BY DEF Callbacks
    <2> QED
      BY <1>1, <2>1 DEF Idle, TypeOK, Callbacks, peer, socket, parser, view
  <1>2. ASSUME NEW c \in Clients, AppSends(c)  PROVE TypeOK'
    <2>1. out' \in [Clients -> 0 .. Room] /\ spin' \in Clients \cup {None}
      BY <1>2, OfferTypes DEF AppSends, TypeOK
    <2> QED
      BY <1>2, <2>1 DEF AppSends, TypeOK, peer, parser, view
  <1>3. ASSUME NEW c \in Clients, AppDisconnects(c)  PROVE TypeOK'
    <2>1. Append(stack, "gone") \in Seq(Callbacks)
      BY AppendProperties DEF TypeOK, Callbacks
    <2> QED
      BY <1>3, <2>1, CloseTypes, DismissTypes DEF AppDisconnects, Disconnect, TypeOK, Callbacks, peer, parser
  <1>4. CASE SpinEnds
    <2>1. spin \in Clients
      BY <1>4 DEF SpinEnds, TypeOK
    <2>2. out' \in [Clients -> 0 .. Room]
      BY <1>4, <2>1, OfferTypes DEF SpinEnds, TypeOK
    <2> QED
      BY <1>4, <2>2 DEF SpinEnds, TypeOK, peer, parser, view
  <1> QED
    BY <1>1, <1>2, <1>3, <1>4 DEF App

LEMMA TypesReturns ==
    ASSUME TypeOK, Returns
    PROVE  TypeOK'
  <1>1. CASE InnerReturns
    <2>1. Len(stack) \in Nat /\ \A i \in 1 .. Len(stack) : stack[i] \in Callbacks
      BY LenProperties, ElementOfSeq DEF TypeOK, Callbacks
    <2>2. Front(stack) \in Seq(Callbacks)
      BY <2>1, SubSeqProperties DEF Front
    <2> QED
      BY <1>1, <2>2 DEF InnerReturns, TypeOK, Callbacks, peer, socket, parser, view
  <1>2. CASE OuterReturns
    <2>1. /\ stack' = <<>> /\ UNCHANGED <<peer, data, need, view, spin, up>>
          /\ turn' \in Clients \cup {None} /\ pc' \in {"idle", "parse", "catch"}
      BY <1>2 DEF OuterReturns, EndTurn, TypeOK
    <2>2. <<>> \in Seq(Callbacks) /\ <<>> \in Seq(Nat)
      BY EmptySeq
    <2>3. payload' \in [Clients -> Seq(Nat)]
      BY <1>2, <2>2 DEF OuterReturns, NoMessage, TypeOK
    <2>4. /\ conn' \in [Clients -> {"none", "tls", "hello", "open", "closed"}]
          /\ inbox' \in [Clients -> Seq(Units)] /\ out' \in [Clients -> 0 .. Room]
      <3>1. CASE closeClient(turn)
        BY <3>1, CloseTypes
      <3>2. CASE UNCHANGED socket
        BY <3>2 DEF socket, TypeOK
      <3> QED
        BY <1>2, <3>1, <3>2 DEF OuterReturns
    <2> QED
      BY <2>1, <2>2, <2>3, <2>4 DEF TypeOK, Callbacks, peer, view
  <1> QED
    BY <1>1, <1>2 DEF Returns

\* An exception is caught by the parser, by the handshake or by nobody.
LEMMA Throws ==
    ASSUME OuterThrows
    PROVE  /\ stack # <<>>
           /\ \/ pc = "parse" /\ Catch(<<>>) /\ UNCHANGED up
              \/ /\ stack = <<"connect">> /\ closeClient(turn)
                 /\ EndTurn /\ stack' = <<>> /\ UNCHANGED <<told, up>>
              \/ UNCHANGED <<socket, told, turn, pc, stack>> /\ up' = FALSE
           /\ UNCHANGED <<peer, parser, heard, spin>>
  <1>1. CASE pc = "parse" /\ stack # <<"connect">>
    BY <1>1 DEF OuterThrows, Called
  <1>2. CASE pc # "parse" /\ stack = <<"connect">>
    BY <1>2 DEF OuterThrows, Called
  <1>3. CASE pc = "parse" /\ stack = <<"connect">>
    BY <1>3 DEF OuterThrows, Called
  <1>4. CASE pc # "parse" /\ stack # <<"connect">>
    BY <1>4 DEF OuterThrows, Called
  <1> QED
    BY <1>1, <1>2, <1>3, <1>4

LEMMA TypesThrows ==
    ASSUME TypeOK, OuterThrows
    PROVE  TypeOK'
  <1>1. <<>> \in Seq(Callbacks)
    BY EmptySeq
  <1>2. CASE pc = "parse" /\ Catch(<<>>) /\ UNCHANGED up
    BY <1>1, <1>2, Throws, CatchTypes DEF TypeOK, Callbacks, peer, parser
  <1>3. CASE /\ stack = <<"connect">> /\ closeClient(turn)
             /\ EndTurn /\ stack' = <<>> /\ UNCHANGED <<told, up>>
    BY <1>1, <1>3, Throws, CloseTypes DEF TypeOK, Callbacks, EndTurn, peer, parser
  <1>4. CASE UNCHANGED <<socket, told, turn, pc, stack>> /\ up' = FALSE
    BY <1>4, Throws DEF TypeOK, peer, parser, socket
  <1> QED
    BY <1>2, <1>3, <1>4, Throws

\* The listener of a client runs.
InTurn == pc # "idle" => turn \in Clients

LEMMA InTurnNext ==
    ASSUME TypeOK, InTurn, [Next]_vars
    PROVE  InTurn'
  <1>1. CASE UNCHANGED <<turn, pc>> \/ EndTurn
    BY <1>1 DEF EndTurn, InTurn
  <1>2. ASSUME NEW c \in Clients, turn' = c  PROVE InTurn'
    BY <1>2 DEF InTurn
  <1>3. ASSUME pc = "parse", Catch(<<>>)  PROVE InTurn'
    BY <1>1, <1>3 DEF Catch, InTurn
  <1>4. CASE UNCHANGED vars
    BY <1>1, <1>4 DEF vars, loop
  <1>5. CASE Peer
    BY <1>1, <1>5 DEF Peer, PeerGreets, PeerBegins, PeerGoesOn, PeerCloses, PeerReads, Arrives, loop
  <1>6. CASE AcceptFails
    BY <1>1, <1>6 DEF AcceptFails
  <1>7. ASSUME NEW c \in Clients, Listener(c)  PROVE InTurn'
    BY <1>1, <1>2, <1>7 DEF Listener, Accept, TLSHandshake, HelloPart, HelloFails, Hello,
           ReadingError, Receive, loop
  <1>8. CASE Parse
    <2>1. pc = "parse"
      BY <1>8 DEF Parse, Incomplete, Refuse, DataFrame, Ping, CloseFrame, Frame, Parsing
    <2> QED
      BY <1>1, <1>3, <1>8, <2>1 DEF Parse, Incomplete, Refuse, DataFrame, Ping, CloseFrame
  <1>9. CASE App \/ SpinEnds
    BY <1>1, <1>9 DEF App, Idle, AppSends, AppDisconnects, SpinEnds
  <1>10. CASE Returns
    BY <1>1, <1>10 DEF Returns, InnerReturns, OuterReturns
  <1>11. CASE OuterThrows
    BY <1>1, <1>3, <1>11, Throws
  <1> QED
    BY <1>4, <1>5, <1>6, <1>7, <1>8, <1>9, <1>10, <1>11 DEF Next

LEMMA TypesNext ==
    ASSUME TypeOK, InTurn, [Next]_vars
    PROVE  TypeOK'
  <1>1. CASE UNCHANGED vars
    BY <1>1 DEF vars, peer, socket, parser, view, loop, TypeOK
  <1>2. CASE Parse
    <2>1. pc = "parse"
      BY <1>2 DEF Parse, Incomplete, Refuse, DataFrame, Ping, CloseFrame, Frame, Parsing
    <2> QED
      BY <1>2, <2>1, TypesParse DEF InTurn
  <1>3. CASE AcceptFails
    BY <1>3 DEF AcceptFails, TypeOK, peer, socket, parser, view
  <1> QED
    BY <1>1, <1>2, <1>3, TypesPeer, TypesListener, TypesApp, TypesReturns, TypesThrows DEF Next

LEMMA TypesHold == Spec => [](TypeOK /\ InTurn)
  <1>1. Init => TypeOK /\ InTurn
    BY TypesInit DEF Init, InTurn
  <1>2. TypeOK /\ InTurn /\ [Next]_vars => (TypeOK /\ InTurn)'
    BY TypesNext, InTurnNext
  <1> QED
    BY <1>1, <1>2, PTL DEF Spec

\* Every variable has its type, whatever the application does: no more frames are on
\* the way to a peer than fit, and what waits in a buffer is units.
THEOREM TypeCorrect == Spec => []TypeOK
  BY TypesHold, PTL

-----------------------------------------------------------------------------
(* What the application is told.                                           *)

\* The application is being told that the client of the turn is lost, which is
\* removed only when that returns.
Lost(c) == turn = c /\ pc = "idle" /\ stack # <<>> /\ stack[1] = "lost"

Lives ==
    \A c \in Clients :
        /\ conn[c] \in {"none", "tls", "hello"} => told[c] = "new"
        /\ conn[c] = "open" => told[c] = "in" \/ (told[c] = "gone" /\ Lost(c))
        /\ told[c] # "twice"

Turns ==
    /\ turn = None => pc = "idle"
    /\ pc # "idle" => turn \in Clients /\ told[turn] # "new"

OneLife ==
    \A c \in Clients :
        /\ told'[c] # told[c] => <<told[c], told'[c]>> \in {<<"new", "in">>, <<"in", "gone">>}
        /\ heard'[c] # heard[c] =>
              told[c] = "in" \/ (told[c] = "gone" /\ turn = c /\ pc = "parse")

Inv == TypeOK /\ Lives /\ Turns

LEMMA Dismissed ==
    ASSUME NEW c \in Clients, told[c] = "in", Dismiss(c)
    PROVE  told' = [told EXCEPT ![c] = "gone"]
  BY DEF Dismiss

LEMMA LivesInit == Init => Lives /\ Turns
  BY WebSocketAssumption DEF Init, Lives, Turns

\* What a step may do to clients while no callback of a loss is disturbed.
LEMMA LifeKept ==
    ASSUME Inv, UNCHANGED <<conn, told, heard, turn, pc>>,
           \A c \in Clients : Lost(c) => Lost(c)'
    PROVE  Lives' /\ Turns' /\ OneLife
  BY DEF Inv, Lives, Turns, OneLife

LEMMA LifePeer ==
    ASSUME Inv, Peer
    PROVE  Lives' /\ Turns' /\ OneLife
  <1>1. UNCHANGED <<conn, told, heard, turn, pc, stack>>
    BY DEF Peer, PeerGreets, PeerBegins, PeerGoesOn, PeerCloses, PeerReads, Arrives, view, loop
  <1> QED
    BY <1>1, LifeKept DEF Lost

LEMMA LifeListener ==
    ASSUME Inv, NEW c \in Clients, Listener(c)
    PROVE  Lives' /\ Turns' /\ OneLife
  <1>1. turn = None /\ stack = <<>> /\ pc = "idle" /\ \A d \in Clients : ~Lost(d)
    BY DEF Listener, Accept, TLSHandshake, HelloPart, HelloFails, Hello, ReadingError, Receive,
           Free, Inv, Turns, Lost
  <1>2. /\ conn \in [Clients -> {"none", "tls", "hello", "open", "closed"}]
        /\ told \in [Clients -> {"new", "in", "gone", "twice"}]
    BY DEF Inv, TypeOK
  <1>3. CASE Accept(c) \/ TLSHandshake(c) \/ HelloPart(c) \/ HelloFails(c)
    <2>1. /\ \E where \in {"tls", "hello", "closed"} :
               conn' = conn \/ conn' = [conn EXCEPT ![c] = where]
          /\ conn[c] \in {"none", "tls", "hello"}
          /\ UNCHANGED <<told, heard, turn, pc, stack>>
      BY <1>3 DEF Accept, TLSHandshake, HelloPart, HelloFails, closeClient, view, loop
    <2>2. Lives'
      BY <1>1, <1>2, <2>1 DEF Inv, Lives
    <2> QED
      BY <1>1, <2>1, <2>2 DEF Inv, Turns, OneLife
  <1>4. CASE Hello(c)
    <2>1. /\ conn[c] = "hello" /\ conn' = [conn EXCEPT ![c] = "open"]
          /\ told[c] = "new" /\ told' = [told EXCEPT ![c] = "in"]
          /\ turn' = c /\ pc' = "idle" /\ heard' = heard
      BY <1>1, <1>4 DEF Hello, Inv, Lives
    <2>2. Lives'
      BY <1>1, <1>2, <2>1 DEF Inv, Lives
    <2>3. OneLife
      BY <1>2, <2>1 DEF OneLife
    <2> QED
      BY <2>1, <2>2, <2>3, WebSocketAssumption DEF Turns
  <1>5. CASE ReadingError(c)
    <2>1. /\ conn[c] = "open" /\ conn' = conn
          /\ told[c] = "in" /\ told' = [told EXCEPT ![c] = "gone"]
          /\ turn' = c /\ pc' = "idle" /\ heard' = heard /\ stack' = <<"lost">>
      BY <1>1, <1>5, Dismissed DEF ReadingError, Inv, Lives, socket
    <2>2. Lost(c)'
      BY <2>1 DEF Lost
    <2>3. Lives'
      BY <1>1, <1>2, <2>1, <2>2 DEF Inv, Lives
    <2>4. OneLife
      BY <1>2, <2>1 DEF OneLife
    <2> QED
      BY <2>1, <2>3, <2>4, WebSocketAssumption DEF Turns
  <1>6. CASE Receive(c)
    <2>1. /\ conn[c] = "open" /\ UNCHANGED <<conn, told, heard>>
          /\ turn' = c /\ pc' = "parse" /\ told[c] = "in"
      BY <1>1, <1>6 DEF Receive, Inv, Lives, view
    <2>2. Lives'
      BY <1>1, <2>1 DEF Inv, Lives
    <2> QED
      BY <2>1, <2>2, WebSocketAssumption DEF Turns, OneLife
  <1> QED
    BY <1>3, <1>4, <1>5, <1>6 DEF Listener

\* A client that is connected is told so, and is told to be gone with its removal.
LEMMA LifeDisconnect ==
    ASSUME Inv, NEW c \in Clients, conn[c] = "open", told[c] = "in", heard' = heard,
           conn' = [conn EXCEPT ![c] = "closed"], told' = [told EXCEPT ![c] = "gone"],
           \A d \in Clients \ {c} : Lost(d) => Lost(d)'
    PROVE  Lives' /\ OneLife
  <1>1. /\ conn \in [Clients -> {"none", "tls", "hello", "open", "closed"}]
        /\ told \in [Clients -> {"new", "in", "gone", "twice"}]
    BY DEF Inv, TypeOK
  <1>2. Lives'
    BY <1>1 DEF Inv, Lives
  <1> QED
    BY <1>1, <1>2 DEF OneLife

LEMMA LifeCatch ==
    ASSUME Inv, pc = "parse", Catch(<<>>), heard' = heard
    PROVE  Lives' /\ Turns' /\ OneLife
  <1>1. turn \in Clients /\ told[turn] # "new" /\ \A c \in Clients : ~Lost(c)
    BY DEF Inv, Turns, Lost
  <1>2. CASE conn[turn] = "open"
    <2>1. /\ told[turn] = "in" /\ pc' = "catch" /\ turn' = turn
          /\ conn' = [conn EXCEPT ![turn] = "closed"] /\ told' = [told EXCEPT ![turn] = "gone"]
      BY <1>1, <1>2, Dismissed DEF Catch, Disconnect, closeClient, Inv, Lives
    <2>2. told'[turn] = "gone"
      BY <1>1, <2>1 DEF Inv, TypeOK
    <2> QED
      BY <1>1, <1>2, <2>1, <2>2, LifeDisconnect, WebSocketAssumption DEF Turns
  <1>3. CASE conn[turn] # "open"
    <2>1. UNCHANGED <<conn, told>> /\ turn' = None /\ pc' = "idle"
      BY <1>3 DEF Catch, EndTurn, socket
    <2> QED
      BY <1>1, <2>1 DEF Inv, Lives, Turns, OneLife
  <1> QED
    BY <1>2, <1>3

LEMMA LifeParse ==
    ASSUME Inv, Parse
    PROVE  Lives' /\ Turns' /\ OneLife
  <1>1. pc = "parse" /\ turn \in Clients /\ told[turn] # "new" /\ \A c \in Clients : ~Lost(c)
    BY DEF Parse, Incomplete, Refuse, DataFrame, Ping, CloseFrame, Frame, Parsing, Inv, Turns, Lost
  <1>2. CASE Catch(<<>>) /\ heard' = heard
    BY <1>1, <1>2, LifeCatch
  <1>3. CASE /\ UNCHANGED <<conn, told>>
             /\ (turn' = None /\ pc' = "idle") \/ UNCHANGED <<turn, pc>>
             /\ \A c \in Clients \ {turn} : heard'[c] = heard[c]
    <2>1. told[turn] \in {"in", "gone"}
      BY <1>1 DEF Inv, TypeOK, Lives
    <2>2. OneLife
      BY <1>1, <1>3, <2>1 DEF OneLife
    <2> QED
      BY <1>1, <1>3, <2>2 DEF Inv, Lives, Turns
  <1>4. CASE CloseFrame /\ conn[turn] = "open" /\ Disconnect(turn, <<>>) /\ UNCHANGED <<turn, pc, heard>>
    <2>1. /\ told[turn] = "in"
          /\ conn' = [conn EXCEPT ![turn] = "closed"] /\ told' = [told EXCEPT ![turn] = "gone"]
      BY <1>1, <1>4, Dismissed DEF Disconnect, closeClient, Inv, Lives
    <2>2. told'[turn] = "gone"
      BY <1>1, <2>1 DEF Inv, TypeOK
    <2> QED
      BY <1>1, <1>4, <2>1, <2>2, LifeDisconnect, WebSocketAssumption DEF Turns
  <1>5. CASE Incomplete
    BY <1>3, <1>5 DEF Incomplete, EndTurn, socket, view
  <1>6. CASE Refuse
    BY <1>2, <1>6 DEF Refuse
  <1>7. CASE DataFrame
    <2>1. CASE Catch(<<>>) /\ UNCHANGED <<payload, heard>>
      BY <1>2, <2>1
    <2>2. CASE ~Catch(<<>>)
      <3>1. UNCHANGED <<conn, told, turn, pc>>
        BY <1>7, <2>2 DEF DataFrame, socket
      <3>2. heard' = heard \/ heard' = [heard EXCEPT ![turn] = Append(@, payload'[turn])]
        BY <1>7, <2>2 DEF DataFrame
      <3> QED
        BY <1>1, <1>3, <3>1, <3>2 DEF Inv, TypeOK
    <2>3. CASE Catch(<<>>) /\ ~ UNCHANGED <<payload, heard>>
      <3>1. UNCHANGED <<conn, told, turn, pc>>
        BY <1>7, <2>3 DEF DataFrame, socket
      <3>2. heard' = heard \/ heard' = [heard EXCEPT ![turn] = Append(@, payload'[turn])]
        BY <1>7, <2>3 DEF DataFrame
      <3> QED
        BY <1>1, <1>3, <3>1, <3>2 DEF Inv, TypeOK
    <2> QED
      BY <2>1, <2>2, <2>3
  <1>8. CASE Ping
    <2>1. CASE Catch(<<>>)
      BY <1>2, <1>8, <2>1 DEF Ping
    <2>2. CASE UNCHANGED <<inbox, conn, told, turn, pc, stack>>
      BY <1>3, <1>8, <2>2 DEF Ping
    <2> QED
      BY <1>8, <2>1, <2>2 DEF Ping
  <1>9. CASE CloseFrame
    <2>1. CASE Catch(<<>>)
      BY <1>2, <1>9, <2>1 DEF CloseFrame
    <2>2. CASE conn[turn] = "open" /\ Disconnect(turn, <<>>) /\ UNCHANGED <<turn, pc>>
      BY <1>4, <1>9, <2>2 DEF CloseFrame
    <2>3. CASE UNCHANGED <<socket, told, stack, turn, pc>>
      BY <1>3, <1>9, <2>3 DEF CloseFrame, socket
    <2> QED
      BY <1>9, <2>1, <2>2, <2>3 DEF CloseFrame
  <1> QED
    BY <1>5, <1>6, <1>7, <1>8, <1>9 DEF Parse

LEMMA LifeApp ==
    ASSUME Polite, Inv, App \/ SpinEnds
    PROVE  Lives' /\ Turns' /\ OneLife
  <1>1. CASE Idle
    <2>1. UNCHANGED <<conn, told, heard, turn, pc>> /\ stack = <<>>
      BY <1>1 DEF Idle, Free, socket, view
    <2> QED
      BY <2>1, LifeKept DEF Lost
  <1>2. CASE SpinEnds \/ \E c \in Clients : AppSends(c)
    <2>1. UNCHANGED <<conn, told, heard, turn, pc, stack>>
      BY <1>2 DEF SpinEnds, AppSends, view
    <2> QED
      BY <2>1, LifeKept DEF Lost
  <1>3. ASSUME NEW c \in Clients, AppDisconnects(c)  PROVE Lives' /\ Turns' /\ OneLife
    <2>1. /\ conn[c] = "open" /\ told[c] = "in" /\ UNCHANGED <<heard, turn, pc>>
          /\ conn' = [conn EXCEPT ![c] = "closed"] /\ told' = [told EXCEPT ![c] = "gone"]
          /\ stack # <<>> /\ stack' = Append(stack, "gone")
      BY <1>3, Dismissed DEF AppDisconnects, Called, Disconnect, closeClient
    <2>2. stack' # <<>> /\ stack'[1] = stack[1]
      <3>1. stack \in Seq(Callbacks) /\ Len(stack) \in Nat /\ Len(stack) # 0
        BY <2>1, LenProperties, EmptySeq DEF Inv, TypeOK, Callbacks
      <3>2. 1 \in 1 .. Len(stack) /\ "gone" \in Callbacks
        BY <3>1 DEF Callbacks
      <3> QED
        BY <2>1, <3>1, <3>2, AppendProperties
    <2>3. Lives' /\ OneLife
      BY <2>1, <2>2, LifeDisconnect DEF Lost
    <2>4. \A d \in Clients : told[d] # "new" => told'[d] # "new"
      BY <2>1 DEF Inv, TypeOK
    <2> QED
      BY <2>1, <2>3, <2>4 DEF Inv, Turns
  <1> QED
    BY <1>1, <1>2, <1>3 DEF App

LEMMA LifeReturns ==
    ASSUME Inv, Returns
    PROVE  Lives' /\ Turns' /\ OneLife
  <1>1. stack \in Seq(Callbacks) /\ Len(stack) \in Nat
    BY LenProperties DEF Inv, TypeOK, Callbacks
  <1>2. CASE InnerReturns
    <2>1. UNCHANGED <<conn, told, heard, turn, pc>> /\ Len(stack) > 1 /\ stack' = Front(stack)
      BY <1>2 DEF InnerReturns, socket, view
    <2>2. stack' # <<>> /\ stack'[1] = stack[1]
      BY <1>1, <2>1, FrontKeeps
    <2> QED
      BY <2>1, <2>2, LifeKept DEF Lost
  <1>3. CASE OuterReturns
    <2>1. /\ Len(stack) = 1 /\ UNCHANGED <<told, heard>>
          /\ (pc = "parse" /\ UNCHANGED <<turn, pc>>) \/ (turn' = None /\ pc' = "idle")
          /\ IF stack = <<"lost">> THEN closeClient(turn) ELSE UNCHANGED socket
      BY <1>3 DEF OuterReturns, EndTurn, view
    <2>2. ASSUME NEW c \in Clients, Lost(c)  PROVE turn = c /\ stack = <<"lost">>
      BY <1>1, <2>1, <2>2 DEF Lost
    <2>3. Lives'
      <3>1. CASE stack = <<"lost">>
        <4>1. conn' = [conn EXCEPT ![turn] = "closed"]
          BY <2>1, <3>1 DEF closeClient
        <4> QED
          BY <2>1, <2>2, <4>1 DEF Inv, TypeOK, Lives
      <3>2. CASE stack # <<"lost">>
        BY <2>1, <2>2, <3>2 DEF Inv, Lives, socket
      <3> QED
        BY <3>1, <3>2
    <2> QED
      BY <2>1, <2>3 DEF Inv, Turns, OneLife
  <1> QED
    BY <1>2, <1>3 DEF Returns

LEMMA LifeThrows ==
    ASSUME Inv, OuterThrows
    PROVE  Lives' /\ Turns' /\ OneLife
  <1>1. CASE pc = "parse" /\ Catch(<<>>)
    BY <1>1, Throws, LifeCatch
  <1>2. CASE stack = <<"connect">> /\ closeClient(turn) /\ EndTurn /\ UNCHANGED told
    <2>1. conn' = [conn EXCEPT ![turn] = "closed"] /\ \A c \in Clients : ~Lost(c)
      BY <1>2 DEF closeClient, Lost
    <2>2. Lives'
      BY <1>2, <2>1 DEF Inv, TypeOK, Lives
    <2> QED
      BY <1>2, <2>2, Throws DEF EndTurn, Turns, OneLife
  <1>3. CASE UNCHANGED <<socket, told, turn, pc, stack>>
    <2>1. UNCHANGED <<conn, told, heard, turn, pc, stack>>
      BY <1>3, Throws DEF socket
    <2> QED
      BY <2>1, LifeKept DEF Lost
  <1> QED
    BY <1>1, <1>2, <1>3, Throws

-----------------------------------------------------------------------------
(* The life of a client, over all steps.                                   *)

LEMMA LifeNext ==
    ASSUME Polite, Inv, [Next]_vars
    PROVE  Lives' /\ Turns' /\ OneLife
  <1>1. CASE UNCHANGED vars \/ AcceptFails
    <2>1. UNCHANGED <<conn, told, heard, turn, pc, stack>>
      BY <1>1 DEF vars, peer, socket, parser, view, loop, AcceptFails
    <2> QED
      BY <2>1, LifeKept DEF Lost
  <1> QED
    BY <1>1, LifePeer, LifeListener, LifeParse, LifeApp, LifeReturns, LifeThrows DEF Next

LEMMA InvHolds == Polite => (Spec => []Inv)
  <1> SUFFICES ASSUME Polite PROVE Spec => []Inv
    OBVIOUS
  <1>1. Init => Inv
    BY TypesInit, LivesInit DEF Inv
  <1>2. Inv /\ [Next]_vars => Inv'
    BY TypesNext, LifeNext DEF Inv, InTurn, Turns
  <1> QED
    BY <1>1, <1>2, PTL DEF Spec

\* Of each client the application is told once that it is there and at most once that
\* it is gone, in this order, and it is given messages only in between and from the
\* block of data that is in work when it is told the second (websocket.js, _handshake,
\* _close, disconnect and the catch clauses), whoever disconnects whom from which
\* callback.
THEOREM ToldInOrder == Polite => (Spec => [][OneLife]_vars)
  <1> SUFFICES ASSUME Polite PROVE Spec => [][OneLife]_vars
    OBVIOUS
  <1>1. Inv /\ [Next]_vars => [OneLife]_vars
    BY LifeNext
  <1> QED
    BY <1>1, InvHolds, PTL DEF Spec
-----------------------------------------------------------------------------
(* Sets of numbers in order, and the messages in the frames of a peer.     *)

Below(S, i) == {j \in S : j < i}

LEMMA BelowCount ==
    ASSUME NEW S \in SUBSET Nat, IsFiniteSet(S)
    PROVE  /\ Cardinality(S) \in Nat
           /\ \A i \in S : IsFiniteSet(Below(S, i)) /\ Cardinality(Below(S, i)) \in 0 .. Cardinality(S) - 1
           /\ \A i, k \in S : i < k => Cardinality(Below(S, i)) < Cardinality(Below(S, k))
  <1>1. Cardinality(S) \in Nat
    BY FS_CardinalityType
  <1>2. ASSUME NEW i \in S
        PROVE  /\ IsFiniteSet(Below(S, i)) /\ Cardinality(Below(S, i)) \in Nat
               /\ Cardinality(Below(S, i)) < Cardinality(S)
    <2>1. Below(S, i) \in SUBSET S /\ i \notin Below(S, i) /\ i \in S
      BY <1>2 DEF Below
    <2>2. IsFiniteSet(Below(S, i)) /\ Cardinality(Below(S, i)) <= Cardinality(S)
          /\ Cardinality(S) # Cardinality(Below(S, i))
      BY <2>1, FS_Subset
    <2>3. Cardinality(Below(S, i)) \in Nat
      BY <2>2, FS_CardinalityType
    <2> QED
      BY <1>1, <2>2, <2>3
  <1>3. ASSUME NEW i \in S, NEW k \in S, i < k
        PROVE  Cardinality(Below(S, i)) < Cardinality(Below(S, k))
    <2>1. Below(S, i) \in SUBSET Below(S, k) /\ i \in Below(S, k) /\ i \notin Below(S, i)
      <3>1. \A j \in S : j \in Nat
        OBVIOUS
      <3>2. \A j \in S : j < i => j < k
        BY <1>3, <3>1
      <3>3. ~(i < i)
        BY <3>1
      <3> QED
        BY <1>3, <3>2, <3>3 DEF Below
    <2>2. Cardinality(Below(S, i)) <= Cardinality(Below(S, k))
          /\ Cardinality(Below(S, k)) # Cardinality(Below(S, i))
      BY <1>2, <2>1, FS_Subset
    <2> QED
      BY <1>2, <2>2
  <1>4. \A i \in S : IsFiniteSet(Below(S, i)) /\ Cardinality(Below(S, i)) \in 0 .. Cardinality(S) - 1
    BY <1>1, <1>2
  <1> QED
    BY <1>1, <1>3, <1>4

\* Every place is taken, by one number.
LEMMA Placed ==
    ASSUME NEW S \in SUBSET Nat, IsFiniteSet(S), NEW n \in 1 .. Cardinality(S)
    PROVE  /\ InOrder(S)[n] \in S
           /\ Cardinality(Below(S, InOrder(S)[n])) = n - 1
           /\ \A i \in S : Cardinality(Below(S, i)) = n - 1 => i = InOrder(S)[n]
  <1> DEFINE place == [i \in S |-> Cardinality(Below(S, i)) + 1]
  <1>1. Cardinality(S) \in Nat
    BY BelowCount
  <1>2. \A i \in S : Cardinality(Below(S, i)) \in Nat /\ Cardinality(Below(S, i)) + 1 \in 1 .. Cardinality(S)
    BY <1>1, BelowCount
  <1>3. \A i, k \in S : Cardinality(Below(S, i)) = Cardinality(Below(S, k)) => i = k
    <2>1. ASSUME NEW i \in S, NEW k \in S, Cardinality(Below(S, i)) = Cardinality(Below(S, k)), i # k
          PROVE  FALSE
      <3>1. i < k \/ k < i
        BY <2>1
      <3>2. ~ Cardinality(Below(S, i)) < Cardinality(Below(S, k)) /\ ~ Cardinality(Below(S, k)) < Cardinality(Below(S, i))
        BY <1>2, <2>1
      <3> QED
        BY <3>1, <3>2, BelowCount
    <2> QED
      BY <2>1
  <1>4. place \in Injection(S, 1 .. Cardinality(S))
    <2>1. place \in [S -> 1 .. Cardinality(S)]
      BY <1>2
    <2>2. IsInjective(place)
      <3>1. ASSUME NEW i \in S, NEW k \in S, place[i] = place[k]  PROVE i = k
        BY <1>2, <1>3, <3>1
      <3> QED
        BY <3>1 DEF IsInjective
    <2> QED
      BY <2>1, <2>2 DEF Injection
  <1>5. place \in Surjection(S, 1 .. Cardinality(S))
    <2>1. IsFiniteSet(1 .. Cardinality(S)) /\ Cardinality(1 .. Cardinality(S)) = Cardinality(S)
      BY <1>1, FS_Interval
    <2> QED
      BY <1>4, <2>1, FS_Injection
  <1>6. \E i \in S : place[i] = n
    BY <1>5 DEF Surjection
  <1>7. PICK i \in S : Cardinality(Below(S, i)) = n - 1
    BY <1>2, <1>6
  <1>8. InOrder(S)[n] = CHOOSE k \in S : Cardinality(Below(S, k)) = n - 1
    BY DEF InOrder, Below
  <1> QED
    BY <1>3, <1>7, <1>8

LEMMA OrderSeq ==
    ASSUME NEW S \in SUBSET Nat, IsFiniteSet(S)
    PROVE  /\ InOrder(S) \in Seq(S) /\ InOrder(S) \in Seq(Nat)
           /\ Cardinality(S) \in Nat /\ Len(InOrder(S)) = Cardinality(S)
  <1>1. Cardinality(S) \in Nat
    BY FS_CardinalityType
  <1> DEFINE at(n) == CHOOSE i \in S : Cardinality({j \in S : j < i}) = n - 1
  <1>2. InOrder(S) = [n \in 1 .. Cardinality(S) |-> at(n)]
    BY DEF InOrder
  <1> HIDE DEF at
  <1>3. InOrder(S) \in [1 .. Cardinality(S) -> S]
    <2>1. ASSUME NEW n \in 1 .. Cardinality(S)  PROVE at(n) \in S
      <3>1. InOrder(S)[n] = at(n)
        BY <1>2
      <3>2. InOrder(S)[n] \in S
        BY Placed
      <3> QED
        BY <3>1, <3>2
    <2> QED
      BY <1>2, <2>1
  <1>4. InOrder(S) \in Seq(S)
    BY <1>1, <1>3
  <1>5. Len(InOrder(S)) = Cardinality(S)
    BY <1>1, <1>3, <1>4, LenProperties
  <1> QED
    BY <1>1, <1>4, <1>5, SeqMonotonic

LEMMA OrderEmpty == InOrder({}) = <<>>
  <1>1. IsFiniteSet({}) /\ Cardinality({}) = 0
    BY FS_EmptySet
  <1>2. InOrder({}) \in Seq(Nat) /\ Len(InOrder({})) = 0
    BY <1>1, OrderSeq
  <1> QED
    BY <1>2, EmptySeq

\* What is behind a set in order does not move it.
LEMMA OrderPrefix ==
    ASSUME NEW S \in SUBSET Nat, NEW T \in SUBSET Nat, IsFiniteSet(T), S \subseteq T,
           \A i \in S : \A k \in T \ S : i < k
    PROVE  /\ IsFiniteSet(S) /\ Cardinality(S) <= Cardinality(T)
           /\ \A n \in 1 .. Cardinality(S) : InOrder(T)[n] = InOrder(S)[n]
  <1>1. IsFiniteSet(S) /\ Cardinality(S) <= Cardinality(T)
    BY FS_Subset
  <1>2. Cardinality(S) \in Nat /\ Cardinality(T) \in Nat
    BY <1>1, FS_CardinalityType
  <1>3. ASSUME NEW n \in 1 .. Cardinality(S)
        PROVE  InOrder(T)[n] = InOrder(S)[n]
    <2>1. InOrder(S)[n] \in S /\ Cardinality(Below(S, InOrder(S)[n])) = n - 1
      BY <1>1, Placed
    <2>2. ASSUME NEW i \in S  PROVE Below(T, i) = Below(S, i)
      <3>1. \A k \in T \ S : ~(k < i)
        OBVIOUS
      <3> QED
        BY <3>1 DEF Below
    <2>3. n \in 1 .. Cardinality(T)
      BY <1>1, <1>2
    <2>4. InOrder(S)[n] \in T /\ Cardinality(Below(T, InOrder(S)[n])) = n - 1
      BY <2>1, <2>2
    <2> QED
      BY <2>3, <2>4, Placed
  <1> QED
    BY <1>1, <1>3

LEMMA OrderAppend ==
    ASSUME NEW S \in SUBSET Nat, IsFiniteSet(S), NEW k \in Nat, \A i \in S : i < k
    PROVE  /\ IsFiniteSet(S \cup {k}) /\ Cardinality(S \cup {k}) = Cardinality(S) + 1
           /\ InOrder(S \cup {k}) = Append(InOrder(S), k)
  <1> DEFINE T == S \cup {k}
  <1>1. k \notin S /\ T \in SUBSET Nat
    OBVIOUS
  <1>2. IsFiniteSet(T) /\ Cardinality(T) = Cardinality(S) + 1 /\ Cardinality(S) \in Nat
    BY <1>1, FS_AddElement, FS_CardinalityType
  <1>3. \A n \in 1 .. Cardinality(S) : InOrder(T)[n] = InOrder(S)[n]
    <2>1. \A i \in S : \A j \in T \ S : i < j
      OBVIOUS
    <2> QED
      BY <1>1, <1>2, <2>1, OrderPrefix
  <1>4. InOrder(T)[Cardinality(S) + 1] = k
    <2>1. Below(T, k) = S
      <3>1. ~(k < k)
        OBVIOUS
      <3> QED
        BY <3>1 DEF Below
    <2>2. Cardinality(S) + 1 \in 1 .. Cardinality(T) /\ Cardinality(Below(T, k)) = (Cardinality(S) + 1) - 1
      BY <1>2, <2>1
    <2>3. k \in T
      OBVIOUS
    <2> HIDE DEF T
    <2> QED
      BY <1>1, <1>2, <2>2, <2>3, Placed
  <1>5. /\ InOrder(T) \in Seq(Nat) /\ Len(InOrder(T)) = Cardinality(S) + 1
        /\ InOrder(S) \in Seq(Nat) /\ Len(InOrder(S)) = Cardinality(S)
    BY <1>1, <1>2, OrderSeq
  <1>6. /\ Append(InOrder(S), k) \in Seq(Nat) /\ Len(Append(InOrder(S), k)) = Cardinality(S) + 1
        /\ \A n \in 1 .. Cardinality(S) : Append(InOrder(S), k)[n] = InOrder(S)[n]
        /\ Append(InOrder(S), k)[Cardinality(S) + 1] = k
    BY <1>5, AppendProperties
  <1>7. \A n \in 1 .. Cardinality(S) + 1 : InOrder(T)[n] = Append(InOrder(S), k)[n]
    <2>1. \A n \in 1 .. Cardinality(S) + 1 : n \in 1 .. Cardinality(S) \/ n = Cardinality(S) + 1
      BY <1>2
    <2> HIDE DEF T
    <2> QED
      BY <1>3, <1>4, <1>6, <2>1
  <1> HIDE DEF T
  <1>8. InOrder(T) = Append(InOrder(S), k)
    BY <1>5, <1>6, <1>7, SeqEqual
  <1> QED
    BY <1>2, <1>8 DEF T

LEMMA EndsFinite ==
    ASSUME NEW w, NEW m \in Int
    PROVE  /\ Ends(w, m) \in SUBSET Nat /\ IsFiniteSet(Ends(w, m))
           /\ Ends(w, m) \subseteq 1 .. m
           /\ Cardinality(Ends(w, m)) \in Nat
  <1>1. Ends(w, m) \subseteq 1 .. m
    BY DEF Ends
  <1>2. IsFiniteSet(1 .. m)
    BY FS_Interval
  <1>3. IsFiniteSet(Ends(w, m))
    BY <1>1, <1>2, FS_Subset
  <1> QED
    BY <1>1, <1>3, FS_CardinalityType

LEMMA PartsFinite ==
    ASSUME NEW w, NEW i \in Nat \ {0}
    PROVE  /\ Parts(w, i) \in SUBSET Nat /\ IsFiniteSet(Parts(w, i))
           /\ Parts(w, i) \subseteq 1 .. i
  <1>1. Parts(w, i) \subseteq 1 .. i
    BY DEF Parts
  <1>2. IsFiniteSet(1 .. i)
    BY FS_Interval
  <1>3. IsFiniteSet(Parts(w, i))
    BY <1>1, <1>2, FS_Subset
  <1> QED
    BY <1>1, <1>3

LEMMA MessagesSeq ==
    ASSUME NEW w, NEW m \in Int
    PROVE  /\ Messages(w, m) \in Seq(Seq(Nat))
           /\ Len(Messages(w, m)) = Cardinality(Ends(w, m))
           /\ Cardinality(Ends(w, m)) \in Nat
           /\ \A n \in 1 .. Cardinality(Ends(w, m)) :
                 /\ InOrder(Ends(w, m))[n] \in Ends(w, m)
                 /\ Messages(w, m)[n] = InOrder(Parts(w, InOrder(Ends(w, m))[n]))
  <1> DEFINE size == Cardinality(Ends(w, m))
             at(n) == InOrder(Parts(w, InOrder(Ends(w, m))[n]))
  <1>1. size \in Nat
    BY EndsFinite
  <1>2. Messages(w, m) = [n \in 1 .. size |-> at(n)]
    BY DEF Messages
  <1>3. ASSUME NEW n \in 1 .. size
        PROVE  InOrder(Ends(w, m))[n] \in Ends(w, m) /\ at(n) \in Seq(Nat)
    <2>1. InOrder(Ends(w, m))[n] \in Ends(w, m)
      BY EndsFinite, Placed
    <2>2. InOrder(Ends(w, m))[n] \in Nat \ {0}
      BY <2>1, EndsFinite
    <2> QED
      BY <2>1, <2>2, PartsFinite, OrderSeq
  <1>4. \A n \in 1 .. size : Messages(w, m)[n] = at(n)
    <2> HIDE DEF at
    <2> QED
      BY <1>2
  <1>5. Messages(w, m) \in [1 .. size -> Seq(Nat)]
    <2> HIDE DEF at
    <2> QED
      BY <1>2, <1>3
  <1>6. Messages(w, m) \in Seq(Seq(Nat))
    BY <1>1, <1>5
  <1>7. Len(Messages(w, m)) = size
    BY <1>1, <1>5, <1>6, LenProperties
  <1> QED
    BY <1>1, <1>3, <1>4, <1>6, <1>7

LEMMA MessagesNone ==
    ASSUME NEW w, NEW m \in Int, m <= 0
    PROVE  Messages(w, m) = <<>>
  <1>1. Ends(w, m) = {}
    BY DEF Ends
  <1>2. Cardinality(Ends(w, m)) = 0
    BY <1>1, FS_EmptySet
  <1> QED
    BY <1>2, MessagesSeq, EmptySeq

\* What a peer has said, it has said: later frames only add to it.
LEMMA MessagesPrefix ==
    ASSUME NEW w, NEW p \in Int, NEW m \in Int, p <= m
    PROVE  /\ Len(Messages(w, p)) <= Len(Messages(w, m))
           /\ \A n \in 1 .. Len(Messages(w, p)) : Messages(w, m)[n] = Messages(w, p)[n]
  <1>1. Ends(w, p) \subseteq Ends(w, m) /\ \A i \in Ends(w, p) : \A k \in Ends(w, m) \ Ends(w, p) : i < k
    BY DEF Ends
  <1>2. /\ Cardinality(Ends(w, p)) <= Cardinality(Ends(w, m))
        /\ \A n \in 1 .. Cardinality(Ends(w, p)) : InOrder(Ends(w, m))[n] = InOrder(Ends(w, p))[n]
    BY <1>1, EndsFinite, OrderPrefix
  <1>3. ASSUME NEW n \in 1 .. Len(Messages(w, p))  PROVE Messages(w, m)[n] = Messages(w, p)[n]
    <2>1. n \in 1 .. Cardinality(Ends(w, p))
      BY MessagesSeq
    <2>2. Cardinality(Ends(w, p)) \in Nat /\ Cardinality(Ends(w, m)) \in Nat
      BY EndsFinite
    <2>3. n \in 1 .. Cardinality(Ends(w, m))
      BY <1>2, <2>1, <2>2
    <2>4. InOrder(Ends(w, m))[n] = InOrder(Ends(w, p))[n]
      BY <1>2, <2>1
    <2>5. Messages(w, p)[n] = InOrder(Parts(w, InOrder(Ends(w, p))[n]))
      BY <2>1, MessagesSeq
    <2>6. Messages(w, m)[n] = InOrder(Parts(w, InOrder(Ends(w, m))[n]))
      BY <2>3, MessagesSeq
    <2> QED
      BY <2>4, <2>5, <2>6
  <1> QED
    BY <1>2, <1>3, MessagesSeq

\* One frame more is at most one message more.
LEMMA MessagesNext ==
    ASSUME NEW w, NEW m \in Nat
    PROVE  Messages(w, m + 1) =
              IF m + 1 \in Ends(w, m + 1)
              THEN Append(Messages(w, m), InOrder(Parts(w, m + 1))) ELSE Messages(w, m)
  <1>1. CASE m + 1 \notin Ends(w, m + 1)
    <2>1. Ends(w, m + 1) = Ends(w, m)
      BY <1>1 DEF Ends
    <2> QED
      BY <1>1, <2>1 DEF Messages
  <1>2. CASE m + 1 \in Ends(w, m + 1)
    <2> DEFINE S == Ends(w, m)
               T == Ends(w, m + 1)
               size == Cardinality(S)
               new == InOrder(Parts(w, m + 1))
    <2>1. T = S \cup {m + 1} /\ \A i \in S : i < m + 1
      BY <1>2 DEF Ends
    <2>2. S \in SUBSET Nat /\ IsFiniteSet(S) /\ size \in Nat
      BY EndsFinite
    <2>3. Cardinality(T) = size + 1 /\ InOrder(T) = Append(InOrder(S), m + 1)
      <3>1. m + 1 \in Nat
        OBVIOUS
      <3> QED
        BY <2>1, <2>2, <3>1, OrderAppend
    <2>4. InOrder(S) \in Seq(Nat) /\ Len(InOrder(S)) = size
      BY <2>2, OrderSeq
    <2>5. /\ \A n \in 1 .. size : InOrder(T)[n] = InOrder(S)[n]
          /\ InOrder(T)[size + 1] = m + 1
      BY <2>3, <2>4, AppendProperties
    <2>6. /\ Messages(w, m + 1) \in Seq(Seq(Nat)) /\ Len(Messages(w, m + 1)) = size + 1
          /\ Messages(w, m) \in Seq(Seq(Nat)) /\ Len(Messages(w, m)) = size
      BY <2>3, MessagesSeq
    <2>7. new \in Seq(Nat)
      BY PartsFinite, OrderSeq
    <2>8. ASSUME NEW n \in 1 .. size + 1
          PROVE  Messages(w, m + 1)[n] = Append(Messages(w, m), new)[n]
      <3>1. n \in 1 .. Cardinality(T)
        BY <2>3
      <3>2. Messages(w, m + 1)[n] = InOrder(Parts(w, InOrder(T)[n]))
        BY <3>1, MessagesSeq
      <3>3. CASE n \in 1 .. size
        <4>1. Messages(w, m)[n] = InOrder(Parts(w, InOrder(S)[n]))
          BY <3>3, MessagesSeq
        <4>2. Append(Messages(w, m), new)[n] = Messages(w, m)[n]
          BY <2>6, <2>7, <3>3, AppendProperties
        <4> QED
          BY <2>5, <3>2, <3>3, <4>1, <4>2
      <3>4. CASE n = size + 1
        <4>1. Append(Messages(w, m), new)[n] = new
          BY <2>6, <2>7, <3>4, AppendProperties
        <4> QED
          BY <2>5, <3>2, <3>4, <4>1
      <3>5. n \in 1 .. size \/ n = size + 1
        <4> HIDE DEF size
        <4> QED
          BY <2>2
      <3> QED
        BY <3>3, <3>4, <3>5
    <2>9. Append(Messages(w, m), new) \in Seq(Seq(Nat)) /\ Len(Append(Messages(w, m), new)) = size + 1
      BY <2>6, <2>7, AppendProperties
    <2> HIDE DEF new, S, T, size
    <2>10. Messages(w, m + 1) = Append(Messages(w, m), new)
      BY <2>6, <2>8, <2>9, SeqEqual
    <2> QED
      BY <1>2, <2>10 DEF new
  <1> QED
    BY <1>1, <1>2

\* Only the frames that are counted matter.
LEMMA MessagesLocal ==
    ASSUME NEW w, NEW v, NEW m \in Int, \A i \in 1 .. m : w[i] = v[i]
    PROVE  /\ \A i \in Int : i <= m => (Proper(w, i) <=> Proper(v, i))
           /\ Messages(w, m) = Messages(v, m)
  <1>1. ASSUME NEW i \in Int, i <= m + 1  PROVE Unfinished(w, i) <=> Unfinished(v, i)
    <2>1. \A j \in 1 .. i - 1 : w[j] = v[j] /\ \A k \in j .. i - 1 : w[k] = v[k]
      BY <1>1
    <2> QED
      BY <2>1 DEF Unfinished
  <1>2. ASSUME NEW i \in Int, i <= m  PROVE Proper(w, i) <=> Proper(v, i)
    <2>1. \A j \in 1 .. i : w[j] = v[j] /\ (Unfinished(w, j) <=> Unfinished(v, j))
      BY <1>1, <1>2
    <2> QED
      BY <2>1 DEF Proper
  <1>3. ASSUME NEW i \in 1 .. m  PROVE Parts(w, i) = Parts(v, i)
    <2>1. w[i] = v[i] /\ \A j \in 1 .. i : w[j] = v[j] /\ \A k \in j .. i - 1 : w[k] = v[k]
      BY <1>3
    <2> QED
      BY <2>1 DEF Parts
  <1>4. Ends(w, m) = Ends(v, m)
    <2>1. \A i \in 1 .. m : w[i] = v[i] /\ (Proper(w, i) <=> Proper(v, i))
      BY <1>2
    <2> QED
      BY <2>1 DEF Ends
  <1>5. ASSUME NEW n \in 1 .. Cardinality(Ends(w, m))
        PROVE  Messages(w, m)[n] = Messages(v, m)[n]
    <2>1. InOrder(Ends(w, m))[n] \in 1 .. m
      BY <1>5, MessagesSeq, EndsFinite
    <2> QED
      BY <1>3, <1>4, <2>1, MessagesSeq
  <1>6. /\ Messages(w, m) \in Seq(Seq(Nat)) /\ Messages(v, m) \in Seq(Seq(Nat))
        /\ Len(Messages(w, m)) = Cardinality(Ends(w, m)) /\ Len(Messages(v, m)) = Cardinality(Ends(w, m))
    BY <1>4, MessagesSeq
  <1>7. Messages(w, m) = Messages(v, m)
    BY <1>5, <1>6, SeqEqual
  <1> QED
    BY <1>2, <1>7

\* The parts of the unfinished message in the first p frames.
Loose(w, p) == {j \in 1 .. p : w[j] \in {"start", "cont"} /\ \A k \in j .. p : w[k] # "end"}

LEMMA LooseFinite ==
    ASSUME NEW w, NEW p \in Nat
    PROVE  /\ Loose(w, p) \in SUBSET Nat /\ IsFiniteSet(Loose(w, p))
           /\ \A i \in Loose(w, p) : i < p + 1
  <1>1. Loose(w, p) \subseteq 1 .. p
    BY DEF Loose
  <1>2. IsFiniteSet(1 .. p)
    BY FS_Interval
  <1>3. IsFiniteSet(Loose(w, p))
    BY <1>1, <1>2, FS_Subset
  <1> QED
    BY <1>1, <1>3

LEMMA LooseUnfinished ==
    ASSUME NEW w, NEW p \in Nat, Proper(w, p)
    PROVE  Loose(w, p) = {} <=> ~Unfinished(w, p + 1)
  <1>1. ASSUME Unfinished(w, p + 1)  PROVE Loose(w, p) # {}
    <2>1. PICK j \in 1 .. p : w[j] = "start" /\ \A k \in j .. p : w[k] # "end"
      <3>1. (p + 1) - 1 = p
        OBVIOUS
      <3> QED
        BY <1>1, <3>1 DEF Unfinished
    <2> QED
      BY <2>1 DEF Loose
  <1>2. ASSUME NEW i \in Loose(w, p)  PROVE Unfinished(w, p + 1)
    <2>1. i \in 1 .. p /\ w[i] \in {"start", "cont"} /\ \A k \in i .. p : w[k] # "end"
      BY <1>2 DEF Loose
    <2>2. CASE w[i] = "start"
      <3>1. i \in 1 .. (p + 1) - 1 /\ \A k \in i .. (p + 1) - 1 : w[k] # "end"
        BY <2>1
      <3> QED
        BY <2>2, <3>1 DEF Unfinished
    <2>3. CASE w[i] = "cont"
      <3>1. Unfinished(w, i)
        BY <2>1, <2>3 DEF Proper
      <3>2. PICK j \in 1 .. i - 1 : w[j] = "start" /\ \A k \in j .. i - 1 : w[k] # "end"
        BY <3>1 DEF Unfinished
      <3>3. \A k \in j .. (p + 1) - 1 : k \in j .. i - 1 \/ k \in i .. p
        BY <2>1, <3>2
      <3>4. j \in 1 .. (p + 1) - 1 /\ \A k \in j .. (p + 1) - 1 : w[k] # "end"
        BY <2>1, <3>2, <3>3
      <3> QED
        BY <3>2, <3>4 DEF Unfinished
    <2> QED
      BY <2>1, <2>2, <2>3
  <1> QED
    BY <1>1, <1>2

LEMMA LooseNext ==
    ASSUME NEW w, NEW p \in Nat
    PROVE  /\ w[p + 1] \in {"start", "cont"} => Loose(w, p + 1) = Loose(w, p) \cup {p + 1}
           /\ w[p + 1] = "end" => /\ Loose(w, p + 1) = {}
                                  /\ Parts(w, p + 1) = Loose(w, p) \cup {p + 1}
           /\ w[p + 1] \notin {"start", "cont", "end"} => Loose(w, p + 1) = Loose(w, p)
  <1>1. \A j \in 1 .. p + 1 : j \in 1 .. p \/ j = p + 1
    OBVIOUS
  <1>2. ASSUME NEW j \in 1 .. p
        PROVE  (\A k \in j .. p + 1 : w[k] # "end") <=> (\A k \in j .. p : w[k] # "end") /\ w[p + 1] # "end"
    <2>1. /\ \A k \in j .. p + 1 : k \in j .. p \/ k = p + 1
          /\ \A k \in j .. p : k \in j .. p + 1
          /\ p + 1 \in j .. p + 1
      OBVIOUS
    <2> QED
      BY <2>1
  <1>3. \A k \in p + 1 .. p + 1 : k = p + 1
    OBVIOUS
  <1>4. 1 .. p \subseteq 1 .. p + 1 /\ p + 1 \in 1 .. p + 1 /\ p + 1 \notin 1 .. p /\ p + 1 \in p + 1 .. p + 1
    OBVIOUS
  <1>5. ASSUME w[p + 1] \in {"start", "cont"}  PROVE Loose(w, p + 1) = Loose(w, p) \cup {p + 1}
    <2>1. \A j \in Loose(w, p + 1) : j \in Loose(w, p) \/ j = p + 1
      BY <1>1, <1>2 DEF Loose
    <2>2. \A j \in Loose(w, p) : j \in Loose(w, p + 1)
      BY <1>2, <1>4, <1>5 DEF Loose
    <2>3. p + 1 \in Loose(w, p + 1)
      BY <1>3, <1>4, <1>5 DEF Loose
    <2> QED
      BY <2>1, <2>2, <2>3
  <1>6. ASSUME w[p + 1] = "end"  PROVE Loose(w, p + 1) = {}
    BY <1>1, <1>2, <1>6 DEF Loose
  <1>7. ASSUME w[p + 1] = "end"  PROVE Parts(w, p + 1) = Loose(w, p) \cup {p + 1}
    <2>1. (p + 1) - 1 = p
      OBVIOUS
    <2>2. Parts(w, p + 1) = {j \in 1 .. p + 1 : /\ w[j] \in {"start", "cont", "end"}
                                                /\ \A k \in j .. p : w[k] # "end"}
      BY <1>7, <2>1 DEF Parts
    <2>3. \A j \in 1 .. p : j \in j .. p
      OBVIOUS
    <2>4. \A k \in p + 1 .. p : FALSE
      OBVIOUS
    <2>5. \A j \in Parts(w, p + 1) : j \in Loose(w, p) \/ j = p + 1
      BY <1>1, <2>2, <2>3 DEF Loose
    <2>6. \A j \in Loose(w, p) : j \in Parts(w, p + 1)
      BY <1>4, <2>2 DEF Loose
    <2>7. p + 1 \in Parts(w, p + 1)
      BY <1>4, <1>7, <2>2, <2>4
    <2> QED
      BY <2>5, <2>6, <2>7
  <1>8. ASSUME w[p + 1] \notin {"start", "cont", "end"}  PROVE Loose(w, p + 1) = Loose(w, p)
    <2>1. \A j \in Loose(w, p + 1) : j \in Loose(w, p)
      BY <1>1, <1>2, <1>8 DEF Loose
    <2>2. \A j \in Loose(w, p) : j \in Loose(w, p + 1)
      BY <1>2, <1>4, <1>8 DEF Loose
    <2> QED
      BY <2>1, <2>2
  <1> QED
    BY <1>5, <1>6, <1>7, <1>8

LEMMA ProperNext ==
    ASSUME NEW w, NEW p \in Nat
    PROVE  Proper(w, p + 1) <=> /\ Proper(w, p)
                                /\ w[p + 1] # "bad"
                                /\ w[p + 1] \in {"text", "start"} => ~Unfinished(w, p + 1)
                                /\ w[p + 1] \in {"cont", "end"} => Unfinished(w, p + 1)
  <1>1. /\ \A j \in 1 .. p + 1 : j \in 1 .. p \/ j = p + 1
        /\ \A j \in 1 .. p : j \in 1 .. p + 1
        /\ p + 1 \in 1 .. p + 1
    OBVIOUS
  <1> QED
    BY <1>1 DEF Proper

\* What a frame in its place adds to the unfinished message, or makes whole.
LEMMA FrameInPlace ==
    ASSUME NEW w, NEW p \in Nat, Proper(w, p), w[p + 1] \in {"text", "start", "cont", "end"},
           IF Loose(w, p) = {} THEN w[p + 1] \notin {"cont", "end"}
                               ELSE w[p + 1] \notin {"text", "start"}
    PROVE  /\ Proper(w, p + 1)
           /\ IF w[p + 1] \in {"text", "end"}
              THEN /\ Messages(w, p + 1) = Append(Messages(w, p), Append(InOrder(Loose(w, p)), p + 1))
                   /\ Loose(w, p + 1) = {}
              ELSE /\ Messages(w, p + 1) = Messages(w, p)
                   /\ InOrder(Loose(w, p + 1)) = Append(InOrder(Loose(w, p)), p + 1)
  <1>1. Proper(w, p + 1)
    BY ProperNext, LooseUnfinished
  <1>2. p + 1 \in Nat /\ p + 1 \in 1 .. p + 1
    OBVIOUS
  <1>3. InOrder(Loose(w, p) \cup {p + 1}) = Append(InOrder(Loose(w, p)), p + 1)
    BY <1>2, LooseFinite, OrderAppend
  <1>4. p + 1 \in Ends(w, p + 1) <=> w[p + 1] \in {"text", "end"}
    BY <1>1, <1>2 DEF Ends
  <1>5. CASE w[p + 1] = "text"
    <2>1. Loose(w, p) = {} /\ Loose(w, p + 1) = {}
      BY <1>5, LooseNext
    <2>2. Parts(w, p + 1) = Loose(w, p) \cup {p + 1}
      BY <1>5, <2>1 DEF Parts
    <2> QED
      BY <1>1, <1>3, <1>4, <1>5, <2>1, <2>2, MessagesNext
  <1>6. CASE w[p + 1] = "end"
    <2>1. Loose(w, p + 1) = {} /\ Parts(w, p + 1) = Loose(w, p) \cup {p + 1}
      BY <1>6, LooseNext
    <2> QED
      BY <1>1, <1>3, <1>4, <1>6, <2>1, MessagesNext
  <1>7. CASE w[p + 1] \in {"start", "cont"}
    <2>1. Loose(w, p + 1) = Loose(w, p) \cup {p + 1}
      BY <1>7, LooseNext
    <2>2. Messages(w, p + 1) = Messages(w, p)
      BY <1>4, <1>7, MessagesNext
    <2> QED
      BY <1>1, <1>3, <1>7, <2>1, <2>2
  <1> QED
    BY <1>5, <1>6, <1>7

LEMMA ControlFrame ==
    ASSUME NEW w, NEW p \in Nat, Proper(w, p), w[p + 1] \in {"ping", "close"}
    PROVE  /\ Proper(w, p + 1)
           /\ Messages(w, p + 1) = Messages(w, p)
           /\ Loose(w, p + 1) = Loose(w, p)
  <1>1. Proper(w, p + 1)
    BY ProperNext
  <1>2. p + 1 \notin Ends(w, p + 1)
    BY DEF Ends
  <1> QED
    BY <1>1, <1>2, MessagesNext, LooseNext
-----------------------------------------------------------------------------
(* What has come from a peer, used and not used, is what it has sent, and  *)
(* the parser keeps of it what is not whole.                               *)

\* The units of a client have one number each, and follow one another by it.  (The
\* first that an open connection brings has number 4.)
Rank(u) == 3 * u[1] + u[2]
Follow(s, n, r) == \A i \in 1 .. n : s[i][2] \in 1 .. 3 /\ Rank(s[i]) = r + i

LastRank(c) == IF wire[c] = <<>> THEN 3 ELSE Rank(sent[c])
UsedRank(c, p) == 3 * (p + 1) + (3 - need[c])
Arrived(c) == IF Cut(c) THEN Len(inbox[c]) - 1 ELSE Len(inbox[c])

\* Client c is connected, or the block that came with its end is still in work.
Live(c) == conn[c] = "open" \/ (turn = c /\ pc = "parse")

\* The application has been given a message, and the parser has it still.
Given == stack # <<>> /\ stack[1] = "message"

\* p frames are used: what is left of them is all that has come since, without a gap.
Taken(c, p) ==
    /\ Follow(data[c], Len(data[c]), UsedRank(c, p))
    /\ UsedRank(c, p) + Len(data[c]) <= LastRank(c)
    /\ conn[c] = "open" => /\ Follow(inbox[c], Arrived(c), UsedRank(c, p) + Len(data[c]))
                           /\ UsedRank(c, p) + Len(data[c]) + Arrived(c) = LastRank(c)

\* All were in their places, and those of the unfinished message are kept.
Kept(c, p) ==
    /\ need[c] = 2 => wire[c][p + 1] # "bad"
    /\ Proper(wire[c], p)
    /\ IF turn = c /\ Given THEN Loose(wire[c], p) = {}
                            ELSE payload[c] = InOrder(Loose(wire[c], p))

Stream(c) ==
    \E p \in Nat : /\ p = 0 \/ p <= Whole(c)
                   /\ heard[c] = Messages(wire[c], p)
                   /\ Live(c) => Taken(c, p) /\ Kept(c, p)

Greeted(c) ==
    /\ conn[c] \in {"none", "tls", "hello"} =>
          wire[c] = <<>> /\ need[c] = 3 /\ payload[c] = <<>> /\ heard[c] = <<>>
    /\ sent[c][1] = Len(wire[c])
    /\ sent[c][2] \in IF wire[c] = <<>> THEN 0 .. 2 ELSE 1 .. 3

Parses ==
    /\ pc = "parse" => turn \in Clients /\ conn[turn] \in {"open", "closed"}
    /\ Given => pc = "parse"

Streams == \A c \in Clients : Greeted(c) /\ Stream(c)

PeerInv == TypeOK /\ InTurn /\ Parses /\ Streams

LEMMA StreamsInit == Init => Parses /\ Streams
  <1> SUFFICES ASSUME Init  PROVE Parses /\ Streams
    OBVIOUS
  <1>1. Parses
    BY DEF Init, Parses, Given
  <1>2. ASSUME NEW c \in Clients  PROVE Greeted(c) /\ Stream(c)
    <2>1. /\ wire[c] = <<>> /\ sent[c] = <<0, 0>> /\ conn[c] = "none" /\ need[c] = 3
          /\ payload[c] = <<>> /\ heard[c] = <<>> /\ pc = "idle"
      BY DEF Init
    <2>2. Len(<<>>) = 0
      OBVIOUS
    <2>3. Greeted(c)
      BY <2>1, <2>2 DEF Greeted
    <2>4. Messages(wire[c], 0) = <<>>
      BY MessagesNone
    <2> QED
      BY <2>1, <2>3, <2>4 DEF Stream, Live
  <1> QED
    BY <1>1, <1>2 DEF Streams

\* A client before its connection is open.
LEMMA StreamFresh ==
    ASSUME NEW c \in Clients, Parses', Greeted(c)', conn'[c] \in {"none", "tls", "hello"}
    PROVE  Stream(c)'
  <1>1. wire'[c] = <<>> /\ heard'[c] = <<>> /\ ~Live(c)'
    BY DEF Greeted, Live, Parses
  <1>2. Messages(wire'[c], 0) = <<>>
    BY MessagesNone
  <1> QED
    BY <1>1, <1>2 DEF Stream

\* A client that a step leaves as it is, or lets go.
LEMMA StreamKept ==
    ASSUME NEW c \in Clients, Stream(c),
           wire'[c] = wire[c], sent'[c] = sent[c], heard'[c] = heard[c],
           Live(c)' => /\ Live(c)
                       /\ data'[c] = data[c] /\ need'[c] = need[c] /\ payload'[c] = payload[c]
                       /\ conn'[c] = "open" => conn[c] = "open" /\ inbox'[c] = inbox[c]
                       /\ (turn = c /\ Given)' <=> (turn = c /\ Given)
    PROVE  Stream(c)'
  <1>1. PICK p \in Nat : /\ p = 0 \/ p <= Whole(c)
                         /\ heard[c] = Messages(wire[c], p)
                         /\ Live(c) => Taken(c, p) /\ Kept(c, p)
    BY DEF Stream
  <1>2. Whole(c)' = Whole(c) /\ heard'[c] = Messages(wire'[c], p)
    BY <1>1 DEF Whole
  <1>3. ASSUME Live(c)'  PROVE Taken(c, p)'
    BY <1>1, <1>3 DEF Taken, UsedRank, LastRank, Arrived, Cut
  <1>4. ASSUME Live(c)'  PROVE Kept(c, p)'
    BY <1>1, <1>4 DEF Kept
  <1> QED
    BY <1>1, <1>2, <1>3, <1>4 DEF Stream

LEMMA GreetedKept ==
    ASSUME NEW c \in Clients, Greeted(c), wire'[c] = wire[c], sent'[c] = sent[c],
           conn'[c] \in {"none", "tls", "hello"} =>
              /\ conn[c] \in {"none", "tls", "hello"}
              /\ need'[c] = need[c] /\ heard'[c] = heard[c] /\ payload'[c] \in {payload[c], <<>>}
    PROVE  Greeted(c)'
  BY DEF Greeted

LEMMA RankArithmetic ==
    ASSUME NEW p \in Nat, NEW n \in {2, 3}, NEW d \in Nat, NEW len \in Nat, NEW k \in 0 .. 3,
           len = 0 => k # 3,
           3 * (p + 1) + (3 - n) + d <= IF len = 0 THEN 3 ELSE 3 * len + k
    PROVE  /\ p = 0 \/ p <= IF k = 3 THEN len ELSE len - 1
           /\ n = 2 => p + 1 <= len
           /\ d >= n => p + 1 <= IF k = 3 THEN len ELSE len - 1
           /\ d >= 1 => p + 1 <= len
  <1>1. CASE len = 0
    BY <1>1
  <1>2. CASE len # 0 /\ k = 3
    BY <1>2
  <1>3. CASE len # 0 /\ k # 3
    BY <1>3
  <1> QED
    BY <1>1, <1>2, <1>3

LEMMA RankUnique ==
    ASSUME NEW i \in Nat, NEW j \in Nat, NEW k \in 1 .. 3, NEW l \in 1 .. 3, 3 * i + k = 3 * j + l
    PROVE  i = j /\ k = l
  OBVIOUS

\* What p frames are used means for their numbers.
LEMMA TakenBounds ==
    ASSUME TypeOK, NEW c \in Clients, NEW p \in Nat, Greeted(c), Taken(c, p)
    PROVE  /\ need[c] \in {2, 3} /\ Len(data[c]) \in Nat /\ Len(wire[c]) \in Nat
           /\ Whole(c) \in Int /\ Whole(c) <= Len(wire[c])
           /\ p = 0 \/ p <= Whole(c)
           /\ need[c] = 2 => p + 1 <= Len(wire[c])
           /\ data[c] # <<>> => /\ Head(data[c])[1] = p + 1 /\ Head(data[c]) = data[c][1]
                                /\ p + 1 <= Len(wire[c])
           /\ Len(data[c]) >= need[c] => p + 1 <= Whole(c)
  <1>1. /\ need[c] \in {2, 3} /\ Len(data[c]) \in Nat /\ Len(wire[c]) \in Nat
        /\ data[c] \in Seq(Units) /\ wire[c] \in Seq(Kinds) /\ sent[c] \in Units
    BY LenProperties DEF TypeOK
  <1>2. sent[c][1] = Len(wire[c]) /\ sent[c][2] \in 0 .. 3
    BY <1>1, UnitFacts DEF Greeted
  <1>3. wire[c] = <<>> <=> Len(wire[c]) = 0
    BY <1>1, EmptySeq
  <1>4. LastRank(c) = IF Len(wire[c]) = 0 THEN 3 ELSE 3 * Len(wire[c]) + sent[c][2]
    BY <1>2, <1>3 DEF LastRank, Rank
  <1>5. LastRank(c) \in Nat /\ LastRank(c) <= 3 * Len(wire[c]) + 3
    BY <1>1, <1>2, <1>4
  <1>6. UsedRank(c, p) = 3 * (p + 1) + (3 - need[c]) /\ UsedRank(c, p) + Len(data[c]) <= LastRank(c)
    BY DEF Taken, UsedRank
  <1>7. Whole(c) = IF sent[c][2] = 3 THEN Len(wire[c]) ELSE Len(wire[c]) - 1
    BY DEF Whole
  <1>8. Len(wire[c]) = 0 => sent[c][2] # 3
    BY <1>3 DEF Greeted
  <1>9. 3 * (p + 1) + (3 - need[c]) + Len(data[c])
           <= IF Len(wire[c]) = 0 THEN 3 ELSE 3 * Len(wire[c]) + sent[c][2]
    BY <1>4, <1>6
  <1>10. /\ p = 0 \/ p <= Whole(c)
         /\ need[c] = 2 => p + 1 <= Len(wire[c])
         /\ Len(data[c]) >= need[c] => p + 1 <= Whole(c)
         /\ Len(data[c]) >= 1 => p + 1 <= Len(wire[c])
    <2> DEFINE n == need[c]
               d == Len(data[c])
               len == Len(wire[c])
               k == sent[c][2]
    <2>1. n \in {2, 3} /\ d \in Nat /\ len \in Nat /\ k \in 0 .. 3 /\ (len = 0 => k # 3)
      BY <1>1, <1>2, <1>8
    <2>2. 3 * (p + 1) + (3 - n) + d <= IF len = 0 THEN 3 ELSE 3 * len + k
      BY <1>9
    <2>3. Whole(c) = IF k = 3 THEN len ELSE len - 1
      BY <1>7
    <2> HIDE DEF n, d, len, k
    <2>4. /\ p = 0 \/ p <= Whole(c)
          /\ n = 2 => p + 1 <= len
          /\ d >= n => p + 1 <= Whole(c)
          /\ d >= 1 => p + 1 <= len
      BY <2>1, <2>2, <2>3, RankArithmetic
    <2> QED
      BY <2>4 DEF n, d, len, k
  <1>12. ASSUME data[c] # <<>>
         PROVE  Head(data[c])[1] = p + 1 /\ Head(data[c]) = data[c][1] /\ p + 1 <= Len(wire[c])
    <2>1. Len(data[c]) # 0 /\ 1 \in 1 .. Len(data[c])
      BY <1>1, <1>12, EmptySeq
    <2>2. data[c][1][2] \in 1 .. 3 /\ Rank(data[c][1]) = UsedRank(c, p) + 1
      BY <2>1 DEF Taken, Follow
    <2>3. data[c][1] \in Units /\ data[c][1][1] \in Nat
      BY <1>1, <2>1, ElementOfSeq, UnitFacts
    <2>4. 3 * data[c][1][1] + data[c][1][2] = 3 * (p + 1) + (3 - need[c]) + 1
      BY <1>6, <2>2 DEF Rank
    <2>5. data[c][1][1] = p + 1
      <3>1. (3 - need[c]) + 1 \in 1 .. 3 /\ p + 1 \in Nat
        BY <1>1
      <3>2. 3 * data[c][1][1] + data[c][1][2] = 3 * (p + 1) + ((3 - need[c]) + 1)
        BY <1>1, <2>4
      <3> QED
        BY <2>2, <2>3, <3>1, <3>2, RankUnique
    <2>6. Head(data[c]) = data[c][1]
      BY <1>12
    <2>7. p + 1 <= Len(wire[c])
      BY <1>1, <1>10, <2>1
    <2> QED
      BY <2>5, <2>6, <2>7
  <1>13. Whole(c) \in Int /\ Whole(c) <= Len(wire[c])
    BY <1>1, <1>7
  <1> QED
    BY <1>1, <1>10, <1>12, <1>13

LEMMA RankType ==
    ASSUME NEW unit \in Units
    PROVE  Rank(unit) \in Nat /\ unit[1] \in Nat /\ unit[2] \in 0 .. 3
  BY UnitFacts DEF Units, Rank

LEMMA TakenTypes ==
    ASSUME TypeOK, NEW c \in Clients, NEW p \in Nat
    PROVE  /\ UsedRank(c, p) \in Nat /\ LastRank(c) \in Nat
           /\ data[c] \in Seq(Units) /\ Len(data[c]) \in Nat
           /\ inbox[c] \in Seq(Units) /\ Len(inbox[c]) \in Nat
           /\ wire[c] \in Seq(Kinds) /\ Len(wire[c]) \in Nat
           /\ Arrived(c) \in Nat /\ Arrived(c) <= Len(inbox[c])
  <1>1. /\ data[c] \in Seq(Units) /\ Len(data[c]) \in Nat
        /\ inbox[c] \in Seq(Units) /\ Len(inbox[c]) \in Nat
        /\ wire[c] \in Seq(Kinds) /\ Len(wire[c]) \in Nat
        /\ need[c] \in {2, 3} /\ sent[c] \in Units
    BY LenProperties DEF TypeOK
  <1>2. inbox[c] # <<>> => Len(inbox[c]) # 0
    BY <1>1, EmptySeq
  <1>3. Arrived(c) \in Nat /\ Arrived(c) <= Len(inbox[c])
    BY <1>1, <1>2 DEF Arrived, Cut
  <1>4. LastRank(c) \in Nat
    BY <1>1, RankType DEF LastRank
  <1>5. UsedRank(c, p) \in Nat
    BY <1>1 DEF UsedRank
  <1> QED
    BY <1>1, <1>3, <1>4, <1>5

\* One unit more arrives.
LEMMA TakenArrives ==
    ASSUME TypeOK, NEW c \in Clients, NEW p \in Nat, Taken(c, p), conn[c] = "open", ~Cut(c),
           NEW unit \in Units, Arrives(c, unit), unit[2] \in 1 .. 3,
           Rank(unit) = LastRank(c) + 1, LastRank(c)' = LastRank(c) + 1
    PROVE  Taken(c, p)'
  <1>1. /\ data'[c] = data[c] /\ need'[c] = need[c] /\ conn'[c] = "open"
        /\ inbox'[c] = Append(inbox[c], unit)
    BY DEF Arrives, TypeOK, parser
  <1>2. /\ UsedRank(c, p) \in Nat /\ LastRank(c) \in Nat /\ Len(data[c]) \in Nat
        /\ inbox[c] \in Seq(Units) /\ Len(inbox[c]) \in Nat
    BY TakenTypes
  <1>3. /\ Append(inbox[c], unit) \in Seq(Units) /\ Append(inbox[c], unit) # <<>>
        /\ Len(Append(inbox[c], unit)) = Len(inbox[c]) + 1
        /\ \A i \in 1 .. Len(inbox[c]) : Append(inbox[c], unit)[i] = inbox[c][i]
        /\ Append(inbox[c], unit)[Len(inbox[c]) + 1] = unit
    BY <1>2, AppendProperties
  <1>4. Arrived(c) = Len(inbox[c]) /\ Arrived(c)' = Len(inbox[c]) + 1
    <2>1. unit # End
      BY DEF End
    <2>2. ~Cut(c)'
      BY <1>1, <1>3, <2>1 DEF Cut, Last
    <2> QED
      BY <1>1, <1>3, <2>2 DEF Arrived
  <1>5. UsedRank(c, p)' = UsedRank(c, p)
    BY <1>1 DEF UsedRank
  <1>6. UsedRank(c, p) + Len(data[c]) + Len(inbox[c]) = LastRank(c)
    BY <1>4 DEF Taken
  <1>7. Follow(inbox'[c], Len(inbox[c]) + 1, UsedRank(c, p) + Len(data[c]))
    <2>1. Follow(inbox[c], Len(inbox[c]), UsedRank(c, p) + Len(data[c]))
      BY <1>4 DEF Taken
    <2>2. \A i \in 1 .. Len(inbox[c]) + 1 : i \in 1 .. Len(inbox[c]) \/ i = Len(inbox[c]) + 1
      BY <1>2
    <2>3. Rank(unit) = UsedRank(c, p) + Len(data[c]) + (Len(inbox[c]) + 1)
      <3> DEFINE r == UsedRank(c, p)
                 a == Len(data[c])
                 b == Len(inbox[c])
                 l == LastRank(c)
                 u == Rank(unit)
      <3>1. r \in Nat /\ a \in Nat /\ b \in Nat /\ l \in Nat /\ r + a + b = l /\ u = l + 1
        BY <1>2, <1>6
      <3> HIDE DEF r, a, b, l, u
      <3>2. u = r + a + (b + 1)
        BY <3>1
      <3> QED
        BY <3>2 DEF r, a, b, u
    <2>4. ASSUME NEW i \in 1 .. Len(inbox[c]) + 1
          PROVE  inbox'[c][i][2] \in 1 .. 3 /\ Rank(inbox'[c][i]) = UsedRank(c, p) + Len(data[c]) + i
      <3>1. CASE i \in 1 .. Len(inbox[c])
        BY <1>1, <1>3, <2>1, <3>1 DEF Follow
      <3>2. CASE i = Len(inbox[c]) + 1
        BY <1>1, <1>3, <2>3, <3>2
      <3> QED
        BY <2>2, <3>1, <3>2
    <2> QED
      BY <2>4 DEF Follow
  <1>8. /\ UsedRank(c, p) + Len(data[c]) <= LastRank(c) + 1
        /\ UsedRank(c, p) + Len(data[c]) + (Len(inbox[c]) + 1) = LastRank(c) + 1
    <2> DEFINE r == UsedRank(c, p)
               a == Len(data[c])
               b == Len(inbox[c])
               l == LastRank(c)
    <2>1. r \in Nat /\ a \in Nat /\ b \in Nat /\ l \in Nat /\ r + a + b = l
      BY <1>2, <1>6
    <2> HIDE DEF r, a, b, l
    <2>2. r + a <= l + 1 /\ r + a + (b + 1) = l + 1
      BY <2>1
    <2> QED
      BY <2>2 DEF r, a, b, l
  <1> QED
    BY <1>1, <1>4, <1>5, <1>7, <1>8 DEF Taken

\* The parser has used n units.
LEMMA TakenUse ==
    ASSUME TypeOK, NEW c \in Clients, NEW p \in Nat, NEW q \in Nat, Taken(c, p),
           NEW n \in Nat, n <= Len(data[c]),
           data'[c] = SubSeq(data[c], n + 1, Len(data[c])), UsedRank(c, q)' = UsedRank(c, p) + n,
           wire'[c] = wire[c], sent'[c] = sent[c],
           conn'[c] = "open" => conn[c] = "open" /\ inbox'[c] = inbox[c]
    PROVE  Taken(c, q)'
  <1>1. /\ UsedRank(c, p) \in Nat /\ LastRank(c) \in Nat
        /\ data[c] \in Seq(Units) /\ Len(data[c]) \in Nat
        /\ \A i \in n + 1 .. Len(data[c]) : data[c][i] \in Units
    <2>1. /\ UsedRank(c, p) \in Nat /\ LastRank(c) \in Nat
          /\ data[c] \in Seq(Units) /\ Len(data[c]) \in Nat
      BY TakenTypes
    <2>2. n + 1 .. Len(data[c]) \subseteq 1 .. Len(data[c])
      BY <2>1
    <2> QED
      BY <2>1, <2>2, ElementOfSeq
  <1>2. /\ Len(data'[c]) = Len(data[c]) - n
        /\ \A i \in 1 .. Len(data[c]) - n : data'[c][i] = data[c][n + i]
    <2>1. /\ Len(data'[c]) = IF n + 1 <= Len(data[c]) THEN Len(data[c]) - (n + 1) + 1 ELSE 0
          /\ \A i \in 1 .. Len(data[c]) - (n + 1) + 1 : data'[c][i] = data[c][(n + 1) + i - 1]
      BY <1>1, SubSeqProperties
    <2>2. Len(data[c]) - (n + 1) + 1 = Len(data[c]) - n /\ \A i \in Int : (n + 1) + i - 1 = n + i
      BY <1>1
    <2> QED
      BY <1>1, <2>1, <2>2
  <1>3. Follow(data'[c], Len(data'[c]), UsedRank(c, q)')
    <2>1. ASSUME NEW i \in 1 .. Len(data[c]) - n
          PROVE  data'[c][i][2] \in 1 .. 3 /\ Rank(data'[c][i]) = UsedRank(c, p) + n + i
      <3>1. n + i \in 1 .. Len(data[c])
        BY <1>1
      <3>2. data[c][n + i][2] \in 1 .. 3 /\ Rank(data[c][n + i]) = UsedRank(c, p) + (n + i)
        BY <3>1 DEF Taken, Follow
      <3>3. UsedRank(c, p) + (n + i) = UsedRank(c, p) + n + i
        BY <1>1
      <3> QED
        BY <1>2, <3>2, <3>3
    <2> QED
      BY <1>2, <2>1 DEF Follow
  <1>4. LastRank(c)' = LastRank(c)
    BY DEF LastRank
  <1>5. UsedRank(c, q)' + Len(data'[c]) = UsedRank(c, p) + Len(data[c])
    BY <1>1, <1>2
  <1>6. UsedRank(c, q)' + Len(data'[c]) <= LastRank(c)'
    BY <1>4, <1>5 DEF Taken
  <1>7. ASSUME conn'[c] = "open"
        PROVE  /\ Follow(inbox'[c], Arrived(c)', UsedRank(c, q)' + Len(data'[c]))
               /\ UsedRank(c, q)' + Len(data'[c]) + Arrived(c)' = LastRank(c)'
    <2>1. Arrived(c)' = Arrived(c) /\ conn[c] = "open" /\ inbox'[c] = inbox[c]
      BY <1>7 DEF Arrived, Cut
    <2> QED
      BY <1>4, <1>5, <2>1 DEF Taken
  <1> QED
    BY <1>3, <1>6, <1>7 DEF Taken

\* All that has arrived joins what is left.
LEMMA TakenBlock ==
    ASSUME TypeOK, NEW c \in Clients, NEW p \in Nat, Taken(c, p), conn[c] = "open", ~Cut(c),
           data'[c] = Block(c), inbox'[c] = <<>>, need'[c] = need[c],
           wire'[c] = wire[c], sent'[c] = sent[c]
    PROVE  Taken(c, p)'
  <1>1. /\ UsedRank(c, p) \in Nat /\ LastRank(c) \in Nat
        /\ data[c] \in Seq(Units) /\ Len(data[c]) \in Nat
        /\ inbox[c] \in Seq(Units) /\ Len(inbox[c]) \in Nat
    BY TakenTypes
  <1>2. /\ Len(Block(c)) = Len(data[c]) + Len(inbox[c])
        /\ \A i \in 1 .. Len(data[c]) + Len(inbox[c]) :
              Block(c)[i] = IF i <= Len(data[c]) THEN data[c][i] ELSE inbox[c][i - Len(data[c])]
    <2>1. /\ Len(data[c] \o inbox[c]) = Len(data[c]) + Len(inbox[c])
          /\ \A i \in 1 .. Len(data[c]) + Len(inbox[c]) :
                (data[c] \o inbox[c])[i] =
                    IF i <= Len(data[c]) THEN data[c][i] ELSE inbox[c][i - Len(data[c])]
      BY ONLY <1>1, ConcatProperties
    <2> QED
      BY <2>1 DEF Block
  <1>3. Arrived(c) = Len(inbox[c])
    BY DEF Arrived
  <1>4. UsedRank(c, p)' = UsedRank(c, p) /\ LastRank(c)' = LastRank(c)
    BY DEF UsedRank, LastRank
  <1>5. Arrived(c)' = 0
    BY EmptySeq DEF Arrived, Cut
  <1>6. ASSUME NEW i \in 1 .. Len(data[c]) + Len(inbox[c])
        PROVE  Block(c)[i][2] \in 1 .. 3 /\ Rank(Block(c)[i]) = UsedRank(c, p) + i
    <2>1. CASE i <= Len(data[c])
      <3>1. i \in 1 .. Len(data[c])
        BY <1>1, <2>1
      <3>2. data[c][i][2] \in 1 .. 3 /\ Rank(data[c][i]) = UsedRank(c, p) + i
        BY <3>1 DEF Taken, Follow
      <3> QED
        BY <1>2, <2>1, <3>2
    <2>2. CASE ~ (i <= Len(data[c]))
      <3>1. i - Len(data[c]) \in 1 .. Len(inbox[c])
        <4> DEFINE a == Len(data[c])
                   b == Len(inbox[c])
        <4>1. a \in Nat /\ b \in Nat /\ i \in 1 .. a + b /\ ~(i <= a)
          BY <1>1, <2>2
        <4> HIDE DEF a, b
        <4>2. i - a \in 1 .. b
          BY <4>1
        <4> QED
          BY <4>2 DEF a, b
      <3>2. /\ inbox[c][i - Len(data[c])][2] \in 1 .. 3
            /\ Rank(inbox[c][i - Len(data[c])]) = UsedRank(c, p) + Len(data[c]) + (i - Len(data[c]))
        BY <1>3, <3>1 DEF Taken, Follow
      <3>3. UsedRank(c, p) + Len(data[c]) + (i - Len(data[c])) = UsedRank(c, p) + i
        BY <1>1
      <3> QED
        BY <1>2, <2>2, <3>2, <3>3
    <2> QED
      BY <2>1, <2>2
  <1>7. Follow(data'[c], Len(data'[c]), UsedRank(c, p)')
    BY <1>2, <1>4, <1>6 DEF Follow
  <1>8. UsedRank(c, p) + (Len(data[c]) + Len(inbox[c])) = LastRank(c)
    <2>1. UsedRank(c, p) + Len(data[c]) + Len(inbox[c]) = LastRank(c)
      BY <1>3 DEF Taken
    <2> DEFINE r == UsedRank(c, p)
               a == Len(data[c])
               b == Len(inbox[c])
    <2>2. r \in Nat /\ a \in Nat /\ b \in Nat /\ r + a + b = LastRank(c)
      BY <1>1, <2>1
    <2> HIDE DEF r, a, b
    <2>3. r + (a + b) = LastRank(c)
      BY <2>2
    <2> QED
      BY <2>3 DEF r, a, b
  <1>9. Follow(inbox'[c], Arrived(c)', UsedRank(c, p)' + Len(data'[c]))
    <2>1. \A i \in 1 .. 0 : FALSE
      OBVIOUS
    <2> QED
      BY <1>5, <2>1 DEF Follow
  <1>10. UsedRank(c, p)' + Len(data'[c]) = LastRank(c)' /\ LastRank(c)' \in Nat
    BY <1>1, <1>2, <1>4, <1>8
  <1> QED
    BY <1>5, <1>7, <1>9, <1>10 DEF Taken

\* The sockets after a step: as they were, or closed.
Closing == \A d \in Clients : \/ conn'[d] = "closed"
                              \/ conn'[d] = conn[d] /\ inbox'[d] = inbox[d]

LEMMA ClosingClient ==
    ASSUME TypeOK, NEW c, closeClient(c) \/ UNCHANGED <<inbox, conn>>
    PROVE  Closing
  BY DEF closeClient, TypeOK, Closing

LEMMA StreamsKept ==
    ASSUME Streams, UNCHANGED <<peer, parser, heard>>, Closing,
           \A d \in Clients :
              Live(d)' => Live(d) /\ ((turn = d /\ Given)' <=> (turn = d /\ Given))
    PROVE  Streams'
  <1>1. ASSUME NEW d \in Clients  PROVE Greeted(d)' /\ Stream(d)'
    <2>1. /\ wire'[d] = wire[d] /\ sent'[d] = sent[d] /\ heard'[d] = heard[d]
          /\ data'[d] = data[d] /\ need'[d] = need[d] /\ payload'[d] = payload[d]
      BY DEF peer, parser
    <2>2. Greeted(d) /\ Stream(d)
      BY DEF Streams
    <2>3. \/ conn'[d] = "closed"
          \/ conn'[d] = conn[d] /\ inbox'[d] = inbox[d]
      BY DEF Closing
    <2>4. Greeted(d)'
      BY <2>1, <2>2, <2>3, GreetedKept
    <2>5. Stream(d)'
      BY <2>1, <2>2, <2>3, StreamKept
    <2> QED
      BY <2>4, <2>5
  <1> QED
    BY <1>1 DEF Streams

\* The other clients, when a step is about c.
LEMMA OtherKept ==
    ASSUME TypeOK, Streams, NEW c, NEW d \in Clients, d # c,
           wire'[d] = wire[d], sent'[d] = sent[d], heard'[d] = heard[d],
           data'[d] = data[d], need'[d] = need[d], payload'[d] = payload[d],
           conn'[d] = conn[d], inbox'[d] = inbox[d],
           Live(d)' => Live(d) /\ ((turn = d /\ Given)' <=> (turn = d /\ Given))
    PROVE  Greeted(d)' /\ Stream(d)'
  <1>1. Greeted(d) /\ Stream(d)
    BY DEF Streams
  <1> QED
    BY <1>1, GreetedKept, StreamKept

\* The messages of what a peer has sent are not changed by what it sends.
LEMMA KeptSends ==
    ASSUME TypeOK, NEW c \in Clients, NEW p \in Nat, p = 0 \/ p <= Len(wire[c]),
           need[c] = 2 => p + 1 <= Len(wire[c]),
           NEW k, wire' = [wire EXCEPT ![c] = Append(@, k)], k \in Kinds,
           UNCHANGED <<parser, turn, stack>>
    PROVE  /\ Messages(wire'[c], p) = Messages(wire[c], p)
           /\ Kept(c, p) => Kept(c, p)'
  <1>1. wire[c] \in Seq(Kinds) /\ Len(wire[c]) \in Nat /\ wire'[c] = Append(wire[c], k)
    BY LenProperties DEF TypeOK
  <1>2. \A i \in 1 .. Len(wire[c]) : wire'[c][i] = wire[c][i]
    BY <1>1, AppendProperties
  <1>3. \A i \in 1 .. p : wire'[c][i] = wire[c][i]
    <2>1. 1 .. p \subseteq 1 .. Len(wire[c])
      BY <1>1
    <2> QED
      BY <1>2, <2>1
  <1>4. Messages(wire'[c], p) = Messages(wire[c], p) /\ (Proper(wire'[c], p) <=> Proper(wire[c], p))
    <2>1. p \in Int /\ p <= p
      OBVIOUS
    <2> QED
      BY <1>3, <2>1, MessagesLocal
  <1>5. Loose(wire'[c], p) = Loose(wire[c], p)
    <2>1. \A j \in 1 .. p : /\ wire'[c][j] = wire[c][j]
                            /\ \A i \in j .. p : wire'[c][i] = wire[c][i]
      BY <1>3
    <2> QED
      BY <2>1 DEF Loose
  <1>6. need[c] = 2 => wire'[c][p + 1] = wire[c][p + 1]
    <2>1. need[c] = 2 => p + 1 \in 1 .. Len(wire[c])
      BY <1>1
    <2> QED
      BY <1>2, <2>1
  <1>7. ASSUME Kept(c, p)  PROVE Kept(c, p)'
    <2>1. /\ need'[c] = need[c] /\ payload'[c] = payload[c]
          /\ (turn = c /\ Given)' <=> (turn = c /\ Given)
      BY DEF parser, Given
    <2> QED
      BY <1>4, <1>5, <1>6, <1>7, <2>1 DEF Kept
  <1> QED
    BY <1>4, <1>7

LEMMA PeerBeginsStep ==
    ASSUME PeerInv, NEW c \in Clients, PeerBegins(c)
    PROVE  Greeted(c)' /\ Stream(c)'
  <1> DEFINE len == Len(wire[c])
             unit == <<len + 1, 1>>
  <1>1. PICK k \in Kinds : wire' = [wire EXCEPT ![c] = Append(@, k)]
    BY DEF PeerBegins
  <1>2. /\ conn[c] = "open" /\ ~Cut(c) /\ Arrives(c, unit)
        /\ sent[c] \in {<<0, 2>>, <<len, 3>>}
    BY DEF PeerBegins
  <1>3. TypeOK /\ Greeted(c) /\ Stream(c) /\ Live(c)
    BY <1>2 DEF PeerInv, Streams, Live
  <1>4. wire[c] \in Seq(Kinds) /\ len \in Nat /\ wire'[c] = Append(wire[c], k)
    BY <1>1, <1>3, LenProperties DEF TypeOK
  <1>5. /\ wire'[c] # <<>> /\ Len(wire'[c]) = len + 1 /\ sent'[c] = unit /\ conn' = conn
        /\ UNCHANGED <<parser, heard, turn, pc, stack>>
    <2>1. wire'[c] # <<>> /\ Len(wire'[c]) = len + 1
      BY <1>4, AppendProperties
    <2>2. sent'[c] = unit /\ UNCHANGED <<conn, parser, view, loop>>
      BY <1>2, <1>3 DEF Arrives, TypeOK
    <2> QED
      BY <2>1, <2>2 DEF view, loop
  <1>6. wire[c] = <<>> <=> len = 0
    BY <1>4, EmptySeq
  <1>7. IF len = 0 THEN sent[c] = <<0, 2>> ELSE sent[c] = <<len, 3>>
    <2>1. sent[c][1] = len /\ (len = 0 => sent[c][2] \in 0 .. 2)
      BY <1>3, <1>6 DEF Greeted
    <2>2. <<len, 3>>[2] = 3 /\ <<0, 2>>[1] = 0
      OBVIOUS
    <2>3. ~(3 \in 0 .. 2)
      OBVIOUS
    <2> QED
      BY <1>2, <2>1, <2>2, <2>3
  <1>8. LastRank(c) = 3 * len + 3 /\ LastRank(c)' = 3 * len + 4 /\ Rank(unit) = 3 * len + 4
    BY <1>4, <1>5, <1>6, <1>7 DEF LastRank, Rank
  <1>9. Whole(c) <= len /\ Whole(c)' = len /\ Whole(c) \in Int
    BY <1>4, <1>5 DEF Whole
  <1>10. Greeted(c)'
    BY <1>2, <1>5 DEF Greeted
  <1>11. PICK p \in Nat : /\ p = 0 \/ p <= Whole(c)
                          /\ heard[c] = Messages(wire[c], p)
                          /\ Taken(c, p) /\ Kept(c, p)
    BY <1>3 DEF Stream
  <1>12. need[c] = 2 => p + 1 <= len
    BY <1>3, <1>11, TakenBounds
  <1>13. p = 0 \/ p <= len
    BY <1>4, <1>9, <1>11
  <1>14. Messages(wire'[c], p) = Messages(wire[c], p) /\ Kept(c, p)'
    BY <1>1, <1>3, <1>5, <1>11, <1>12, <1>13, KeptSends
  <1>15. Taken(c, p)'
    <2>1. unit \in Units /\ unit[2] \in 1 .. 3
      <3>1. len + 1 \in Nat /\ 1 \in 0 .. 3 /\ 1 \in 1 .. 3
        BY <1>4
      <3>2. unit[2] = 1
        OBVIOUS
      <3> HIDE DEF len
      <3> QED
        BY <3>1, <3>2 DEF Units
    <2>2. Rank(unit) = LastRank(c) + 1 /\ LastRank(c)' = LastRank(c) + 1
      BY <1>4, <1>8
    <2> HIDE DEF unit
    <2> QED
      BY <1>2, <1>3, <1>11, <2>1, <2>2, TakenArrives
  <1> QED
    BY <1>5, <1>9, <1>10, <1>11, <1>13, <1>14, <1>15 DEF Stream

LEMMA PeerGoesOnStep ==
    ASSUME PeerInv, NEW c \in Clients, PeerGoesOn(c)
    PROVE  Greeted(c)' /\ Stream(c)'
  <1> DEFINE len == Len(wire[c])
  <1>1. PICK k \in 2 .. 3 : sent[c] = <<len, k - 1>> /\ len > 0 /\ Arrives(c, <<len, k>>)
    BY DEF PeerGoesOn
  <1>2. conn[c] = "open" /\ ~Cut(c) /\ wire' = wire
    BY DEF PeerGoesOn
  <1>3. TypeOK /\ Greeted(c) /\ Stream(c) /\ Live(c)
    BY <1>2 DEF PeerInv, Streams, Live
  <1>4. wire[c] \in Seq(Kinds) /\ len \in Nat
    BY <1>3, LenProperties DEF TypeOK
  <1>5. /\ sent'[c] = <<len, k>> /\ conn' = conn
        /\ UNCHANGED <<parser, heard, turn, pc, stack>>
    BY <1>1, <1>3 DEF Arrives, TypeOK, view, loop
  <1>6. wire[c] # <<>>
    BY <1>1, <1>4, EmptySeq
  <1>7. /\ LastRank(c) = 3 * len + (k - 1) /\ LastRank(c)' = 3 * len + k
        /\ Rank(<<len, k>>) = 3 * len + k
    BY <1>1, <1>2, <1>5, <1>6 DEF LastRank, Rank
  <1>8. Whole(c) \in Int /\ Whole(c)' \in Int /\ Whole(c) <= Whole(c)'
    BY <1>1, <1>2, <1>4, <1>5 DEF Whole
  <1>9. Greeted(c)'
    BY <1>2, <1>5, <1>6 DEF Greeted
  <1>10. PICK p \in Nat : /\ p = 0 \/ p <= Whole(c)
                          /\ heard[c] = Messages(wire[c], p)
                          /\ Taken(c, p) /\ Kept(c, p)
    BY <1>3 DEF Stream
  <1>11. Kept(c, p)'
    BY <1>2, <1>5, <1>10 DEF Kept, parser, Given
  <1>12. Taken(c, p)'
    <2>1. <<len, k>> \in Units /\ <<len, k>>[2] \in 1 .. 3
      <3>1. len \in Nat /\ k \in 0 .. 3
        BY <1>4
      <3>2. <<len, k>>[2] = k
        OBVIOUS
      <3> HIDE DEF len
      <3> QED
        BY <3>1, <3>2 DEF Units
    <2>2. Rank(<<len, k>>) = LastRank(c) + 1 /\ LastRank(c)' = LastRank(c) + 1
      BY <1>4, <1>7
    <2> QED
      BY <1>1, <1>2, <1>3, <1>10, <2>1, <2>2, TakenArrives
  <1>13. p = 0 \/ p <= Whole(c)'
    BY <1>8, <1>10
  <1> QED
    BY <1>2, <1>5, <1>9, <1>10, <1>11, <1>12, <1>13 DEF Stream

LEMMA PeerClosesStep ==
    ASSUME PeerInv, NEW c \in Clients, PeerCloses(c), Parses'
    PROVE  Greeted(c)' /\ Stream(c)'
  <1>1. /\ ~Cut(c) /\ inbox' = [inbox EXCEPT ![c] = Append(@, End)]
        /\ conn[c] \in {"tls", "hello", "open"}
        /\ UNCHANGED <<wire, sent, conn, data, need, payload, heard, turn, pc, stack>>
    BY DEF PeerCloses, peer, parser, view, loop
  <1>2. TypeOK /\ Greeted(c) /\ Stream(c)
    BY DEF PeerInv, Streams
  <1>3. Greeted(c)'
    BY <1>1, <1>2 DEF Greeted
  <1>4. CASE conn[c] # "open"
    BY <1>1, <1>3, <1>4, StreamFresh
  <1>5. CASE conn[c] = "open"
    <2>1. PICK p \in Nat : /\ p = 0 \/ p <= Whole(c)
                           /\ heard[c] = Messages(wire[c], p)
                           /\ Taken(c, p) /\ Kept(c, p)
      BY <1>2, <1>5 DEF Stream, Live
    <2>2. inbox[c] \in Seq(Units) /\ Len(inbox[c]) \in Nat /\ inbox'[c] = Append(inbox[c], End)
      BY <1>1, <1>2, LenProperties DEF TypeOK
    <2>3. /\ inbox'[c] # <<>> /\ Len(inbox'[c]) = Len(inbox[c]) + 1
          /\ \A i \in 1 .. Len(inbox[c]) : inbox'[c][i] = inbox[c][i]
          /\ inbox'[c][Len(inbox[c]) + 1] = End
      BY <2>2, UnitFacts, AppendProperties
    <2>4. Cut(c)'
      BY <2>3 DEF Cut, Last
    <2>5. Arrived(c) = Len(inbox[c]) /\ Arrived(c)' = Len(inbox[c])
      BY <1>1, <2>2, <2>3, <2>4 DEF Arrived
    <2>6. UsedRank(c, p)' = UsedRank(c, p) /\ LastRank(c)' = LastRank(c)
      BY <1>1 DEF UsedRank, LastRank
    <2>7. Taken(c, p)'
      BY <1>1, <2>1, <2>3, <2>5, <2>6 DEF Taken, Follow
    <2>8. Kept(c, p)' /\ Whole(c)' = Whole(c)
      BY <1>1, <2>1 DEF Kept, Given, Whole
    <2> QED
      BY <1>1, <1>3, <2>1, <2>7, <2>8 DEF Stream
  <1> QED
    BY <1>4, <1>5

LEMMA PeerGreetsStep ==
    ASSUME PeerInv, NEW c \in Clients, PeerGreets(c), Parses'
    PROVE  Greeted(c)' /\ Stream(c)'
  <1>1. PICK k \in 1 .. 2 : Arrives(c, <<0, k>>)
    BY DEF PeerGreets
  <1>2. /\ conn[c] = "hello" /\ sent' = [sent EXCEPT ![c] = <<0, k>>]
        /\ UNCHANGED <<wire, conn, need, payload, heard>>
    BY <1>1 DEF PeerGreets, Arrives, parser, view
  <1>3. TypeOK /\ Greeted(c)
    BY DEF PeerInv, Streams
  <1>4. wire[c] = <<>> /\ Len(<<>>) = 0 /\ sent'[c] = <<0, k>>
    BY <1>2, <1>3 DEF Greeted, TypeOK
  <1>5. Greeted(c)'
    BY <1>2, <1>3, <1>4 DEF Greeted
  <1> QED
    BY <1>2, <1>5, StreamFresh

LEMMA StreamsPeer ==
    ASSUME PeerInv, Peer
    PROVE  Parses' /\ Streams'
  <1>1. UNCHANGED <<out, conn, parser, view, loop>> \/ \E c \in Clients : PeerReads(c)
    BY DEF Peer, PeerGreets, PeerBegins, PeerGoesOn, PeerCloses, Arrives
  <1>2. UNCHANGED <<conn, data, need, payload, heard, turn, pc, stack>>
    BY <1>1 DEF PeerReads, parser, view, loop
  <1>3. Parses'
    BY <1>2 DEF PeerInv, Parses, Given
  <1>4. PICK c \in Clients : \/ PeerGreets(c) \/ PeerBegins(c) \/ PeerGoesOn(c)
                             \/ PeerCloses(c) \/ PeerReads(c)
    BY DEF Peer
  <1>5. CASE PeerReads(c)
    <2>1. UNCHANGED <<peer, parser, heard, inbox, conn, turn, pc, stack>>
      BY <1>5 DEF PeerReads, view, loop
    <2> QED
      BY <1>3, <2>1, ClosingClient, StreamsKept DEF PeerInv, Live, Given
  <1>6. CASE ~PeerReads(c)
    <2>1. Greeted(c)' /\ Stream(c)'
      BY <1>3, <1>4, <1>6, PeerGreetsStep, PeerBeginsStep, PeerGoesOnStep, PeerClosesStep
    <2>2. \A d \in Clients \ {c} : wire'[d] = wire[d] /\ sent'[d] = sent[d] /\ inbox'[d] = inbox[d]
      BY <1>4, <1>6 DEF PeerGreets, PeerBegins, PeerGoesOn, PeerCloses, Arrives, PeerInv, TypeOK, peer
    <2>3. \A d \in Clients : Live(d)' <=> Live(d)
      BY <1>2 DEF Live
    <2>4. \A d \in Clients : (turn = d /\ Given)' <=> (turn = d /\ Given)
      BY <1>2 DEF Given
    <2>5. ASSUME NEW d \in Clients, d # c  PROVE Greeted(d)' /\ Stream(d)'
      BY <1>2, <2>2, <2>3, <2>4, <2>5, OtherKept DEF PeerInv
    <2> QED
      BY <1>3, <2>1, <2>5 DEF Streams
  <1> QED
    BY <1>5, <1>6

LEMMA HelloStep ==
    ASSUME PeerInv, NEW c \in Clients, Hello(c)
    PROVE  Greeted(c)' /\ Stream(c)'
  <1>1. /\ conn[c] = "hello" /\ UNCHANGED <<wire, sent, need, payload, heard>>
        /\ data'[c] = <<>> /\ inbox'[c] = <<>> /\ conn'[c] = "open" /\ stack' = <<"connect">>
    BY DEF Hello, PeerInv, TypeOK, peer
  <1>2. /\ wire[c] = <<>> /\ need[c] = 3 /\ payload[c] = <<>> /\ heard[c] = <<>>
    BY <1>1 DEF PeerInv, Streams, Greeted
  <1>3. Greeted(c)'
    BY <1>1 DEF PeerInv, Streams, Greeted
  <1>4. UsedRank(c, 0)' = 3 /\ LastRank(c)' = 3 /\ Arrived(c)' = 0 /\ Len(data'[c]) = 0
    BY <1>1, <1>2 DEF UsedRank, LastRank, Arrived, Cut
  <1>5. \A i \in 1 .. 0 : FALSE
    OBVIOUS
  <1>6. Taken(c, 0)'
    BY <1>4, <1>5 DEF Taken, Follow
  <1>7. Loose(wire'[c], 0) = {} /\ Proper(wire'[c], 0)
    BY <1>5 DEF Loose, Proper
  <1>8. ~Given'
    BY <1>1 DEF Given
  <1>9. Kept(c, 0)'
    <2>1. need'[c] = 3 /\ payload'[c] = InOrder(Loose(wire'[c], 0))
      BY <1>1, <1>2, <1>7, OrderEmpty
    <2> QED
      BY <1>7, <1>8, <2>1 DEF Kept
  <1>10. heard'[c] = Messages(wire'[c], 0)
    BY <1>1, <1>2, MessagesNone
  <1> QED
    BY <1>3, <1>6, <1>9, <1>10 DEF Stream

LEMMA ReceiveStep ==
    ASSUME PeerInv, NEW c \in Clients, Receive(c)
    PROVE  Greeted(c)' /\ Stream(c)'
  <1>1. /\ conn[c] = "open" /\ ~Cut(c) /\ stack = <<>>
        /\ data'[c] = Block(c) /\ inbox'[c] = <<>>
        /\ UNCHANGED <<wire, sent, conn, need, payload, heard, stack>>
    BY DEF Receive, Free, PeerInv, TypeOK, peer, view
  <1>2. TypeOK /\ Greeted(c) /\ Stream(c) /\ Live(c)
    BY <1>1 DEF PeerInv, Streams, Live
  <1>3. PICK p \in Nat : /\ p = 0 \/ p <= Whole(c)
                         /\ heard[c] = Messages(wire[c], p)
                         /\ Taken(c, p) /\ Kept(c, p)
    BY <1>2 DEF Stream
  <1>4. Taken(c, p)'
    BY <1>1, <1>2, <1>3, TakenBlock
  <1>5. Kept(c, p)' /\ Whole(c)' = Whole(c)
    BY <1>1, <1>3 DEF Kept, Given, Whole
  <1>6. Greeted(c)'
    BY <1>1, <1>2 DEF Greeted
  <1> QED
    BY <1>1, <1>3, <1>4, <1>5, <1>6 DEF Stream

LEMMA StreamsListener ==
    ASSUME PeerInv, NEW c \in Clients, Listener(c)
    PROVE  Parses' /\ Streams'
  <1>1. turn = None /\ stack = <<>> /\ pc = "idle" /\ ~Given
    <2>1. Free
      BY DEF Listener, Accept, TLSHandshake, HelloPart, HelloFails, Hello, ReadingError, Receive
    <2>2. None \notin Clients
      BY WebSocketAssumption
    <2> QED
      BY <2>1, <2>2 DEF Free, Given, PeerInv, InTurn
  <1>2. TypeOK /\ Streams
    BY DEF PeerInv
  <1>3. UNCHANGED <<wire, sent, payload, heard, need>>
    BY DEF Listener, Accept, TLSHandshake, HelloPart, HelloFails, Hello, ReadingError, Receive,
           peer, parser, view
  <1>4. CASE Accept(c) \/ TLSHandshake(c) \/ HelloPart(c) \/ HelloFails(c)
    <2>1. UNCHANGED <<turn, pc, stack>>
      BY <1>4 DEF Accept, TLSHandshake, HelloPart, HelloFails, loop
    <2>2. Parses'
      BY <1>1, <2>1 DEF Parses, Given
    <2>3. \/ closeClient(c)
          \/ conn' = [conn EXCEPT ![c] = "tls"] \/ conn' = [conn EXCEPT ![c] = "hello"]
          \/ conn' = conn
      BY <1>4 DEF Accept, TLSHandshake, HelloPart, HelloFails
    <2>4. conn[c] \in {"none", "tls", "hello"}
      BY <1>4 DEF Accept, TLSHandshake, HelloPart, HelloFails
    <2>5. conn'[c] \in {"none", "tls", "hello", "closed"}
      BY <1>2, <2>3, <2>4 DEF closeClient, TypeOK
    <2>6. Greeted(c)'
      BY <1>2, <1>3, <2>4, <2>5, GreetedKept DEF Streams
    <2>7. Stream(c)'
      <3>1. CASE conn'[c] = "closed"
        <4>1. ~Live(c)' /\ Stream(c)
          BY <1>1, <1>2, <2>1, <3>1 DEF Live, Streams
        <4> QED
          BY <1>3, <4>1, StreamKept
      <3>2. CASE conn'[c] # "closed"
        BY <2>2, <2>5, <2>6, <3>2, StreamFresh
      <3> QED
        BY <3>1, <3>2
    <2>8. ASSUME NEW d \in Clients, d # c  PROVE Greeted(d)' /\ Stream(d)'
      <3>1. conn'[d] = conn[d] /\ inbox'[d] = inbox[d] /\ data'[d] = data[d]
        BY <1>2, <1>4, <2>8 DEF Accept, TLSHandshake, HelloPart, HelloFails, closeClient, TypeOK, parser
      <3>2. (Live(d)' <=> Live(d)) /\ ((turn = d /\ Given)' <=> (turn = d /\ Given))
        BY <2>1, <3>1 DEF Live, Given
      <3> QED
        BY <1>2, <1>3, <2>8, <3>1, <3>2, OtherKept
    <2> QED
      BY <2>2, <2>6, <2>7, <2>8 DEF Streams
  <1>5. CASE Hello(c) \/ Receive(c)
    <2>1. Greeted(c)' /\ Stream(c)'
      BY <1>5, HelloStep, ReceiveStep
    <2>2. turn' = c /\ conn'[c] = "open" /\ (stack' = <<"connect">> \/ stack' = stack)
      BY <1>2, <1>5 DEF Hello, Receive, TypeOK
    <2>3. Parses'
      BY <1>1, <2>2 DEF Parses, Given
    <2>4. ASSUME NEW d \in Clients, d # c  PROVE Greeted(d)' /\ Stream(d)'
      <3>1. conn'[d] = conn[d] /\ inbox'[d] = inbox[d] /\ data'[d] = data[d]
        BY <1>2, <1>5, <2>4 DEF Hello, Receive, TypeOK
      <3>2. (Live(d)' => Live(d)) /\ ((turn = d /\ Given)' <=> (turn = d /\ Given))
        BY <1>1, <2>2, <2>4, <3>1 DEF Live
      <3> QED
        BY <1>2, <1>3, <2>4, <3>1, <3>2, OtherKept
    <2> QED
      BY <2>1, <2>3, <2>4 DEF Streams
  <1>6. CASE ReadingError(c)
    <2>1. /\ turn' = c /\ stack' = <<"lost">> /\ pc' = pc
          /\ UNCHANGED <<peer, parser, heard, inbox, conn>>
      BY <1>6 DEF ReadingError, socket
    <2>2. ~Given'
      BY <2>1 DEF Given
    <2>3. Parses'
      BY <1>1, <2>1, <2>2 DEF Parses
    <2>4. \A d \in Clients : (Live(d)' <=> Live(d)) /\ ~(turn = d /\ Given) /\ ~(turn = d /\ Given)'
      BY <1>1, <2>1, <2>2 DEF Live
    <2>5. Streams'
      BY <1>2, <2>1, <2>4, ClosingClient, StreamsKept
    <2> QED
      BY <2>3, <2>5
  <1> QED
    BY <1>4, <1>5, <1>6 DEF Listener

LEMMA StreamsApp ==
    ASSUME PeerInv, App \/ SpinEnds
    PROVE  Parses' /\ Streams'
  <1>1. TypeOK /\ Streams
    BY DEF PeerInv
  <1>2. CASE Idle
    <2>1. /\ stack = <<>> /\ stack' = <<"idle">>
          /\ UNCHANGED <<peer, parser, heard, inbox, conn, turn, pc>>
      BY <1>2 DEF Idle, Free, socket, view
    <2>2. ~Given /\ ~Given'
      BY <2>1 DEF Given
    <2>3. Parses'
      BY <2>1, <2>2 DEF PeerInv, Parses
    <2> QED
      BY <1>1, <2>1, <2>2, <2>3, ClosingClient, StreamsKept DEF Live
  <1>3. CASE SpinEnds \/ \E c \in Clients : AppSends(c)
    <2>1. UNCHANGED <<peer, parser, heard, inbox, conn, turn, pc, stack>>
      BY <1>3 DEF SpinEnds, AppSends, view
    <2>2. Parses'
      BY <2>1 DEF PeerInv, Parses, Given
    <2> QED
      BY <1>1, <2>1, <2>2, ClosingClient, StreamsKept DEF Live, Given
  <1>4. ASSUME NEW c \in Clients, AppDisconnects(c)  PROVE Parses' /\ Streams'
    <2>1. /\ closeClient(c) /\ stack # <<>> /\ stack' = Append(stack, "gone")
          /\ UNCHANGED <<peer, parser, heard, turn, pc>>
      BY <1>4 DEF AppDisconnects, Called, Disconnect
    <2>2. stack' # <<>> /\ stack'[1] = stack[1]
      <3>1. stack \in Seq(Callbacks) /\ Len(stack) \in Nat /\ Len(stack) # 0
        BY <1>1, <2>1, LenProperties, EmptySeq DEF TypeOK, Callbacks
      <3>2. 1 \in 1 .. Len(stack) /\ "gone" \in Callbacks
        BY <3>1 DEF Callbacks
      <3> QED
        BY <2>1, <3>1, <3>2, AppendProperties
    <2>3. Given' <=> Given
      BY <2>1, <2>2 DEF Given
    <2>4. \A d \in Clients : conn'[d] \in {conn[d], "closed"}
      BY <1>1, <2>1 DEF closeClient, TypeOK
    <2>5. Parses'
      BY <2>1, <2>3, <2>4 DEF PeerInv, Parses
    <2>6. \A d \in Clients : (Live(d)' => Live(d)) /\ ((turn = d /\ Given)' <=> (turn = d /\ Given))
      BY <2>1, <2>3, <2>4 DEF Live
    <2> QED
      BY <1>1, <2>1, <2>5, <2>6, ClosingClient, StreamsKept
  <1> QED
    BY <1>2, <1>3, <1>4 DEF App

LEMMA StreamsReturns ==
    ASSUME PeerInv, Returns
    PROVE  Parses' /\ Streams'
  <1>1. TypeOK /\ Streams /\ stack \in Seq(Callbacks) /\ Len(stack) \in Nat
    BY LenProperties DEF PeerInv, TypeOK, Callbacks
  <1>2. CASE InnerReturns
    <2>1. /\ UNCHANGED <<peer, parser, heard, inbox, conn, turn, pc>>
          /\ stack # <<>> /\ Len(stack) > 1 /\ stack' = Front(stack)
      BY <1>2 DEF InnerReturns, Called, socket, view
    <2>2. stack' # <<>> /\ stack'[1] = stack[1]
      BY <1>1, <2>1, FrontKeeps
    <2>3. Given' <=> Given
      BY <2>1, <2>2 DEF Given
    <2>4. Parses'
      BY <2>1, <2>3 DEF PeerInv, Parses
    <2> QED
      BY <1>1, <2>1, <2>3, <2>4, ClosingClient, StreamsKept DEF Live
  <1>3. CASE OuterReturns
    <2>1. /\ stack # <<>> /\ Len(stack) = 1 /\ stack' = <<>>
          /\ UNCHANGED <<peer, data, need, heard>>
          /\ (pc = "parse" /\ UNCHANGED <<turn, pc>>) \/ (pc # "parse" /\ turn' = None /\ pc' = "idle")
          /\ IF stack = <<"lost">> THEN closeClient(turn) ELSE UNCHANGED socket
      BY <1>3 DEF OuterReturns, Called, EndTurn, view
    <2>2. ~Given' /\ (Given <=> stack = <<"message">>)
      BY <1>1, <2>1 DEF Given
    <2>3. Closing
      BY <1>1, <2>1, ClosingClient DEF socket
    <2>4. Parses'
      BY <2>1, <2>2, <2>3 DEF PeerInv, Parses, Closing
    <2>5. \A d \in Clients : Live(d)' => Live(d)
      BY <2>1, <2>3 DEF Live, Closing
    <2>6. CASE ~Given
      <3>1. UNCHANGED parser
        BY <1>3, <2>1, <2>2, <2>6 DEF OuterReturns, parser
      <3> QED
        BY <1>1, <2>1, <2>2, <2>3, <2>4, <2>5, <2>6, <3>1, StreamsKept
    <2>7. CASE Given
      <3>1. /\ pc = "parse" /\ turn \in Clients /\ UNCHANGED <<turn, pc, socket>>
            /\ payload' = [payload EXCEPT ![turn] = <<>>]
        BY <1>3, <2>1, <2>2, <2>7 DEF PeerInv, Parses, OuterReturns, NoMessage
      <3>2. UNCHANGED <<wire, sent, data, need, heard, inbox, conn>>
        BY <2>1, <3>1 DEF peer, socket
      <3>3. ASSUME NEW d \in Clients, d # turn  PROVE Greeted(d)' /\ Stream(d)'
        <4>1. payload'[d] = payload[d] /\ ~(turn = d /\ Given) /\ ~(turn = d /\ Given)'
          BY <1>1, <2>2, <3>1, <3>3 DEF TypeOK
        <4> QED
          BY <1>1, <2>5, <3>2, <3>3, <4>1, OtherKept
      <3>4. Greeted(turn) /\ Stream(turn) /\ Live(turn) /\ payload'[turn] = <<>>
        BY <1>1, <3>1 DEF Streams, Live, TypeOK
      <3>5. Greeted(turn)'
        BY <3>1, <3>2, <3>4 DEF Greeted
      <3>6. PICK p \in Nat : /\ p = 0 \/ p <= Whole(turn)
                             /\ heard[turn] = Messages(wire[turn], p)
                             /\ Taken(turn, p) /\ Kept(turn, p)
        BY <3>4 DEF Stream
      <3>7. Kept(turn, p)'
        BY <2>2, <2>7, <3>1, <3>2, <3>4, <3>6, OrderEmpty DEF Kept
      <3>8. Taken(turn, p)' /\ Whole(turn)' = Whole(turn)
        BY <3>1, <3>2, <3>6 DEF Taken, UsedRank, LastRank, Arrived, Cut, Whole
      <3>9. Stream(turn)'
        BY <3>1, <3>2, <3>6, <3>7, <3>8 DEF Stream
      <3>10. \A d \in Clients : Greeted(d)' /\ Stream(d)'
        BY <3>1, <3>3, <3>5, <3>9
      <3> QED
        BY <2>4, <3>10 DEF Streams
    <2> QED
      BY <2>6, <2>7
  <1> QED
    BY <1>2, <1>3 DEF Returns

\* The catch lets the client of the turn go.
LEMMA CatchDead ==
    ASSUME PeerInv, pc = "parse", Catch(<<>>), NEW c, c = turn
    PROVE  /\ c \in Clients /\ ~Live(c)' /\ Closing /\ conn'[c] = "closed"
           /\ Parses' /\ ~Given' /\ pc' # "parse" /\ turn' \in {c, None}
           /\ \A d \in Clients \ {c} : conn'[d] = conn[d] /\ inbox'[d] = inbox[d]
  <1>1. c \in Clients /\ conn[c] \in {"open", "closed"} /\ TypeOK
    BY DEF PeerInv, Parses
  <1>2. CASE conn[c] = "open"
    <2>1. closeClient(c) /\ stack' = Append(<<>>, "gone") /\ pc' = "catch" /\ turn' = turn
      BY <1>2 DEF Catch, Disconnect
    <2>2. stack' = <<"gone">>
      BY <2>1
    <2>3. ~Given' /\ Parses'
      BY <2>1, <2>2 DEF Given, Parses
    <2> QED
      BY <1>1, <2>1, <2>3, ClosingClient DEF closeClient, TypeOK, Live
  <1>3. CASE conn[c] = "closed"
    <2>1. UNCHANGED socket /\ stack' = <<>> /\ turn' = None /\ pc' = "idle"
      BY <1>3 DEF Catch, EndTurn
    <2>2. ~Given' /\ Parses'
      BY <2>1 DEF Given, Parses
    <2>3. UNCHANGED <<inbox, conn>>
      BY <2>1 DEF socket
    <2>4. ~Live(c)' /\ conn'[c] = "closed"
      BY <1>3, <2>1, <2>3 DEF Live
    <2> QED
      BY <1>1, <2>1, <2>2, <2>3, <2>4, ClosingClient
  <1> QED
    BY <1>1, <1>2, <1>3

\* Whatever the parser has used of its client's data then.
LEMMA StreamsCatch ==
    ASSUME PeerInv, pc = "parse", Catch(<<>>), UNCHANGED <<peer, heard>>,
           \A d \in Clients \ {turn} :
              data'[d] = data[d] /\ need'[d] = need[d] /\ payload'[d] = payload[d]
    PROVE  Parses' /\ Streams'
  <1>1. PICK c \in Clients : c = turn
    BY CatchDead
  <1>2. TypeOK /\ Streams
    BY DEF PeerInv
  <1>3. /\ ~Live(c)' /\ conn'[c] = "closed" /\ Parses' /\ ~Given'
        /\ pc' # "parse" /\ turn' \in {c, None}
        /\ \A d \in Clients \ {c} : conn'[d] = conn[d] /\ inbox'[d] = inbox[d]
    BY <1>1, CatchDead
  <1>4. Greeted(c)' /\ Stream(c)'
    <2>1. wire'[c] = wire[c] /\ sent'[c] = sent[c] /\ heard'[c] = heard[c]
      BY DEF peer
    <2>2. Greeted(c) /\ Stream(c)
      BY <1>2 DEF Streams
    <2> QED
      BY <1>3, <2>1, <2>2, GreetedKept, StreamKept
  <1>5. ASSUME NEW d \in Clients, d # c  PROVE Greeted(d)' /\ Stream(d)'
    <2>1. /\ wire'[d] = wire[d] /\ sent'[d] = sent[d] /\ heard'[d] = heard[d]
          /\ data'[d] = data[d] /\ need'[d] = need[d] /\ payload'[d] = payload[d]
          /\ conn'[d] = conn[d] /\ inbox'[d] = inbox[d]
      BY <1>1, <1>3, <1>5 DEF peer
    <2>2. (Live(d)' => Live(d)) /\ ((turn = d /\ Given)' <=> (turn = d /\ Given))
      BY <1>1, <1>3, <1>5, <2>1 DEF Live
    <2> QED
      BY <1>2, <1>5, <2>1, <2>2, OtherKept
  <1> QED
    BY <1>3, <1>4, <1>5 DEF Streams

\* The frame that the parser is at: the next of its client.
LEMMA ParsingFacts ==
    ASSUME PeerInv, Parsing
    PROVE  \E c \in Clients :
             /\ turn = c /\ pc = "parse" /\ stack = <<>> /\ ~Given /\ TypeOK
             /\ conn[c] \in {"open", "closed"} /\ Greeted(c)
             /\ \E p \in Nat : /\ p = 0 \/ p <= Whole(c)
                               /\ heard[c] = Messages(wire[c], p)
                               /\ Taken(c, p) /\ Kept(c, p)
  <1>1. turn \in Clients /\ pc = "parse" /\ stack = <<>> /\ ~Given /\ TypeOK
    BY DEF Parsing, PeerInv, Parses, Given
  <1>2. conn[turn] \in {"open", "closed"} /\ Live(turn) /\ Stream(turn) /\ Greeted(turn)
    BY <1>1 DEF PeerInv, Parses, Streams, Live
  <1> QED
    BY <1>1, <1>2 DEF Stream

\* A step of the parser that goes on with client c, or with none.
LEMMA OthersParse ==
    ASSUME PeerInv, NEW c \in Clients, turn = c, UNCHANGED peer,
           \A d \in Clients \ {c} :
              /\ data'[d] = data[d] /\ need'[d] = need[d] /\ payload'[d] = payload[d]
              /\ heard'[d] = heard[d] /\ conn'[d] = conn[d] /\ inbox'[d] = inbox[d],
           turn' \in {c, None},
           Greeted(c)', Stream(c)'
    PROVE  Streams'
  <1>1. TypeOK /\ Streams /\ None \notin Clients
    BY WebSocketAssumption DEF PeerInv
  <1>2. ASSUME NEW d \in Clients, d # c  PROVE Greeted(d)' /\ Stream(d)'
    <2>1. wire'[d] = wire[d] /\ sent'[d] = sent[d]
      BY DEF peer
    <2>2. /\ data'[d] = data[d] /\ need'[d] = need[d] /\ payload'[d] = payload[d]
          /\ heard'[d] = heard[d] /\ conn'[d] = conn[d] /\ inbox'[d] = inbox[d]
      BY <1>2
    <2>3. ~(turn = d) /\ ~(turn' = d)
      BY <1>1, <1>2
    <2>4. (Live(d)' => Live(d)) /\ ((turn = d /\ Given)' <=> (turn = d /\ Given))
      BY <2>2, <2>3 DEF Live
    <2> QED
      BY <1>1, <1>2, <2>1, <2>2, <2>4, OtherKept
  <1> QED
    BY <1>2 DEF Streams

LEMMA StreamsIncomplete ==
    ASSUME PeerInv, Incomplete
    PROVE  Parses' /\ Streams'
  <1>1. /\ Parsing /\ ~BadHeader /\ turn' = None /\ pc' = "idle"
        /\ UNCHANGED <<peer, socket, payload, heard, stack>>
    BY DEF Incomplete, EndTurn, view
  <1>2. PICK c \in Clients :
             /\ turn = c /\ pc = "parse" /\ stack = <<>> /\ ~Given /\ TypeOK
             /\ conn[c] \in {"open", "closed"} /\ Greeted(c)
             /\ \E p \in Nat : /\ p = 0 \/ p <= Whole(c)
                               /\ heard[c] = Messages(wire[c], p)
                               /\ Taken(c, p) /\ Kept(c, p)
    BY <1>1, ParsingFacts
  <1>3. Parses' /\ ~Given'
    BY <1>1, <1>2 DEF Parses, Given
  <1>4. PICK p \in Nat : /\ p = 0 \/ p <= Whole(c)
                         /\ heard[c] = Messages(wire[c], p)
                         /\ Taken(c, p) /\ Kept(c, p)
    BY <1>2
  <1>5. UNCHANGED <<wire, sent, inbox, conn, payload, heard>>
    BY <1>1 DEF peer, socket
  <1>6. Greeted(c)'
    BY <1>2, <1>5, GreetedKept
  <1>7. CASE need[c] = 3 /\ data[c] # <<>>
    <2>1. /\ data'[c] = SubSeq(data[c], 1 + 1, Len(data[c])) /\ need'[c] = 2
          /\ \A d \in Clients \ {c} : data'[d] = data[d] /\ need'[d] = need[d]
      <3>1. Use(1) /\ need' = [need EXCEPT ![c] = 2]
        BY <1>2, <1>7 DEF Incomplete
      <3> QED
        BY <1>2, <3>1 DEF Use, TypeOK
    <2>2. Head(data[c])[1] = p + 1 /\ Len(data[c]) \in Nat /\ Len(data[c]) # 0
      BY <1>2, <1>4, <1>7, TakenBounds, EmptySeq DEF TypeOK
    <2>3. wire[c][p + 1] # "bad"
      BY <1>1, <1>2, <1>7, <2>2 DEF BadHeader, Kind, Number
    <2>4. Kept(c, p)'
      BY <1>2, <1>3, <1>4, <1>5, <2>3 DEF Kept
    <2>5. UsedRank(c, p)' = UsedRank(c, p) + 1
      BY <1>7, <2>1 DEF UsedRank
    <2>6. 1 <= Len(data[c])
      BY <2>2
    <2>7. Taken(c, p)'
      BY <1>2, <1>4, <1>5, <2>1, <2>5, <2>6, TakenUse
    <2>8. Stream(c)'
      BY <1>4, <1>5, <2>4, <2>7 DEF Stream, Whole
    <2> QED
      BY <1>1, <1>2, <1>3, <1>5, <1>6, <2>1, <2>8, OthersParse
  <1>8. CASE ~ (need[c] = 3 /\ data[c] # <<>>)
    <2>1. UNCHANGED <<data, need>>
      BY <1>2, <1>8 DEF Incomplete
    <2>2. Stream(c)
      BY <1>4 DEF Stream
    <2>3. Live(c)' => Live(c)
      BY <1>2 DEF Live
    <2>4. Stream(c)'
      BY <1>2, <1>3, <1>5, <2>1, <2>2, <2>3, StreamKept
    <2> QED
      BY <1>1, <1>2, <1>3, <1>5, <1>6, <2>1, <2>4, OthersParse
  <1> QED
    BY <1>7, <1>8

\* What a whole frame is, and what is left behind it.
LEMMA FrameFacts ==
    ASSUME PeerInv, NEW kinds, Frame(kinds), NEW c \in Clients, turn = c, NEW p \in Nat,
           Taken(c, p), Kept(c, p)
    PROVE  /\ Kind = wire[c][p + 1] /\ Number = p + 1 /\ wire[c][p + 1] # "bad"
           /\ wire[c][p + 1] \in kinds /\ p + 1 <= Whole(c)
           /\ Proper(wire[c], p) /\ payload[c] = InOrder(Loose(wire[c], p))
           /\ OutOfPlace <=> IF Loose(wire[c], p) = {} THEN Kind \in {"cont", "end"}
                                                       ELSE Kind \in {"text", "start"}
           /\ \A d \in Clients \ {c} : data'[d] = data[d] /\ need'[d] = need[d]
           /\ Whole(c)' = Whole(c) /\ need'[c] = 3
           /\ (conn'[c] = "open" => conn[c] = "open" /\ inbox'[c] = inbox[c]) => Taken(c, p + 1)'
  <1>1. /\ Parsing /\ Len(data[c]) >= need[c] /\ ~BadHeader /\ Kind \in kinds
        /\ Use(need[c]) /\ need' = [need EXCEPT ![c] = 3] /\ UNCHANGED <<wire, sent>>
    BY DEF Frame, peer
  <1>2. TypeOK /\ Greeted(c) /\ ~Given
    BY <1>1, ParsingFacts DEF PeerInv, Streams
  <1>3. /\ need[c] \in {2, 3} /\ Len(data[c]) \in Nat
        /\ Len(data[c]) >= need[c] => p + 1 <= Whole(c)
        /\ data[c] # <<>> => Head(data[c])[1] = p + 1
    BY <1>2, TakenBounds
  <1>4. data[c] # <<>>
    BY <1>1, <1>3, EmptySeq
  <1>5. Number = p + 1 /\ Kind = wire[c][p + 1] /\ p + 1 <= Whole(c)
    BY <1>1, <1>3, <1>4 DEF Number, Kind
  <1>6. wire[c][p + 1] # "bad"
    BY <1>1, <1>3, <1>4, <1>5 DEF BadHeader, Kept
  <1>7. Proper(wire[c], p) /\ payload[c] = InOrder(Loose(wire[c], p))
    BY <1>2 DEF Kept
  <1>8. payload[c] = <<>> <=> Loose(wire[c], p) = {}
    <2>1. /\ IsFiniteSet(Loose(wire[c], p)) /\ Len(payload[c]) = Cardinality(Loose(wire[c], p))
          /\ payload[c] \in Seq(Nat)
      BY <1>7, LooseFinite, OrderSeq
    <2> QED
      BY <1>7, <2>1, FS_EmptySet, EmptySeq, OrderEmpty
  <1>9. OutOfPlace <=> IF Loose(wire[c], p) = {} THEN Kind \in {"cont", "end"}
                                                 ELSE Kind \in {"text", "start"}
    BY <1>8 DEF OutOfPlace
  <1>10. /\ data'[c] = SubSeq(data[c], need[c] + 1, Len(data[c])) /\ need'[c] = 3
         /\ \A d \in Clients \ {c} : data'[d] = data[d] /\ need'[d] = need[d]
    BY <1>1, <1>2 DEF Use, TypeOK
  <1>11. UsedRank(c, p + 1)' = UsedRank(c, p) + need[c]
    BY <1>3, <1>10 DEF UsedRank
  <1>12. ASSUME conn'[c] = "open" => conn[c] = "open" /\ inbox'[c] = inbox[c]
         PROVE  Taken(c, p + 1)'
    <2>1. p + 1 \in Nat /\ need[c] \in Nat /\ need[c] <= Len(data[c])
      BY <1>1, <1>3
    <2> QED
      BY <1>1, <1>2, <1>10, <1>11, <1>12, <2>1, TakenUse
  <1>13. Whole(c)' = Whole(c)
    BY <1>1 DEF Whole
  <1> QED
    BY <1>1, <1>5, <1>6, <1>7, <1>9, <1>10, <1>12, <1>13

\* A frame after which the server goes on with its client.
LEMMA StreamsFrame ==
    ASSUME PeerInv, Parsing, UNCHANGED peer, NEW c \in Clients, turn = c,
           UNCHANGED <<turn, pc>>, NEW p \in Nat, p <= Whole(c)', Taken(c, p)',
           heard'[c] = Messages(wire'[c], p),
           need'[c] = 3, Proper(wire'[c], p),
           IF Given' THEN Loose(wire'[c], p) = {} ELSE payload'[c] = InOrder(Loose(wire'[c], p)),
           conn'[c] \in {conn[c], "closed"},
           \A d \in Clients \ {c} :
              /\ data'[d] = data[d] /\ need'[d] = need[d] /\ payload'[d] = payload[d]
              /\ heard'[d] = heard[d] /\ conn'[d] = conn[d] /\ inbox'[d] = inbox[d]
    PROVE  Parses' /\ Streams'
  <1>1. pc = "parse" /\ conn[c] \in {"open", "closed"} /\ Greeted(c) /\ TypeOK
    BY ParsingFacts DEF PeerInv, Streams
  <1>2. conn'[c] \in {"open", "closed"}
    BY <1>1
  <1>3. Parses'
    BY <1>1, <1>2 DEF Parses
  <1>4. Greeted(c)'
    BY <1>1, <1>2, GreetedKept DEF peer
  <1>5. Kept(c, p)'
    BY DEF Kept
  <1>6. Stream(c)'
    BY <1>5 DEF Stream
  <1>7. Streams'
    BY <1>4, <1>6, OthersParse
  <1> QED
    BY <1>3, <1>7

LEMMA StreamsDataFrame ==
    ASSUME PeerInv, DataFrame
    PROVE  Parses' /\ Streams'
  <1>1. Frame({"text", "start", "cont", "end"}) /\ Parsing /\ UNCHANGED peer
    BY DEF DataFrame, Frame
  <1>2. PICK c \in Clients :
             /\ turn = c /\ pc = "parse" /\ stack = <<>> /\ ~Given /\ TypeOK
             /\ conn[c] \in {"open", "closed"} /\ Greeted(c)
             /\ \E p \in Nat : /\ p = 0 \/ p <= Whole(c)
                               /\ heard[c] = Messages(wire[c], p)
                               /\ Taken(c, p) /\ Kept(c, p)
    BY <1>1, ParsingFacts
  <1>3. PICK p \in Nat : /\ heard[c] = Messages(wire[c], p)
                         /\ Taken(c, p) /\ Kept(c, p)
    BY <1>2
  <1>4. /\ Kind = wire[c][p + 1] /\ Number = p + 1
        /\ Kind \in {"text", "start", "cont", "end"} /\ p + 1 <= Whole(c)
        /\ Proper(wire[c], p) /\ payload[c] = InOrder(Loose(wire[c], p))
        /\ OutOfPlace <=> IF Loose(wire[c], p) = {} THEN Kind \in {"cont", "end"}
                                                    ELSE Kind \in {"text", "start"}
        /\ \A d \in Clients \ {c} : data'[d] = data[d] /\ need'[d] = need[d]
        /\ Whole(c)' = Whole(c) /\ need'[c] = 3
        /\ (conn'[c] = "open" => conn[c] = "open" /\ inbox'[c] = inbox[c]) => Taken(c, p + 1)'
    BY <1>1, <1>2, <1>3, FrameFacts
  <1>5. CASE Catch(<<>>) /\ UNCHANGED <<payload, heard>>
    BY <1>1, <1>2, <1>4, <1>5, StreamsCatch
  <1>6. CASE /\ ~OutOfPlace
             /\ payload' = [payload EXCEPT ![turn] = Append(@, Number)]
             /\ IF Kind \in {"text", "end"}
                THEN /\ heard' = [heard EXCEPT ![turn] = Append(@, payload'[turn])]
                     /\ stack' = <<"message">>
                ELSE UNCHANGED <<heard, stack>>
             /\ UNCHANGED <<socket, told, turn, pc>>
    <2> DEFINE w == wire[c]
    <2>1. UNCHANGED <<inbox, conn, turn, pc>> /\ wire' = wire
      BY <1>1, <1>6 DEF socket, peer
    <2>2. Taken(c, p + 1)'
      BY <1>4, <2>1
    <2>3. /\ Proper(w, p + 1)
          /\ IF w[p + 1] \in {"text", "end"}
             THEN /\ Messages(w, p + 1) = Append(Messages(w, p), Append(InOrder(Loose(w, p)), p + 1))
                  /\ Loose(w, p + 1) = {}
             ELSE /\ Messages(w, p + 1) = Messages(w, p)
                  /\ InOrder(Loose(w, p + 1)) = Append(InOrder(Loose(w, p)), p + 1)
      <3>1. IF Loose(w, p) = {} THEN w[p + 1] \notin {"cont", "end"}
                                ELSE w[p + 1] \notin {"text", "start"}
        BY <1>4, <1>6
      <3> QED
        BY <1>4, <3>1, FrameInPlace
    <2>4. payload'[c] = Append(InOrder(Loose(w, p)), p + 1)
      BY <1>2, <1>4, <1>6 DEF TypeOK
    <2>5. \A d \in Clients \ {c} :
              /\ data'[d] = data[d] /\ need'[d] = need[d] /\ payload'[d] = payload[d]
              /\ conn'[d] = conn[d] /\ inbox'[d] = inbox[d]
      BY <1>2, <1>4, <1>6, <2>1 DEF TypeOK
    <2>6. CASE Kind \in {"text", "end"}
      <3>1. /\ heard'[c] = Append(Messages(w, p), Append(InOrder(Loose(w, p)), p + 1))
            /\ \A d \in Clients \ {c} : heard'[d] = heard[d]
        <4>1. heard' = [heard EXCEPT ![c] = Append(@, payload'[c])]
          BY <1>2, <1>6, <2>6
        <4>2. /\ c \in Clients /\ heard \in [Clients -> Seq(Seq(Nat))]
              /\ heard[c] = Messages(w, p)
          BY <1>2, <1>3 DEF TypeOK
        <4> QED
          BY ONLY <2>4, <4>1, <4>2
      <3>2. Given'
        BY <1>6, <2>6 DEF Given
      <3>3. /\ heard'[c] = Messages(wire'[c], p + 1) /\ Proper(wire'[c], p + 1)
            /\ Loose(wire'[c], p + 1) = {}
        BY <1>4, <2>1, <2>3, <2>6, <3>1
      <3> QED
        BY <1>1, <1>2, <1>4, <2>1, <2>2, <2>5, <3>1, <3>2, <3>3, StreamsFrame
    <2>7. CASE Kind \notin {"text", "end"}
      <3>1. heard' = heard /\ ~Given'
        BY <1>2, <1>6, <2>7 DEF Given
      <3>2. /\ heard'[c] = Messages(wire'[c], p + 1) /\ Proper(wire'[c], p + 1)
            /\ payload'[c] = InOrder(Loose(wire'[c], p + 1))
        BY <1>3, <1>4, <2>1, <2>3, <2>4, <2>7, <3>1
      <3> QED
        BY <1>1, <1>2, <1>4, <2>1, <2>2, <2>5, <3>1, <3>2, StreamsFrame
    <2> QED
      BY <2>6, <2>7
  <1> QED
    BY <1>5, <1>6 DEF DataFrame

LEMMA StreamsControl ==
    ASSUME PeerInv, Ping \/ CloseFrame
    PROVE  Parses' /\ Streams'
  <1>1. /\ Frame({"ping"}) \/ Frame({"close"})
        /\ Parsing /\ UNCHANGED <<peer, payload, heard>>
    BY DEF Ping, CloseFrame, Frame
  <1>2. PICK c \in Clients :
             /\ turn = c /\ pc = "parse" /\ stack = <<>> /\ ~Given /\ TypeOK
             /\ conn[c] \in {"open", "closed"} /\ Greeted(c)
             /\ \E p \in Nat : /\ p = 0 \/ p <= Whole(c)
                               /\ heard[c] = Messages(wire[c], p)
                               /\ Taken(c, p) /\ Kept(c, p)
    BY <1>1, ParsingFacts
  <1>3. PICK p \in Nat : /\ heard[c] = Messages(wire[c], p)
                         /\ Taken(c, p) /\ Kept(c, p)
    BY <1>2
  <1>4. /\ wire[c][p + 1] \in {"ping", "close"} /\ p + 1 <= Whole(c)
        /\ Proper(wire[c], p) /\ payload[c] = InOrder(Loose(wire[c], p))
        /\ \A d \in Clients \ {c} : data'[d] = data[d] /\ need'[d] = need[d]
        /\ Whole(c)' = Whole(c) /\ need'[c] = 3
        /\ (conn'[c] = "open" => conn[c] = "open" /\ inbox'[c] = inbox[c]) => Taken(c, p + 1)'
    <2>1. CASE Frame({"ping"})
      BY <1>2, <1>3, <2>1, FrameFacts
    <2>2. CASE Frame({"close"})
      BY <1>2, <1>3, <2>2, FrameFacts
    <2> QED
      BY <1>1, <2>1, <2>2
  <1>5. CASE Catch(<<>>)
    BY <1>1, <1>2, <1>4, <1>5, StreamsCatch
  <1>6. ASSUME UNCHANGED <<turn, pc>>, ~Given',
               UNCHANGED <<inbox, conn>> \/ closeClient(c)
        PROVE  Parses' /\ Streams'
    <2>1. /\ conn'[c] \in {conn[c], "closed"}
          /\ conn'[c] = "open" => conn[c] = "open" /\ inbox'[c] = inbox[c]
          /\ \A d \in Clients \ {c} : conn'[d] = conn[d] /\ inbox'[d] = inbox[d]
      BY <1>2, <1>6 DEF closeClient, TypeOK
    <2>2. Taken(c, p + 1)'
      BY <1>4, <2>1
    <2>3. wire' = wire
      BY <1>1 DEF peer
    <2>4. /\ Proper(wire'[c], p + 1) /\ heard'[c] = Messages(wire'[c], p + 1)
          /\ payload'[c] = InOrder(Loose(wire'[c], p + 1))
      BY <1>1, <1>3, <1>4, <2>3, ControlFrame
    <2> QED
      BY <1>1, <1>2, <1>4, <1>6, <2>1, <2>2, <2>4, StreamsFrame
  <1>7. CASE Ping
    <2>1. CASE UNCHANGED <<inbox, conn, told, turn, pc, stack>>
      BY <1>2, <1>6, <2>1 DEF Given
    <2> QED
      BY <1>5, <1>7, <2>1 DEF Ping
  <1>8. CASE CloseFrame
    <2>1. CASE Disconnect(turn, <<>>) /\ UNCHANGED <<turn, pc>>
      <3>1. closeClient(c) /\ stack' = Append(<<>>, "gone")
        BY <1>2, <2>1 DEF Disconnect
      <3>2. stack' = <<"gone">>
        BY <3>1
      <3> QED
        BY <1>6, <2>1, <3>1, <3>2 DEF Given
    <2>2. CASE UNCHANGED <<socket, told, stack, turn, pc>>
      BY <1>2, <1>6, <2>2 DEF Given, socket
    <2> QED
      BY <1>5, <1>8, <2>1, <2>2 DEF CloseFrame
  <1> QED
    BY <1>7, <1>8

LEMMA StreamsParse ==
    ASSUME PeerInv, Parse
    PROVE  Parses' /\ Streams'
  <1>1. CASE Refuse
    <2>1. pc = "parse" /\ Catch(<<>>) /\ UNCHANGED <<peer, data, need, payload, heard>>
      BY <1>1 DEF Refuse, Parsing, parser
    <2> QED
      BY <2>1, StreamsCatch
  <1> QED
    BY <1>1, StreamsIncomplete, StreamsDataFrame, StreamsControl DEF Parse

LEMMA StreamsThrows ==
    ASSUME PeerInv, OuterThrows
    PROVE  Parses' /\ Streams'
  <1>1. TypeOK /\ Streams /\ UNCHANGED <<peer, parser, heard>>
    BY Throws DEF PeerInv
  <1>2. CASE pc = "parse" /\ Catch(<<>>)
    BY <1>1, <1>2, StreamsCatch DEF parser
  <1>3. CASE stack = <<"connect">> /\ closeClient(turn) /\ EndTurn /\ stack' = <<>>
    <2>1. ~Given /\ ~Given' /\ Parses'
      BY <1>3 DEF Given, EndTurn, Parses
    <2>2. Closing
      BY <1>1, <1>3, ClosingClient
    <2>3. \A d \in Clients : Live(d)' => Live(d)
      BY <1>3, <2>2 DEF Live, EndTurn, Closing
    <2> QED
      BY <1>1, <2>1, <2>2, <2>3, StreamsKept
  <1>4. CASE UNCHANGED <<socket, told, turn, pc, stack>>
    <2>1. UNCHANGED <<inbox, conn, turn, pc, stack>>
      BY <1>4 DEF socket
    <2>2. Parses' /\ (Given' <=> Given)
      BY <2>1 DEF PeerInv, Parses, Given
    <2> QED
      BY <1>1, <2>1, <2>2, ClosingClient, StreamsKept DEF Live
  <1> QED
    BY <1>2, <1>3, <1>4, Throws

LEMMA PeerInvNext ==
    ASSUME PeerInv, [Next]_vars
    PROVE  PeerInv'
  <1>1. TypeOK' /\ InTurn'
    BY TypesNext, InTurnNext DEF PeerInv
  <1>2. CASE UNCHANGED vars \/ AcceptFails
    <2>1. UNCHANGED <<peer, parser, heard, inbox, conn, turn, pc, stack>>
      BY <1>2 DEF vars, socket, view, loop, AcceptFails
    <2>2. Parses' /\ (Given' <=> Given)
      BY <2>1 DEF PeerInv, Parses, Given
    <2>3. Streams'
      BY <2>1, <2>2, ClosingClient, StreamsKept DEF PeerInv, Live
    <2> QED
      BY <1>1, <2>2, <2>3 DEF PeerInv
  <1>3. CASE ~ (UNCHANGED vars \/ AcceptFails)
    <2>1. Parses' /\ Streams'
      BY <1>3, StreamsPeer, StreamsListener, StreamsParse, StreamsApp, StreamsReturns,
         StreamsThrows DEF Next
    <2> QED
      BY <1>1, <2>1 DEF PeerInv
  <1> QED
    BY <1>2, <1>3

LEMMA PeerInvHolds == Spec => []PeerInv
  <1>1. Init => PeerInv
    BY TypesInit, StreamsInit DEF PeerInv, InTurn, Init
  <1>2. PeerInv /\ [Next]_vars => PeerInv'
    BY PeerInvNext
  <1> QED
    BY <1>1, <1>2, PTL DEF Spec
-----------------------------------------------------------------------------
(* The server implements ClientView.                                       *)

Said(c) == Messages(wire[c], Whole(c))

\* The steps of ClientView, as what they are for each client.
LEMMA ViewStutters ==
    ASSUME \A d \in Clients : Said(d)' = Said(d) /\ Phase(d)' = Phase(d), heard' = heard
    PROVE  UNCHANGED Seen!vars
  <1>1. [d \in Clients |-> Messages(wire[d], Whole(d))]' = [d \in Clients |-> Messages(wire[d], Whole(d))]
    BY DEF Said
  <1>2. [d \in Clients |-> Phase(d)]' = [d \in Clients |-> Phase(d)]
    OBVIOUS
  <1> QED
    BY <1>1, <1>2 DEF Seen!vars

LEMMA ViewSays ==
    ASSUME NEW c \in Clients, NEW x, Len(Said(c)') = Len(Said(c)) + 1, Said(c)' = Append(Said(c), x),
           Said(c)'[Len(Said(c)) + 1] = x,
           \A d \in Clients \ {c} : Said(d)' = Said(d),
           \A d \in Clients : Phase(d)' = Phase(d), heard' = heard
    PROVE  Seen!Next
  <1> DEFINE said == [d \in Clients |-> Messages(wire[d], Whole(d))]
  <1>1. \A d \in Clients : said[d] = Said(d) /\ said'[d] = Said(d)'
    BY DEF Said
  <1>2. said' = [said EXCEPT ![c] = Append(said[c], said'[c][Len(said[c]) + 1])]
    <2>1. \A d \in Clients : said'[d] = IF d = c THEN Append(Said(c), x) ELSE said[d]
      BY <1>1
    <2>2. said' = [d \in Clients |-> said'[d]] /\ said = [d \in Clients |-> said[d]]
      BY DEF Said
    <2>3. said'[c][Len(said[c]) + 1] = x
      BY <1>1
    <2> HIDE DEF said
    <2> QED
      BY <1>1, <2>1, <2>2, <2>3
  <1>3. [d \in Clients |-> Phase(d)]' = [d \in Clients |-> Phase(d)]
    OBVIOUS
  <1>4. Len(said'[c]) = Len(said[c]) + 1
    BY <1>1
  <1>5. Seen!Say(c)
    BY <1>2, <1>3, <1>4 DEF Seen!Say
  <1> QED
    BY <1>5 DEF Seen!Next

LEMMA ViewHears ==
    ASSUME NEW c \in Clients, \A d \in Clients : Said(d)' = Said(d) /\ Phase(d)' = Phase(d),
           Phase(c) \in {"in", "leaving"}, Len(heard[c]) < Len(Said(c)),
           heard' = [heard EXCEPT ![c] = Append(heard[c], Said(c)[Len(heard[c]) + 1])]
    PROVE  Seen!Next
  <1> DEFINE said == [d \in Clients |-> Messages(wire[d], Whole(d))]
  <1>1. said[c] = Said(c) /\ said' = said
    BY DEF Said
  <1>2. [d \in Clients |-> Phase(d)]' = [d \in Clients |-> Phase(d)]
    OBVIOUS
  <1>3. Seen!Hear(c)
    BY <1>1, <1>2 DEF Seen!Hear
  <1> QED
    BY <1>3 DEF Seen!Next

LEMMA ViewPhase ==
    ASSUME NEW c \in Clients, \A d \in Clients : Said(d)' = Said(d), heard' = heard,
           \A d \in Clients \ {c} : Phase(d)' = Phase(d),
           <<Phase(c), Phase(c)'>> \in {<<"new", "in">>, <<"in", "leaving">>, <<"in", "gone">>,
                                        <<"leaving", "gone">>}
    PROVE  Seen!Next
  <1> DEFINE said == [d \in Clients |-> Messages(wire[d], Whole(d))]
             phase == [d \in Clients |-> Phase(d)]
  <1>1. said' = said
    BY DEF Said
  <1>2. phase[c] = Phase(c) /\ phase' = [phase EXCEPT ![c] = Phase(c)']
    OBVIOUS
  <1>3. CASE Phase(c) = "new" /\ Phase(c)' = "in"
    <2>1. Seen!Connect(c)
      BY <1>1, <1>2, <1>3 DEF Seen!Connect
    <2> QED
      BY <2>1 DEF Seen!Next
  <1>4. CASE Phase(c) = "in" /\ Phase(c)' \in {"leaving", "gone"}
    <2>1. Seen!Disconnect(c)
      BY <1>1, <1>2, <1>4 DEF Seen!Disconnect
    <2> QED
      BY <2>1 DEF Seen!Next
  <1>5. CASE Phase(c) = "leaving" /\ Phase(c)' = "gone"
    <2>1. Seen!Leave(c)
      BY <1>1, <1>2, <1>5 DEF Seen!Leave
    <2> QED
      BY <2>1 DEF Seen!Next
  <1> QED
    BY <1>3, <1>4, <1>5

Abstract == Seen!Next \/ UNCHANGED Seen!vars

LEMMA SaidKept ==
    ASSUME UNCHANGED peer
    PROVE  \A d \in Clients : Said(d)' = Said(d)
  BY DEF peer, Said, Whole

LEMMA ViewPeer ==
    ASSUME PeerInv, Peer
    PROVE  Abstract
  <1>1. UNCHANGED <<told, heard, turn, pc>>
    BY DEF Peer, PeerGreets, PeerBegins, PeerGoesOn, PeerCloses, PeerReads, Arrives, view, loop
  <1>2. \A d \in Clients : Phase(d)' = Phase(d)
    BY <1>1 DEF Phase
  <1>3. PICK c \in Clients : \/ PeerGreets(c) \/ PeerBegins(c) \/ PeerGoesOn(c)
                             \/ PeerCloses(c) \/ PeerReads(c)
    BY DEF Peer
  <1>4. TypeOK /\ Greeted(c) /\ wire[c] \in Seq(Kinds) /\ Len(wire[c]) \in Nat
    BY LenProperties DEF PeerInv, Streams, TypeOK
  <1>5. ASSUME Said(c)' = Said(c), \A d \in Clients \ {c} : Said(d)' = Said(d)  PROVE Abstract
    BY <1>1, <1>2, <1>5, ViewStutters DEF Abstract
  <1>6. CASE PeerCloses(c) \/ PeerReads(c)
    BY <1>5, <1>6, SaidKept DEF PeerCloses, PeerReads
  <1>7. CASE PeerGreets(c) \/ PeerBegins(c) \/ PeerGoesOn(c)
    <2>1. \A d \in Clients \ {c} : wire'[d] = wire[d] /\ sent'[d] = sent[d]
      BY <1>4, <1>7 DEF PeerGreets, PeerBegins, PeerGoesOn, Arrives, TypeOK
    <2>2. \A d \in Clients \ {c} : Said(d)' = Said(d)
      BY <2>1 DEF Said, Whole
    <2>3. CASE PeerGreets(c)
      <3>1. /\ wire[c] = <<>> /\ wire' = wire /\ \E k \in 1 .. 2 : sent'[c] = <<0, k>>
            /\ sent[c][2] \in 0 .. 2
        BY <1>4, <2>3 DEF PeerGreets, Arrives, Greeted, TypeOK
      <3>2. Whole(c) = -1 /\ Whole(c)' = -1
        BY <3>1 DEF Whole
      <3> QED
        BY <1>5, <2>2, <3>1, <3>2 DEF Said
    <2>4. CASE PeerBegins(c)
      <3> DEFINE len == Len(wire[c])
      <3>1. PICK k \in Kinds : wire'[c] = Append(wire[c], k)
        BY <1>4, <2>4 DEF PeerBegins, TypeOK
      <3>2. sent'[c] = <<len + 1, 1>> /\ sent[c] \in {<<0, 2>>, <<len, 3>>}
        BY <1>4, <2>4 DEF PeerBegins, Arrives, TypeOK
      <3>3. Len(wire'[c]) = len + 1 /\ \A i \in 1 .. len : wire'[c][i] = wire[c][i]
        BY <1>4, <3>1, AppendProperties
      <3>4. Whole(c)' = len
        BY <1>4, <3>2, <3>3 DEF Whole
      <3>5. Messages(wire'[c], len) = Messages(wire[c], len)
        BY <1>4, <3>3, MessagesLocal
      <3>6. CASE sent[c] = <<len, 3>>
        <4>1. Whole(c) = len
          BY <3>6 DEF Whole
        <4> QED
          BY <1>5, <2>2, <3>4, <3>5, <4>1 DEF Said
      <3>7. CASE sent[c] = <<0, 2>>
        <4>1. len = 0 /\ Whole(c) = len - 1
          BY <1>4, <3>7 DEF Whole, Greeted
        <4>2. Messages(wire[c], Whole(c)) = <<>> /\ Messages(wire[c], len) = <<>>
          BY <4>1, MessagesNone
        <4> QED
          BY <1>5, <2>2, <3>4, <3>5, <4>2 DEF Said
      <3> QED
        BY <3>2, <3>6, <3>7
    <2>5. CASE PeerGoesOn(c)
      <3> DEFINE len == Len(wire[c])
      <3>1. PICK k \in 2 .. 3 : sent[c] = <<len, k - 1>> /\ len > 0 /\ sent'[c] = <<len, k>>
        BY <1>4, <2>5 DEF PeerGoesOn, Arrives, TypeOK
      <3>2. wire' = wire
        BY <2>5 DEF PeerGoesOn
      <3>3. CASE k = 2
        <4>1. Whole(c)' = Whole(c)
          BY <3>1, <3>2, <3>3 DEF Whole
        <4> QED
          BY <1>5, <2>2, <3>2, <4>1 DEF Said
      <3>4. CASE k = 3
        <4>1. Whole(c) = len - 1 /\ Whole(c)' = len /\ len - 1 \in Nat /\ (len - 1) + 1 = len
          BY <1>4, <3>1, <3>2, <3>4 DEF Whole
        <4> DEFINE new == InOrder(Parts(wire[c], len))
        <4>2. Said(c)' = IF len \in Ends(wire[c], len) THEN Append(Said(c), new) ELSE Said(c)
          BY <3>2, <4>1, MessagesNext DEF Said
        <4>3. CASE len \notin Ends(wire[c], len)
          BY <1>5, <2>2, <4>2, <4>3
        <4>4. CASE len \in Ends(wire[c], len)
          <5>1. Said(c) \in Seq(Seq(Nat)) /\ new \in Seq(Nat)
            BY <1>4, <3>1, <4>1, MessagesSeq, PartsFinite, OrderSeq DEF Said
          <5>2. Said(c)' = Append(Said(c), new)
            BY <4>2, <4>4
          <5>3. Len(Said(c)') = Len(Said(c)) + 1 /\ Said(c)'[Len(Said(c)) + 1] = new
            BY <5>1, <5>2, AppendProperties
          <5> QED
            BY <1>1, <1>2, <2>2, <5>2, <5>3, ViewSays DEF Abstract
        <4> QED
          BY <4>3, <4>4
      <3> QED
        BY <3>1, <3>3, <3>4
    <2> QED
      BY <1>7, <2>3, <2>4, <2>5
  <1> QED
    BY <1>3, <1>6, <1>7

\* Steps that tell the application nothing.
LEMMA ViewNothing ==
    ASSUME UNCHANGED <<peer, told, heard, turn, pc>>
    PROVE  Abstract
  <1>1. \A d \in Clients : Phase(d)' = Phase(d)
    BY DEF Phase
  <1> QED
    BY <1>1, SaidKept, ViewStutters DEF Abstract

LEMMA PhaseIs ==
    ASSUME NEW d
    PROVE  Phase(d) = IF told[d] = "gone" /\ turn = d /\ pc = "parse" THEN "leaving" ELSE told[d]
  BY DEF Phase

LEMMA PhaseNext ==
    ASSUME NEW d
    PROVE  Phase(d)' = IF told'[d] = "gone" /\ turn' = d /\ pc' = "parse" THEN "leaving" ELSE told'[d]
  BY DEF Phase

\* With the turn of a client ends the time in which it may be leaving.
LEMMA ViewEndTurn ==
    ASSUME UNCHANGED <<peer, told, heard>>, turn' = None, pc' = "idle"
    PROVE  Abstract
  <1>1. \A d \in Clients : Phase(d)' = told[d]
    BY PhaseNext
  <1>2. CASE \E c \in Clients : told[c] = "gone" /\ turn = c /\ pc = "parse"
    <2>1. PICK c \in Clients : told[c] = "gone" /\ turn = c /\ pc = "parse"
      BY <1>2
    <2>2. Phase(c) = "leaving" /\ Phase(c)' = "gone"
      BY <1>1, <2>1, PhaseIs
    <2>3. \A d \in Clients \ {c} : Phase(d)' = Phase(d)
      BY <1>1, <2>1, PhaseIs
    <2> QED
      BY <2>2, <2>3, SaidKept, ViewPhase DEF Abstract
  <1>3. CASE ~ \E c \in Clients : told[c] = "gone" /\ turn = c /\ pc = "parse"
    <2>1. \A d \in Clients : Phase(d)' = Phase(d)
      BY <1>1, <1>3, PhaseIs
    <2> QED
      BY <2>1, SaidKept, ViewStutters DEF Abstract
  <1> QED
    BY <1>2, <1>3

\* A client is told to be gone, in the parser or elsewhere.
LEMMA ViewDismissed ==
    ASSUME Inv, NEW c \in Clients, UNCHANGED <<peer, heard>>,
           told[c] = "in", Dismiss(c),
           turn' \in {turn, c}, pc = "parse" => turn' = turn,
           pc' = pc \/ (turn = c /\ pc = "parse" /\ pc' = "catch")
    PROVE  Abstract
  <1>1. told'[c] = "gone" /\ \A d \in Clients \ {c} : told'[d] = told[d]
    BY Dismissed DEF Inv, TypeOK
  <1>2. Phase(c) = "in" /\ Phase(c)' \in {"leaving", "gone"}
    BY <1>1, PhaseIs, PhaseNext
  <1>3. \A d \in Clients \ {c} : Phase(d)' = Phase(d)
    BY <1>1, PhaseIs, PhaseNext
  <1> QED
    BY <1>2, <1>3, SaidKept, ViewPhase DEF Abstract

LEMMA ViewCatch ==
    ASSUME Inv, PeerInv, pc = "parse", Catch(<<>>), UNCHANGED <<peer, heard>>
    PROVE  Abstract
  <1>1. turn \in Clients
    BY DEF Inv, Turns
  <1>2. CASE conn[turn] = "open"
    <2>1. told[turn] = "in"
      BY <1>1, <1>2 DEF Inv, Lives, Lost
    <2>2. Dismiss(turn) /\ turn' = turn /\ pc' = "catch"
      BY <1>2 DEF Catch, Disconnect
    <2> QED
      BY <1>1, <2>1, <2>2, ViewDismissed
  <1>3. CASE conn[turn] # "open"
    BY <1>3, ViewEndTurn DEF Catch, EndTurn
  <1> QED
    BY <1>2, <1>3

LEMMA ViewListener ==
    ASSUME Inv, NEW c \in Clients, Listener(c)
    PROVE  Abstract
  <1>1. turn = None /\ stack = <<>> /\ pc = "idle" /\ ~Lost(c)
    BY DEF Listener, Accept, TLSHandshake, HelloPart, HelloFails, Hello, ReadingError, Receive,
           Free, Inv, Turns, Lost
  <1>2. CASE Accept(c) \/ TLSHandshake(c) \/ HelloPart(c) \/ HelloFails(c)
    <2>1. UNCHANGED <<peer, told, heard, turn, pc>>
      BY <1>2 DEF Accept, TLSHandshake, HelloPart, HelloFails, view, loop
    <2> QED
      BY <2>1, ViewNothing
  <1>3. CASE Hello(c)
    <2>1. /\ told[c] = "new" /\ told' = [told EXCEPT ![c] = "in"] /\ pc' = "idle"
          /\ UNCHANGED <<peer, heard>>
      BY <1>1, <1>3 DEF Hello, Inv, Lives
    <2>2. told'[c] = "in" /\ \A d \in Clients \ {c} : told'[d] = told[d]
      BY <2>1 DEF Inv, TypeOK
    <2>3. /\ Phase(c) = "new" /\ Phase(c)' = "in"
          /\ \A d \in Clients \ {c} : Phase(d)' = Phase(d)
      BY <1>1, <2>1, <2>2, PhaseIs, PhaseNext
    <2> QED
      BY <2>1, <2>3, SaidKept, ViewPhase DEF Abstract
  <1>4. CASE ReadingError(c)
    <2>1. Dismiss(c) /\ turn' = c /\ UNCHANGED <<peer, heard, pc>> /\ told[c] = "in"
      BY <1>1, <1>4 DEF ReadingError, Inv, Lives
    <2> QED
      BY <1>1, <2>1, ViewDismissed
  <1>5. CASE Receive(c)
    <2>1. UNCHANGED <<peer, told, heard>> /\ turn' = c /\ told[c] = "in"
      BY <1>1, <1>5 DEF Receive, Inv, Lives, view
    <2>2. \A d \in Clients : Phase(d)' = Phase(d)
      BY <1>1, <2>1, PhaseIs, PhaseNext
    <2> QED
      BY <2>1, <2>2, SaidKept, ViewStutters DEF Abstract
  <1> QED
    BY <1>2, <1>3, <1>4, <1>5 DEF Listener

\* The message that a frame makes whole is the next that the peer has sent.
LEMMA ViewDataFrame ==
    ASSUME Inv, PeerInv, DataFrame
    PROVE  Abstract
  <1>1. Frame({"text", "start", "cont", "end"}) /\ Parsing /\ UNCHANGED peer
    BY DEF DataFrame, Frame
  <1>2. PICK c \in Clients :
             /\ turn = c /\ pc = "parse" /\ stack = <<>> /\ ~Given /\ TypeOK
             /\ conn[c] \in {"open", "closed"} /\ Greeted(c)
             /\ \E p \in Nat : /\ p = 0 \/ p <= Whole(c)
                               /\ heard[c] = Messages(wire[c], p)
                               /\ Taken(c, p) /\ Kept(c, p)
    BY <1>1, ParsingFacts
  <1>3. PICK p \in Nat : /\ heard[c] = Messages(wire[c], p)
                         /\ Taken(c, p) /\ Kept(c, p)
    BY <1>2
  <1>4. /\ Kind = wire[c][p + 1] /\ Number = p + 1
        /\ Kind \in {"text", "start", "cont", "end"} /\ p + 1 <= Whole(c)
        /\ Proper(wire[c], p) /\ payload[c] = InOrder(Loose(wire[c], p))
        /\ OutOfPlace <=> IF Loose(wire[c], p) = {} THEN Kind \in {"cont", "end"}
                                                    ELSE Kind \in {"text", "start"}
    BY <1>1, <1>2, <1>3, FrameFacts
  <1>5. CASE Catch(<<>>) /\ UNCHANGED <<payload, heard>>
    BY <1>1, <1>2, <1>5, ViewCatch
  <1>6. CASE /\ ~OutOfPlace
             /\ payload' = [payload EXCEPT ![turn] = Append(@, Number)]
             /\ IF Kind \in {"text", "end"}
                THEN /\ heard' = [heard EXCEPT ![turn] = Append(@, payload'[turn])]
                     /\ stack' = <<"message">>
                ELSE UNCHANGED <<heard, stack>>
             /\ UNCHANGED <<socket, told, turn, pc>>
    <2> DEFINE w == wire[c]
               new == Append(InOrder(Loose(w, p)), p + 1)
    <2>1. CASE Kind \notin {"text", "end"}
      BY <1>1, <1>6, <2>1, ViewNothing
    <2>2. CASE Kind \in {"text", "end"}
      <3>1. Messages(w, p + 1) = Append(Messages(w, p), new)
        <4>1. IF Loose(w, p) = {} THEN w[p + 1] \notin {"cont", "end"}
                                  ELSE w[p + 1] \notin {"text", "start"}
          BY <1>4, <1>6
        <4> QED
          BY <1>4, <2>2, <4>1, FrameInPlace
      <3>2. payload'[c] = new
        BY <1>2, <1>4, <1>6 DEF TypeOK
      <3>3. heard' = [heard EXCEPT ![c] = Append(heard[c], new)]
        BY <1>2, <1>6, <2>2, <3>2
      <3>4. /\ Messages(w, p) \in Seq(Seq(Nat)) /\ Len(Messages(w, p)) \in Nat
            /\ Messages(w, p + 1) \in Seq(Seq(Nat))
        BY MessagesSeq, LenProperties
      <3>5. new \in Seq(Nat)
        BY LooseFinite, OrderSeq, AppendProperties
      <3>6. /\ Len(Messages(w, p + 1)) = Len(heard[c]) + 1
            /\ Messages(w, p + 1)[Len(heard[c]) + 1] = new
        <4> HIDE DEF new
        <4> QED
          BY <1>3, <3>1, <3>4, <3>5, AppendProperties
      <3>7. /\ Len(Messages(w, p + 1)) <= Len(Said(c))
            /\ \A n \in 1 .. Len(Messages(w, p + 1)) : Said(c)[n] = Messages(w, p + 1)[n]
        <4>1. Whole(c) \in Int /\ p + 1 \in Int
          BY <1>2, <1>3, TakenBounds
        <4> QED
          BY <1>4, <4>1, MessagesPrefix DEF Said
      <3>8. Len(heard[c]) < Len(Said(c)) /\ Said(c)[Len(heard[c]) + 1] = new
        <4>1. Len(heard[c]) \in Nat /\ Len(Said(c)) \in Nat
          BY <1>2, <1>3, <3>4, TakenBounds, MessagesSeq DEF Said
        <4>2. Len(heard[c]) + 1 \in 1 .. Len(Messages(w, p + 1))
          BY <3>6, <4>1
        <4>3. Len(heard[c]) < Len(Said(c))
          BY <3>6, <3>7, <4>1
        <4> QED
          BY <3>6, <3>7, <4>2, <4>3
      <3>9. Phase(c) \in {"in", "leaving"}
        <4>1. told[c] \in {"in", "gone"}
          BY <1>2 DEF Inv, TypeOK, Turns, Lives
        <4> QED
          BY <1>2, <4>1, PhaseIs
      <3>10. \A d \in Clients : Said(d)' = Said(d) /\ Phase(d)' = Phase(d)
        <4>1. UNCHANGED <<told, turn, pc>>
          BY <1>6
        <4>2. \A d \in Clients : Phase(d)' = Phase(d)
          BY <4>1 DEF Phase
        <4> QED
          BY <1>1, <4>2, SaidKept
      <3> HIDE DEF new
      <3> QED
        BY <3>3, <3>8, <3>9, <3>10, ViewHears DEF Abstract
    <2> QED
      BY <2>1, <2>2
  <1> QED
    BY <1>5, <1>6 DEF DataFrame

LEMMA ViewParse ==
    ASSUME Inv, PeerInv, Parse
    PROVE  Abstract
  <1>1. pc = "parse" /\ turn \in Clients
    BY DEF Parse, Incomplete, Refuse, DataFrame, Ping, CloseFrame, Frame, Parsing, Inv, Turns
  <1>2. CASE Incomplete
    BY <1>2, ViewEndTurn DEF Incomplete, EndTurn, view
  <1>3. CASE Refuse
    BY <1>1, <1>3, ViewCatch DEF Refuse
  <1>4. CASE Ping \/ CloseFrame
    <2>1. UNCHANGED <<peer, heard>>
      BY <1>4 DEF Ping, CloseFrame, Frame
    <2>2. CASE Catch(<<>>)
      BY <1>1, <2>1, <2>2, ViewCatch
    <2>3. CASE UNCHANGED <<told, turn, pc>>
      BY <2>1, <2>3, ViewNothing
    <2>4. CASE conn[turn] = "open" /\ Disconnect(turn, <<>>) /\ UNCHANGED <<turn, pc>>
      <3>1. told[turn] = "in"
        BY <1>1, <2>4 DEF Inv, Lives, Lost
      <3>2. Dismiss(turn)
        BY <2>4 DEF Disconnect
      <3> QED
        BY <1>1, <2>1, <2>4, <3>1, <3>2, ViewDismissed
    <2> QED
      BY <1>4, <2>2, <2>3, <2>4 DEF Ping, CloseFrame
  <1> QED
    BY <1>2, <1>3, <1>4, ViewDataFrame DEF Parse

LEMMA ViewApp ==
    ASSUME Polite, Inv, App \/ SpinEnds
    PROVE  Abstract
  <1>1. CASE Idle \/ SpinEnds \/ \E c \in Clients : AppSends(c)
    <2>1. UNCHANGED <<peer, told, heard, turn, pc>>
      BY <1>1 DEF Idle, SpinEnds, AppSends, view
    <2> QED
      BY <2>1, ViewNothing
  <1>2. ASSUME NEW c \in Clients, AppDisconnects(c)  PROVE Abstract
    <2>1. told[c] = "in" /\ Dismiss(c) /\ UNCHANGED <<peer, heard, turn, pc>>
      BY <1>2 DEF AppDisconnects, Disconnect
    <2> QED
      BY <2>1, ViewDismissed
  <1> QED
    BY <1>1, <1>2 DEF App

LEMMA ViewReturns ==
    ASSUME Inv, Returns
    PROVE  Abstract
  <1>1. UNCHANGED <<peer, told, heard>>
        /\ (UNCHANGED <<turn, pc>> \/ (turn' = None /\ pc' = "idle"))
    BY DEF Returns, InnerReturns, OuterReturns, EndTurn, view
  <1> QED
    BY <1>1, ViewNothing, ViewEndTurn

LEMMA ViewThrows ==
    ASSUME Inv, PeerInv, OuterThrows
    PROVE  Abstract
  <1>1. UNCHANGED <<peer, heard>>
    BY Throws
  <1>2. CASE pc = "parse" /\ Catch(<<>>)
    BY <1>1, <1>2, ViewCatch
  <1>3. CASE EndTurn /\ UNCHANGED told
    BY <1>1, <1>3, ViewEndTurn DEF EndTurn
  <1>4. CASE UNCHANGED <<told, turn, pc>>
    BY <1>1, <1>4, ViewNothing
  <1> QED
    BY <1>2, <1>3, <1>4, Throws

LEMMA ViewNext ==
    ASSUME Polite, Inv, PeerInv, [Next]_vars
    PROVE  [Seen!Next]_Seen!vars
  <1>1. CASE UNCHANGED vars \/ AcceptFails
    <2>1. UNCHANGED <<peer, told, heard, turn, pc>>
      BY <1>1 DEF vars, view, loop, AcceptFails
    <2> QED
      BY <2>1, ViewNothing DEF Abstract
  <1>2. Next => Abstract
    BY <1>1, ViewPeer, ViewListener, ViewParse, ViewApp, ViewReturns, ViewThrows DEF Next, Abstract
  <1> QED
    BY <1>1, <1>2 DEF Abstract

LEMMA ViewInit == Init => Seen!Init
  <1> SUFFICES ASSUME Init  PROVE Seen!Init
    OBVIOUS
  <1>1. ASSUME NEW c \in Clients  PROVE Messages(wire[c], Whole(c)) = <<>> /\ Phase(c) = "new"
    <2>1. Whole(c) = -1 /\ told[c] = "new"
      BY DEF Init, Whole
    <2> QED
      BY <2>1, MessagesNone, PhaseIs
  <1> QED
    BY <1>1 DEF Init, Seen!Init

\* Of what a peer has said the application has heard the beginning: no message that
\* was not sent, none twice, none out of order and none torn, for every application,
\* whatever it does to the clients (websocket.js, addData, _processFrame and
\* _finalizeMessage).
HeardIsSaid ==
    \A c \in Clients :
        /\ Len(heard[c]) <= Len(Said(c))
        /\ \A n \in 1 .. Len(heard[c]) : heard[c][n] = Said(c)[n]

THEOREM MessagesWhole == Spec => []HeardIsSaid
  <1>1. ASSUME PeerInv, NEW c \in Clients
        PROVE  /\ Len(heard[c]) <= Len(Said(c))
               /\ \A n \in 1 .. Len(heard[c]) : heard[c][n] = Said(c)[n]
    <2>1. PICK p \in Nat : /\ p = 0 \/ p <= Whole(c)
                           /\ heard[c] = Messages(wire[c], p)
      BY <1>1 DEF PeerInv, Streams, Stream
    <2>2. Whole(c) \in Int
      BY <1>1, LenProperties DEF PeerInv, TypeOK, Whole
    <2>3. CASE p <= Whole(c)
      BY <2>1, <2>2, <2>3, MessagesPrefix DEF Said
    <2>4. CASE p = 0
      <3>1. heard[c] = <<>> /\ Len(heard[c]) = 0
        BY <2>1, <2>4, MessagesNone
      <3>2. Len(Said(c)) \in Nat
        BY <2>2, MessagesSeq, LenProperties DEF Said
      <3> QED
        BY <3>1, <3>2
    <2> QED
      BY <2>1, <2>3, <2>4
  <1>2. PeerInv => HeardIsSaid
    BY <1>1 DEF HeardIsSaid
  <1> QED
    BY <1>2, PeerInvHolds, PTL

\* With an application that does not disconnect a client of whose loss it is being
\* told, the server implements ClientView: however TCP cuts the frames of a client, and
\* whatever the callbacks do to it and to others, each of its messages that the
\* application is given is the next of those that the peer has sent, between the
\* connection and the one disconnection, or from the block that was in work then.
THEOREM ImplementsView == Polite => (Spec => AppSees)
  <1> SUFFICES ASSUME Polite  PROVE Spec => AppSees
    OBVIOUS
  <1>1. Inv /\ PeerInv /\ [Next]_vars => [Seen!Next]_Seen!vars
    BY ViewNext
  <1> QED
    BY <1>1, ViewInit, InvHolds, PeerInvHolds, PTL DEF Spec, AppSees, Seen!Spec
=============================================================================
