----------------------------- MODULE WebSocket -----------------------------
(***************************************************************************)
(* The WebSocket server (lib/websocket.js): clients from accept to their   *)
(* removal, frames cut anywhere by TCP, fragmented messages, and the       *)
(* callbacks of the application, which send and disconnect from within.    *)
(* The server runs in the event loop: one listener at a time, called when  *)
(* select has found its socket readable.                                   *)
(*                                                                         *)
(* Bytes are units <<i, k>>: the k-th part of the i-th frame, header, mask *)
(* and payload; frame 0 is the HTTP request of the handshake, in two.      *)
(* What is in a frame is its kind; a message is the sequence of the        *)
(* numbers of its frames.  The TLS handshake has no bytes.                 *)
(***************************************************************************)
EXTENDS Integers, SequencesExt

CONSTANTS Clients,    \* the connections that peers make
          None,
          Kinds,      \* the frames that peers send
          MaxFrames,  \* bound: the number of frames each peer sends
          Room,       \* the frames that fit on the way to a peer
          Secure,     \* the server has a certificate: TLS
          Polite      \* the application does not disconnect a client of whose
                      \* loss it is being told

ASSUME WebSocketAssumption ==
    /\ None \notin Clients
    /\ Kinds \subseteq {"text", "start", "cont", "end", "ping", "close", "bad"}
    /\ MaxFrames \in [Clients -> Nat] /\ Room \in Nat
    /\ Secure \in BOOLEAN /\ Polite \in BOOLEAN

VARIABLES
    wire,    \* the frames each peer has sent, the last one perhaps in part
    sent,    \* the unit it has sent last
    inbox,   \* the units that have arrived at its socket
    out,     \* the number of frames on the way to it
    conn,    \* the client in the server: none, tls, hello, open, closed
    data,    \* received and not used: client.buffer, or the block in parse
    need,    \* client.frame: the units that it waits for
    payload, \* client.payload, the unfinished message
    told, heard,  \* what the application knows: the connection (new, in, gone,
                  \* or twice: it has been told more than once that it is gone),
                  \* and the messages
    turn,    \* the client whose listener runs
    pc,      \* where it is: idle, parse, or catch, the handler of its errors
    stack,   \* the callbacks of the application that run, the last on top
    spin,    \* the client for whose socket send() waits
    up       \* no exception has left run()

peer == <<wire, sent>>
socket == <<inbox, out, conn>>
parser == <<data, need, payload>>
view == <<told, heard>>
loop == <<turn, pc, stack, spin, up>>
vars == <<peer, socket, parser, view, loop>>

Units == Nat \X (0 .. 3)

TypeOK ==
    /\ wire \in [Clients -> Seq(Kinds)]
    /\ sent \in [Clients -> Units]
    /\ inbox \in [Clients -> Seq(Units)]
    /\ out \in [Clients -> 0 .. Room]
    /\ conn \in [Clients -> {"none", "tls", "hello", "open", "closed"}]
    /\ data \in [Clients -> Seq(Units)]
    /\ need \in [Clients -> {2, 3}]
    /\ payload \in [Clients -> Seq(Nat)]
    /\ told \in [Clients -> {"new", "in", "gone", "twice"}]
    /\ heard \in [Clients -> Seq(Seq(Nat))]
    /\ turn \in Clients \cup {None} /\ spin \in Clients \cup {None}
    /\ pc \in {"idle", "parse", "catch"}
    /\ stack \in Seq({"connect", "message", "gone", "lost", "idle"})
    /\ up \in BOOLEAN

Init ==
    /\ wire = [c \in Clients |-> <<>>] /\ sent = [c \in Clients |-> <<0, 0>>]
    /\ inbox = [c \in Clients |-> <<>>]
    /\ out = [c \in Clients |-> 0]
    /\ conn = [c \in Clients |-> "none"]
    /\ data = [c \in Clients |-> <<>>]
    /\ need = [c \in Clients |-> 3]
    /\ payload = [c \in Clients |-> <<>>]
    /\ told = [c \in Clients |-> "new"] /\ heard = [c \in Clients |-> <<>>]
    /\ turn = None /\ pc = "idle" /\ stack = <<>> /\ spin = None /\ up = TRUE
-----------------------------------------------------------------------------
(* The peers: they wait for the answer to their request before they send   *)
(* frames.                                                                 *)

\* The peer has closed the connection, or it has been reset.
End == <<0, 0>>
Cut(c) == inbox[c] # <<>> /\ Last(inbox[c]) = End

Arrives(c, unit) == /\ sent' = [sent EXCEPT ![c] = unit]
                    /\ inbox' = [inbox EXCEPT ![c] = Append(@, unit)]
                    /\ UNCHANGED <<out, conn, parser, view, loop>>

PeerGreets(c) == /\ conn[c] = "hello" /\ ~Cut(c)
                 /\ \E k \in 1 .. 2 : sent[c] = <<0, k - 1>> /\ Arrives(c, <<0, k>>)
                 /\ UNCHANGED wire

PeerBegins(c) == /\ conn[c] = "open" /\ ~Cut(c)
                 /\ sent[c] \in {<<0, 2>>, <<Len(wire[c]), 3>>}
                 /\ Len(wire[c]) < MaxFrames[c]
                 /\ \E k \in Kinds : wire' = [wire EXCEPT ![c] = Append(@, k)]
                 /\ Arrives(c, <<Len(wire[c]) + 1, 1>>)

PeerGoesOn(c) == /\ conn[c] = "open" /\ ~Cut(c)
                 /\ \E k \in 2 .. 3 : /\ sent[c] = <<Len(wire[c]), k - 1>>
                                      /\ Len(wire[c]) > 0
                                      /\ Arrives(c, <<Len(wire[c]), k>>)
                 /\ UNCHANGED wire

PeerCloses(c) == /\ conn[c] \in {"tls", "hello", "open"} /\ ~Cut(c)
                 /\ inbox' = [inbox EXCEPT ![c] = Append(@, End)]
                 /\ UNCHANGED <<peer, out, conn, parser, view, loop>>

PeerReads(c) == /\ out[c] > 0 /\ ~Cut(c)
                /\ out' = [out EXCEPT ![c] = @ - 1]
                /\ UNCHANGED <<peer, inbox, conn, parser, view, loop>>
-----------------------------------------------------------------------------
(* What the listeners share.                                               *)

Free == turn = None /\ stack = <<>>
EndTurn == turn' = None /\ pc' = "idle"

\* Mutant: a socket takes everything.
Offer_Always(c) == out' = [out EXCEPT ![c] = @ + 1]
\* A frame goes if the socket takes it.
Offer(c) == out' = [out EXCEPT ![c] = IF @ < Room THEN @ + 1 ELSE @]

\* Mutant: the client that is told to be gone is not removed.
closeClient_Nothing(c) == UNCHANGED socket
\* What is on its way from and to a socket goes with it.
closeClient(c) == /\ conn' = [conn EXCEPT ![c] = "closed"]
                  /\ inbox' = [inbox EXCEPT ![c] = <<>>]
                  /\ out' = [out EXCEPT ![c] = 0]

\* ondisconnect() is called.
Dismiss(c) == told' = [told EXCEPT ![c] = IF @ = "in" THEN "gone" ELSE "twice"]

\* disconnect(): a close frame, if there is room for it, and the client is
\* removed before the application is told.
Disconnect(c, callbacks) == /\ closeClient(c)
                            /\ Dismiss(c)
                            /\ stack' = Append(callbacks, "gone")

\* The catch around the parser: it disconnects the client of the turn.
Catch(callbacks) ==
    IF conn[turn] = "open"
    THEN /\ Disconnect(turn, callbacks)
         /\ pc' = "catch" /\ UNCHANGED turn
    ELSE EndTurn /\ stack' = callbacks /\ UNCHANGED <<socket, told>>
-----------------------------------------------------------------------------
(* Connections.                                                            *)

Accept(c) == /\ Free /\ conn[c] = "none"
             /\ conn' = [conn EXCEPT ![c] = IF Secure THEN "tls" ELSE "hello"]
             /\ UNCHANGED <<peer, inbox, out, parser, view, loop>>

\* An accept that fails throws through run().
AcceptFails == /\ Free /\ \E c \in Clients : conn[c] = "none"
               /\ up' = FALSE
               /\ UNCHANGED <<peer, socket, parser, view, turn, pc, stack, spin>>

\* A part of the TLS handshake: it may go on, be done, or fail.
TLSHandshake(c) ==
    /\ Free /\ conn[c] = "tls"
    /\ \/ closeClient(c)
       \/ /\ conn' = [conn EXCEPT ![c] = "hello"]
          /\ UNCHANGED <<inbox, out>>
    /\ UNCHANGED <<peer, parser, view, loop>>

\* All that there is, behind what was left of the last block.
Block(c) == data[c] \o inbox[c]

\* The request may come in parts.
HelloPart(c) ==
    /\ Free /\ conn[c] = "hello" /\ inbox[c] # <<>> /\ ~Cut(c)
    /\ Last(Block(c)) # <<0, 2>>
    /\ data' = [data EXCEPT ![c] = Block(c)]
    /\ inbox' = [inbox EXCEPT ![c] = <<>>]
    /\ UNCHANGED <<peer, out, conn, need, payload, view, loop>>

\* It is refused if it is not as it should be, or has no application, or the
\* peer has gone, and if what has come of it is three bytes long: the blank line, found
\* at -1, is then taken for its end.  Otherwise it is answered.
HelloFails(c) ==
    /\ Free /\ conn[c] = "hello"
    /\ Cut(c) \/ inbox[c] # <<>>
    /\ closeClient(c)
    /\ UNCHANGED <<peer, parser, view, loop>>

Hello(c) ==
    /\ Free /\ conn[c] = "hello" /\ inbox[c] # <<>> /\ ~Cut(c)
    /\ Last(Block(c)) = <<0, 2>>
    /\ data' = [data EXCEPT ![c] = <<>>]
    /\ inbox' = [inbox EXCEPT ![c] = <<>>]
    /\ conn' = [conn EXCEPT ![c] = "open"]
    /\ told' = [told EXCEPT ![c] = "in"]
    /\ turn' = c /\ stack' = <<"connect">>
    /\ Offer(c)
    /\ UNCHANGED <<peer, need, payload, heard, pc, spin, up>>
-----------------------------------------------------------------------------
(* Frames.                                                                 *)

\* The data that came before the end of the connection goes with it.  The
\* application is told first, and the client removed afterwards.
ReadingError(c) ==
    /\ Free /\ conn[c] = "open" /\ Cut(c)
    /\ Dismiss(c)
    /\ turn' = c /\ stack' = <<"lost">>
    /\ UNCHANGED <<peer, socket, parser, heard, pc, spin, up>>

Receive(c) ==
    /\ Free /\ conn[c] = "open" /\ ~Cut(c) /\ inbox[c] # <<>>
    /\ data' = [data EXCEPT ![c] = Block(c)]
    /\ inbox' = [inbox EXCEPT ![c] = <<>>]
    /\ turn' = c /\ pc' = "parse"
    /\ UNCHANGED <<peer, out, conn, need, payload, view, stack, spin, up>>

Parsing == pc = "parse" /\ stack = <<>>
Number == Head(data[turn])[1]
Kind == wire[turn][Number]
BadHeader == need[turn] = 3 /\ data[turn] # <<>> /\ Kind = "bad"
Use(n) == data' = [data EXCEPT ![turn] = SubSeq(@, n + 1, Len(@))]

\* addData with less than a frame: the header is used as soon as it is
\* there, the rest in one piece.  What is left waits for the next block.
Incomplete ==
    /\ Parsing /\ Len(data[turn]) < need[turn] /\ ~BadHeader
    /\ IF need[turn] = 3 /\ data[turn] # <<>>
       THEN Use(1) /\ need' = [need EXCEPT ![turn] = 2]
       ELSE UNCHANGED <<data, need>>
    /\ EndTurn
    /\ UNCHANGED <<peer, socket, payload, view, stack, spin, up>>

\* A header that is not acceptable is refused before the rest has come.
Refuse ==
    /\ Parsing /\ BadHeader
    /\ Catch(<<>>)
    /\ UNCHANGED <<peer, parser, heard, spin, up>>

\* A whole frame, that _processFrame is called for; the next one is new.
Frame(kinds) ==
    /\ Parsing /\ Len(data[turn]) >= need[turn] /\ ~BadHeader
    /\ Kind \in kinds
    /\ Use(need[turn]) /\ need' = [need EXCEPT ![turn] = 3]
    /\ UNCHANGED <<peer, spin, up>>

OutOfPlace == IF payload[turn] = <<>> THEN Kind \in {"cont", "end"}
                                      ELSE Kind \in {"text", "start"}

\* _finalizeMessage gives the application a text that can be decoded.
DataFrame ==
    /\ Frame({"text", "start", "cont", "end"})
    /\ \/ /\ OutOfPlace \/ Kind \in {"text", "end"}
          /\ Catch(<<>>)
          /\ UNCHANGED <<payload, heard>>
       \/ /\ ~OutOfPlace
          /\ payload' = [payload EXCEPT ![turn] = Append(@, Number)]
          /\ IF Kind \in {"text", "end"}
             THEN /\ heard' = [heard EXCEPT ![turn] = Append(@, payload'[turn])]
                  /\ stack' = <<"message">>
             ELSE UNCHANGED <<heard, stack>>
          /\ UNCHANGED <<socket, told, turn, pc>>

\* The pong is sent once, and not if there is no room for it.
Ping ==
    /\ Frame({"ping"})
    /\ \/ /\ conn[turn] = "open"
          /\ Offer(turn)
          /\ UNCHANGED <<inbox, conn, told, turn, pc, stack>>
       \/ /\ conn[turn] # "open" \/ Cut(turn)
          /\ Catch(<<>>)
    /\ UNCHANGED <<payload, heard>>

\* Its status is looked for in the unfinished message.  The parser goes on.
CloseFrame ==
    /\ Frame({"close"})
    /\ \/ payload[turn] # <<>> /\ Catch(<<>>)
       \/ /\ IF conn[turn] = "open" THEN Disconnect(turn, <<>>)
                                    ELSE UNCHANGED <<socket, told, stack>>
          /\ UNCHANGED <<turn, pc>>
    /\ UNCHANGED <<payload, heard>>

Parse == Incomplete \/ Refuse \/ DataFrame \/ Ping \/ CloseFrame
-----------------------------------------------------------------------------
(* The callbacks of the application.                                       *)

Called == stack # <<>> /\ spin = None

Idle == /\ Free
        /\ stack' = <<"idle">>
        /\ UNCHANGED <<peer, socket, parser, view, turn, pc, spin, up>>

\* send() tries until all has gone.  To a peer that has gone it does nothing,
\* or throws: then the callback goes on, or OuterThrows.
AppSends(c) ==
    /\ Called /\ conn[c] = "open" /\ ~Cut(c)
    /\ IF out[c] < Room THEN Offer(c) /\ UNCHANGED spin ELSE spin' = c /\ UNCHANGED out
    /\ UNCHANGED <<peer, inbox, conn, parser, view, turn, pc, stack, up>>

\* There is room, or the connection has been reset.
SpinEnds ==
    /\ spin # None
    /\ Cut(spin) \/ out[spin] < Room
    /\ IF Cut(spin) THEN UNCHANGED out ELSE Offer(spin)
    /\ spin' = None
    /\ UNCHANGED <<peer, inbox, conn, parser, view, turn, pc, stack, up>>

AppDisconnects(c) ==
    /\ Called /\ conn[c] = "open" /\ (Polite => told[c] = "in")
    /\ Disconnect(c, stack)
    /\ UNCHANGED <<peer, parser, heard, turn, pc, spin, up>>

\* A callback that disconnect() has called from another, which goes on.
InnerReturns ==
    /\ Called /\ Len(stack) > 1
    /\ stack' = Front(stack)
    /\ UNCHANGED <<peer, socket, parser, view, turn, pc, spin, up>>

\* Mutant: the message stays when it has been given to the application.
NoMessage_Kept(c) == payload[c]
NoMessage(c) == <<>>

OuterReturns ==
    /\ Called /\ Len(stack) = 1
    /\ stack' = <<>>
    /\ payload' = IF stack = <<"message">>
                  THEN [payload EXCEPT ![turn] = NoMessage(turn)] ELSE payload
    /\ IF stack = <<"lost">> THEN closeClient(turn) ELSE UNCHANGED socket
    /\ IF pc = "parse" THEN UNCHANGED <<turn, pc>> ELSE EndTurn
    /\ UNCHANGED <<peer, data, need, view, spin, up>>

\* An exception in the callback that the server has called: the handshake and
\* the parser catch it, the reading and disconnect() from a catch do not.
OuterThrows ==
    /\ Called /\ Len(stack) = 1
    /\ CASE pc = "parse" -> Catch(<<>>) /\ UNCHANGED up
         [] stack = <<"connect">> ->
              /\ closeClient(turn)
              /\ EndTurn /\ stack' = <<>> /\ UNCHANGED <<told, up>>
         [] OTHER -> up' = FALSE /\ UNCHANGED <<socket, told, turn, pc, stack>>
    /\ UNCHANGED <<peer, parser, heard, spin>>
-----------------------------------------------------------------------------
Peer == \E c \in Clients : \/ PeerGreets(c) \/ PeerBegins(c) \/ PeerGoesOn(c)
                           \/ PeerCloses(c) \/ PeerReads(c)

Listener(c) == \/ Accept(c) \/ TLSHandshake(c)
               \/ HelloPart(c) \/ HelloFails(c) \/ Hello(c)
               \/ ReadingError(c) \/ Receive(c)

App == Idle \/ \E c \in Clients : AppSends(c) \/ AppDisconnects(c)

Returns == InnerReturns \/ OuterReturns

Next == /\ up
        /\ \/ Peer \/ AcceptFails \/ \E c \in Clients : Listener(c)
           \/ Parse \/ App \/ SpinEnds \/ Returns \/ OuterThrows

\* The event loop gets to each ready socket (EventLoop, ListenersServed), the
\* parser goes on, and a callback makes finitely many calls and returns.
Spec == /\ Init /\ [][Next]_vars
        /\ \A c \in Clients : SF_vars(up /\ (Receive(c) \/ ReadingError(c)))
        /\ WF_vars(up /\ Parse) /\ WF_vars(up /\ SpinEnds) /\ SF_vars(up /\ Returns)
-----------------------------------------------------------------------------
(* Properties.                                                             *)

\* The numbers of a finite set in their order (without the recursion of sorting,
\* so that it can be reasoned about).
InOrder(S) ==
    [n \in 1 .. Cardinality(S) |->
        CHOOSE i \in S : Cardinality({j \in S : j < i}) = n - 1]

\* The messages in the first m frames of w, by definition: each is a text frame,
\* or a start, the continuations and the end, up to the first frame that is
\* not in its place.  Control frames may stand anywhere.
Unfinished(w, i) == \E j \in 1 .. i - 1 : /\ w[j] = "start"
                                          /\ \A k \in j .. i - 1 : w[k] # "end"
Proper(w, i) == \A j \in 1 .. i :
    /\ w[j] # "bad"
    /\ w[j] \in {"text", "start"} => ~Unfinished(w, j)
    /\ w[j] \in {"cont", "end"} => Unfinished(w, j)
Parts(w, i) == IF w[i] = "text" THEN {i}
               ELSE {j \in 1 .. i : /\ w[j] \in {"start", "cont", "end"}
                                    /\ \A k \in j .. i - 1 : w[k] # "end"}
Ends(w, m) == {i \in 1 .. m : w[i] \in {"text", "end"} /\ Proper(w, i)}
Messages(w, m) ==
    [n \in 1 .. Cardinality(Ends(w, m)) |-> InOrder(Parts(w, InOrder(Ends(w, m))[n]))]

\* The frames that a peer has sent as a whole.
Whole(c) == IF sent[c][2] = 3 THEN Len(wire[c]) ELSE Len(wire[c]) - 1

Phase(c) == CASE told[c] = "gone" /\ turn = c /\ pc = "parse" -> "leaving"
              [] OTHER -> told[c]

Seen == INSTANCE ClientView WITH
           said  <- [c \in Clients |-> Messages(wire[c], Whole(c))],
           heard <- heard,
           phase <- [c \in Clients |-> Phase(c)]

\* However TCP cuts the frames of a client, and whatever the callbacks do to
\* it and to others, the application sees what ClientView promises: its
\* connection, its messages whole, in order and once, and one disconnection,
\* after which there are messages only from the block in work.
AppSees == Seen!Spec

\* As long as no send() waits for ever, whatever arrives from a connected
\* client, its end too, is read, and the work on it ends, unless an exception
\* has ended the loop.
Pending(c) == conn[c] = "open" /\ (inbox[c] # <<>> \/ turn = c)

ClientsServed ==
    []<>(spin = None) => \A c \in Clients : []<>(~Pending(c) \/ ~up)
=============================================================================
