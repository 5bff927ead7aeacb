------------------------------- MODULE Stream -------------------------------
(***************************************************************************)
(* Receiving from a connected socket (src/lib/socket/socket.cc) or from a  *)
(* TLS connection over one (src/lib/tls/tls.cc): receive, one read, and    *)
(* receive_strict, which reads in a loop into a storage or, over TLS, into *)
(* a header storage and, from the first blank line on, into a file.        *)
(*                                                                         *)
(* The peer, the kernel and OpenSSL are external: a read takes any number  *)
(* of bytes off the stream, as many as asked for at most, and the bytes    *)
(* are chosen as they are taken.  Certificates are taken to verify, and no *)
(* header to hold a NUL.                                                   *)
(***************************************************************************)
EXTENDS Integers, Sequences

CONSTANTS
    Bytes,    \* the values of a byte
    CR, LF,
    Counts,   \* the counts scripts ask for; 0: all there is
    Block,    \* TMP_BUFFER_MAX
    Room,     \* what a storage is allocated at first
    MaxBytes  \* bound: bytes taken off the stream

ASSUME StreamConstants ==
    /\ {CR, LF} \subseteq Bytes
    /\ Counts \subseteq Nat
    /\ Block \in Nat \ {0} /\ Room \in Nat \ {0}
    /\ MaxBytes \in Nat
    /\ CR # LF

VARIABLES
    kind,      \* the class of the object: "socket" or "tls"
    blocking,  \* is its descriptor blocking?
    end,       \* the peer: "no", "closed", "reset", or "cut": TLS without a goodbye
    sent,      \* the bytes taken off the stream
    call,      \* the last call or the one in progress
    given,     \* history: the bytes that calls have given to the script
    lost       \* history: has an error taken bytes with it?

wire == <<kind, blocking, end>>
vars == <<wire, sent, call, given, lost>>

Places == {"idle", "reading", "returned", "thrown", "undefined"}

NoCall == [pc |-> "idle", count |-> 0, toFile |-> FALSE, received |-> 0,
           data |-> <<>>, allocated |-> Room,
           found |-> FALSE,  \* readHeaderAlready
           file |-> <<>>,
           moved |-> FALSE]  \* history: was a search begun in memory that add gave up?

TypeOK ==
    /\ kind \in {"socket", "tls"}
    /\ blocking \in BOOLEAN
    /\ end \in {"no", "closed", "reset", "cut"}
    /\ sent \in Seq(Bytes) /\ given \in Seq(Bytes)
    /\ call \in [pc: Places, count: Counts \cup {0}, toFile: BOOLEAN, received: Nat,
                 data: Seq(Bytes), allocated: Nat, found: BOOLEAN,
                 file: Seq(Bytes), moved: BOOLEAN]
    /\ Len(call.data) < call.allocated
    /\ lost \in BOOLEAN

Init ==
    /\ kind \in {"socket", "tls"}
    /\ blocking \in BOOLEAN
    /\ end = "no" /\ sent = <<>> /\ call = NoCall /\ given = <<>> /\ lost = FALSE
-----------------------------------------------------------------------------
(* The stream.                                                             *)

End(how) ==
    /\ end = "no"
    /\ how = "cut" => kind = "tls"
    /\ end' = how
    /\ UNCHANGED <<kind, blocking, sent, call, given, lost>>

Least(a, b) == IF a <= b THEN a ELSE b

\* The blocks that a read of at most cap bytes can take.
Blocks(cap) ==
    IF end # "no" THEN {}
    ELSE UNION {[1 .. n -> Bytes] : n \in 1 .. Least(cap, MaxBytes - Len(sent))}

\* recvfrom and SSL_read without a byte: EWOULDBLOCK (WANT_READ), the end, an
\* error.  Of a connection that was cut OpenSSL says 0 or an error.
WouldBlock == end = "no" /\ ~ blocking
AtEnd == end \in {"closed", "cut"}
Fails == end \in {"reset", "cut"}

Ready == call.pc \notin {"reading", "undefined"}
Reading == call.pc = "reading"
-----------------------------------------------------------------------------
(* How a call ends.  What it gives is the storage, and the file.           *)

Give(bytes) == given' = given \o bytes /\ UNCHANGED lost

Return ==
    /\ call' = [call EXCEPT !.pc = "returned"]
    /\ Give(call.data \o call.file)
    /\ UNCHANGED <<wire, sent>>

\* The storage is deleted with what has been read, and the error thrown.
Throw ==
    /\ call' = [call EXCEPT !.pc = "thrown"]
    /\ lost' = (lost \/ call.data \o call.file # <<>>)
    /\ UNCHANGED <<wire, sent, given>>
-----------------------------------------------------------------------------
(* receive: one read.                                                      *)

Take(n) ==
    /\ Ready
    /\ \E block \in Blocks(n) :
          /\ sent' = sent \o block
          /\ Give(block)
          /\ call' = [NoCall EXCEPT !.pc = "returned"]
    /\ UNCHANGED wire

\* An empty Buffer, or false.
TakeNothing == /\ Ready
               /\ call' = [NoCall EXCEPT !.pc = "returned"]
               /\ UNCHANGED <<wire, sent, given, lost>>

TakeFails == /\ Ready
             /\ call' = [NoCall EXCEPT !.pc = "thrown"]
             /\ UNCHANGED <<wire, sent, given, lost>>

SocketReceive(n) ==
    /\ kind = "socket"
    /\ \/ Take(n)
       \/ (WouldBlock \/ AtEnd) /\ TakeNothing
       \/ Fails /\ TakeFails

\* 0 is an end only if it is SSL_ERROR_ZERO_RETURN.
TlsReceive(n) ==
    /\ kind = "tls"
    /\ \/ Take(n)
       \/ (WouldBlock \/ end = "closed") /\ TakeNothing
       \/ Fails /\ TakeFails
-----------------------------------------------------------------------------
(* receive_strict.                                                         *)

\* The name of a file is read by both classes, and used by TLS alone.
BeginStrict(count, named) ==
    /\ Ready
    /\ call' = [NoCall EXCEPT !.pc = "reading", !.count = count,
                              !.toFile = named /\ kind = "tls"]
    /\ UNCHANGED <<wire, sent, given, lost>>

\* Mutant: what has been received is not taken off.
recv_cap_Whole == IF call.count = 0 THEN Block ELSE Least(call.count, Block)

\* What the next read may take; 0 ends the loop.
recv_cap == IF call.count = 0 THEN Block ELSE Least(call.count - call.received, Block)

\* Over TLS only the bytes of a file are counted.
Counted(n) == IF kind = "socket" \/ call.toFile THEN n ELSE 0

\* Mutant: a storage may be filled to the last byte.
Grows_Tight(n) == Len(call.data) + n > call.allocated

\* ByteStorageData::add: data that fills the allocation moves to one twice as large,
\* or more.
Grows(n) == Len(call.data) + n >= call.allocated
Grown(n) ==
    LET need == Len(call.data) + n
    IN  IF ~ Grows(n) THEN {call.allocated}
        ELSE {m \in need + 1 .. 2 * need : \E k \in 1 .. need : m = call.allocated * 2^k}

\* The call when a block has been added, in an allocation of m bytes.
Stored(block, m) == [call EXCEPT !.data = @ \o block, !.allocated = m,
                                 !.received = @ + Counted(Len(block))]

ReadStorage(block) ==
    /\ ~ call.toFile
    /\ \E m \in Grown(Len(block)) : call' = Stored(block, m)

BlankAt(bytes, i) == /\ i + 3 <= Len(bytes)
                     /\ SubSeq(bytes, i, i + 3) = <<CR, LF, CR, LF>>

\* The first blank line of bytes from an index on, or 0.
BlankLine(bytes, from) ==
    LET at == {i \in from .. Len(bytes) : BlankAt(bytes, i)}
    IN  IF at = {} THEN 0 ELSE CHOOSE i \in at : \A j \in at : i <= j

\* Mutant: the search begins with the new block.
SearchFrom_Block == Len(call.data) + 1

\* The search begins in the last bytes of the blocks before: the blank line may
\* have been cut in two.
SearchFrom == IF Len(call.data) > 3 THEN Len(call.data) - 3 ELSE 1

\* Mutant: pop_back takes the rest off, and nothing has written it.
Split_Dropped(stored, p) ==
    [stored EXCEPT !.data = SubSeq(@, 1, p + 3), !.found = TRUE]

\* What follows the blank line goes to the file and off the header.
Split(stored, p) ==
    [stored EXCEPT !.data = SubSeq(@, 1, p + 3), !.found = TRUE,
                   !.file = SubSeq(stored.data, p + 4, Len(stored.data))]

\* A block of the header.  The search begins at an address taken before add: when
\* add moves the data it runs in freed memory and finds nothing, or anything.
ReadHeader(block) ==
    /\ call.toFile /\ ~ call.found
    /\ \E m \in Grown(Len(block)) :
          LET stored == [Stored(block, m) EXCEPT !.moved = @ \/ Grows(Len(block))]
              p      == BlankLine(stored.data, SearchFrom)
          IN  call' = IF Grows(Len(block)) \/ p = 0 THEN stored ELSE Split(stored, p)

\* Nothing ends the data of a storage: strstr goes on behind it until it meets a 0,
\* and may meet a blank line, or the rest of one, that was left there.
ReadHeaderWild(block) ==
    /\ call.toFile /\ ~ call.found
    /\ Grows(Len(block)) \/ BlankLine(call.data \o block, SearchFrom) = 0
    /\ \E m \in Grown(Len(block)) :
          call' = [Stored(block, m) EXCEPT !.pc = "undefined"]

ReadBody(block) ==
    /\ call.toFile /\ call.found
    /\ call' = [call EXCEPT !.file = @ \o block, !.received = @ + Len(block)]

ReadBlock ==
    /\ Reading
    /\ \E block \in Blocks(recv_cap) :
          /\ sent' = sent \o block
          /\ \/ ReadStorage(block) \/ ReadHeader(block)
             \/ ReadHeaderWild(block) \/ ReadBody(block)
    /\ UNCHANGED <<wire, given, lost>>

\* The file takes less than the body or the rest behind the header.
WriteFails ==
    /\ Reading /\ call.toFile
    /\ \E block \in Blocks(recv_cap) :
          /\ \/ call.found
             \/ /\ ~ Grows(Len(block))
                /\ BlankLine(call.data \o block, SearchFrom) # 0
          /\ sent' = sent \o block
    /\ call' = [call EXCEPT !.pc = "thrown"]
    /\ lost' = TRUE
    /\ UNCHANGED <<wire, given>>

\* A socket that has nothing more ends the loop like the end of the stream.
SocketStops ==
    /\ Reading /\ kind = "socket"
    /\ \/ (recv_cap = 0 \/ WouldBlock \/ AtEnd) /\ Return
       \/ recv_cap # 0 /\ Fails /\ Throw

\* Over TLS it is an error like any other.
TlsStops ==
    /\ Reading /\ kind = "tls"
    /\ \/ (recv_cap = 0 \/ AtEnd) /\ Return
       \/ recv_cap # 0 /\ (WouldBlock \/ Fails) /\ Throw
-----------------------------------------------------------------------------
Next ==
    \/ \E how \in {"closed", "reset", "cut"} : End(how)
    \/ \E n \in Counts \ {0} : SocketReceive(n) \/ TlsReceive(n)
    \/ \E count \in Counts, named \in BOOLEAN : BeginStrict(count, named)
    \/ ReadBlock \/ WriteFails
    \/ SocketStops \/ TlsStops

Spec == Init /\ [][Next]_vars
-----------------------------------------------------------------------------
(* Properties.                                                             *)

Got == call.data \o call.file
Defined == call.pc # "undefined"

\* Scripts get the bytes of the stream in order and without a gap, whatever calls
\* they mix and wherever the blocks are cut: bytes are lost only with an error that
\* is thrown (receive_strict deletes its storage then).
NothingSkipped ==
    Defined /\ ~ lost => given \o (IF Reading THEN Got ELSE <<>>) = sent

\* "drop all after \r\n\r\n to file" (tls.cc:336): the header ends with the first
\* blank line and all that follows is in the file, wherever the blocks are cut,
\* the blank line too; as long as the header fits its first allocation.
AtBlankLine ==
    LET p == BlankLine(Got, 1)
    IN  IF p = 0 THEN call.file = <<>> ELSE call.data = SubSeq(Got, 1, p + 3)

HeaderSplit ==
    call.toFile /\ call.pc \in {"reading", "returned"} /\ ~ call.moved => AtBlankLine

\* The same of every header.  It fails: a first block of TMP_BUFFER_MAX bytes fills the
\* allocation, add moves it, and the blank line in it is not found.
AllSplit == call.toFile /\ call.pc = "returned" => AtBlankLine

\* receive_strict with a count leaves what follows on the stream for the next call,
\* and gives less only at the end of the stream or when the socket would block: on
\* sockets, and over TLS into a file.  Over TLS without a file received stays 0
\* (tls.cc:347), the count bounds each read alone, and nothing is claimed.
CountKept ==
    /\ call.count # 0 /\ (kind = "socket" \/ call.toFile)
    /\ call.pc \in {"reading", "returned"}
    =>
    /\ Len(Got) <= call.count
    /\ call.pc = "returned" => Len(Got) = call.count \/ end # "no" \/ ~ blocking
=============================================================================
