---------------------------- MODULE StreamProofs ----------------------------
(***************************************************************************)
(* Proofs about Stream, for any bytes, counts and sizes of blocks and      *)
(* allocations.  Inv is the inductive invariant.                           *)
(***************************************************************************)
EXTENDS Stream, SequenceTheorems, WellFoundedInduction, TLAPS

-----------------------------------------------------------------------------
(* Blank lines.                                                            *)

\* A set of indices has a first one.
LEMMA FirstOne ==
    ASSUME NEW T \in SUBSET Nat, T # {}
    PROVE  \E i \in T : \A j \in T : i <= j
PROOF
  <1>1. PICK i \in T : \A j \in T : ~ (<<j, i>> \in OpToRel(<, Nat))
    BY NatLessThanWellFounded, WFMin
  <1>2. \A j \in T : ~ (j < i)
    BY <1>1 DEF OpToRel
  <1> QED
    BY <1>2

\* What BlankLine finds, and that it misses none.
LEMMA Found ==
    ASSUME NEW bytes \in Seq(Bytes), NEW from \in Nat \ {0}
    PROVE  LET p == BlankLine(bytes, from)
           IN  \/ p = 0 /\ \A i \in from .. Len(bytes) : ~ BlankAt(bytes, i)
               \/ /\ p \in from .. Len(bytes) /\ BlankAt(bytes, p)
                  /\ \A i \in from .. p - 1 : ~ BlankAt(bytes, i)
PROOF
  <1> DEFINE at == {i \in from .. Len(bytes) : BlankAt(bytes, i)}
             p  == BlankLine(bytes, from)
  <1>1. CASE at = {}
    <2>1. p = 0
      BY <1>1 DEF BlankLine
    <2> QED
      BY <1>1, <2>1
  <1>2. CASE at # {}
    <2>1. Len(bytes) \in Nat /\ at \subseteq Nat
      OBVIOUS
    <2>2. p = CHOOSE i \in at : \A j \in at : i <= j
      BY <1>2 DEF BlankLine
    <2>3. \E i \in at : \A j \in at : i <= j
      BY <1>2, <2>1, FirstOne
    <2>4. p \in at /\ \A j \in at : p <= j
      BY <2>2, <2>3
    <2> HIDE DEF p
    <2>5. \A i \in from .. p - 1 : ~ BlankAt(bytes, i)
      BY <2>1, <2>4
    <2> QED
      BY <2>4, <2>5 DEF p
  <1> QED
    BY <1>1, <1>2

\* A blank line before which there is none is the one that is found.
LEMMA IsFirst ==
    ASSUME NEW bytes \in Seq(Bytes), NEW from \in Nat \ {0}, NEW q \in from .. Len(bytes),
           BlankAt(bytes, q), \A i \in from .. q - 1 : ~ BlankAt(bytes, i)
    PROVE  BlankLine(bytes, from) = q
PROOF
  <1> DEFINE p == BlankLine(bytes, from)
  <1>1. ~ (p = 0 /\ \A i \in from .. Len(bytes) : ~ BlankAt(bytes, i))
    OBVIOUS
  <1>2. /\ p \in from .. Len(bytes) /\ BlankAt(bytes, p)
        /\ \A i \in from .. p - 1 : ~ BlankAt(bytes, i)
    BY <1>1, Found
  <1> HIDE DEF p
  <1>3. ~ (p < q) /\ ~ (q < p)
    BY <1>2
  <1>4. p = q
    BY <1>2, <1>3
  <1> QED
    BY <1>4 DEF p

\* More bytes change no blank line.
LEMMA BlankKept ==
    ASSUME NEW s \in Seq(Bytes), NEW t \in Seq(Bytes), NEW i \in Nat \ {0}, i + 3 <= Len(s)
    PROVE  BlankAt(s \o t, i) <=> BlankAt(s, i)
PROOF
  <1>1. Len(s) \in Nat /\ Len(t) \in Nat /\ Len(s \o t) = Len(s) + Len(t)
    BY ConcatProperties
  <1>2. i \in 1 .. Len(s) /\ i + 3 \in 1 .. Len(s) /\ i + 3 <= Len(s \o t)
    BY <1>1
  <1>3. SubSeq(s \o t, i, i + 3) = SubSeq(s, i, i + 3)
    BY <1>2, SubSeqOfConcat1
  <1> QED
    BY <1>2, <1>3 DEF BlankAt

LEMMA Regroup ==
    ASSUME NEW s \in Seq(Bytes), NEW t \in Seq(Bytes), NEW u \in Seq(Bytes)
    PROVE  (s \o t) \o u = s \o (t \o u)
PROOF
  BY ConcatAssociative
-----------------------------------------------------------------------------
(* The inductive invariant.                                                *)

Records == [pc: Places, count: Counts \cup {0}, toFile: BOOLEAN, received: Nat,
            data: Seq(Bytes), allocated: Nat, found: BOOLEAN,
            file: Seq(Bytes), moved: BOOLEAN]

Open == call.pc \in {"reading", "returned"}

\* Only TLS writes a file, and only what follows a blank line.
FileInv == /\ call.toFile => kind = "tls"
           /\ Open /\ ~ (call.toFile /\ call.found) => call.file = <<>>

Tracked == kind = "socket" \/ call.toFile

\* Where received is counted it is exact, and stays within the count.
ReceivedInv ==
    Reading /\ Tracked =>
        /\ call.received = Len(call.data) + Len(call.file)
        /\ call.count # 0 => call.received <= call.count

\* A header has no blank line until one is found, and then ends with its first.
Unsplit(data) == \A i \in 1 .. Len(data) : ~ BlankAt(data, i)
Header(data) == \E p \in 1 .. Len(data) :
                   /\ Len(data) = p + 3 /\ BlankAt(data, p)
                   /\ \A i \in 1 .. p - 1 : ~ BlankAt(data, i)
HeaderInv ==
    Open /\ call.toFile /\ ~ call.moved =>
        IF call.found THEN Header(call.data) ELSE Unsplit(call.data)

Inv == TypeOK /\ NothingSkipped /\ FileInv /\ ReceivedInv /\ CountKept /\ HeaderInv

\* HeaderSplit follows: what comes behind the header moves no blank line.
LEMMA Splits == Inv => HeaderSplit
PROOF
  <1> SUFFICES ASSUME Inv, call.toFile, Open, ~ call.moved
               PROVE  AtBlankLine
    BY DEF HeaderSplit, Open
  <1>1. call.data \in Seq(Bytes) /\ call.file \in Seq(Bytes)
    BY DEF Inv, TypeOK
  <1>2. /\ Got \in Seq(Bytes) /\ Len(Got) = Len(call.data) + Len(call.file)
        /\ Len(call.data) \in Nat /\ Len(call.file) \in Nat
    BY <1>1, ConcatProperties DEF Got
  <1>3. CASE ~ call.found
    <2>1. call.file = <<>> /\ Unsplit(call.data)
      BY <1>3 DEF Inv, FileInv, HeaderInv
    <2>2. Got = call.data
      BY <1>1, <2>1, ConcatEmptySeq DEF Got
    <2>3. BlankLine(Got, 1) = 0
      BY <1>2, <2>1, <2>2, Found DEF Unsplit
    <2> QED
      BY <2>1, <2>3 DEF AtBlankLine
  <1>4. CASE call.found
    <2>1. Header(call.data)
      BY <1>4 DEF Inv, HeaderInv
    <2>2. PICK p \in 1 .. Len(call.data) :
             /\ Len(call.data) = p + 3 /\ BlankAt(call.data, p)
             /\ \A i \in 1 .. p - 1 : ~ BlankAt(call.data, i)
      BY <2>1 DEF Header
    <2>3. \A i \in 1 .. p : BlankAt(Got, i) <=> BlankAt(call.data, i)
      BY <1>1, <2>2, BlankKept DEF Got
    <2>4. BlankLine(Got, 1) = p
      <3>1. p \in 1 .. Len(Got)
        <4>1. p \in 1 .. Len(call.data)
          OBVIOUS
        <4>2. Len(Got) = Len(call.data) + Len(call.file)
          BY <1>2
        <4> DEFINE m == Len(call.data)
                   n == Len(call.file)
        <4>3. m \in Nat /\ n \in Nat
          BY <1>2
        <4> HIDE DEF m, n
        <4>4. p \in 1 .. m + n
          BY <4>1, <4>3 DEF m
        <4> QED
          BY <4>2, <4>4 DEF m, n
      <3>2. BlankAt(Got, p) /\ \A i \in 1 .. p - 1 : ~ BlankAt(Got, i)
        BY <2>2, <2>3
      <3>3. 1 \in Nat \ {0}
        OBVIOUS
      <3> QED
        BY <1>2, <3>1, <3>2, <3>3, IsFirst, Zenon
    <2>5. SubSeq(Got, 1, p + 3) = call.data
      <3>1. 1 \in 1 .. Len(call.data) /\ p + 3 \in 1 .. Len(call.data)
        BY <2>2
      <3>2. SubSeq(Got, 1, p + 3) = SubSeq(call.data, 1, p + 3)
        BY <1>1, <3>1, SubSeqOfConcat1 DEF Got
      <3> QED
        BY <1>1, <2>2, <3>2, SubSeqFull
    <2> QED
      BY <2>2, <2>4, <2>5 DEF AtBlankLine
  <1> QED
    BY <1>3, <1>4

LEMMA Initially == Init => Inv
PROOF
  <1> SUFFICES ASSUME Init  PROVE Inv
    OBVIOUS
  <1>1. /\ call = NoCall /\ call \in Records
        /\ sent = <<>> /\ given = <<>> /\ <<>> \in Seq(Bytes)
        /\ call.pc = "idle" /\ ~ call.toFile /\ call.file = <<>> /\ call.count = 0
        /\ Len(call.data) < call.allocated
    BY StreamConstants DEF Init, NoCall, Records, Places
  <1>2. TypeOK
    BY <1>1 DEF Init, TypeOK, Records
  <1>3. NothingSkipped
    BY <1>1, ConcatEmptySeq DEF NothingSkipped, Reading
  <1>4. FileInv /\ ReceivedInv /\ CountKept /\ HeaderInv
    BY <1>1 DEF FileInv, ReceivedInv, CountKept, HeaderInv, Reading, Open
  <1> QED
    BY <1>2, <1>3, <1>4 DEF Inv

\* A block that a read takes.
LEMMA BlockTaken ==
    ASSUME TypeOK, NEW cap \in Int, NEW block \in Blocks(cap)
    PROVE  /\ block \in Seq(Bytes) /\ end = "no"
           /\ Len(block) \in Nat \ {0} /\ Len(block) <= cap
           /\ sent \o block \in Seq(Bytes)
PROOF
  <1>1. Len(sent) \in Nat /\ MaxBytes \in Nat
    BY StreamConstants DEF TypeOK
  <1>2. end = "no"
    BY DEF Blocks
  <1>3. PICK n \in 1 .. Least(cap, MaxBytes - Len(sent)) : block \in [1 .. n -> Bytes]
    BY <1>2 DEF Blocks
  <1>4. n \in Nat \ {0} /\ n <= cap
    BY <1>1, <1>3 DEF Least
  <1>5. block \in Seq(Bytes) /\ Len(block) = n
    BY <1>3, <1>4
  <1> QED
    BY <1>2, <1>4, <1>5, ConcatProperties DEF TypeOK
-----------------------------------------------------------------------------
(* The steps.                                                              *)

LEMMA EndKeeps ==
    ASSUME Inv, NEW how \in {"closed", "reset", "cut"}, End(how)
    PROVE  Inv'
PROOF
  <1>1. end' \in {"closed", "reset", "cut"} /\ UNCHANGED <<kind, blocking, sent, call, given, lost>>
    BY DEF End
  <1> QED
    BY <1>1, SMTT(30) DEF Inv, TypeOK, NothingSkipped, FileInv, ReceivedInv, CountKept, HeaderInv,
                Defined, Reading, Got, Tracked, Open

Fresh(pc, count, toFile) ==
    /\ call'.pc = pc /\ call'.count = count /\ call'.toFile = toFile
    /\ call'.received = 0 /\ call'.data = <<>> /\ call'.allocated = Room
    /\ call'.found = FALSE /\ call'.file = <<>> /\ call'.moved = FALSE
    /\ call' \in Records

LEMMA NoCallFields ==
    /\ NoCall \in Records
    /\ NoCall.count = 0 /\ NoCall.toFile = FALSE /\ NoCall.received = 0
    /\ NoCall.data = <<>> /\ NoCall.allocated = Room
    /\ NoCall.found = FALSE /\ NoCall.file = <<>> /\ NoCall.moved = FALSE
PROOF
  <1>1. <<>> \in Seq(Bytes) /\ Room \in Nat
    BY StreamConstants
  <1> QED
    BY <1>1 DEF NoCall, Records, Places

LEMMA FreshCall ==
    ASSUME NEW pc \in {"returned", "thrown", "reading"}, NEW count \in Counts \cup {0},
           NEW toFile \in BOOLEAN,
           call' = [NoCall EXCEPT !.pc = pc, !.count = count, !.toFile = toFile]
    PROVE  Fresh(pc, count, toFile)
PROOF
  <1>1. NoCall \in Records
    BY NoCallFields
  <1>2. call' \in Records
    BY <1>1 DEF Records, Places
  <1>3. call'.pc = pc /\ call'.count = count /\ call'.toFile = toFile
    BY <1>1 DEF Records
  <1>4. /\ call'.received = NoCall.received /\ call'.data = NoCall.data
        /\ call'.allocated = NoCall.allocated /\ call'.found = NoCall.found
        /\ call'.file = NoCall.file /\ call'.moved = NoCall.moved
    BY <1>1 DEF Records
  <1> QED
    BY <1>2, <1>3, <1>4, NoCallFields DEF Fresh

\* A call that ends at once, or a receive_strict that begins.
LEMMA FreshKeeps ==
    ASSUME Inv, Ready, NEW pc \in {"returned", "thrown", "reading"},
           NEW count \in Counts \cup {0}, pc # "reading" => count = 0,
           NEW toFile \in BOOLEAN, toFile => kind = "tls",
           Fresh(pc, count, toFile),
           pc # "reading" => ~ toFile,
           UNCHANGED <<wire, lost>>,
           NEW block \in Seq(Bytes), given' = given \o block, sent' = sent \o block
    PROVE  Inv'
PROOF
  <1>1. /\ call'.pc = pc /\ call'.count = count /\ call'.toFile = toFile
        /\ call'.received = 0 /\ call'.data = <<>> /\ call'.allocated = Room
        /\ call'.found = FALSE /\ call'.file = <<>> /\ call'.moved = FALSE
    BY DEF Fresh
  <1>2. <<>> \in Seq(Bytes) /\ Len(<<>>) = 0
    OBVIOUS
  <1>3. call' \in Records
    BY DEF Fresh
  <1>4. given' \in Seq(Bytes) /\ sent' \in Seq(Bytes)
    BY ConcatProperties DEF Inv, TypeOK
  <1>5. TypeOK'
    BY <1>1, <1>2, <1>3, <1>4, StreamConstants DEF Inv, TypeOK, Records, wire
  <1>6. NothingSkipped'
    <2> SUFFICES ASSUME ~ lost  PROVE given' \o (IF Reading THEN Got ELSE <<>>)' = sent'
      BY DEF NothingSkipped, wire
    <2>1. Defined /\ ~ Reading
      BY DEF Ready, Reading, Defined
    <2>2. given = sent
      BY <2>1, ConcatEmptySeq DEF Inv, NothingSkipped, TypeOK
    <2>3. Got' = <<>>
      BY <1>1, <1>2, ConcatEmptySeq DEF Got
    <2> QED
      BY <2>2, <2>3, <1>4, ConcatEmptySeq
  <1>7. FileInv' /\ ReceivedInv'
    <2>1. kind' = kind
      BY DEF wire
    <2>2. FileInv'
      BY <1>1, <2>1 DEF FileInv
    <2>3. Len(call'.data) = 0 /\ Len(call'.file) = 0
      BY <1>1, <1>2
    <2>4. count # 0 => 0 <= count
      BY StreamConstants
    <2>5. ReceivedInv'
      BY <1>1, <2>3, <2>4 DEF ReceivedInv
    <2> QED
      BY <2>2, <2>5
  <1>8. CountKept'
    <2> SUFFICES ASSUME count # 0  PROVE CountKept'
      BY <1>1 DEF CountKept
    <2>1. Got' = <<>> /\ pc = "reading"
      BY <1>1, <1>2, ConcatEmptySeq DEF Got
    <2> QED
      BY <1>1, <1>2, <2>1, StreamConstants DEF CountKept
  <1>9. HeaderInv'
    BY <1>1, <1>2 DEF HeaderInv, Unsplit, Open
  <1> QED
    BY <1>5, <1>6, <1>7, <1>8, <1>9 DEF Inv

LEMMA ReceiveKeeps ==
    ASSUME Inv, NEW n \in Counts \ {0}, SocketReceive(n) \/ TlsReceive(n)
    PROVE  Inv'
PROOF
  <1>1. Take(n) \/ TakeNothing \/ TakeFails
    BY DEF SocketReceive, TlsReceive
  <1>2. n \in Int /\ <<>> \in Seq(Bytes) /\ given \in Seq(Bytes) /\ sent \in Seq(Bytes)
    BY StreamConstants DEF Inv, TypeOK
  <1>4. \A pc \in {"returned", "thrown"} :
           call' = [NoCall EXCEPT !.pc = pc] => Fresh(pc, 0, FALSE)
    <2> SUFFICES ASSUME NEW pc \in {"returned", "thrown"},
                        call' = [NoCall EXCEPT !.pc = pc]
                 PROVE  Fresh(pc, 0, FALSE)
      OBVIOUS
    <2>1. [NoCall EXCEPT !.pc = pc] =
             [NoCall EXCEPT !.pc = pc, !.count = 0, !.toFile = FALSE]
      BY NoCallFields DEF Records
    <2> QED
      BY <2>1, FreshCall
  <1>5. CASE Take(n)
    <2>1. PICK block \in Blocks(n) :
             sent' = sent \o block /\ given' = given \o block /\ UNCHANGED lost
      BY <1>5 DEF Take, Give
    <2>2. block \in Seq(Bytes)
      BY <1>2, BlockTaken DEF Inv
    <2>3. Ready /\ UNCHANGED wire /\ call' = [NoCall EXCEPT !.pc = "returned"]
      BY <1>5 DEF Take
    <2> QED
      BY <1>4, <2>1, <2>2, <2>3, FreshKeeps
  <1>6. CASE TakeNothing \/ TakeFails
    <2>1. Ready /\ UNCHANGED <<wire, sent, given, lost>>
      BY <1>6 DEF TakeNothing, TakeFails
    <2>2. given' = given \o <<>> /\ sent' = sent \o <<>>
      BY <1>2, <2>1, ConcatEmptySeq
    <2>3. PICK pc \in {"returned", "thrown"} : call' = [NoCall EXCEPT !.pc = pc]
      BY <1>6 DEF TakeNothing, TakeFails
    <2> QED
      BY <1>2, <1>4, <2>1, <2>2, <2>3, FreshKeeps
  <1> QED
    BY <1>1, <1>5, <1>6

LEMMA BeginKeeps ==
    ASSUME Inv, NEW count \in Counts, NEW named \in BOOLEAN, BeginStrict(count, named)
    PROVE  Inv'
PROOF
  <1>1. <<>> \in Seq(Bytes) /\ given \in Seq(Bytes) /\ sent \in Seq(Bytes)
    BY DEF Inv, TypeOK
  <1>2. Ready /\ UNCHANGED <<wire, sent, given, lost>>
    BY DEF BeginStrict
  <1>3. given' = given \o <<>> /\ sent' = sent \o <<>>
    BY <1>1, <1>2, ConcatEmptySeq
  <1>4. PICK toFile \in BOOLEAN : toFile = (named /\ kind = "tls")
    OBVIOUS
  <1>5. Fresh("reading", count, toFile)
    BY <1>4, FreshCall DEF BeginStrict
  <1> QED
    BY <1>1, <1>2, <1>3, <1>4, <1>5, FreshKeeps

LEMMA CallTypes ==
    TypeOK => /\ call \in Records
              /\ call.data \in Seq(Bytes) /\ call.file \in Seq(Bytes)
              /\ Len(call.data) \in Nat /\ Len(call.file) \in Nat
              /\ call.received \in Nat /\ call.allocated \in Nat /\ call.count \in Nat
              /\ call.toFile \in BOOLEAN /\ call.found \in BOOLEAN /\ call.moved \in BOOLEAN
              /\ Got \in Seq(Bytes) /\ Len(Got) = Len(call.data) + Len(call.file)
PROOF
  <1> SUFFICES ASSUME TypeOK
               PROVE  /\ call \in Records
                      /\ call.data \in Seq(Bytes) /\ call.file \in Seq(Bytes)
                      /\ Len(call.data) \in Nat /\ Len(call.file) \in Nat
                      /\ call.received \in Nat /\ call.allocated \in Nat /\ call.count \in Nat
                      /\ call.toFile \in BOOLEAN /\ call.found \in BOOLEAN
                      /\ call.moved \in BOOLEAN
                      /\ Got \in Seq(Bytes) /\ Len(Got) = Len(call.data) + Len(call.file)
    OBVIOUS
  <1>1. call \in Records
    BY DEF TypeOK, Records
  <1>2. /\ call.data \in Seq(Bytes) /\ call.file \in Seq(Bytes)
        /\ call.received \in Nat /\ call.allocated \in Nat /\ call.count \in Nat
        /\ call.toFile \in BOOLEAN /\ call.found \in BOOLEAN /\ call.moved \in BOOLEAN
    <2>1. /\ call.data \in Seq(Bytes) /\ call.file \in Seq(Bytes)
          /\ call.received \in Nat /\ call.allocated \in Nat
          /\ call.count \in Counts \cup {0}
      BY <1>1 DEF Records
    <2>2. call.toFile \in BOOLEAN /\ call.found \in BOOLEAN /\ call.moved \in BOOLEAN
      BY <1>1 DEF Records
    <2>3. call.count \in Nat
      <3>1. Counts \subseteq Nat /\ 0 \in Nat
        BY StreamConstants
      <3> QED
        BY <2>1, <3>1, Zenon
    <2> QED
      BY <2>1, <2>2, <2>3
  <1>3. Len(call.data) \in Nat /\ Len(call.file) \in Nat
    BY <1>2
  <1>4. Got \in Seq(Bytes) /\ Len(Got) = Len(call.data) + Len(call.file)
    BY <1>2, ConcatProperties DEF Got
  <1> QED
    BY <1>1, <1>2, <1>3, <1>4

\* receive_strict returns what it has, with its count reached or the stream at a stop.
LEMMA ReturnKeeps ==
    ASSUME Inv, Reading, Return,
           recv_cap = 0 \/ end # "no" \/ (kind = "socket" /\ ~ blocking)
    PROVE  Inv'
PROOF
  <1>1. /\ call' = [call EXCEPT !.pc = "returned"]
        /\ given' = given \o Got /\ UNCHANGED <<wire, sent, lost>>
    BY DEF Return, Give, Got
  <1>2. /\ call'.pc = "returned" /\ call'.count = call.count
        /\ call'.toFile = call.toFile /\ call'.received = call.received
        /\ call'.data = call.data /\ call'.allocated = call.allocated
        /\ call'.found = call.found /\ call'.file = call.file
        /\ call'.moved = call.moved /\ call' \in Records
    BY <1>1, CallTypes DEF Inv, Records, Places
  <1>3. TypeOK'
    <2>1. given' \in Seq(Bytes)
      BY <1>1, CallTypes, ConcatProperties DEF Inv, TypeOK
    <2> QED
      BY <1>1, <1>2, <2>1 DEF Inv, TypeOK, Records, wire
  <1>4. NothingSkipped'
    <2>1. ~ lost => given \o Got = sent
      BY DEF Inv, NothingSkipped, Reading, Defined
    <2>2. ~ lost => given' \o <<>> = sent'
      BY <1>1, <2>1, <1>3, ConcatEmptySeq DEF TypeOK
    <2>3. ~ Reading'
      BY <1>2 DEF Reading
    <2> QED
      BY <1>1, <2>2, <2>3 DEF NothingSkipped
  <1>5. FileInv' /\ ReceivedInv'
    BY <1>1, <1>2 DEF Inv, FileInv, ReceivedInv, Reading, Open, wire
  <1>6. CountKept'
    <2> SUFFICES ASSUME call.count # 0, Tracked
                 PROVE  Len(Got) <= call.count /\
                        (Len(Got) = call.count \/ end # "no" \/ ~ blocking)
      BY <1>1, <1>2 DEF CountKept, Got, Tracked, wire
    <2>1. call.received = Len(Got) /\ call.received <= call.count
      BY CallTypes DEF Inv, ReceivedInv
    <2>2. recv_cap = 0 => call.received = call.count
      BY CallTypes, StreamConstants DEF Inv, recv_cap, Least
    <2> QED
      BY <2>1, <2>2
  <1>7. HeaderInv'
    BY <1>2 DEF Inv, HeaderInv, Open, Reading
  <1> QED
    BY <1>3, <1>4, <1>5, <1>6, <1>7 DEF Inv

\* A call that ends with an error.  What it has taken is lost, or nothing.
LEMMA ErrorKeeps ==
    ASSUME Inv, Reading, call' = [call EXCEPT !.pc = "thrown"],
           UNCHANGED <<wire, given>>, lost' \in BOOLEAN, sent' \in Seq(Bytes),
           ~ lost' => ~ lost /\ Got = <<>> /\ sent' = sent
    PROVE  Inv'
PROOF
  <1>1. /\ call'.pc = "thrown" /\ call'.data = call.data
        /\ call'.toFile = call.toFile
        /\ call'.allocated = call.allocated /\ call' \in Records
    BY CallTypes DEF Inv, Records, Places
  <1>2. TypeOK'
    BY <1>1 DEF Inv, TypeOK, Records, wire
  <1>3. NothingSkipped'
    BY <1>1 DEF Inv, NothingSkipped, Reading, Defined
  <1>4. FileInv' /\ ReceivedInv' /\ CountKept' /\ HeaderInv'
    BY <1>1 DEF Inv, FileInv, ReceivedInv, CountKept, HeaderInv, Reading, Open, wire
  <1> QED
    BY <1>2, <1>3, <1>4 DEF Inv

LEMMA StopsKeep ==
    ASSUME Inv, SocketStops \/ TlsStops
    PROVE  Inv'
PROOF
  <1>1. Reading
    BY DEF SocketStops, TlsStops
  <1>2. CASE Throw
    <2>1. /\ call' = [call EXCEPT !.pc = "thrown"]
          /\ lost' = (lost \/ Got # <<>>) /\ UNCHANGED <<wire, sent, given>>
      BY <1>2 DEF Throw, Got
    <2>2. lost' \in BOOLEAN /\ sent' \in Seq(Bytes) /\ lost \in BOOLEAN
      BY <2>1 DEF Inv, TypeOK
    <2> QED
      BY <1>1, <2>1, <2>2, ErrorKeeps
  <1>3. CASE Return /\ (recv_cap = 0 \/ end # "no" \/ (kind = "socket" /\ ~ blocking))
    BY <1>1, <1>3, ReturnKeeps
  <1> QED
    BY <1>2, <1>3 DEF SocketStops, TlsStops, WouldBlock, AtEnd

LEMMA Cap ==
    ASSUME Inv, Reading
    PROVE  /\ recv_cap \in Int
           /\ Tracked /\ call.count # 0 => recv_cap <= call.count - call.received
PROOF
  <1>1. call.count \in Nat /\ call.received \in Nat /\ Block \in Nat
    BY CallTypes, StreamConstants DEF Inv
  <1> QED
    BY <1>1 DEF recv_cap, Least

LEMMA WriteFailsKeeps == ASSUME Inv, WriteFails  PROVE Inv'
PROOF
  <1>1. Reading /\ call' = [call EXCEPT !.pc = "thrown"] /\ lost' = TRUE /\ UNCHANGED <<wire, given>>
    BY DEF WriteFails
  <1>2. PICK block \in Blocks(recv_cap) : sent' = sent \o block
    BY DEF WriteFails
  <1>3. sent' \in Seq(Bytes)
    BY <1>1, <1>2, BlockTaken, Cap DEF Inv
  <1> QED
    BY <1>1, <1>3, ErrorKeeps
-----------------------------------------------------------------------------
(* The reads of receive_strict.                                            *)

\* A block has been added to the storage.
Adds(block, m, moved) ==
    /\ call'.data = call.data \o block /\ call'.allocated = m
    /\ call'.received = call.received + Counted(Len(block))
    /\ call'.moved = moved
    /\ call'.pc = call.pc /\ call'.count = call.count /\ call'.toFile = call.toFile
    /\ call'.found = call.found /\ call'.file = call.file
    /\ call' \in Records

LEMMA StoredAdds ==
    ASSUME TypeOK, NEW block \in Seq(Bytes), NEW m \in Nat, NEW moved \in BOOLEAN,
           \/ call' = Stored(block, m) /\ moved = call.moved
           \/ call' = [Stored(block, m) EXCEPT !.moved = moved]
    PROVE  Adds(block, m, moved)
PROOF
  <1>1. call \in Records /\ call.data \o block \in Seq(Bytes) /\ call.received \in Nat
    BY CallTypes, ConcatProperties
  <1>2. call.received + Counted(Len(block)) \in Nat
    <2>1. Len(block) \in Nat
      OBVIOUS
    <2> QED
      BY <1>1, <2>1 DEF Counted
  <1> DEFINE data == call.data \o block
             received == call.received + Counted(Len(block))
  <1>3. Stored(block, m) = [call EXCEPT !.data = data, !.allocated = m, !.received = received]
    BY DEF Stored
  <1>4. data \in Seq(Bytes) /\ received \in Nat
    BY <1>1, <1>2
  <1> HIDE DEF data, received
  <1>5. Stored(block, m) \in Records
    BY <1>1, <1>3, <1>4 DEF Records
  <1>6. /\ Stored(block, m).data = data /\ Stored(block, m).allocated = m
        /\ Stored(block, m).received = received
    BY <1>1, <1>3 DEF Records
  <1>7. /\ Stored(block, m).pc = call.pc /\ Stored(block, m).count = call.count
        /\ Stored(block, m).toFile = call.toFile /\ Stored(block, m).found = call.found
        /\ Stored(block, m).file = call.file /\ Stored(block, m).moved = call.moved
    BY <1>1, <1>3 DEF Records
  <1>8. CASE call' = Stored(block, m) /\ moved = call.moved
    BY <1>5, <1>6, <1>7, <1>8 DEF Adds, data, received
  <1>9. CASE call' = [Stored(block, m) EXCEPT !.moved = moved]
    <2>1. call' \in Records
      BY <1>5, <1>9 DEF Records
    <2>2. /\ call'.data = Stored(block, m).data
          /\ call'.allocated = Stored(block, m).allocated
          /\ call'.received = Stored(block, m).received
          /\ call'.pc = Stored(block, m).pc /\ call'.count = Stored(block, m).count
          /\ call'.toFile = Stored(block, m).toFile /\ call'.found = Stored(block, m).found
          /\ call'.file = Stored(block, m).file /\ call'.moved = moved
      BY <1>5, <1>9 DEF Records
    <2> QED
      BY <1>6, <1>7, <2>1, <2>2 DEF Adds, data, received
  <1> QED
    BY <1>8, <1>9

\* An allocation has room for a terminator.
LEMMA GrownRoom ==
    ASSUME TypeOK, NEW n \in Nat, NEW m \in Grown(n)
    PROVE  m \in Nat /\ Len(call.data) + n < m
PROOF
  <1>1. Len(call.data) \in Nat /\ call.allocated \in Nat
    BY CallTypes
  <1>2. CASE Grows(n)
    <2>1. m \in Len(call.data) + n + 1 .. 2 * (Len(call.data) + n)
      BY <1>2 DEF Grown
    <2> QED
      BY <1>1, <2>1
  <1>3. CASE ~ Grows(n)
    <2>1. m = call.allocated
      BY <1>3 DEF Grown
    <2> QED
      BY <1>1, <1>3, <2>1 DEF Grows
  <1> QED
    BY <1>2, <1>3

\* What a read adds, it adds to the end of what the call has got.
LEMMA AddKeeps ==
    ASSUME Inv, Reading, NEW block \in Blocks(recv_cap), NEW m \in Grown(Len(block)),
           NEW moved \in BOOLEAN, Adds(block, m, moved),
           ~ (call.toFile /\ call.found),
           sent' = sent \o block, UNCHANGED <<wire, given, lost>>,
           call.toFile /\ ~ moved => Unsplit(call.data \o block)
    PROVE  Inv'
PROOF
  <1>1. /\ block \in Seq(Bytes) /\ Len(block) \in Nat \ {0} /\ Len(block) <= recv_cap
        /\ sent' \in Seq(Bytes)
    BY BlockTaken, Cap DEF Inv
  <1>2. m \in Nat /\ Len(call.data) + Len(block) < m
    BY <1>1, GrownRoom DEF Inv
  <1>3. /\ call.data \in Seq(Bytes) /\ Len(call.data) \in Nat
        /\ call'.data \in Seq(Bytes) /\ Len(call'.data) = Len(call.data) + Len(block)
    BY <1>1, CallTypes, ConcatProperties DEF Inv, Adds
  <1>4. call'.pc = "reading" /\ call.file = <<>> /\ call'.file = <<>>
    BY DEF Inv, FileInv, Open, Reading, Adds
  <1>5. TypeOK'
    BY <1>1, <1>2, <1>3 DEF Inv, TypeOK, Adds, Records, wire
  <1>6. Got = call.data /\ Got' = call.data \o block
    BY <1>3, <1>4, ConcatEmptySeq DEF Got, Adds
  <1>7. NothingSkipped'
    <2>1. ~ lost => given \o call.data = sent
      BY <1>6 DEF Inv, NothingSkipped, Reading, Defined
    <2>2. given \in Seq(Bytes)
      BY DEF Inv, TypeOK
    <2>3. (given \o call.data) \o block = given \o (call.data \o block)
      BY <1>1, <1>3, <2>2, Regroup, Zenon
    <2>4. Reading'
      BY <1>4 DEF Reading
    <2> SUFFICES ASSUME ~ lost  PROVE given' \o (IF Reading THEN Got ELSE <<>>)' = sent'
      BY DEF NothingSkipped
    <2>5. given' \o (IF Reading THEN Got ELSE <<>>)' = given \o (call.data \o block)
      BY <1>6, <2>4
    <2> QED
      BY <2>1, <2>3, <2>5
  <1>8. FileInv'
    BY <1>4 DEF Inv, FileInv, Adds, wire
  <1>9. ASSUME Tracked
        PROVE  /\ call'.received = Len(call'.data)
               /\ call.count # 0 => call'.received <= call.count
    <2>1. call.received = Len(call.data)
      BY <1>3, <1>4, <1>9, CallTypes DEF Inv, ReceivedInv
    <2>2. call'.received = call.received + Len(block)
      BY <1>9 DEF Adds, Counted, Tracked
    <2>3. call.count # 0 => Len(block) <= call.count - call.received
      BY <1>1, <1>9, Cap, CallTypes DEF Inv
    <2> QED
      BY <1>1, <1>3, <2>1, <2>2, <2>3, CallTypes DEF Inv
  <1>10. Tracked' <=> Tracked
    BY DEF Adds, Tracked, wire
  <1>11. ReceivedInv'
    <2>1. Len(call'.file) = 0
      BY <1>4
    <2> QED
      BY <1>3, <1>9, <1>10, <2>1 DEF ReceivedInv, Adds
  <1>12. CountKept'
    <2> SUFFICES ASSUME call'.count # 0, Tracked
                 PROVE  Len(Got') <= call'.count
      BY <1>4, <1>10 DEF CountKept, Tracked
    <2> QED
      BY <1>3, <1>6, <1>9 DEF Adds
  <1>13. HeaderInv'
    BY DEF HeaderInv, Adds
  <1> QED
    BY <1>5, <1>7, <1>8, <1>11, <1>12, <1>13 DEF Inv

LEMMA SearchesFrom ==
    TypeOK => /\ SearchFrom \in Nat \ {0}
              /\ SearchFrom > 1 => SearchFrom = Len(call.data) - 3
PROOF
  <1> SUFFICES ASSUME TypeOK
               PROVE  /\ SearchFrom \in Nat \ {0}
                      /\ SearchFrom > 1 => SearchFrom = Len(call.data) - 3
    OBVIOUS
  <1>1. PICK n \in Nat : n = Len(call.data)
    BY CallTypes
  <1> DEFINE from == IF n > 3 THEN n - 3 ELSE 1
  <1>2. SearchFrom = from
    BY <1>1 DEF SearchFrom
  <1>3. from \in Nat \ {0} /\ (from > 1 => from = n - 3)
    OBVIOUS
  <1> HIDE DEF from
  <1> QED
    BY <1>1, <1>2, <1>3, Zenon

\* A blank line that is not in the data before a block is met by a search from the last
\* four bytes of it on.
LEMMA SearchMeets ==
    ASSUME TypeOK, Unsplit(call.data), NEW block \in Seq(Bytes)
    PROVE  /\ SearchFrom \in Nat \ {0}
           /\ \A i \in 1 .. SearchFrom - 1 : ~ BlankAt(call.data \o block, i)
PROOF
  <1>1. call.data \in Seq(Bytes) /\ Len(call.data) \in Nat
    BY CallTypes
  <1>2. SearchFrom \in Nat \ {0} /\ (SearchFrom > 1 => SearchFrom = Len(call.data) - 3)
    BY SearchesFrom
  <1>3. ASSUME NEW i \in 1 .. SearchFrom - 1
        PROVE  ~ BlankAt(call.data \o block, i)
    <2>1. i \in Nat \ {0} /\ i \in 1 .. Len(call.data) /\ i + 3 <= Len(call.data)
      BY <1>1, <1>2
    <2>2. ~ BlankAt(call.data, i)
      BY <2>1 DEF Unsplit
    <2> QED
      BY <1>1, <2>1, <2>2, BlankKept
  <1> QED
    BY <1>2, <1>3

LEMMA StorageKeeps ==
    ASSUME Inv, Reading, NEW block \in Blocks(recv_cap), ReadStorage(block),
           sent' = sent \o block, UNCHANGED <<wire, given, lost>>
    PROVE  Inv'
PROOF
  <1>1. PICK m \in Grown(Len(block)) : call' = Stored(block, m)
    BY DEF ReadStorage
  <1>2. block \in Seq(Bytes) /\ Len(block) \in Nat
    BY BlockTaken, Cap DEF Inv
  <1>3. m \in Nat
    BY <1>2, GrownRoom DEF Inv
  <1>4. call.moved \in BOOLEAN /\ TypeOK
    BY CallTypes DEF Inv
  <1>5. Adds(block, m, call.moved)
    BY <1>1, <1>2, <1>3, <1>4, StoredAdds
  <1>6. ~ call.toFile
    BY DEF ReadStorage
  <1> QED
    BY <1>4, <1>5, <1>6, AddKeeps

\* The blank line has been found: the header ends with it, the rest is in the file.
Splitted(block, m, p) ==
    /\ call'.data = SubSeq(call.data \o block, 1, p + 3)
    /\ call'.file = SubSeq(call.data \o block, p + 4, Len(call.data \o block))
    /\ call'.received = call.received + Counted(Len(block))
    /\ call'.allocated = m /\ call'.found = TRUE /\ call'.moved \in BOOLEAN
    /\ call'.moved = call.moved
    /\ call'.pc = call.pc /\ call'.count = call.count /\ call'.toFile = call.toFile
    /\ call' \in Records

LEMMA SplitFields ==
    ASSUME TypeOK, NEW block \in Seq(Bytes), NEW m \in Nat, NEW p \in Nat \ {0},
           NEW stored, stored \in Records,
           stored.data = call.data \o block, stored.allocated = m,
           stored.received = call.received + Counted(Len(block)),
           stored.moved = call.moved, stored.pc = call.pc, stored.count = call.count,
           stored.toFile = call.toFile,
           p + 3 <= Len(call.data \o block),
           call' = Split(stored, p)
    PROVE  Splitted(block, m, p)
PROOF
  <1> DEFINE all  == call.data \o block
             head == SubSeq(all, 1, p + 3)
             rest == SubSeq(all, p + 4, Len(all))
  <1>1. all \in Seq(Bytes) /\ Len(all) \in Nat
    BY CallTypes, ConcatProperties
  <1>2. head \in Seq(Bytes) /\ rest \in Seq(Bytes)
    <2> HIDE DEF all
    <2>1. \A i \in 1 .. p + 3 : i \in 1 .. Len(all)
      BY <1>1 DEF all
    <2>2. \A i \in p + 4 .. Len(all) : i \in 1 .. Len(all)
      BY <1>1
    <2>3. head \in Seq(Bytes)
      BY <1>1, <2>1, SubSeqProperties
    <2>4. rest \in Seq(Bytes)
      BY <1>1, <2>2, SubSeqProperties
    <2> QED
      BY <2>3, <2>4
  <1>3. call' = [stored EXCEPT !.data = head, !.found = TRUE, !.file = rest]
    BY DEF Split
  <1> HIDE DEF head, rest
  <1>4. call' \in Records
    BY <1>2, <1>3 DEF Records
  <1>5. /\ call'.data = head /\ call'.file = rest /\ call'.found = TRUE
        /\ call'.received = stored.received /\ call'.allocated = stored.allocated
        /\ call'.moved = stored.moved /\ call'.pc = stored.pc
        /\ call'.count = stored.count /\ call'.toFile = stored.toFile
    BY <1>3 DEF Records
  <1>6. call.moved \in BOOLEAN
    BY CallTypes
  <1> QED
    BY <1>4, <1>5, <1>6 DEF Splitted, head, rest

\* The split keeps all bytes, and what is before the first blank line and it.
LEMMA SplitKeeps ==
    ASSUME Inv, Reading, NEW block \in Blocks(recv_cap), NEW m \in Nat,
           Len(call.data) + Len(block) < m,
           NEW p \in 1 .. Len(call.data \o block), call.toFile,
           BlankAt(call.data \o block, p),
           ~ call.moved => \A i \in 1 .. p - 1 : ~ BlankAt(call.data \o block, i),
           ~ call.found, Splitted(block, m, p),
           sent' = sent \o block, UNCHANGED <<wire, given, lost>>
    PROVE  Inv'
PROOF
  <1> DEFINE all == call.data \o block
  <1>1. /\ block \in Seq(Bytes) /\ Len(block) \in Nat \ {0} /\ Len(block) <= recv_cap
        /\ sent' \in Seq(Bytes)
    BY BlockTaken, Cap DEF Inv
  <1>2. /\ call.data \in Seq(Bytes) /\ Len(call.data) \in Nat
        /\ all \in Seq(Bytes) /\ Len(all) = Len(call.data) + Len(block)
        /\ Len(all) \in Nat
    BY <1>1, CallTypes, ConcatProperties DEF Inv
  <1>3. p \in Nat \ {0} /\ p + 3 <= Len(all)
    BY <1>2 DEF BlankAt
  <1>4. call'.data = SubSeq(all, 1, p + 3) /\ call'.file = SubSeq(all, p + 4, Len(all))
    BY DEF Splitted
  <1>5. call'.pc = "reading" /\ call'.toFile /\ call'.count = call.count /\ call'.found = TRUE
        /\ call'.moved = call.moved /\ call' \in Records /\ call'.allocated = m
    BY DEF Splitted, Reading
  <1>6. call.file = <<>>
    BY DEF Inv, FileInv, Open, Reading
  <1> HIDE DEF all
  <1>7. /\ call'.data \in Seq(Bytes) /\ Len(call'.data) = p + 3
        /\ call'.file \in Seq(Bytes)
    <2>1. call'.data \in Seq(Bytes) /\ call'.file \in Seq(Bytes)
      BY <1>5 DEF Records
    <2>2. Len(call'.data) = p + 3
      BY <1>2, <1>3, <1>4, SubSeqProperties
    <2> QED
      BY <2>1, <2>2
  <1>8. Got' = all
    <2>1. SubSeq(all, 1, p + 3) \o SubSeq(all, (p + 3) + 1, Len(all)) = SubSeq(all, 1, Len(all))
      <3>1. 1 \in 1 .. Len(all) + 1 /\ p + 3 \in 1 - 1 .. Len(all)
        BY <1>2, <1>3
      <3>2. Len(all) \in p + 3 .. Len(all)
        BY <1>2, <1>3
      <3> QED
        BY <1>2, <3>1, <3>2, ConcatAdjacentSubSeq
    <2>2. SubSeq(all, 1, Len(all)) = all
      BY <1>2, SubSeqFull
    <2>3. (p + 3) + 1 = p + 4
      BY <1>3
    <2> QED
      BY <1>4, <2>1, <2>2, <2>3 DEF Got
  <1>9. Len(call'.data) + Len(call'.file) = Len(all)
    <2>1. call'.data \o call'.file = all
      BY <1>8 DEF Got
    <2>2. \A a, b \in Seq(Bytes) : Len(a \o b) = Len(a) + Len(b)
      BY ConcatProperties
    <2> QED
      BY <1>7, <2>1, <2>2
  <1>10. TypeOK'
    <2>1. Len(call'.data) < call'.allocated
      BY <1>2, <1>3, <1>5, <1>7
    <2> QED
      BY <1>1, <1>5, <2>1 DEF Inv, TypeOK, Records, wire
  <1>11. NothingSkipped'
    <2>1. given \in Seq(Bytes) /\ Got = call.data
      BY <1>2, <1>6, ConcatEmptySeq DEF Inv, TypeOK, Got
    <2>2. ~ lost => given \o call.data = sent
      BY <2>1 DEF Inv, NothingSkipped, Reading, Defined
    <2>3. (given \o call.data) \o block = given \o all
      BY <1>1, <1>2, <2>1, Regroup, Zenon DEF all
    <2>4. Reading'
      BY <1>5 DEF Reading
    <2> SUFFICES ASSUME ~ lost  PROVE given' \o (IF Reading THEN Got ELSE <<>>)' = sent'
      BY DEF NothingSkipped
    <2>5. given' \o (IF Reading THEN Got ELSE <<>>)' = given \o all
      BY <1>8, <2>4
    <2> QED
      BY <2>2, <2>3, <2>5
  <1>12. FileInv'
    BY <1>5 DEF Inv, FileInv, wire
  <1>13. /\ call'.received = Len(all)
         /\ call.count # 0 => call'.received <= call.count
    <2>1. Tracked
      BY DEF Tracked
    <2>2. call.received = Len(call.data)
      BY <1>2, <1>6, <2>1, CallTypes DEF Inv, ReceivedInv
    <2>3. call'.received = call.received + Len(block)
      BY DEF Splitted, Counted
    <2>4. call.count # 0 => Len(block) <= call.count - call.received
      BY <1>1, <2>1, Cap, CallTypes DEF Inv
    <2> QED
      BY <1>1, <1>2, <2>2, <2>3, <2>4, CallTypes DEF Inv
  <1>14. ReceivedInv'
    BY <1>5, <1>9, <1>13 DEF ReceivedInv
  <1>15. CountKept'
    <2> SUFFICES ASSUME call.count # 0  PROVE Len(Got') <= call'.count
      BY <1>5 DEF CountKept
    <2> QED
      BY <1>5, <1>8, <1>13
  <1>16. HeaderInv'
    <2> SUFFICES ASSUME ~ call.moved  PROVE Header(call'.data)
      BY <1>5 DEF HeaderInv
    <2>1. ASSUME NEW i \in 1 .. p
          PROVE  BlankAt(call'.data, i) <=> BlankAt(all, i)
      <3>1. i \in Nat \ {0} /\ i + 3 <= Len(call'.data)
        BY <1>3, <1>7
      <3>2. BlankAt(call'.data \o call'.file, i) <=> BlankAt(call'.data, i)
        BY <1>7, <3>1, BlankKept
      <3> QED
        BY <1>8, <3>2 DEF Got
    <2>2. BlankAt(all, p) /\ \A i \in 1 .. p - 1 : ~ BlankAt(all, i)
      BY DEF all
    <2>3. BlankAt(call'.data, p)
      BY <1>3, <2>1, <2>2
    <2>4. \A i \in 1 .. p - 1 : ~ BlankAt(call'.data, i)
      BY <1>3, <2>1, <2>2
    <2>5. p \in 1 .. Len(call'.data)
      BY <1>3, <1>7
    <2> QED
      BY <1>7, <2>3, <2>4, <2>5 DEF Header
  <1> QED
    BY <1>10, <1>11, <1>12, <1>14, <1>15, <1>16 DEF Inv

LEMMA HeaderKeeps ==
    ASSUME Inv, Reading, NEW block \in Blocks(recv_cap), ReadHeader(block),
           sent' = sent \o block, UNCHANGED <<wire, given, lost>>
    PROVE  Inv'
PROOF
  <1>1. block \in Seq(Bytes) /\ Len(block) \in Nat /\ TypeOK
    BY BlockTaken, Cap DEF Inv
  <1>2. call.toFile /\ ~ call.found
    BY DEF ReadHeader
  <1> DEFINE all   == call.data \o block
             moved == call.moved \/ Grows(Len(block))
             q     == BlankLine(all, SearchFrom)
             stored(m) == [Stored(block, m) EXCEPT !.moved = @ \/ Grows(Len(block))]
  <1>3. all \in Seq(Bytes) /\ Len(all) \in Nat /\ call \in Records /\ call.received \in Nat
    BY <1>1, CallTypes, ConcatProperties
  <1>4. ASSUME NEW m \in Nat
        PROVE  /\ stored(m) \in Records /\ stored(m).data = all /\ stored(m).allocated = m
               /\ stored(m).received = call.received + Counted(Len(block))
               /\ stored(m).moved = moved /\ stored(m).pc = call.pc
               /\ stored(m).count = call.count /\ stored(m).toFile = call.toFile
               /\ stored(m).found = call.found /\ stored(m).file = call.file
    <2> DEFINE received == call.received + Counted(Len(block))
    <2>1. received \in Nat
      BY <1>1, <1>3 DEF Counted
    <2>2. moved \in BOOLEAN
      BY <1>1, CallTypes DEF Grows
    <2>3. stored(m) = [[call EXCEPT !.data = all, !.allocated = m, !.received = received]
                          EXCEPT !.moved = @ \/ Grows(Len(block))]
      BY DEF Stored
    <2> HIDE DEF received, all
    <2>4. stored(m) = [call EXCEPT !.data = all, !.allocated = m, !.received = received,
                                   !.moved = moved]
      BY <1>3, <2>3 DEF Records
    <2> HIDE DEF moved, stored
    <2>5. stored(m) \in Records
      BY <1>3, <2>1, <2>2, <2>4 DEF Records
    <2>6. /\ stored(m).data = all /\ stored(m).allocated = m
          /\ stored(m).received = received /\ stored(m).moved = moved
      BY <1>3, <2>4 DEF Records
    <2>7. /\ stored(m).pc = call.pc /\ stored(m).count = call.count
          /\ stored(m).toFile = call.toFile /\ stored(m).found = call.found
          /\ stored(m).file = call.file
      BY <1>3, <2>4 DEF Records
    <2> QED
      BY <2>5, <2>6, <2>7 DEF received
  <1>5. PICK m \in Grown(Len(block)) :
           call' = IF Grows(Len(block)) \/ BlankLine(stored(m).data, SearchFrom) = 0
                   THEN stored(m) ELSE Split(stored(m), BlankLine(stored(m).data, SearchFrom))
    BY DEF ReadHeader
  <1>6. m \in Nat /\ Len(call.data) + Len(block) < m
    BY <1>1, GrownRoom
  <1>7. call' = IF Grows(Len(block)) \/ q = 0 THEN stored(m) ELSE Split(stored(m), q)
    <2>1. stored(m).data = all
      BY <1>4, <1>6
    <2> HIDE DEF stored, all
    <2> QED
      BY <1>5, <2>1
  <1>8. ~ call.moved => Unsplit(call.data)
    BY <1>2 DEF Inv, HeaderInv, Open, Reading
  <1>9. SearchFrom \in Nat \ {0}
    BY <1>1, SearchesFrom
  <1>10. moved \in BOOLEAN
    BY <1>1, CallTypes DEF Grows
  <1>11. CASE Grows(Len(block)) \/ q = 0
    <2>1. Adds(block, m, moved)
      BY <1>4, <1>6, <1>7, <1>11 DEF Adds
    <2>2. ~ moved => Unsplit(all)
      <3> SUFFICES ASSUME ~ moved  PROVE Unsplit(all)
        OBVIOUS
      <3>1. q = 0 /\ Unsplit(call.data)
        BY <1>8, <1>11
      <3>2. \A i \in 1 .. SearchFrom - 1 : ~ BlankAt(all, i)
        BY <1>1, <3>1, SearchMeets
      <3>3. \A i \in SearchFrom .. Len(all) : ~ BlankAt(all, i)
        <4> HIDE DEF all
        <4>1. 0 \notin SearchFrom .. Len(all)
          BY <1>3, <1>9
        <4> QED
          BY <1>3, <1>9, <3>1, <4>1, Found, Zenon
      <3> HIDE DEF all
      <3> QED
        BY <1>3, <1>9, <3>2, <3>3 DEF Unsplit
    <2> HIDE DEF moved
    <2> QED
      BY <1>2, <1>10, <2>1, <2>2, AddKeeps
  <1>12. CASE ~ Grows(Len(block)) /\ q # 0
    <2>1. /\ q \in SearchFrom .. Len(all) /\ BlankAt(all, q)
          /\ \A i \in SearchFrom .. q - 1 : ~ BlankAt(all, i)
      BY <1>3, <1>9, <1>12, Found
    <2>2. call' = Split(stored(m), q)
      BY <1>7, <1>12
    <2> HIDE DEF q
    <2>3. q \in 1 .. Len(all) /\ q \in Nat \ {0} /\ q + 3 <= Len(all)
      BY <1>3, <1>9, <2>1 DEF BlankAt
    <2>4. ~ call.moved => \A i \in 1 .. q - 1 : ~ BlankAt(all, i)
      <3> SUFFICES ASSUME ~ call.moved  PROVE \A i \in 1 .. q - 1 : ~ BlankAt(all, i)
        OBVIOUS
      <3>1. \A i \in 1 .. SearchFrom - 1 : ~ BlankAt(all, i)
        BY <1>1, <1>8, SearchMeets
      <3> QED
        BY <1>9, <2>1, <2>3, <3>1
    <2>5. moved = call.moved
      BY <1>12, <1>1, CallTypes
    <2>6. Splitted(block, m, q)
      BY <1>1, <1>4, <1>6, <2>2, <2>3, <2>5, SplitFields, ZenonT(30)
    <2> QED
      BY <1>2, <1>6, <2>1, <2>3, <2>4, <2>6, SplitKeeps
  <1> QED
    BY <1>11, <1>12

\* What is behind the blank line can no longer be told.
LEMMA WildKeeps ==
    ASSUME Inv, Reading, NEW block \in Blocks(recv_cap), ReadHeaderWild(block),
           sent' = sent \o block, UNCHANGED <<wire, given, lost>>
    PROVE  Inv'
PROOF
  <1>1. block \in Seq(Bytes) /\ Len(block) \in Nat /\ sent' \in Seq(Bytes)
    BY BlockTaken, Cap DEF Inv
  <1>2. PICK m \in Grown(Len(block)) : call' = [Stored(block, m) EXCEPT !.pc = "undefined"]
    BY DEF ReadHeaderWild
  <1>3. m \in Nat /\ Len(call.data) + Len(block) < m
    BY <1>1, GrownRoom DEF Inv
  <1> DEFINE data == call.data \o block
             received == call.received + Counted(Len(block))
  <1>4. call \in Records /\ data \in Seq(Bytes) /\ Len(data) = Len(call.data) + Len(block)
        /\ received \in Nat
    <2>1. Counted(Len(block)) \in Nat
      BY <1>1 DEF Counted
    <2> QED
      BY <1>1, <2>1, CallTypes, ConcatProperties DEF Inv
  <1>5. call' = [[call EXCEPT !.data = data, !.allocated = m, !.received = received]
                    EXCEPT !.pc = "undefined"]
    BY <1>2 DEF Stored
  <1> HIDE DEF data, received
  <1>6. call' \in Records
    BY <1>3, <1>4, <1>5 DEF Records, Places
  <1>7. call'.data = data /\ call'.allocated = m /\ call'.toFile = call.toFile
        /\ call'.pc = "undefined"
    BY <1>4, <1>5 DEF Records
  <1>8. TypeOK'
    BY <1>1, <1>3, <1>4, <1>6, <1>7 DEF Inv, TypeOK, Records, wire
  <1>9. FileInv'
    BY <1>7 DEF Inv, FileInv, Open, wire
  <1> QED
    BY <1>7, <1>8, <1>9
       DEF Inv, NothingSkipped, Defined, ReceivedInv, CountKept, HeaderInv, Reading, Open

LEMMA BodyKeeps ==
    ASSUME Inv, Reading, NEW block \in Blocks(recv_cap), ReadBody(block),
           sent' = sent \o block, UNCHANGED <<wire, given, lost>>
    PROVE  Inv'
PROOF
  <1>1. /\ block \in Seq(Bytes) /\ Len(block) \in Nat \ {0} /\ Len(block) <= recv_cap
        /\ sent' \in Seq(Bytes)
    BY BlockTaken, Cap DEF Inv
  <1>2. /\ call \in Records /\ call.data \in Seq(Bytes) /\ call.file \in Seq(Bytes)
        /\ Len(call.data) \in Nat /\ Len(call.file) \in Nat /\ call.received \in Nat
        /\ call.count \in Nat
        /\ Got \in Seq(Bytes) /\ Len(Got) = Len(call.data) + Len(call.file)
    BY CallTypes DEF Inv
  <1> DEFINE file     == call.file \o block
             received == call.received + Len(block)
  <1>3. file \in Seq(Bytes) /\ Len(file) = Len(call.file) + Len(block) /\ received \in Nat
    BY <1>1, <1>2, ConcatProperties
  <1>4. call' = [call EXCEPT !.file = file, !.received = received]
    BY DEF ReadBody
  <1> HIDE DEF file, received
  <1>5. call' \in Records
    BY <1>2, <1>3, <1>4 DEF Records
  <1>6. /\ call'.file = file /\ call'.received = received /\ call'.data = call.data
        /\ call'.pc = "reading" /\ call'.count = call.count /\ call'.toFile = call.toFile
        /\ call'.found = call.found /\ call'.moved = call.moved
        /\ call'.allocated = call.allocated
    BY <1>2, <1>4 DEF Records, Reading
  <1>7. call.toFile /\ call.found
    BY DEF ReadBody
  <1>8. Got' = Got \o block
    <2>1. (call.data \o call.file) \o block = call.data \o file
      <3>1. call.data \in Seq(Bytes) /\ call.file \in Seq(Bytes) /\ block \in Seq(Bytes)
        BY <1>1, <1>2
      <3> QED
        BY <3>1, Regroup DEF file
    <2> QED
      BY <1>6, <2>1 DEF Got
  <1>9. TypeOK'
    BY <1>1, <1>5, <1>6 DEF Inv, TypeOK, Records, wire
  <1>10. NothingSkipped'
    <2>1. given \in Seq(Bytes)
      BY DEF Inv, TypeOK
    <2>2. ~ lost => given \o Got = sent
      BY DEF Inv, NothingSkipped, Reading, Defined
    <2>3. (given \o Got) \o block = given \o (Got \o block)
      BY <1>1, <1>2, <2>1, Regroup, Zenon
    <2>4. Reading'
      BY <1>6 DEF Reading
    <2> SUFFICES ASSUME ~ lost  PROVE given' \o (IF Reading THEN Got ELSE <<>>)' = sent'
      BY DEF NothingSkipped
    <2>5. given' \o (IF Reading THEN Got ELSE <<>>)' = given \o (Got \o block)
      BY <1>8, <2>4
    <2> QED
      BY <2>2, <2>3, <2>5
  <1>11. FileInv'
    BY <1>6, <1>7 DEF Inv, FileInv, wire
  <1>12. /\ call'.received = Len(call'.data) + Len(call'.file)
         /\ call.count # 0 => call'.received <= call.count
    <2>1. Tracked
      BY <1>7 DEF Tracked
    <2>2. call.received = Len(call.data) + Len(call.file)
      BY <2>1 DEF Inv, ReceivedInv
    <2>3. call.count # 0 => Len(block) <= call.count - call.received
      BY <1>1, <1>2, <2>1, Cap
    <2>4. call'.received = call.received + Len(block) /\ Len(call'.data) = Len(call.data)
          /\ Len(call'.file) = Len(call.file) + Len(block)
      BY <1>3, <1>6 DEF received
    <2>5. Len(block) \in Nat
      BY <1>1
    <2>6. /\ Len(call.data) \in Nat /\ Len(call.file) \in Nat /\ call.received \in Nat
          /\ call.count \in Nat
      BY <1>2
    <2>7. call'.received = Len(call'.data) + Len(call'.file)
      <3>1. PICK a, b, c \in Nat : a = Len(call.data) /\ b = Len(call.file) /\ c = Len(block)
        BY <2>5, <2>6
      <3>2. Len(call'.data) = a /\ Len(call'.file) = b + c /\ call'.received = (a + b) + c
        BY <2>2, <2>4, <3>1
      <3>3. (a + b) + c = a + (b + c)
        OBVIOUS
      <3> QED
        BY <3>2, <3>3
    <2>8. call.count # 0 => call'.received <= call.count
      BY <2>3, <2>4, <2>5, <2>6
    <2> QED
      BY <2>7, <2>8
  <1>13. ReceivedInv'
    BY <1>6, <1>12 DEF ReceivedInv
  <1>14. CountKept'
    <2> SUFFICES ASSUME call.count # 0  PROVE Len(Got') <= call'.count
      BY <1>6 DEF CountKept
    <2>1. Len(Got') = Len(call'.data) + Len(call'.file)
      <3>1. call'.data \in Seq(Bytes) /\ call'.file \in Seq(Bytes)
        BY <1>2, <1>3, <1>6
      <3> QED
        BY <3>1, ConcatProperties DEF Got
    <2> QED
      BY <1>6, <1>12, <2>1
  <1>15. HeaderInv'
    <2> SUFFICES ASSUME ~ call.moved  PROVE Header(call'.data)
      BY <1>6, <1>7 DEF HeaderInv
    <2> QED
      BY <1>6, <1>7 DEF Inv, HeaderInv, Open, Reading
  <1> QED
    BY <1>9, <1>10, <1>11, <1>13, <1>14, <1>15 DEF Inv

LEMMA ReadKeeps == ASSUME Inv, ReadBlock  PROVE Inv'
PROOF
  <1>1. Reading /\ UNCHANGED <<wire, given, lost>>
    BY DEF ReadBlock
  <1>2. PICK block \in Blocks(recv_cap) :
           /\ sent' = sent \o block
           /\ \/ ReadStorage(block) \/ ReadHeader(block)
              \/ ReadHeaderWild(block) \/ ReadBody(block)
    BY DEF ReadBlock
  <1> QED
    BY <1>1, <1>2, StorageKeeps, HeaderKeeps, WildKeeps, BodyKeeps
-----------------------------------------------------------------------------
LEMMA StepKeeps == Inv /\ [Next]_vars => Inv'
PROOF
  <1> SUFFICES ASSUME Inv, [Next]_vars  PROVE Inv'
    OBVIOUS
  <1>1. ASSUME NEW how \in {"closed", "reset", "cut"}, End(how)  PROVE Inv'
    BY <1>1, EndKeeps
  <1>2. ASSUME NEW n \in Counts \ {0}, SocketReceive(n) \/ TlsReceive(n)  PROVE Inv'
    BY <1>2, ReceiveKeeps
  <1>3. ASSUME NEW count \in Counts, NEW named \in BOOLEAN, BeginStrict(count, named)
        PROVE  Inv'
    BY <1>3, BeginKeeps
  <1>4. CASE ReadBlock
    BY <1>4, ReadKeeps
  <1>5. CASE WriteFails
    BY <1>5, WriteFailsKeeps
  <1>6. CASE SocketStops \/ TlsStops
    BY <1>6, StopsKeep
  <1>7. CASE UNCHANGED vars
    BY <1>7 DEF vars, wire, Inv, TypeOK, NothingSkipped, FileInv, ReceivedInv, CountKept,
                HeaderInv, Defined, Reading, Got, Tracked, Open
  <1> QED
    BY <1>1, <1>2, <1>3, <1>4, <1>5, <1>6, <1>7 DEF Next

LEMMA Invariant == Spec => []Inv
PROOF
  BY Initially, StepKeeps, PTL DEF Spec

\* A storage always has room for the byte that ends it, however many bytes are read
\* into it, and every field of a call stays in its domain.
THEOREM TypeCorrect == Spec => []TypeOK
PROOF
  <1>1. Inv => TypeOK
    BY DEF Inv
  <1> QED
    BY <1>1, Invariant, PTL

\* Whatever receive and receive_strict calls a script mixes, on a socket or over TLS,
\* and wherever the blocks are cut, it gets the stream in order and without a gap, but
\* for what an error takes with it.
THEOREM NothingIsSkipped == Spec => []NothingSkipped
PROOF
  <1>1. Inv => NothingSkipped
    BY DEF Inv
  <1> QED
    BY <1>1, Invariant, PTL

\* receive_strict over TLS divides the stream behind the first blank line, also when
\* the blank line lies across blocks, as long as the header fits its allocation.
THEOREM HeadersSplit == Spec => []HeaderSplit
PROOF
  BY Splits, Invariant, PTL

\* receive_strict with a count takes no byte more off the stream than it was asked for,
\* and fewer only at the end or when the socket would block: on sockets, and over TLS
\* into a file (_receive_strict; not over TLS without one, tls.cc:347).
THEOREM CountsKept == Spec => []CountKept
PROOF
  <1>1. Inv => CountKept
    BY DEF Inv
  <1> QED
    BY <1>1, Invariant, PTL
=============================================================================
