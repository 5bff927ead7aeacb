------------------------------ MODULE Process ------------------------------
(***************************************************************************)
(* Child processes and their pipes (src/lib/process/process.cc): exec,     *)
(* exec2, open3, exec3 and fork, with the children running beside the      *)
(* script.  A process has a table of the pipe ends it holds; fork copies   *)
(* the whole table, since no descriptor is closed on exec.  A pipe ends,   *)
(* for who reads it, when it is empty and no process holds its write end;  *)
(* a write to a pipe without readers fails (SIGPIPE is ignored).           *)
(*                                                                         *)
(* The program a child runs is external: it reads, writes and ends as it   *)
(* likes, within bounds, and a system call it has begun blocks it.  What   *)
(* the grandchildren of a shell do is left out, and so is system(), that   *)
(* has no pipe.                                                            *)
(***************************************************************************)
EXTENDS Integers, Sequences, FiniteSets

CONSTANTS N,          \* bound: the calls of a script, each with its child
          Kinds,      \* the methods that are called
          Faults,     \* the system calls that may fail: pipe, fork, popen, read
          Cap,        \* what a pipe holds
          MAX_BUFFER, \* the most a read returns
          MaxIn, MaxOut, MaxErr  \* bounds: bytes of input, output and errors

ASSUME LimitsAssumption ==
    /\ N \in Nat
    /\ Kinds \subseteq {"exec", "exec2", "exec3", "fork"}
    /\ Cap \in Nat \ {0} /\ MAX_BUFFER \in Nat \ {0}
    /\ MaxIn \in Nat /\ MaxOut \in Nat /\ MaxErr \in Nat

VARIABLES pc,      \* where the script is: idle, or in a call
          cur,     \* the last call
          kind,    \* the method of each call
          outcome, \* how it has ended: open, ok or error
          child,   \* its child: none, starting, running, zombie, reaped
          doing,   \* the system call the child is in, on which stream
          reads, writes, \* the ends of pipes each process holds
          pipe,    \* the bytes in each pipe
          input,   \* the size of the current call's input
          sent,    \* how much of that has been written
          eof,     \* the children that have read to the end of their input
          made,    \* how much each child has written
          written, \* what the child of the current call has written
          got      \* what the current call has collected of that

local == <<input, sent, written, got>>    \* of the current call
family == <<child, doing, eof, made>>
vars == <<pc, cur, kind, outcome, reads, writes, pipe, local, family>>

Calls == 1 .. N
Parent == 0   \* the process of the script; a child has the number of its call
Streams == {"in", "out", "err"}
Bytes == {"text", "nul"}
Nothing == [s \in Streams |-> <<>>]
Processes == Calls \cup {Parent}
Ends == Calls \X Streams

\* exec2 and open3 differ in nothing that is modelled.
Pipes(k) == CASE k \in {"exec2", "exec3"} -> Streams
              [] k = "fork" -> {"in"}
              [] k = "exec" -> {"out"}
              [] k = "none" -> {}

Own(c)  == {c} \X Pipes(kind[c])
Writers(e) == {p \in Processes : e \in writes[p]}
Readers(e) == {p \in Processes : e \in reads[p]}
AtEnd(e) == pipe[e] = <<>> /\ Writers(e) = {}
\* Mutant: one byte more goes in than fits.
Full_OffByOne(e) == Len(pipe[e]) > Cap
Full(e) == Len(pipe[e]) >= Cap

TypeOK ==
    /\ pc \in {"idle", "fork", "close", "in", "out", "err", "wait", "dead"}
    /\ cur \in 0 .. N
    /\ kind \in [Calls -> Kinds \cup {"none"}]
    /\ outcome \in [Calls -> {"open", "ok", "error"}]
    /\ child \in [Calls -> {"none", "starting", "running", "zombie", "reaped"}]
    /\ doing \in [Calls -> {"exit"} \cup Streams]
    /\ reads \in [Processes -> SUBSET Ends] /\ writes \in [Processes -> SUBSET Ends]
    /\ pipe \in [Ends -> Seq(Bytes)] /\ \A e \in Ends : Len(pipe[e]) <= Cap
    /\ input \in 0 .. MaxIn /\ sent \in 0 .. input
    /\ eof \subseteq Calls
    /\ made \in [Ends -> Nat]
    /\ written \in [Streams -> Seq(Bytes)] /\ got \in [Streams -> Seq(Bytes)]

Init ==
    /\ pc = "idle" /\ cur = 0
    /\ kind = [c \in Calls |-> "none"]
    /\ outcome = [c \in Calls |-> "open"]
    /\ child = [c \in Calls |-> "none"]
    /\ doing = [c \in Calls |-> "exit"]
    /\ reads = [p \in Processes |-> {}] /\ writes = [p \in Processes |-> {}]
    /\ pipe = [e \in Ends |-> <<>>]
    /\ input = 0 /\ sent = 0
    /\ eof = {}
    /\ made = [e \in Ends |-> 0]
    /\ written = Nothing /\ got = Nothing
-----------------------------------------------------------------------------
(* The calls.                                                              *)

Call(k, n) ==
    /\ pc = "idle" /\ cur < N
    /\ k \in {"exec", "exec3"} => n = 0
    /\ cur' = cur + 1
    /\ kind' = [kind EXCEPT ![cur'] = k]
    /\ input' = n /\ pc' = "fork"
    /\ UNCHANGED <<outcome, reads, writes, pipe, sent, written, got, family>>

GoTo(place) == pc' = place /\ UNCHANGED <<cur, kind, outcome, local>>

Return(result) ==
    /\ pc' = "idle"
    /\ outcome' = [outcome EXCEPT ![cur] = result]
    /\ input' = 0 /\ sent' = 0 /\ written' = Nothing /\ got' = Nothing
    /\ UNCHANGED <<cur, kind>>

Open(ss) ==
    /\ reads' = [reads EXCEPT ![Parent] = @ \cup ({cur} \X ss)]
    /\ writes' = [writes EXCEPT ![Parent] = @ \cup ({cur} \X ss)]

\* The error returns leave open what is open: the pipes made before the one
\* that fails, and all of them when there is no child.
PipeFails ==
    /\ pc = "fork" /\ kind[cur] # "exec" /\ "pipe" \in Faults
    /\ \E ss \in {{}, {"in"}, {"in", "out"}} :
          /\ ss # Pipes(kind[cur]) /\ ss \subseteq Pipes(kind[cur])
          /\ Open(ss)
    /\ Return("error")
    /\ UNCHANGED <<pipe, family>>

ForkFails ==
    /\ pc = "fork" /\ kind[cur] # "exec" /\ "fork" \in Faults
    /\ Open(Pipes(kind[cur]))
    /\ Return("error")
    /\ UNCHANGED <<pipe, family>>

\* exec gives the NULL of a popen that fails to fgets.
PopenFails ==
    /\ pc = "fork" /\ kind[cur] = "exec" /\ "popen" \in Faults
    /\ GoTo("dead")
    /\ reads' = [reads EXCEPT ![Parent] = {}]
    /\ writes' = [writes EXCEPT ![Parent] = {}]
    /\ UNCHANGED <<pipe, family>>

\* The pipes are nobody else's before the fork: one step does for both.
Fork ==
    /\ pc = "fork"
    /\ LET own == Own(cur) IN
       /\ reads' = [reads EXCEPT ![Parent] = @ \cup own, ![cur] = reads[Parent] \cup own]
       /\ writes' = [writes EXCEPT ![Parent] = @ \cup own, ![cur] = writes[Parent] \cup own]
    /\ child' = [child EXCEPT ![cur] = "starting"]
    /\ GoTo("close")
    /\ UNCHANGED <<doing, pipe, eof, made>>

\* Mutant: the parent keeps the child's ends.
ParentKeeps_All == Own(cur)
\* What the parent keeps of the pipes: what the child does not use.
ParentKeeps == {<<cur, "in">>}

\* exec3 returns the descriptors that are left, and the child goes on.
CloseChildEnds ==
    /\ pc = "close"
    /\ reads' = [reads EXCEPT ![Parent] = @ \ ({cur} \X {"in"})]
    /\ writes' = [writes EXCEPT ![Parent] = @ \ (Own(cur) \ ParentKeeps)]
    /\ CASE kind[cur] = "exec3" -> Return("ok")
         [] kind[cur] = "exec"  -> GoTo("out")
         [] OTHER               -> GoTo("in")
    /\ UNCHANGED <<pipe, family>>

Stdin == <<cur, "in">>

\* One write call, that blocks until all of the input has gone.
WriteInput ==
    /\ pc = "in" /\ sent < input
    /\ Readers(Stdin) # {} /\ ~Full(Stdin)
    /\ pipe' = [pipe EXCEPT ![Stdin] = Append(@, "text")]
    /\ sent' = sent + 1
    /\ UNCHANGED <<pc, cur, kind, outcome, reads, writes, input, written, got, family>>

\* It fails if nobody reads, and nothing has gone; all ends stay open.
WriteFails ==
    /\ pc = "in" /\ sent < input
    /\ Readers(Stdin) = {} /\ sent = 0
    /\ Return("error")
    /\ UNCHANGED <<reads, writes, pipe, family>>

\* It returns with all or a part of the input; fork does not wait.
CloseInput ==
    /\ pc = "in"
    /\ sent = input \/ (Readers(Stdin) = {} /\ sent > 0)
    /\ writes' = [writes EXCEPT ![Parent] = @ \ {Stdin}]
    /\ IF kind[cur] = "fork" THEN Return("ok") ELSE GoTo("out")
    /\ UNCHANGED <<reads, pipe, family>>

\* append takes a chunk as a C string: up to its first NUL.
Upto(chunk) ==
    SubSeq(chunk, 1, CHOOSE n \in 0 .. Len(chunk) :
                        /\ \A i \in 1 .. n : chunk[i] # "nul"
                        /\ n < Len(chunk) => chunk[n + 1] = "nul")

ReadChunk(s) ==
    LET e == <<cur, s>> IN
    \E n \in 1 .. MAX_BUFFER :
       /\ pc = s /\ n <= Len(pipe[e])
       /\ got' = [got EXCEPT ![s] = @ \o Upto(SubSeq(pipe[e], 1, n))]
       /\ pipe' = [pipe EXCEPT ![e] = SubSeq(@, n + 1, Len(@))]
       /\ UNCHANGED <<pc, cur, kind, outcome, reads, writes, input, sent, written, family>>

ReadFails(s) ==
    /\ pc = s /\ kind[cur] # "exec" /\ "read" \in Faults
    /\ Return("error")
    /\ UNCHANGED <<reads, writes, pipe, family>>

\* Mutant: nothing is done about the errors.
AfterOut_Wait == "wait"
AfterOut == IF kind[cur] = "exec" THEN "wait" ELSE "err"

\* Mutant: a read that does not fill the buffer is taken for the last one.
NoMore_Short(e) == Len(pipe[e]) < MAX_BUFFER
NoMore(e) == AtEnd(e)

ReadEnd(s) ==
    /\ pc = s /\ NoMore(<<cur, s>>)
    /\ reads' = [reads EXCEPT ![Parent] = @ \ {<<cur, s>>}]
    /\ GoTo(IF s = "out" THEN AfterOut ELSE "wait")
    /\ UNCHANGED <<writes, pipe, family>>

Waitpid ==
    /\ pc = "wait" /\ child[cur] = "zombie"
    /\ child' = [child EXCEPT ![cur] = "reaped"]
    /\ Return("ok")
    /\ UNCHANGED <<doing, reads, writes, pipe, eof, made>>
-----------------------------------------------------------------------------
(* The script has the descriptors of exec3 and may close them between      *)
(* calls; what it writes and reads is the business of File.                *)

Handed(c) == pc = "idle" /\ kind[c] = "exec3" /\ outcome[c] = "ok"

ScriptCloses(c, s) ==
    /\ Handed(c) /\ <<c, s>> \in reads[Parent] \cup writes[Parent]
    /\ reads' = [reads EXCEPT ![Parent] = @ \ {<<c, s>>}]
    /\ writes' = [writes EXCEPT ![Parent] = @ \ {<<c, s>>}]
    /\ UNCHANGED <<pc, cur, kind, outcome, pipe, local, family>>
-----------------------------------------------------------------------------
(* The children.                                                           *)

script == <<pc, cur, kind, outcome, input, sent, got>>

\* Mutant: the child keeps the other ends of its pipes.
ChildCloses_Nothing(c) == {}
\* Of its own pipes the child closes all, after it has made the ends it uses
\* its standard streams.
ChildCloses(c) == Own(c)

\* The bounds of what a child writes.
Allowance(s) == IF s = "out" THEN MaxOut ELSE MaxErr

\* The system call the child makes next: any, as long as it has not come to
\* the end of its input or its allowance, or none any more.
Chooses(c) ==
    \E d \in {"exit"} \cup Pipes(kind[c]) :
       /\ d = "in" => c \notin eof'
       /\ d \in {"out", "err"} => made'[<<c, d>>] < Allowance(d)
       /\ doing' = [doing EXCEPT ![c] = d]

Setup(c) ==
    /\ child[c] = "starting"
    /\ child' = [child EXCEPT ![c] = "running"]
    /\ reads' = [reads EXCEPT ![c] = (@ \ ChildCloses(c)) \cup (Own(c) \cap ({c} \X {"in"}))]
    /\ writes' = [writes EXCEPT ![c] =
                     (@ \ ChildCloses(c)) \cup (Own(c) \cap ({c} \X {"out", "err"}))]
    /\ UNCHANGED <<script, pipe, eof, made, written>>
    /\ Chooses(c)

ChildReads(c) ==
    /\ doing[c] = "in"
    /\ IF pipe[<<c, "in">>] # <<>>
       THEN pipe' = [pipe EXCEPT ![<<c, "in">>] = Tail(@)] /\ UNCHANGED eof
       ELSE AtEnd(<<c, "in">>) /\ eof' = eof \cup {c} /\ UNCHANGED pipe
    /\ UNCHANGED <<script, child, reads, writes, made, written>>
    /\ Chooses(c)

\* A NUL makes a difference only to the calls that collect the output, that
\* treat both streams alike: it is written to one.
ChildWrites(c, s, b) ==
    /\ doing[c] = s /\ s # "in"
    /\ b = "nul" => s = "out" /\ kind[c] # "exec3"
    /\ Readers(<<c, s>>) # {} /\ ~Full(<<c, s>>)
    /\ pipe' = [pipe EXCEPT ![<<c, s>>] = Append(@, b)]
    /\ made' = [made EXCEPT ![<<c, s>>] = @ + 1]
    /\ written' = IF c = cur /\ pc # "idle" THEN [written EXCEPT ![s] = Append(@, b)] ELSE written
    /\ UNCHANGED <<script, child, reads, writes, eof>>
    /\ Chooses(c)

\* The standard streams of a child of exec3 do not block: a call that would have to
\* wait fails with EAGAIN, and the child makes another, or the same again.
ChildWouldBlock(c) ==
    LET e == <<c, doing[c]>> IN
    /\ kind[c] = "exec3" /\ child[c] = "running"
    /\ \/ doing[c] = "in" /\ pipe[e] = <<>> /\ Writers(e) # {}
       \/ doing[c] \in {"out", "err"} /\ Full(e) /\ Readers(e) # {}
    /\ UNCHANGED <<script, child, reads, writes, pipe, eof, made, written>>
    /\ Chooses(c)

\* By itself, or because it writes to who does not read any more.
Exit(c) ==
    /\ child[c] = "running"
    /\ doing[c] # "exit" => doing[c] # "in" /\ Readers(<<c, doing[c]>>) = {}
    /\ child' = [child EXCEPT ![c] = "zombie"]
    /\ doing' = [doing EXCEPT ![c] = "exit"]
    /\ reads' = [reads EXCEPT ![c] = {}] /\ writes' = [writes EXCEPT ![c] = {}]
    /\ UNCHANGED <<script, pipe, eof, made, written>>

Child(c) == \/ Setup(c) \/ ChildReads(c) \/ ChildWouldBlock(c) \/ Exit(c)
            \/ \E s \in Streams, b \in Bytes : ChildWrites(c, s, b)

Step == \/ PipeFails \/ ForkFails \/ PopenFails \/ Fork
        \/ CloseChildEnds \/ WriteInput \/ WriteFails \/ CloseInput \/ Waitpid
        \/ \E s \in {"out", "err"} : ReadChunk(s) \/ ReadFails(s) \/ ReadEnd(s)

Script == \/ \E k \in Kinds, n \in 0 .. MaxIn : Call(k, n)
          \/ \E c \in Calls, s \in Streams : ScriptCloses(c, s)

Next == Step \/ Script \/ \E c \in Calls : Child(c)

\* A call goes on when it can, and a child comes to its end unless it is
\* blocked for ever; the script need not do anything.
Spec == Init /\ [][Next]_vars /\ WF_vars(Step) /\ \A c \in Calls : WF_vars(Child(c))
-----------------------------------------------------------------------------
(* Properties.                                                             *)

\* The two ways for parent and child to wait on each other: the parent writes
\* its input, which nobody takes, and the child its output; or the parent
\* waits for the end of the output, and the child has filled the errors.
Jammed(c) ==
    \/ /\ pc = "in" /\ sent < input /\ Full(<<c, "in">>)
       /\ doing[c] \in {"out", "err"} /\ Full(<<c, doing[c]>>)
    \/ pc = "out" /\ doing[c] = "err" /\ Full(<<c, "err">>)

\* What the script's step waits for, and what the child's, has come.
CallGoesOn ==
    \/ pc \in {"fork", "close"}
    \/ pc = "in" /\ (sent = input \/ Readers(Stdin) = {} \/ ~Full(Stdin))
    \/ \E s \in {"out", "err"} : pc = s /\ (pipe[<<cur, s>>] # <<>> \/ AtEnd(<<cur, s>>))
    \/ pc = "wait" /\ child[cur] = "zombie"

ChildGoesOn(c) ==
    \/ child[c] = "starting"
    \/ /\ child[c] = "running"
       /\ \/ doing[c] = "exit"
          \/ kind[c] = "exec3"
          \/ doing[c] = "in" /\ (pipe[<<c, "in">>] # <<>> \/ AtEnd(<<c, "in">>))
          \/ /\ doing[c] \in {"out", "err"}
             /\ Readers(<<c, doing[c]>>) = {} \/ ~Full(<<c, doing[c]>>)

\* A call that does not go on, and whose child does not either, is in one of the two
\* jams: the children of earlier calls, with the ends that they have inherited, and the
\* script's own ends, cannot hold it up (_exec2, _open3, process.cc:225).
OnlyJamsStop ==
    pc \notin {"idle", "dead"} => CallGoesOn \/ ChildGoesOn(cur) \/ Jammed(cur)

\* Every call returns, unless it jams in one of the two ways that its order
\* of writing and reading leaves open; children of earlier calls, with the
\* pipe ends that they have inherited, cannot hold it up (_exec2, _open3).
CallReturns ==
    \A c \in Calls : (pc # "idle" /\ cur = c) ~> (pc \in {"idle", "dead"} \/ Jammed(c))

\* What exec, exec2 and open3 return is all that the child has written to
\* each stream, in whatever pieces it arrives, as long as that has no NUL,
\* and the child has not been cut short by its parent.
OutputComplete ==
    pc = "wait" =>
       /\ child[cur] = "zombie"
       /\ \A s \in {"out", "err"} :
             (\A i \in DOMAIN written[s] : written[s][i] = "text") => got[s] = written[s]

\* A call that returns without an error leaves nothing behind: no process
\* holds an end of its pipes and its child is reaped.  fork leaves the child,
\* with the end of its input, and exec3 hands over one end of each pipe.
NothingLeft ==
    \A c \in Calls : outcome[c] = "ok" =>
        LET held == {p \in Processes : (reads[p] \cup writes[p]) \cap Own(c) # {}} IN
        CASE kind[c] \in {"exec", "exec2"} -> held = {} /\ child[c] = "reaped"
          [] kind[c] = "fork"  -> held \subseteq {c}
          [] kind[c] = "exec3" -> /\ reads[Parent] \cap Own(c) \subseteq ({c} \X {"out", "err"})
                                  /\ writes[Parent] \cap Own(c) \subseteq {<<c, "in">>}
=============================================================================
