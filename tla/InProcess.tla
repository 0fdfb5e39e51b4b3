------------------------------- MODULE InProcess -------------------------------
(***************************************************************************)
(* IRAD::Sys::InProcess (src/SolverUtils/include/FDUtils.H): an fdistream  *)
(* reading the output of a command started with popen().  One object over *)
(* its life: constructed (default, or with a command), Execute() any       *)
(* number of times, Finalize(), reads through the stream, destroyed.       *)
(*                                                                         *)
(* A popen() gives a fresh pipe or fails (NULL).  pclose() waits for the   *)
(* child and closes the pipe; applied to NULL or to a stream already       *)
(* closed it is undefined behaviour, recorded in badPclose.  The stream's  *)
(* get area is kept as the tags of its unread bytes: each byte is tagged   *)
(* with the pipe it was read from.                                         *)
(***************************************************************************)
EXTENDS Integers, Sequences, FiniteSets

CONSTANTS Pipe,     \* the pipes popen() may create
          NULL,     \* the null FILE pointer, and fd -1
          EOF,
          OutLen,   \* bytes each command writes
          BufSize   \* bytes one read() may return

ASSUME NULL \notin Pipe /\ EOF \notin Pipe /\ OutLen \in Nat /\ BufSize \in Nat \ {0}

VARIABLES life,       \* "alive" or "destroyed"
          fo,         \* _file_object
          fd,         \* buf.fd: the descriptor the stream reads, NULL for -1
          pstate,     \* pstate[p]: "unused", "open" or "closed"
          left,       \* left[p]: bytes the child of p has still to deliver
          unread,     \* the get area: tags of bytes read but not yet taken
          result,     \* what the last sbumpc() returned
          badPclose   \* some pclose() was given NULL or a closed stream

vars == <<life, fo, fd, pstate, left, unread, result, badPclose>>

\* What popen() may return.
PopenResults(ps) == {NULL} \cup {p \in Pipe : ps[p] = "unused"}

\* pclose(f): undefined unless f is an open stream.
BadPclose(f) == f = NULL \/ pstate[f] # "open"
AfterPclose(f) == IF BadPclose(f) THEN pstate ELSE [pstate EXCEPT ![f] = "closed"]

\* Opening q, if popen() succeeded.
Opened(ps, q) == IF q = NULL THEN ps ELSE [ps EXCEPT ![q] = "open"]

\* InProcess() with _file_object NULL, or InProcess(command): popen, and
\* Init(fileno(_file_object)) when it succeeded.
Init ==
  /\ life = "alive"
  /\ \E q \in {NULL} \cup Pipe :
       /\ fo = q /\ fd = q
       /\ pstate = Opened([p \in Pipe |-> "unused"], q)
  /\ left = [p \in Pipe |-> OutLen]
  /\ unread = <<>>
  /\ result = EOF
  /\ badPclose = FALSE

\* A plausible slip: Execute() starting the new command without pclose()
\* of the old one.
ExecuteNoPclose ==
  /\ life = "alive"
  /\ \E q \in PopenResults(pstate) :
       /\ fo' = q
       /\ pstate' = Opened(pstate, q)
       /\ fd' = IF q # NULL THEN q ELSE fd
  /\ UNCHANGED <<life, left, unread, result, badPclose>>

\* Execute(command): pclose the current stream if _file_object is set,
\* popen, and Init(fileno(...)) on success -- which sets the descriptor
\* only, leaving the bytes in the get area; on failure fd is left as it was.
Execute ==
  /\ life = "alive"
  /\ LET ps == IF fo # NULL THEN AfterPclose(fo) ELSE pstate
     IN  \E q \in PopenResults(ps) :
           /\ fo' = q
           /\ pstate' = Opened(ps, q)
           /\ fd' = IF q # NULL THEN q ELSE fd
  /\ badPclose' = (badPclose \/ (fo # NULL /\ BadPclose(fo)))
  /\ UNCHANGED <<life, left, unread, result>>

\* Finalize(): pclose(_file_object) if set; _file_object keeps its value.
Finalize ==
  /\ life = "alive"
  /\ fo # NULL
  /\ pstate' = AfterPclose(fo)
  /\ badPclose' = (badPclose \/ BadPclose(fo))
  /\ UNCHANGED <<life, fo, fd, left, unread, result>>

\* ~InProcess(): pclose(_file_object), whatever it holds.
Destroy ==
  /\ life = "alive"
  /\ life' = "destroyed"
  /\ pstate' = AfterPclose(fo)
  /\ badPclose' = (badPclose \/ BadPclose(fo))
  /\ UNCHANGED <<fo, fd, left, unread, result>>

\* sbumpc() on the stream: a byte from the get area, or underflow(): read()
\* on fd returns up to BufSize bytes of an open pipe's output, and 0 or -1
\* (EOF) at its end, on a closed pipe or on fd -1.
Read ==
  /\ life = "alive"
  /\ UNCHANGED <<life, fo, fd, pstate, badPclose>>
  /\ \/ /\ unread # <<>>
        /\ result' = Head(unread)
        /\ unread' = Tail(unread)
        /\ UNCHANGED left
     \/ /\ unread = <<>>
        /\ fd # NULL /\ pstate[fd] = "open" /\ left[fd] > 0
        /\ \E num \in 1..BufSize :
             /\ num <= left[fd]
             /\ left' = [left EXCEPT ![fd] = @ - num]
             /\ unread' = [i \in 1..(num - 1) |-> fd]
             /\ result' = fd
     \/ /\ unread = <<>>
        /\ ~(fd # NULL /\ pstate[fd] = "open" /\ left[fd] > 0)
        /\ result' = EOF
        /\ UNCHANGED <<left, unread>>

Next == Execute \/ Finalize \/ Destroy \/ Read

Spec == Init /\ [][Next]_vars

-----------------------------------------------------------------------------
\* Execute() reaps the previous child before starting the next: an object
\* never has more than one child running, and none once it is destroyed.
ChildrenReaped ==
  /\ Cardinality({p \in Pipe : pstate[p] = "open"}) <= 1
  /\ life = "destroyed" => \A p \in Pipe : pstate[p] # "open"

\* pclose() is only ever given a stream popen() returned and nobody has
\* closed yet: Finalize() followed by the destructor or by Execute(), and
\* the destructor of an object whose popen() failed, must not close again.
NoInvalidPclose == ~badPclose

\* After Execute(command) the stream returns the output of that command:
\* every byte read comes from the pipe _file_object names.
ReadsCurrentCommand == [][Read => result' \in {EOF, fo}]_vars
=============================================================================
