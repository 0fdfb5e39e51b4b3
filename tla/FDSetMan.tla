------------------------------- MODULE FDSetMan -------------------------------
(***************************************************************************)
(* IRAD::Sys::FDSetMan (src/SolverUtils/include/FDUtils.H): descriptor     *)
(* lists registered for output, input and both, the read and write         *)
(* fd_sets, max_descriptor, and select() over them.                        *)
(*                                                                         *)
(* An fd_set is a set of descriptors.  select(nfds, ...) examines only     *)
(* descriptors below nfds = max_descriptor + 1; on success it leaves in    *)
(* each set the examined descriptors that are ready, and what becomes of   *)
(* the bits at or above nfds is not specified (Linux leaves them when nfds *)
(* is 0, clears them within the words it copies back), so the model lets   *)
(* them be kept or cleared.  On failure the sets are left as passed.  The  *)
(* environment makes descriptors readable or writable at any time.  The    *)
(* exception set is never given a descriptor by the class and is left out. *)
(***************************************************************************)
EXTENDS Integers, Sequences, SequencesExt, FiniteSets

CONSTANTS Fd,       \* the open descriptors of the process
          MaxReg    \* bound on the length of each descriptor list

ASSUME Fd \subseteq Nat /\ MaxReg \in Nat

VARIABLES rs, ws,              \* readset, writeset
          maxd,                \* max_descriptor
          odesc, idesc, iodesc, \* o_descriptors, i_descriptors, io_descriptors
          readable, writable,  \* the descriptors ready now
          ret                  \* what the last Select/Listen returned

vars == <<rs, ws, maxd, odesc, idesc, iodesc, readable, writable, ret>>

\* The int arguments callers pass: a descriptor, or -1 for "the lists".
FdArg == Fd \cup {-1}

Init ==
  /\ rs = {} /\ ws = {} /\ maxd = -1
  /\ odesc = <<>> /\ idesc = <<>> /\ iodesc = <<>>
  /\ readable \in SUBSET Fd /\ writable \in SUBSET Fd
  /\ ret = 0

Raised(f) == IF f > maxd THEN f ELSE maxd

\* SetOutDescriptor / SetInDescriptor: the set, and max_descriptor raised.
SetOutDescriptor(f) ==
  /\ ws' = IF f >= 0 THEN ws \cup {f} ELSE ws
  /\ maxd' = Raised(f)
  /\ UNCHANGED <<rs, odesc, idesc, iodesc, readable, writable, ret>>

SetInDescriptor(f) ==
  /\ rs' = IF f >= 0 THEN rs \cup {f} ELSE rs
  /\ maxd' = Raised(f)
  /\ UNCHANGED <<ws, odesc, idesc, iodesc, readable, writable, ret>>

ClearOutDescriptor(f) ==
  /\ ws' = IF f >= 0 THEN ws \ {f} ELSE ws
  /\ UNCHANGED <<rs, maxd, odesc, idesc, iodesc, readable, writable, ret>>

ClearInDescriptor(f) ==
  /\ rs' = IF f >= 0 THEN rs \ {f} ELSE rs
  /\ UNCHANGED <<ws, maxd, odesc, idesc, iodesc, readable, writable, ret>>

\* AddOutDescriptor / AddInDescriptor / AddIODescriptor for f >= 0 (a
\* negative f returns -1 and changes nothing): push_back, then Set*.
AddOutDescriptor(f) ==
  /\ Len(odesc) < MaxReg
  /\ odesc' = Append(odesc, f)
  /\ ws' = ws \cup {f} /\ maxd' = Raised(f)
  /\ UNCHANGED <<rs, idesc, iodesc, readable, writable, ret>>

\* A plausible slip: the descriptor pushed and set without raising
\* max_descriptor (as the commented-out code in AddOutDescriptor once did
\* by hand).
AddInDescriptorNoMax(f) ==
  /\ Len(idesc) < MaxReg
  /\ idesc' = Append(idesc, f)
  /\ rs' = rs \cup {f}
  /\ UNCHANGED <<maxd, ws, odesc, iodesc, readable, writable, ret>>

AddInDescriptor(f) ==
  /\ Len(idesc) < MaxReg
  /\ idesc' = Append(idesc, f)
  /\ rs' = rs \cup {f} /\ maxd' = Raised(f)
  /\ UNCHANGED <<ws, odesc, iodesc, readable, writable, ret>>

AddIODescriptor(f) ==
  /\ Len(iodesc) < MaxReg
  /\ iodesc' = Append(iodesc, f)
  /\ rs' = rs \cup {f} /\ ws' = ws \cup {f} /\ maxd' = Raised(f)
  /\ UNCHANGED <<odesc, idesc, readable, writable, ret>>

\* Zero(), and Clear(f) of both sets.
Zero ==
  /\ rs' = {} /\ ws' = {}
  /\ UNCHANGED <<maxd, odesc, idesc, iodesc, readable, writable, ret>>

Clear(f) ==
  /\ rs' = IF f >= 0 THEN rs \ {f} ELSE rs
  /\ ws' = IF f >= 0 THEN ws \ {f} ELSE ws
  /\ UNCHANGED <<maxd, odesc, idesc, iodesc, readable, writable, ret>>

\* SetForRead(f) / SetForWrite(f): f alone added, max_descriptor left as it
\* is; with f = -1, Set(lists) -- the set replaced by the registered lists.
ReadFromLists == Range(idesc) \cup Range(iodesc)
WriteFromLists == Range(odesc) \cup Range(iodesc)

SetForRead(f) ==
  /\ rs' = IF f >= 0 THEN rs \cup {f} ELSE ReadFromLists
  /\ UNCHANGED <<ws, maxd, odesc, idesc, iodesc, readable, writable, ret>>

SetForWrite(f) ==
  /\ ws' = IF f >= 0 THEN ws \cup {f} ELSE WriteFromLists
  /\ UNCHANGED <<rs, maxd, odesc, idesc, iodesc, readable, writable, ret>>

SetForIO(f) ==
  /\ rs' = IF f >= 0 THEN rs \cup {f} ELSE ReadFromLists
  /\ ws' = IF f >= 0 THEN ws \cup {f} ELSE WriteFromLists
  /\ UNCHANGED <<maxd, odesc, idesc, iodesc, readable, writable, ret>>

\* Set(fds, fdset, reset): FD_ZERO on reset, then FD_SET of each of fds.
SetFds(fds, set, reset) == (IF reset THEN {} ELSE set) \cup fds

\* The container overloads.  SetForIO(fds, reset) passes the registered
\* lists instead of fds.
SetForReadFds(fds, reset) ==
  /\ rs' = SetFds(fds, rs, reset)
  /\ UNCHANGED <<ws, maxd, odesc, idesc, iodesc, readable, writable, ret>>

SetForWriteFds(fds) ==
  /\ ws' = SetFds(fds, ws, TRUE)
  /\ UNCHANGED <<rs, maxd, odesc, idesc, iodesc, readable, writable, ret>>

SetForIOFds(fds, reset) ==
  /\ rs' = SetFds(Range(iodesc), SetFds(Range(idesc), rs, reset), FALSE)
  /\ ws' = SetFds(Range(iodesc), SetFds(Range(odesc), ws, reset), FALSE)
  /\ UNCHANGED <<maxd, odesc, idesc, iodesc, readable, writable, ret>>

\* select(max_descriptor + 1, r, w, &exset, tv) on the sets r and w (w is
\* NULL for ListenForInput, r for ListenForOutput).  With no timeout it
\* returns only once an examined descriptor is ready.
Watched == {f \in Fd : f <= maxd}
SelectOn(r, w, useR, useW, blocking) ==
  LET readyR == IF useR THEN r \cap Watched \cap readable ELSE {}
      readyW == IF useW THEN w \cap Watched \cap writable ELSE {}
  IN  \/ /\ ~blocking \/ readyR \cup readyW # {}
         /\ \E keepR \in SUBSET (r \ Watched), keepW \in SUBSET (w \ Watched) :
              /\ rs' = IF useR THEN readyR \cup keepR ELSE r
              /\ ws' = IF useW THEN readyW \cup keepW ELSE w
         /\ ret' = Cardinality(readyR) + Cardinality(readyW)
      \/ /\ rs' = r /\ ws' = w
         /\ ret' = -1

\* Select(seconds, reset): with reset, Zero(), SetForRead(), SetForWrite().
Select(reset, blocking) ==
  /\ SelectOn(IF reset THEN ReadFromLists ELSE rs,
              IF reset THEN WriteFromLists ELSE ws, TRUE, TRUE, blocking)
  /\ UNCHANGED <<maxd, odesc, idesc, iodesc, readable, writable>>

\* ListenForInput(seconds, reset): with reset, Zero() and SetForRead().
ListenForInput(reset, blocking) ==
  /\ SelectOn(IF reset THEN ReadFromLists ELSE rs,
              IF reset THEN {} ELSE ws, TRUE, FALSE, blocking)
  /\ UNCHANGED <<maxd, odesc, idesc, iodesc, readable, writable>>

\* ListenForOutput(seconds, reset): with reset, Zero() and SetForWrite().
ListenForOutput(reset, blocking) ==
  /\ SelectOn(IF reset THEN {} ELSE rs,
              IF reset THEN WriteFromLists ELSE ws, FALSE, TRUE, blocking)
  /\ UNCHANGED <<maxd, odesc, idesc, iodesc, readable, writable>>

\* Peers read and write: readiness changes.
Environment ==
  /\ readable' \in SUBSET Fd /\ writable' \in SUBSET Fd
  /\ UNCHANGED <<rs, ws, maxd, odesc, idesc, iodesc, ret>>

Next ==
  \/ \E f \in FdArg :
       \/ SetOutDescriptor(f) \/ SetInDescriptor(f)
       \/ ClearOutDescriptor(f) \/ ClearInDescriptor(f)
       \/ Clear(f) \/ SetForRead(f) \/ SetForWrite(f) \/ SetForIO(f)
  \/ \E f \in Fd : AddOutDescriptor(f) \/ AddInDescriptor(f) \/ AddIODescriptor(f)
  \/ \E fds \in SUBSET Fd, reset \in BOOLEAN :
       SetForReadFds(fds, reset) \/ SetForWriteFds(fds) \/ SetForIOFds(fds, reset)
  \/ Zero
  \/ \E reset, blocking \in BOOLEAN :
       Select(reset, blocking) \/ ListenForInput(reset, blocking)
       \/ ListenForOutput(reset, blocking)
  \/ Environment

Spec == Init /\ [][Next]_vars

-----------------------------------------------------------------------------
\* ReadyForInput() / ReadyForOutput(): NSet over the registered lists.
RECURSIVE NSet(_, _)
NSet(fds, set) ==
  IF fds = <<>> THEN 0
  ELSE (IF Head(fds) \in set THEN 1 ELSE 0) + NSet(Tail(fds), set)
ReadyForInput == NSet(idesc, rs) + NSet(iodesc, rs)
ReadyForOutput == NSet(odesc, ws) + NSet(iodesc, ws)

\* A Select(seconds, reset = true) that succeeds leaves set exactly the
\* registered descriptors that are ready: AddIn/Out/IODescriptor raised
\* max_descriptor over every one of them, so select examined them all, and
\* ReadyForInput() and ReadyForOutput() then count the ready ones.
SelectReportsRegistered ==
  [][(\E b \in BOOLEAN : Select(TRUE, b)) /\ ret' >= 0 =>
       /\ rs' = ReadFromLists \cap readable
       /\ ws' = WriteFromLists \cap writable
       /\ ReadyForInput' = NSet(idesc, readable) + NSet(iodesc, readable)]_vars

\* After a successful Select or Listen every descriptor left in a set is
\* ready: ReadyForInput(fd) / ReadyForOutput(fd) never report a descriptor
\* that select() did not find ready, however it was put in the set.
SelectedAreReady ==
  [][(\E r, b \in BOOLEAN : Select(r, b) \/ ListenForInput(r, b) \/ ListenForOutput(r, b))
     /\ ret' >= 0 => rs' \subseteq readable /\ ws' \subseteq writable]_vars

\* SetForIO(fds, reset) puts the descriptors fds in both sets.
SetForIOSetsFds ==
  [][\A fds \in SUBSET Fd, r \in BOOLEAN :
       SetForIOFds(fds, r) => fds \subseteq rs' /\ fds \subseteq ws']_vars
=============================================================================
