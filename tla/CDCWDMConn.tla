----------------------------- MODULE CDCWDMConn -----------------------------
(***************************************************************************)
(* cdcwdm/cdcwdm_linux.go: a character device shared by one reader, one    *)
(* writer, MaxControlTransfer, goroutines that move the deadlines and      *)
(* goroutines that close it.  An action is one critical section of c.mu or *)
(* one system call with the releaseFD that follows it.  A blocked poll is  *)
(* woken through the eventfd of its direction; Close gives the descriptors *)
(* back to the kernel, which may hand the same numbers to anybody.         *)
(***************************************************************************)
EXTENDS Naturals

CONSTANTS
  Closer,   \* the calls of Close
  MaxTime   \* bound: the instants told apart; 0 is the zero time.Time

Dir == {"read", "write"}
Op == Dir \cup {"ioctl"}

VARIABLES
  pc,         \* where the operation in progress is, or "idle"
  seen,       \* the deadline acquireIO returned to it
  fdValid,    \* the descriptors are in the Conn
  activeOps,
  fdOpen,     \* the descriptors are open in the kernel
  wake,       \* the eventfd of a direction is readable
  deadline,
  now,
  closer      \* "no", "wait" (for the active operations), "done"

vars == <<pc, seen, fdValid, activeOps, fdOpen, wake, deadline, now, closer>>

TypeOK ==
  /\ pc \in [Op -> {"idle", "start", "poll", "drain", "io"}]
  /\ seen \in [Dir -> 0 .. MaxTime] /\ deadline \in [Dir -> 0 .. MaxTime]
  /\ activeOps \in 0 .. 3 /\ now \in 1 .. MaxTime
  /\ {fdValid, fdOpen} \subseteq BOOLEAN /\ wake \in [Dir -> BOOLEAN]
  /\ closer \in [Closer -> {"no", "wait", "done"}]

Init ==
  /\ pc = [o \in Op |-> "idle"] /\ seen = [d \in Dir |-> 0]
  /\ fdValid = TRUE /\ activeOps = 0 /\ fdOpen = TRUE
  /\ wake = [d \in Dir |-> FALSE] /\ deadline = [d \in Dir |-> 0]
  /\ now = 1 /\ closer = [k \in Closer |-> "no"]

Goto(o, label) == pc' = [pc EXCEPT ![o] = label]
Past(t) == t # 0 /\ t <= now

\* No deadline, one that has passed, and the later ones.
Instant == {0} \cup now .. MaxTime

(* acquireIO and acquireFD.  A deadline that has passed ends the operation *)
(* before it polls: what it acquired is released at once.                  *)
AcquireIO(o) ==
  \/ /\ ~fdValid \/ (o \in Dir /\ Past(deadline[o]))
     /\ Goto(o, "idle")
     /\ UNCHANGED <<seen, fdValid, activeOps, fdOpen, wake, deadline, now, closer>>
  \/ /\ fdValid /\ (o \in Dir => ~Past(deadline[o]))
     /\ activeOps' = activeOps + 1
     /\ seen' = IF o \in Dir THEN [seen EXCEPT ![o] = deadline[o]] ELSE seen
     /\ Goto(o, IF o \in Dir THEN "poll" ELSE "io")
     /\ UNCHANGED <<fdValid, fdOpen, wake, deadline, now, closer>>

Call(o) == pc[o] = "idle" /\ AcquireIO(o)
Retry(d) == pc[d] = "start" /\ AcquireIO(d)

(* releaseFD, after the last system call of a round; the operation returns *)
(* or goes round its loop.                                                 *)
ReleaseFD(o, label) ==
  /\ activeOps' = activeOps - 1
  /\ seen' = IF o \in Dir THEN [seen EXCEPT ![o] = 0] ELSE seen
  /\ Goto(o, label)
  /\ UNCHANGED <<fdValid, fdOpen, deadline, now, closer>>

(* poll returns for the wake descriptor or at the timeout.                 *)
Poll(d) ==
  /\ pc[d] = "poll"
  /\ \/ /\ wake[d] /\ Goto(d, "drain")
        /\ UNCHANGED <<seen, fdValid, activeOps, fdOpen, deadline, now, closer>>
     \/ ~wake[d] /\ Past(seen[d]) /\ ReleaseFD(d, "idle")
  /\ UNCHANGED wake

(* The device becomes ready, or reports an error or a hang-up.  The wake   *)
(* descriptor is looked at first.                                          *)
DeviceReady(d) ==
  /\ pc[d] = "poll" /\ ~wake[d]
  /\ \/ /\ Goto(d, "io")
        /\ UNCHANGED <<seen, fdValid, activeOps, fdOpen, deadline, now, closer>>
     \/ ReleaseFD(d, "idle")
  /\ UNCHANGED wake

DrainWakeFD(d) ==
  /\ pc[d] = "drain"
  /\ wake' = [wake EXCEPT ![d] = FALSE]
  /\ ReleaseFD(d, "start")

(* unix.Read, unix.Write or the ioctl: done, or EAGAIN and EINTR.          *)
DoIO(o) ==
  /\ pc[o] = "io"
  /\ \/ ReleaseFD(o, "idle")
     \/ o \in Dir /\ ReleaseFD(o, "start")
  /\ UNCHANGED wake

(* SetReadDeadline and SetWriteDeadline; the write to the eventfd succeeds.*)
SetDeadline(d, t) ==
  /\ fdValid
  /\ deadline' = [deadline EXCEPT ![d] = t]
  /\ wake' = [wake EXCEPT ![d] = TRUE]
  /\ UNCHANGED <<pc, seen, fdValid, activeOps, fdOpen, now, closer>>

(* Close: both directions are woken and the descriptors leave the Conn; a  *)
(* failing wake-up makes it return with everything in place.               *)
Close(k) ==
  /\ closer[k] = "no"
  /\ \/ /\ ~fdValid
        /\ closer' = [closer EXCEPT ![k] = "done"]
        /\ UNCHANGED <<fdValid, wake>>
     \/ /\ fdValid
        /\ wake' = [d \in Dir |-> TRUE]
        /\ fdValid' = FALSE
        /\ closer' = [closer EXCEPT ![k] = "wait"]
     \/ /\ fdValid
        /\ \E woken \in {{}, {"read"}} : wake' = [d \in Dir |-> wake[d] \/ d \in woken]
        /\ closer' = [closer EXCEPT ![k] = "done"]
        /\ UNCHANGED fdValid
  /\ UNCHANGED <<pc, seen, activeOps, fdOpen, deadline, now>>

(* Mutant: the descriptors are closed under the active operations.         *)
Bug_CloseAtOnce(k) ==
  /\ closer[k] = "wait"
  /\ fdOpen' = FALSE
  /\ closer' = [closer EXCEPT ![k] = "done"]
  /\ UNCHANGED <<pc, seen, fdValid, activeOps, wake, deadline, now>>

(* The wait for cond, and unix.Close of the three descriptors.             *)
CloseFDs(k) ==
  /\ closer[k] = "wait" /\ activeOps = 0
  /\ fdOpen' = FALSE
  /\ closer' = [closer EXCEPT ![k] = "done"]
  /\ UNCHANGED <<pc, seen, fdValid, activeOps, wake, deadline, now>>

Tick ==
  /\ now < MaxTime /\ now' = now + 1
  /\ UNCHANGED <<pc, seen, fdValid, activeOps, fdOpen, wake, deadline, closer>>

DirStep(d) == Retry(d) \/ Poll(d) \/ DrainWakeFD(d)

Next ==
  \/ \E o \in Op : Call(o) \/ DoIO(o)
  \/ \E d \in Dir : DirStep(d) \/ DeviceReady(d) \/ \E t \in Instant : SetDeadline(d, t)
  \/ \E k \in Closer : Close(k) \/ CloseFDs(k)
  \/ Tick

(* Goroutines that can run do; nobody has to call, time need not pass, and *)
(* the device need never be ready.                                         *)
Fairness ==
  /\ \A o \in Op : WF_vars(DoIO(o))
  /\ \A d \in Dir : WF_vars(DirStep(d))
  /\ \A k \in Closer : WF_vars(CloseFDs(k))

Spec == Init /\ [][Next]_vars
FairSpec == Spec /\ Fairness

(* No system call is made on a descriptor that Close has given back, whose *)
(* number may already belong to another file.                              *)
DescriptorOwned ==
  \A o \in Op : pc[o] \in {"poll", "drain", "io"} => fdOpen

(* A Read or Write blocked in poll returns once its deadline has passed,   *)
(* however the deadline was moved meanwhile, and once the Conn is closed;  *)
(* and Close, which waits for both, returns.                               *)
Unwanted(d) == ~fdValid \/ Past(deadline[d])
BlockedIOReturns ==
  /\ \A d \in Dir : (pc[d] # "idle" /\ Unwanted(d)) ~> (pc[d] = "idle" \/ ~Unwanted(d))
  /\ \A k \in Closer : (closer[k] = "wait") ~> (closer[k] = "done")
=============================================================================
