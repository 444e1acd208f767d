----------------------------- MODULE DevicePool -----------------------------
(***************************************************************************)
(* The pools that share one physical device connection between all the     *)
(* clients of a process: directPool in qcom/qmi/pool.go and its twin       *)
(* directClientPool in mbim/pool.go, which runs the same algorithm with an *)
(* owner Client for a core and one more step, connectLease, for a client   *)
(* that joins an open device.                                              *)
(*                                                                         *)
(* One device key: the map's keys do not interact. An entry is named by    *)
(* its number, so that the pointer comparisons entry.core != core and      *)
(* p.entries[key] == entry are comparisons of numbers. An action is one    *)
(* section under p.mu or one blocking operation outside it.                *)
(***************************************************************************)
EXTENDS Naturals, FiniteSets

CONSTANTS
  Proc,          \* goroutines, each opening and closing the device in turn
  MaxCalls,      \* bound: calls of acquire by one goroutine
  MaxEntries,    \* bound: entries made; a call of acquire makes at most one
  ConnectsLease  \* whether a joining client runs connectLease (the MBIM pool)

ASSUME PoolAssumption ==
  /\ IsFiniteSet(Proc)
  /\ MaxCalls \in Nat /\ MaxEntries \in Nat
  /\ ConnectsLease \in BOOLEAN

VARIABLES
  entry,    \* p.entries[key], 0 for none
  made,     \* entries made so far
  conn,     \* per entry, its connection: "none", "open" or "closed"
  failed,   \* per entry, whether its core or receiver failed on its own
  set,      \* per entry, whether entry.core is set
  refs,     \* entry.refs
  closing,  \* entry.closing
  opening,  \* per entry, whether the channel opening is still open
  closed,   \* per entry, whether the channel closed has been closed
  pc,       \* where each goroutine is
  at,       \* the entry it works on, waits for, or holds a lease of
  calls     \* calls of acquire it has made

entryVars == <<conn, failed, set, refs, closing, opening, closed>>
vars == <<entry, made, entryVars, pc, at, calls>>

Entry == 1 .. MaxEntries

PC == {"idle",         \* not in the pool
       "acquire",      \* at the head of the loop of acquire
       "waitClosed",   \* selecting on entry.closed and ctx.Done
       "waitOpening",  \* selecting on entry.opening and ctx.Done
       "dial",         \* in dialer.Dial
       "initialize",   \* in initializeCore, or owner.connect
       "abandon",      \* closed the connection of a failed initialization
       "connect",      \* in connectLease
       "leased",       \* holding a transport, or a client
       "discard",      \* in closeCore of a stale entry, inside acquire
       "discarded",    \* past it, before the section under p.mu
       "close",        \* in closeCore of the last release
       "closed"}       \* past it

Init ==
  /\ entry = 0
  /\ made = 0
  /\ conn = [e \in Entry |-> "none"]
  /\ failed = [e \in Entry |-> FALSE]
  /\ set = [e \in Entry |-> FALSE]
  /\ refs = [e \in Entry |-> 0]
  /\ closing = [e \in Entry |-> FALSE]
  /\ opening = [e \in Entry |-> FALSE]
  /\ closed = [e \in Entry |-> FALSE]
  /\ pc = [p \in Proc |-> "idle"]
  /\ at = [p \in Proc |-> 0]
  /\ calls = [p \in Proc |-> 0]

Goto(p, l) == pc' = [pc EXCEPT ![p] = l]

Enter(p, l, e) ==
  /\ Goto(p, l)
  /\ at' = [at EXCEPT ![p] = e]

(* The call returns, or acquire starts over.                               *)
Leave(p) == Enter(p, "idle", 0)
Retry(p) == Enter(p, "acquire", 0)

-----------------------------------------------------------------------------
Acquire(p) ==
  /\ pc[p] = "idle"
  /\ calls[p] < MaxCalls
  /\ calls' = [calls EXCEPT ![p] = @ + 1]
  /\ Goto(p, "acquire")
  /\ UNCHANGED <<entry, made, entryVars, at>>

(* The section under p.mu at the head of the loop, by what it finds: an    *)
(* entry being closed,                                                     *)
AwaitClosed(p) ==
  /\ pc[p] = "acquire"
  /\ entry # 0 /\ closing[entry]
  /\ Enter(p, "waitClosed", entry)
  /\ UNCHANGED <<entry, made, entryVars, calls>>

(* directCoreAvailable, directOwnerAvailable                               *)
Available(e) == conn[e] = "open" /\ ~failed[e]

(* an open device,                                                         *)
Join(p) ==
  /\ pc[p] = "acquire"
  /\ entry # 0 /\ ~closing[entry] /\ set[entry]
  /\ Available(entry)
  /\ refs' = [refs EXCEPT ![entry] = @ + 1]
  /\ Enter(p, IF ConnectsLease THEN "connect" ELSE "leased", entry)
  /\ UNCHANGED <<entry, made, conn, failed, set, closing, opening, closed, calls>>

(* a core that has failed,                                                 *)
FindStale(p) ==
  /\ pc[p] = "acquire"
  /\ entry # 0 /\ ~closing[entry] /\ set[entry]
  /\ ~Available(entry)
  /\ closing' = [closing EXCEPT ![entry] = TRUE]
  /\ Enter(p, "discard", entry)
  /\ UNCHANGED <<entry, made, conn, failed, set, refs, opening, closed, calls>>

(* an entry still being opened,                                            *)
AwaitOpening(p) ==
  /\ pc[p] = "acquire"
  /\ entry # 0 /\ ~closing[entry] /\ ~set[entry]
  /\ Enter(p, "waitOpening", entry)
  /\ UNCHANGED <<entry, made, entryVars, calls>>

(* or nothing: a new entry, before the dial.                               *)
Create(p) ==
  /\ pc[p] = "acquire"
  /\ entry = 0
  /\ made < MaxEntries
  /\ made' = made + 1
  /\ entry' = made + 1
  /\ opening' = [opening EXCEPT ![made + 1] = TRUE]
  /\ Enter(p, "dial", made + 1)
  /\ UNCHANGED <<conn, failed, set, refs, closing, closed, calls>>

(* Mutant: every waiter waits for the channel closed.                      *)
Bug_WokenByClose(p) ==
  /\ pc[p] \in {"waitClosed", "waitOpening"} /\ closed[at[p]]
  /\ Retry(p)
  /\ UNCHANGED <<entry, made, entryVars, calls>>

(* The two selects: the channel is closed, or the context ends.            *)
Woken(p) ==
  /\ \/ pc[p] = "waitClosed" /\ closed[at[p]]
     \/ pc[p] = "waitOpening" /\ ~opening[at[p]]
  /\ Retry(p)
  /\ UNCHANGED <<entry, made, entryVars, calls>>

EndContext(p) ==
  /\ pc[p] \in {"waitClosed", "waitOpening"}
  /\ Leave(p)
  /\ UNCHANGED <<entry, made, entryVars, calls>>

-----------------------------------------------------------------------------

(* delete(p.entries, key), close(entry.opening), close(entry.closed)       *)
Remove(e) ==
  /\ entry' = 0
  /\ opening' = [opening EXCEPT ![e] = FALSE]
  /\ closed' = [closed EXCEPT ![e] = TRUE]

Dialed(p) ==
  /\ pc[p] = "dial"
  /\ conn' = [conn EXCEPT ![at[p]] = "open"]
  /\ Goto(p, "initialize")
  /\ UNCHANGED <<entry, made, failed, set, refs, closing, opening, closed, at,
                 calls>>

DialFailed(p) ==
  /\ pc[p] = "dial"
  /\ Remove(at[p])
  /\ Leave(p)
  /\ UNCHANGED <<made, conn, failed, set, refs, closing, calls>>

(* Mutant: the connection of a failed initialization stays open.           *)
Bug_InitializeLeaks(p) ==
  /\ pc[p] = "initialize"
  /\ Goto(p, "abandon")
  /\ UNCHANGED <<entry, made, entryVars, at, calls>>

(* initializeCore fails: the connection is closed before the entry is      *)
(* removed.                                                                *)
InitializeFailed(p) ==
  /\ pc[p] = "initialize"
  /\ conn' = [conn EXCEPT ![at[p]] = "closed"]
  /\ Goto(p, "abandon")
  /\ UNCHANGED <<entry, made, failed, set, refs, closing, opening, closed, at,
                 calls>>

Abandon(p) ==
  /\ pc[p] = "abandon"
  /\ Remove(at[p])
  /\ Leave(p)
  /\ UNCHANGED <<made, conn, failed, set, refs, closing, calls>>

Publish(p) ==
  /\ pc[p] = "initialize"
  /\ set' = [set EXCEPT ![at[p]] = TRUE]
  /\ refs' = [refs EXCEPT ![at[p]] = 1]
  /\ opening' = [opening EXCEPT ![at[p]] = FALSE]
  /\ Goto(p, "leased")
  /\ UNCHANGED <<entry, made, conn, failed, closing, closed, at, calls>>

-----------------------------------------------------------------------------
(* Mutant: release does not see that the entry is another one by now.      *)
Bug_ReleaseForeign(p) ==
  /\ pc[p] \in {"leased", "connect"}
  /\ IF entry = 0 \/ closing[entry] \/ ~set[entry]
     THEN Leave(p) /\ UNCHANGED <<refs, closing>>
     ELSE /\ refs' = [refs EXCEPT ![entry] = @ - 1]
          /\ IF refs[entry] > 1
             THEN Leave(p) /\ closing' = closing
             ELSE /\ closing' = [closing EXCEPT ![entry] = TRUE]
                  /\ Enter(p, "close", entry)
  /\ UNCHANGED <<entry, made, conn, failed, set, opening, closed, calls>>

(* release: Close of the lease, or of a client whose connectLease failed.  *)
Release(p) ==
  /\ pc[p] \in {"leased", "connect"}
  /\ LET e == at[p] IN
       IF entry # e \/ closing[e]
       THEN Leave(p) /\ UNCHANGED <<refs, closing>>
       ELSE /\ refs' = [refs EXCEPT ![e] = @ - 1]
            /\ IF refs[e] > 1
               THEN Leave(p) /\ closing' = closing
               ELSE /\ closing' = [closing EXCEPT ![e] = TRUE]
                    /\ Enter(p, "close", e)
  /\ UNCHANGED <<entry, made, conn, failed, set, opening, closed, calls>>

ConnectLease(p) ==
  /\ pc[p] = "connect"
  /\ Goto(p, "leased")
  /\ UNCHANGED <<entry, made, entryVars, at, calls>>

(* closeEntry: closeCore, or closeDevice, outside the lock,                *)
CloseCore(p) ==
  /\ \/ pc[p] = "discard" /\ Goto(p, "discarded")
     \/ pc[p] = "close" /\ Goto(p, "closed")
  /\ conn' = [conn EXCEPT ![at[p]] = "closed"]
  /\ UNCHANGED <<entry, made, failed, set, refs, closing, opening, closed, at,
                 calls>>

(* then, under the lock, the entry goes and its waiters are woken.         *)
CloseEntry(p) ==
  /\ \/ pc[p] = "discarded" /\ Retry(p)
     \/ pc[p] = "closed" /\ Leave(p)
  /\ IF entry = at[p]
     THEN entry' = 0 /\ closed' = [closed EXCEPT ![at[p]] = TRUE]
     ELSE UNCHANGED <<entry, closed>>
  /\ UNCHANGED <<made, conn, failed, set, refs, closing, opening, calls>>

(* The device goes away under a core: its reader or a write fails.         *)
Fail(e) ==
  /\ conn[e] = "open" /\ ~failed[e]
  /\ failed' = [failed EXCEPT ![e] = TRUE]
  /\ UNCHANGED <<entry, made, conn, set, refs, closing, opening, closed, pc, at,
                 calls>>

-----------------------------------------------------------------------------
AcquireStep(p) ==
  \/ AwaitClosed(p) \/ Join(p) \/ FindStale(p) \/ AwaitOpening(p) \/ Create(p)
  \/ Woken(p) \/ Dialed(p) \/ DialFailed(p) \/ InitializeFailed(p) \/ Abandon(p)
  \/ Publish(p) \/ ConnectLease(p)

CloseStep(p) == CloseCore(p) \/ CloseEntry(p)

Next ==
  \/ \E p \in Proc : \/ Acquire(p) \/ AcquireStep(p) \/ EndContext(p)
                     \/ Release(p) \/ CloseStep(p)
  \/ \E e \in Entry : Fail(e)

Spec == Init /\ [][Next]_vars

(* Dial and initialize return (they run under a context or a timeout), a   *)
(* close of the device returns, and a goroutine that can proceed does.     *)
(* Nobody is obliged to release a lease.                                   *)
Fairness == \A p \in Proc : WF_vars(AcquireStep(p)) /\ WF_vars(CloseStep(p))

FairSpec == Spec /\ Fairness

-----------------------------------------------------------------------------
(* Every variable keeps its type, as the fields of the pool's entries and  *)
(* the program points of acquire, release and fail give it.                *)
TypeOK ==
  /\ entry \in 0 .. MaxEntries
  /\ made \in 0 .. MaxEntries
  /\ conn \in [Entry -> {"none", "open", "closed"}]
  /\ refs \in [Entry -> Nat]
  /\ failed \in [Entry -> BOOLEAN] /\ set \in [Entry -> BOOLEAN]
  /\ closing \in [Entry -> BOOLEAN]
  /\ opening \in [Entry -> BOOLEAN] /\ closed \in [Entry -> BOOLEAN]
  /\ pc \in [Proc -> PC]
  /\ at \in [Proc -> 0 .. MaxEntries]
  /\ calls \in [Proc -> 0 .. MaxCalls]

(* The device is never open twice: acquire dials only once the previous    *)
(* connection is physically closed, also when a stale core is replaced.    *)
OneConnection ==
  \A e, f \in Entry : conn[e] = "open" /\ conn[f] = "open" => e = f

(* The goroutines that hold a use of entry e.                              *)
Users(e) == {p \in Proc : pc[p] \in {"leased", "connect"} /\ at[p] = e}

(* The use count of the current entry is the number of its users: no user  *)
(* is counted twice or forgotten, whatever mix of joins, failures,         *)
(* replacements and late releases led there.                               *)
RefsCountUsers ==
  entry # 0 /\ ~closing[entry] => refs[entry] = Cardinality(Users(entry))

(* The connection is not closed under a lease, unless its core failed on   *)
(* its own: a late release of a replaced core does not hit its successor.  *)
NotClosedUnderLease ==
  \A p \in Proc : pc[p] = "leased" => conn[at[p]] = "open" \/ failed[at[p]]

(* Whoever waits in acquire waits for something that will still happen, or *)
(* has: no entry leaves the map, or is published, with its channel open.   *)
WaitersAreWoken ==
  \A p \in Proc :
    /\ pc[p] = "waitClosed" /\ entry # at[p] => closed[at[p]]
    /\ pc[p] = "waitOpening" /\ (entry # at[p] \/ set[at[p]]) => ~opening[at[p]]

(* Between the creation of an entry and its publication, and between       *)
(* closing and the removal.                                                *)
Opener == {"dial", "initialize", "abandon"}
Closer == {"discard", "discarded", "close", "closed"}

(* The goroutine about to close a channel of an entry closes it for the    *)
(* first time (a second close would panic) and is alone in doing so.       *)
ClosedOnce ==
  \A p \in Proc : pc[p] \in Opener \cup Closer =>
    /\ entry = at[p] /\ ~closed[at[p]]
    /\ pc[p] \in Opener => opening[at[p]]
    /\ \A q \in Proc : pc[q] \in Opener \cup Closer => q = p

(* Every call of acquire returns, with a lease or an error, and every      *)
(* release does.                                                           *)
AcquireReturns ==
  \A p \in Proc : pc[p] \notin {"idle", "leased"} ~> pc[p] \in {"idle", "leased"}
=============================================================================
