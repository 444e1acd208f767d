-------------------------- MODULE DevicePoolProofs --------------------------
(***************************************************************************)
(* Proofs about DevicePool for any number of goroutines, calls and         *)
(* entries: the device is open at most once, the use count is exact, no    *)
(* connection is closed under a healthy lease, waiters are woken and       *)
(* channels are closed once.                                               *)
(***************************************************************************)
EXTENDS DevicePool, FiniteSetTheorems, TLAPS

(* An entry that has not been made yet is blank.                           *)
Blank(e) ==
  /\ conn[e] = "none" /\ ~failed[e] /\ ~set[e] /\ refs[e] = 0
  /\ ~closing[e] /\ ~opening[e] /\ ~closed[e]

(* What holds of every entry: only the current one has an open connection  *)
(* or an open channel, and one that left the map being closed is closed.   *)
EntryInv ==
  /\ entry <= made
  /\ \A e \in Entry : /\ e > made => Blank(e)
                      /\ conn[e] = "open" => entry = e
                      /\ entry # e \/ set[e] => ~opening[e]
                      /\ closing[e] => entry = e \/ closed[e]
                      /\ closing[e] => set[e]
                      /\ entry = e => ~closed[e]
                      /\ entry = e /\ set[e] /\ ~closing[e] => conn[e] = "open"

(* What holds of every goroutine, by the place it is at.                   *)
ProcInv ==
  \A p \in Proc :
    /\ pc[p] \in {"idle", "acquire"} <=> at[p] = 0
    /\ at[p] <= made
    /\ pc[p] = "waitClosed" => closing[at[p]]
    /\ pc[p] \in Opener => /\ entry = at[p] /\ ~set[at[p]] /\ opening[at[p]]
    /\ pc[p] = "dial" => conn[at[p]] = "none"
    /\ pc[p] = "initialize" => conn[at[p]] = "open"
    /\ pc[p] \in Closer => entry = at[p] /\ closing[at[p]]
    /\ pc[p] \in {"abandon", "discarded", "closed"} => conn[at[p]] = "closed"
    /\ pc[p] \in {"leased", "connect"} =>
         set[at[p]] /\ (conn[at[p]] = "open" \/ failed[at[p]])
    /\ pc[p] \in {"discard", "close"} =>
         \A q \in Proc : pc[q] \in {"leased", "connect"} /\ at[q] = at[p] => failed[at[p]]

(* At most one goroutine opens or closes an entry.                         *)
OneWorker ==
  \A p, q \in Proc :
    pc[p] \in Opener \cup Closer /\ pc[q] \in Opener \cup Closer => p = q

(* The use count, of an entry that is not closing.                         *)
CountInv ==
  \A e \in Entry : entry = e /\ ~closing[e] => refs[e] = Cardinality(Users(e))

IInv == TypeOK /\ EntryInv /\ ProcInv /\ OneWorker /\ CountInv

(***************************************************************************)
(* The users of an entry form a finite set.                                *)
(***************************************************************************)
LEMMA UsersFinite == \A e : IsFiniteSet(Users(e)) /\ Cardinality(Users(e)) \in Nat
<1> TAKE e
<1>1. Users(e) \in SUBSET Proc
  BY Zenon DEF Users
<1>2. IsFiniteSet(Users(e))
  BY <1>1, PoolAssumption, FS_Subset, Zenon
<1> QED
  BY <1>2, FS_CardinalityType, Zenon

(* A use count of one leaves no other user.                                *)
LEMMA LastUser ==
  ASSUME NEW e, NEW p \in Users(e), Cardinality(Users(e)) <= 1
  PROVE  \A q \in Users(e) : q = p
<1>1. /\ IsFiniteSet(Users(e) \ {p})
      /\ Cardinality(Users(e) \ {p}) = Cardinality(Users(e)) - 1
  BY UsersFinite, FS_RemoveElement, Zenon
<1>2. Cardinality(Users(e) \ {p}) \in Nat
  BY <1>1, FS_CardinalityType, Zenon
<1>3. Cardinality(Users(e) \ {p}) = 0
  BY <1>1, <1>2, UsersFinite
<1>4. Users(e) \ {p} = {}
  BY <1>1, <1>3, FS_EmptySet, Zenon
<1> QED
  BY <1>4, Zenon

LEMMA AcquireIInv ==
  ASSUME NEW p \in Proc, Acquire(p), IInv
  PROVE  EntryInv' /\ ProcInv' /\ OneWorker'
<1>1. EntryInv'
  BY Zenon DEF IInv, TypeOK, EntryInv, ProcInv, Blank, Entry, Opener, Closer, Acquire, Goto, entryVars
<1>2. ProcInv'
  BY DEF IInv, TypeOK, EntryInv, ProcInv, OneWorker, Blank, Entry, Opener, Closer, Acquire, Goto, entryVars
<1>3. OneWorker'
  BY DEF IInv, TypeOK, EntryInv, ProcInv, OneWorker, Blank, Entry, Opener, Closer, Acquire, Goto, entryVars
<1> QED
  BY <1>1, <1>2, <1>3, Zenon

LEMMA AwaitClosedIInv ==
  ASSUME NEW p \in Proc, AwaitClosed(p), IInv
  PROVE  EntryInv' /\ ProcInv' /\ OneWorker'
<1>1. EntryInv'
  BY Zenon DEF IInv, TypeOK, EntryInv, ProcInv, Blank, Entry, Opener, Closer, AwaitClosed, Enter, Goto, entryVars
<1>2. ProcInv'
  BY DEF IInv, TypeOK, EntryInv, ProcInv, OneWorker, Blank, Entry, Opener, Closer, AwaitClosed, Enter, Goto, entryVars
<1>3. OneWorker'
  BY DEF IInv, TypeOK, EntryInv, ProcInv, OneWorker, Blank, Entry, Opener, Closer, AwaitClosed, Enter, Goto, entryVars
<1> QED
  BY <1>1, <1>2, <1>3, Zenon

LEMMA JoinIInv ==
  ASSUME NEW p \in Proc, Join(p), IInv
  PROVE  EntryInv' /\ ProcInv' /\ OneWorker'
<1>1. EntryInv'
  BY DEF IInv, TypeOK, EntryInv, ProcInv, Blank, Entry, Opener, Closer, Join, Enter, Goto, Available, entryVars
<1>2. ProcInv'
  BY DEF IInv, TypeOK, EntryInv, ProcInv, OneWorker, Blank, Entry, Opener, Closer, Join, Enter, Goto, Available, entryVars
<1>3. OneWorker'
  BY DEF IInv, TypeOK, EntryInv, ProcInv, OneWorker, Blank, Entry, Opener, Closer, Join, Enter, Goto, Available, entryVars
<1> QED
  BY <1>1, <1>2, <1>3, Zenon

LEMMA FindStaleIInv ==
  ASSUME NEW p \in Proc, FindStale(p), IInv
  PROVE  EntryInv' /\ ProcInv' /\ OneWorker'
<1>1. EntryInv'
  BY DEF IInv, TypeOK, EntryInv, ProcInv, Blank, Entry, Opener, Closer, FindStale, Enter, Goto, Available, entryVars
<1>2. ProcInv'
  BY DEF IInv, TypeOK, EntryInv, ProcInv, OneWorker, Blank, Entry, Opener, Closer, FindStale, Enter, Goto, Available, entryVars
<1>3. OneWorker'
  BY DEF IInv, TypeOK, EntryInv, ProcInv, OneWorker, Blank, Entry, Opener, Closer, FindStale, Enter, Goto, Available, entryVars
<1> QED
  BY <1>1, <1>2, <1>3, Zenon

LEMMA AwaitOpeningIInv ==
  ASSUME NEW p \in Proc, AwaitOpening(p), IInv
  PROVE  EntryInv' /\ ProcInv' /\ OneWorker'
<1>1. EntryInv'
  BY Zenon DEF IInv, TypeOK, EntryInv, ProcInv, Blank, Entry, Opener, Closer, AwaitOpening, Enter, Goto, entryVars
<1>2. ProcInv'
  BY DEF IInv, TypeOK, EntryInv, ProcInv, OneWorker, Blank, Entry, Opener, Closer, AwaitOpening, Enter, Goto, entryVars
<1>3. OneWorker'
  BY DEF IInv, TypeOK, EntryInv, ProcInv, OneWorker, Blank, Entry, Opener, Closer, AwaitOpening, Enter, Goto, entryVars
<1> QED
  BY <1>1, <1>2, <1>3, Zenon

LEMMA CreateIInv ==
  ASSUME NEW p \in Proc, Create(p), IInv
  PROVE  EntryInv' /\ ProcInv' /\ OneWorker'
<1>1. EntryInv'
  BY DEF IInv, TypeOK, EntryInv, Blank, Entry, Create, Enter, Goto
<1>2. ProcInv'
  <2>1. made + 1 \in Entry /\ Blank(made + 1)
    BY PoolAssumption DEF IInv, TypeOK, EntryInv, Entry, Create
  <2>2. \A q \in Proc : pc[q] \notin Opener \cup Closer
    BY Zenon DEF IInv, TypeOK, ProcInv, EntryInv, Create, Opener, Closer
  <2>3. \A q \in Proc : at[q] # made + 1 /\ at[q] <= made /\ at[q] \in Nat
    BY DEF IInv, TypeOK, ProcInv
  <2>4. ASSUME NEW q \in Proc, q # p
        PROVE  /\ pc'[q] = pc[q] /\ at'[q] = at[q]
               /\ pc[q] \notin Opener \cup Closer
    BY <2>2, <2>4, Zenon DEF IInv, TypeOK, Create, Enter, Goto
  <2>5. /\ pc'[p] = "dial" /\ at'[p] = made + 1 /\ made' = made + 1
        /\ entry' = made + 1 /\ opening'[made + 1] /\ made + 1 # 0
        /\ UNCHANGED <<conn, failed, set, closing>>
    BY <2>1 DEF IInv, TypeOK, Create, Enter, Goto, Entry
  <2>6. ASSUME NEW q \in Proc
        PROVE  /\ pc'[q] \in {"idle", "acquire"} <=> at'[q] = 0
               /\ at'[q] <= made'
               /\ pc'[q] = "waitClosed" => closing'[at'[q]]
               /\ pc'[q] \in Opener => entry' = at'[q] /\ ~set'[at'[q]] /\ opening'[at'[q]]
               /\ pc'[q] = "dial" => conn'[at'[q]] = "none"
               /\ pc'[q] = "initialize" => conn'[at'[q]] = "open"
               /\ pc'[q] \in Closer => entry' = at'[q] /\ closing'[at'[q]]
               /\ pc'[q] \in {"abandon", "discarded", "closed"} => conn'[at'[q]] = "closed"
               /\ pc'[q] \in {"leased", "connect"} =>
                    set'[at'[q]] /\ (conn'[at'[q]] = "open" \/ failed'[at'[q]])
               /\ pc'[q] \notin {"discard", "close"}
    <3>1. CASE q = p
      BY <2>1, <2>5, <3>1 DEF Blank, Closer, IInv, TypeOK
    <3>2. CASE q # p
      BY <2>3, <2>4, <2>5, <3>2 DEF IInv, TypeOK, ProcInv, Opener, Closer
    <3> QED
      BY <3>1, <3>2, Zenon
  <2> QED
    BY <2>6, Zenon DEF ProcInv
<1>3. OneWorker'
  BY DEF IInv, TypeOK, EntryInv, ProcInv, OneWorker, Opener, Closer, Create, Enter, Goto
<1> QED
  BY <1>1, <1>2, <1>3, Zenon

LEMMA WokenIInv ==
  ASSUME NEW p \in Proc, Woken(p), IInv
  PROVE  EntryInv' /\ ProcInv' /\ OneWorker'
<1>1. EntryInv'
  BY Zenon DEF IInv, TypeOK, EntryInv, ProcInv, Blank, Entry, Opener, Closer, Woken, Retry, Enter, Goto, entryVars
<1>2. ProcInv'
  BY DEF IInv, TypeOK, EntryInv, ProcInv, OneWorker, Blank, Entry, Opener, Closer, Woken, Retry, Enter, Goto, entryVars
<1>3. OneWorker'
  BY DEF IInv, TypeOK, EntryInv, ProcInv, OneWorker, Blank, Entry, Opener, Closer, Woken, Retry, Enter, Goto, entryVars
<1> QED
  BY <1>1, <1>2, <1>3, Zenon

LEMMA EndContextIInv ==
  ASSUME NEW p \in Proc, EndContext(p), IInv
  PROVE  EntryInv' /\ ProcInv' /\ OneWorker'
<1>1. EntryInv'
  BY Zenon DEF IInv, TypeOK, EntryInv, ProcInv, Blank, Entry, Opener, Closer, EndContext, Leave, Enter, Goto, entryVars
<1>2. ProcInv'
  BY DEF IInv, TypeOK, EntryInv, ProcInv, OneWorker, Blank, Entry, Opener, Closer, EndContext, Leave, Enter, Goto, entryVars
<1>3. OneWorker'
  BY DEF IInv, TypeOK, EntryInv, ProcInv, OneWorker, Blank, Entry, Opener, Closer, EndContext, Leave, Enter, Goto, entryVars
<1> QED
  BY <1>1, <1>2, <1>3, Zenon

LEMMA DialedIInv ==
  ASSUME NEW p \in Proc, Dialed(p), IInv
  PROVE  EntryInv' /\ ProcInv' /\ OneWorker'
<1>1. EntryInv'
  BY DEF IInv, TypeOK, EntryInv, ProcInv, Blank, Entry, Opener, Closer, Dialed, Goto, entryVars
<1>2. ProcInv'
  BY DEF IInv, TypeOK, EntryInv, ProcInv, OneWorker, Blank, Entry, Opener, Closer, Dialed, Goto, entryVars
<1>3. OneWorker'
  BY DEF IInv, TypeOK, EntryInv, ProcInv, OneWorker, Blank, Entry, Opener, Closer, Dialed, Goto, entryVars
<1> QED
  BY <1>1, <1>2, <1>3, Zenon

LEMMA DialFailedIInv ==
  ASSUME NEW p \in Proc, DialFailed(p), IInv
  PROVE  EntryInv' /\ ProcInv' /\ OneWorker'
<1>1. EntryInv'
  BY DEF IInv, TypeOK, EntryInv, ProcInv, Blank, Entry, Opener, Closer, DialFailed, Remove, Leave, Enter, Goto, entryVars
<1>2. ProcInv'
  BY DEF IInv, TypeOK, EntryInv, ProcInv, OneWorker, Blank, Entry, Opener, Closer, DialFailed, Remove, Leave, Enter, Goto, entryVars
<1>3. OneWorker'
  BY DEF IInv, TypeOK, EntryInv, ProcInv, OneWorker, Blank, Entry, Opener, Closer, DialFailed, Remove, Leave, Enter, Goto, entryVars
<1> QED
  BY <1>1, <1>2, <1>3, Zenon

LEMMA InitializeFailedIInv ==
  ASSUME NEW p \in Proc, InitializeFailed(p), IInv
  PROVE  EntryInv' /\ ProcInv' /\ OneWorker'
<1>1. EntryInv'
  BY DEF IInv, TypeOK, EntryInv, ProcInv, Blank, Entry, Opener, Closer, InitializeFailed, Goto, entryVars
<1>2. ProcInv'
  BY DEF IInv, TypeOK, EntryInv, ProcInv, OneWorker, Blank, Entry, Opener, Closer, InitializeFailed, Goto, entryVars
<1>3. OneWorker'
  BY DEF IInv, TypeOK, EntryInv, ProcInv, OneWorker, Blank, Entry, Opener, Closer, InitializeFailed, Goto, entryVars
<1> QED
  BY <1>1, <1>2, <1>3, Zenon

LEMMA AbandonIInv ==
  ASSUME NEW p \in Proc, Abandon(p), IInv
  PROVE  EntryInv' /\ ProcInv' /\ OneWorker'
<1>1. EntryInv'
  BY DEF IInv, TypeOK, EntryInv, ProcInv, Blank, Entry, Opener, Closer, Abandon, Remove, Leave, Enter, Goto, entryVars
<1>2. ProcInv'
  BY DEF IInv, TypeOK, EntryInv, ProcInv, OneWorker, Blank, Entry, Opener, Closer, Abandon, Remove, Leave, Enter, Goto, entryVars
<1>3. OneWorker'
  BY DEF IInv, TypeOK, EntryInv, ProcInv, OneWorker, Blank, Entry, Opener, Closer, Abandon, Remove, Leave, Enter, Goto, entryVars
<1> QED
  BY <1>1, <1>2, <1>3

LEMMA PublishIInv ==
  ASSUME NEW p \in Proc, Publish(p), IInv
  PROVE  EntryInv' /\ ProcInv' /\ OneWorker'
<1>1. EntryInv'
  BY DEF IInv, TypeOK, EntryInv, ProcInv, Blank, Entry, Opener, Closer, Publish, Goto, entryVars
<1>2. ProcInv'
  BY DEF IInv, TypeOK, EntryInv, ProcInv, OneWorker, Blank, Entry, Opener, Closer, Publish, Goto, entryVars
<1>3. OneWorker'
  BY DEF IInv, TypeOK, EntryInv, ProcInv, OneWorker, Blank, Entry, Opener, Closer, Publish, Goto, entryVars
<1> QED
  BY <1>1, <1>2, <1>3, Zenon

LEMMA ReleaseIInv ==
  ASSUME NEW p \in Proc, Release(p), IInv
  PROVE  EntryInv' /\ ProcInv' /\ OneWorker'
<1> DEFINE e == at[p]
<1>1. /\ e \in Entry /\ set[e] /\ (conn[e] = "open" \/ failed[e])
      /\ pc[p] \in {"leased", "connect"} /\ e <= made
      /\ p \in Users(e)
  <2>1. pc[p] \in {"leased", "connect"}
    BY Zenon DEF Release
  <2>2. at[p] # 0 /\ at[p] \in 0 .. MaxEntries
    BY <2>1, Zenon DEF IInv, TypeOK, ProcInv
  <2>3. e \in Entry
    BY <2>2, PoolAssumption DEF Entry
  <2> QED
    BY <2>1, <2>3, Zenon DEF IInv, ProcInv, Users
<1>2. /\ UNCHANGED <<entry, made, conn, failed, set, opening, closed>>
      /\ \A q \in Proc : q # p => pc'[q] = pc[q] /\ at'[q] = at[q]
      /\ \A x \in Entry : x # e => refs'[x] = refs[x]
  BY Zenon DEF IInv, TypeOK, Release, Leave, Enter, Goto
<1> HIDE DEF e
<1>3. CASE /\ closing' = closing
           /\ pc'[p] = "idle" /\ at'[p] = 0
  <2>1. EntryInv'
    BY <1>1, <1>2, <1>3, Zenon DEF IInv, TypeOK, EntryInv, Blank, Entry
  <2>2. ProcInv'
    BY <1>2, <1>3 DEF IInv, TypeOK, ProcInv, Opener, Closer
  <2>3. OneWorker'
    BY <1>2, <1>3, Zenon DEF IInv, OneWorker, Opener, Closer
  <2> QED
    BY <2>1, <2>2, <2>3, Zenon
<1>4. CASE /\ entry = e /\ ~closing[e] /\ refs[e] <= 1
           /\ closing' = [closing EXCEPT ![e] = TRUE]
           /\ pc'[p] = "close" /\ at'[p] = e
  <2>1. \A q \in Proc : q # p => q \notin Users(e)
    BY <1>1, <1>4, LastUser, Zenon DEF IInv, CountInv
  <2>2. \A q \in Proc : pc[q] \notin Opener \cup Closer
    BY <1>1, <1>4, Zenon DEF IInv, ProcInv, e
  <2>3. EntryInv'
    BY <1>1, <1>2, <1>4, Zenon DEF IInv, TypeOK, EntryInv, Blank, Entry
  <2>4. ProcInv'
    BY <1>1, <1>2, <1>4, <2>1, <2>2 DEF IInv, TypeOK, ProcInv, Users, Opener, Closer
  <2>5. OneWorker'
    BY <1>2, <1>4, <2>2, Zenon DEF OneWorker, Opener, Closer
  <2> QED
    BY <2>3, <2>4, <2>5, Zenon
<1> QED
  BY <1>1, <1>3, <1>4 DEF Release, Leave, Enter, Goto, IInv, TypeOK, e

LEMMA ConnectLeaseIInv ==
  ASSUME NEW p \in Proc, ConnectLease(p), IInv
  PROVE  EntryInv' /\ ProcInv' /\ OneWorker'
<1>1. EntryInv'
  BY Zenon DEF IInv, TypeOK, EntryInv, ProcInv, Blank, Entry, Opener, Closer, ConnectLease, Goto, entryVars
<1>2. ProcInv'
  BY DEF IInv, TypeOK, EntryInv, ProcInv, OneWorker, Blank, Entry, Opener, Closer, ConnectLease, Goto, entryVars
<1>3. OneWorker'
  BY DEF IInv, TypeOK, EntryInv, ProcInv, OneWorker, Blank, Entry, Opener, Closer, ConnectLease, Goto, entryVars
<1> QED
  BY <1>1, <1>2, <1>3, Zenon

LEMMA CloseCoreIInv ==
  ASSUME NEW p \in Proc, CloseCore(p), IInv
  PROVE  EntryInv' /\ ProcInv' /\ OneWorker'
<1>1. EntryInv'
  BY DEF IInv, TypeOK, EntryInv, ProcInv, Blank, Entry, Opener, Closer, CloseCore, Goto, entryVars
<1>2. ProcInv'
  BY DEF IInv, TypeOK, EntryInv, ProcInv, OneWorker, Blank, Entry, Opener, Closer, CloseCore, Goto, entryVars
<1>3. OneWorker'
  BY DEF IInv, TypeOK, EntryInv, ProcInv, OneWorker, Blank, Entry, Opener, Closer, CloseCore, Goto, entryVars
<1> QED
  BY <1>1, <1>2, <1>3, Zenon

LEMMA CloseEntryIInv ==
  ASSUME NEW p \in Proc, CloseEntry(p), IInv
  PROVE  EntryInv' /\ ProcInv' /\ OneWorker'
<1>1. /\ entry = at[p] /\ at[p] \in Entry /\ closing[at[p]] /\ conn[at[p]] = "closed"
      /\ set[at[p]]
  BY DEF IInv, TypeOK, EntryInv, ProcInv, Entry, Closer, CloseEntry
<1>2. /\ entry' = 0 /\ closed' = [closed EXCEPT ![at[p]] = TRUE]
      /\ pc'[p] \in {"idle", "acquire"} /\ at'[p] = 0
      /\ \A q \in Proc : q # p => pc'[q] = pc[q] /\ at'[q] = at[q]
      /\ UNCHANGED <<made, conn, failed, set, refs, closing, opening>>
  BY <1>1, Zenon DEF IInv, TypeOK, CloseEntry, Retry, Leave, Enter, Goto
<1>3. \A q \in Proc : q # p => pc[q] \notin Opener \cup Closer
  BY Zenon DEF IInv, OneWorker, CloseEntry, Closer, Opener
<1>4. EntryInv'
  <2>1. \A e \in Entry : /\ e # at[p] => (closed'[e] <=> closed[e])
                         /\ closed'[at[p]] /\ entry' # e /\ conn[e] # "open"
                         /\ entry # e <=> e # at[p]
                         /\ at[p] <= made
    BY <1>1, <1>2 DEF IInv, TypeOK, EntryInv, Entry
  <2>2. entry' <= made'
    BY <1>2 DEF IInv, TypeOK
  <2> QED
    BY <1>1, <1>2, <2>1, <2>2 DEF IInv, EntryInv, Blank, Entry
<1>5. ProcInv'
  BY <1>1, <1>2, <1>3 DEF IInv, TypeOK, ProcInv, Opener, Closer
<1>6. OneWorker'
  BY <1>2, <1>3, Zenon DEF OneWorker, Opener, Closer
<1> QED
  BY <1>4, <1>5, <1>6, Zenon

LEMMA FailIInv ==
  ASSUME NEW e \in Entry, Fail(e), IInv
  PROVE  EntryInv' /\ ProcInv' /\ OneWorker'
<1>1. EntryInv'
  BY Zenon DEF IInv, TypeOK, EntryInv, Blank, Entry, Fail
<1>2. ProcInv'
  BY DEF IInv, TypeOK, ProcInv, Opener, Closer, Fail
<1>3. OneWorker'
  BY Zenon DEF IInv, OneWorker, Fail
<1> QED
  BY <1>1, <1>2, <1>3, Zenon

(***************************************************************************)
(* The use count.                                                          *)
(***************************************************************************)

(* A step that moves no user and changes neither the count nor the current *)
(* entry preserves it.                                                     *)
LEMMA SameUsers ==
  ASSUME CountInv, UNCHANGED <<refs, closing>>, entry' \in {0, entry},
         \A q \in Proc, e \in Entry :
           (pc'[q] \in {"leased", "connect"} /\ at'[q] = e) <=>
           (pc[q] \in {"leased", "connect"} /\ at[q] = e)
  PROVE  CountInv'
<1>1. \A e \in Entry : Users(e)' = Users(e)
  BY Zenon DEF Users
<1>2. \A e \in Entry : entry' = e => entry = e
  BY DEF Entry
<1> QED
  BY <1>1, <1>2, Zenon DEF CountInv

LEMMA JoinCount ==
  ASSUME NEW p \in Proc, Join(p), IInv
  PROVE  CountInv'
<1> DEFINE e == entry
<1>1. e \in Entry /\ ~closing[e] /\ refs[e] = Cardinality(Users(e))
  BY PoolAssumption DEF IInv, TypeOK, CountInv, Join, Entry
<1>2. p \notin Users(e)
  BY Zenon DEF Users, Join
<1>3. Users(e)' = Users(e) \cup {p}
  BY <1>1, Zenon DEF Users, Join, Enter, Goto, IInv, TypeOK
<1>4. Cardinality(Users(e) \cup {p}) = Cardinality(Users(e)) + 1
  BY <1>2, UsersFinite, FS_AddElement, Zenon
<1>5. refs'[e] = refs[e] + 1 /\ entry' = e
  BY <1>1, Zenon DEF Join, IInv, TypeOK
<1> QED
  BY <1>1, <1>3, <1>4, <1>5, Zenon DEF CountInv

LEMMA PublishCount ==
  ASSUME NEW p \in Proc, Publish(p), IInv
  PROVE  CountInv'
<1>0. at[p] \in 0 .. MaxEntries /\ at[p] # 0 /\ entry = at[p] /\ ~set[at[p]]
  BY Zenon DEF IInv, TypeOK, ProcInv, Publish, Opener
<1>1. PICK e \in Entry : e = at[p] /\ entry = e /\ ~set[e]
  BY <1>0, PoolAssumption DEF Entry
<1>2. Users(e)' = {p}
  BY <1>1 DEF Users, Publish, Goto, IInv, TypeOK, ProcInv
<1>3. Cardinality({p}) = 1
  BY FS_Singleton, Zenon
<1>4. refs'[e] = 1 /\ entry' = e
  BY <1>1, Zenon DEF Publish, IInv, TypeOK
<1> QED
  BY <1>1, <1>2, <1>3, <1>4, Zenon DEF CountInv

LEMMA CreateCount ==
  ASSUME NEW p \in Proc, Create(p), IInv
  PROVE  CountInv'
<1>1. PICK e \in Entry : e = made + 1 /\ refs[e] = 0 /\ entry' = e /\ UNCHANGED refs
  BY PoolAssumption DEF IInv, TypeOK, EntryInv, Blank, Create, Entry
<1>2. \A q \in Proc : at[q] # e
  BY <1>1 DEF IInv, TypeOK, ProcInv
<1>3. Users(e)' = {}
  BY <1>1, <1>2, Zenon DEF Users, Create, Enter, Goto, IInv, TypeOK
<1> QED
  BY <1>1, <1>3, FS_EmptySet, Zenon DEF CountInv

LEMMA ReleaseCount ==
  ASSUME NEW p \in Proc, Release(p), IInv
  PROVE  CountInv'
<1> SUFFICES ASSUME NEW e \in Entry, entry' = e, ~closing'[e]
             PROVE  refs'[e] = Cardinality(Users(e)')
  BY Zenon DEF CountInv
<1>1. entry = e /\ ~closing[e] /\ refs[e] = Cardinality(Users(e))
  BY Zenon DEF IInv, TypeOK, CountInv, Release
<1>2. CASE at[p] # e
  <2>1. refs' = refs /\ Leave(p)
    BY <1>1, <1>2, Zenon DEF Release
  <2>2. Users(e)' = Users(e)
    BY <1>2, <2>1, Zenon DEF Users, Leave, Enter, Goto, IInv, TypeOK, Entry
  <2> QED
    BY <1>1, <2>1, <2>2, Zenon
<1>3. CASE at[p] = e
  <2>1. refs'[e] = refs[e] - 1 /\ Leave(p)
    BY <1>1, <1>3, Zenon DEF Release, IInv, TypeOK
  <2>2. Users(e)' = Users(e) \ {p}
    BY <1>3, <2>1, Zenon DEF Users, Leave, Enter, Goto, IInv, TypeOK, Entry
  <2>3. p \in Users(e)
    BY <1>3, Zenon DEF Users, Release
  <2>4. Cardinality(Users(e) \ {p}) = Cardinality(Users(e)) - 1
    BY <2>3, UsersFinite, FS_RemoveElement, Zenon
  <2> QED
    BY <1>1, <2>1, <2>2, <2>4, Zenon
<1> QED
  BY <1>2, <1>3, Zenon

LEMMA FindStaleCount ==
  ASSUME NEW p \in Proc, FindStale(p), IInv
  PROVE  CountInv'
BY PoolAssumption, Zenon DEF IInv, TypeOK, CountInv, FindStale, Entry

(***************************************************************************)
(* Type correctness. The use count does not go below zero because whoever  *)
(* releases is counted.                                                    *)
(***************************************************************************)
LEMMA LeaveType ==
  ASSUME TypeOK, NEW p \in Proc
  PROVE  /\ Leave(p) => pc' \in [Proc -> PC] /\ at' \in [Proc -> 0 .. MaxEntries]
         /\ Retry(p) => pc' \in [Proc -> PC] /\ at' \in [Proc -> 0 .. MaxEntries]
         /\ \A e \in 0 .. MaxEntries :
              Enter(p, "close", e) =>
                pc' \in [Proc -> PC] /\ at' \in [Proc -> 0 .. MaxEntries]
BY PoolAssumption DEF TypeOK, Leave, Retry, Enter, Goto, PC

LEMMA FlagType ==
  ASSUME NEW f \in [Entry -> BOOLEAN], NEW e
  PROVE  /\ [f EXCEPT ![e] = TRUE] \in [Entry -> BOOLEAN]
         /\ [f EXCEPT ![e] = FALSE] \in [Entry -> BOOLEAN]
OBVIOUS

LEMMA ReleaseType ==
  ASSUME NEW p \in Proc, Release(p), IInv
  PROVE  TypeOK'
<1>1. at[p] \in 0 .. MaxEntries /\ at[p] # 0
  BY Zenon DEF IInv, TypeOK, ProcInv, Release
<1>2. at[p] \in Entry
  BY <1>1, PoolAssumption DEF Entry
<1>3. ASSUME entry = at[p], ~closing[at[p]] PROVE refs[at[p]] - 1 \in Nat
  <2>1. p \in Users(at[p])
    BY Zenon DEF Users, Release
  <2>2. Cardinality(Users(at[p])) # 0
    BY <2>1, UsersFinite, FS_EmptySet, Zenon
  <2> QED
    BY <1>2, <1>3, <2>2, UsersFinite DEF IInv, CountInv
<1>4. refs' \in [Entry -> Nat]
  BY <1>2, <1>3, Zenon DEF IInv, TypeOK, Release
<1> QED
  <2>1. pc' \in [Proc -> PC] /\ at' \in [Proc -> 0 .. MaxEntries]
    BY <1>1, LeaveType, Zenon DEF IInv, Release
  <2>2. closing' \in [Entry -> BOOLEAN]
    BY Zenon DEF IInv, TypeOK, Release
  <2> QED
    BY <1>4, <2>1, <2>2, Zenon DEF IInv, TypeOK, Release

LEMMA TypeStep == IInv /\ [Next]_vars => TypeOK'
<1> SUFFICES ASSUME IInv, [Next]_vars PROVE TypeOK'
  OBVIOUS
<1>1. ASSUME NEW p \in Proc, Acquire(p) PROVE TypeOK'
  BY <1>1, PoolAssumption DEF IInv, TypeOK, Acquire, Goto, PC, Entry, entryVars
<1>2. ASSUME NEW p \in Proc, AwaitClosed(p) PROVE TypeOK'
  BY <1>2, PoolAssumption, Zenon DEF IInv, TypeOK, AwaitClosed, Enter, Goto, PC, Entry, entryVars
<1>3. ASSUME NEW p \in Proc, Join(p) PROVE TypeOK'
  BY <1>3, PoolAssumption DEF IInv, TypeOK, Join, Enter, Goto, PC, Entry, entryVars
<1>4. ASSUME NEW p \in Proc, FindStale(p) PROVE TypeOK'
  BY <1>4, PoolAssumption, Zenon DEF IInv, TypeOK, FindStale, Enter, Goto, PC, Entry, entryVars
<1>5. ASSUME NEW p \in Proc, AwaitOpening(p) PROVE TypeOK'
  BY <1>5, PoolAssumption, Zenon DEF IInv, TypeOK, AwaitOpening, Enter, Goto, PC, Entry, entryVars
<1>6. ASSUME NEW p \in Proc, Create(p) PROVE TypeOK'
  BY <1>6, PoolAssumption DEF IInv, TypeOK, Create, Enter, Goto, PC, Entry, entryVars
<1>7. ASSUME NEW p \in Proc, Woken(p) PROVE TypeOK'
  BY <1>7, PoolAssumption DEF IInv, TypeOK, Woken, Retry, Enter, Goto, PC, Entry, entryVars
<1>8. ASSUME NEW p \in Proc, EndContext(p) PROVE TypeOK'
  BY <1>8, PoolAssumption DEF IInv, TypeOK, EndContext, Leave, Enter, Goto, PC, Entry, entryVars
<1>9. ASSUME NEW p \in Proc, Dialed(p) PROVE TypeOK'
  BY <1>9, PoolAssumption, Zenon DEF IInv, TypeOK, Dialed, Goto, PC, Entry, entryVars
<1>10. ASSUME NEW p \in Proc, DialFailed(p) PROVE TypeOK'
  <2>1. pc' \in [Proc -> PC] /\ at' \in [Proc -> 0 .. MaxEntries]
    BY <1>10, LeaveType, Zenon DEF IInv, DialFailed
  <2>2. /\ entry' \in 0 .. MaxEntries
        /\ opening' \in [Entry -> BOOLEAN] /\ closed' \in [Entry -> BOOLEAN]
    <3>1. /\ 0 \in 0 .. MaxEntries
          /\ opening \in [Entry -> BOOLEAN] /\ closed \in [Entry -> BOOLEAN]
      BY PoolAssumption DEF IInv, TypeOK
    <3> QED
      BY <1>10, <3>1, FlagType, Zenon DEF DialFailed, Remove
  <2> QED
    BY <1>10, <2>1, <2>2, Zenon DEF IInv, TypeOK, DialFailed
<1>11. ASSUME NEW p \in Proc, InitializeFailed(p) PROVE TypeOK'
  BY <1>11, PoolAssumption, Zenon DEF IInv, TypeOK, InitializeFailed, Goto, PC, Entry, entryVars
<1>12. ASSUME NEW p \in Proc, Abandon(p) PROVE TypeOK'
  <2>1. pc' \in [Proc -> PC] /\ at' \in [Proc -> 0 .. MaxEntries]
    BY <1>12, LeaveType, Zenon DEF IInv, Abandon
  <2>2. /\ entry' \in 0 .. MaxEntries
        /\ opening' \in [Entry -> BOOLEAN] /\ closed' \in [Entry -> BOOLEAN]
    <3>1. /\ 0 \in 0 .. MaxEntries
          /\ opening \in [Entry -> BOOLEAN] /\ closed \in [Entry -> BOOLEAN]
      BY PoolAssumption DEF IInv, TypeOK
    <3> QED
      BY <1>12, <3>1, FlagType, Zenon DEF Abandon, Remove
  <2> QED
    BY <1>12, <2>1, <2>2, Zenon DEF IInv, TypeOK, Abandon
<1>13. ASSUME NEW p \in Proc, Publish(p) PROVE TypeOK'
  BY <1>13, PoolAssumption, Zenon DEF IInv, TypeOK, Publish, Goto, PC, Entry, entryVars
<1>14. ASSUME NEW p \in Proc, Release(p) PROVE TypeOK'
  BY <1>14, ReleaseType, Zenon
<1>15. ASSUME NEW p \in Proc, ConnectLease(p) PROVE TypeOK'
  BY <1>15, PoolAssumption, Zenon DEF IInv, TypeOK, ConnectLease, Goto, PC, Entry, entryVars
<1>16. ASSUME NEW p \in Proc, CloseCore(p) PROVE TypeOK'
  BY <1>16, PoolAssumption, Zenon DEF IInv, TypeOK, CloseCore, Goto, PC, Entry, entryVars
<1>17. ASSUME NEW p \in Proc, CloseEntry(p) PROVE TypeOK'
  <2>1. pc' \in [Proc -> PC] /\ at' \in [Proc -> 0 .. MaxEntries]
    BY <1>17, LeaveType, Zenon DEF IInv, CloseEntry
  <2>2. entry' \in 0 .. MaxEntries /\ closed' \in [Entry -> BOOLEAN]
    <3>1. entry \in 0 .. MaxEntries /\ 0 \in 0 .. MaxEntries /\ closed \in [Entry -> BOOLEAN]
      BY PoolAssumption DEF IInv, TypeOK
    <3> QED
      BY <1>17, <3>1, FlagType, Zenon DEF CloseEntry
  <2> QED
    BY <1>17, <2>1, <2>2, Zenon DEF IInv, TypeOK, CloseEntry
<1>18. ASSUME NEW e \in Entry, Fail(e) PROVE TypeOK'
  BY <1>18, Zenon DEF IInv, TypeOK, Fail
<1>19. CASE UNCHANGED vars
  BY <1>19, Zenon DEF IInv, TypeOK, vars, entryVars
<1> QED
  BY <1>1, <1>2, <1>3, <1>4, <1>5, <1>6, <1>7, <1>8, <1>9, <1>10, <1>11,
     <1>12, <1>13, <1>14, <1>15, <1>16, <1>17, <1>18, <1>19, Zenon
     DEF Next, AcquireStep, CloseStep

(***************************************************************************)
(* The inductive invariant and what follows from it.                       *)
(***************************************************************************)
LEMMA InitIInv == Init => IInv
<1> SUFFICES ASSUME Init PROVE IInv
  OBVIOUS
<1>1. TypeOK
  BY PoolAssumption DEF Init, TypeOK, PC, Entry
<1>2. EntryInv /\ ProcInv /\ OneWorker
  BY PoolAssumption DEF Init, EntryInv, Blank, ProcInv, OneWorker, Opener, Closer, Entry
<1>3. CountInv
  BY PoolAssumption DEF Init, CountInv, Entry
<1> QED
  BY <1>1, <1>2, <1>3, Zenon DEF IInv

LEMMA StepIInv == IInv /\ [Next]_vars => IInv'
<1> SUFFICES ASSUME IInv, [Next]_vars PROVE IInv'
  OBVIOUS
<1>0. TypeOK'
  BY TypeStep, Zenon
<1>1. ASSUME NEW p \in Proc, Acquire(p) PROVE IInv'
  <2>1. CountInv'
    BY <1>1, SameUsers, Zenon DEF IInv, TypeOK, Acquire, Goto, entryVars, Entry
  <2> QED
    BY <1>0, <1>1, <2>1, AcquireIInv, Zenon DEF IInv
<1>2. ASSUME NEW p \in Proc, AwaitClosed(p) PROVE IInv'
  <2>1. CountInv'
    BY <1>2, SameUsers, Zenon DEF IInv, TypeOK, AwaitClosed, Enter, Goto, entryVars, Entry
  <2> QED
    BY <1>0, <1>2, <2>1, AwaitClosedIInv, Zenon DEF IInv
<1>3. ASSUME NEW p \in Proc, Join(p) PROVE IInv'
  BY <1>0, <1>3, JoinIInv, JoinCount, Zenon DEF IInv
<1>4. ASSUME NEW p \in Proc, FindStale(p) PROVE IInv'
  BY <1>0, <1>4, FindStaleIInv, FindStaleCount, Zenon DEF IInv
<1>5. ASSUME NEW p \in Proc, AwaitOpening(p) PROVE IInv'
  <2>1. CountInv'
    BY <1>5, SameUsers, Zenon DEF IInv, TypeOK, AwaitOpening, Enter, Goto, entryVars, Entry
  <2> QED
    BY <1>0, <1>5, <2>1, AwaitOpeningIInv, Zenon DEF IInv
<1>6. ASSUME NEW p \in Proc, Create(p) PROVE IInv'
  BY <1>0, <1>6, CreateIInv, CreateCount, Zenon DEF IInv
<1>7. ASSUME NEW p \in Proc, Woken(p) PROVE IInv'
  <2>1. CountInv'
    BY <1>7, SameUsers, Zenon DEF IInv, TypeOK, Woken, Retry, Enter, Goto, entryVars, Entry
  <2> QED
    BY <1>0, <1>7, <2>1, WokenIInv, Zenon DEF IInv
<1>8. ASSUME NEW p \in Proc, EndContext(p) PROVE IInv'
  <2>1. CountInv'
    BY <1>8, SameUsers, Zenon DEF IInv, TypeOK, EndContext, Leave, Enter, Goto, entryVars, Entry
  <2> QED
    BY <1>0, <1>8, <2>1, EndContextIInv, Zenon DEF IInv
<1>9. ASSUME NEW p \in Proc, Dialed(p) PROVE IInv'
  <2>1. CountInv'
    BY <1>9, SameUsers, Zenon DEF IInv, TypeOK, Dialed, Goto, entryVars, Entry
  <2> QED
    BY <1>0, <1>9, <2>1, DialedIInv, Zenon DEF IInv
<1>10. ASSUME NEW p \in Proc, DialFailed(p) PROVE IInv'
  <2>1. CountInv'
    BY <1>10, SameUsers, Zenon DEF IInv, TypeOK, DialFailed, Remove, Leave, Enter, Goto, entryVars, Entry
  <2> QED
    BY <1>0, <1>10, <2>1, DialFailedIInv, Zenon DEF IInv
<1>11. ASSUME NEW p \in Proc, InitializeFailed(p) PROVE IInv'
  <2>1. CountInv'
    BY <1>11, SameUsers, Zenon DEF IInv, TypeOK, InitializeFailed, Goto, entryVars, Entry
  <2> QED
    BY <1>0, <1>11, <2>1, InitializeFailedIInv, Zenon DEF IInv
<1>12. ASSUME NEW p \in Proc, Abandon(p) PROVE IInv'
  <2>1. CountInv'
    BY <1>12, SameUsers, Zenon DEF IInv, TypeOK, Abandon, Remove, Leave, Enter, Goto, entryVars, Entry
  <2> QED
    BY <1>0, <1>12, <2>1, AbandonIInv, Zenon DEF IInv
<1>13. ASSUME NEW p \in Proc, Publish(p) PROVE IInv'
  BY <1>0, <1>13, PublishIInv, PublishCount, Zenon DEF IInv
<1>14. ASSUME NEW p \in Proc, Release(p) PROVE IInv'
  BY <1>0, <1>14, ReleaseIInv, ReleaseCount, Zenon DEF IInv
<1>15. ASSUME NEW p \in Proc, ConnectLease(p) PROVE IInv'
  <2>1. CountInv'
    BY <1>15, SameUsers, Zenon DEF IInv, TypeOK, ConnectLease, Goto, entryVars, Entry
  <2> QED
    BY <1>0, <1>15, <2>1, ConnectLeaseIInv, Zenon DEF IInv
<1>16. ASSUME NEW p \in Proc, CloseCore(p) PROVE IInv'
  <2>1. CountInv'
    BY <1>16, SameUsers, Zenon DEF IInv, TypeOK, CloseCore, Goto, entryVars, Entry
  <2> QED
    BY <1>0, <1>16, <2>1, CloseCoreIInv, Zenon DEF IInv
<1>17. ASSUME NEW p \in Proc, CloseEntry(p) PROVE IInv'
  <2>1. CountInv'
    BY <1>17, SameUsers, Zenon DEF IInv, TypeOK, CloseEntry, Leave, Retry, Enter, Goto, entryVars, Entry
  <2> QED
    BY <1>0, <1>17, <2>1, CloseEntryIInv, Zenon DEF IInv
<1>18. ASSUME NEW e \in Entry, Fail(e) PROVE IInv'
  <2>1. CountInv'
    BY <1>18, SameUsers, Zenon DEF IInv, Fail
  <2> QED
    BY <1>0, <1>18, <2>1, FailIInv, Zenon DEF IInv
<1>19. CASE UNCHANGED vars
  <2>1. CountInv'
    BY <1>19, SameUsers, Zenon DEF IInv, vars, entryVars
  <2>2. EntryInv' /\ ProcInv' /\ OneWorker'
    BY <1>19 DEF IInv, EntryInv, ProcInv, OneWorker, Blank, vars, entryVars
  <2> QED
    BY <1>0, <2>1, <2>2, Zenon DEF IInv
<1> QED
  BY <1>1, <1>2, <1>3, <1>4, <1>5, <1>6, <1>7, <1>8, <1>9, <1>10, <1>11,
     <1>12, <1>13, <1>14, <1>15, <1>16, <1>17, <1>18, <1>19, Zenon
     DEF Next, AcquireStep, CloseStep

(* The inductive invariant holds in every reachable state.                 *)
THEOREM Invariance == Spec => []IInv
BY InitIInv, StepIInv, PTL DEF Spec

(* The pool is well typed; in particular a use count is never negative.    *)
THEOREM TypeCorrect == Spec => []TypeOK
<1>1. IInv => TypeOK
  BY Zenon DEF IInv
<1> QED
  BY <1>1, Invariance, PTL

(* acquire never dials while a connection to the device is open.           *)
THEOREM DeviceOpenOnce == Spec => []OneConnection
<1>1. IInv => OneConnection
  BY Zenon DEF IInv, EntryInv, OneConnection
<1> QED
  BY <1>1, Invariance, PTL

(* entry.refs counts the outstanding leases exactly.                       *)
THEOREM UseCountExact == Spec => []RefsCountUsers
<1>1. IInv => RefsCountUsers
  <2> SUFFICES ASSUME IInv, entry # 0, ~closing[entry]
               PROVE  refs[entry] = Cardinality(Users(entry))
    BY Zenon DEF RefsCountUsers
  <2>1. entry \in Entry
    BY PoolAssumption DEF IInv, TypeOK, Entry
  <2> QED
    BY <2>1, Zenon DEF IInv, CountInv
<1> QED
  BY <1>1, Invariance, PTL

(* release and acquire never close the connection of a lease whose core    *)
(* has not failed.                                                         *)
THEOREM LeasesStayOpen == Spec => []NotClosedUnderLease
<1>1. IInv => NotClosedUnderLease
  BY Zenon DEF IInv, ProcInv, NotClosedUnderLease
<1> QED
  BY <1>1, Invariance, PTL

(* No goroutine waits on a channel of an entry that nobody will close.     *)
THEOREM NoWaiterForgotten == Spec => []WaitersAreWoken
<1>1. IInv => WaitersAreWoken
  <2> SUFFICES ASSUME IInv, NEW p \in Proc, pc[p] \in {"waitClosed", "waitOpening"}
               PROVE  /\ pc[p] = "waitClosed" /\ entry # at[p] => closed[at[p]]
                      /\ pc[p] = "waitOpening" /\ (entry # at[p] \/ set[at[p]]) =>
                           ~opening[at[p]]
    BY Zenon DEF WaitersAreWoken
  <2>1. at[p] \in 0 .. MaxEntries /\ at[p] # 0
    BY Zenon DEF IInv, TypeOK, ProcInv
  <2>2. at[p] \in Entry
    BY <2>1, PoolAssumption DEF Entry
  <2> QED
    BY <2>2, Zenon DEF IInv, EntryInv, ProcInv
<1> QED
  BY <1>1, Invariance, PTL

(* No channel of an entry is closed twice.                                 *)
THEOREM ChannelsClosedOnce == Spec => []ClosedOnce
<1>1. IInv => ClosedOnce
  <2> SUFFICES ASSUME IInv, NEW p \in Proc, pc[p] \in Opener \cup Closer
               PROVE  /\ entry = at[p] /\ ~closed[at[p]]
                      /\ pc[p] \in Opener => opening[at[p]]
                      /\ \A q \in Proc : pc[q] \in Opener \cup Closer => q = p
    BY Zenon DEF ClosedOnce
  <2>1. at[p] \in 0 .. MaxEntries /\ at[p] # 0 /\ entry = at[p]
    BY Zenon DEF IInv, TypeOK, ProcInv, Opener, Closer
  <2>2. at[p] \in Entry
    BY <2>1, PoolAssumption DEF Entry
  <2> QED
    BY <2>1, <2>2, Zenon DEF IInv, EntryInv, ProcInv, OneWorker
<1> QED
  BY <1>1, Invariance, PTL

=============================================================================
