---------------------------- MODULE ModemBearers ----------------------------
(***************************************************************************)
(* The data bearers of a modem: Connect, Disconnect, Close and             *)
(* DisconnectAll of modem/modem.go over the sessions of                    *)
(* modem/mbim/bearer.go.  Calls of Connect run concurrently; the owner of  *)
(* a bearer, DisconnectAll and Modem.Close work on the same bearers; a     *)
(* watch of a bearer writes back what it read from the device.             *)
(*                                                                         *)
(* A bearer is named by the call of Connect that made it.  An exchange     *)
(* with the device is one step: it has its effect or not, and succeeds or  *)
(* not, in every combination that a timeout allows.                        *)
(***************************************************************************)
EXTENDS Naturals, FiniteSets

CONSTANTS
  Call,         \* calls of Connect
  Watched,      \* those whose bearer is watched
  MaxSessions,  \* caps.MaxSessions of the device (0 is read as 1)
  None

ASSUME BearerAssumption ==
  /\ IsFiniteSet(Call) /\ Watched \subseteq Call
  /\ MaxSessions \in Nat \ {0}
  /\ None \notin Call \cup {"mgr"} \cup Nat
  /\ "mgr" \notin Call

Slot == 0 .. MaxSessions - 1
Actor == Call \cup {"mgr"}

VARIABLES
  closed,     \* m.closed
  bearers,    \* m.bearers
  backend,    \* FALSE once the client of the backend has been closed
  cleaner,    \* who holds Backend.mu over cleanupStaleSessions
  prepared,   \* b.sessionsPrepared
  slots,      \* b.slots: the session IDs in use
  device,     \* the sessions that are active on the device
  pc,         \* where each call of Connect is
  sid,        \* its session ID; the next ID to look at while it cleans up
  ended,      \* session.closed
  connected,  \* session.infoValue.Connected
  retired,    \* Bearer.closed
  lock,       \* the holder of Bearer.mu
  kind,       \* what an actor does: "disconnect", "close" or "owned"
  on,         \* the bearer it does it to
  at,         \* where it is: "idle", "lock", "send", "ok" or "err"
  mgr,        \* "open", "all" (DisconnectAll), "close" or "closed"
  todo,       \* the bearers the manager has still to visit
  watch,      \* a watch: "off", "poll", or what it read, "up" or "down"
  troubled    \* history: IDs on which, since they were last reserved, an
              \* exchange failed or whose session the network ended

modemVars == <<closed, bearers, mgr, todo>>
slotVars == <<cleaner, prepared, slots>>
callVars == <<pc, sid>>
sessionVars == <<ended, connected>>
opVars == <<retired, lock, kind, on, at>>
vars == <<modemVars, backend, slotVars, device, callVars, sessionVars, opVars,
          watch, troubled>>

PC == {"idle", "prepare", "clean", "reserve", "activate", "address", "undo",
       "store", "abort", "open", "failed"}

Init ==
  /\ closed = FALSE /\ bearers = {} /\ backend = TRUE
  /\ cleaner = None /\ prepared = FALSE /\ slots = {}
  /\ device \in SUBSET Slot
  /\ pc = [c \in Call |-> "idle"] /\ sid = [c \in Call |-> 0]
  /\ ended = [c \in Call |-> FALSE] /\ connected = [c \in Call |-> FALSE]
  /\ retired = [c \in Call |-> FALSE] /\ lock = [c \in Call |-> None]
  /\ kind = [a \in Actor |-> "none"]
  /\ on = [a \in Actor |-> None] /\ at = [a \in Actor |-> "idle"]
  /\ mgr = "open" /\ todo = {}
  /\ watch = [c \in Call |-> "off"]
  /\ troubled = {}

Goto(c, label) == pc' = [pc EXCEPT ![c] = label]

(* Connect returns an error; its ID is no longer of interest.              *)
Fail(c) == Goto(c, "failed") /\ sid' = [sid EXCEPT ![c] = 0]

-----------------------------------------------------------------------------
(* Connect: the backend is taken once, and used to the end.                *)
Connect(c) ==
  /\ pc[c] = "idle"
  /\ Goto(c, IF closed THEN "failed" ELSE "prepare")
  /\ UNCHANGED <<modemVars, backend, slotVars, device, sid, sessionVars, opVars,
                 watch, troubled>>

(* SIM, power, registration and attachment precede the session; any of the *)
(* queries or waits may fail or run out of time, and DeviceCaps may too.   *)
Unready(c) ==
  /\ pc[c] = "prepare"
  /\ Fail(c)
  /\ UNCHANGED <<modemVars, backend, slotVars, device, sessionVars, opVars,
                 watch, troubled>>

Bug_PrepareUnlocked(c) ==
  /\ pc[c] = "prepare"
  /\ Goto(c, IF prepared THEN "reserve" ELSE "clean")
  /\ UNCHANGED <<modemVars, backend, slotVars, device, sid, sessionVars, opVars,
                 watch, troubled>>

(* prepareSessions keeps Backend.mu while the first call cleans up.        *)
Prepare(c) ==
  /\ pc[c] = "prepare" /\ cleaner = None
  /\ Goto(c, IF prepared THEN "reserve" ELSE "clean")
  /\ cleaner' = IF prepared THEN None ELSE c
  /\ UNCHANGED <<modemVars, backend, prepared, slots, device, sid, sessionVars,
                 opVars, watch, troubled>>

(* cleanupStaleSessions, one session ID at a time.                         *)
Clean(c) ==
  /\ pc[c] = "clean" /\ sid[c] < MaxSessions
  /\ backend
  /\ device' = device \ {sid[c]}
  /\ sid' = [sid EXCEPT ![c] = @ + 1]
  /\ UNCHANGED <<modemVars, backend, slotVars, pc, sessionVars, opVars, watch,
                 troubled>>

CleanFailed(c) ==
  /\ pc[c] = "clean" /\ sid[c] < MaxSessions
  /\ device' \in {device, device \ {sid[c]}}
  /\ cleaner' = None
  /\ Fail(c)
  /\ UNCHANGED <<modemVars, backend, prepared, slots, sessionVars, opVars, watch,
                 troubled>>

Cleaned(c) ==
  /\ pc[c] = "clean" /\ sid[c] = MaxSessions
  /\ prepared' = TRUE /\ cleaner' = None
  /\ sid' = [sid EXCEPT ![c] = 0]
  /\ Goto(c, "reserve")
  /\ UNCHANGED <<modemVars, backend, slots, device, sessionVars, opVars, watch,
                 troubled>>

(* reserveSessionID: a requested ID that is free, or the lowest free one.  *)
ReserveSessionID(c) ==
  /\ pc[c] = "reserve" /\ cleaner = None
  /\ \E i \in Slot \ slots :
       /\ slots' = slots \cup {i} /\ sid' = [sid EXCEPT ![c] = i]
       /\ troubled' = troubled \ {i}
  /\ Goto(c, "activate")
  /\ UNCHANGED <<modemVars, backend, cleaner, prepared, device, sessionVars, opVars,
                 watch>>

(* The requested ID is too large or taken, or every ID is taken.           *)
ReserveFailed(c) ==
  /\ pc[c] = "reserve" /\ cleaner = None
  /\ Fail(c)
  /\ UNCHANGED <<modemVars, backend, slotVars, device, sessionVars, opVars,
                 watch, troubled>>

(* SetConnect(activate); on an error, or an answer that is not Activated,  *)
(* the deferred releaseSession gives the ID back.                          *)
Activate(c) ==
  /\ pc[c] = "activate" /\ backend
  /\ device' = device \cup {sid[c]}
  /\ Goto(c, "address")
  /\ UNCHANGED <<modemVars, backend, slotVars, sid, sessionVars, opVars, watch,
                 troubled>>

ActivateFailed(c) ==
  /\ pc[c] = "activate"
  /\ device' = device \/ (backend /\ device' = device \cup {sid[c]})
  /\ slots' = slots \ {sid[c]}
  /\ troubled' = troubled \cup {sid[c]}
  /\ Fail(c)
  /\ UNCHANGED <<modemVars, backend, cleaner, prepared, sessionVars, opVars,
                 watch>>

(* IPConfiguration, and the session that ConnectPort returns.              *)
ReadAddress(c) ==
  /\ pc[c] = "address"
  /\ \/ backend /\ Goto(c, "store") /\ connected' = [connected EXCEPT ![c] = TRUE]
     \/ Goto(c, "undo") /\ UNCHANGED connected
  /\ UNCHANGED <<modemVars, backend, slotVars, device, sid, ended, opVars, watch,
                 troubled>>

-----------------------------------------------------------------------------
(* SetConnect(deactivate) for session i.  It succeeds for an active        *)
(* session; a failure may come after the effect.                           *)
Deactivates(i) ==
  /\ backend /\ i \in device
  /\ device' = device \ {i}
  /\ troubled' = troubled

DeactivateFails(i) ==
  /\ device' = device \/ (backend /\ device' = device \ {i})
  /\ troubled' = troubled \cup {i}

(* The rollback of ConnectPort releases the ID whatever the device says.   *)
Undo(c) ==
  /\ pc[c] = "undo"
  /\ Deactivates(sid[c]) \/ DeactivateFails(sid[c])
  /\ slots' = slots \ {sid[c]}
  /\ Fail(c)
  /\ UNCHANGED <<modemVars, backend, cleaner, prepared, sessionVars, opVars,
                 watch>>

Bug_StoreUnchecked(c) ==
  /\ pc[c] = "store"
  /\ bearers' = bearers \cup {c}
  /\ Goto(c, "open")
  /\ UNCHANGED <<closed, mgr, todo, backend, slotVars, device, sid,
                 sessionVars, opVars, watch, troubled>>

(* The end of Connect: the bearer is stored unless the modem was closed.   *)
Store(c) ==
  /\ pc[c] = "store"
  /\ IF closed
     THEN Goto(c, "abort") /\ UNCHANGED bearers
     ELSE Goto(c, "open") /\ bearers' = bearers \cup {c}
  /\ UNCHANGED <<closed, mgr, todo, backend, slotVars, device, sid,
                 sessionVars, opVars, watch, troubled>>

(* session.Disconnect, under session.mu: only a success ends the session   *)
(* and releases its ID.                                                    *)
SessionEnds(c) ==
  /\ Deactivates(sid[c])
  /\ ended' = [ended EXCEPT ![c] = TRUE]
  /\ connected' = [connected EXCEPT ![c] = FALSE]
  /\ slots' = slots \ {sid[c]}

SessionStays(c) ==
  /\ DeactivateFails(sid[c])
  /\ UNCHANGED <<ended, connected, slots>>

Bug_AbortForgets(c) ==
  /\ pc[c] = "abort"
  /\ Fail(c)
  /\ UNCHANGED <<modemVars, backend, slotVars, device, sessionVars, opVars,
                 watch, troubled>>

(* The session of a Connect that lost the race with Close is closed.       *)
Abort(c) ==
  /\ pc[c] = "abort"
  /\ SessionEnds(c) \/ SessionStays(c)
  /\ Fail(c)
  /\ UNCHANGED <<modemVars, backend, cleaner, prepared, opVars, watch>>

-----------------------------------------------------------------------------
(* An operation of actor a on a bearer: Disconnect ("disconnect"), Close   *)
(* ("close") or closeOwned ("owned").  Its owner calls the first two.      *)
Begin(a, c, k) ==
  /\ at' = [at EXCEPT ![a] = "lock"]
  /\ on' = [on EXCEPT ![a] = c]
  /\ kind' = [kind EXCEPT ![a] = k]

Idle(a) ==
  /\ at' = [at EXCEPT ![a] = "idle"]
  /\ on' = [on EXCEPT ![a] = None]
  /\ kind' = [kind EXCEPT ![a] = "none"]

OwnerCalls(c) ==
  /\ pc[c] = "open" /\ at[c] = "idle"
  /\ \E k \in {"disconnect", "close"} : Begin(c, c, k)
  /\ UNCHANGED <<modemVars, backend, slotVars, device, callVars, sessionVars,
                 retired, lock, watch, troubled>>

(* b.mu.Lock(), and nothing to do for a bearer that is closed.             *)
LockBearer(a) ==
  /\ at[a] = "lock" /\ lock[on[a]] = None
  /\ IF retired[on[a]]
     THEN Idle(a) /\ UNCHANGED lock
     ELSE /\ at' = [at EXCEPT ![a] = "send"]
          /\ lock' = [lock EXCEPT ![on[a]] = a]
          /\ UNCHANGED <<kind, on>>
  /\ UNCHANGED <<modemVars, backend, slotVars, device, callVars, sessionVars,
                 retired, watch, troubled>>

(* session.Disconnect under Bearer.mu.                                     *)
DisconnectSession(a) ==
  /\ at[a] = "send"
  /\ \/ SessionEnds(on[a]) /\ at' = [at EXCEPT ![a] = "ok"]
     \/ SessionStays(on[a]) /\ at' = [at EXCEPT ![a] = "err"]
  /\ UNCHANGED <<modemVars, backend, cleaner, prepared, callVars, retired, lock,
                 kind, on, watch>>

(* b.closed = true, and removeBearer.                                      *)
Retire(c) ==
  /\ retired' = [retired EXCEPT ![c] = TRUE]
  /\ bearers' = bearers \ {c}

(* Close goes on to closeOwned after a Disconnect that failed.             *)
Return(a) ==
  /\ lock' = [lock EXCEPT ![on[a]] = None]
  /\ IF kind[a] = "close" /\ at[a] = "err"
     THEN /\ at' = [at EXCEPT ![a] = "lock"]
          /\ kind' = [kind EXCEPT ![a] = "owned"]
          /\ UNCHANGED on
     ELSE Idle(a)

Bug_FinishLocked(a) ==
  /\ at[a] \in {"ok", "err"}
  /\ IF at[a] = "err" /\ kind[a] # "owned" /\ connected[on[a]]
     THEN Idle(a) /\ UNCHANGED <<retired, bearers, lock>>
     ELSE Retire(on[a]) /\ Return(a)
  /\ UNCHANGED <<closed, mgr, todo, backend, slotVars, device, callVars,
                 sessionVars, watch, troubled>>

(* After the session: Disconnect keeps a bearer whose session failed to    *)
(* disconnect and still says it is connected; everything else retires it.  *)
Finish(a) ==
  /\ at[a] \in {"ok", "err"}
  /\ IF at[a] = "err" /\ kind[a] # "owned" /\ connected[on[a]]
     THEN UNCHANGED <<retired, bearers>>
     ELSE Retire(on[a])
  /\ Return(a)
  /\ UNCHANGED <<closed, mgr, todo, backend, slotVars, device, callVars,
                 sessionVars, watch, troubled>>

-----------------------------------------------------------------------------
(* DisconnectAll and Close visit a copy of the table, one bearer after     *)
(* another.  Close empties the table first and closes the backend last.    *)
DisconnectAll ==
  /\ mgr = "open"
  /\ mgr' = "all" /\ todo' = bearers
  /\ UNCHANGED <<closed, bearers, backend, slotVars, device, callVars,
                 sessionVars, opVars, watch, troubled>>

Close ==
  /\ mgr = "open"
  /\ mgr' = "close" /\ closed' = TRUE
  /\ todo' = bearers /\ bearers' = {}
  /\ UNCHANGED <<backend, slotVars, device, callVars, sessionVars,
                 opVars, watch, troubled>>

Visit ==
  /\ mgr \in {"all", "close"} /\ at["mgr"] = "idle"
  /\ \E c \in todo :
       /\ Begin("mgr", c, IF mgr = "all" THEN "disconnect" ELSE "owned")
       /\ todo' = todo \ {c}
  /\ UNCHANGED <<closed, bearers, mgr, backend, slotVars, device,
                 callVars, sessionVars, retired, lock, watch, troubled>>

AllVisited ==
  /\ mgr \in {"all", "close"} /\ at["mgr"] = "idle" /\ todo = {}
  /\ mgr' = IF mgr = "all" THEN "open" ELSE "closed"
  /\ backend' = (mgr = "all")
  /\ UNCHANGED <<closed, bearers, todo, slotVars, device, callVars,
                 sessionVars, opVars, watch, troubled>>

-----------------------------------------------------------------------------
(* Bearer.Watch: a poll reads the device without a lock, and writes what   *)
(* it read under session.mu, in which no exchange of Disconnect is open.   *)
StartWatch(c) ==
  /\ c \in Watched /\ pc[c] = "open" /\ watch[c] = "off" /\ lock[c] = None /\ ~retired[c]
  /\ watch' = [watch EXCEPT ![c] = "poll"]
  /\ UNCHANGED <<modemVars, backend, slotVars, device, callVars, sessionVars, opVars,
                 troubled>>

QueryConnect(c) ==
  /\ watch[c] = "poll" /\ backend
  /\ watch' = [watch EXCEPT ![c] = IF sid[c] \in device THEN "up" ELSE "down"]
  /\ UNCHANGED <<modemVars, backend, slotVars, device, callVars, sessionVars, opVars,
                 troubled>>

WriteConnected(c) ==
  /\ watch[c] \in {"up", "down"}
  /\ connected' = [connected EXCEPT ![c] = (watch[c] = "up")]
  /\ watch' = [watch EXCEPT ![c] = "poll"]
  /\ UNCHANGED <<modemVars, backend, slotVars, device, callVars, ended, opVars,
                 troubled>>

(* The query failed, the context ended or the bearer is done.              *)
EndWatch(c) ==
  /\ watch[c] = "poll"
  /\ watch' = [watch EXCEPT ![c] = "off"]
  /\ UNCHANGED <<modemVars, backend, slotVars, device, callVars, sessionVars, opVars,
                 troubled>>

(* The network or the device ends a session.                               *)
Drop(i) ==
  /\ i \in device /\ prepared
  /\ device' = device \ {i}
  /\ troubled' = troubled \cup {i}
  /\ UNCHANGED <<modemVars, backend, slotVars, callVars, sessionVars, opVars, watch>>

ConnectStep(c) ==
  \/ Unready(c) \/ Prepare(c) \/ Clean(c) \/ CleanFailed(c) \/ Cleaned(c)
  \/ ReserveSessionID(c) \/ ReserveFailed(c) \/ Activate(c) \/ ActivateFailed(c)
  \/ ReadAddress(c) \/ Undo(c) \/ Store(c) \/ Abort(c)

OpStep(a) == LockBearer(a) \/ DisconnectSession(a) \/ Finish(a)

Next ==
  \/ \E c \in Call :
       \/ Connect(c) \/ ConnectStep(c) \/ OwnerCalls(c)
       \/ StartWatch(c) \/ QueryConnect(c) \/ WriteConnected(c) \/ EndWatch(c)
  \/ \E a \in Actor : OpStep(a)
  \/ DisconnectAll \/ Close \/ Visit \/ AllVisited
  \/ \E i \in Slot : Drop(i)

(* Every exchange ends, by its answer or its timeout, so a call that has   *)
(* begun goes on.  Close gets Bearer.mu even when the owner keeps taking   *)
(* it: a sync.Mutex hands over to a starving waiter.                       *)
Fairness ==
  /\ \A a \in Actor : WF_vars(DisconnectSession(a) \/ Finish(a))
  /\ SF_vars(LockBearer("mgr"))
  /\ WF_vars(Visit \/ AllVisited)

Spec == Init /\ [][Next]_vars /\ Fairness

-----------------------------------------------------------------------------
(* Every variable keeps its type, as the declarations of Modem, Bearer,    *)
(* Backend and session give it.                                            *)
TypeOK ==
  /\ closed \in BOOLEAN /\ backend \in BOOLEAN /\ prepared \in BOOLEAN
  /\ bearers \subseteq Call /\ todo \subseteq Call
  /\ slots \subseteq Slot /\ device \subseteq Slot /\ troubled \subseteq Slot
  /\ cleaner \in Call \cup {None}
  /\ pc \in [Call -> PC] /\ sid \in [Call -> 0 .. MaxSessions]
  /\ ended \in [Call -> BOOLEAN] /\ connected \in [Call -> BOOLEAN]
  /\ retired \in [Call -> BOOLEAN] /\ lock \in [Call -> Actor \cup {None}]
  /\ kind \in [Actor -> {"none", "disconnect", "close", "owned"}]
  /\ on \in [Actor -> Call \cup {None}]
  /\ at \in [Actor -> {"idle", "lock", "send", "ok", "err"}]
  /\ mgr \in {"open", "all", "close", "closed"}
  /\ watch \in [Call -> {"off", "poll", "up", "down"}]

(* A call of Connect between its reservation and its return, or the bearer *)
(* it returned until its session is disconnected, holds a session ID.      *)
Holds(c) ==
  \/ pc[c] \in {"activate", "address", "undo", "store", "abort"}
  \/ pc[c] = "open" /\ ~ended[c]

(* Session IDs are exclusive: two connects or live sessions never have the *)
(* same ID, and each ID they have is marked in Backend.slots, whatever     *)
(* failed before (reserveSessionID, releaseSession).  Nor does a cleanup   *)
(* run while somebody holds one, for it deactivates every ID it finds      *)
(* active: the first Connect keeps Backend.mu until the others may pass    *)
(* (prepareSessions).                                                      *)
SessionIDsExclusive ==
  \A c \in Call : Holds(c) =>
    /\ sid[c] \in slots
    /\ \A d \in Call \ {c} : Holds(d) => sid[d] # sid[c]
    /\ \A d \in Call : pc[d] # "clean"

(* A connect that holds an ID, or a bearer that is not retired: somebody   *)
(* who will still end the session, or can be asked to.                     *)
Owns(c) == Holds(c) /\ ~retired[c]

(* A session ID in use, and once stale sessions are gone a session active  *)
(* on the device, has an owner who can end it, unless an exchange about    *)
(* its ID failed or the network dropped it: the error paths of Connect, a  *)
(* Connect that loses the race with Close, and Disconnect leave no session *)
(* behind and lose no ID.                                                  *)
SessionsOwned ==
  \A i \in (slots \cup IF prepared THEN device ELSE {}) \ troubled :
    \E c \in Call : Owns(c) /\ sid[c] = i

(* Until the modem is closed, the table holds exactly the bearers that are *)
(* not retired: one whose Disconnect failed stays reachable for a retry    *)
(* and for DisconnectAll.  When Modem.Close has returned, every bearer     *)
(* that Connect returned is retired, also one whose Connect was running    *)
(* when Close began.                                                       *)
TableHoldsLiveBearers ==
  /\ ~closed => bearers = {c \in Call : pc[c] = "open" /\ ~retired[c]}
  /\ mgr = "closed" => \A c \in Call : pc[c] = "open" => retired[c]

(* Modem.Close returns, whatever the owners do with the bearers meanwhile. *)
CloseReturns == closed ~> mgr = "closed"
=============================================================================
