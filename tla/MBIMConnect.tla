---------------------------- MODULE MBIMConnect ----------------------------
(***************************************************************************)
(* connect of mbim/mbim.go: OPEN, the receiver, the queries of initialize, *)
(* and one resynchronisation when the device answers that it is not open.  *)
(* Every OPEN starts a session of the device; indications carry the number *)
(* of the session they belong to, which the host cannot see.               *)
(***************************************************************************)
EXTENDS Naturals, Sequences

CONSTANTS MaxInd,    \* bound: indications sent
          MaxReset,  \* bound: times the device loses its session
          MaxPoll    \* bound: queries of waitForSlotReady

VARIABLES
  phase,            \* the request that connect makes, or how it ended
  resynced,         \* resynchronize has been called
  txn,              \* the last transaction ID
  polls,            \* queries of waitForSlotReady
  toDevice,         \* the requests before the device, in order
  isOpen, session,  \* the device
  wire,             \* frames from the device, in order
  queued,           \* c.indications
  mine,             \* the session that the last OPEN answered
  lost,             \* the sessions of the indications that were cleared
  inds, resets

vars == <<phase, resynced, txn, polls, toDevice, isOpen, session, wire, queued, mine, lost,
          inds, resets>>

Init ==
  /\ phase = "proxy" /\ resynced = FALSE /\ txn = 0 /\ polls = 0 /\ toDevice = <<>>
  /\ isOpen \in BOOLEAN /\ session = 0 /\ wire = <<>> /\ queued = <<>>
  /\ mine = 0 /\ lost = {} /\ inds = 0 /\ resets = 0

Requests == {"configure", "open", "services", "version", "mappings", "activate", "ready", "reopen"}

-----------------------------------------------------------------------------
(* The next request of connect, and where a reply takes it.                *)
Ask(p) ==
  /\ phase' = p /\ txn' = txn + 1
  /\ toDevice' = Append(toDevice, [txn |-> txn', open |-> p \in {"open", "reopen"},
                                  always |-> p = "configure"])

Stop(p) == phase' = p /\ UNCHANGED <<txn, toDevice>>

Start ==
  /\ phase = "proxy" /\ (Ask("configure") \/ Ask("open"))
  /\ UNCHANGED <<resynced, polls, isOpen, session, wire, queued, mine, lost, inds, resets>>

(* negotiateVersion; a device of version 4 names the slot in its requests, *)
(* which validateUICCSlotID may refuse.                                    *)
VersionAnswered ==
  \/ phase = "services" /\ (Ask("version") \/ Ask("mappings"))
  \/ phase = "version"  /\ (Ask("mappings") \/ Stop("connected") \/ Stop("failed"))

(* ensureSlotActivated and waitForSlotReady.                               *)
SlotAnswered ==
  \/ phase = "mappings" /\ (Ask("activate") \/ Stop("connected") \/ Stop("failed"))
  \/ phase = "activate" /\ Ask("ready")
  \/ phase = "ready"    /\ (Stop("connected") \/ (polls < MaxPoll /\ Ask("ready")) \/ Stop("failed"))

Answered ==
  \/ phase = "configure" /\ Ask("open")
  \/ phase \in {"open", "reopen"} /\ Ask("services")
  \/ VersionAnswered \/ SlotAnswered

(* Mutant: the queue of the old session is kept.                           *)
Bug_KeepQueue ==
  /\ resynced' = TRUE /\ Ask("reopen") /\ UNCHANGED <<queued, lost>>

(* resynchronize: what is queued belongs to the session that is gone.      *)
Resynchronize ==
  /\ resynced' = TRUE /\ lost' = lost \cup {queued[i] : i \in 1 .. Len(queued)} /\ queued' = <<>>
  /\ Ask("reopen")

(* An error reply: NOT_OPENED of a query leads to resynchronize, once; the *)
(* slot that is being awaited is asked about again, until its deadline;    *)
(* a device without slot mappings has just one slot.                       *)
Refused(notOpened) ==
  \/ /\ phase = "mappings" /\ ~notOpened /\ Stop("connected")
     /\ UNCHANGED <<resynced, queued, lost>>
  \/ /\ phase = "ready" /\ polls < MaxPoll /\ Ask("ready") /\ UNCHANGED <<resynced, queued, lost>>
  \/ /\ ~notOpened \/ resynced \/ phase \in {"configure", "open", "reopen"}
     /\ Stop("failed") /\ UNCHANGED <<resynced, queued, lost>>
  \/ /\ notOpened /\ ~resynced /\ phase \notin {"configure", "open", "reopen"} /\ Resynchronize

(* The next frame.  Before the receiver runs readConn drops what is not    *)
(* the reply; afterwards indications are queued.                           *)
Receive ==
  /\ wire # <<>> /\ phase \in Requests /\ wire' = Tail(wire)
  /\ LET f == Head(wire) IN
     \/ /\ f.kind = "ind"
        /\ queued' = IF phase \in {"configure", "open"} THEN queued ELSE Append(queued, f.session)
        /\ UNCHANGED <<phase, resynced, txn, polls, toDevice, mine, lost>>
     \/ /\ f.kind # "ind" /\ f.txn # txn
        /\ UNCHANGED <<phase, resynced, txn, polls, toDevice, queued, mine, lost>>
     \/ /\ f.kind = "ok" /\ f.txn = txn /\ Answered
        /\ polls' = IF phase = "ready" THEN polls + 1 ELSE polls
        /\ mine' = IF phase \in {"open", "reopen"} THEN f.session ELSE mine
        /\ UNCHANGED <<resynced, queued, lost>>
     \/ /\ f.kind \in {"error", "notOpened"} /\ f.txn = txn /\ Refused(f.kind = "notOpened")
        /\ polls' = IF phase = "ready" THEN polls + 1 ELSE polls
        /\ UNCHANGED mine
  /\ UNCHANGED <<isOpen, session, inds, resets>>

(* No reply in time, the context ends, or the connection fails.            *)
TimeOut ==
  /\ phase \in Requests
  /\ \/ Stop("failed") /\ UNCHANGED polls
     \/ phase = "ready" /\ polls < MaxPoll /\ polls' = polls + 1 /\ Ask("ready")
  /\ UNCHANGED <<resynced, isOpen, session, wire, queued, mine, lost, inds, resets>>

-----------------------------------------------------------------------------
(* The device.                                                             *)
Frame(k, n) == [kind |-> k, txn |-> n, session |-> session']

Device ==
  /\ toDevice # <<>> /\ toDevice' = Tail(toDevice)
  /\ LET r == Head(toDevice) IN
     \/ r.open /\ session' = session + 1 /\ isOpen' = TRUE
        /\ wire' = Append(wire, Frame("ok", r.txn))
     \/ ~r.open /\ ~r.always /\ ~isOpen /\ UNCHANGED <<isOpen, session>>
        /\ wire' = Append(wire, Frame("notOpened", r.txn))
     \/ ~r.open /\ (isOpen \/ r.always) /\ UNCHANGED <<isOpen, session>>
        /\ wire' = Append(wire, Frame("ok", r.txn))
     \/ UNCHANGED <<isOpen, session>> /\ wire' = Append(wire, Frame("error", r.txn))
  /\ UNCHANGED <<phase, resynced, txn, polls, queued, mine, lost, inds, resets>>

Indicate ==
  /\ isOpen /\ inds < MaxInd /\ inds' = inds + 1
  /\ UNCHANGED session /\ wire' = Append(wire, Frame("ind", 0))
  /\ UNCHANGED <<phase, resynced, txn, polls, toDevice, isOpen, queued, mine, lost, resets>>

Reset ==
  /\ isOpen /\ resets < MaxReset /\ resets' = resets + 1 /\ isOpen' = FALSE
  /\ UNCHANGED <<phase, resynced, txn, polls, toDevice, session, wire, queued, mine, lost, inds>>

Next == Start \/ Receive \/ TimeOut \/ Device \/ Indicate \/ Reset

Spec == Init /\ [][Next]_vars

-----------------------------------------------------------------------------
(* Once connect has succeeded, what is queued belongs to the session it    *)
(* opened last, and nothing of that session was thrown away: resynchronize *)
(* clears the queue after the last frame of the rejected session and       *)
(* before the first of the new one.                                        *)
QueueIsOfThisSession ==
  phase = "connected" => (\A i \in 1 .. Len(queued) : queued[i] = mine) /\ mine \notin lost
=============================================================================
