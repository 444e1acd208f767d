---------------------------- MODULE Registrations ----------------------------
(***************************************************************************)
(* The watchers of one qcom.Client (monitor.go, loc.go, nas_watch.go): a   *)
(* watcher subscribes to an indication, makes sure that the modem sends    *)
(* it, forwards what arrives, and undoes both when it ends.  What the      *)
(* modem is asked for is shared, and kept in one of four styles:           *)
(*   "uim"      one mask for all events, counted per event (also PDC);     *)
(*   "loc"      the same, joined with a mask the caller owns;              *)
(*   "nas"      a switch per event, counted (also DMS, voice, WMS, IMS,    *)
(*              IMSA, DSD, PDS and OMA);                                   *)
(*   "refresh"  one watcher at a time.                                     *)
(* A request that is given up may still be carried out: the modem takes    *)
(* the requests of a client in the order in which they were written.       *)
(***************************************************************************)
EXTENDS Naturals, Sequences, FiniteSets

CONSTANTS Watcher, Event, EventOf, NoOne,
  Caller,    \* a caller of LOCRegisterEvents
  MaxQueue   \* bound: the requests the modem has not taken up yet

VARIABLES
  style,
  wpc,         \* where the watchers are
  watchMu,     \* who holds it over a request
  refs,        \* uimEventRefs, locEventRefs or nasIndicationRefs
  base,        \* locEventMask
  baseMask,    \* the mask a LOCRegisterEvents in progress was called with
  active,      \* uimRefreshWatcherActive
  regQueue,    \* the requests before the modem
  reply,       \* to the last of them: "none", "ok" or "refused"
  registered,  \* the events the modem sends
  maskUnsure   \* a LOCRegisterEvents was given up and none has succeeded since

vars == <<style, wpc, watchMu, refs, base, baseMask, active, regQueue, reply, registered,
          maskUnsure>>

Init ==
  /\ style \in {"uim", "loc", "nas", "refresh"}
  /\ wpc = [w \in Watcher |-> "idle"]
  /\ watchMu = NoOne /\ refs = [e \in Event |-> 0] /\ base = {} /\ baseMask = {} /\ active = FALSE
  /\ regQueue = <<>> /\ reply = "none" /\ registered = {} /\ maskUnsure = FALSE

Goto(w, label) == wpc' = [wpc EXCEPT ![w] = label]

-----------------------------------------------------------------------------
(* combinedUIMEventMask and combinedLOCEventMask.                          *)
CombinedMask(r) == {e \in Event : r[e] > 0}
Wanted(r) == base \cup CombinedMask(r)

(* A request names the events it turns on and off: a mask all of them, the *)
(* others the one of the watcher.                                          *)
MaskRequest(mask) == [on |-> mask, off |-> Event \ mask]
SwitchRequest(e, on) == IF on THEN [on |-> {e}, off |-> {}] ELSE [on |-> {}, off |-> {e}]
Request(r, e, on) == IF style = "nas" THEN SwitchRequest(e, on) ELSE MaskRequest(Wanted(r))

Ask(message) ==
  /\ Len(regQueue) < MaxQueue
  /\ regQueue' = Append(regQueue, message) /\ reply' = "none"

(* Mutant: nothing is asked for when any event at all is on.               *)
Bug_AcquireCounts(w) ==
  /\ style # "refresh" /\ wpc[w] = "acquire" /\ watchMu = NoOne
  /\ LET e == EventOf[w]  more == [refs EXCEPT ![e] = @ + 1] IN
     \/ /\ Cardinality(CombinedMask(refs)) > 0 /\ refs' = more
        /\ Goto(w, "live") /\ UNCHANGED <<watchMu, regQueue, reply>>
     \/ /\ CombinedMask(refs) = {} /\ refs' = more
        /\ Ask(Request(more, e, TRUE)) /\ watchMu' = w /\ Goto(w, "asking")
  /\ UNCHANGED <<style, base, baseMask, active, registered, maskUnsure>>

(* The watcher has subscribed.  acquireUIMEvents, acquireLOCEvents and     *)
(* acquireNASIndication ask for nothing when the event is on already.      *)
Acquire(w) ==
  /\ style # "refresh" /\ wpc[w] = "acquire" /\ watchMu = NoOne
  /\ LET e == EventOf[w]  more == [refs EXCEPT ![e] = @ + 1] IN
     \/ /\ Wanted(refs) = Wanted(more) /\ refs' = more
        /\ Goto(w, "live") /\ UNCHANGED <<watchMu, regQueue, reply>>
     \/ /\ Wanted(refs) # Wanted(more) /\ refs' = more
        /\ Ask(Request(more, e, TRUE)) /\ watchMu' = w /\ Goto(w, "asking")
     \/ /\ Wanted(refs) # Wanted(more)  \* the request could not be written
        /\ Goto(w, "idle") /\ UNCHANGED <<refs, watchMu, regQueue, reply>>
  /\ UNCHANGED <<style, base, baseMask, active, registered, maskUnsure>>

(* The answer, or the end of the context: a failure takes the count back.  *)
Acquired(w) ==
  /\ style # "refresh" /\ wpc[w] = "asking" /\ watchMu = w /\ watchMu' = NoOne
  /\ \/ reply = "ok" /\ Goto(w, "live") /\ maskUnsure' = FALSE /\ UNCHANGED refs
     \/ /\ reply # "ok" /\ Goto(w, "idle")
        /\ refs' = [refs EXCEPT ![EventOf[w]] = @ - 1] /\ UNCHANGED maskUnsure
  /\ reply' = "none"
  /\ UNCHANGED <<style, base, baseMask, active, regQueue, registered>>

(* releaseUIMEvents, releaseLOCEvents, releaseNASIndication.  The time for *)
(* the request starts before the mutex is awaited, and may be over.        *)
Release(w) ==
  /\ style # "refresh" /\ wpc[w] = "release" /\ watchMu = NoOne
  /\ LET e == EventOf[w]  fewer == [refs EXCEPT ![e] = @ - 1] IN
     /\ refs' = fewer
     /\ \/ /\ Wanted(refs) # Wanted(fewer)
           /\ Ask(Request(fewer, e, FALSE)) /\ watchMu' = w /\ Goto(w, "dropping")
        \/ Goto(w, "close") /\ UNCHANGED <<watchMu, regQueue, reply>>
  /\ UNCHANGED <<style, base, baseMask, active, registered, maskUnsure>>

(* Best effort: the outcome is not looked at.                              *)
Released(w) ==
  /\ style # "refresh" /\ wpc[w] = "dropping" /\ watchMu = w /\ watchMu' = NoOne
  /\ Goto(w, "close")
  /\ maskUnsure' = (maskUnsure /\ reply # "ok") /\ reply' = "none"
  /\ UNCHANGED <<style, refs, base, baseMask, active, regQueue, registered>>

(* LOCRegisterEvents.                                                      *)
LOCRegisterEvents(mask) ==
  /\ style = "loc" /\ watchMu = NoOne
  /\ Ask(MaskRequest(mask \cup CombinedMask(refs)))
  /\ watchMu' = Caller /\ baseMask' = mask
  /\ UNCHANGED <<style, wpc, refs, base, active, registered, maskUnsure>>

LOCEventsRegistered ==
  /\ watchMu = Caller /\ watchMu' = NoOne /\ baseMask' = {} /\ reply' = "none"
  /\ base' = IF reply = "ok" THEN baseMask ELSE base
  /\ maskUnsure' = CASE reply = "ok" -> FALSE [] reply = "refused" -> maskUnsure [] OTHER -> TRUE
  /\ UNCHANGED <<style, wpc, refs, active, regQueue, registered>>

-----------------------------------------------------------------------------
(* WatchRefreshFiles and WatchRefreshAll: acquireRefreshWatcher, then the  *)
(* subscription and the registration, without a lock; another watcher is   *)
(* active, or nothing could be asked for.                                  *)
WatchRefresh(w) ==
  /\ style = "refresh" /\ wpc[w] = "acquire"
  /\ \/ Goto(w, "idle") /\ UNCHANGED <<active, regQueue, reply>>
     \/ /\ ~active /\ active' = TRUE
        /\ Ask(SwitchRequest(EventOf[w], TRUE)) /\ Goto(w, "asking")
  /\ UNCHANGED <<style, watchMu, refs, base, baseMask, registered, maskUnsure>>

RefreshRegistered(w) ==
  /\ style = "refresh" /\ wpc[w] = "asking"
  /\ \/ reply = "ok" /\ Goto(w, "live") /\ UNCHANGED active
     \/ reply # "ok" /\ active' = FALSE /\ Goto(w, "idle")
  /\ reply' = "none"
  /\ UNCHANGED <<style, watchMu, refs, base, baseMask, regQueue, registered, maskUnsure>>

(* The cleanup of forwardRefreshEvents.                                    *)
UnregisterRefresh(w) ==
  /\ style = "refresh" /\ wpc[w] = "release"
  /\ Ask(SwitchRequest(EventOf[w], FALSE)) \/ UNCHANGED <<regQueue, reply>>
  /\ Goto(w, "dropping")
  /\ UNCHANGED <<style, watchMu, refs, base, baseMask, active, registered, maskUnsure>>

ReleaseRefreshWatcher(w) ==
  /\ style = "refresh" /\ wpc[w] = "dropping"
  /\ active' = FALSE /\ Goto(w, "close") /\ reply' = "none"
  /\ UNCHANGED <<style, watchMu, refs, base, baseMask, regQueue, registered, maskUnsure>>

-----------------------------------------------------------------------------
(* A Watch call: the transport, the client ID and the subscription.        *)
Watch(w) ==
  /\ wpc[w] = "idle" /\ Goto(w, "acquire")
  /\ UNCHANGED <<style, watchMu, refs, base, baseMask, active, regQueue, reply, registered,
                 maskUnsure>>

(* The goroutine of the watcher leaves its loop: the context has ended, the*)
(* stream is closed, an indication does not decode or the answer a refresh *)
(* needs could not be given.                                               *)
End(w) ==
  /\ wpc[w] = "live" /\ Goto(w, "release")
  /\ UNCHANGED <<style, watchMu, refs, base, baseMask, active, regQueue, reply, registered,
                 maskUnsure>>

(* The subscription is cancelled and the channel closed.                   *)
CloseOut(w) ==
  /\ wpc[w] = "close" /\ Goto(w, "idle")
  /\ UNCHANGED <<style, watchMu, refs, base, baseMask, active, regQueue, reply, registered,
                 maskUnsure>>

Awaited == watchMu = Caller \/ \E w \in Watcher : wpc[w] \in {"asking", "dropping"}

(* The modem carries out, or refuses, the oldest request.                  *)
Modem ==
  /\ regQueue # <<>>
  /\ LET m == Head(regQueue) IN
     \E ok \in BOOLEAN :
       /\ registered' = IF ok THEN (registered \ m.off) \cup m.on ELSE registered
       /\ reply' = IF Len(regQueue) > 1 \/ ~Awaited THEN reply ELSE IF ok THEN "ok" ELSE "refused"
  /\ regQueue' = Tail(regQueue)
  /\ UNCHANGED <<style, wpc, watchMu, refs, base, baseMask, active, maskUnsure>>

Next ==
  \/ \E w \in Watcher :
       \/ Watch(w) \/ Acquire(w) \/ Acquired(w) \/ End(w) \/ Release(w) \/ Released(w)
       \/ CloseOut(w) \/ WatchRefresh(w) \/ RefreshRegistered(w) \/ UnregisterRefresh(w)
       \/ ReleaseRefreshWatcher(w)
  \/ \E mask \in SUBSET Event : LOCRegisterEvents(mask)
  \/ LOCEventsRegistered \/ Modem

Spec == Init /\ [][Next]_vars

-----------------------------------------------------------------------------
(* While a watcher runs the modem sends its event, and no request that was *)
(* given up earlier and is still before the modem will turn it off; except *)
(* for a mask of the caller whose registration was given up: the client    *)
(* then believes in the mask before it, and a watcher of an event of that  *)
(* mask asks for nothing (acquireLOCEvents).                               *)
LiveIsRegistered ==
  \A w \in Watcher : LET e == EventOf[w] IN
    wpc[w] = "live" /\ ~maskUnsure =>
      e \in registered /\ \A i \in 1 .. Len(regQueue) : e \notin regQueue[i].off

(* A watcher that has seen its channel closed is not what stands in the    *)
(* way of the next: the flag of the refresh watcher, or the count of the   *)
(* event, is held by one that runs.                                        *)
Holding == {w \in Watcher : wpc[w] \in {"asking", "live", "release"}}
ClosedIsReleased ==
  /\ active <=> style = "refresh" /\ \E w \in Watcher : w \in Holding \/ wpc[w] = "dropping"
  /\ style # "refresh" =>
       \A e \in Event : refs[e] = Cardinality({w \in Holding : EventOf[w] = e})
=============================================================================
