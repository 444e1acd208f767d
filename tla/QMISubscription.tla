--------------------------- MODULE QMISubscription ---------------------------
(***************************************************************************)
(* The indication side of qcom/qmi/transport.go: Indications registers a   *)
(* subscription and starts its run goroutine, the read loop fans every     *)
(* indication out to the matching subscriptions, run moves them from the   *)
(* unbounded queue to the bounded channel, and a subscription ends when    *)
(* its context does or when closeLease or fail stop it.                    *)
(*                                                                         *)
(* An action is one section under t.mu or sub.mu, or one channel operation.*)
(***************************************************************************)
EXTENDS Naturals, Sequences, FiniteSets, SequencesExt

CONSTANTS
  Sub,      \* calls of Indications
  Lease,    \* leases of the core
  OwnerOf,  \* the lease each call is made through
  Topic,    \* service, client and message triples
  TopicOf,  \* what each subscription asks for
  ChCap,    \* capacity of the channel handed to the caller (16 in the code)
  MaxInd    \* bound: indications read during a behaviour

ASSUME SubAssumption ==
  /\ OwnerOf \in [Sub -> Lease]
  /\ TopicOf \in [Sub -> Topic]
  /\ "fail" \notin Lease
  /\ ChCap \in Nat \ {0}
  /\ MaxInd \in Nat

(* The goroutines that end subscriptions: the closer of a lease, and the   *)
(* one that wins fail.                                                     *)
Stopper == Lease \cup {"fail"}

VARIABLES
  subs,     \* the subscriptions in t.subs
  closed,   \* fail has run
  marked,   \* leases whose closed flag is set
  count,    \* indications read so far; the n-th indication is the number n
  todo,     \* the subscriptions deliverIndication has still to enqueue to
  ringing,  \* the subscription it has appended to and not yet notified
  state,    \* Indications: "none", "new" (not registered), "open", or
            \* "refusing" (waiting for run in stop) and then "refused"
  queue,    \* sub.queue
  notify,   \* the token in sub.notify
  ch,       \* the channel's buffer
  hand,     \* the indication run holds between next and the send, if any
  run,      \* "none", "next", "push", "sleep", "flush" or "done"
  stopped,  \* sub.stopped
  ended,    \* what ended its context first: "no", "caller" or "stop"
  toStop,   \* what closeLease or fail has still to stop, per stopper
  sent,     \* history: what was appended to the queue
  got       \* history: what the caller received

vars == <<subs, closed, marked, count, todo, ringing, state, queue, notify, ch,
          hand, run, stopped, ended, toStop, sent, got>>

coreVars == <<subs, closed, marked, toStop>>
readVars == <<count, todo, ringing>>
subVars == <<queue, notify, ch, hand, run>>

Init ==
  /\ subs = {}
  /\ closed = FALSE
  /\ marked = {}
  /\ count = 0
  /\ todo = {}
  /\ ringing = {}
  /\ state = [s \in Sub |-> "none"]
  /\ queue = [s \in Sub |-> <<>>]
  /\ notify = [s \in Sub |-> FALSE]
  /\ ch = [s \in Sub |-> <<>>]
  /\ hand = [s \in Sub |-> <<>>]
  /\ run = [s \in Sub |-> "none"]
  /\ stopped = [s \in Sub |-> FALSE]
  /\ ended = [s \in Sub |-> "no"]
  /\ toStop = [k \in Stopper |-> {}]
  /\ sent = [s \in Sub |-> <<>>]
  /\ got = [s \in Sub |-> <<>>]

-----------------------------------------------------------------------------
(* newSubscription: the run goroutine starts before the registration.      *)
NewSubscription(s) ==
  /\ state[s] = "none"
  /\ state' = [state EXCEPT ![s] = "new"]
  /\ run' = [run EXCEPT ![s] = "next"]
  /\ UNCHANGED <<coreVars, readVars, queue, notify, ch, hand, stopped, ended,
                 sent, got>>

(* The body of stopOnce: the flag, then the cancel. Nothing that reads the *)
(* flag also waits for the context, so one step stands for both.           *)
Halt(s) ==
  /\ stopped' = [stopped EXCEPT ![s] = TRUE]
  /\ ended' = [ended EXCEPT ![s] = IF @ = "no" THEN "stop" ELSE @]

(* Mutant: Indications does not look at the closed flag.                   *)
Bug_RegisterUnchecked(s) ==
  /\ state[s] = "new"
  /\ state' = [state EXCEPT ![s] = "open"]
  /\ subs' = subs \cup {s}
  /\ UNCHANGED <<readVars, subVars, closed, marked, toStop, stopped, ended,
                 sent, got>>

(* Indications under t.mu: registration, or a refusal that stops the new   *)
(* subscription.                                                           *)
Register(s) ==
  /\ state[s] = "new"
  /\ IF closed \/ OwnerOf[s] \in marked
     THEN /\ state' = [state EXCEPT ![s] = "refusing"]
          /\ Halt(s)
          /\ subs' = subs
     ELSE /\ state' = [state EXCEPT ![s] = "open"]
          /\ subs' = subs \cup {s}
          /\ UNCHANGED <<stopped, ended>>
  /\ UNCHANGED <<readVars, subVars, closed, marked, toStop, sent, got>>

Refused(s) ==
  /\ state[s] = "refusing"
  /\ run[s] = "done"
  /\ state' = [state EXCEPT ![s] = "refused"]
  /\ UNCHANGED <<coreVars, readVars, subVars, stopped, ended, sent, got>>

(* removeFinishedSubscription, started by Indications.                     *)
RemoveFinished(s) ==
  /\ s \in subs
  /\ run[s] = "done"
  /\ subs' = subs \ {s}
  /\ UNCHANGED <<readVars, subVars, closed, marked, toStop, state, stopped,
                 ended, sent, got>>

(* The caller's context ends, or it receives.                              *)
CancelContext(s) ==
  /\ state[s] \in {"new", "open"}
  /\ ended[s] = "no"
  /\ ended' = [ended EXCEPT ![s] = "caller"]
  /\ UNCHANGED <<coreVars, readVars, subVars, state, stopped, sent, got>>

Consume(s) ==
  /\ state[s] = "open"
  /\ ch[s] # <<>>
  /\ got' = [got EXCEPT ![s] = Append(@, Head(ch[s]))]
  /\ ch' = [ch EXCEPT ![s] = Tail(@)]
  /\ UNCHANGED <<coreVars, readVars, queue, notify, hand, run, state, stopped,
                 ended, sent>>

-----------------------------------------------------------------------------
(* deliverIndication: the matching subscriptions are collected under t.mu, *)
ReadIndication(t) ==
  /\ todo = {} /\ ringing = {}
  /\ count < MaxInd
  /\ count' = count + 1
  /\ todo' = {s \in subs : TopicOf[s] = t}
  /\ UNCHANGED <<coreVars, subVars, ringing, state, stopped, ended, sent, got>>

(* Mutant: enqueue does not look at stopped.                               *)
Bug_EnqueueUnchecked(s) ==
  /\ s \in todo /\ ringing = {}
  /\ todo' = todo \ {s}
  /\ queue' = [queue EXCEPT ![s] = Append(@, count)]
  /\ sent' = [sent EXCEPT ![s] = Append(@, count)]
  /\ ringing' = {s}
  /\ UNCHANGED <<coreVars, count, notify, ch, hand, run, state, stopped, ended,
                 got>>

(* and enqueued to one by one: append under sub.mu, then notify.           *)
Enqueue(s) ==
  /\ s \in todo /\ ringing = {}
  /\ todo' = todo \ {s}
  /\ IF stopped[s]
     THEN UNCHANGED <<queue, sent, ringing>>
     ELSE /\ queue' = [queue EXCEPT ![s] = Append(@, count)]
          /\ sent' = [sent EXCEPT ![s] = Append(@, count)]
          /\ ringing' = {s}
  /\ UNCHANGED <<coreVars, count, notify, ch, hand, run, state, stopped, ended,
                 got>>

Notify(s) ==
  /\ s \in ringing
  /\ ringing' = {}
  /\ notify' = [notify EXCEPT ![s] = TRUE]
  /\ UNCHANGED <<coreVars, count, todo, queue, ch, hand, run, state, stopped,
                 ended, sent, got>>

-----------------------------------------------------------------------------
(* Mutant: one indication less.                                            *)
Bug_RoomForOneLess(s) == Len(ch[s]) + 1 < ChCap

Room(s) == Len(ch[s]) < ChCap

(* run and flushBuffered take the head of the queue with next, or find it  *)
(* empty: run then sleeps and flushBuffered returns, closing the channel.  *)
Take(s) ==
  /\ run[s] \in {"next", "flush"}
  /\ hand[s] = <<>>
  /\ IF queue[s] = <<>>
     THEN /\ run' = [run EXCEPT ![s] = IF @ = "next" THEN "sleep" ELSE "done"]
          /\ UNCHANGED <<queue, hand>>
     ELSE /\ hand' = [hand EXCEPT ![s] = <<Head(queue[s])>>]
          /\ queue' = [queue EXCEPT ![s] = Tail(@)]
          /\ run' = [run EXCEPT ![s] = IF @ = "next" THEN "push" ELSE @]
  /\ UNCHANGED <<coreVars, readVars, notify, ch, state, stopped, ended, sent,
                 got>>

Deliver(s) ==
  /\ ch' = [ch EXCEPT ![s] = @ \o hand[s]]
  /\ hand' = [hand EXCEPT ![s] = <<>>]

(* The select of run with an indication in hand.                           *)
Push(s) ==
  /\ run[s] = "push"
  /\ \/ Room(s) /\ Deliver(s) /\ run' = [run EXCEPT ![s] = "next"]
     \/ ended[s] # "no" /\ run' = [run EXCEPT ![s] = "flush"] /\ UNCHANGED <<ch, hand>>
  /\ UNCHANGED <<coreVars, readVars, queue, notify, state, stopped, ended, sent,
                 got>>

(* The select of run with an empty queue.                                  *)
Sleep(s) ==
  /\ run[s] = "sleep"
  /\ \/ notify[s] /\ notify' = [notify EXCEPT ![s] = FALSE]
        /\ run' = [run EXCEPT ![s] = "next"]
     \/ ended[s] # "no" /\ run' = [run EXCEPT ![s] = "flush"] /\ notify' = notify
  /\ UNCHANGED <<coreVars, readVars, queue, ch, hand, state, stopped, ended,
                 sent, got>>

(* Mutant: flushBuffered waits for room.                                   *)
Bug_FlushBlocks(s) ==
  /\ run[s] = "flush"
  /\ hand[s] # <<>>
  /\ Room(s) /\ Deliver(s) /\ run' = run
  /\ UNCHANGED <<coreVars, readVars, queue, notify, state, stopped, ended, sent,
                 got>>

(* flushBuffered sends what fits, and gives up when the channel is full.   *)
Flush(s) ==
  /\ run[s] = "flush"
  /\ hand[s] # <<>>
  /\ \/ Room(s) /\ Deliver(s) /\ run' = run
     \/ ~Room(s) /\ run' = [run EXCEPT ![s] = "done"] /\ UNCHANGED <<ch, hand>>
  /\ UNCHANGED <<coreVars, readVars, queue, notify, state, stopped, ended, sent,
                 got>>

-----------------------------------------------------------------------------
(* closeLease and fail take their subscriptions out of t.subs and then     *)
(* stop them one after the other.                                          *)
MarkLease(l) ==
  /\ l \notin marked
  /\ marked' = marked \cup {l}
  /\ UNCHANGED <<readVars, subVars, subs, closed, toStop, state, stopped, ended,
                 sent, got>>

SweepLease(l) ==
  /\ l \in marked
  /\ LET mine == {s \in subs : OwnerOf[s] = l} IN
       /\ mine # {}
       /\ subs' = subs \ mine
       /\ toStop' = [toStop EXCEPT ![l] = mine]
  /\ UNCHANGED <<readVars, subVars, closed, marked, state, stopped, ended, sent,
                 got>>

Fail ==
  /\ ~closed
  /\ closed' = TRUE
  /\ subs' = {}
  /\ toStop' = [toStop EXCEPT !["fail"] = subs]
  /\ UNCHANGED <<readVars, subVars, marked, state, stopped, ended, sent, got>>

(* stop: the flag and the cancel; then the wait for run to finish.         *)
Stop(k, s) ==
  /\ s \in toStop[k]
  /\ ~stopped[s]
  /\ \A x \in toStop[k] : ~stopped[x]
  /\ Halt(s)
  /\ UNCHANGED <<coreVars, readVars, subVars, state, sent, got>>

Stopped(k, s) ==
  /\ s \in toStop[k]
  /\ stopped[s]
  /\ run[s] = "done"
  /\ toStop' = [toStop EXCEPT ![k] = @ \ {s}]
  /\ UNCHANGED <<readVars, subVars, subs, closed, marked, state, stopped, ended,
                 sent, got>>

RunStep(s) == Take(s) \/ Push(s) \/ Sleep(s) \/ Flush(s)

StopperStep(k) == \E s \in Sub : Stop(k, s) \/ Stopped(k, s)

ReaderStep == \E s \in Sub : Enqueue(s) \/ Notify(s)

Next ==
  \/ \E s \in Sub : \/ NewSubscription(s) \/ Register(s) \/ Refused(s)
                    \/ RemoveFinished(s) \/ CancelContext(s)
                    \/ Consume(s) \/ RunStep(s)
  \/ ReaderStep
  \/ \E t \in Topic : ReadIndication(t)
  \/ \E l \in Lease : MarkLease(l) \/ SweepLease(l)
  \/ Fail
  \/ \E k \in Stopper : StopperStep(k)

Spec == Init /\ [][Next]_vars

(* Every goroutine of the transport that can move does. The caller's       *)
(* receives are fair only where a property assumes it.                     *)
Fairness ==
  /\ WF_vars(ReaderStep)
  /\ \A s \in Sub : /\ WF_vars(RunStep(s))
                    /\ WF_vars(Register(s) \/ Refused(s))
                    /\ WF_vars(RemoveFinished(s))
  /\ \A k \in Stopper : WF_vars(StopperStep(k))
  /\ \A l \in Lease : WF_vars(SweepLease(l))

FairSpec == Spec /\ Fairness

-----------------------------------------------------------------------------
(* Every variable keeps its type: queues hold indications in their bound,  *)
(* a subscription's channel at most ChCap, its goroutine's hand at most 1. *)
TypeOK ==
  /\ subs \subseteq Sub
  /\ closed \in BOOLEAN
  /\ marked \subseteq Lease
  /\ count \in 0 .. MaxInd
  /\ todo \subseteq Sub /\ ringing \subseteq Sub
  /\ state \in [Sub -> {"none", "new", "open", "refusing", "refused"}]
  /\ notify \in [Sub -> BOOLEAN]
  /\ run \in [Sub -> {"none", "next", "push", "sleep", "flush", "done"}]
  /\ stopped \in [Sub -> BOOLEAN]
  /\ ended \in [Sub -> {"no", "caller", "stop"}]
  /\ toStop \in [Stopper -> SUBSET Sub]
  /\ \A f \in {queue, ch, hand, sent, got} : f \in [Sub -> Seq(1 .. MaxInd)]
  /\ \A s \in Sub : Len(ch[s]) <= ChCap /\ Len(hand[s]) <= 1

(* What enqueue accepted is what the caller has received, followed by the  *)
(* channel's buffer, the indication run holds and the queue: run, next and *)
(* flushBuffered neither lose, duplicate nor reorder an indication, and    *)
(* what a full channel keeps from being flushed is the newest.  And a      *)
(* subscription ended by stop, from closeLease or fail, hands over all     *)
(* that was queued unless the channel was full: stopped is set before the  *)
(* context ends, so nothing can be queued behind flushBuffered's back.     *)
InOrder ==
  \A s \in Sub :
    /\ got[s] \o ch[s] \o hand[s] \o queue[s] = sent[s]
    /\ ended[s] = "stop" /\ run[s] = "done" /\ hand[s] = <<>> => queue[s] = <<>>

(* No subscription outlives the transport unnoticed: one that runs and has *)
(* not been stopped is in t.subs, where fail and closeLease will find it,  *)
(* or with a goroutine that is about to stop it; and a failed transport    *)
(* has none.  Nor is one stopped for another's sake: closing a lease of a  *)
(* shared core leaves the subscriptions of the others alone (sub.owner).   *)
AllAccountedFor ==
  /\ closed => subs = {}
  /\ \A s \in Sub : state[s] = "open" /\ run[s] # "done" /\ ~stopped[s] =>
                      s \in subs \/ \E k \in Stopper : s \in toStop[k]
  /\ \A s \in Sub : stopped[s] => \/ closed
                                  \/ OwnerOf[s] \in marked
                                  \/ state[s] \in {"refusing", "refused"}

(* closeLease, fail and a refused Indications return even if no caller     *)
(* ever receives: the wait in stop is for flushBuffered, which never       *)
(* blocks on a full channel.                                               *)
StopReturns ==
  /\ \A k \in Stopper : toStop[k] # {} ~> toStop[k] = {}
  /\ \A s \in Sub : state[s] = "refusing" ~> state[s] = "refused"

(* An accepted indication reaches a caller that keeps receiving, unless    *)
(* the subscription ends first.                                            *)
IndicationArrives ==
  \A s \in Sub : WF_vars(Consume(s)) =>
    \A i \in 1 .. MaxInd :
      Contains(sent[s], i) ~> Contains(got[s], i) \/ ended[s] # "no"
=============================================================================
