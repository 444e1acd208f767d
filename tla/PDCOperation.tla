---------------------------- MODULE PDCOperation ----------------------------
(***************************************************************************)
(* The operations of qcom/pdc.go, pdc_management.go and loc.go that the    *)
(* modem answers twice: with a response that it has begun and, later, with *)
(* one or more indications.  One operation of a service is in progress at  *)
(* a time (pdcMu, locMu); it subscribes before it asks.  Those of PDC      *)
(* carry a token, which a modem may leave out of its indications; those of *)
(* LOC have none.  What an operation that was given up has set in motion   *)
(* goes on, and its indications come while a later one waits.              *)
(***************************************************************************)
EXTENDS Naturals, Sequences, FiniteSets

CONSTANTS Operation,
  Kinds,  \* the operations of each kind, one per behaviour
  Parts,     \* bound: the indications of a list, and the chunks of a load
  TokenMax,  \* the largest token (2^32 - 1)
  NoOp

VARIABLES
  kindOf,    \* what each operation is
  echoes,    \* the modem puts the token into its indications
  pcOf,      \* "idle", "asking", "waiting", "done", "failed"
  holder,    \* pdcMu and locMu
  pdcToken,  \* the last token given out
  tokenOf,   \* the token of the request in progress
  chunk,     \* the chunks of a load that are through
  asked,     \* the requests before the modem
  air,       \* the indications on their way, in order
  inbox,     \* the subscription of the operation in progress
  got        \* the indications an operation has taken for its own

vars == <<kindOf, echoes, pcOf, holder, pdcToken, tokenOf, chunk, asked, air, inbox, got>>

ServiceOf(o) == IF kindOf[o] = "loc" THEN "loc" ELSE "pdc"

Init ==
  /\ kindOf \in Kinds /\ echoes \in BOOLEAN
  /\ pcOf = [o \in Operation |-> "idle"] /\ holder = [s \in {"pdc", "loc"} |-> NoOp]
  /\ pdcToken \in {0, TokenMax - 1} /\ tokenOf = [o \in Operation |-> 0]
  /\ chunk = [o \in Operation |-> 0] /\ asked = <<>> /\ air = <<>>
  /\ inbox = [o \in Operation |-> <<>>] /\ got = [o \in Operation |-> <<>>]

-----------------------------------------------------------------------------

(* nextPDCTokenLocked: zero is not a token.                                *)
NextPDCToken == IF pdcToken = TokenMax THEN 1 ELSE pdcToken + 1

Ask(o) ==
  /\ IF kindOf[o] = "loc" THEN UNCHANGED <<pdcToken, tokenOf>>
     ELSE pdcToken' = NextPDCToken /\ tokenOf' = [tokenOf EXCEPT ![o] = pdcToken']
  /\ asked' = Append(asked, [of |-> o, token |-> tokenOf'[o], part |-> chunk'[o] + 1])
  /\ pcOf' = [pcOf EXCEPT ![o] = "asking"]

(* pdcSingleIndication, PDCConfigurations, pdcLoadConfiguration and        *)
(* locSingleIndication: the mutex, the subscription and the request.       *)
Begin(o) ==
  /\ pcOf[o] = "idle" /\ holder[ServiceOf(o)] = NoOp
  /\ holder' = [holder EXCEPT ![ServiceOf(o)] = o]
  /\ UNCHANGED <<kindOf, echoes, chunk, air, inbox, got>> /\ Ask(o)

Finish(o, how) ==
  /\ pcOf' = [pcOf EXCEPT ![o] = how]
  /\ holder' = [holder EXCEPT ![ServiceOf(o)] = NoOp]
  /\ inbox' = [inbox EXCEPT ![o] = <<>>]

(* An error of any kind, or the end of the context.                        *)
GiveUp(o) ==
  /\ pcOf[o] \in {"asking", "waiting"} /\ Finish(o, "failed")
  /\ UNCHANGED <<kindOf, echoes, pdcToken, tokenOf, chunk, asked, air, got>>

(* The modem takes up a request, answers it if anybody still waits for the *)
(* answer, and later has indications for it; or it refuses.                *)
Modem ==
  /\ asked # <<>> /\ asked' = Tail(asked)
  /\ LET m == Head(asked)
         ind(part, more) == [of |-> m.of, kind |-> kindOf[m.of], part |-> part, more |-> more,
                             token |-> IF echoes THEN m.token ELSE 0]
     IN \/ /\ \E n \in IF kindOf[m.of] = "list" THEN 1 .. Parts ELSE {1} :
                air' = air \o [i \in 1 .. n |-> ind(m.part + i - 1, i < n)]
           /\ pcOf' = IF pcOf[m.of] = "asking" /\ tokenOf[m.of] = m.token
                      THEN [pcOf EXCEPT ![m.of] = "waiting"] ELSE pcOf
           /\ UNCHANGED <<holder, inbox>>
        \/ /\ UNCHANGED air
           /\ IF pcOf[m.of] = "asking" /\ tokenOf[m.of] = m.token THEN Finish(m.of, "failed")
              ELSE UNCHANGED <<pcOf, holder, inbox>>
  /\ UNCHANGED <<kindOf, echoes, pdcToken, tokenOf, chunk, got>>

(* An indication reaches the subscription for its message, if there is one.*)
Deliver ==
  /\ air # <<>> /\ air' = Tail(air)
  /\ LET i == Head(air)
         to == {o \in Operation : holder[ServiceOf(o)] = o /\ kindOf[o] = i.kind}
     IN inbox' = [o \in Operation |-> IF o \in to THEN Append(inbox[o], i) ELSE inbox[o]]
  /\ UNCHANGED <<kindOf, echoes, pcOf, holder, pdcToken, tokenOf, chunk, asked, got>>

(* Mutant: the token of an indication is not compared.                     *)
Bug_AcceptAny(o, i) == TRUE

(* waitPDCIndication: an indication with another token is passed over.     *)
Accepts(o, i) == kindOf[o] = "loc" \/ i.token = 0 \/ i.token = tokenOf[o]

Skip(o) ==
  /\ pcOf[o] = "waiting" /\ inbox[o] # <<>> /\ ~Accepts(o, Head(inbox[o]))
  /\ inbox' = [inbox EXCEPT ![o] = Tail(@)]
  /\ UNCHANGED <<kindOf, echoes, pcOf, holder, pdcToken, tokenOf, chunk, asked, air, got>>

(* The indication is taken: it ends the operation, or a list goes on, or   *)
(* a load whose remaining size is as expected sends the next chunk.        *)
Take(o) ==
  /\ pcOf[o] = "waiting" /\ inbox[o] # <<>> /\ Accepts(o, Head(inbox[o]))
  /\ LET i == Head(inbox[o]) IN
     /\ got' = [got EXCEPT ![o] = Append(@, i)]
     /\ \/ /\ kindOf[o] \in {"single", "loc"} \/ (kindOf[o] = "list" /\ ~i.more)
           /\ Finish(o, "done") /\ UNCHANGED <<pdcToken, tokenOf, chunk, asked>>
        \/ /\ kindOf[o] = "list" /\ i.more /\ inbox' = [inbox EXCEPT ![o] = Tail(@)]
           /\ UNCHANGED <<pcOf, holder, pdcToken, tokenOf, chunk, asked>>
        \/ /\ kindOf[o] = "load" /\ i.part # chunk[o] + 1
           /\ Finish(o, "failed") /\ UNCHANGED <<pdcToken, tokenOf, chunk, asked>>
        \/ /\ kindOf[o] = "load" /\ i.part = chunk[o] + 1 /\ i.part = Parts
           /\ chunk' = [chunk EXCEPT ![o] = i.part]
           /\ Finish(o, "done") /\ UNCHANGED <<pdcToken, tokenOf, asked>>
        \/ /\ kindOf[o] = "load" /\ i.part = chunk[o] + 1 /\ i.part < Parts
           /\ chunk' = [chunk EXCEPT ![o] = i.part]
           /\ inbox' = [inbox EXCEPT ![o] = Tail(@)] /\ UNCHANGED holder /\ Ask(o)
  /\ UNCHANGED <<kindOf, echoes, air>>

(* pdcListEmptyTimeout: no indication of the list has come in time.        *)
EmptyTimeout(o) ==
  /\ pcOf[o] = "waiting" /\ kindOf[o] = "list" /\ got[o] = <<>>
  /\ Finish(o, "done")
  /\ UNCHANGED <<kindOf, echoes, pdcToken, tokenOf, chunk, asked, air, got>>

Next ==
  \/ \E o \in Operation : Begin(o) \/ GiveUp(o) \/ Skip(o) \/ Take(o) \/ EmptyTimeout(o)
  \/ Modem \/ Deliver

Spec == Init /\ [][Next]_vars

-----------------------------------------------------------------------------
(* What an operation reports is about itself, and whole: every indication  *)
(* it took was sent for it, a list has all its parts or none, a load an    *)
(* acknowledgement of each chunk in turn.  Except that without a token, in *)
(* LOC and with a modem that leaves it out, what is left of an operation   *)
(* of the same kind that was given up is taken for the next one's.         *)
MayConfuse(o) ==
  /\ kindOf[o] = "loc" \/ ~echoes
  /\ \E p \in Operation \ {o} :
       /\ kindOf[p] = kindOf[o]
       /\ pcOf[p] = "failed" \/ (pcOf[p] = "done" /\ got[p] = <<>>)

OwnIndications ==
  \A o \in Operation : pcOf[o] = "done" /\ ~MayConfuse(o) =>
    /\ \A i \in 1 .. Len(got[o]) : got[o][i].of = o /\ got[o][i].part = i
    /\ got[o] # <<>> => ~got[o][Len(got[o])].more
    /\ kindOf[o] = "load" => Len(got[o]) = Parts
=============================================================================
