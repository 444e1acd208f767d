---------------------------- MODULE MCExchanges ----------------------------
(***************************************************************************)
(* The parts that meet nothing but their own modem, card or line, checked  *)
(* side by side: a behaviour is one of one part, and the variables of the  *)
(* others stay at an initial state of theirs.                              *)
(***************************************************************************)
EXTENDS QMIExchange, QMINAS, QMIWDS, QMIDMS, QMIVoice, QMILOC, QMIWMS, QMIIMS, QMIDataPath,
        QMIServices, QMIUIM

(* Every client method of qcom.                                            *)
MCCalls ==
  NASCalls @@ WDSCalls @@ DMSCalls @@ VoiceServiceCalls @@ LOCCalls @@ WMSCalls @@ IMSCalls
    @@ PDCCalls @@ DataPathCalls @@ ServicesCalls @@ UIMCalls @@ CATCalls

VARIABLES
  part,
  serviceOf, mu, tclosed, todo, conn, failed, pc, ctx, res, pending, chan, gate, interrupt,
  written, werr, deadline,
  style, wpc, watchMu, refs, base, baseMask, active, regQueue, reply, registered, maskUnsure,
  kindOf, echoes, pcOf, holder, pdcToken, tokenOf, chunk, asked, air, inbox, got,
  atMu, atClosed, cpc, response, torn, toModem, port, stray, returned, abandoned,
  user, step, watching, current, selected, op, apdus, held, more, data, disturbed,
  loose,
  ipaMu, ipaReady, format, links, lastIndex, baseUp, bearerPC, goal, proto, names, mux, index,
  pdns, trouble, robbed, resetLost,
  phase, resynced, txn, polls, toDevice, isOpen, session, wire, queued, mine, lost, inds, resets

qrtrVars == <<serviceOf, mu, tclosed, todo, conn, failed, pc, ctx, res, pending, chan, gate,
              interrupt, written, werr, deadline>>
watchVars == <<style, wpc, watchMu, refs, base, baseMask, active, regQueue, reply, registered,
               maskUnsure>>
pdcVars == <<kindOf, echoes, pcOf, holder, pdcToken, tokenOf, chunk, asked, air, inbox, got>>
atVars == <<atMu, atClosed, cpc, response, torn, toModem, port, stray, returned, abandoned>>
simVars == <<user, step, watching, current, selected, op, apdus, held, more, data, disturbed>>
bearerVars == <<ipaMu, ipaReady, format, links, lastIndex, baseUp, bearerPC, goal, proto,
                names, mux, index, pdns, trouble, robbed, resetLost>>
mbimVars == <<phase, resynced, txn, polls, toDevice, isOpen, session, wire, queued, mine, lost,
              inds, resets>>

(* Two services, one of them dialed with the transport; two requests, the  *)
(* first for the service that is dialed later.                             *)
QRTR == INSTANCE QRTRTransport WITH
  Req <- {"r1", "r2"}, Service <- {"s1", "s2"}, NoReq <- "none", Opened <- "s1", Watched <- "s2",
  Assignments <- {[r \in {"r1", "r2"} |-> IF r = "r1" THEN "s2" ELSE s] : s \in {"s1", "s2"}}

(* Two watchers of one event and one of another.                           *)
Reg == INSTANCE Registrations WITH
  Watcher <- {"w1", "w2", "w3"}, Event <- {"e1", "e2"}, NoOne <- "none", Caller <- "caller",
  EventOf <- [w \in {"w1", "w2", "w3"} |-> IF w = "w3" THEN "e2" ELSE "e1"], MaxQueue <- 2

(* Three operations of one kind, or a list, a load and one of LOC; tokens  *)
(* that wrap within a behaviour.                                           *)
PDC == INSTANCE PDCOperation WITH
  Operation <- {"o1", "o2", "o3"}, NoOp <- "none", Parts <- 2, TokenMax <- 9,
  Kinds <- {[o \in {"o1", "o2", "o3"} |-> k] : k \in {"single", "list", "load", "loc"}}
             \cup {[o1 |-> "list", o2 |-> "load", o3 |-> "loc"]}

AT == INSTANCE ATReader WITH Cmd <- {"c1", "c2", "c3"}, NoCmd <- "none", MaxStray <- 1

SIM == INSTANCE SIMReader WITH Watches <- TRUE, MaxReads <- 2

MBIM == INSTANCE MBIMConnect WITH MaxInd <- 2, MaxReset <- 2, MaxPoll <- 2

(* The client methods of mbim; they share the variables of QMIExchange.    *)
MBIMMessages == INSTANCE MBIMServices
Codec == INSTANCE MBIMExchange WITH Calls <- MBIMMessages!MBIMCalls

(* Two calls of ConnectPort for one port with two mux IDs, on which three  *)
(* links are created, by them or by others; two protocols, the modem at    *)
(* first in another format or in the second one.                           *)
Bearers == INSTANCE QMIBearers WITH
  Call <- {"d1", "d2"}, MaxMux <- 2, Protocols <- 2, MaxIndex <- 3, None <- "none",
  ready <- ipaReady, pc <- bearerPC, lost <- resetLost

Part == {"messages", "codec", "qrtr", "watch", "pdc", "at", "sim", "mbim", "bearers"}

(* The state in which a part that is not looked at stays.                  *)
Pinned ==
  /\ IF part \in {"messages", "codec"} THEN TRUE ELSE call = "WDSStopNetworkInterface"
  /\ IF part = "qrtr" THEN TRUE ELSE serviceOf = [r \in {"r1", "r2"} |-> "s2"]
  /\ IF part = "watch" THEN TRUE ELSE style = "uim"
  /\ IF part = "pdc" THEN TRUE ELSE /\ kindOf = [o \in {"o1", "o2", "o3"} |-> "loc"]
                                    /\ echoes = TRUE
                                    /\ pdcToken = 0
  /\ IF part = "sim" THEN TRUE ELSE user = "card"
  /\ IF part = "mbim" THEN TRUE ELSE isOpen = TRUE
  /\ IF part = "bearers" THEN TRUE ELSE format = 0 /\ baseUp = TRUE

MCInit ==
  /\ part \in Part /\ Pinned
  /\ IF part = "codec" THEN Codec!MBIMInit ELSE Init /\ loose = FALSE
  /\ QRTR!Init /\ Reg!Init /\ PDC!Init /\ AT!Init /\ SIM!Init /\ MBIM!Init
  /\ Bearers!Init

Messages == part = "messages" /\ Next
  /\ UNCHANGED <<part, loose, qrtrVars, watchVars, pdcVars, atVars, simVars, mbimVars, bearerVars>>
CodecNext == part = "codec" /\ Codec!MBIMNext
  /\ UNCHANGED <<part, qrtrVars, watchVars, pdcVars, atVars, simVars, mbimVars, bearerVars>>
QRTRNext == part = "qrtr" /\ QRTR!Next
  /\ UNCHANGED <<part, vars, loose, watchVars, pdcVars, atVars, simVars, mbimVars, bearerVars>>
WatchNext == part = "watch" /\ Reg!Next
  /\ UNCHANGED <<part, vars, loose, qrtrVars, pdcVars, atVars, simVars, mbimVars, bearerVars>>
PDCNext == part = "pdc" /\ PDC!Next
  /\ UNCHANGED <<part, vars, loose, qrtrVars, watchVars, atVars, simVars, mbimVars, bearerVars>>
ATNext == part = "at" /\ AT!Next
  /\ UNCHANGED <<part, vars, loose, qrtrVars, watchVars, pdcVars, simVars, mbimVars, bearerVars>>
SIMNext == part = "sim" /\ SIM!Next
  /\ UNCHANGED <<part, vars, loose, qrtrVars, watchVars, pdcVars, atVars, mbimVars, bearerVars>>
MBIMNext == part = "mbim" /\ MBIM!Next
  /\ UNCHANGED <<part, vars, loose, qrtrVars, watchVars, pdcVars, atVars, simVars, bearerVars>>

BearersNext == part = "bearers" /\ Bearers!Next
  /\ UNCHANGED <<part, vars, loose, qrtrVars, watchVars, pdcVars, atVars, simVars, mbimVars>>

MCVars ==
  <<part, vars, loose, qrtrVars, watchVars, pdcVars, atVars, simVars, mbimVars, bearerVars>>

(* Only a client method always has a next step; whoever uses the other     *)
(* parts may stop.                                                         *)
Rest == part \notin {"messages", "codec"} /\ UNCHANGED MCVars

MCNext ==
  Messages \/ CodecNext \/ QRTRNext \/ WatchNext \/ PDCNext \/ ATNext \/ SIMNext \/ MBIMNext
    \/ BearersNext \/ Rest

MCSpec == MCInit /\ [][MCNext]_MCVars

-----------------------------------------------------------------------------
(* QMI and MBIM messages: no decoder reads beyond the end of its buffer or *)
(* slices the value of a reference that it has not validated.              *)
ReadsInside == Codec!SlicesChecked

(* After Close every QRTR socket that was opened is closed; a data session *)
(* that was closed, or could not be opened, has left no rmnet link.        *)
ClosedIsClosed == QRTR!ClosedIsClosed /\ Bearers!LinksReturned

(* A data session has its own rmnet link for as long as its packet-data    *)
(* sessions use it, on a port whose data format was agreed on.             *)
SessionsBacked == Bearers!SessionsBacked

(* QRTR: each service implements RequestService by itself.  This is        *)
(* QRTR!EachServiceImplements with the stuttering looked for first, which  *)
(* spares TLC most of the work.                                            *)
EachServiceImplements ==
  /\ QRTR!Core!Init
  /\ [][part = "qrtr" => UNCHANGED QRTR!Core!vars \/ QRTR!Core!Next]_qrtrVars

(* Watchers: what a running watcher waits for is registered at the modem,  *)
(* and one that has closed its channel holds no registration.              *)
WatchersRegistered == Reg!LiveIsRegistered /\ Reg!ClosedIsReleased

(* A PDC or LOC operation reports its own indications, and all of them;    *)
(* Transmit of an AT reader returns the response to its own APDU.          *)
OwnAnswers == PDC!OwnIndications /\ AT!OwnAnswer

(* SIM: a read is sent with the file selected that it names.               *)
CacheIsTrue == SIM!CacheIsTrue

(* MBIM: the indications queued after connect are of the session it opened.*)
QueueIsOfThisSession == MBIM!QueueIsOfThisSession
=============================================================================
