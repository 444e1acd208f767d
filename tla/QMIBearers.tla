----------------------------- MODULE QMIBearers -----------------------------
(***************************************************************************)
(* modem/qmi: a data session of the QMI backend is one packet-data session *)
(* for each IP family and, on an embedded (IPA) port, an rmnet link of the *)
(* host whose mux ID the packet-data sessions are bound to.  ConnectPort   *)
(* agrees on the data format of the port once, creates the link and opens  *)
(* the sessions; Close takes them down again.  Both ask the kernel and the *)
(* modem, any of whose answers may be an error or be lost; other programs  *)
(* add and remove links on the same port.                                  *)
(*                                                                         *)
(* The name of a link is its mux ID, since rmnetLinkName is one-to-one on  *)
(* a port; its index is never used again.  PDNSession models OpenPDN and   *)
(* PDNSession.Close, which are single steps here.                          *)
(***************************************************************************)
EXTENDS Naturals

CONSTANTS
  Call,      \* calls of ConnectPort for one port
  MaxMux,    \* rmnetMuxIDMax
  Protocols, \* how many of ipaAggregationProtocols; three in the code
  MaxIndex,  \* bound: links created in a behaviour
  None

VARIABLES
  ipaMu,     \* the holder of Backend.ipaMu
  ready,     \* the port is in Backend.ipaReady
  format,    \* the data format of the modem: a protocol, or 0
  links,     \* the rmnet links of the host: name, index and who created it
  lastIndex, \* the highest index given to a link
  baseUp,    \* the base interface is up
  pc,        \* where each call is
  goal,      \* what it ends in: "live", "failed" or "closed"
  proto,     \* the protocol it tries to set
  names,     \* usedNames
  mux,       \* its mux ID; 0 without a link
  index,     \* rmnetLink.Index; 0 before it is known
  pdns,      \* sessions: how many packet-data sessions it has open
  trouble,   \* history: calls that could not learn of, or not remove, their link
  robbed,    \* history: calls whose link another program has removed
  lost       \* history: a reset was carried out and its answer lost

portVars == <<ipaMu, ready, format, lost>>
linkVars == <<links, lastIndex, baseUp, robbed>>
callVars == <<goal, proto, names, mux, index>>
vars == <<portVars, linkVars, pc, callVars, pdns, trouble>>

(* ipaAggregationProtocols, in the order in which they are tried.          *)
Protocol == 1 .. Protocols

Init ==
  /\ ipaMu = None /\ ready = FALSE /\ format \in {0, 2}
  /\ links = {} /\ lastIndex = 0 /\ baseUp \in BOOLEAN
  /\ pc = [c \in Call |-> "idle"] /\ goal = [c \in Call |-> "live"]
  /\ proto = [c \in Call |-> 0]
  /\ names = [c \in Call |-> {}] /\ mux = [c \in Call |-> 0] /\ index = [c \in Call |-> 0]
  /\ pdns = [c \in Call |-> 0]
  /\ trouble = {} /\ robbed = {} /\ lost = FALSE

Goto(c, label) == pc' = [pc EXCEPT ![c] = label]
Unlock(c) == ipaMu' = IF ipaMu = c THEN None ELSE ipaMu
Troubled(c) == trouble' = trouble \cup {c}
LinkOf(c) == {l \in links : l.mux = mux[c]}

(* ConnectPort or Close returns; what it knew is of no use any more.       *)
End(c, label) ==
  /\ Goto(c, label) /\ Unlock(c) /\ goal' = [goal EXCEPT ![c] = "live"]
  /\ proto' = [proto EXCEPT ![c] = 0] /\ names' = [names EXCEPT ![c] = {}]
  /\ mux' = [mux EXCEPT ![c] = 0] /\ index' = [index EXCEPT ![c] = 0]

-----------------------------------------------------------------------------
(* ConnectPort: prepareIPALink locks ipaMu.                                *)
ConnectPort(c) ==
  /\ pc[c] = "idle" /\ ipaMu = None /\ ipaMu' = c
  /\ Goto(c, IF ready THEN "list" ELSE "format")
  /\ UNCHANGED <<ready, format, lost, linkVars, callVars, pdns, trouble>>

(* configureIPAWDA, about to try protocol k: the format it has read is the *)
(* one wanted, it asks for it, or there is none left to try.               *)
Negotiate(c, k) ==
  \/ /\ k \in Protocol /\ format = k /\ ready' = TRUE
     /\ Goto(c, "list") /\ proto' = [proto EXCEPT ![c] = 0]
     /\ UNCHANGED <<ipaMu, goal, names, mux, index>>
  \/ /\ k \in Protocol /\ format # k /\ UNCHANGED ready
     /\ Goto(c, "set") /\ proto' = [proto EXCEPT ![c] = k]
     /\ UNCHANGED <<ipaMu, goal, names, mux, index>>
  \/ k \notin Protocol /\ End(c, "failed") /\ UNCHANGED ready

(* openIPADPMPort and the first readIPAWDADataFormat.                      *)
ReadFormat(c) ==
  /\ pc[c] = "format"
  /\ Negotiate(c, 1) \/ (End(c, "failed") /\ UNCHANGED ready)
  /\ UNCHANGED <<format, lost, linkVars, pdns, trouble>>

(* SetWDADataFormat: the modem takes the format or not.  Unless its answer *)
(* says that it has, the format is read back.                              *)
SetFormat(c) ==
  /\ pc[c] = "set"
  /\ \/ /\ format' = proto[c] /\ ready' = TRUE
        /\ Goto(c, "list") /\ proto' = [proto EXCEPT ![c] = 0]
     \/ format' \in {format, proto[c]} /\ Goto(c, "check") /\ UNCHANGED <<ready, proto>>
  /\ UNCHANGED <<ipaMu, lost, linkVars, goal, names, mux, index, pdns, trouble>>

CheckFormat(c) ==
  /\ pc[c] = "check"
  /\ \/ Negotiate(c, IF format = proto[c] THEN proto[c] ELSE proto[c] + 1)
     \/ End(c, "failed") /\ UNCHANGED ready
  /\ UNCHANGED <<format, lost, linkVars, pdns, trouble>>

-----------------------------------------------------------------------------
(* createRMNetLink: the base interface and the names in use.               *)
ListInterfaces(c) ==
  /\ pc[c] = "list"
  /\ \/ /\ names' = [names EXCEPT ![c] = {l.mux : l \in links}]
        /\ mux' = [mux EXCEPT ![c] = 1] /\ Goto(c, "add")
        /\ UNCHANGED <<ipaMu, goal, proto, index>>
     \/ End(c, "failed")
  /\ UNCHANGED <<ready, format, lost, linkVars, pdns, trouble>>

(* The kernel adds a link, with an index of its own.                       *)
Create(m, who) ==
  /\ lastIndex < MaxIndex /\ lastIndex' = lastIndex + 1
  /\ links' = links \cup {[mux |-> m, index |-> lastIndex', by |-> who]}

(* One turn of the loop of createRMNetLink: a name in use is passed over,  *)
(* listed (continue) or not (EEXIST); the kernel creates the link and says *)
(* so, refuses, or creates it and its acknowledgment does not come; or the *)
(* names are used up.                                                      *)
AddLink(c) ==
  /\ pc[c] = "add"
  /\ LET m == mux[c]
         taken == m \in names[c] \/ LinkOf(c) # {} IN
     \/ /\ m <= MaxMux /\ taken /\ mux' = [mux EXCEPT ![c] = m + 1]
        /\ UNCHANGED <<ipaMu, pc, goal, proto, names, index, links, lastIndex, trouble>>
     \/ /\ m <= MaxMux /\ ~taken /\ Create(m, c)
        /\ \/ /\ Goto(c, "lookup") /\ names' = [names EXCEPT ![c] = {}]
              /\ UNCHANGED <<ipaMu, goal, proto, mux, index, trouble>>
           \/ End(c, "failed") /\ Troubled(c)
     \/ /\ m > MaxMux \/ m \notin names[c]
        /\ End(c, "failed") /\ UNCHANGED <<links, lastIndex, trouble>>
  /\ UNCHANGED <<ready, format, lost, baseUp, robbed, pdns>>

(* The index of the new link is looked up by name; when that fails, the    *)
(* link stays.                                                             *)
LookUp(c) ==
  /\ pc[c] = "lookup"
  /\ \/ /\ \E l \in LinkOf(c) : index' = [index EXCEPT ![c] = l.index]
        /\ Goto(c, "raise") /\ UNCHANGED <<ipaMu, goal, proto, names, mux, trouble>>
     \/ End(c, "failed") /\ Troubled(c)
  /\ UNCHANGED <<ready, format, lost, linkVars, pdns>>

(* The base interface is brought up if it was down; if it cannot be, the   *)
(* link is removed, still under ipaMu.                                     *)
RaiseBase(c) ==
  /\ pc[c] = "raise"
  /\ \/ baseUp' = TRUE /\ Goto(c, "open") /\ Unlock(c) /\ UNCHANGED goal
     \/ /\ ~baseUp /\ Goto(c, "unlink") /\ goal' = [goal EXCEPT ![c] = "failed"]
        /\ UNCHANGED <<ipaMu, baseUp>>
  /\ UNCHANGED <<ready, format, lost, links, lastIndex, robbed, proto, names, mux, index,
                 pdns, trouble>>

-----------------------------------------------------------------------------
(* Mutant: when a family cannot be opened, the link is forgotten.          *)
Bug_OpenPDNForgets(c) ==
  /\ pc[c] = "open"
  /\ \/ /\ pdns' = [pdns EXCEPT ![c] = @ + 1] /\ Goto(c, "live") /\ UNCHANGED goal
     \/ /\ Goto(c, "failed") /\ goal' = [goal EXCEPT ![c] = "failed"] /\ UNCHANGED pdns
  /\ UNCHANGED <<portVars, linkVars, proto, names, mux, index, trouble>>

(* OpenPDN for the next of ipPreferences, one or two, bound to the mux ID. *)
(* When it fails, the session opened before is closed and the link is      *)
(* removed.                                                                *)
OpenPDN(c) ==
  /\ pc[c] = "open"
  /\ \/ /\ pdns' = [pdns EXCEPT ![c] = @ + 1]
        /\ Goto(c, "live") \/ (pdns[c] = 0 /\ UNCHANGED pc)
        /\ UNCHANGED goal
     \/ /\ Goto(c, "close") /\ goal' = [goal EXCEPT ![c] = "failed"] /\ UNCHANGED pdns
  /\ UNCHANGED <<portVars, linkVars, proto, names, mux, index, trouble>>

(* session.Close, once: Disconnect is the same.                            *)
Close(c) ==
  /\ pc[c] = "live" /\ Goto(c, "close") /\ goal' = [goal EXCEPT ![c] = "closed"]
  /\ UNCHANGED <<portVars, linkVars, proto, names, mux, index, pdns, trouble>>

(* Mutant: the link is removed while packet-data sessions are bound to it. *)
Bug_CloseLinkFirst(c) ==
  /\ pc[c] = "close" /\ Goto(c, "unlink")
  /\ UNCHANGED <<portVars, linkVars, callVars, pdns, trouble>>

(* closeSessions: all of them, whatever becomes of one.                    *)
ClosePDN(c) ==
  /\ pc[c] = "close"
  /\ \/ pdns[c] = 0 /\ Goto(c, "unlink") /\ UNCHANGED pdns
     \/ pdns[c] > 0 /\ pdns' = [pdns EXCEPT ![c] = @ - 1] /\ UNCHANGED pc
  /\ UNCHANGED <<portVars, linkVars, callVars, trouble>>

(* deleteRMNetLink looks for the link by name: there is none, or it has    *)
(* another index (an error); it is its own; or the listing fails.          *)
FindLink(c) ==
  /\ pc[c] = "unlink"
  /\ \/ (\A l \in LinkOf(c) : l.index # index[c]) /\ End(c, goal[c]) /\ UNCHANGED trouble
     \/ /\ \E l \in LinkOf(c) : l.index = index[c]
        /\ Goto(c, "delete") /\ UNCHANGED <<ipaMu, callVars, trouble>>
     \/ End(c, goal[c]) /\ Troubled(c)
  /\ UNCHANGED <<ready, format, lost, linkVars, pdns>>

(* The kernel removes the link of that index, if it is still there; or the *)
(* request fails.                                                          *)
DeleteLink(c) ==
  /\ pc[c] = "delete" /\ End(c, goal[c])
  /\ \/ links' = {l \in links : l.index # index[c]} /\ UNCHANGED trouble
     \/ links' \in {links, {l \in links : l.index # index[c]}} /\ Troubled(c)
  /\ UNCHANGED <<ready, format, lost, lastIndex, baseUp, robbed, pdns>>

-----------------------------------------------------------------------------
(* Mutant: the port stays in ipaReady.                                     *)
Bug_ResetKeepsReady ==
  /\ ipaMu = None /\ format' = 0
  /\ UNCHANGED <<ipaMu, ready, lost, linkVars, pc, callVars, pdns, trouble>>

(* Reset holds ipaMu over DMSReset and forgets the port if it succeeds.    *)
(* When its answer is lost, ipaReady stays, as it does when the modem      *)
(* refuses.                                                                *)
Reset ==
  /\ ipaMu = None /\ format' = 0
  /\ \/ ready' = FALSE /\ lost' = FALSE
     \/ lost' = ready /\ UNCHANGED ready
  /\ UNCHANGED <<ipaMu, linkVars, pc, callVars, pdns, trouble>>

(* Another program adds a link to the port or removes one, anybody's.      *)
OtherAdds ==
  /\ \E m \in 1 .. MaxMux : (\A l \in links : l.mux # m) /\ Create(m, None)
  /\ UNCHANGED <<portVars, baseUp, robbed, pc, callVars, pdns, trouble>>

OtherRemoves ==
  /\ \E l \in links : links' = links \ {l} /\ robbed' = robbed \cup ({l.by} \cap Call)
  /\ UNCHANGED <<portVars, lastIndex, baseUp, pc, callVars, pdns, trouble>>

Next ==
  \/ \E c \in Call :
       \/ ConnectPort(c) \/ ReadFormat(c) \/ SetFormat(c) \/ CheckFormat(c)
       \/ ListInterfaces(c) \/ AddLink(c) \/ LookUp(c) \/ RaiseBase(c)
       \/ OpenPDN(c) \/ Close(c) \/ ClosePDN(c) \/ FindLink(c) \/ DeleteLink(c)
  \/ Reset \/ OtherAdds \/ OtherRemoves

Spec == Init /\ [][Next]_vars

-----------------------------------------------------------------------------
(* A session that was closed and a ConnectPort that failed, at any point,  *)
(* have left no link on the host, unless the kernel did not say what had   *)
(* become of it.                                                           *)
LinksReturned ==
  \A c \in Call \ trouble : pc[c] \in {"closed", "failed"} => \A l \in links : l.by # c

(* While packet-data sessions are bound to its mux ID, or are about to be, *)
(* a data session has the link that it created: no other one, connecting,  *)
(* failing or closing, takes it away or shares it, and it does not go      *)
(* before they do.  Only another program can remove it.  A port that is    *)
(* not negotiated any more is in a format of the list, unless the answer   *)
(* to a reset was lost.                                                    *)
SessionsBacked ==
  /\ \A c \in Call \ robbed : pc[c] \in {"raise", "open"} \/ pdns[c] > 0 =>
       [mux |-> mux[c], index |-> index[c], by |-> c] \in links
  /\ ready /\ ~lost => format \in Protocol
=============================================================================
