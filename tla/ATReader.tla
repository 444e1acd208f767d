------------------------------ MODULE ATReader ------------------------------
(***************************************************************************)
(* at/at.go: APDUs as AT+CSIM commands over a serial line.  One command is *)
(* in progress at a time (mu); the lines that come back say nothing of the *)
(* command they answer, and what is not read stays in the line for the     *)
(* next command.                                                           *)
(***************************************************************************)
EXTENDS Naturals, Sequences, FiniteSets

CONSTANTS Cmd, NoCmd,
  MaxStray  \* bound: lines the modem sends on its own account

VARIABLES
  atMu,      \* the command that holds mu
  atClosed,  \* closed
  cpc,       \* "idle", "reading", "done", "failed"
  response,  \* the command whose +CSIM line readResponse holds
  torn,      \* part of a command line has been written
  toModem,   \* command lines on their way
  port,      \* lines on their way back: [kind, of]
  stray,     \* lines sent on the modem's own account
  returned,  \* the command whose response was returned
  abandoned  \* commands that returned before their final result was read

vars == <<atMu, atClosed, cpc, response, torn, toModem, port, stray, returned, abandoned>>

Line(k, c) == [kind |-> k, of |-> c]

Init ==
  /\ atMu = NoCmd /\ atClosed = FALSE /\ cpc = [c \in Cmd |-> "idle"] /\ response = NoCmd
  /\ torn = FALSE /\ toModem = <<>> /\ port = <<>> /\ stray = 0
  /\ returned = [c \in Cmd |-> NoCmd] /\ abandoned = {}

-----------------------------------------------------------------------------
Return(c, how, r) ==
  /\ cpc' = [cpc EXCEPT ![c] = how] /\ returned' = [returned EXCEPT ![c] = r]
  /\ atMu' = NoCmd /\ response' = NoCmd

(* Mutant: commands run without the mutex.                                 *)
Bug_RunUnlocked(c) ==
  /\ cpc[c] = "idle" /\ ~atClosed
  /\ cpc' = [cpc EXCEPT ![c] = "reading"] /\ atMu' = c /\ UNCHANGED <<returned, response>>
  /\ toModem' = Append(toModem, IF torn THEN NoCmd ELSE c) /\ torn' = FALSE
  /\ UNCHANGED <<atClosed, port, stray, abandoned>>

(* run, to the end of writeFull.  A write that fails half-way leaves a     *)
(* piece in front of the next command, which the modem cannot then read.   *)
Run(c) ==
  /\ cpc[c] = "idle" /\ atMu = NoCmd
  /\ \/ ~atClosed /\ cpc' = [cpc EXCEPT ![c] = "reading"] /\ atMu' = c
        /\ toModem' = Append(toModem, IF torn THEN NoCmd ELSE c) /\ torn' = FALSE
        /\ UNCHANGED <<returned, response>>
     \/ Return(c, "failed", NoCmd) /\ UNCHANGED toModem
        /\ torn' \in IF atClosed THEN {torn} ELSE {torn, TRUE}
  /\ UNCHANGED <<atClosed, port, stray, abandoned>>

(* readResponse: OK ends the command only after a +CSIM line.              *)
Ends(line) == line.kind = "ok" /\ response # NoCmd

ReadLine(c) ==
  /\ cpc[c] = "reading" /\ atMu = c /\ port # <<>> /\ port' = Tail(port)
  /\ LET line == Head(port) IN
     \/ Ends(line) /\ Return(c, "done", response)
     \/ line.kind = "error" /\ Return(c, "failed", NoCmd)
     \/ line.kind = "csim" /\ response' = line.of /\ UNCHANGED <<cpc, returned, atMu>>
     \/ ~Ends(line) /\ line.kind \notin {"error", "csim"}
        /\ UNCHANGED <<cpc, returned, atMu, response>>
  /\ UNCHANGED <<atClosed, torn, toModem, stray, abandoned>>

(* The context ends, or the port fails.  ReadString drops what it has read *)
(* of a line: the rest of it means nothing to the next command.            *)
GiveUp(c) ==
  /\ cpc[c] = "reading" /\ atMu = c /\ Return(c, "failed", NoCmd)
  /\ \/ UNCHANGED port
     \/ port # <<>> /\ port' = [port EXCEPT ![1].kind = "junk"]
  /\ abandoned' = abandoned \cup {c} /\ UNCHANGED <<atClosed, torn, toModem, stray>>

Close ==
  /\ atMu = NoCmd /\ ~atClosed /\ atClosed' = TRUE
  /\ UNCHANGED <<atMu, cpc, response, torn, toModem, port, stray, returned, abandoned>>

(* The modem answers the commands in turn, and has lines of its own, which *)
(* may be a result without a +CSIM line.                                   *)
Modem ==
  \/ /\ toModem # <<>> /\ toModem' = Tail(toModem)
     /\ LET c == Head(toModem) IN
        port' \in {port \o <<Line("error", c)>>}
                  \cup (IF c = NoCmd THEN {} ELSE {port \o <<Line("csim", c), Line("ok", c)>>})
     /\ UNCHANGED stray
  \/ /\ stray < MaxStray /\ stray' = stray + 1 /\ UNCHANGED toModem
     /\ \E k \in {"urc", "ok"} : port' = Append(port, Line(k, NoCmd))

ModemStep == Modem /\ UNCHANGED <<atMu, atClosed, cpc, response, torn, returned, abandoned>>

Next == (\E c \in Cmd : Run(c) \/ ReadLine(c) \/ GiveUp(c)) \/ Close \/ ModemStep

Spec == Init /\ [][Next]_vars

-----------------------------------------------------------------------------
(* The response that Transmit returns is the one to its own APDU, with any *)
(* number of callers and whatever the modem sends in between, as long as   *)
(* no command has been given up.  After that the lines of the abandoned    *)
(* command answer the next one, and those of that one its successor; no    *)
(* response is returned twice even then.                                   *)
OwnAnswer ==
  \A c \in Cmd : cpc[c] = "done" =>
    \/ returned[c] = c
    \/ abandoned # {} /\ returned[c] \in Cmd /\ returned[returned[c]] # returned[c]
=============================================================================
