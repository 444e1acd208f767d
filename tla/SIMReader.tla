----------------------------- MODULE SIMReader -----------------------------
(***************************************************************************)
(* sim/reader.go and sim/card.go: SIM files over APDUs.  The card has one  *)
(* current file, which every SELECT moves; the reader remembers the file   *)
(* it selected last and leaves the SELECT out when that file is asked for  *)
(* again.  A response may come in two parts, the second fetched with GET   *)
(* RESPONSE.  The reader is used directly, or by a Card that loads the     *)
(* identity of the subscriber; a watch for SIM Toolkit commands polls the  *)
(* card at the same time.                                                  *)
(***************************************************************************)
EXTENDS Naturals, Sequences

CONSTANTS Watches,   \* whether the Toolkit watch may run
          MaxReads   \* bound: APDUs that read one file (records, chunks)

VARIABLES
  user,      \* "reader" or "card"
  step,      \* what a Card does next, an index of Plan; 0 when it is given up
  watching,  \* Commands has been called
  current,   \* the file the card has selected
  selected,  \* the file the reader believes to be selected
  op,        \* the operation in progress: [op, file]
  apdus,     \* the APDUs it still has to send
  held,      \* whose second part the card holds: "op", "stk" or "none"
  more,      \* which of "op" and "stk" will ask for a second part
  data,      \* the file whose contents the last APDU of the operation returned
  disturbed  \* the selection was moved, or may have been, behind the cache

vars == <<user, step, watching, current, selected, op, apdus, held, more, data, disturbed>>

Ref(a, p) == [aid |-> a, path |-> p]
NoFile == Ref("none", "none")
ToolkitData == Ref("stk", "stk")
Idle == [op |-> "idle", file |-> NoFile]

(* The files a caller of the reader may ask for: one path in two           *)
(* applications, and one outside any.                                      *)
Files == {Ref("usim", "psi"), Ref("isim", "psi"), Ref("mf", "iccid")}

Matches(f) == selected = f

(* The APDUs of ListApplications, FileAttributes, ReadTransparent and      *)
(* ReadRecord, and Authenticate3G.                                         *)
Reads(n) == [i \in 1 .. n |-> "read"]

SelectFile(f) == IF Matches(f) THEN <<>> ELSE <<"root", "file">>

Programs(o) ==
  CASE o.op = "list"  -> {<<"mf", "dir">> \o Reads(n) : n \in 0 .. MaxReads}
    [] o.op = "attrs" -> {SelectFile(o.file)}
    [] o.op = "read"  -> {SelectFile(o.file) \o Reads(n) : n \in 1 .. MaxReads}
    [] o.op = "auth"  -> {IF o.file.aid = "mf" THEN <<"auth">> ELSE <<"app", "auth">>}

(* load and loadISIM: what is asked for, in order, and what a failure of   *)
(* it means: no Card, a Card without the ISIM, or nothing.                 *)
PlanStep(o, f, failure) == [op |-> o, file |-> f, failure |-> failure]
Plan == <<
  PlanStep("list", NoFile, "card"),
  PlanStep("read", Ref("mf", "iccid"), "card"),
  PlanStep("read", Ref("usim", "imsi"), "card"),
  PlanStep("read", Ref("usim", "ad"), "card"),
  PlanStep("read", Ref("usim", "gid1"), "none"),
  PlanStep("read", Ref("usim", "gid2"), "none"),
  PlanStep("read", Ref("usim", "spn"), "none"),
  PlanStep("read", Ref("usim", "smsp"), "none"),
  PlanStep("read", Ref("usim", "psi"), "none"),
  PlanStep("list", NoFile, "isim"),
  PlanStep("read", Ref("isim", "impi"), "isim"),
  PlanStep("read", Ref("isim", "domain"), "none"),
  PlanStep("read", Ref("isim", "impu"), "isim"),
  PlanStep("read", Ref("isim", "psi"), "none") >>

Loaded == Len(Plan) + 1

Init ==
  /\ user \in {"reader", "card"} /\ step = 1 /\ watching = FALSE
  /\ current = Ref("mf", "mf") /\ selected = NoFile /\ op = Idle /\ apdus = <<>>
  /\ held = "none" /\ more = {} /\ data = NoFile /\ disturbed = FALSE

-----------------------------------------------------------------------------
Begin(o) ==
  /\ op = Idle /\ apdus' \in Programs(o) /\ op' = [op |-> o.op, file |-> o.file]
  /\ data' = NoFile
  /\ UNCHANGED <<user, step, watching, current, selected, held, more, disturbed>>

(* The calls a program makes on the reader itself.                         *)
Call ==
  /\ user = "reader"
  /\ \E f \in Files : \E o \in {"list", "attrs", "read", "auth"} :
       Begin([op |-> o, file |-> IF o = "list" THEN NoFile ELSE f])

(* A Card finds an application or reads a file; FileAttributes and the     *)
(* reads that follow it are one operation here.                            *)
CardRead == user = "card" /\ step \in 1 .. Len(Plan) /\ Begin(Plan[step])

(* Once loaded it authenticates in either application.                     *)
Authenticate ==
  /\ user = "card" /\ step = Loaded
  /\ \E a \in {"usim", "isim"} : Begin([op |-> "auth", file |-> Ref(a, "none")])

AfterStep(ok) ==
  IF user = "reader" \/ step = Loaded \/ step = 0 THEN step
  ELSE CASE ok \/ Plan[step].failure = "none" -> step + 1
         [] Plan[step].failure = "isim" /\ ~ok -> Loaded
         [] Plan[step].failure = "card" /\ ~ok -> 0

Finish(ok) ==
  /\ op' = Idle /\ apdus' = <<>> /\ step' = AfterStep(ok) /\ more' = more \ {"op"}

Return ==
  /\ op # Idle /\ apdus = <<>> /\ Finish(TRUE) /\ data' = NoFile
  /\ UNCHANGED <<user, watching, current, selected, held, disturbed>>

(* What an APDU does to the card.                                          *)
Moved(a) ==
  CASE a = "mf"   -> Ref("mf", "mf")
    [] a = "dir"  -> Ref("mf", "dir")
    [] a \in {"root", "app"} -> Ref(op.file.aid, "root")
    [] a = "file" -> op.file
    [] a \in {"read", "auth"} -> current

(* A card reads only a selected file, and by records only one that has     *)
(* records.                                                                *)
HasRecords(f) == f.path \in {"dir", "psi", "smsp", "impu"}

CanDo(a) ==
  a = "read" => /\ current.path \notin {"mf", "root"}
                /\ HasRecords(current) = (op.op = "list" \/ HasRecords(op.file))

(* Mutant: Authenticate3G keeps the cache.                                 *)
Bug_KeepCache(a, whose) ==
  /\ data' = whose /\ apdus' = Tail(apdus)
  /\ selected' = IF a = "file" THEN op.file ELSE selected
  /\ disturbed' = ((disturbed /\ a # "file") \/ a \in {"mf", "dir"})
  /\ UNCHANGED <<op, step>>

(* transmitCommand has the whole response: selectFile fills the cache,     *)
(* Authenticate3G empties it, ListApplications leaves it as it was.        *)
Complete(a, whose) ==
  /\ data' = whose /\ apdus' = Tail(apdus)
  /\ selected' = CASE a = "file" -> op.file [] a = "app" -> NoFile [] OTHER -> selected
  /\ disturbed' = ((disturbed /\ a \notin {"file", "app"}) \/ a \in {"mf", "dir"})
  /\ UNCHANGED <<op, step>>

Failed ==
  /\ Finish(FALSE) /\ disturbed' = TRUE /\ data' = NoFile /\ UNCHANGED selected

(* transmitResponse: one APDU.  It may fail before or after the card has   *)
(* done what it says, and its response may be complete or not.             *)
Transmit ==
  /\ apdus # <<>> /\ "op" \notin more
  /\ LET a == Head(apdus) IN
     \/ /\ CanDo(a) /\ current' = Moved(a) /\ held' = "none"
        /\ Complete(a, current') /\ UNCHANGED more
     \/ /\ CanDo(a) /\ current' = Moved(a) /\ held' = "op" /\ more' = more \cup {"op"}
        /\ UNCHANGED <<selected, op, apdus, step, data, disturbed>>
     \/ /\ current' \in {current, Moved(a)} /\ held' \in {held, "none"} /\ Failed
  /\ UNCHANGED <<user, watching>>

(* followGetResponse: the card returns what it holds, whoever caused it.   *)
GetResponse ==
  /\ "op" \in more
  /\ \/ /\ held # "none" /\ more' = more \ {"op"}
        /\ Complete(Head(apdus), IF held = "op" THEN current ELSE ToolkitData)
     \/ Failed
  /\ held' = "none" /\ UNCHANGED <<user, watching, current>>

-----------------------------------------------------------------------------
Commands ==
  /\ Watches /\ ~watching /\ watching' = TRUE
  /\ UNCHANGED <<user, step, current, selected, op, apdus, held, more, data, disturbed>>

(* pollSTK: STATUS, and perhaps its second part; only the APDUs of the     *)
(* Toolkit exclude one another.                                            *)
PollSTK ==
  /\ watching
  /\ \/ /\ "stk" \notin more
        /\ \/ held' = "none" /\ UNCHANGED more
           \/ held' = "stk" /\ more' = more \cup {"stk"}
     \/ /\ "stk" \in more /\ more' = more \ {"stk"} /\ held' = "none"
  /\ UNCHANGED <<user, step, watching, current, selected, op, apdus, data, disturbed>>

Next == Call \/ CardRead \/ Authenticate \/ Transmit \/ GetResponse \/ Return \/ Commands \/ PollSTK

Spec == Init /\ [][Next]_vars

-----------------------------------------------------------------------------
(* What a read returns is the content of the file that was asked for; only *)
(* while the Toolkit watch polls may it be the second part of a response   *)
(* to the watch.                                                           *)
ReadsTheFile ==
  op.op = "read" /\ data # NoFile /\ apdus = <<>> =>
    data = op.file \/ (watching /\ data = ToolkitData)

(* A Card sends every read with the file selected that it asks for,        *)
(* whatever fails on the way, and gets its content; a user of the reader   *)
(* does as long as no ListApplications and no failed operation has moved   *)
(* the selection since the file was selected.                              *)
CacheIsTrue ==
  user = "card" \/ ~disturbed =>
    /\ op.op = "read" /\ apdus # <<>> /\ Head(apdus) = "read" => current = op.file
    /\ ReadsTheFile
=============================================================================
