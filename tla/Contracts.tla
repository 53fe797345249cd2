------------------------------- MODULE Contracts -------------------------------
(***************************************************************************)
(* The brokerage contract of one order: the versions of its template that      *)
(* admins make and activate, the contract that is frozen when the order is       *)
(* assigned, and the PDF that is archived at once or by the hourly cron.          *)
(*                                                                          *)
(* A task is a running request or cron tick; one action is one SQL statement    *)
(* or one call of the object store.  The two admin writes are transactions at   *)
(* READ COMMITTED: what one deactivates, it has seen active and has locked.       *)
(***************************************************************************)
EXTENDS Naturals, FiniteSets

CONSTANTS
  Tasks,
  MaxVersion, MaxRows, \* bounds of the two tables
  MaxAttempts,         \* MAX_PDF_ATTEMPTS
  Handlers,
  Apart,               \* sets of handlers of which one runs at a time
  Faults

HandlerNames == {"createVersion", "activateVersion", "renderContractForOrder",
  "backfillMissingPdfs"}

\* "store": the object store refuses.  "dies": a process dies.
FaultNames == {"store", "dies"}

VARIABLES
  made,      \* the highest version of the template
  active,    \* the versions that are active
  row,       \* OrderContract rows in the order they are made
  linked,    \* order.contractId
  store,     \* the contract that the object under a key was rendered from
  pc, job

templates == <<made, active>>
contracts == <<row, linked, store>>
vars == <<templates, contracts, pc, job>>

Versions == 1 .. MaxVersion
Ids == 1 .. MaxRows

\* The path of a PDF names the order, or the contract if no order has it.
Keys == (0 .. MaxRows) \X Versions
NoKey == <<0, 0>>
Highest == MaxAttempts + Cardinality(Tasks)
NoRow == [v |-> 0, pdf |-> NoKey, n |-> 0, old |-> FALSE]

Labels == {"idle", "v_lock", "v_commit", "r_template", "r_create", "r_link",
  "p_find", "p_put", "p_row", "p_fail", "b_next"}

\* Locals: the version to activate, the versions it is to deactivate and has locked, the
\* contract, the key of its PDF, and what the cron still has to do.
NoJob == [op |-> "none", v |-> 0, seen |-> {}, held |-> {}, c |-> 0, key |-> NoKey, todo |-> {}]

Init ==
  /\ made = 1 /\ active = {1}
  /\ row = [c \in Ids |-> NoRow] /\ linked = 0 /\ store = [k \in Keys |-> 0]
  /\ pc = [t \in Tasks |-> "idle"] /\ job = [t \in Tasks |-> NoJob]

TypeOK ==
  /\ made \in Versions /\ active \subseteq Versions
  /\ row \in [Ids -> [v : 0 .. MaxVersion, pdf : Keys \cup {NoKey}, n : 0 .. Highest, old : BOOLEAN]]
  /\ linked \in 0 .. MaxRows /\ store \in [Keys -> 0 .. MaxRows]
  /\ pc \in [Tasks -> Labels]
  /\ job \in [Tasks -> [op : HandlerNames \cup {"none"}, v : 0 .. MaxVersion,
       seen : SUBSET Versions, held : SUBSET Versions, c : 0 .. MaxRows,
       key : Keys \cup {NoKey}, todo : SUBSET Ids]]

Begin(t, label, j) ==
  /\ pc[t] = "idle" /\ j.op \in Handlers
  /\ \A s \in Tasks : {j.op, job[s].op} \notin Apart
  /\ pc' = [pc EXCEPT ![t] = label] /\ job' = [job EXCEPT ![t] = j]
Keep(t, label, j) == pc' = [pc EXCEPT ![t] = label] /\ job' = [job EXCEPT ![t] = j]
Go(t, label) == Keep(t, label, job[t])
Stop(t) == Keep(t, "idle", NoJob)

-----------------------------------------------------------------------------
\* createVersion and activateVersion.  The number of a new version is read before its
\* transaction, and is unique: the loser of two fails.
CreateVersion(t) ==
  /\ made < MaxVersion
  /\ Begin(t, "v_lock", [NoJob EXCEPT !.op = "createVersion", !.v = made + 1, !.seen = active])
  /\ UNCHANGED <<templates, contracts>>

ActivateVersion(t) ==
  /\ \E v \in 1 .. made :
       Begin(t, "v_lock", [NoJob EXCEPT !.op = "activateVersion", !.v = v, !.seen = active])
  /\ UNCHANGED <<templates, contracts>>

\* The rows it saw active, as they are once nobody else holds them.
Deactivates(t) ==
  /\ pc[t] = "v_lock"
  /\ \A s \in Tasks \ {t} : job[s].held \cap job[t].seen = {}
  /\ Keep(t, "v_commit", [job[t] EXCEPT !.held = @ \cup (job[t].seen \cap active)])

DeactivateAtOnce(t) ==
  /\ Deactivates(t)
  /\ active' = active \ job[t].seen
  /\ UNCHANGED <<made, contracts>>

Deactivate(t) ==
  /\ Deactivates(t)
  /\ UNCHANGED <<templates, contracts>>

Commit(t) ==
  /\ pc[t] = "v_commit"
  /\ IF job[t].op = "createVersion" /\ job[t].v <= made THEN UNCHANGED templates
     ELSE /\ active' = (active \ job[t].held) \cup {job[t].v}
          /\ made' = IF job[t].v > made THEN job[t].v ELSE made
  /\ Stop(t)
  /\ UNCHANGED contracts

-----------------------------------------------------------------------------
\* renderContractForOrder: the order has a contract, or one is made from the active
\* template of the highest version.
RenderAnyway(t) ==
  /\ Begin(t, "r_template", [NoJob EXCEPT !.op = "renderContractForOrder"])
  /\ UNCHANGED <<templates, contracts>>

RenderContract(t) ==
  /\ linked = 0
  /\ Begin(t, "r_template", [NoJob EXCEPT !.op = "renderContractForOrder"])
  /\ UNCHANGED <<templates, contracts>>

LoadActiveTemplate(t) ==
  /\ pc[t] = "r_template"
  /\ IF active = {} THEN Stop(t)
     ELSE Keep(t, "r_create",
               [job[t] EXCEPT !.v = CHOOSE v \in active : \A w \in active : w <= v])
  /\ UNCHANGED <<templates, contracts>>

CreateContract(t) ==
  /\ pc[t] = "r_create"
  /\ \E c \in Ids :
       /\ row[c].v = 0 /\ \A d \in 1 .. c - 1 : row[d].v # 0
       /\ row' = [row EXCEPT ![c] = [NoRow EXCEPT !.v = job[t].v]]
       /\ Keep(t, "r_link", [job[t] EXCEPT !.c = c])
  /\ UNCHANGED <<templates, linked, store>>

LinkContract(t) ==
  /\ pc[t] = "r_link"
  /\ linked' = job[t].c
  /\ Go(t, "p_find")
  /\ UNCHANGED <<templates, row, store>>

-----------------------------------------------------------------------------
\* renderPdfForContract, which never throws: the cron goes on to its next.
AfterPdf(t) == IF job[t].todo = {} THEN Stop(t) ELSE Keep(t, "b_next", [job[t] EXCEPT !.key = NoKey])

FindContractByOrder(t) ==
  /\ pc[t] = "p_find"
  /\ LET c == job[t].c
     IN IF row[c].pdf # NoKey THEN AfterPdf(t)
        ELSE Keep(t, "p_put", [job[t] EXCEPT !.key = <<0, row[c].v>>])
  /\ UNCHANGED <<templates, contracts>>

FindContract(t) ==
  /\ pc[t] = "p_find"
  /\ LET c == job[t].c
     IN IF row[c].pdf # NoKey THEN AfterPdf(t)
        ELSE Keep(t, "p_put",
                  [job[t] EXCEPT !.key = <<IF linked = c THEN 0 ELSE c, row[c].v>>])
  /\ UNCHANGED <<templates, contracts>>

PutPdf(t) ==
  /\ pc[t] = "p_put"
  /\ \/ store' = [store EXCEPT ![job[t].key] = job[t].c] /\ Go(t, "p_row")
     \/ "store" \in Faults /\ Go(t, "p_fail") /\ UNCHANGED store
  /\ UNCHANGED <<templates, row, linked>>

RecordPdf(t) ==
  /\ pc[t] = "p_row"
  /\ row' = [row EXCEPT ![job[t].c].pdf = job[t].key]
  /\ AfterPdf(t)
  /\ UNCHANGED <<templates, linked, store>>

CountAttempt(t) ==
  /\ pc[t] = "p_fail"
  /\ row' = [row EXCEPT ![job[t].c].n = IF @ < Highest THEN @ + 1 ELSE @]
  /\ AfterPdf(t)
  /\ UNCHANGED <<templates, linked, store>>

\* backfillMissingPdfs: what has no PDF, may still be tried, and is five minutes old.
Missing == {c \in Ids : row[c].v # 0 /\ row[c].pdf = NoKey /\ row[c].n < MaxAttempts /\ row[c].old}

BackfillForEver(t) ==
  /\ LET todo == {c \in Ids : row[c].v # 0 /\ row[c].pdf = NoKey /\ row[c].old}
     IN todo # {} /\ Begin(t, "b_next", [NoJob EXCEPT !.op = "backfillMissingPdfs", !.todo = todo])
  /\ UNCHANGED <<templates, contracts>>

BackfillMissingPdfs(t) ==
  /\ Missing # {}
  /\ Begin(t, "b_next", [NoJob EXCEPT !.op = "backfillMissingPdfs", !.todo = Missing])
  /\ UNCHANGED <<templates, contracts>>

BackfillNext(t) ==
  /\ pc[t] = "b_next"
  /\ LET c == CHOOSE c \in job[t].todo : \A d \in job[t].todo : c <= d
     IN Keep(t, "p_find", [job[t] EXCEPT !.c = c, !.todo = @ \ {c}])
  /\ UNCHANGED <<templates, contracts>>

FiveMinutesPass(c) ==
  /\ row[c].v # 0 /\ ~row[c].old
  /\ \A t \in Tasks : job[t].c # c
  /\ row' = [row EXCEPT ![c].old = TRUE]
  /\ UNCHANGED <<templates, linked, store, pc, job>>

\* A transaction that is not committed is undone.
Die(t) ==
  /\ "dies" \in Faults /\ pc[t] # "idle"
  /\ Stop(t)
  /\ UNCHANGED <<templates, contracts>>

Continue(t) ==
  \/ LoadActiveTemplate(t) \/ CreateContract(t) \/ LinkContract(t)
  \/ FindContract(t) \/ PutPdf(t) \/ RecordPdf(t) \/ CountAttempt(t) \/ BackfillNext(t)

Next ==
  \/ \E t \in Tasks :
       \/ CreateVersion(t) \/ ActivateVersion(t) \/ Deactivate(t) \/ Commit(t)
       \/ RenderContract(t) \/ BackfillMissingPdfs(t) \/ Continue(t) \/ Die(t)
  \/ \E c \in Ids : FiveMinutesPass(c)

Spec == Init /\ [][Next]_vars

-----------------------------------------------------------------------------
\* There is always a template to make a contract from, whatever admins activate at once.
AlwaysATemplate == active # {}

\* "FROZEN": the contract of an order is never replaced by another one.
KeepsItsContract == linked # 0 => linked' = linked

\* The archived PDF of a contract is its own: it was rendered from its frozen text.
PdfIsItsContract == \A c \in Ids : row[c].pdf # NoKey => store[row[c].pdf] = c

\* "so the backfill cron can give up instead of looping": a PDF that cannot be made is
\* tried so many times, and once more for every cron tick that had chosen it before.
GivesUp == \A c \in Ids : row[c].n < MaxAttempts + Cardinality(Tasks)
=============================================================================
