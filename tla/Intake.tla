------------------------------- MODULE Intake -------------------------------
(***************************************************************************)
(* How a report comes in: the free credit it costs, its row, its file, the   *)
(* order it completes, and the purchase that makes devices PRO.             *)
(*                                                                          *)
(* All devices are linked to the one inspector who was assigned the orders.  *)
(* Abstracted: the payload, and so its validation and the completeness gate,  *)
(* which may refuse a report before anything is written (as if it had not    *)
(* been sent); the file is there or not; photos (Showroom).                  *)
(***************************************************************************)
EXTENDS Naturals, Sequences, FiniteSets

CONSTANTS
  Tasks,
  Devices,
  Codes,        \* report codes, each chosen by a device for one inspection
  Orders,
  NoOrder,      \* a report filed for no order: none of Orders
  MaxReports,   \* bound on the rows
  FreeLimit,    \* freeReportsLimit
  PurchaseCap,  \* IAP_MAX_DEVICES_PER_PURCHASE
  Attempts,     \* GRANT_ATTEMPTS
  Handlers,
  Apart,        \* pairs of handlers (one that excludes itself: alone) that do not overlap
  Refuses,      \* calls of the store that may fail
  DiesAt        \* labels before which the process may die

VARIABLES
  rep,          \* the Report rows, oldest first
  pdf,          \* the rows whose file is in the store
  used,         \* deviceQuota.freeReportsUsed
  pro,          \* deviceQuota.isPro
  grants,       \* IapGrant: the devices the purchase has made PRO
  orders,       \* order.status
  pc, job

quotaState == <<used, pro, grants>>
vars == <<rep, pdf, quotaState, orders, pc, job>>

HandlerNames == {"create", "update", "complete", "removeReport", "attachReportByCode",
  "grantPro", "erase"}

Reports == 1 .. Len(rep)
Attachable == {"ASSIGNED", "IN_PROGRESS"}

\* keyed: s3Key is written.  up: uploaded.  st: "removed" has deletedAt set, the row of
\* an "erased" one is deleted (kept here as history).
ReportRows == [dev : Devices, code : Codes, order : Orders \cup {NoOrder},
               tier : {"free", "pro"}, keyed : BOOLEAN, up : BOOLEAN,
               st : {"live", "removed", "erased"}]

Labels == {"idle", "c_find", "c_reuse", "c_quota", "c_credit", "c_row", "c_back", "c_key", "c_sign",
  "submit", "submitted", "update", "f_head", "f_write", "r_object", "r_row", "a_order",
  "a_report", "a_write", "g_read", "g_commit", "e_reports", "e_grant", "e_quota"}

\* Locals: the handler, its device, code and order, its row, the tier it was given,
\* the attempt it makes, and the grants as its snapshot has them.
Jobs == [op : HandlerNames \cup {"none"}, dev : Devices \cup {"none"}, code : Codes \cup {"none"},
         order : Orders \cup {NoOrder}, id : 0 .. MaxReports, tier : {"free", "pro"},
         n : 0 .. Attempts, seen : SUBSET Devices]
NoJob == [op |-> "none", dev |-> "none", code |-> "none", order |-> NoOrder,
          id |-> 0, tier |-> "free", n |-> 0, seen |-> {}]

Begin(t, label, j) ==
  /\ pc[t] = "idle" /\ j.op \in Handlers
  /\ \A u \in Tasks : {j.op, job[u].op} \notin Apart
  /\ pc' = [pc EXCEPT ![t] = label]
  /\ job' = [job EXCEPT ![t] = j]

Keep(t, label, j) == pc' = [pc EXCEPT ![t] = label] /\ job' = [job EXCEPT ![t] = j]
Go(t, label) == Keep(t, label, job[t])
End(t) == Keep(t, "idle", NoJob)
Dev(t) == job[t].dev
Mine(t) == rep[job[t].id]
Live == {r \in Reports : rep[r].st = "live"}
Filed(o) == {r \in Reports : rep[r].order = o /\ rep[r].st # "erased"}

-----------------------------------------------------------------------------
Init ==
  /\ rep = <<>> /\ pdf = {}
  /\ used = [d \in Devices |-> 0] /\ pro = [d \in Devices |-> FALSE] /\ grants = {}
  /\ orders = [o \in Orders |-> "ASSIGNED"]
  /\ pc = [t \in Tasks |-> "idle"] /\ job = [t \in Tasks |-> NoJob]

TypeOK ==
  /\ Len(rep) <= MaxReports /\ \A r \in Reports : rep[r] \in ReportRows
  /\ pdf \subseteq Reports
  /\ used \in [Devices -> Nat]
  /\ pro \in [Devices -> BOOLEAN] /\ grants \subseteq Devices
  /\ orders \in [Orders -> Attachable \cup {"SUBMITTED"}]
  /\ pc \in [Tasks -> Labels] /\ job \in [Tasks -> Jobs]

-----------------------------------------------------------------------------
\* create, past its checks: the device's own live report of this code is reused.
Create(t) ==
  /\ \E d \in Devices, c \in Codes, o \in Orders \cup {NoOrder} :
       Begin(t, "c_find", [NoJob EXCEPT !.op = "create", !.dev = d, !.code = c, !.order = o])
  /\ UNCHANGED <<rep, pdf, quotaState, orders>>

Own(t) == {r \in Live : rep[r].dev = Dev(t) /\ rep[r].code = job[t].code}

CreateFind(t) ==
  /\ pc[t] = "c_find"
  /\ \/ \E r \in Own(t) : Keep(t, "c_reuse", [job[t] EXCEPT !.id = r])
     \/ Own(t) = {} /\ Go(t, "c_quota")
  /\ UNCHANGED <<rep, pdf, quotaState, orders>>

\* recreate: a new file is coming.  The order is left as it is.
Recreate(t) ==
  /\ pc[t] = "c_reuse"
  /\ rep' = [rep EXCEPT ![job[t].id].up = FALSE]
  /\ End(t)
  /\ UNCHANGED <<pdf, quotaState, orders>>

\* consumeQuota: PRO is free; otherwise the limit is checked, and then a credit taken.
ConsumeQuota(t) ==
  /\ pc[t] = "c_quota"
  /\ \/ pro[Dev(t)] /\ Keep(t, "c_row", [job[t] EXCEPT !.tier = "pro"])
     \/ ~pro[Dev(t)] /\ used[Dev(t)] < FreeLimit /\ Go(t, "c_credit")
     \/ ~pro[Dev(t)] /\ used[Dev(t)] >= FreeLimit /\ End(t)
  /\ UNCHANGED <<rep, pdf, quotaState, orders>>

TakeCredit(t) ==
  /\ pc[t] = "c_credit"
  /\ used' = [used EXCEPT ![Dev(t)] = @ + 1]
  /\ Go(t, "c_row")
  /\ UNCHANGED <<rep, pdf, pro, grants, orders>>

\* The row, unless a live report has the code or any report has the order.
Taken(t) ==
  \/ \E r \in Live : rep[r].code = job[t].code
  \/ job[t].order # NoOrder /\ Filed(job[t].order) # {}

CreateRow(t) ==
  /\ pc[t] = "c_row"
  /\ \/ ~Taken(t) /\ Len(rep) < MaxReports
        /\ rep' = Append(rep, [dev |-> Dev(t), code |-> job[t].code, order |-> job[t].order,
                               tier |-> job[t].tier, keyed |-> FALSE, up |-> FALSE, st |-> "live"])
        /\ Keep(t, "c_key", [job[t] EXCEPT !.id = Len(rep')])
     \/ (Taken(t) \/ Len(rep) = MaxReports) /\ Go(t, "c_back") /\ UNCHANGED rep
  /\ UNCHANGED <<pdf, quotaState, orders>>

\* rollbackQuota, of a row that was refused.
RollbackAnyTier(t) ==
  /\ pc[t] = "c_back"
  /\ used' = [used EXCEPT ![Dev(t)] = @ - 1]
  /\ End(t)
  /\ UNCHANGED <<rep, pdf, pro, grants, orders>>

KeepCredit(t) ==
  /\ pc[t] = "c_back" /\ End(t)
  /\ UNCHANGED <<rep, pdf, quotaState, orders>>

RollbackQuota(t) ==
  /\ pc[t] = "c_back"
  /\ used' = IF job[t].tier = "free" THEN [used EXCEPT ![Dev(t)] = @ - 1] ELSE used
  /\ End(t)
  /\ UNCHANGED <<rep, pdf, pro, grants, orders>>

CreateKey(t) ==
  /\ pc[t] = "c_key"
  /\ rep' = [rep EXCEPT ![job[t].id].keyed = TRUE]
  /\ Go(t, "c_sign")
  /\ UNCHANGED <<pdf, quotaState, orders>>

\* The upload URL; without it create throws.
CreateSign(t) ==
  /\ pc[t] = "c_sign"
  /\ \/ IF job[t].order = NoOrder THEN End(t) ELSE Go(t, "submit")
     \/ "sign" \in Refuses /\ End(t)
  /\ UNCHANGED <<rep, pdf, quotaState, orders>>

-----------------------------------------------------------------------------
\* submitReportForOrder: of an order a report can be attached to, on to SUBMITTED.
Submit(t) ==
  /\ pc[t] = "submit"
  /\ IF orders[job[t].order] \in Attachable THEN Go(t, "submitted") ELSE End(t)
  /\ UNCHANGED <<rep, pdf, quotaState, orders>>

Submitted(t) ==
  /\ pc[t] = "submitted"
  /\ orders' = [orders EXCEPT ![job[t].order] = "SUBMITTED"]
  /\ End(t)
  /\ UNCHANGED <<rep, pdf, quotaState>>

\* attachReportByCode: an order without a report, the newest report of the code.
Attach(t) ==
  /\ \E o \in Orders, c \in Codes :
       Begin(t, "a_order", [NoJob EXCEPT !.op = "attachReportByCode", !.order = o, !.code = c])
  /\ UNCHANGED <<rep, pdf, quotaState, orders>>

AttachOrder(t) ==
  /\ pc[t] = "a_order"
  /\ IF orders[job[t].order] \in Attachable /\ Filed(job[t].order) = {}
     THEN Go(t, "a_report") ELSE End(t)
  /\ UNCHANGED <<rep, pdf, quotaState, orders>>

AttachUsed(t) ==
  /\ pc[t] = "a_report"
  /\ LET found == {r \in Live : rep[r].code = job[t].code}
     IN \/ \E r \in found : Keep(t, "a_write", [job[t] EXCEPT !.id = r])
        \/ found = {} /\ End(t)
  /\ UNCHANGED <<rep, pdf, quotaState, orders>>

AttachReport(t) ==
  /\ pc[t] = "a_report"
  /\ LET found == {r \in Live : /\ rep[r].code = job[t].code
                                         /\ rep[r].order \in {NoOrder, job[t].order}}
     IN \/ \E r \in found : Keep(t, "a_write", [job[t] EXCEPT !.id = r])
        \/ found = {} /\ End(t)
  /\ UNCHANGED <<rep, pdf, quotaState, orders>>

\* By id; the unique index of order_id refuses a second report of the order.
AttachWriteOnly(t) ==
  /\ pc[t] = "a_write"
  /\ Filed(job[t].order) \subseteq {job[t].id}
  /\ rep' = [rep EXCEPT ![job[t].id].order = job[t].order]
  /\ End(t)
  /\ UNCHANGED <<pdf, quotaState, orders>>

AttachWrite(t) ==
  /\ pc[t] = "a_write"
  /\ \/ /\ Filed(job[t].order) \subseteq {job[t].id}
        /\ rep' = [rep EXCEPT ![job[t].id].order = job[t].order]
        /\ Go(t, "submit")
     \/ ~(Filed(job[t].order) \subseteq {job[t].id}) /\ End(t) /\ UNCHANGED rep
  /\ UNCHANGED <<pdf, quotaState, orders>>

-----------------------------------------------------------------------------
\* A handler of a device on a live report of its own (requireOwned).
OnReport(t, op, label) ==
  /\ \E r \in Live :
       Begin(t, label, [NoJob EXCEPT !.op = op, !.dev = rep[r].dev, !.id = r])
  /\ UNCHANGED <<rep, pdf, quotaState, orders>>

\* update with regeneratePdfUploadUrl.
Update(t) == OnReport(t, "update", "update")

UpdateWrite(t) ==
  /\ pc[t] = "update"
  /\ rep' = [rep EXCEPT ![job[t].id].up = FALSE]
  /\ End(t)
  /\ UNCHANGED <<pdf, quotaState, orders>>

\* The device sends the file to the URL it was given.
PutFile ==
  /\ \E r \in Live : rep[r].keyed /\ r \notin pdf /\ pdf' = pdf \cup {r}
  /\ UNCHANGED <<rep, quotaState, orders, pc, job>>

Complete(t) == OnReport(t, "complete", "f_head")

CompleteUnseen(t) ==
  /\ pc[t] = "f_head"
  /\ IF Mine(t).up THEN End(t) ELSE Go(t, "f_write")
  /\ UNCHANGED <<rep, pdf, quotaState, orders>>

CompleteHead(t) ==
  /\ pc[t] = "f_head"
  /\ IF ~Mine(t).up /\ Mine(t).keyed /\ job[t].id \in pdf THEN Go(t, "f_write") ELSE End(t)
  /\ UNCHANGED <<rep, pdf, quotaState, orders>>

CompleteWrite(t) ==
  /\ pc[t] = "f_write"
  /\ rep' = [rep EXCEPT ![job[t].id].up = TRUE]
  /\ End(t)
  /\ UNCHANGED <<pdf, quotaState, orders>>

\* remove: the file, then the row.  The row keeps its order.
RemoveReport(t) == OnReport(t, "removeReport", "r_object")

RemoveObject(t) ==
  /\ pc[t] = "r_object"
  /\ \/ pdf' = pdf \ {job[t].id} /\ Go(t, "r_row")
     \/ "delete" \in Refuses /\ End(t) /\ UNCHANGED pdf
  /\ UNCHANGED <<rep, quotaState, orders>>

RemoveRow(t) ==
  /\ pc[t] = "r_row"
  /\ rep' = [rep EXCEPT ![job[t].id].st = "removed"]
  /\ End(t)
  /\ UNCHANGED <<pdf, quotaState, orders>>

-----------------------------------------------------------------------------
\* grantPro, of a validated receipt of the purchase: a SERIALIZABLE transaction,
\* which reads the grants and commits unless they have changed since.
GrantPro(t) ==
  /\ \E d \in Devices : Begin(t, "g_read", [NoJob EXCEPT !.op = "grantPro", !.dev = d, !.n = 1])
  /\ UNCHANGED <<rep, pdf, quotaState, orders>>

GrantRead(t) ==
  /\ pc[t] = "g_read"
  /\ IF Dev(t) \notin grants /\ Cardinality(grants) >= PurchaseCap THEN End(t)
     ELSE Keep(t, "g_commit", [job[t] EXCEPT !.seen = grants])
  /\ UNCHANGED <<rep, pdf, quotaState, orders>>

Granted(t) ==
  grants' = grants \cup {Dev(t)} /\ pro' = [pro EXCEPT ![Dev(t)] = TRUE] /\ End(t)

GrantAtReadCommitted(t) ==
  /\ pc[t] = "g_commit"
  /\ Granted(t)
  /\ UNCHANGED <<rep, pdf, used, orders>>

GrantCommit(t) ==
  /\ pc[t] = "g_commit"
  /\ \/ grants = job[t].seen /\ Granted(t)
     \/ /\ grants # job[t].seen
        /\ IF job[t].n < Attempts THEN Keep(t, "g_read", [job[t] EXCEPT !.n = @ + 1]) ELSE End(t)
        /\ UNCHANGED <<pro, grants>>
  /\ UNCHANGED <<rep, pdf, used, orders>>

\* erase: the reports of the device with their files, its grant, its quota.
Erase(t) ==
  /\ \E d \in Devices : Begin(t, "e_reports", [NoJob EXCEPT !.op = "erase", !.dev = d])
  /\ UNCHANGED <<rep, pdf, quotaState, orders>>

EraseReports(t) ==
  /\ pc[t] = "e_reports"
  /\ pdf' = {r \in pdf : rep[r].dev # Dev(t)}
  /\ rep' = [r \in Reports |-> IF rep[r].dev = Dev(t) THEN [rep[r] EXCEPT !.st = "erased"] ELSE rep[r]]
  /\ Go(t, "e_grant")
  /\ UNCHANGED <<quotaState, orders>>

EraseGrant(t) ==
  /\ pc[t] = "e_grant"
  /\ grants' = grants \ {Dev(t)}
  /\ Go(t, "e_quota")
  /\ UNCHANGED <<rep, pdf, used, pro, orders>>

EraseKeepsPro(t) ==
  /\ pc[t] = "e_quota"
  /\ used' = [used EXCEPT ![Dev(t)] = 0]
  /\ End(t)
  /\ UNCHANGED <<rep, pdf, pro, grants, orders>>

EraseQuota(t) ==
  /\ pc[t] = "e_quota"
  /\ used' = [used EXCEPT ![Dev(t)] = 0] /\ pro' = [pro EXCEPT ![Dev(t)] = FALSE]
  /\ End(t)
  /\ UNCHANGED <<rep, pdf, grants, orders>>
-----------------------------------------------------------------------------
Die(t) ==
  /\ pc[t] \in DiesAt /\ End(t)
  /\ UNCHANGED <<rep, pdf, quotaState, orders>>

Called(t) ==
  \/ Create(t) \/ Attach(t) \/ Update(t) \/ Complete(t) \/ RemoveReport(t) \/ GrantPro(t) \/ Erase(t)

Continue(t) ==
  \/ CreateFind(t) \/ Recreate(t) \/ ConsumeQuota(t) \/ TakeCredit(t) \/ CreateRow(t)
  \/ RollbackQuota(t) \/ CreateKey(t) \/ CreateSign(t) \/ Submit(t) \/ Submitted(t)
  \/ AttachOrder(t) \/ AttachReport(t) \/ AttachWrite(t) \/ UpdateWrite(t)
  \/ CompleteHead(t) \/ CompleteWrite(t) \/ RemoveObject(t) \/ RemoveRow(t)
  \/ GrantRead(t) \/ GrantCommit(t) \/ EraseReports(t) \/ EraseGrant(t) \/ EraseQuota(t)

Next == (\E t \in Tasks : Called(t) \/ Continue(t) \/ Die(t)) \/ PutFile

Spec == Init /\ [][Next]_vars

-----------------------------------------------------------------------------
Erasing(d) == \E t \in Tasks : job[t].op = "erase" /\ job[t].dev = d

\* A device has paid one credit for each of its free reports and none for anything
\* else, whoever conflicts with whom over a code or an order: a creation that is
\* refused gives its credit back, and a repeated one takes none.
FreeReports(d) == {r \in Reports : rep[r].dev = d /\ rep[r].tier = "free" /\ rep[r].st # "erased"}
InFlight(d) == {t \in Tasks : pc[t] \in {"c_row", "c_back"} /\ job[t].dev = d /\ job[t].tier = "free"}
CreditsMatch ==
  \A d \in Devices : Erasing(d) \/ used[d] = Cardinality(FreeReports(d)) + Cardinality(InFlight(d))

\* One purchase makes no more devices PRO than it may, though grantPro counts before it
\* inserts: "under READ COMMITTED two new devices could both count 4 and both insert".
CapHolds == Cardinality(grants) <= PurchaseCap

\* No device is PRO without holding one of those places, erasures and grants of it
\* interleaved as they may.
ProIsGranted == \A d \in Devices : pro[d] => d \in grants \/ Erasing(d)

\* PRO is for those the purchase was made for.
ProIsBought == CapHolds /\ ProIsGranted

\* An order is SUBMITTED for a report that was filed for it and never for another order.
SubmittedHasReport ==
  \A o \in Orders : orders[o] = "SUBMITTED" => \E r \in Reports : rep[r].order = o

\* A report that counts as uploaded has its file, or it is being removed.
UploadedHasFile ==
  \A r \in Live : rep[r].up =>
    \/ r \in pdf
    \/ \E t \in Tasks : pc[t] = "r_row" /\ job[t].id = r

\* A report filed for an order has moved it on, once nobody is at work on it.
FiledIsSubmitted ==
  \A r \in Live : rep[r].order # NoOrder /\ (\A t \in Tasks : job[t].order # rep[r].order)
                   => orders[rep[r].order] = "SUBMITTED"

\* Orders and reports agree, from either side.
ReportsMatchOrders == SubmittedHasReport /\ FiledIsSubmitted
=============================================================================
