-------------------------------- MODULE Kyc --------------------------------
(***************************************************************************)
(* Who becomes an inspector: applications, the document behind each, the     *)
(* machine that approves on submission, the admin who may take the approval  *)
(* back, and the nightly purge of old documents.                             *)
(*                                                                          *)
(* A task is a running async function, one action one SQL statement or one   *)
(* call of the object store.  Abstracted: the four required documents are    *)
(* one, the fingerprints of its bytes and of its machine-readable zone are   *)
(* one value (its file); audit rows and notifications.                       *)
(***************************************************************************)
EXTENDS Naturals, Sequences, FiniteSets

CONSTANTS
  Tasks,
  Users,
  Files,      \* what a document may be: two that are equal are recognised as such
  MaxApps,    \* bound on the applications
  MaxKeys,    \* bound on the uploads
  Handlers,
  Alone       \* handlers no two of which run at the same time

HandlerNames == {"createApplication", "uploadDocument", "submitApplication",
  "getApplicationForAdmin", "approve", "reject", "purgeOldDocuments"}

VARIABLES
  app,        \* the KycApplication rows with their document, oldest first
  verified,   \* user.kycVerified
  objects,    \* the objects of the KYC bucket
  keys,       \* how many keys were ever made: a key holds a random UUID
  pc, job

vars == <<app, verified, objects, keys, pc, job>>

Apps == 1 .. Len(app)
Status == {"DRAFT", "SUBMITTED", "IN_REVIEW", "APPROVED", "REJECTED"}
NoKey == 0

\* key: s3Key of the document row (NoKey: no row).  aged: reviewed over 90 days ago.
AppRows == [user : Users, st : Status, key : 0 .. MaxKeys, file : Files,
            purged : BOOLEAN, aged : BOOLEAN]

\* KYC_TRANSITIONS.
Transitions == [s \in Status |->
  CASE s = "DRAFT" -> {"SUBMITTED", "APPROVED"}
    [] s = "SUBMITTED" -> {"IN_REVIEW", "APPROVED", "REJECTED"}
    [] s = "IN_REVIEW" -> {"APPROVED", "REJECTED"}
    [] s = "APPROVED" -> {"REJECTED"}
    [] s = "REJECTED" -> {}]

Active == {"DRAFT", "SUBMITTED", "IN_REVIEW"}
Decided == {"APPROVED", "REJECTED"}

Labels == {"idle", "create", "u_prev", "u_put", "u_row", "u_del", "s_prior", "s_reused",
  "s_write", "look", "approve", "reject", "p_del", "p_stamp"}

\* Locals: the handler, its user and application, the document as it read it, the
\* key it made and the one it displaces, the rows left to purge, whether it holds.
Jobs == [op : HandlerNames \cup {"none"}, user : Users \cup {"none"}, id : 0 .. MaxApps,
         file : Files \cup {"none"}, key : 0 .. MaxKeys, old : 0 .. MaxKeys, todo : SUBSET (1 .. MaxApps), held : BOOLEAN]
Job(op, user, id, file) ==
  [op |-> op, user |-> user, id |-> id, file |-> file, key |-> NoKey, old |-> NoKey,
   todo |-> {}, held |-> FALSE]
NoJob == Job("none", "none", 0, "none")

Begin(t, label, j) ==
  /\ pc[t] = "idle" /\ j.op \in Handlers
  /\ j.op \in Alone => \A u \in Tasks : job[u].op \notin Alone
  /\ pc' = [pc EXCEPT ![t] = label]
  /\ job' = [job EXCEPT ![t] = j]

Keep(t, label, j) == pc' = [pc EXCEPT ![t] = label] /\ job' = [job EXCEPT ![t] = j]
Go(t, label) == Keep(t, label, job[t])
End(t) == Keep(t, "idle", NoJob)
Mine(t) == app[job[t].id]
SetStatus(id, st) == app' = [app EXCEPT ![id].st = st, ![id].aged = FALSE]

-----------------------------------------------------------------------------
Init ==
  /\ app = <<>> /\ verified = [u \in Users |-> FALSE]
  /\ objects = {} /\ keys = 0
  /\ pc = [t \in Tasks |-> "idle"] /\ job = [t \in Tasks |-> NoJob]

TypeOK ==
  /\ Len(app) <= MaxApps /\ \A id \in Apps : app[id] \in AppRows
  /\ verified \in [Users -> BOOLEAN]
  /\ keys \in 0 .. MaxKeys /\ objects \subseteq 1 .. keys
  /\ pc \in [Tasks -> Labels] /\ job \in [Tasks -> Jobs]

-----------------------------------------------------------------------------
\* createApplication: the live application of the user, or else a new draft.
Live(u) == {id \in Apps : app[id].user = u /\ app[id].st \in Active}

CreateApplication(t) ==
  /\ \E u \in Users, f \in Files :
       Live(u) = {} /\ Begin(t, "create", Job("createApplication", u, 0, f))
  /\ UNCHANGED <<app, verified, objects, keys>>

Create(t) ==
  /\ pc[t] = "create"
  /\ app' = IF Len(app) = MaxApps THEN app
            ELSE Append(app, [user |-> job[t].user, st |-> "DRAFT", key |-> NoKey,
                              file |-> job[t].file, purged |-> FALSE, aged |-> FALSE])
  /\ End(t)
  /\ UNCHANGED <<verified, objects, keys>>

\* uploadDocument: a draft's; the row it displaces is read before the object is put.
UploadDocument(t) ==
  /\ keys < MaxKeys
  /\ \E id \in Apps, f \in Files :
       /\ app[id].st = "DRAFT"
       /\ Begin(t, "u_prev", Job("uploadDocument", app[id].user, id, f))
  /\ UNCHANGED <<app, verified, objects, keys>>

UploadPrevious(t) ==
  /\ pc[t] = "u_prev"
  /\ Keep(t, "u_put", [job[t] EXCEPT !.old = Mine(t).key])
  /\ UNCHANGED <<app, verified, objects, keys>>

\* The store refuses, and the upload ends.
UploadPut(t) ==
  /\ pc[t] = "u_put"
  /\ \/ /\ keys < MaxKeys /\ keys' = keys + 1 /\ objects' = objects \cup {keys'}
        /\ Keep(t, "u_row", [job[t] EXCEPT !.key = keys'])
     \/ End(t) /\ UNCHANGED <<objects, keys>>
  /\ UNCHANGED <<app, verified>>

UploadRow(t) ==
  /\ pc[t] = "u_row"
  /\ app' = [app EXCEPT ![job[t].id].key = job[t].key, ![job[t].id].file = job[t].file,
                        ![job[t].id].purged = FALSE]
  /\ IF job[t].old = NoKey THEN End(t) ELSE Go(t, "u_del")
  /\ UNCHANGED <<verified, objects, keys>>

\* Best effort.
UploadDeletesNew(t) ==
  /\ pc[t] = "u_del"
  /\ objects' \in {objects, objects \ {Mine(t).key}}
  /\ End(t)
  /\ UNCHANGED <<app, verified, keys>>

UploadDelete(t) ==
  /\ pc[t] = "u_del"
  /\ objects' \in {objects, objects \ {job[t].old}}
  /\ End(t)
  /\ UNCHANGED <<app, verified, keys>>

-----------------------------------------------------------------------------
\* submitApplication: the documents are there; was anything of it refused before?
SubmitApplication(t) ==
  /\ \E id \in Apps :
       /\ "SUBMITTED" \in Transitions[app[id].st] /\ app[id].key # NoKey
       /\ Begin(t, "s_prior", Job("submitApplication", app[id].user, id, app[id].file))
  /\ UNCHANGED <<app, verified, objects, keys>>

Rejected == {id \in Apps : app[id].st = "REJECTED"}

SubmitPrior(t) ==
  /\ pc[t] = "s_prior"
  /\ LET prior == {id \in Rejected \ {job[t].id} : app[id].user = job[t].user}
     IN Keep(t, "s_reused", [job[t] EXCEPT !.held = prior # {}])
  /\ UNCHANGED <<app, verified, objects, keys>>

\* By the file, under another account.  The purge keeps the fingerprint.
ReusedButPurged(t) ==
  {id \in Rejected : app[id].user # job[t].user /\ app[id].file = job[t].file /\ ~app[id].purged}

Reused(t) ==
  {id \in Rejected : app[id].user # job[t].user /\ app[id].file = job[t].file}

SubmitReused(t) ==
  /\ pc[t] = "s_reused"
  /\ Keep(t, "s_write", [job[t] EXCEPT !.held = @ \/ Reused(t) # {}])
  /\ UNCHANGED <<app, verified, objects, keys>>

SubmitWrite(t) ==
  /\ pc[t] = "s_write"
  /\ \/ job[t].held /\ SetStatus(job[t].id, "SUBMITTED") /\ UNCHANGED verified
     \/ /\ ~job[t].held /\ SetStatus(job[t].id, "APPROVED")
        /\ verified' = [verified EXCEPT ![job[t].user] = TRUE]
  /\ End(t)
  /\ UNCHANGED <<objects, keys>>

-----------------------------------------------------------------------------
\* The admin: opening a submitted application takes it into review.
Admin(t, op, label, From) ==
  /\ \E id \in Apps : /\ app[id].st \in From
                      /\ Begin(t, label, Job(op, app[id].user, id, app[id].file))
  /\ UNCHANGED <<app, verified, objects, keys>>

May(to) == {s \in Status : to \in Transitions[s]}

GetApplicationForAdmin(t) == Admin(t, "getApplicationForAdmin", "look", {"SUBMITTED"})
Approve(t) == Admin(t, "approve", "approve", May("APPROVED"))
Reject(t) == Admin(t, "reject", "reject", May("REJECTED"))

LookWrite(t) ==
  /\ pc[t] = "look" /\ SetStatus(job[t].id, "IN_REVIEW") /\ End(t)
  /\ UNCHANGED <<verified, objects, keys>>

ApproveWrite(t) ==
  /\ pc[t] = "approve" /\ SetStatus(job[t].id, "APPROVED") /\ End(t)
  /\ verified' = [verified EXCEPT ![job[t].user] = TRUE]
  /\ UNCHANGED <<objects, keys>>

\* kycVerified is cleared on every rejection, whatever the status was.
RejectKeepsFlag(t) ==
  /\ pc[t] = "reject" /\ SetStatus(job[t].id, "REJECTED") /\ End(t)
  /\ UNCHANGED <<verified, objects, keys>>

RejectWrite(t) ==
  /\ pc[t] = "reject" /\ SetStatus(job[t].id, "REJECTED") /\ End(t)
  /\ verified' = [verified EXCEPT ![job[t].user] = FALSE]
  /\ UNCHANGED <<objects, keys>>

-----------------------------------------------------------------------------
\* purgeOldDocuments: the object, whether or not the store does it, then the stamp.
Old == {id \in Apps : app[id].key # NoKey /\ ~app[id].purged /\ app[id].aged
                      /\ app[id].st \in Decided}

PurgeOldDocuments(t) ==
  /\ Old # {}
  /\ Begin(t, "p_del", [NoJob EXCEPT !.op = "purgeOldDocuments", !.todo = Old])
  /\ UNCHANGED <<app, verified, objects, keys>>

PurgeDelete(t) ==
  /\ pc[t] = "p_del"
  /\ \E id \in job[t].todo :
       /\ Keep(t, "p_stamp", [job[t] EXCEPT !.id = id, !.todo = @ \ {id}])
       /\ objects' \in {objects, objects \ {app[id].key}}
  /\ UNCHANGED <<app, verified, keys>>

PurgeStamp(t) ==
  /\ pc[t] = "p_stamp"
  /\ app' = [app EXCEPT ![job[t].id].purged = TRUE]
  /\ IF job[t].todo = {} THEN End(t) ELSE Go(t, "p_del")
  /\ UNCHANGED <<verified, objects, keys>>

-----------------------------------------------------------------------------
\* Ninety days pass over a decision; a request that read it is long over.
Ages ==
  /\ \A t \in Tasks : pc[t] = "idle"
  /\ \E id \in Apps : app[id].st \in Decided /\ ~app[id].aged
                      /\ app' = [app EXCEPT ![id].aged = TRUE]
  /\ UNCHANGED <<verified, objects, keys, pc, job>>

\* The process dies between two statements of a function.
Crash ==
  /\ \E t \in Tasks : pc[t] # "idle" /\ End(t)
  /\ UNCHANGED <<app, verified, objects, keys>>

Continue(t) ==
  \/ Create(t) \/ UploadPrevious(t) \/ UploadPut(t) \/ UploadRow(t) \/ UploadDelete(t)
  \/ SubmitPrior(t) \/ SubmitReused(t) \/ SubmitWrite(t)
  \/ LookWrite(t) \/ ApproveWrite(t) \/ RejectWrite(t) \/ PurgeDelete(t) \/ PurgeStamp(t)

Called(t) ==
  \/ CreateApplication(t) \/ UploadDocument(t) \/ SubmitApplication(t)
  \/ GetApplicationForAdmin(t) \/ Approve(t) \/ Reject(t) \/ PurgeOldDocuments(t)

Next == (\E t \in Tasks : Called(t) \/ Continue(t)) \/ Ages \/ Crash

Spec == Init /\ [][Next]_vars

-----------------------------------------------------------------------------
\* Until the decision the document is there to be read, whatever uploads, failed
\* calls of the store, crashes and purges have been: uploadDocument writes the row
\* after the object, and deletes what it displaced after the row.
UndecidedHasDocument ==
  \A id \in Apps : app[id].st \in Active /\ app[id].key # NoKey
                   => app[id].key \in objects /\ ~app[id].purged

\* Whoever may work as an inspector has an approved application.
VerifiedIsApproved ==
  \A u \in Users : verified[u] => \E id \in Apps : app[id].user = u /\ app[id].st = "APPROVED"

\* The machine never lets in a person who was rejected, nor a document that was
\* rejected under another account, however old and however purged.
MachineApproves(id) ==
  \E t \in Tasks : pc[t] = "s_write" /\ job[t].id = id /\ ~job[t].held /\ pc'[t] = "idle"
                  /\ app' # app
LetsNobodyBackIn ==
  \A id \in Apps : MachineApproves(id) =>
    \A r \in Rejected : app[r].user # app[id].user /\ app[r].file # app[id].file
\* ... and whoever works was approved by someone.
WorksOnApproval == LetsNobodyBackIn /\ VerifiedIsApproved'
=============================================================================
