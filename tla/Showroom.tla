------------------------------ MODULE Showroom ------------------------------
(***************************************************************************)
(* The photos of a report and the adverts made from it: the rows and objects *)
(* of the photos, the manifest that lists them, the permanent copies in the  *)
(* public bucket, and who may put an advert into the showroom.              *)
(*                                                                          *)
(* One report and one seller.  A key names a slot and a digest of its bytes; *)
(* the copy of an advert is named after the advert and the key.  Abstracted: *)
(* the order and number of the photos, the kinds that are never copied, the  *)
(* seller's own uploads (manual adverts), prices, searches, notices.  Both   *)
(* buckets are configured.                                                  *)
(***************************************************************************)
EXTENDS Naturals, FiniteSets

CONSTANTS
  Tasks,
  Ads,        \* listings; the set bounds how often the report is claimed
  Slots,      \* (kind, position) of a photo
  Shots,      \* what the bytes of a photo may be
  NoShot,     \* the slot is empty: none of Shots
  Handlers,
  Alone,      \* handlers no two of which run at the same time
  Refuses,    \* whether a call of the store may fail
  DiesAt      \* labels before which the process may die

VARIABLES
  photo,      \* ReportPhoto: the shot of each slot, or NoShot
  store,      \* keys of the private bucket
  manifest,   \* report.photosManifest
  removed,    \* report.deletedAt
  ad,         \* Listing
  public,     \* the public bucket: copies, named by advert and key
  pc, job

reportState == <<photo, store, manifest, removed>>
vars == <<reportState, ad, public, pc, job>>

HandlerNames == {"uploadPhoto", "deletePhoto", "removeReport", "create", "publish", "unpublish",
  "markSold", "remove", "adminDelete", "adminHide", "adminUnhide", "mirrorPending", "eraseMe"}

Keys == Slots \X Shots
Status == {"none", "DRAFT", "ACTIVE", "HIDDEN", "SOLD", "DELETED"}

\* claimed: reportId names the report.  stamped: publicPhotosMirroredAt is set.
\* hidden: adminHiddenAt is set.
AdRows == [st : Status, claimed : BOOLEAN, stamped : BOOLEAN, hidden : BOOLEAN]
NoAd == [st |-> "none", claimed |-> FALSE, stamped |-> FALSE, hidden |-> FALSE]

Labels == {"idle", "u_put", "u_row", "u_drop", "manifest", "stamp", "d_object", "d_row",
  "r_objects", "r_rows", "create", "publish", "unpublish", "sold", "m_read", "m_copy", "m_stamp",
  "x_keys", "x_tx", "x_sweep", "hide", "unhide", "e_tx", "e_keys", "e_sweep", "e_stamp"}

\* Locals: the handler, its advert, the key it writes and the one it displaces, the
\* copies left to make or to remove, whether one failed.
Jobs == [op : HandlerNames \cup {"none"}, ad : Ads \cup {"none"}, key : Keys \cup {<<>>},
         old : (Slots \X (Shots \cup {NoShot})) \cup {<<>>},
         todo : SUBSET (Ads \X Keys), failed : BOOLEAN]
NoJob == [op |-> "none", ad |-> "none", key |-> <<>>, old |-> <<>>,
          todo |-> {}, failed |-> FALSE]

Begin(t, label, j) ==
  /\ pc[t] = "idle" /\ j.op \in Handlers
  /\ j.op \in Alone => \A u \in Tasks : job[u].op \notin Alone
  /\ pc' = [pc EXCEPT ![t] = label]
  /\ job' = [job EXCEPT ![t] = j]

Keep(t, label, j) == pc' = [pc EXCEPT ![t] = label] /\ job' = [job EXCEPT ![t] = j]
Go(t, label) == Keep(t, label, job[t])
End(t) == Keep(t, "idle", NoJob)
Key(t) == job[t].key
Mine(t) == ad[job[t].ad]
\* What a removal whose failure nobody sees may leave.
Without(S, k) == {S \ {k}} \cup IF Refuses THEN {S} ELSE {}
CopiesOf(a) == {<<a, k>> : k \in manifest}
SetAd(t, row) == ad' = [ad EXCEPT ![job[t].ad] = row]

-----------------------------------------------------------------------------
Init ==
  /\ photo = [s \in Slots |-> NoShot] /\ store = {} /\ manifest = {} /\ removed = FALSE
  /\ ad = [a \in Ads |-> NoAd] /\ public = {}
  /\ pc = [t \in Tasks |-> "idle"] /\ job = [t \in Tasks |-> NoJob]

TypeOK ==
  /\ photo \in [Slots -> Shots \cup {NoShot}] /\ store \subseteq Keys /\ manifest \subseteq Keys
  /\ removed \in BOOLEAN
  /\ ad \in [Ads -> AdRows] /\ public \subseteq Ads \X Keys
  /\ pc \in [Tasks -> Labels] /\ job \in [Tasks -> Jobs]

-----------------------------------------------------------------------------
\* uploadPhoto: the bytes of this slot, unless they are the ones it has.
UploadPhoto(t) ==
  /\ ~removed
  /\ \E s \in Slots, x \in Shots :
       /\ photo[s] # x
       /\ Begin(t, "u_put", [NoJob EXCEPT !.op = "uploadPhoto", !.key = <<s, x>>,
                                          !.old = <<s, photo[s]>>])
  /\ UNCHANGED <<reportState, ad, public>>

\* The store refuses, and the upload ends.
UploadPutBlindly(t) ==
  /\ pc[t] = "u_put"
  /\ store' \in {store, store \cup {Key(t)}}
  /\ Go(t, "u_row")
  /\ UNCHANGED <<photo, manifest, removed, ad, public>>

UploadPut(t) ==
  /\ pc[t] = "u_put"
  /\ \/ store' = store \cup {Key(t)} /\ Go(t, "u_row")
     \/ Refuses /\ End(t) /\ UNCHANGED store
  /\ UNCHANGED <<photo, manifest, removed, ad, public>>

UploadRow(t) ==
  /\ pc[t] = "u_row"
  /\ photo' = [photo EXCEPT ![Key(t)[1]] = Key(t)[2]]
  /\ Go(t, IF job[t].old[2] = NoShot THEN "manifest" ELSE "u_drop")
  /\ UNCHANGED <<store, manifest, removed, ad, public>>

\* The displaced object, whether or not the store does it.
UploadDrop(t) ==
  /\ pc[t] = "u_drop"
  /\ store' \in Without(store, job[t].old)
  /\ Go(t, "manifest")
  /\ UNCHANGED <<photo, manifest, removed, ad, public>>

\* mirrorPhotosManifest: the manifest from the rows, then the stamp of the adverts.
WriteManifest(t) ==
  /\ pc[t] = "manifest"
  /\ manifest' = {k \in Keys : photo[k[1]] = k[2]}
  /\ Go(t, "stamp")
  /\ UNCHANGED <<photo, store, removed, ad, public>>

ClearStamp(t) ==
  /\ pc[t] = "stamp"
  /\ ad' = [a \in Ads |-> IF ad[a].claimed THEN [ad[a] EXCEPT !.stamped = FALSE] ELSE ad[a]]
  /\ End(t)
  /\ UNCHANGED <<reportState, public>>

\* deletePhoto: the object first, and its refusal ends it.
DeletePhoto(t) ==
  /\ ~removed
  /\ \E s \in Slots :
       /\ photo[s] # NoShot
       /\ Begin(t, "d_object", [NoJob EXCEPT !.op = "deletePhoto", !.key = <<s, photo[s]>>])
  /\ UNCHANGED <<reportState, ad, public>>

DeleteObject(t) ==
  /\ pc[t] = "d_object"
  /\ \/ store' = store \ {Key(t)} /\ Go(t, "d_row")
     \/ Refuses /\ End(t) /\ UNCHANGED store
  /\ UNCHANGED <<photo, manifest, removed, ad, public>>

DeleteRow(t) ==
  /\ pc[t] = "d_row"
  /\ photo' = [photo EXCEPT ![Key(t)[1]] = NoShot]
  /\ Go(t, "manifest")
  /\ UNCHANGED <<store, manifest, removed, ad, public>>

\* remove, of the report: its objects, its rows; manifest and adverts stay.
RemoveReport(t) ==
  /\ ~removed
  /\ Begin(t, "r_objects", [NoJob EXCEPT !.op = "removeReport"])
  /\ UNCHANGED <<reportState, ad, public>>

RemoveObjects(t) ==
  /\ pc[t] = "r_objects"
  /\ \/ store' = {} /\ Go(t, "r_rows")
     \/ Refuses /\ End(t) /\ UNCHANGED store
  /\ UNCHANGED <<photo, manifest, removed, ad, public>>

RemoveRows(t) ==
  /\ pc[t] = "r_rows"
  /\ photo' = [s \in Slots |-> NoShot] /\ removed' = TRUE
  /\ End(t)
  /\ UNCHANGED <<store, manifest, ad, public>>

-----------------------------------------------------------------------------
\* A handler that has read a row its guard lets it act on.
Ask(t, op, label, a) ==
  /\ Begin(t, label, [NoJob EXCEPT !.op = op, !.ad = a])
  /\ UNCHANGED <<reportState, ad, public>>

Exists(a) == ad[a].st # "none"

\* create: claims the report, which one advert at a time may (listing_report_id_key).
Create(t) == ~removed /\ \E a \in Ads : ~Exists(a) /\ Ask(t, "create", "create", a)

CreateRow(t) ==
  /\ pc[t] = "create" /\ ~Exists(job[t].ad)
  /\ IF \E a \in Ads : ad[a].claimed THEN UNCHANGED ad
     ELSE SetAd(t, [NoAd EXCEPT !.st = "DRAFT", !.claimed = TRUE])
  /\ End(t)
  /\ UNCHANGED <<reportState, public>>

\* publish: not over an admin's hide, and any status otherwise.
PublishAny(t) == \E a \in Ads : Exists(a) /\ Ask(t, "publish", "publish", a)

Publish(t) == \E a \in Ads : Exists(a) /\ ~ad[a].hidden /\ Ask(t, "publish", "publish", a)

PublishWrite(t) ==
  /\ pc[t] = "publish"
  /\ SetAd(t, [Mine(t) EXCEPT !.st = "ACTIVE"])
  /\ Go(t, "m_read")
  /\ UNCHANGED <<reportState, public>>

\* unpublish, markSold: unconditional.
Unpublish(t) == \E a \in Ads : Exists(a) /\ Ask(t, "unpublish", "unpublish", a)
MarkSold(t) == \E a \in Ads : Exists(a) /\ Ask(t, "markSold", "sold", a)

SetStatus(t, label, row) ==
  /\ pc[t] = label
  /\ SetAd(t, row) /\ End(t)
  /\ UNCHANGED <<reportState, public>>

UnpublishWrite(t) == SetStatus(t, "unpublish", [Mine(t) EXCEPT !.st = "HIDDEN"])
MarkSoldWrite(t) == SetStatus(t, "sold", [Mine(t) EXCEPT !.st = "SOLD"])

AdminHide(t) == \E a \in Ads : ad[a].st = "ACTIVE" /\ Ask(t, "adminHide", "hide", a)
AdminUnhide(t) ==
  \E a \in Ads : ad[a].st = "HIDDEN" /\ ad[a].hidden /\ Ask(t, "adminUnhide", "unhide", a)

AdminHideWrite(t) == SetStatus(t, "hide", [Mine(t) EXCEPT !.st = "HIDDEN", !.hidden = TRUE])
AdminUnhideWrite(t) == SetStatus(t, "unhide", [Mine(t) EXCEPT !.st = "ACTIVE", !.hidden = FALSE])

-----------------------------------------------------------------------------
\* mirrorShowroomPhotos, after a publication and for what the night finds pending.
MirrorPending(t) ==
  \E a \in Ads : ad[a].st = "ACTIVE" /\ ~ad[a].stamped /\ Ask(t, "mirrorPending", "m_read", a)

MirrorRead(t) ==
  /\ pc[t] = "m_read"
  /\ Keep(t, "m_copy", [job[t] EXCEPT !.todo = IF Mine(t).claimed THEN CopiesOf(job[t].ad) ELSE {}])
  /\ UNCHANGED <<reportState, ad, public>>

\* One photo: nothing to copy, copied, or the store refuses.
MirrorCopy(t) ==
  /\ pc[t] = "m_copy"
  /\ IF job[t].todo = {} THEN Go(t, "m_stamp") /\ UNCHANGED public
     ELSE \E c \in job[t].todo : LET rest == [job[t] EXCEPT !.todo = @ \ {c}] IN
       \/ c[2] \notin store /\ Keep(t, "m_copy", rest) /\ UNCHANGED public
       \/ c[2] \in store /\ Keep(t, "m_copy", rest) /\ public' = public \cup {c}
       \/ Refuses /\ Keep(t, "m_copy", [rest EXCEPT !.failed = TRUE]) /\ UNCHANGED public
  /\ UNCHANGED <<reportState, ad>>

StampAnyway(t) ==
  /\ pc[t] = "m_stamp"
  /\ SetAd(t, [Mine(t) EXCEPT !.stamped = TRUE]) /\ End(t)
  /\ UNCHANGED <<reportState, public>>

MirrorStamp(t) ==
  /\ pc[t] = "m_stamp"
  /\ SetAd(t, [Mine(t) EXCEPT !.stamped = @ \/ ~job[t].failed])
  /\ End(t)
  /\ UNCHANGED <<reportState, public>>

-----------------------------------------------------------------------------
\* deleteWithPhotos: the keys while the manifest can be reached, the row, the objects.
RemoveAd(t) == \E a \in Ads : ad[a].st \in {"DRAFT", "HIDDEN"} /\ Ask(t, "remove", "x_keys", a)
AdminDelete(t) ==
  \E a \in Ads : ad[a].st \notin {"none", "DELETED"} /\ Ask(t, "adminDelete", "x_keys", a)

\* mirroredPublicKeys: none of an advert without a stamp.
Mirrored(a) == IF ad[a].claimed /\ ad[a].stamped THEN CopiesOf(a) ELSE {}

DeleteKeys(t) ==
  /\ pc[t] = "x_keys"
  /\ Keep(t, "x_tx", [job[t] EXCEPT !.todo = Mirrored(job[t].ad)])
  /\ UNCHANGED <<reportState, ad, public>>

DeleteRowOf(t) == SetAd(t, [Mine(t) EXCEPT !.st = "DELETED", !.claimed = FALSE, !.stamped = FALSE])

DeleteTx(t) ==
  /\ pc[t] = "x_tx"
  /\ DeleteRowOf(t)
  /\ Go(t, "x_sweep")
  /\ UNCHANGED <<reportState, public>>

\* One copy, whether or not the store does it.
Sweep(t, label, Then) ==
  /\ pc[t] = label
  /\ IF job[t].todo = {} THEN Then /\ UNCHANGED public
     ELSE \E c \in job[t].todo :
       /\ public' \in Without(public, c)
       /\ Keep(t, label, [job[t] EXCEPT !.todo = @ \ {c}])
  /\ UNCHANGED <<reportState, ad>>

DeleteSweep(t) == Sweep(t, "x_sweep", End(t))

\* eraseMe, then erasePublicPhotoObjects: the seller's adverts that have a stamp.
EraseMe(t) == Begin(t, "e_tx", [NoJob EXCEPT !.op = "eraseMe"])
              /\ UNCHANGED <<reportState, ad, public>>

EraseTx(t) ==
  /\ pc[t] = "e_tx"
  /\ ad' = [a \in Ads |-> IF Exists(a) THEN [ad[a] EXCEPT !.st = "DELETED"] ELSE ad[a]]
  /\ Go(t, "e_keys")
  /\ UNCHANGED <<reportState, public>>

EraseKeys(t) ==
  /\ pc[t] = "e_keys"
  /\ Keep(t, "e_sweep", [job[t] EXCEPT !.todo = UNION {Mirrored(a) : a \in Ads}])
  /\ UNCHANGED <<reportState, ad, public>>

EraseSweep(t) == Sweep(t, "e_sweep", Go(t, "e_stamp"))

EraseStamp(t) ==
  /\ pc[t] = "e_stamp"
  /\ ad' = [a \in Ads |-> [ad[a] EXCEPT !.stamped = FALSE]]
  /\ End(t)
  /\ UNCHANGED <<reportState, public>>

-----------------------------------------------------------------------------
Die(t) ==
  /\ pc[t] \in DiesAt /\ End(t)
  /\ UNCHANGED <<reportState, ad, public>>

Called(t) ==
  \/ UploadPhoto(t) \/ DeletePhoto(t) \/ RemoveReport(t) \/ Create(t) \/ Publish(t)
  \/ Unpublish(t) \/ MarkSold(t) \/ AdminHide(t) \/ AdminUnhide(t) \/ MirrorPending(t)
  \/ RemoveAd(t) \/ AdminDelete(t) \/ EraseMe(t)

Continue(t) ==
  \/ UploadPut(t) \/ UploadRow(t) \/ UploadDrop(t) \/ WriteManifest(t) \/ ClearStamp(t)
  \/ DeleteObject(t) \/ DeleteRow(t) \/ RemoveObjects(t) \/ RemoveRows(t) \/ CreateRow(t)
  \/ PublishWrite(t) \/ UnpublishWrite(t) \/ MarkSoldWrite(t) \/ AdminHideWrite(t)
  \/ AdminUnhideWrite(t) \/ MirrorRead(t) \/ MirrorCopy(t) \/ MirrorStamp(t)
  \/ DeleteKeys(t) \/ DeleteTx(t) \/ DeleteSweep(t)
  \/ EraseTx(t) \/ EraseKeys(t) \/ EraseSweep(t) \/ EraseStamp(t)

Next == \E t \in Tasks : Called(t) \/ Continue(t) \/ Die(t)

Spec == Init /\ [][Next]_vars

-----------------------------------------------------------------------------
\* A photo the report lists can be read, whatever the store has refused and wherever
\* an upload has died: the object is there before the row, the old one goes after it.
RowHasObject ==
  \A s \in Slots : photo[s] # NoShot /\ ~removed =>
    \/ <<s, photo[s]>> \in store
    \/ \E t \in Tasks : pc[t] \in {"d_row", "r_rows"}

\* What the stamp promises the showroom: every photo it shows has its copy, however
\* photos were retaken and copies failed.  A photo without an object shows nowhere.
StampIsCopied ==
  \A a \in Ads : ad[a].st = "ACTIVE" /\ ad[a].claimed /\ ad[a].stamped =>
    \/ \A k \in manifest : <<a, k>> \in public \/ k \notin store
    \/ \E t \in Tasks : pc[t] = "stamp"

\* "An admin hide is not the seller's to undo": an advert that is hidden comes back
\* only by adminUnhide.
OnlyAdminUnhides ==
  \A a \in Ads : ad[a].hidden /\ ad[a].st # "ACTIVE" /\ ad'[a].st = "ACTIVE" =>
    \E t \in Tasks : job[t].op = "adminUnhide" /\ job[t].ad = a

\* The delete and the erasure remove the public copies: of an advert that is deleted
\* and that nobody works on none is left, when the store refused nothing.
NothingLeftPublic ==
  (\A t \in Tasks : pc[t] = "idle") =>
    \A c \in public : ad[c[1]].st # "DELETED"
=============================================================================
