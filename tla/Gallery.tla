-------------------------------- MODULE Gallery --------------------------------
(***************************************************************************)
(* The photos that a seller uploads for one advert: their rows, their order,   *)
(* and their objects, which are in the private bucket until there is a public  *)
(* one, and are promoted to it afterwards.                                  *)
(*                                                                          *)
(* A key is as fresh as the UUID in it.  Abstracted: the picture but for its    *)
(* digest, whose advert it is (any other caller is refused before anything is   *)
(* read), captions, and what the advert shows besides (Showroom, Manifest).     *)
(***************************************************************************)
EXTENDS Naturals, FiniteSetsExt

CONSTANTS
  Tasks, Pictures, Handlers,
  Together,   \* pairs of handlers that do not overlap; a singleton is one with itself
  MaxPhotos,  \* MAX_LISTING_PHOTOS
  MaxUploads, \* bound: how many keys are made
  Fails       \* the calls of the store that may fail: "put", "delete"

VARIABLES
  photos,     \* ListingPhoto: the rows
  store, cdn, \* keys in the private bucket, and in the public one
  wired,      \* isPublicBucketConfigured
  gone,       \* the advert is DELETED
  uploads,    \* keys made so far
  pc, job

galleryVars == <<photos, store, cdn, wired, gone, uploads, pc, job>>

HandlerNames == {"addPhoto", "deletePhoto", "reorderPhotos", "remove", "mirror"}
Labels == {"idle", "a_put", "a_row", "d_object", "d_row", "o_write", "r_rows", "r_objects",
           "m_copy", "m_row"}

\* Locals: the handler, the key and digest it handles, where it put or found the object, the
\* keys it has read, in the order asked for, and the objects left to handle.
Places == {"private", "public"}
Job(op, key, hash) ==
  [op |-> op, key |-> key, hash |-> hash, at |-> "private", ids |-> <<>>, todo |-> {}]
NoJob == Job("none", 0, "none")

KeysIn(rows) == {r.key : r \in rows}
Keys == KeysIn(photos)
Orders == {r.order : r \in photos}
Without(rows, keys) == {r \in rows : r.key \notin keys}

\* photoLocation: the row names the bucket, if there is one to name.
LocationIsPrivate(r) == "private"
Location(r) == IF r.at = "public" /\ wired THEN "public" ELSE "private"

Begin(t, label, j) ==
  /\ pc[t] = "idle" /\ j.op \in Handlers
  /\ \A u \in Tasks : pc[u] # "idle" => {j.op, job[u].op} \notin Together
  /\ pc' = [pc EXCEPT ![t] = label] /\ job' = [job EXCEPT ![t] = j]
Keep(t, label, j) == pc' = [pc EXCEPT ![t] = label] /\ job' = [job EXCEPT ![t] = j]
Go(t, label) == Keep(t, label, job[t])
End(t) == Keep(t, "idle", NoJob)

\* deleteObject, publicDeleteObject, with a failure that nobody sees.
Gone(keys, at) ==
  \/ /\ store' = IF at = "private" THEN store \ keys ELSE store
     /\ cdn' = IF at = "public" THEN cdn \ keys ELSE cdn
  \/ "delete" \in Fails /\ UNCHANGED <<store, cdn>>

-----------------------------------------------------------------------------
Init ==
  /\ photos = {} /\ store = {} /\ cdn = {} /\ wired \in BOOLEAN /\ gone = FALSE
  /\ uploads = 0
  /\ pc = [t \in Tasks |-> "idle"] /\ job = [t \in Tasks |-> NoJob]

TypeOK ==
  /\ \A r \in photos : /\ r.key \in 1 .. MaxUploads /\ r.at \in Places
                        /\ r.hash \in Pictures /\ r.order \in Nat
  /\ store \cup cdn \subseteq 1 .. MaxUploads /\ uploads \in 0 .. MaxUploads
  /\ wired \in BOOLEAN /\ gone \in BOOLEAN
  /\ \A t \in Tasks : /\ pc[t] \in Labels /\ job[t].at \in Places
                      /\ job[t].op \in HandlerNames \cup {"none"}

\* The public bucket is configured, with the next deploy.
Wire ==
  /\ ~wired /\ wired' = TRUE /\ \A t \in Tasks : pc[t] = "idle"
  /\ UNCHANGED <<photos, store, cdn, gone, uploads, pc, job>>

\* addPhoto: not more than so many, and not the same bytes again.  Nothing asks whether the
\* advert is DELETED.
AddOneTooMany(t) ==
  /\ uploads < MaxUploads /\ Cardinality(photos) <= MaxPhotos
  /\ \E p \in Pictures :
       /\ p \notin {r.hash : r \in photos}
       /\ Begin(t, "a_put", Job("addPhoto", uploads + 1, p))
  /\ uploads' = uploads + 1
  /\ UNCHANGED <<photos, store, cdn, wired, gone>>
AddPhoto(t) ==
  /\ uploads < MaxUploads /\ Cardinality(photos) < MaxPhotos
  /\ \E p \in Pictures :
       /\ p \notin {r.hash : r \in photos}
       /\ Begin(t, "a_put", Job("addPhoto", uploads + 1, p))
  /\ uploads' = uploads + 1
  /\ UNCHANGED <<photos, store, cdn, wired, gone>>

\* The object goes first, to the public bucket if there is one; if it fails, the upload ends.
PutBlindly(t) ==
  /\ pc[t] = "a_put"
  /\ store' \in {store, IF wired THEN store ELSE store \cup {job[t].key}}
  /\ cdn' \in {cdn, IF wired THEN cdn \cup {job[t].key} ELSE cdn}
  /\ Keep(t, "a_row", [job[t] EXCEPT !.at = IF wired THEN "public" ELSE "private"])
  /\ UNCHANGED <<photos, wired, gone, uploads>>
PutObject(t) ==
  /\ pc[t] = "a_put"
  /\ LET at == IF wired THEN "public" ELSE "private" IN
     \/ /\ store' = IF wired THEN store ELSE store \cup {job[t].key}
        /\ cdn' = IF wired THEN cdn \cup {job[t].key} ELSE cdn
        /\ Keep(t, "a_row", [job[t] EXCEPT !.at = at])
     \/ "put" \in Fails /\ End(t) /\ UNCHANGED <<store, cdn>>
  /\ UNCHANGED <<photos, wired, gone, uploads>>

\* The row, at the place that was asked for, or else after the highest.
CreateRow(t) ==
  /\ pc[t] = "a_row"
  /\ \E order \in {0, IF Orders = {} THEN 0 ELSE Max(Orders) + 1} :
       photos' = photos \cup {[key |-> job[t].key, at |-> job[t].at,
                               hash |-> job[t].hash, order |-> order]}
  /\ End(t)
  /\ UNCHANGED <<store, cdn, wired, gone, uploads>>

\* deletePhoto: the object of the row as it was read, and then the row.  The object that a
\* promotion has copied stays in the private bucket.
DeletePhoto(t) ==
  /\ \E r \in photos :
       Begin(t, "d_object", [Job("deletePhoto", r.key, r.hash) EXCEPT !.at = Location(r)])
  /\ UNCHANGED <<photos, store, cdn, wired, gone, uploads>>
DeleteObject(t) ==
  /\ pc[t] = "d_object" /\ Gone({job[t].key}, job[t].at) /\ Go(t, "d_row")
  /\ UNCHANGED <<photos, wired, gone, uploads>>
DeleteRow(t) ==
  /\ pc[t] = "d_row" /\ photos' = Without(photos, {job[t].key}) /\ End(t)
  /\ UNCHANGED <<store, cdn, wired, gone, uploads>>

\* reorderPhotos: every photo of the gallery once, or a refusal.
NamesSome(ids) == Range(ids) \subseteq Keys /\ IsInjective(ids)
NamesAll(ids) == Range(ids) = Keys /\ IsInjective(ids)
ReorderPhotos(t) ==
  /\ \E ids \in UNION {[1 .. n -> Keys] : n \in 1 .. Cardinality(photos)} :
       /\ NamesAll(ids)
       /\ Begin(t, "o_write", [Job("reorderPhotos", 0, "none") EXCEPT
                                 !.ids = ids, !.todo = Keys])
  /\ UNCHANGED <<photos, store, cdn, wired, gone, uploads>>

\* One transaction: a row that has gone meanwhile undoes all of it.
PlaceOf(ids, k) == (CHOOSE i \in DOMAIN ids : ids[i] = k) - 1
WritePlaces(t) ==
  /\ pc[t] = "o_write"
  /\ LET ids == job[t].ids IN
     photos' = IF Range(ids) \subseteq Keys
               THEN {IF r.key \in Range(ids) THEN [r EXCEPT !.order = PlaceOf(ids, r.key)] ELSE r :
                       r \in photos}
               ELSE photos
  /\ End(t)
  /\ UNCHANGED <<store, cdn, wired, gone, uploads>>

\* deleteWithPhotos, for the seller or an admin: the rows as they are read, one transaction
\* that deletes them and the advert, and the objects of the rows that were read.
DeleteWithPhotos(t) ==
  /\ ~gone
  /\ Begin(t, "r_rows", [Job("remove", 0, "none") EXCEPT !.todo = photos])
  /\ UNCHANGED <<photos, store, cdn, wired, gone, uploads>>
DeleteRows(t) ==
  /\ pc[t] = "r_rows" /\ photos' = {} /\ gone' = TRUE /\ Go(t, "r_objects")
  /\ UNCHANGED <<store, cdn, wired, uploads>>
DeleteObjects(t) ==
  /\ pc[t] = "r_objects"
  /\ \/ job[t].todo = {} /\ End(t) /\ UNCHANGED <<store, cdn>>
     \/ \E r \in job[t].todo :
          /\ Gone({r.key}, Location(r))
          /\ Keep(t, "r_objects", [job[t] EXCEPT !.todo = @ \ {r}])
  /\ UNCHANGED <<photos, wired, gone, uploads>>

\* mirrorShowroomPhotos: the rows without a bucket, one after the other; the original stays.
MirrorShowroomPhotos(t) ==
  /\ wired /\ ~gone
  /\ \E r \in photos : r.at = "private"
  /\ Begin(t, "m_copy", [Job("mirror", 0, "none") EXCEPT
                           !.todo = {r \in photos : r.at = "private"}])
  /\ UNCHANGED <<photos, store, cdn, wired, gone, uploads>>
CopyOut(t) ==
  /\ pc[t] = "m_copy"
  /\ \/ job[t].todo = {} /\ End(t) /\ UNCHANGED cdn
     \/ \E r \in job[t].todo :
          LET left == [job[t] EXCEPT !.todo = @ \ {r}] IN
          \/ /\ r.key \in store /\ cdn' = cdn \cup {r.key}
             /\ Keep(t, "m_row", [left EXCEPT !.key = r.key])
          \/ /\ r.key \notin store \/ "put" \in Fails
             /\ Keep(t, "m_copy", left) /\ UNCHANGED cdn
  /\ UNCHANGED <<photos, store, wired, gone, uploads>>
RowIsPublic(t) ==
  /\ pc[t] = "m_row"
  /\ photos' = {IF r.key = job[t].key THEN [r EXCEPT !.at = "public"] ELSE r : r \in photos}
  /\ Go(t, "m_copy")
  /\ UNCHANGED <<store, cdn, wired, gone, uploads>>

Next ==
  \/ Wire
  \/ \E t \in Tasks :
       \/ AddPhoto(t) \/ PutObject(t) \/ CreateRow(t)
       \/ DeletePhoto(t) \/ DeleteObject(t) \/ DeleteRow(t)
       \/ ReorderPhotos(t) \/ WritePlaces(t)
       \/ DeleteWithPhotos(t) \/ DeleteRows(t) \/ DeleteObjects(t)
       \/ MirrorShowroomPhotos(t) \/ CopyOut(t) \/ RowIsPublic(t)

Spec == Init /\ [][Next]_galleryVars

-----------------------------------------------------------------------------
BeingDeleted == {job[t].key : t \in {u \in Tasks : job[u].op = "deletePhoto"}}
InFlight == {job[t].key : t \in {u \in Tasks : pc[u] # "idle"}}
              \cup UNION {KeysIn({x \in job[t].todo : pc[t] = "r_objects"}) :
                            t \in {u \in Tasks : job[u].op = "remove"}}

\* A row names an object that is there, in the bucket it names, until the seller deletes it.
RowHasObject ==
  \A r \in photos :
    r.key \in BeingDeleted \/ r.key \in (IF r.at = "public" THEN cdn ELSE store)

\* What anybody may fetch for ever is a photo of the gallery, or about to be: whatever was
\* uploaded before there was a public bucket, promoted, deleted or removed with its advert.
PublicIsNamed == cdn \subseteq KeysIn({r \in photos : r.at = "public"}) \cup InFlight

\* The gallery is not too large, and shows nothing twice.
FitsTheCap ==
  /\ Cardinality(photos) <= MaxPhotos
  /\ \A r, q \in photos : r.hash = q.hash => r = q

GalleryHolds == RowHasObject /\ PublicIsNamed /\ FitsTheCap

\* A reorder that is done leaves every photo it was about at a place of its own; what was
\* uploaded since it was asked for does not come between them.
ReorderIsWhole ==
  \A t \in Tasks : pc[t] = "o_write" /\ photos' # photos /\ pc'[t] = "idle" =>
    \A r, q \in photos' :
      {r.key, q.key} \subseteq job[t].todo /\ r.order = q.order => r = q
=============================================================================
