------------------------------- MODULE Manifest --------------------------------
(*******************************************************************************)
(* Which photos of a report its advert shows, in which order, and from where:  *)
(* the manifest of the report, the subset of it that is copied into the public *)
(* bucket, the pages that recompute it, and what an erasure sweeps.            *)
(*                                                                             *)
(* Showroom has the steps of all this and their overlaps; here each handler is *)
(* one step, and the manifest is a sequence.  Abstracted: the catalog, but for *)
(* one angle of each group; the keys of the copies, which are made of those of *)
(* the originals.  The public bucket is configured.                            *)
(*******************************************************************************)
EXTENDS Naturals, Sequences, FiniteSets, SequencesExt

CONSTANTS
  MaxShown,   \* MAX_LISTING_PHOTOS
  OnCard,     \* how many photos a card of the showroom asks for
  MaxShots    \* bound: how many photos the report has had

VARIABLES
  manifest,   \* report.photosManifest
  copied,     \* keys of the originals whose copy is in the public bucket
  older,      \* those that a build has copied which knew no ban
  marked,     \* listing.publicPhotosMirroredAt is set
  claimed,    \* listing.reportId names the report
  seen        \* what the last page has shown

manifestVars == <<manifest, copied, older, marked, claimed, seen>>

\* photoSortRank, of the kinds in the order of their names; "none" is a kind nobody knows.
Kinds == <<"damage-1", "exterior-front", "none", "passport", "passport-2", "wheel-fl">>
Rank(k) == CASE k = "exterior-front" -> 0 [] k = "wheel-fl" -> 1000
             [] k = "damage-1" -> 4005 [] OTHER -> 4100
Name(k) == CHOOSE n \in DOMAIN Kinds : Kinds[n] = k

BannedExactly == {"passport"}
Banned == {"passport", "passport-2"}

\* comparePhotoKinds, and of those that are alike the one that comes first in the manifest.
Before(m, i, j) ==
  LET a == m[i].kind  b == m[j].kind IN
  \/ Rank(a) < Rank(b)
  \/ Rank(a) = Rank(b) /\ Name(a) < Name(b)
  \/ a = b /\ i < j
First(s, n) == SubSeq(s, 1, IF n < Len(s) THEN n ELSE Len(s))

\* The photos of m at some of its places, in that order, each after those before it.
PlaceOf(m, places, i) == 1 + Cardinality({j \in places : Before(m, j, i)})
Sorted(m, places) ==
  [n \in 1 .. Cardinality(places) |-> m[CHOOSE i \in places : PlaceOf(m, places, i) = n]]

\* manifestPhotoRefs: without what names no object, without the kinds that are never public
\* unless they are asked for, in order, and then no more than so many.
Usable(m, banned) == {i \in DOMAIN m : m[i].key # 0 /\ (banned \/ m[i].kind \notin Banned)}
RefsOfTheFirst(m, limit, banned) ==
  LET some == First(m, limit) IN Sorted(some, Usable(some, banned))
Refs(m, limit, banned) == First(Sorted(m, Usable(m, banned)), limit)
KeysOf(refs) == {e.key : e \in ToSet(refs)}
All(m) == Len(m)

Entries == [key : 0 .. MaxShots, kind : ToSet(Kinds)]
NoPage == [full |-> FALSE, public |-> FALSE, photos |-> <<>>, cover |-> 0]
Used == KeysOf(manifest) \cup copied

-----------------------------------------------------------------------------
\* A report as an older build has left it: unsorted, with an entry that names no object, and
\* with copies of whatever it has; the stamp was cleared since.
Init ==
  /\ manifest \in {<<>>, <<[key |-> 1, kind |-> "damage-1"], [key |-> 2, kind |-> "exterior-front"]>>,
                   <<[key |-> 0, kind |-> "none"], [key |-> 1, kind |-> "passport"],
                     [key |-> 2, kind |-> "passport-2"]>>}
  /\ older \in SUBSET (KeysOf(manifest) \ {0}) /\ copied = older
  /\ marked = FALSE /\ claimed = TRUE /\ seen = NoPage

TypeOK ==
  /\ ToSet(manifest) \subseteq Entries /\ older \cup copied \subseteq 1 .. MaxShots
  /\ marked \in BOOLEAN /\ claimed \in BOOLEAN
  /\ seen.full \in BOOLEAN /\ seen.public \in BOOLEAN /\ ToSet(seen.photos) \subseteq Entries

\* mirrorPhotosManifest, after a photo is uploaded, taken again or deleted: the manifest is
\* sorted, and the stamp is gone.  A photo that is taken again has another key, and one
\* without a key is not in it.
RewriteKeepsStamp(rows) == manifest' = Sorted(rows, Usable(rows, TRUE)) /\ UNCHANGED marked
Rewrite(rows) == manifest' = Sorted(rows, Usable(rows, TRUE)) /\ marked' = FALSE
PhotosChange ==
  /\ \/ \E k \in ToSet(Kinds), n \in 1 .. MaxShots :
          /\ n \notin Used \cup older /\ \A i \in 1 .. n - 1 : i \in Used \cup older
          /\ \/ Rewrite(Append(manifest, [key |-> n, kind |-> k]))
             \/ \E i \in Usable(manifest, TRUE) :
                  manifest[i].kind = k /\ Rewrite([manifest EXCEPT ![i].key = n])
     \/ \E i \in DOMAIN manifest : Rewrite([manifest EXCEPT ![i].key = 0])
  /\ seen' = NoPage /\ UNCHANGED <<copied, older, claimed>>

\* mirrorShowroomPhotos: any of the copies may fail, and then the stamp is not set.
StampAnyway(failed) == marked' = TRUE
Stamp(failed) == marked' = IF failed = {} THEN TRUE ELSE marked
MirrorPhotos ==
  /\ claimed
  /\ LET subset == KeysOf(Refs(manifest, MaxShown, FALSE)) IN
     \E failed \in SUBSET subset :
       copied' = copied \cup (subset \ failed) /\ Stamp(failed)
  /\ seen' = NoPage /\ UNCHANGED <<manifest, older, claimed>>

\* listingPhotos, reportPhotos: the copies once there is a stamp, and signed URLs until then.
\* Without a report the advert has a gallery of its own (Gallery), which is empty here.
ListingPhotos(limit) ==
  IF claimed THEN Refs(manifest, limit, FALSE) ELSE <<>>
CoverPhotoUrl ==
  IF claimed /\ Refs(manifest, 1, FALSE) # <<>> THEN Refs(manifest, 1, FALSE)[1].key ELSE 0
Show ==
  /\ \E limit \in {OnCard, MaxShown} :
       seen' = [full |-> FALSE, public |-> marked, photos |-> ListingPhotos(limit),
                cover |-> CoverPhotoUrl]
  /\ UNCHANGED <<manifest, copied, older, marked, claimed>>

\* reportFull: all of them, signed, for as long as they are good.
ReportFull ==
  /\ claimed
  /\ seen' = [full |-> TRUE, public |-> FALSE, cover |-> 0,
              photos |-> Refs(manifest, All(manifest), TRUE)]
  /\ UNCHANGED <<manifest, copied, older, marked, claimed>>

\* What a build may have copied under any rule.
SweptKeysShown(m) == KeysOf(Refs(m, MaxShown, FALSE))
SweptKeys(m) == KeysOf(Refs(m, All(m), TRUE))

\* erasePublicPhotoObjects of an advert with a stamp, and mirroredPublicKeys before the
\* advert is deleted and lets the report go.
Erase ==
  /\ claimed /\ marked
  /\ copied' = copied \ SweptKeys(manifest) /\ marked' = FALSE
  /\ claimed' \in {TRUE, FALSE}
  /\ seen' = NoPage /\ UNCHANGED <<manifest, older>>

Next == PhotosChange \/ MirrorPhotos \/ Show \/ ReportFull \/ Erase
Spec == Init /\ [][Next]_manifestVars

-----------------------------------------------------------------------------
KindOf(k) == {e.kind : e \in {x \in ToSet(manifest) : x.key = k}}

\* The registration document of a car, with the name and the address of its owner, is not
\* copied to where it has a permanent URL, whatever number its page has, and no card shows it.
NoPapersInPublic ==
  /\ \A k \in copied \ older : KindOf(k) \cap {"passport", "passport-2"} = {}
  /\ ~seen.full => \A e \in ToSet(seen.photos) : e.kind \notin {"passport", "passport-2"}

\* A page that shows copies shows those that were made: the two sides, which share no list,
\* agree on which they are, after a photo was taken again or a copy has failed.
ShownIsCopied == seen.public => KeysOf(seen.photos) \subseteq copied

\* A car with a photo of its outside is shown by it first, on the card, on its page and in the
\* seller's own list, however many close-ups of its damages there are.
OpensOnTheCar ==
  LET outside == {e.key : e \in {x \in ToSet(manifest) : x.key # 0 /\ x.kind = "exterior-front"}}
  IN seen.photos # <<>> =>
       /\ outside # {} => seen.photos[1].key \in outside
       /\ ~seen.full => seen.cover = seen.photos[1].key

ManifestHolds == NoPapersInPublic /\ ShownIsCopied /\ OpensOnTheCar

\* An erasure leaves no copy of a photo that the report has, of those either that a build
\* has copied which had another limit or no ban.
ErasedIsSwept ==
  claimed /\ marked /\ ~marked' /\ manifest' = manifest =>
    copied' \cap KeysOf(manifest) = {}
=============================================================================
