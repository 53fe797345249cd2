--------------------------------- MODULE Boot ---------------------------------
(***************************************************************************)
(* A deployment: the settings are validated, the storage clients are made from  *)
(* them, the self-check asks everything it depends on, and the process serves    *)
(* or does not.  The documents of identity it stores outlive it: the next one    *)
(* may run with other settings.                                              *)
(*                                                                          *)
(* One action is one check of the boot or one call of the object store.         *)
(* Abstracted: a setting is told by what its value does, not by its text; the    *)
(* many variables whose absence is only reported are one.                      *)
(***************************************************************************)
EXTENDS Naturals, FiniteSets

CONSTANTS
  Deployments,   \* the settings that may be deployed
  MaxBoots, MaxScans

VARIABLES
  env,        \* the settings of the process
  at,         \* how far its boot has come
  wired,      \* R2Service: the buckets of the documents and of the public photos
  silent,     \* who did not answer the self-check
  raw,        \* findings, with the severity of a strict production boot
  report,     \* StartupCheckReport.status
  scans,      \* objects of identity documents: where they are, and what their row says
  boots

bootVars == <<env, at, wired, silent, raw, report, scans, boots>>

Reports == "reports"      \* the bucket of the report PDFs
Off == ""
Shared == Off             \* KycDocument.bucket IS NULL: the bucket of the reports
Severities == {"ok", "info", "warn", "error", "fatal"}
Ids == {"hygiene", "missing", "cors", "reports", "kyc", "pepper", "public", "stripe", "mapbox",
        "iap"}
Stages == {"off", "joi", "clients", "hygiene", "cors", "reports", "kyc", "pepper", "public",
           "stripe", "mapbox", "iap", "end", "up", "refused"}

\* at: where an object is.  row: the bucket its row names.  kept: that row is there still.
\* apart: when it was stored, a production boot had passed without a waiver.
Scan(nr, bucket, row, apart) ==
  [nr |-> nr, at |-> bucket, row |-> row, kept |-> TRUE, apart |-> apart]
NoWires == [client |-> FALSE, kyc |-> Off, dedicated |-> FALSE, public |-> Off]

\* The settings, by what their values do: buckets by name, keys by whether they are there.
AppConfig ==
  [node : {"production", "development", "test"}, strict : BOOLEAN, allowShared : BOOLEAN,
   r2 : BOOLEAN, strongSecret : BOOLEAN, retiredUrl : BOOLEAN, dirty : BOOLEAN,
   unset : BOOLEAN, https : BOOLEAN, kyc : STRING, public : STRING, pepper : BOOLEAN,
   stripe : {Off, "test", "live"}, hooks : {"none", "one", "two"},
   mapbox : {Off, "token", "revoked"}, iap : {"server", "trust", "gap"}]
ReportStatuses == {"none", "ok", "degraded", "fail"}

Init ==
  /\ env \in Deployments /\ at = "joi"
  /\ wired = NoWires /\ silent = {} /\ raw = {} /\ report = "none"
  /\ scans = {} /\ boots = 1

TypeOK ==
  /\ env \in AppConfig /\ at \in Stages
  /\ DOMAIN wired = DOMAIN NoWires /\ silent \subseteq {"reports", "kyc", "public", "stripe", "mapbox"}
  /\ raw \subseteq Ids \X Severities /\ report \in ReportStatuses
  /\ \A s \in scans : s.nr < MaxScans /\ s.kept \in BOOLEAN /\ s.apart \in BOOLEAN
  /\ boots \in 1 .. MaxBoots

Production == env.node = "production"

-----------------------------------------------------------------------------
\* envValidationSchema: what a production process does not even start without, or with.
Validate ==
  /\ at = "joi"
  /\ at' = IF Production /\ (~env.r2 \/ ~env.strongSecret \/ env.retiredUrl) THEN "refused"
           ELSE "clients"
  /\ UNCHANGED <<env, wired, silent, raw, report, scans, boots>>

\* onModuleInit of R2Service: the documents fall back to the bucket of the reports; public
\* photos have a bucket that is neither of the two, or none.
KycWire == IF env.kyc # Off THEN [kyc |-> env.kyc, dedicated |-> TRUE]
           ELSE [kyc |-> Reports, dedicated |-> FALSE]
PublicWireUnchecked == env.public
PublicWire == IF env.public \in {Reports, KycWire.kyc} THEN Off ELSE env.public
InitClients ==
  /\ at = "clients" /\ at' = "hygiene"
  /\ wired' = IF ~env.r2 THEN [NoWires EXCEPT !.kyc = Reports]
              ELSE [client |-> TRUE, kyc |-> KycWire.kyc, dedicated |-> KycWire.dedicated,
                    public |-> PublicWire]
  /\ UNCHANGED <<env, silent, raw, report, scans, boots>>

\* The checks, in their order; each has its findings, some after asking somebody, who may
\* not answer.  The network is left alone in tests.
Order == [hygiene |-> "cors", cors |-> "reports", reports |-> "kyc", kyc |-> "pepper",
          pepper |-> "public", public |-> "stripe", stripe |-> "mapbox", mapbox |-> "iap",
          iap |-> "end"]
Asks(check) ==
  /\ env.node # "test"
  /\ CASE check = "reports" -> wired.client
       [] check = "kyc" -> wired.dedicated /\ wired.kyc # Reports
       [] check = "public" -> wired.public # Off
       [] check = "stripe" -> env.stripe # Off
       [] check = "mapbox" -> env.mapbox # Off
       [] OTHER -> FALSE
InProduction(severity, otherwise) == IF Production THEN severity ELSE otherwise

CheckHygiene ==
  (IF env.dirty THEN {<<"hygiene", "fatal">>} ELSE {})
    \cup (IF env.unset THEN {<<"missing", InProduction("error", "info")>>} ELSE {})
CheckCors == {<<"cors", IF Production /\ ~env.https THEN "fatal" ELSE "info">>}
CheckReportsBucket(down) ==
  {<<"reports", IF ~wired.client \/ down THEN "fatal" ELSE "info">>}
CheckKycIfAnswers(down) ==
  {<<"kyc", IF down THEN "fatal" ELSE "info">>}
CheckKycBucket(down) ==
  {<<"kyc", IF ~wired.dedicated \/ wired.kyc = Reports
            THEN (IF env.allowShared THEN "warn" ELSE "fatal")
            ELSE IF down THEN "fatal" ELSE "info">>}
CheckPepper == {<<"pepper", IF env.pepper THEN "ok" ELSE InProduction("warn", "info")>>}
CheckPublicBucket(down) == {<<"public", IF down THEN "error" ELSE "info">>}

\* A secret for each of the two endpoints, and not the same one; a key, a live one.
CheckStripeKeyOnly(down) ==
  {<<"stripe", IF env.stripe = Off THEN InProduction("error", "info")
               ELSE IF down THEN "error" ELSE "info">>}
CheckStripe(down) ==
  (IF Production /\ env.stripe # Off /\ env.hooks # "two" THEN {<<"stripe", "error">>} ELSE {})
    \cup (IF env.stripe = Off THEN {<<"stripe", InProduction("error", "info")>>}
          ELSE IF down \/ (Production /\ env.stripe = "test" /\ env.node # "test")
               THEN {<<"stripe", "error">>} ELSE {<<"stripe", "info">>})
CheckMapbox(down) ==
  {<<"mapbox", IF env.mapbox = Off THEN InProduction("error", "info")
               ELSE IF down \/ env.mapbox = "revoked" THEN "error" ELSE "info">>}
CheckIap ==
  {<<"iap", IF env.iap = "gap" THEN "error"
            ELSE IF env.iap = "trust" /\ Production THEN "warn" ELSE "info">>}

Findings(check, down) ==
  CASE check = "hygiene" -> CheckHygiene [] check = "cors" -> CheckCors
    [] check = "reports" -> CheckReportsBucket(down) [] check = "kyc" -> CheckKycBucket(down)
    [] check = "pepper" -> CheckPepper [] check = "public" -> CheckPublicBucket(down)
    [] check = "stripe" -> CheckStripe(down) [] check = "mapbox" -> CheckMapbox(down)
    [] check = "iap" -> CheckIap

Check ==
  /\ at \in DOMAIN Order
  /\ \E down \in IF Asks(at) THEN BOOLEAN ELSE {FALSE} :
       /\ raw' = raw \cup {f \in Findings(at, down) : f[2] \notin {"ok", "info"}}
       /\ silent' = IF down THEN silent \cup {at} ELSE silent
  /\ at' = Order[at]
  /\ UNCHANGED <<env, wired, report, scans, boots>>

\* resolveSeverity: only a strict production boot is refused.
ResolveEscalating(intended) == IF intended = "error" /\ Production THEN "fatal" ELSE intended
ResolveSeverity(intended) ==
  IF intended # "fatal" THEN intended
  ELSE IF ~Production THEN "warn" ELSE IF ~env.strict THEN "error" ELSE "fatal"

OnApplicationBootstrap ==
  /\ at = "end"
  /\ LET found == {ResolveSeverity(f[2]) : f \in raw}
     IN /\ report' = IF "fatal" \in found THEN "fail" ELSE IF "error" \in found THEN "degraded"
                     ELSE "ok"
        /\ at' = IF "fatal" \in found THEN "refused" ELSE "up"
  /\ UNCHANGED <<env, wired, silent, raw, scans, boots>>

\* The operator deploys other settings.  The bucket of the documents is turned on once and
\* not renamed or turned off: what was stored before is found by its row, not by a sweep.
Deploy ==
  /\ at \in {"up", "refused"} /\ boots < MaxBoots /\ boots' = boots + 1
  /\ \E e \in Deployments :
       /\ (\E s \in scans : s.row # Shared) => e.kyc = env.kyc
       /\ env' = e
  /\ at' = "joi" /\ wired' = NoWires /\ silent' = {} /\ raw' = {} /\ report' = "none"
  /\ UNCHANGED scans

-----------------------------------------------------------------------------
\* kycPutObject: the document, and what its row is to say of the bucket.
KycPutObject ==
  /\ at = "up" /\ wired.client /\ Cardinality(scans) < MaxScans
  /\ LET apart == Production /\ env.strict /\ ~env.allowShared
         row == IF wired.dedicated THEN wired.kyc ELSE Shared
     IN scans' = scans \cup {Scan(Cardinality(scans), wired.kyc, row, apart)}
  /\ UNCHANGED <<env, at, wired, silent, raw, report, boots>>

\* resolveKycLocation.
LocateByCurrent(row) == wired.kyc
Locate(row) == IF row = Shared THEN Reports ELSE row

\* kycDeleteObject, by the row: an object that is not where the row says is not found, which
\* counts as deleted.  What is gone leaves its number behind.
Gone(s) == [s EXCEPT !.at = Off, !.kept = FALSE]
KycDeleteObject ==
  /\ at = "up" /\ wired.client
  /\ \E s \in scans :
       /\ s.kept
       /\ scans' = (scans \ {s}) \cup {IF Locate(s.row) = s.at THEN Gone(s)
                                       ELSE [s EXCEPT !.kept = FALSE]}
  /\ UNCHANGED <<env, at, wired, silent, raw, report, boots>>

\* kycDeletePrefix, of an erasure: both buckets, while there may be documents in both.
SweptCurrent == {wired.kyc}
Swept == {wired.kyc} \cup (IF wired.dedicated THEN {Reports} ELSE {})
KycDeletePrefix ==
  /\ at = "up" /\ wired.client
  /\ scans' = {IF s.at \in Swept THEN Gone(s) ELSE [s EXCEPT !.kept = FALSE] : s \in scans}
  /\ UNCHANGED <<env, at, wired, silent, raw, report, boots>>

Next ==
  \/ Validate \/ InitClients \/ Check \/ OnApplicationBootstrap \/ Deploy
  \/ KycPutObject \/ KycDeleteObject \/ KycDeletePrefix

Spec == Init /\ [][Next]_bootVars

-----------------------------------------------------------------------------
\* An identity document is never beside the report PDFs if it was stored under settings
\* that did not waive it, and nothing the process serves publicly is a bucket of either.
DocumentsApart ==
  /\ \A s \in scans : s.apart => s.at # Reports
  /\ wired.public # Off => wired.public \notin {Reports, wired.kyc}

\* Whoever is erased, and whatever document is purged, leaves no object behind, though the
\* settings have changed since it was stored; and a row that is kept finds its object.
DocumentsAreFound ==
  \A s \in scans : IF s.kept THEN Locate(s.row) = s.at ELSE s.at = Off

\* A boot is stopped by the operator's own settings or buckets, never by a third party: with
\* them in order and answering, Stripe, Mapbox and the photos may be as silent as they like.
InOrder ==
  /\ env.r2 /\ env.strongSecret /\ ~env.retiredUrl /\ ~env.dirty /\ env.https
  /\ (env.kyc \notin {Off, Reports}) \/ env.allowShared
OthersDoNotStop == at = "refused" => ~InOrder \/ silent \cap {"reports", "kyc"} # {}

\* What does not work in production is said: who runs the process reads "degraded" if no
\* money can move, a webhook endpoint refuses everything, addresses are not found or
\* bought PRO is refused.
Broken ==
  \/ env.stripe \in {Off, "test"} \/ env.hooks # "two"
  \/ env.mapbox \in {Off, "revoked"} \/ env.iap = "gap" \/ env.unset
BrokenIsSaid == at = "up" /\ Production /\ Broken => report = "degraded"
BootHolds == DocumentsApart /\ OthersDoNotStop /\ BrokenIsSaid
=============================================================================
