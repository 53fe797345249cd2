----------------------------- MODULE Completeness -----------------------------
(***************************************************************************)
(* Whether a report documents its car: what apps of several ages collect, the   *)
(* rule each is held to, which is told from the payload alone, and the gate    *)
(* before an order that the report completes.                                *)
(*                                                                          *)
(* One report, one order, one inspector.  Abstracted: quota, file and row of the *)
(* report and their conflicts (Intake), the vocabularies but for what is older  *)
(* and newer in them, the numbers that are measured, dates, the score.         *)
(***************************************************************************)
EXTENDS Naturals, FiniteSets

CONSTANTS
  Angles, OldAngles,    \* the exterior walk of the catalog, and the walk of before
  Panels, OldPanels,    \* the stations of the paint gauge, likewise
  Corners,
  Skips,                \* what an inspector may have left out when he first files
  Cars,                 \* pairs: the car that was ordered, and the car of the report
  Overlaps              \* whether a report is synced, or its phone linked, during an attach

VARIABLES
  phone,      \* the app: its build, what has been collected, the damages noted
  filed,      \* the Report row
  status,     \* order.status
  floor,      \* minReportQualityScore
  device,     \* whose account the phone is linked to
  cars,       \* of the order and of the report
  stage, asked  \* locals of the request

completenessVars == <<phone, filed, status, floor, device, cars, stage, asked>>

\* An element is a kind of evidence, of a part of the car.
Exterior(angles) == {<<"exterior", "photo", a>> : a \in angles}
Thickness(panels) == {<<"thickness", w, p>> : w \in {"um", "photo"}, p \in panels}
Calibration == {<<"calibration", "photo", k>> : k \in {"zeroproof", "zeroproof-al"}}
Wheels == {<<"wheel", w, c>> : w \in {"photo", "treadMm", "dot", "sizeSpec"}, c \in Corners}
Interior == {<<"interior", "photo", "cabin">>}
\* damageGaps: a row of the checklist of before carries its own title; one without an id
\* cannot have a photo, so it stays incomplete.
DamageRows == {"checklist", "described", "nameless"}
DamageNeeds == [checklist |-> {"photo"}, described |-> {"text", "photo"}, nameless |-> {"id"}]
Damage(rows) == UNION {{<<"damage", w, r>> : w \in DamageNeeds[r]} : r \in rows}

\* The builds of the app, by the last of the rules each shows: the walk of eight angles, of
\* seventeen, the door sills, the cabin and the damages.  None sends its method but the
\* last; one from before the payload sends nothing.
Builds == {"flat", "eight", "seventeen", "sills", "cabin"}
Shown(build, rows) ==
  Calibration \cup Wheels
    \cup Exterior(IF build \in {"flat", "eight"} THEN OldAngles ELSE Angles)
    \cup Thickness(IF build \in {"sills", "cabin"} THEN Panels ELSE OldPanels)
    \cup IF build = "cabin" THEN Interior \cup Damage(rows) ELSE {}
Elements == Shown("cabin", DamageRows)

\* reportData, with the build it is of as history.
Payload(p) == [structured |-> p.build # "flat", has |-> p.has, rows |-> p.rows,
               method |-> p.build = "cabin", from |-> p.build]
Payloads == [structured : BOOLEAN, has : SUBSET Elements, rows : SUBSET DamageRows,
             method : BOOLEAN, from : Builds]

NoRow == [data |-> Payload([build |-> "flat", has |-> {}, rows |-> {}]), by |-> "none",
          for |-> "nothing"]
NoRequest == [op |-> "none", data |-> NoRow.data, gated |-> FALSE]

Init ==
  /\ \E b \in Builds, rows \in {{}} \cup {{r} : r \in DamageRows}, skipped \in Skips :
       /\ skipped \subseteq IF rows = {} THEN Shown(b, {}) ELSE Damage(rows)
       /\ phone = [build |-> b, has |-> Shown(b, rows) \ (skipped \cup Damage({"nameless"})),
                   rows |-> rows]
  /\ filed = NoRow /\ status = "IN_PROGRESS" /\ floor = 85 /\ device = "mine"
  /\ cars \in Cars
  /\ stage = "idle" /\ asked = NoRequest

TypeOK ==
  /\ phone.build \in Builds /\ phone.has \subseteq Elements /\ phone.rows \subseteq DamageRows
  /\ filed.by \in {"none", "mine", "other"} /\ filed.for \in {"nothing", "itself", "order"}
  /\ filed.data.has \subseteq Elements
  /\ status \in {"IN_PROGRESS", "SUBMITTED", "CANCELLED"}
  /\ floor \in {0, 85} /\ device \in {"none", "mine", "other"} /\ cars \in Cars
  /\ stage \in {"idle", "gate", "link", "write"}
  /\ asked.op \in {"none", "create", "attach"}

-----------------------------------------------------------------------------
\* resolveRequiredAngles, resolveRequiredPanels: a payload that shows anything the older
\* list does not have is of the present one, and so is one that lacks some of the older.
ResolveByCover(current, old, seen) ==
  IF old \subseteq seen THEN old ELSE current
Resolve(current, old, seen) ==
  IF seen \cap (current \ old) = {} /\ old \subseteq seen THEN old ELSE current

Captured(d) == {a \in Angles : <<"exterior", "photo", a>> \in d.has}
Mentioned(d) == {p \in Panels : Thickness({p}) \cap d.has # {}}

\* evaluateCompleteness: what is missing of a payload.
MissingAlways(d) ==
  (Exterior(Resolve(Angles, OldAngles, Captured(d)))
     \cup Thickness(Resolve(Panels, OldPanels, Mentioned(d)))
     \cup Calibration \cup Wheels \cup Interior \cup Damage(d.rows)) \ d.has
Missing(d) ==
  (Exterior(Resolve(Angles, OldAngles, Captured(d)))
     \cup Thickness(Resolve(Panels, OldPanels, Mentioned(d)))
     \cup Calibration \cup Wheels
     \cup IF d.method THEN Interior \cup Damage(d.rows) ELSE {}) \ d.has

\* reportVehicleMatchesOrder: two numbers decide; otherwise nothing that both say differs.
\* A name of spaces says nothing, and case and spaces make no difference.
Normalize(v) == CASE v \in {"none", " "} -> "" [] v = "golf" -> "GOLF" [] OTHER -> v
AsWritten(v) == IF v = "none" THEN "" ELSE v
Both(field, norm(_)) ==
  norm(cars.ordered[field]) # "" /\ norm(cars.found[field]) # ""
Same(field, norm(_)) == norm(cars.ordered[field]) = norm(cars.found[field])
VehicleMatchesAsWritten ==
  IF Both("vin", AsWritten) THEN Same("vin", AsWritten)
  ELSE \A f \in {"make", "model"} : Both(f, AsWritten) => Same(f, AsWritten)
VehicleMatches ==
  IF Both("vin", Normalize) THEN Same("vin", Normalize)
  ELSE \A f \in {"make", "model"} : Both(f, Normalize) => Same(f, Normalize)

-----------------------------------------------------------------------------
\* The app, between its requests: another element, an update of the app itself.
Collect ==
  /\ stage = "idle" /\ filed.for # "order"
  /\ \/ \E e \in Shown(phone.build, phone.rows) \ phone.has :
          e[2] # "id" /\ phone' = [phone EXCEPT !.has = @ \cup {e}]
     \/ phone.build \notin {"flat", "cabin"} /\ phone' = [phone EXCEPT !.build = "cabin"]
  /\ UNCHANGED <<filed, status, floor, device, cars, stage, asked>>

\* create for no order, which is not gated, and update or recreate, which never are.
Create ==
  /\ stage = "idle" /\ filed.for = "nothing"
  /\ filed' = [NoRow EXCEPT !.data = Payload(phone), !.for = "itself"]
  /\ UNCHANGED <<phone, status, floor, device, cars, stage, asked>>
Update ==
  /\ filed.for # "nothing" /\ (stage = "idle" \/ Overlaps)
  /\ filed' = [filed EXCEPT !.data = Payload(phone)]
  /\ UNCHANGED <<phone, status, floor, device, cars, stage, asked>>

Ask(op, data, at) ==
  /\ stage' = at
  /\ asked' = [op |-> op, data |-> data, gated |-> FALSE]
\* create for an order: assertOrderSubmitter, the phone must be linked to its inspector.
CreateForOrder ==
  /\ stage = "idle" /\ filed.for = "nothing"
  /\ device = "mine" /\ Ask("create", Payload(phone), "gate")
  /\ UNCHANGED <<phone, filed, status, floor, device, cars>>

\* attachReportByCode, its reads of the order and of the report.
AttachReportByCode ==
  /\ stage = "idle" /\ filed.for = "itself" /\ status = "IN_PROGRESS"
  /\ filed.by # "other" /\ VehicleMatches /\ Ask("attach", filed.data, "gate")
  /\ UNCHANGED <<phone, filed, status, floor, device, cars>>

\* assertReportComplete: a floor of nothing turns the gate off.
Refused == stage' = "idle" /\ asked' = NoRequest
Passes(gated) ==
  /\ stage' = IF asked.op = "attach" THEN "link" ELSE "write"
  /\ asked' = [asked EXCEPT !.gated = gated]
AssertUnlessIncomplete ==
  /\ stage = "gate"
  /\ IF floor # 0 /\ asked.data.structured /\ Missing(asked.data) # {}
     THEN Refused ELSE Passes(floor # 0)
  /\ UNCHANGED <<phone, filed, status, floor, device, cars>>
AssertReportComplete ==
  /\ stage = "gate"
  /\ IF floor # 0 /\ (~asked.data.structured \/ Missing(asked.data) # {})
     THEN Refused ELSE Passes(floor # 0)
  /\ UNCHANGED <<phone, filed, status, floor, device, cars>>

\* attachReportByCode: the phone may be linked to nobody, but to nobody else.
AttachLink ==
  /\ stage = "link"
  /\ IF device = "other" THEN Refused ELSE stage' = "write" /\ UNCHANGED asked
  /\ UNCHANGED <<phone, filed, status, floor, device, cars>>

\* The row comes to be of the order, which is submitted if it can be.
Write ==
  /\ stage = "write"
  /\ filed' = IF asked.op = "create"
              THEN [data |-> asked.data, by |-> "none", for |-> "order"]
              ELSE [filed EXCEPT !.for = "order", !.by = "mine"]
  /\ status' = IF status = "IN_PROGRESS" THEN "SUBMITTED" ELSE status
  /\ Refused
  /\ UNCHANGED <<phone, floor, device, cars>>

\* Others, one of them a behaviour: the admin's lever, the link of the phone, which takes
\* the reports that are nobody's, the sweep.
Elsewhere ==
  /\ floor = 85 /\ device = "mine" /\ status = "IN_PROGRESS"
  /\ \/ stage = "gate" /\ floor' = 0 /\ UNCHANGED <<filed, status, device>>
     \/ /\ stage = "idle" \/ Overlaps
        /\ device' \in {"none", "other"}
        /\ filed' = IF device' = "other" /\ filed.for # "nothing" /\ filed.by = "none"
                    THEN [filed EXCEPT !.by = "other"] ELSE filed
        /\ UNCHANGED <<floor, status>>
     \/ stage = "write" /\ status' = "CANCELLED" /\ UNCHANGED <<filed, floor, device>>
  /\ UNCHANGED <<phone, cars, stage, asked>>

Next ==
  \/ Collect \/ Create \/ Update \/ CreateForOrder \/ AttachReportByCode
  \/ AssertReportComplete \/ AttachLink \/ Write \/ Elsewhere

Spec == Init /\ [][Next]_completenessVars

-----------------------------------------------------------------------------
\* What the newest rule that a payload shows any knowledge of asks for: an inspector who
\* has taken one of the newer shots is held to all of them.
Whole(d) ==
  /\ d.structured /\ Calibration \cup Wheels \subseteq d.has
  /\ LET angles == IF Captured(d) \subseteq OldAngles THEN OldAngles ELSE Angles
         panels == IF Mentioned(d) \subseteq OldPanels THEN OldPanels ELSE Panels
     IN Exterior(angles) \cup Thickness(panels) \subseteq d.has
  /\ d.method => Interior \cup Damage(d.rows) \subseteq d.has

\* The step that submits an order finds the report in the store whole, if the gate was on,
\* of the car that was ordered, as far as both say which, when it came by its code, and of
\* nobody else: the payload that is judged is the one that is stored, though it is judged
\* some reads before.
SubmittedIsWhole ==
  status = "IN_PROGRESS" /\ status' = "SUBMITTED" =>
    /\ asked.gated => Whole(filed'.data)
    /\ asked.op = "attach" =>
         /\ filed.by # "other"
         /\ \A f \in {"vin", "make", "model"} :
              (f = "vin" \/ ~Both("vin", Normalize)) /\ Both(f, Normalize) => Same(f, Normalize)

\* Nobody is sent back to a car for what the app never asked: a report that is refused
\* lacks something its own build shows, or has no payload to judge.
RefusedForWhatWasShown ==
  stage = "gate" /\ stage' = "idle" =>
    \/ ~asked.data.structured
    \/ \E e \in Shown(asked.data.from, asked.data.rows) : e \notin asked.data.has

JudgedByItsRules == SubmittedIsWhole /\ RefusedForWhatWasShown
=============================================================================
