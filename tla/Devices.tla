------------------------------- MODULE Devices -------------------------------
(***************************************************************************)
(* A phone and the account its reports belong to: the one-time codes it shows,  *)
(* the link they make, the operator who makes or undoes it by hand, and the      *)
(* erasure of a user.                                                       *)
(*                                                                          *)
(* A task is a running request; one action is one statement of the database     *)
(* or of Redis.                                                             *)
(***************************************************************************)
EXTENDS Naturals, FiniteSets

CONSTANTS
  Tasks, Users, NoOne, Codes,
  Handlers,
  Alone      \* handlers no two of which run at the same time

HandlerNames == {"generate", "linkDeviceByCode", "adminLink", "unlinkDevice", "eraseMe"}

VARIABLES
  gone,      \* users who were erased
  link,      \* DeviceLink of the phone: its user
  owner,     \* userId of the phone's reports
  codes,     \* Redis: the link codes that lead to the phone
  used,      \* history: how often a code was taken
  pc, job

devices == <<link, owner, codes>>
vars == <<gone, devices, used, pc, job>>

Labels == {"idle", "n_del", "n_find", "n_link", "n_reports", "x_delete"}
NoJob == [op |-> "none", u |-> NoOne, k |-> NoOne]

Init ==
  /\ gone = {} /\ link = NoOne /\ owner = NoOne /\ codes = {}
  /\ used = [c \in Codes |-> 0]
  /\ pc = [t \in Tasks |-> "idle"] /\ job = [t \in Tasks |-> NoJob]

TypeOK ==
  /\ gone \subseteq Users /\ link \in Users \cup {NoOne} /\ owner \in Users \cup {NoOne}
  /\ codes \subseteq Codes /\ used \in [Codes -> 0 .. 2]
  /\ pc \in [Tasks -> Labels]
  /\ job \in [Tasks -> [op : HandlerNames \cup {"none"}, u : Users \cup {NoOne},
                        k : Codes \cup {NoOne}]]

Signed == Users \ gone

Begin(t, label, op, u, k) ==
  /\ pc[t] = "idle" /\ op \in Handlers
  /\ op \in Alone => \A s \in Tasks : job[s].op \notin Alone
  /\ pc' = [pc EXCEPT ![t] = label]
  /\ job' = [job EXCEPT ![t] = [op |-> op, u |-> u, k |-> k]]
Go(t, label) == pc' = [pc EXCEPT ![t] = label] /\ UNCHANGED job
Stop(t) == pc' = [pc EXCEPT ![t] = "idle"] /\ job' = [job EXCEPT ![t] = NoJob]

More(k) == [used EXCEPT ![k] = IF @ = 2 THEN 2 ELSE @ + 1]

-----------------------------------------------------------------------------
\* The phone asks for a code, which leads to it until it is used or ten minutes old.
Generate ==
  /\ "generate" \in Handlers
  /\ \E c \in Codes : used[c] = 0 /\ codes' = codes \cup {c}
  /\ UNCHANGED <<gone, link, owner, used, pc, job>>

CodeExpires ==
  /\ \E c \in codes : codes' = codes \ {c}
  /\ UNCHANGED <<gone, link, owner, used, pc, job>>

LinkDeviceByCode(t) ==
  /\ \E u \in Signed, c \in codes : Begin(t, "n_del", "linkDeviceByCode", u, c)
  /\ UNCHANGED <<gone, devices, used>>

KeepCode(t) ==
  /\ pc[t] = "n_del"
  /\ used' = More(job[t].k)
  /\ Go(t, "n_find")
  /\ UNCHANGED <<gone, devices>>

DeleteCode(t) ==
  /\ pc[t] = "n_del"
  /\ codes' = codes \ {job[t].k} /\ used' = More(job[t].k)
  /\ Go(t, "n_find")
  /\ UNCHANGED <<gone, link, owner>>

\* attachDevice, of an operator, or of the code: refused if it is another's.
AdminLink(t) ==
  /\ \E u \in Signed : Begin(t, "n_find", "adminLink", u, NoOne)
  /\ UNCHANGED <<gone, devices, used>>

FindLinkOfAny(t) ==
  /\ pc[t] = "n_find"
  /\ Go(t, "n_link")
  /\ UNCHANGED <<gone, devices, used>>

FindLink(t) ==
  /\ pc[t] = "n_find"
  /\ IF link \notin {NoOne, job[t].u} THEN Stop(t) ELSE Go(t, "n_link")
  /\ UNCHANGED <<gone, devices, used>>

UpsertLink(t) ==
  /\ pc[t] = "n_link"
  /\ link' = IF link = NoOne THEN job[t].u ELSE link
  /\ Go(t, "n_reports")
  /\ UNCHANGED <<gone, owner, codes, used>>

BackfillReports(t) ==
  /\ pc[t] = "n_reports"
  /\ owner' = job[t].u
  /\ Stop(t)
  /\ UNCHANGED <<gone, link, codes, used>>

UnlinkDevice(t) ==
  /\ link # NoOne /\ Begin(t, "x_delete", "unlinkDevice", link, NoOne)
  /\ UNCHANGED <<gone, devices, used>>

\* By the device, whoever it is linked to by now.
DeleteLink(t) ==
  /\ pc[t] = "x_delete"
  /\ link' = NoOne
  /\ Stop(t)
  /\ UNCHANGED <<gone, owner, codes, used>>

-----------------------------------------------------------------------------
\* eraseMe deletes the links in its transaction; the reports keep the user.
EraseMe ==
  /\ "eraseMe" \in Handlers
  /\ \E u \in Signed : gone' = gone \cup {u} /\ link' = IF link = u THEN NoOne ELSE link
  /\ UNCHANGED <<owner, codes, used, pc, job>>

Next ==
  \/ \E t \in Tasks :
       \/ LinkDeviceByCode(t) \/ DeleteCode(t)
       \/ AdminLink(t) \/ FindLink(t) \/ UpsertLink(t) \/ BackfillReports(t)
       \/ UnlinkDevice(t) \/ DeleteLink(t)
  \/ Generate \/ CodeExpires \/ EraseMe

Spec == Init /\ [][Next]_vars

-----------------------------------------------------------------------------
\* The reports of a linked phone are its user's, as long as no two links are made at once.
ReportsFollowLink ==
  link # NoOne /\ (\A t \in Tasks : job[t].op \notin {"linkDeviceByCode", "adminLink"})
    => owner = link

\* A code is good for one link.
CodeUsedOnce == \A c \in Codes : used[c] <= 1
=============================================================================
