------------------------------- MODULE Connect -------------------------------
(***************************************************************************)
(* The payout account of one inspector: the profile that names it, the accounts *)
(* at Stripe, and the events that say whether one may be paid.               *)
(*                                                                          *)
(* A task is a running request or webhook delivery; one action is one        *)
(* statement of the database or one call of Stripe.  Abstracted: the other    *)
(* fields of the profile, the texts of the answers; mock mode is off.         *)
(***************************************************************************)
EXTENDS Naturals, FiniteSets

CONSTANTS
  Tasks,
  Countries,      \* with "DE", the platform's, for an account of before the column
  Kinds,          \* Stripe business types
  MaxAccounts,    \* bound on the accounts made at Stripe
  MaxEvents,      \* bound on the changes Stripe reports
  Handlers,
  Alone           \* handlers no two of which run at the same time

HandlerNames == {"registerPushToken", "startStripeOnboarding", "syncConnectedAccount"}

VARIABLES
  profile,     \* InspectorProfile: the account it names, and what it says of it
  accounts,    \* Stripe: the accounts ever made
  reports,     \* Stripe: account.updated events not yet processed
  sent,        \* Stripe: how many of them there were
  pc, job

connect == <<profile, accounts, reports, sent>>
vars == <<connect, pc, job>>

Ids == 1 .. MaxAccounts
None == 0
Unset == "unset"
Labels == {"idle", "f_insert", "n_user", "n_find", "n_insert", "n_create", "n_store", "n_kind",
           "n_mark", "n_link", "n_reset", "n_again", "n_restore", "n_last", "y_find", "y_write"}

\* stored: the account the request read in the profile.  made: the one it made.
Jobs == [op : HandlerNames \cup {"none"}, country : Countries \cup {Unset},
         kind : Kinds \cup {Unset}, stored : Ids \cup {None}, made : Ids \cup {None},
         ready : BOOLEAN]
Job(op, country, kind) == [op |-> op, country |-> country, kind |-> kind,
                           stored |-> None, made |-> None, ready |-> FALSE]
NoJob == Job("none", Unset, Unset)

Init ==
  /\ profile = [exists |-> FALSE, acct |-> None, onboarded |-> FALSE,
                country |-> Unset, kind |-> Unset]
  /\ accounts = [a \in {} |-> None]
  /\ reports = {} /\ sent = 0
  /\ pc = [t \in Tasks |-> "idle"] /\ job = [t \in Tasks |-> NoJob]

TypeOK ==
  /\ profile \in [exists : BOOLEAN, acct : Ids \cup {None}, onboarded : BOOLEAN,
                  country : Countries \cup {Unset}, kind : Kinds \cup {Unset}]
  /\ \A a \in DOMAIN accounts :
       accounts[a] \in [country : Countries, kind : Kinds \cup {Unset}, alive : BOOLEAN,
                        ready : BOOLEAN, was : BOOLEAN]
  /\ DOMAIN accounts \subseteq Ids
  /\ reports \subseteq [acct : Ids, ready : BOOLEAN, nr : 1 .. MaxEvents]
  /\ pc \in [Tasks -> Labels] /\ job \in [Tasks -> Jobs]

Begin(t, label, j) ==
  /\ pc[t] = "idle" /\ j.op \in Handlers
  /\ j.op \in Alone => \A s \in Tasks : job[s].op \notin Alone
  /\ pc' = [pc EXCEPT ![t] = label] /\ job' = [job EXCEPT ![t] = j]
Keep(t, label, j) == pc' = [pc EXCEPT ![t] = label] /\ job' = [job EXCEPT ![t] = j]
Go(t, label) == Keep(t, label, job[t])
End(t) == Keep(t, "idle", NoJob)

-----------------------------------------------------------------------------
\* The push token of a phone is stored with the profile, which it makes if there is none.
RegisterPushToken(t) ==
  /\ Begin(t, "f_insert", Job("registerPushToken", Unset, Unset))
  /\ UNCHANGED connect

UpsertToken(t) ==
  /\ pc[t] = "f_insert"
  /\ profile' = [profile EXCEPT !.exists = TRUE]
  /\ End(t)
  /\ UNCHANGED <<accounts, reports, sent>>

\* The inspector asks for the form of Stripe, with a country and a kind or without.
StartStripeOnboarding(t) ==
  /\ \E c \in Countries \cup {Unset}, k \in Kinds \cup {Unset} :
       Begin(t, "n_find", Job("startStripeOnboarding", c, k))
  /\ UNCHANGED connect

\* A second request that makes the row at the same time fails on its key.
InsertProfile(t) ==
  /\ pc[t] = "n_insert"
  /\ IF profile.exists THEN End(t)
     ELSE Keep(t, "n_create", [job[t] EXCEPT !.country = IF @ = Unset THEN "DE" ELSE @])
  /\ profile' = [profile EXCEPT !.exists = TRUE]
  /\ UNCHANGED <<accounts, reports, sent>>

\* Stripe cannot move an account: its country is the one of record from then on.
CountryOfRecord ==
  IF profile.country # Unset THEN profile.country
  ELSE IF profile.acct # None THEN "DE" ELSE Unset
CountryLockedNever(country) == FALSE
CountryLocked(country) == profile.acct # None /\ country \notin {Unset, CountryOfRecord}
CountryFor(country) ==
  IF profile.acct # None THEN CountryOfRecord
  ELSE IF country # Unset THEN country
  ELSE IF profile.country # Unset THEN profile.country ELSE "DE"
KindFor(kind) == IF kind # Unset THEN kind ELSE profile.kind

\* resolveConnectAccountParams over the profile as it is read.
FindProfile(t) ==
  /\ pc[t] = "n_find"
  /\ LET j == job[t]
         asked == [j EXCEPT !.stored = profile.acct, !.country = CountryFor(j.country),
                            !.kind = KindFor(j.kind)]
     IN IF ~profile.exists THEN Go(t, "n_insert")
        ELSE IF CountryLocked(j.country) THEN End(t)
        ELSE IF profile.acct = None THEN Keep(t, "n_create", asked)
        ELSE IF j.kind \notin {Unset, profile.kind} THEN Keep(t, "n_kind", asked)
        ELSE Keep(t, "n_link", asked)
  /\ UNCHANGED connect

NextId == Cardinality(DOMAIN accounts) + 1
NewAccount(t) ==
  accounts' = [a \in DOMAIN accounts \cup {NextId} |->
    IF a = NextId THEN [country |-> job[t].country, kind |-> job[t].kind, alive |-> TRUE,
                        ready |-> FALSE, was |-> FALSE]
    ELSE accounts[a]]

\* Stripe makes an account, or refuses and the request ends with the mapped answer.
CreateAccount(t) ==
  /\ pc[t] \in {"n_create", "n_again"}
  /\ \/ /\ NextId \in Ids /\ NewAccount(t)
        /\ Keep(t, IF pc[t] = "n_create" THEN "n_store" ELSE "n_restore",
                [job[t] EXCEPT !.made = NextId])
     \/ UNCHANGED accounts /\ End(t)
  /\ UNCHANGED <<profile, reports, sent>>

StoreIdOnly(t) ==
  /\ pc[t] \in {"n_store", "n_restore"}
  /\ profile' = [profile EXCEPT !.acct = job[t].made]
  /\ Go(t, IF pc[t] = "n_store" THEN "n_link" ELSE "n_last")
  /\ UNCHANGED <<accounts, reports, sent>>

StoreAccount(t) ==
  /\ pc[t] \in {"n_store", "n_restore"}
  /\ profile' = [profile EXCEPT !.acct = job[t].made, !.country = job[t].country,
                                !.kind = job[t].kind]
  /\ Go(t, IF pc[t] = "n_store" THEN "n_link" ELSE "n_last")
  /\ UNCHANGED <<accounts, reports, sent>>

\* applyBusinessTypeChange: refused once the declaration was checked, and the refusal is
\* swallowed: the form is still handed out.
UpdateKind(t) ==
  /\ pc[t] = "n_kind"
  /\ \/ /\ accounts[job[t].stored].alive /\ ~accounts[job[t].stored].was
        /\ accounts' = [accounts EXCEPT ![job[t].stored].kind = job[t].kind]
        /\ Go(t, "n_mark")
     \/ UNCHANGED accounts /\ Go(t, "n_link")
  /\ UNCHANGED <<profile, reports, sent>>

MarkKind(t) ==
  /\ pc[t] = "n_mark"
  /\ profile' = [profile EXCEPT !.kind = job[t].kind]
  /\ Go(t, "n_link")
  /\ UNCHANGED <<accounts, reports, sent>>

\* The form, unless Stripe is out of reach.  An account that is gone from Stripe is made
\* anew, once, if it is the one the profile named.
LinkOrReplace(t) ==
  /\ pc[t] \in {"n_link", "n_last"}
  /\ \/ End(t)
     \/ job[t].stored # None /\ pc[t] = "n_link" /\ Go(t, "n_reset")
  /\ UNCHANGED connect

CreateLink(t) ==
  /\ pc[t] \in {"n_link", "n_last"}
  /\ LET a == IF job[t].made # None THEN job[t].made ELSE job[t].stored
     IN IF ~accounts[a].alive /\ job[t].stored # None /\ pc[t] = "n_link"
        THEN Go(t, "n_reset") ELSE End(t)
  /\ UNCHANGED connect

ResetIdOnly(t) ==
  /\ pc[t] = "n_reset"
  /\ profile' = [profile EXCEPT !.acct = None]
  /\ Go(t, "n_again")
  /\ UNCHANGED <<accounts, reports, sent>>

ResetAccount(t) ==
  /\ pc[t] = "n_reset"
  /\ profile' = [profile EXCEPT !.acct = None, !.onboarded = FALSE]
  /\ Go(t, "n_again")
  /\ UNCHANGED <<accounts, reports, sent>>

-----------------------------------------------------------------------------
\* The form is filled in, or Stripe takes the permission back; either is reported.
AccountChanges ==
  /\ sent < MaxEvents
  /\ \E a \in DOMAIN accounts :
       /\ accounts[a].alive
       /\ accounts' = [accounts EXCEPT ![a].ready = ~@, ![a].was = TRUE]
       /\ reports' = reports \cup {[acct |-> a, ready |-> ~accounts[a].ready, nr |-> sent + 1]}
  /\ sent' = sent + 1
  /\ UNCHANGED <<profile, pc, job>>

AccountGone ==
  /\ \E a \in DOMAIN accounts :
       accounts[a].alive /\ accounts' = [accounts EXCEPT ![a].alive = FALSE]
  /\ UNCHANGED <<profile, reports, sent, pc, job>>

\* Events arrive in any order, each until it was answered.
SyncConnectedAccount(t) ==
  /\ \E r \in reports :
       /\ \A s \in Tasks : job[s].op # "syncConnectedAccount"
       /\ Begin(t, "y_find", [Job("syncConnectedAccount", Unset, Unset) EXCEPT
                                !.stored = r.acct, !.ready = r.ready])
       /\ reports' = reports \ {r}
  /\ UNCHANGED <<profile, accounts, sent>>

FindByAccount(t) ==
  /\ pc[t] = "y_find"
  /\ IF profile.acct # job[t].stored \/ profile.onboarded = job[t].ready THEN End(t)
     ELSE Go(t, "y_write")
  /\ UNCHANGED connect

WriteAnyOnboarded(t) ==
  /\ pc[t] = "y_write"
  /\ profile' = [profile EXCEPT !.onboarded = job[t].ready]
  /\ End(t)
  /\ UNCHANGED <<accounts, reports, sent>>

\* By the account: a profile that names another by now is not found, and Stripe delivers
\* again.
WriteOnboarded(t) ==
  /\ pc[t] = "y_write"
  /\ IF profile.acct = job[t].stored
     THEN profile' = [profile EXCEPT !.onboarded = job[t].ready] ELSE UNCHANGED profile
  /\ End(t)
  /\ UNCHANGED <<accounts, reports, sent>>

Next ==
  \/ \E t \in Tasks :
       \/ RegisterPushToken(t) \/ UpsertToken(t)
       \/ StartStripeOnboarding(t) \/ FindProfile(t) \/ InsertProfile(t)
       \/ CreateAccount(t) \/ StoreAccount(t) \/ UpdateKind(t) \/ MarkKind(t)
       \/ CreateLink(t) \/ ResetAccount(t)
       \/ SyncConnectedAccount(t) \/ FindByAccount(t) \/ WriteOnboarded(t)
  \/ AccountChanges \/ AccountGone

Spec == Init /\ [][Next]_vars

-----------------------------------------------------------------------------
\* Money is only offered to an account its inspector completed: the flag of a replaced
\* account is not inherited by its successor.
OnboardedIsReal ==
  profile.onboarded => profile.acct # None /\ accounts[profile.acct].was

\* The country and the kind the profile tells its inspector are those of the account.
RecordIsTheAccounts ==
  profile.acct # None /\ (\A t \in Tasks : pc[t] # "n_mark")
    => /\ accounts[profile.acct].country = profile.country
       /\ accounts[profile.acct].kind = profile.kind

\* An account that lives at Stripe is never replaced: its forms and its checks stay good.
KeepsLivingAccount ==
  profile.acct # None /\ accounts[profile.acct].alive => profile'.acct = profile.acct
=============================================================================
