------------------------------- MODULE Notices -------------------------------
(***************************************************************************)
(* What a user is told, and where: the channels of each notice, one row per   *)
(* channel, the providers that answer after the request that notified has     *)
(* gone on, and what the user reads, prefers and erases meanwhile.            *)
(*                                                                          *)
(* A task is a running request or sweep; one action is one statement of the   *)
(* database or one answer of a provider.  Abstracted: the types are told apart *)
(* by their default channels, the orders are one, the locale and the texts.    *)
(***************************************************************************)
EXTENDS Naturals, Sequences, FiniteSets

CONSTANTS
  Tasks,
  MaxRows,     \* bound on the notices
  MaxOffers,   \* bound on the offers made to the user for the one order
  Told,        \* types of the notices besides those of offers
  Switched,    \* channels whose preference is changed
  Handlers,
  Alone        \* handlers no two of which run at the same time

HandlerNames == {"notify", "dispatch", "expireStaleOffers", "updatePreferences", "eraseMe"}
Channels == {"inapp", "email", "sms", "push"}

\* TYPE_DEFAULT_CHANNELS, by the sets that occur in it.
Defaults == [secret |-> {"email"}, quiet |-> {"inapp"}, trip |-> {"inapp", "push"},
             letter |-> {"inapp", "email"}, offer |-> {"inapp", "email", "push"}]
Types == DOMAIN Defaults
DefaultPreferences == [c \in Channels |-> c \in {"inapp", "email"}]

VARIABLES
  prefs,      \* user.notificationPrefs, normalized
  wants,      \* history: what the user last chose for each channel
  rows,       \* the Notification rows
  flying,     \* rows a provider was handed and has not answered for
  open,       \* the offer of the order that is open to the user, or none
  made,       \* how many offers were made
  erased,
  pc, job

notices == <<prefs, wants, rows, flying, open, made, erased>>
vars == <<notices, pc, job>>

Labels == {"idle", "n_user", "n_row", "x_mark", "w_read", "w_write"}
\* todo: channels yet to be served.  chosen: the channels a request switches, and how.
Jobs == [op : HandlerNames \cup {"none"}, type : Types, todo : SUBSET Channels,
         sets : SUBSET Channels, on : BOOLEAN, seen : [Channels -> BOOLEAN],
         of : 0 .. MaxOffers]
Job(op, type, sets, on) == [op |-> op, type |-> type, todo |-> {}, sets |-> sets, on |-> on,
                            seen |-> DefaultPreferences, of |-> 0]
NoJob == Job("none", "quiet", {}, FALSE)
Notice(type, ch, st, of) == [type |-> type, ch |-> ch, st |-> st, of |-> of, read |-> "no"]

Init ==
  /\ prefs = DefaultPreferences /\ wants = DefaultPreferences
  /\ rows = <<>> /\ flying = {} /\ open = 0 /\ made = 0 /\ erased = FALSE
  /\ pc = [t \in Tasks |-> "idle"] /\ job = [t \in Tasks |-> NoJob]

TypeOK ==
  /\ prefs \in [Channels -> BOOLEAN] /\ wants \in [Channels -> BOOLEAN]
  /\ Len(rows) <= MaxRows /\ flying \subseteq DOMAIN rows
  /\ \A i \in DOMAIN rows :
       rows[i] \in [type : Types, ch : Channels, st : {"queued", "sent", "failed"},
                    of : 0 .. MaxOffers, read : {"no", "user", "superseded"}]
  /\ open \in 0 .. MaxOffers /\ made \in 0 .. MaxOffers /\ erased \in BOOLEAN
  /\ pc \in [Tasks -> Labels] /\ job \in [Tasks -> Jobs]

Begin(t, label, j) ==
  /\ pc[t] = "idle" /\ j.op \in Handlers
  /\ j.op \in Alone => \A s \in Tasks : job[s].op \notin Alone
  /\ pc' = [pc EXCEPT ![t] = label]
  /\ job' = [job EXCEPT ![t] = j]
Keep(t, label, j) == pc' = [pc EXCEPT ![t] = label] /\ job' = [job EXCEPT ![t] = j]
End(t) == Keep(t, "idle", NoJob)

-----------------------------------------------------------------------------
\* resolveChannels: in-app always, the others as the user prefers; a letter that carries a
\* credential goes by email only, whatever the user prefers.
ResolveAsAny(type, p) == {"inapp"} \cup {c \in Defaults[type] : p[c]}
ResolveChannels(type, p) ==
  IF type = "secret" THEN Defaults[type] \ {"inapp"}
  ELSE {"inapp"} \cup {c \in Defaults[type] : p[c]}

\* notifyStatusChange and its like: somebody is told of something, by type.
Notify(t) ==
  /\ \E type \in Told : Begin(t, "n_user", Job("notify", type, {}, FALSE))
  /\ UNCHANGED notices

ReadUser(t) ==
  /\ pc[t] = "n_user"
  /\ Keep(t, "n_row", [job[t] EXCEPT !.todo = ResolveChannels(job[t].type, prefs)])
  /\ UNCHANGED notices

\* One channel: its row, which the store may refuse; an in-app notice is sent with it, the
\* others are handed to their provider and not waited for.
EmitChannel(t) ==
  /\ pc[t] = "n_row" /\ job[t].todo # {}
  /\ LET c == IF "inapp" \in job[t].todo THEN "inapp" ELSE CHOOSE c \in job[t].todo : TRUE
         left == job[t].todo \ {c}
     IN /\ \/ UNCHANGED <<rows, flying>>
           \/ /\ Len(rows) < MaxRows
              /\ rows' = Append(rows, Notice(job[t].type, c,
                                       IF c = "inapp" THEN "sent" ELSE "queued", job[t].of))
              /\ flying' = IF c = "inapp" THEN flying ELSE flying \cup {Len(rows) + 1}
        /\ IF left = {} THEN End(t) ELSE Keep(t, "n_row", [job[t] EXCEPT !.todo = left])
  /\ UNCHANGED <<prefs, wants, open, made, erased>>

\* dispatch: the provider takes it, or does not: nothing tries again.
ProviderAnswers ==
  /\ \E i \in flying, st \in {"sent", "failed"} :
       rows' = [rows EXCEPT ![i].st = st] /\ flying' = flying \ {i}
  /\ UNCHANGED <<prefs, wants, open, made, erased, pc, job>>

Read(i, how) == [rows EXCEPT ![i].read = IF @ = "no" THEN how ELSE @]
MarkRead ==
  /\ \E i \in DOMAIN rows : rows[i].ch = "inapp" /\ rows' = Read(i, "user")
  /\ UNCHANGED <<prefs, wants, flying, open, made, erased, pc, job>>

MarkAllRead ==
  /\ rows' = [i \in DOMAIN rows |-> IF rows[i].ch = "inapp" THEN Read(i, "user")[i] ELSE rows[i]]
  /\ UNCHANGED <<prefs, wants, flying, open, made, erased, pc, job>>

-----------------------------------------------------------------------------
\* The order is offered to the user, in one round after another.
OfferMade(t) ==
  /\ open = 0 /\ made < MaxOffers
  /\ Begin(t, "n_user", [Job("dispatch", "offer", {}, FALSE) EXCEPT !.of = made + 1])
  /\ open' = made + 1 /\ made' = made + 1
  /\ UNCHANGED <<prefs, wants, rows, flying, erased>>

\* The window of the offer closes: its notice is read for the user, who is told it is over.
ExpireOffer(t) ==
  /\ open # 0
  /\ Begin(t, "x_mark", Job("expireStaleOffers", "quiet", {}, FALSE))
  /\ open' = 0
  /\ UNCHANGED <<prefs, wants, rows, flying, made, erased>>

LeaveUnread(t) ==
  /\ pc[t] = "x_mark"
  /\ Keep(t, "n_user", job[t])
  /\ UNCHANGED notices

MarkSupersededRead(t) ==
  /\ pc[t] = "x_mark"
  /\ rows' = [i \in DOMAIN rows |->
       IF rows[i].type = "offer" /\ rows[i].ch = "inapp" THEN Read(i, "superseded")[i]
       ELSE rows[i]]
  /\ Keep(t, "n_user", job[t])
  /\ UNCHANGED <<prefs, wants, flying, open, made, erased>>

-----------------------------------------------------------------------------
\* A request switches some channels: the others are read and written back.
UpdatePreferences(t) ==
  /\ ~erased
  /\ \E c \in Switched, on \in BOOLEAN :
       Begin(t, "w_read", Job("updatePreferences", "quiet", {c}, on))
  /\ UNCHANGED notices

GetPreferences(t) ==
  /\ pc[t] = "w_read"
  /\ Keep(t, "w_write", [job[t] EXCEPT !.seen = prefs])
  /\ UNCHANGED notices

Chosen(t, from) == [c \in Channels |-> IF c \in job[t].sets THEN job[t].on ELSE from[c]]

WriteOnlyChosen(t) ==
  /\ pc[t] = "w_write"
  /\ prefs' = Chosen(t, DefaultPreferences) /\ wants' = Chosen(t, wants)
  /\ End(t)
  /\ UNCHANGED <<rows, flying, open, made, erased>>

WritePreferences(t) ==
  /\ pc[t] = "w_write"
  /\ prefs' = Chosen(t, job[t].seen) /\ wants' = Chosen(t, wants)
  /\ End(t)
  /\ UNCHANGED <<rows, flying, open, made, erased>>

\* The notices go with the account, and the preferences are the default again.
EraseNotices ==
  /\ "eraseMe" \in Handlers /\ ~erased
  /\ \A t \in Tasks : job[t].op # "updatePreferences"
  /\ erased' = TRUE /\ rows' = <<>> /\ flying' = {}
  /\ prefs' = DefaultPreferences /\ wants' = DefaultPreferences
  /\ UNCHANGED <<open, made, pc, job>>

Next ==
  \/ \E t \in Tasks :
       \/ Notify(t) \/ ReadUser(t) \/ EmitChannel(t) \/ OfferMade(t) \/ ExpireOffer(t)
       \/ MarkSupersededRead(t) \/ UpdatePreferences(t) \/ GetPreferences(t) \/ WritePreferences(t)
  \/ ProviderAnswers \/ MarkRead \/ MarkAllRead \/ EraseNotices

Spec == Init /\ [][Next]_vars

-----------------------------------------------------------------------------
\* What the user chose for a channel stands until the user chooses again, also when a
\* request switches another channel.
PreferencesKept == prefs = wants

\* The notice of an offer calls for its user as long as the offer is open, and no longer:
\* closing it takes its own notice away, and not that of the same order's next offer.
OffersCallWhileOpen ==
  \A i \in DOMAIN rows :
    rows[i].type = "offer" /\ rows[i].ch = "inapp" =>
      IF rows[i].of = open THEN rows[i].read # "superseded"
      ELSE rows[i].read # "no" \/ \E t \in Tasks : pc[t] = "x_mark"

\* A single-use credential is never among the notices a session can list: also when the
\* in-app list is every other notice's first channel.
CredentialsStayOut ==
  \A i \in DOMAIN rows : rows[i].type = "secret" => rows[i].ch = "email"
NoticesHold == PreferencesKept /\ OffersCallWhileOpen /\ CredentialsStayOut
=============================================================================
