------------------------------- MODULE Accounts -------------------------------
(***************************************************************************)
(* The accounts of one email address: registration, sign-in by a provider,      *)
(* the tokens mailed to confirm the address or to set a password, erasure,       *)
(* and the count of failed logins.                                          *)
(*                                                                          *)
(* A task is a running request; one action is one statement of the database     *)
(* or of Redis.  What is read and decided with no write between is one action.  *)
(***************************************************************************)
EXTENDS Naturals, FiniteSets

CONSTANTS
  Tasks,
  Users,       \* rows of the table
  NoOne,
  Tokens,
  MaxFailures, \* LOGIN_MAX_FAILURES
  Handlers,
  Alone,       \* handlers no two of which run at the same time
  Apart        \* pairs of handlers of which only one runs at a time

HandlerNames == {"register", "oauthUpsert", "requestPasswordReset", "confirmPasswordReset",
  "verifyEmail", "eraseMe", "login"}

VARIABLES
  row,       \* User: mail says that the address is its email
  account,   \* AuthAccount of the provider: its user
  token,     \* VerificationToken
  fails,     \* Redis: the failed logins of the window
  used,      \* history: how often a token did its work
  guesses,   \* history: passwords refused since the count began
  pc, job

users == <<row, account, token>>
logins == <<fails, guesses>>
vars == <<users, logins, used, pc, job>>

Purposes == {"verify_email", "password_reset"}
NoRow == [st |-> "none", mail |-> FALSE, pw |-> FALSE, verified |-> FALSE]
NoToken == [st |-> "none", of |-> NoOne, purpose |-> "verify_email"]
NoJob == [op |-> "none", u |-> NoOne, k |-> NoOne]

Labels == {"idle", "g_upsert", "g_token", "o_user", "o_account", "rp_token", "k_use", "k_done",
  "l_verify", "l_count", "l_clear"}

Init ==
  /\ row = [u \in Users |-> NoRow] /\ account = NoOne
  /\ token = [k \in Tokens |-> NoToken]
  /\ fails = 0 /\ guesses = 0
  /\ used = [k \in Tokens |-> 0]
  /\ pc = [t \in Tasks |-> "idle"] /\ job = [t \in Tasks |-> NoJob]

TypeOK ==
  /\ row \in [Users -> [st : {"none", "live", "erased"}, mail : BOOLEAN, pw : BOOLEAN,
                        verified : BOOLEAN]]
  /\ account \in Users \cup {NoOne}
  /\ token \in [Tokens -> [st : {"none", "fresh", "consumed", "gone"}, of : Users \cup {NoOne},
                           purpose : Purposes]]
  /\ fails \in 0 .. MaxFailures + Cardinality(Tasks)
  /\ guesses \in 0 .. MaxFailures + Cardinality(Tasks)
  /\ used \in [Tokens -> 0 .. 2]
  /\ pc \in [Tasks -> Labels]
  /\ job \in [Tasks -> [op : HandlerNames \cup {"none"}, u : Users \cup {NoOne},
                        k : Tokens \cup {NoOne}]]

Begin(t, label, op, u, k) ==
  /\ pc[t] = "idle" /\ op \in Handlers
  /\ \A s \in Tasks : {op, job[s].op} \notin Apart /\ (op \in Alone => job[s].op \notin Alone)
  /\ pc' = [pc EXCEPT ![t] = label]
  /\ job' = [job EXCEPT ![t] = [op |-> op, u |-> u, k |-> k]]
Keep(t, label, u, k) ==
  pc' = [pc EXCEPT ![t] = label] /\ job' = [job EXCEPT ![t] = [@ EXCEPT !.u = u, !.k = k]]
Go(t, label) == Keep(t, label, job[t].u, job[t].k)
Stop(t) == pc' = [pc EXCEPT ![t] = "idle"] /\ job' = [job EXCEPT ![t] = NoJob]

Holders == {u \in Users : row[u].mail}
Unmade == {u \in Users : row[u].st = "none"}
Signed == {u \in Users : row[u].st = "live"}

-----------------------------------------------------------------------------
\* register: the address is taken, or the row is made or taken over.
Register(t) ==
  /\ \A u \in Holders : row[u].st # "live"
  /\ Begin(t, "g_upsert", "register", NoOne, NoOne)
  /\ UNCHANGED <<users, logins, used>>

Made(verified, pw) == [st |-> "live", mail |-> TRUE, pw |-> pw, verified |-> verified]

UpsertUser(t) ==
  /\ pc[t] = "g_upsert"
  /\ \/ \E u \in Holders :
          /\ row' = [row EXCEPT ![u].pw = TRUE, ![u].st = "live"]
          /\ Keep(t, "g_token", u, NoOne)
     \/ /\ Holders = {}
        /\ \E u \in Unmade :
             row' = [row EXCEPT ![u] = Made(FALSE, TRUE)] /\ Keep(t, "g_token", u, NoOne)
  /\ UNCHANGED <<account, token, logins, used>>

CreateToken(t, purpose) ==
  /\ \E k \in Tokens :
       /\ token[k].st = "none"
       /\ token' = [token EXCEPT ![k] = [st |-> "fresh", of |-> job[t].u, purpose |-> purpose]]
  /\ Stop(t)
  /\ UNCHANGED <<row, account, logins, used>>

RegisterToken(t) == pc[t] = "g_token" /\ CreateToken(t, "verify_email")

\* oauthUpsert: the provider has verified the address of a row it makes.
OauthUpsert(t) ==
  /\ Begin(t, "o_user", "oauthUpsert", NoOne, NoOne)
  /\ UNCHANGED <<users, logins, used>>

OauthUser(t) ==
  /\ pc[t] = "o_user"
  /\ \/ \E u \in Holders :
          row' = [row EXCEPT ![u].st = "live"] /\ Keep(t, "o_account", u, NoOne)
     \/ /\ Holders = {}
        /\ \E u \in Unmade :
             row' = [row EXCEPT ![u] = Made(TRUE, FALSE)] /\ Keep(t, "o_account", u, NoOne)
  /\ UNCHANGED <<account, token, logins, used>>

OauthAccount(t) ==
  /\ pc[t] = "o_account"
  /\ account' = IF account = NoOne THEN job[t].u ELSE account
  /\ Stop(t)
  /\ UNCHANGED <<row, token, logins, used>>

-----------------------------------------------------------------------------
\* requestPasswordResetAndNotify, of an account that is there.
RequestPasswordReset(t) ==
  /\ \E u \in Holders : row[u].st = "live" /\ Begin(t, "rp_token", "requestPasswordReset", u, NoOne)
  /\ UNCHANGED <<users, logins, used>>

ResetToken(t) == pc[t] = "rp_token" /\ CreateToken(t, "password_reset")

\* consumeToken: found unconsumed, then marked, then put to use by the caller.
ConsumeToken(t) ==
  /\ \E k \in Tokens :
       /\ token[k].st = "fresh"
       /\ Begin(t, "k_use", IF token[k].purpose = "verify_email" THEN "verifyEmail"
                            ELSE "confirmPasswordReset", token[k].of, k)
  /\ UNCHANGED <<users, logins, used>>

LeaveToken(t) ==
  /\ pc[t] = "k_use"
  /\ Go(t, "k_done")
  /\ UNCHANGED <<users, logins, used>>

\* The row may be gone by now, and the request fails.
MarkConsumed(t) ==
  /\ pc[t] = "k_use"
  /\ IF token[job[t].k].st = "gone" THEN Stop(t) /\ UNCHANGED token
     ELSE token' = [token EXCEPT ![job[t].k].st = "consumed"] /\ Go(t, "k_done")
  /\ UNCHANGED <<row, account, logins, used>>

More(k) == [used EXCEPT ![k] = IF @ = 2 THEN 2 ELSE @ + 1]

UseToken(t) ==
  /\ pc[t] = "k_done"
  /\ row' = IF job[t].op = "verifyEmail" THEN [row EXCEPT ![job[t].u].verified = TRUE]
            ELSE [row EXCEPT ![job[t].u].pw = TRUE]
  /\ used' = More(job[t].k)
  /\ Stop(t)
  /\ UNCHANGED <<account, token, logins>>

-----------------------------------------------------------------------------
\* eraseMe: one transaction.  The email of the row becomes a tombstone.
Erased(u, mail) ==
  /\ row' = [row EXCEPT ![u] = [st |-> "erased", mail |-> mail, pw |-> FALSE, verified |-> FALSE]]
  /\ account' = IF account = u THEN NoOne ELSE account
  /\ token' = [k \in Tokens |-> IF token[k].of = u THEN [token[k] EXCEPT !.st = "gone"] ELSE token[k]]

EraseKeepsEmail(t) ==
  /\ pc[t] = "idle" /\ "eraseMe" \in Handlers
  /\ \A s \in Tasks : {"eraseMe", job[s].op} \notin Apart
  /\ \E u \in Signed : Erased(u, TRUE)
  /\ UNCHANGED <<logins, used, pc, job>>

EraseMe(t) ==
  /\ pc[t] = "idle" /\ "eraseMe" \in Handlers
  /\ \A s \in Tasks : {"eraseMe", job[s].op} \notin Apart
  /\ \E u \in Signed : Erased(u, FALSE)
  /\ UNCHANGED <<logins, used, pc, job>>

-----------------------------------------------------------------------------
\* validateCredentials: the count is read, the password is checked, the count goes up
\* or is cleared.
LoginOnePast(t) ==
  /\ fails <= MaxFailures
  /\ Begin(t, "l_verify", "login", NoOne, NoOne)
  /\ UNCHANGED <<users, logins, used>>

Login(t) ==
  /\ fails < MaxFailures
  /\ Begin(t, "l_verify", "login", NoOne, NoOne)
  /\ UNCHANGED <<users, logins, used>>

Verify(t) ==
  /\ pc[t] = "l_verify"
  /\ \/ Go(t, "l_clear") /\ UNCHANGED guesses
     \/ Go(t, "l_count") /\ guesses' = guesses + 1
  /\ UNCHANGED <<users, fails, used>>

CountFailure(t) ==
  /\ pc[t] = "l_count"
  /\ fails' = fails + 1
  /\ Stop(t)
  /\ UNCHANGED <<users, guesses, used>>

ClearFailures(t) ==
  /\ pc[t] = "l_clear"
  /\ fails' = 0 /\ guesses' = 0
  /\ Stop(t)
  /\ UNCHANGED <<users, used>>

\* The key expires, a fixed time after its first failure.
WindowEnds ==
  /\ fails > 0 /\ fails' = 0 /\ guesses' = 0
  /\ UNCHANGED <<users, used, pc, job>>

Next ==
  \/ \E t \in Tasks :
       \/ Register(t) \/ UpsertUser(t) \/ RegisterToken(t)
       \/ OauthUpsert(t) \/ OauthUser(t) \/ OauthAccount(t)
       \/ RequestPasswordReset(t) \/ ResetToken(t)
       \/ ConsumeToken(t) \/ MarkConsumed(t) \/ UseToken(t) \/ EraseMe(t)
       \/ Login(t) \/ Verify(t) \/ CountFailure(t) \/ ClearFailures(t)
  \/ WindowEnds

Spec == Init /\ [][Next]_vars

-----------------------------------------------------------------------------
\* A token sets one password, as long as its requests come one at a time.
TokenUsedOnce == \A k \in Tokens : used[k] <= 1

\* Who has been erased is not brought back: neither a registration nor a sign-in with the
\* same address, of before or after, finds the old row.
StaysErased == \A u \in Users : row[u].st = "erased" => row'[u].st = "erased"

\* At most MaxFailures passwords are refused in a window, and one more for every request
\* that had read the count before.
LockHolds == guesses < MaxFailures + Cardinality(Tasks)
=============================================================================
