-------------------------------- MODULE Staff --------------------------------
(***************************************************************************)
(* Who may do what in the admin panel: roles, bans and erasures, checked by  *)
(* the guards when a request comes in, by the role policy against the row of  *)
(* the one it is about, and by a count of those who remain.                 *)
(* Abstracted: the audit rows, whose failure is logged and swallowed.         *)
(*                                                                          *)
(* A task is a running request; one action is one statement of the database.  *)
(***************************************************************************)
EXTENDS Naturals, FiniteSets

CONSTANTS
  Tasks, Users, NoOne,
  Handlers,
  Alone       \* handlers no two of which run at the same time

HandlerNames == {"ban", "unban", "changeRole", "erase", "eraseMe"}
Roles == {"USER", "ADMIN", "SUPER_ADMIN"}

VARIABLES
  role, banned, deleted,    \* the User rows
  pc, job

people == <<role, banned, deleted>>
vars == <<people, pc, job>>

Labels == {"idle", "g_require", "g_supers", "g_admins", "g_write", "g_erase"}
\* actor and the role it acts under, as the guard read it.
Job(op, actor, acts, u, next) ==
  [op |-> op, actor |-> actor, acts |-> acts, u |-> u, next |-> next]
Jobs == [op : HandlerNames \cup {"none"}, actor : Users \cup {NoOne}, acts : Roles,
         u : Users \cup {NoOne}, next : Roles]
NoJob == Job("none", NoOne, "USER", NoOne, "USER")

Init ==
  /\ \E u \in Users : role = [v \in Users |-> IF v = u THEN "SUPER_ADMIN" ELSE "USER"]
  /\ banned = {} /\ deleted = {}
  /\ pc = [t \in Tasks |-> "idle"] /\ job = [t \in Tasks |-> NoJob]

TypeOK ==
  /\ role \in [Users -> Roles] /\ banned \subseteq Users /\ deleted \subseteq Users
  /\ pc \in [Tasks -> Labels] /\ job \in [Tasks -> Jobs]

Admins == {"ADMIN", "SUPER_ADMIN"}
Rank == [USER |-> 0, ADMIN |-> 1, SUPER_ADMIN |-> 2]

\* JwtAuthGuard and RolesGuard: an account that is neither banned nor erased, of the panel.
Signed == Users \ (banned \cup deleted)
LetsBanned(u) == u \notin deleted /\ role[u] \in Admins
Lets(u) == u \in Signed /\ role[u] \in Admins

\* roleChangeDenial and banDenial.
MayChangeOwn(actorRole, targetRole, next, self) ==
  \/ targetRole = next
  \/ actorRole = "SUPER_ADMIN" \/ (targetRole = "USER" /\ next = "ADMIN")
MayChange(actorRole, targetRole, next, self) ==
  \/ targetRole = next
  \/ /\ ~(self /\ Rank[next] < Rank[targetRole])
     /\ actorRole = "SUPER_ADMIN" \/ (targetRole = "USER" /\ next = "ADMIN")
MayBan(actorRole, targetRole) == targetRole \in Admins => actorRole = "SUPER_ADMIN"

Remaining(of) == {u \in Users : role[u] \in of /\ u \notin deleted}

Begin(t, label, j) ==
  /\ pc[t] = "idle" /\ j.op \in Handlers
  /\ j.op \in Alone => \A s \in Tasks : job[s].op \notin Alone
  /\ pc' = [pc EXCEPT ![t] = label]
  /\ job' = [job EXCEPT ![t] = j]
Go(t, label) == pc' = [pc EXCEPT ![t] = label] /\ UNCHANGED job
End(t) == pc' = [pc EXCEPT ![t] = "idle"] /\ job' = [job EXCEPT ![t] = NoJob]

-----------------------------------------------------------------------------
\* A request that passed the guards keeps the role it came with to its end.
AdminRequest(t) ==
  /\ \E a \in Users, u \in Users, op \in {"ban", "unban", "changeRole", "erase"}, next \in Roles :
       /\ Lets(a)
       /\ op # "changeRole" => next = "USER"
       /\ op \in {"ban", "erase"} => u # a
       /\ op = "erase" => role[a] = "SUPER_ADMIN"
       /\ Begin(t, "g_require", Job(op, a, role[a], u, next))
  /\ UNCHANGED people

\* Erasing oneself asks nobody, and counts nobody.
EraseMe(t) ==
  /\ \E u \in Signed : Begin(t, "g_erase", Job("eraseMe", u, role[u], u, "USER"))
  /\ UNCHANGED people

\* The row of the other, and what the policy says of the two roles.
RequireUser(t) ==
  /\ pc[t] = "g_require"
  /\ LET j == job[t]
         now == role[j.u]
         allowed ==
           CASE j.op \in {"ban", "unban"} -> MayBan(j.acts, now)
             [] j.op = "changeRole" -> MayChange(j.acts, now, j.next, j.u = j.actor)
             [] OTHER -> j.u \notin deleted
         nothing == (j.op = "ban" /\ j.u \in banned) \/ (j.op = "changeRole" /\ now = j.next)
     IN IF ~allowed \/ nothing THEN End(t)
        ELSE Go(t, CASE j.op \in {"changeRole", "erase"} /\ now = "SUPER_ADMIN" -> "g_supers"
                     [] j.op = "changeRole" /\ now = "ADMIN" /\ j.next = "USER" -> "g_admins"
                     [] j.op = "erase" -> "g_erase"
                     [] OTHER -> "g_write")
  /\ UNCHANGED people

\* The last super admin is neither demoted nor erased by another.
CountSuperAdmins(t) ==
  /\ pc[t] = "g_supers"
  /\ IF Cardinality(Remaining({"SUPER_ADMIN"})) <= 1 THEN End(t)
     ELSE Go(t, IF job[t].op = "erase" THEN "g_erase"
                ELSE IF job[t].next = "USER" THEN "g_admins" ELSE "g_write")
  /\ UNCHANGED people

CountAdmins(t) ==
  /\ pc[t] = "g_admins"
  /\ IF Cardinality(Remaining(Admins)) <= 1 THEN End(t) ELSE Go(t, "g_write")
  /\ UNCHANGED people

WriteUser(t) ==
  /\ pc[t] = "g_write"
  /\ LET j == job[t]
     IN /\ role' = IF j.op = "changeRole" THEN [role EXCEPT ![j.u] = j.next] ELSE role
        /\ banned' = CASE j.op = "ban" -> banned \cup {j.u}
                       [] j.op = "unban" -> banned \ {j.u}
                       [] OTHER -> banned
  /\ End(t)
  /\ UNCHANGED deleted

\* The tombstone keeps the role of the row.
EraseUser(t) ==
  /\ pc[t] = "g_erase"
  /\ deleted' = deleted \cup {job[t].u}
  /\ End(t)
  /\ UNCHANGED <<role, banned>>

Next ==
  \E t \in Tasks :
    \/ AdminRequest(t) \/ EraseMe(t) \/ RequireUser(t) \/ CountSuperAdmins(t) \/ CountAdmins(t)
    \/ WriteUser(t) \/ EraseUser(t)

Spec == Init /\ [][Next]_vars

-----------------------------------------------------------------------------
\* Somebody can always manage the admins, unless the last who can leaves of his own accord.
Managers == {u \in Signed : role[u] = "SUPER_ADMIN"}
KeepsAManager ==
  Managers # {} /\ Managers' = {}
    => \E t \in Tasks : pc[t] = "g_erase" /\ job[t].op = "eraseMe" /\ pc'[t] = "idle"
=============================================================================
