------------------------------- MODULE Receipts -------------------------------
(***************************************************************************)
(* A phone asks for PRO with what its store gave it, and the backend asks the   *)
(* store: which environment is asked, what the answer is taken for, and by      *)
(* which number the purchase is known afterwards.  The grant itself, its cap     *)
(* and its transaction are in Intake.                                        *)
(*                                                                          *)
(* One action is one call of a store.  Abstracted: signatures and tokens, the   *)
(* texts and numbers of the errors but for the family they are of, dates.       *)
(***************************************************************************)
EXTENDS Naturals, FiniteSets

CONSTANTS
  Phones,       \* one upgrade request of each runs at a time
  Books,        \* what the stores may have sold: functions from transactions to records
  Settings      \* the credentials and the mode the backend may run with

VARIABLES
  sold,       \* the transactions at the stores
  setting,    \* IapConfig
  ask,        \* locals of the request of each phone
  said,       \* its last answer
  unlocked    \* grants: phone, the number of the purchase, the transaction asked for

receiptVars == <<sold, setting, ask, said, unlocked>>

\* root: the transaction that the purchase began with; a restore is a transaction of its
\* own.  st: a payment may be pending at Play, and either store takes money back.
Sales == [store : {"apple", "play"}, env : {"production", "sandbox"}, root : Nat,
          pro : BOOLEAN, ours : BOOLEAN, st : {"pending", "bought", "revoked"}]
Environments == {"production", "sandbox"}
Other(env) == CHOOSE e \in Environments : e # env
None == 0

\* kind: a StoreKit 2 signed transaction, a bare number, a StoreKit 1 receipt, a Play token.
\* of: the transaction it names, or none that there is.  ours, pro: what the request says.
Kinds == {"jws", "number", "app-receipt", "token"}
Claims ==
  [kind : {"jws"}, of : DOMAIN sold \cup {None}, ours : BOOLEAN, pro : {TRUE}, hint : BOOLEAN]
    \cup [kind : {"number"}, of : DOMAIN sold, ours : {TRUE}, pro : {TRUE}, hint : {FALSE}]
    \cup [kind : {"app-receipt"}, of : DOMAIN sold \cup {None}, ours : {TRUE}, pro : {TRUE},
          hint : BOOLEAN]
    \cup [kind : {"token"}, of : DOMAIN sold \cup {None}, ours : {TRUE}, pro : BOOLEAN,
          hint : {FALSE}]

Idle == [claim |-> [kind |-> "jws", of |-> None, ours |-> TRUE, pro |-> TRUE, hint |-> FALSE],
         env |-> "none", tried |-> {}]

Init ==
  /\ sold \in Books /\ setting \in Settings
  /\ ask = [p \in Phones |-> Idle] /\ said = [p \in Phones |-> "nothing"]
  /\ unlocked = {}

\* appleCredentialStatus and IAP_MODE: which of the store's interfaces can be asked.
CredentialStatus == [mode : {"client-trust", "server"}, serverApi : BOOLEAN,
                     secret : BOOLEAN, play : BOOLEAN, sandboxFirst : BOOLEAN]

Answers == {"nothing", "pro", "rejected", "unavailable"}
TypeOK ==
  /\ \A t \in DOMAIN sold : sold[t] \in Sales /\ sold[t].root \in DOMAIN sold
  /\ setting \in CredentialStatus
  /\ \A p \in Phones : /\ ask[p].env \in Environments \cup {"none", "play"}
                       /\ ask[p].tried \subseteq Environments
  /\ said \in [Phones -> Answers]
  /\ \A u \in unlocked : u.phone \in Phones /\ u.of \in DOMAIN sold /\ u.id \in DOMAIN sold

-----------------------------------------------------------------------------
Answer(p, what) == said' = [said EXCEPT ![p] = what] /\ ask' = [ask EXCEPT ![p] = Idle]
\* markPro: the grant is recorded under the store's number of the purchase.
Grant(p, of, id) ==
  /\ Answer(p, "pro")
  /\ unlocked' = unlocked \cup {[phone |-> p, of |-> of, id |-> id]}
Refuse(p, what) == Answer(p, what) /\ UNCHANGED unlocked
Ask(p, env) ==
  /\ ask' = [ask EXCEPT ![p].env = env, ![p].tried = @ \cup ({env} \cap Environments)]
  /\ UNCHANGED <<said, unlocked>>

FirstEnvironment(c) == IF c.hint \/ setting.sandboxFirst THEN "sandbox" ELSE "production"

\* validate, as far as no store is asked.  In client-trust mode everything is believed, and
\* nothing recorded.  Otherwise a missing credential is no verdict, and what the request
\* itself says against the purchase is one.
MarkPro(p) ==
  /\ ask[p].env = "none" /\ UNCHANGED <<sold, setting>>
  /\ \E c \in Claims :
       LET start(env) == ask' = [ask EXCEPT ![p] = [claim |-> c, env |-> env,
                                   tried |-> {env} \cap Environments]]
                         /\ said' = [said EXCEPT ![p] = "nothing"] /\ UNCHANGED unlocked
           apple == c.kind # "token"
       IN CASE setting.mode = "client-trust" -> Answer(p, "pro") /\ UNCHANGED unlocked
            [] OTHER ->
                 IF apple THEN
                   IF ~setting.serverApi /\ ~setting.secret THEN Refuse(p, "unavailable")
                   ELSE IF c.kind = "number" \/ (c.kind = "jws" /\ ~c.ours)
                           \/ (c.kind = "app-receipt" /\ ~setting.secret)
                        THEN Refuse(p, "rejected")
                   ELSE IF c.kind = "jws" /\ ~setting.serverApi THEN Refuse(p, "unavailable")
                   ELSE start(FirstEnvironment(c))
                 ELSE IF ~setting.play THEN Refuse(p, "unavailable")
                 ELSE IF ~c.pro THEN Refuse(p, "rejected") ELSE start("play")

\* A store that is down, asks to come back later, or refuses the backend's own key.
StoreFails(p) ==
  /\ ask[p].env # "none" /\ Refuse(p, "unavailable")
  /\ UNCHANGED <<sold, setting>>

\* A transaction that is not in the environment that was asked may be in the other.
NotHereIsRefused(p) == Refuse(p, "rejected")
NotHere(p) ==
  LET next == Other(ask[p].env)
  IN IF next \in ask[p].tried THEN Refuse(p, "rejected") ELSE Ask(p, next)

\* verifyTransaction: Apple's own copy decides, whatever the request said.
VerifyTransactionUnrevoked(p, of) ==
  IF sold[of].ours /\ sold[of].pro THEN Grant(p, of, sold[of].root) ELSE Refuse(p, "rejected")
VerifyByTransactionId(p, of) ==
  IF sold[of].ours /\ sold[of].pro /\ sold[of].st # "revoked"
  THEN Grant(p, of, of) ELSE Refuse(p, "rejected")
VerifyTransaction(p, of) ==
  IF sold[of].ours /\ sold[of].pro /\ sold[of].st # "revoked"
  THEN Grant(p, of, sold[of].root) ELSE Refuse(p, "rejected")

LookupTransaction(p) ==
  LET of == ask[p].claim.of IN
  /\ ask[p].env \in Environments /\ ask[p].claim.kind = "jws"
  /\ IF of = None \/ sold[of].store # "apple" \/ sold[of].env # ask[p].env
     THEN NotHere(p) ELSE VerifyTransaction(p, of)
  /\ UNCHANGED <<sold, setting>>

\* toReceiptResult: a StoreKit 1 receipt is of an app, and lists every transaction of the
\* account; one that stands is enough.
AppReceipt(p) ==
  LET of == ask[p].claim.of
      ours == {t \in DOMAIN sold : /\ sold[t].store = "apple" /\ sold[t].env = ask[p].env
                                   /\ sold[t].pro /\ sold[t].ours}
      standing == {t \in ours : sold[t].st # "revoked"}
  IN /\ ask[p].env \in Environments /\ ask[p].claim.kind = "app-receipt"
     /\ IF of = None \/ sold[of].store # "apple" THEN Refuse(p, "rejected")
        ELSE IF sold[of].env # ask[p].env THEN NotHere(p)
        ELSE IF ~sold[of].ours \/ standing = {} THEN Refuse(p, "rejected")
        ELSE \E t \in standing : Grant(p, t, sold[t].root)
     /\ UNCHANGED <<sold, setting>>

\* A Play token: purchased, not pending and not cancelled.  The acknowledgement that
\* follows may fail without a word.
PlayToken(p) ==
  LET of == ask[p].claim.of IN
  /\ ask[p].env = "play"
  /\ IF of = None \/ sold[of].store # "play" \/ ~sold[of].pro \/ ~sold[of].ours
        \/ sold[of].st # "bought"
     THEN Refuse(p, "rejected") ELSE Grant(p, of, sold[of].root)
  /\ UNCHANGED <<sold, setting>>

\* The stores: a pending payment comes in, and money goes back, of a purchase with all its
\* restores.
StoreMoves ==
  \E t \in DOMAIN sold, st \in {"bought", "revoked"} :
    /\ st = "bought" => sold[t].st = "pending"
    /\ sold[t].st # st
    /\ sold' = [u \in DOMAIN sold |-> IF sold[u].root = sold[t].root
                                      THEN [sold[u] EXCEPT !.st = st] ELSE sold[u]]
    /\ UNCHANGED <<setting, ask, said, unlocked>>

Next ==
  \/ \E p \in Phones : \/ MarkPro(p) \/ StoreFails(p) \/ LookupTransaction(p)
                       \/ AppReceipt(p) \/ PlayToken(p)
  \/ StoreMoves

Spec == Init /\ [][Next]_receiptVars

-----------------------------------------------------------------------------
Stands(t) == sold[t].pro /\ sold[t].ours /\ sold[t].st = "bought"
Answered(p) == ask[p].env # "none" /\ ask'[p].env = "none"

\* In server mode PRO is only given for a purchase of PRO, in this app, that stands at the
\* store when it is asked, whatever the phone sent; and a phone whose purchase stands is
\* told "rejected" by no step that asked a store: an environment that does not know it, a
\* store that is out of reach and a key that is refused are no verdict.
VerdictsAreTrue ==
  \A p \in Phones : setting.mode = "server" /\ Answered(p) =>
    /\ said'[p] = "pro" => \E u \in unlocked' : u.phone = p /\ Stands(u.of)
    /\ said'[p] = "rejected" /\ ask[p].claim.of # None =>
         \/ ~Stands(ask[p].claim.of)
         \/ (ask[p].env = "play") # (sold[ask[p].claim.of].store = "play")

\* A purchase has one number on every phone that restores it, and no two have the same: the
\* count of its phones counts them all.
OneNumberEach ==
  \A u, v \in unlocked : sold[u.of].root = sold[v.of].root <=> u.id = v.id
=============================================================================
