---------------------------- MODULE Platform_proofs ----------------------------
(***************************************************************************)
(* Theorems about the parts of MCPlatform.                                  *)
(***************************************************************************)
EXTENDS MCPlatform, Parts_proofs, Rows_proofs

-----------------------------------------------------------------------------
(***************************************************************************)
(* A purchase and the phones that claim it, asked of the store it is from.      *)
(***************************************************************************)
\* What the stores sell: a payment is pending at Play only.
StoresSell ==
  \A b \in SomeBooks : /\ b = [t \in DOMAIN b |-> b[t]]
                       /\ \A t \in DOMAIN b : b[t] \in Receipts!Sales
                          /\ (b[t].st = "pending" => b[t].store = "play")

StoreRequests == [claim : [kind : Receipts!Kinds, of : DOMAIN sold \cup {Receipts!None}, ours : BOOLEAN,
  pro : BOOLEAN,
                      hint : BOOLEAN],
             env : Receipts!Environments \cup {"none", "play"}, tried : SUBSET Receipts!Environments]
SoldRight ==
  /\ sold = [t \in DOMAIN sold |-> sold[t]]
  /\ \A t \in DOMAIN sold : sold[t] \in Receipts!Sales
     /\ (sold[t].st = "pending" => sold[t].store = "play")
AskedRight ==
  /\ request \in [Devices -> StoreRequests] /\ said \in [Devices -> Receipts!Answers]
  /\ \A p \in Devices :
       /\ request[p].claim.of # Receipts!None /\ sold[request[p].claim.of].store = "apple"
            => \A e \in request[p].tried : e # request[p].env => sold[request[p].claim.of].env # e
       /\ request[p].env # "play" => request[p].claim.kind # "token"
NumberedRight == \A u \in unlocked : u.of \in DOMAIN sold /\ u.id = sold[u.of].root
ReceiptInv == SoldRight /\ AskedRight /\ NumberedRight

-----------------------------------------------------------------------------
LEMMA ClaimsAreRight ==
  /\ Receipts!Claims \subseteq [kind : Receipts!Kinds, of : DOMAIN sold \cup {Receipts!None},
     ours : BOOLEAN, pro : BOOLEAN, hint : BOOLEAN]
  /\ Receipts!Idle \in StoreRequests /\ Receipts!Idle.tried = {} /\ Receipts!Idle.env = "none"
     /\ Receipts!Idle.claim.kind = "jws"
BY DEF Receipts!Claims, Receipts!Kinds, Receipts!Idle, StoreRequests

LEMMA ReceiptInit == StoresSell /\ Receipts!Init => ReceiptInv
BY ClaimsAreRight DEF StoresSell, Receipts!Init, ReceiptInv, SoldRight, AskedRight, NumberedRight,
   Receipts!Answers

LEMMA Answering ==
  ASSUME ReceiptInv, NEW p \in Devices, NEW what \in Receipts!Answers, Receipts!Answer(p, what),
         UNCHANGED <<sold, credentials>>,
         \A u \in unlocked' : u \in unlocked \/ (u.of \in DOMAIN sold /\ u.id = sold[u.of].root)
  PROVE  ReceiptInv'
<1>1. request' \in [Devices -> StoreRequests] /\ said' \in [Devices -> Receipts!Answers]
      /\ request'[p] = Receipts!Idle
      /\ \A q \in Devices : q # p => request'[q] = request[q]
  BY ClaimsAreRight DEF ReceiptInv, AskedRight, Receipts!Answer
<1>2. StoreRequests' = StoreRequests
  BY DEF StoreRequests
<1>3. AskedRight'
  BY <1>1, <1>2, ClaimsAreRight DEF ReceiptInv, AskedRight
<1>4. SoldRight' /\ NumberedRight'
  BY DEF ReceiptInv, SoldRight, NumberedRight
<1> QED BY <1>3, <1>4 DEF ReceiptInv

LEMMA Granting ==
  ASSUME ReceiptInv, NEW p \in Devices, NEW of \in DOMAIN sold, Receipts!Grant(p, of, sold[of].root),
         UNCHANGED <<sold, credentials>>
  PROVE  ReceiptInv'
<1>1. "pro" \in Receipts!Answers /\ Receipts!Answer(p, "pro")
      /\ unlocked' = unlocked \cup {[phone |-> p, of |-> of, id |-> sold[of].root]}
  BY DEF Receipts!Answers, Receipts!Grant
<1> QED BY <1>1, Answering

LEMMA Refusing ==
  ASSUME ReceiptInv, NEW p \in Devices, NEW what \in Receipts!Answers, Receipts!Refuse(p, what),
         UNCHANGED <<sold, credentials>>
  PROVE  ReceiptInv'
BY Answering DEF Receipts!Refuse

LEMMA Starting ==
  ASSUME ReceiptInv, NEW p \in Devices, NEW r \in StoreRequests, request' = [request EXCEPT ![p] = r],
         said' = said \/ said' = [said EXCEPT ![p] = "nothing"],
           UNCHANGED <<sold, credentials, unlocked>>,
         r.claim.of # Receipts!None /\ sold[r.claim.of].store = "apple"
            => \A e \in r.tried : e # r.env => sold[r.claim.of].env # e,
         r.env # "play" => r.claim.kind # "token"
  PROVE  ReceiptInv'
<1>1. request' \in [Devices -> StoreRequests] /\ said' \in [Devices -> Receipts!Answers]
      /\ request'[p] = r
      /\ \A q \in Devices : q # p => request'[q] = request[q]
  BY DEF ReceiptInv, AskedRight, Receipts!Answers
<1>2. StoreRequests' = StoreRequests
  BY DEF StoreRequests
<1>3. AskedRight'
  BY <1>1, <1>2 DEF ReceiptInv, AskedRight
<1>4. SoldRight' /\ NumberedRight'
  BY DEF ReceiptInv, SoldRight, NumberedRight
<1> QED BY <1>3, <1>4 DEF ReceiptInv

LEMMA MarkingPro ==
  ASSUME ReceiptInv, NEW p \in Devices, Receipts!MarkPro(p)
  PROVE  ReceiptInv'
<1>0. /\ UNCHANGED <<sold, credentials>> /\ "pro" \in Receipts!Answers
         /\ "unavailable" \in Receipts!Answers /\ "rejected" \in Receipts!Answers
  BY DEF Receipts!MarkPro, Receipts!Answers
<1> DEFINE start(c, shop) ==
             /\ request' = [request EXCEPT ![p] =
                  [claim |-> c, env |-> shop, tried |-> {shop} \cap Receipts!Environments]]
             /\ said' = [said EXCEPT ![p] = "nothing"] /\ UNCHANGED unlocked
<1>1. PICK c \in Receipts!Claims : \/ Receipts!Answer(p, "pro") /\ UNCHANGED unlocked
                                   \/ Receipts!Refuse(p, "unavailable")
                                      \/ Receipts!Refuse(p, "rejected")
                                   \/ c.kind # "token" /\ start(c, Receipts!FirstEnvironment(c))
                                   \/ start(c, "play")
  BY DEF Receipts!MarkPro
<1>2. ASSUME NEW shop \in {"production", "sandbox", "play"}, start(c, shop), shop # "play"
             => c.kind # "token"
      PROVE  ReceiptInv'
  <2> DEFINE r == [claim |-> c, env |-> shop, tried |-> {shop} \cap Receipts!Environments]
  <2>1. r \in StoreRequests /\ r.env = shop /\ r.claim = c /\ \A e \in r.tried : e = shop
    BY <1>1, ClaimsAreRight DEF StoreRequests, Receipts!Environments
  <2>2. request' = [request EXCEPT ![p] = r] /\ said' = [said EXCEPT ![p] = "nothing"]
        /\ unlocked' = unlocked
    BY <1>2
  <2> HIDE DEF r
  <2> QED BY <1>0, <1>2, <2>1, <2>2, Starting
<1>3. Receipts!FirstEnvironment(c) \in {"production", "sandbox", "play"}
      /\ Receipts!FirstEnvironment(c) # "play"
  BY DEF Receipts!FirstEnvironment
<1> HIDE DEF start
<1> QED BY <1>0, <1>1, <1>2, <1>3, Answering, Refusing DEF Receipts!Refuse

LEMMA LookingElsewhere ==
  ASSUME ReceiptInv, NEW p \in Devices, Receipts!NotHere(p), UNCHANGED <<sold, credentials>>,
         request[p].env \in Receipts!Environments,
         request[p].claim.of # Receipts!None /\ sold[request[p].claim.of].store = "apple"
           => sold[request[p].claim.of].env # request[p].env
  PROVE  ReceiptInv'
<1>1. Receipts!Other(request[p].env) \in Receipts!Environments
      /\ Receipts!Other(request[p].env) # request[p].env
  BY DEF Receipts!Other, Receipts!Environments
<1>2. CASE Receipts!Refuse(p, "rejected")
  BY <1>2, Refusing DEF Receipts!Answers
<1>3. CASE Receipts!Ask(p, Receipts!Other(request[p].env))
  <2> DEFINE e == Receipts!Other(request[p].env)
             r == [request[p] EXCEPT !.env = e, !.tried = @ \cup ({e} \cap Receipts!Environments)]
  <2>1. request[p] \in StoreRequests /\ e \in Receipts!Environments /\ e # request[p].env
    BY <1>1 DEF ReceiptInv, AskedRight
  <2> HIDE DEF e
  <2>2. r \in StoreRequests /\ r.env = e /\ r.claim = request[p].claim
        /\ r.tried = request[p].tried \cup {e}
    BY <2>1 DEF StoreRequests
  <2>3. request' = [request EXCEPT ![p] = r] /\ UNCHANGED <<said, unlocked>>
    BY <1>3, <2>1 DEF Receipts!Ask, e
  <2> HIDE DEF r
  <2>4. request[p].env # "play" /\ r.env # "play"
    BY <2>1, <2>2 DEF Receipts!Environments
  <2>5. r.claim.kind # "token"
    BY <2>2, <2>4 DEF ReceiptInv, AskedRight
  <2>6. r.claim.of # Receipts!None /\ sold[r.claim.of].store = "apple"
            => \A f \in r.tried : f # r.env => sold[r.claim.of].env # f
    BY <2>2 DEF ReceiptInv, AskedRight
  <2> QED BY <2>2, <2>3, <2>5, <2>6, Starting
<1> QED BY <1>2, <1>3 DEF Receipts!NotHere

LEMMA AskingStores ==
  ASSUME ReceiptInv, NEW p \in Devices, Receipts!StoreFails(p) \/ Receipts!LookupTransaction(p)
         \/ Receipts!AppReceipt(p) \/ Receipts!PlayToken(p)
  PROVE  ReceiptInv'
<1> DEFINE of == request[p].claim.of
<1>0. UNCHANGED <<sold, credentials>> /\ of \in DOMAIN sold \cup {Receipts!None}
      /\ "rejected" \in Receipts!Answers /\ "unavailable" \in Receipts!Answers
  BY DEF Receipts!StoreFails, Receipts!LookupTransaction, Receipts!AppReceipt, Receipts!PlayToken,
     ReceiptInv, AskedRight, StoreRequests, Receipts!Answers
<1>1. CASE Receipts!StoreFails(p)
  BY <1>0, <1>1, Refusing DEF Receipts!StoreFails
<1>2. CASE Receipts!LookupTransaction(p)
  BY <1>0, <1>2, Refusing, Granting, LookingElsewhere DEF Receipts!LookupTransaction,
     Receipts!VerifyTransaction
<1>3. CASE Receipts!AppReceipt(p)
  BY <1>0, <1>3, Refusing, Granting, LookingElsewhere DEF Receipts!AppReceipt
<1>4. CASE Receipts!PlayToken(p)
  BY <1>0, <1>4, Refusing, Granting DEF Receipts!PlayToken
<1> QED BY <1>1, <1>2, <1>3, <1>4

LEMMA StoresMove == ReceiptInv /\ Receipts!StoreMoves => ReceiptInv'
<1> SUFFICES ASSUME ReceiptInv, Receipts!StoreMoves PROVE ReceiptInv'
  OBVIOUS
<1>1. PICK t \in DOMAIN sold, st \in {"bought", "revoked"} :
        sold' = [u \in DOMAIN sold |-> IF sold[u].root = sold[t].root
                                       THEN [sold[u] EXCEPT !.st = st] ELSE sold[u]]
  BY DEF Receipts!StoreMoves
<1>2. DOMAIN sold' = DOMAIN sold /\ SoldRight'
      /\ \A u \in DOMAIN sold : sold'[u].root = sold[u].root /\ sold'[u].store = sold[u].store
                                /\ sold'[u].env = sold[u].env
  BY <1>1 DEF ReceiptInv, SoldRight, Receipts!Sales
<1>3. StoreRequests' = StoreRequests
  BY <1>2 DEF StoreRequests
<1>4. UNCHANGED <<request, said, unlocked>> /\ \A p \in Devices :
      request[p].claim.of \in DOMAIN sold \cup {Receipts!None}
  BY DEF Receipts!StoreMoves, ReceiptInv, AskedRight, StoreRequests
<1>5. AskedRight'
  BY <1>2, <1>3, <1>4 DEF ReceiptInv, AskedRight
<1>6. NumberedRight'
  BY <1>2, <1>4 DEF ReceiptInv, NumberedRight
<1> QED BY <1>2, <1>5, <1>6 DEF ReceiptInv

LEMMA ReceiptStep == ReceiptInv /\ (Receipts!Next \/ UNCHANGED Receipts!receiptVars) => ReceiptInv'
<1>1. ReceiptInv /\ UNCHANGED Receipts!receiptVars => ReceiptInv'
  BY DEF ReceiptInv, SoldRight, AskedRight, NumberedRight, StoreRequests, Receipts!receiptVars
<1> QED BY <1>1, MarkingPro, AskingStores, StoresMove DEF Receipts!Next

LEMMA ReceiptPromises == ReceiptInv => Receipts!OneNumberEach
BY DEF ReceiptInv, NumberedRight, Receipts!OneNumberEach

LEMMA VerdictsTrue ==
  ASSUME ReceiptInv, Receipts!Next \/ UNCHANGED Receipts!receiptVars
  PROVE  Receipts!VerdictsAreTrue
<1> SUFFICES ASSUME NEW p \in Devices, credentials.mode = "server", Receipts!Answered(p)
             PROVE  /\ said'[p] = "pro" => \E u \in unlocked' : u.phone = p /\ Receipts!Stands(u.of)
                    /\ said'[p] = "rejected" /\ request[p].claim.of # Receipts!None =>
                         \/ ~Receipts!Stands(request[p].claim.of)
                         \/ (request[p].env = "play") # (sold[request[p].claim.of].store = "play")
  BY DEF Receipts!VerdictsAreTrue
<1> DEFINE of == request[p].claim.of
           Right == \/ ~Receipts!Stands(of) \/ (request[p].env = "play") # (sold[of].store = "play")
                       \/ of = Receipts!None
<1>0. /\ request[p].env # "none" /\ request'[p].env = "none" /\ request[p] \in StoreRequests
      /\ of \in DOMAIN sold \cup {Receipts!None}
         /\ request[p].env \in Receipts!Environments \cup {"play"}
      /\ \A t \in DOMAIN sold : sold[t] \in Receipts!Sales
      /\ request \in [Devices -> StoreRequests] /\ said \in [Devices -> Receipts!Answers]
      /\ request[p].tried \subseteq Receipts!Environments
  BY DEF Receipts!Answered, ReceiptInv, AskedRight, SoldRight, StoreRequests
<1>1. ASSUME NEW q \in Devices, q # p, request' = [request EXCEPT ![q] = request'[q]] PROVE FALSE
  BY <1>0, <1>1
<1>2. ASSUME NEW q \in Devices, Receipts!MarkPro(q) \/ Receipts!StoreFails(q)
             \/ Receipts!LookupTransaction(q) \/ Receipts!AppReceipt(q) \/ Receipts!PlayToken(q)
      PROVE  q = p
  <2> SUFFICES ASSUME q # p PROVE FALSE
    OBVIOUS
  <2>1. \A i : i # q /\ i \in Devices => request'[i] = request[i]
    BY <1>0, <1>2 DEF Receipts!MarkPro, Receipts!StoreFails, Receipts!LookupTransaction,
       Receipts!AppReceipt, Receipts!PlayToken, Receipts!VerifyTransaction, Receipts!NotHere,
       Receipts!Refuse, Receipts!Grant, Receipts!Answer, Receipts!Ask
  <2> QED BY <1>0, <2>1
<1>3. Receipts!Next /\ ~Receipts!StoreMoves => Receipts!StoreFails(p) \/ Receipts!LookupTransaction(p)
      \/ Receipts!AppReceipt(p) \/ Receipts!PlayToken(p)
  BY <1>0, <1>2 DEF Receipts!Next, Receipts!MarkPro
<1>4. ~UNCHANGED Receipts!receiptVars /\ ~Receipts!StoreMoves
  BY <1>0 DEF Receipts!receiptVars, Receipts!StoreMoves
<1>5. ASSUME NEW t \in DOMAIN sold, Receipts!Grant(p, t, sold[t].root), Receipts!Stands(t)
      PROVE  said'[p] = "pro" /\ \E u \in unlocked' : u.phone = p /\ Receipts!Stands(u.of)
  <2> DEFINE u == [phone |-> p, of |-> t, id |-> sold[t].root]
  <2>1. u \in unlocked' /\ u.phone = p /\ u.of = t
    BY <1>5 DEF Receipts!Grant
  <2>2. said'[p] = "pro"
    BY <1>0, <1>5 DEF Receipts!Grant, Receipts!Answer
  <2> HIDE DEF u
  <2> QED BY <1>5, <2>1, <2>2
<1>6. ASSUME NEW what \in Receipts!Answers, what # "pro", Receipts!Refuse(p, what), what = "rejected"
             => Right
      PROVE  said'[p] = what /\ (what = "rejected" => Right)
  BY <1>0, <1>6 DEF Receipts!Refuse, Receipts!Answer
<1>7. ASSUME Receipts!NotHere(p), of # Receipts!None /\ sold[of].store = "apple"
             => sold[of].env # request[p].env,
             request[p].env \in Receipts!Environments
      PROVE  said'[p] = "rejected" /\ Right
  <2>1. Receipts!Other(request[p].env) \in Receipts!Environments
        /\ Receipts!Other(request[p].env) # request[p].env
    BY <1>7 DEF Receipts!Other, Receipts!Environments
  <2>2. ~Receipts!Ask(p, Receipts!Other(request[p].env))
    <3> SUFFICES ASSUME Receipts!Ask(p, Receipts!Other(request[p].env)) PROVE FALSE
      OBVIOUS
    <3> DEFINE e == Receipts!Other(request[p].env)
               r == [request[p] EXCEPT !.env = e, !.tried = @ \cup ({e} \cap Receipts!Environments)]
    <3>1. request' = [request EXCEPT ![p] = r]
      BY DEF Receipts!Ask
    <3> HIDE DEF e
    <3>2. r.env = e
      BY <1>0 DEF StoreRequests
    <3> HIDE DEF r
    <3>3. request'[p] = r
      BY <1>0, <3>1
    <3>4. e # "none"
      BY <2>1 DEF e, Receipts!Environments
    <3> QED BY <1>0, <3>2, <3>3, <3>4
  <2>3. Receipts!Other(request[p].env) \in request[p].tried /\ Receipts!Refuse(p, "rejected")
    BY <1>7, <2>2 DEF Receipts!NotHere
  <2>4. said'[p] = "rejected"
    BY <1>0, <2>3 DEF Receipts!Refuse, Receipts!Answer
  <2>5. of # Receipts!None /\ sold[of].store = "apple" => sold[of].env # Receipts!Other(request[p].env)
    BY <2>1, <2>3 DEF ReceiptInv, AskedRight
  <2>6. of # Receipts!None => sold[of].env \in {request[p].env, Receipts!Other(request[p].env)}
        /\ sold[of].store \in {"apple", "play"}
    BY <1>0, <1>7, <2>1 DEF Receipts!Sales, Receipts!Environments
  <2>7. Right
    BY <1>7, <2>5, <2>6 DEF Receipts!Environments
  <2> QED BY <2>4, <2>7
<1>8. CASE Receipts!StoreFails(p)
  BY <1>0, <1>8, <1>6 DEF Receipts!StoreFails, Receipts!Refuse, Receipts!Answer, Receipts!Answers
<1>9. CASE Receipts!LookupTransaction(p)
  <2>1. CASE of = Receipts!None \/ sold[of].store # "apple" \/ sold[of].env # request[p].env
    BY <1>7, <1>9, <2>1 DEF Receipts!LookupTransaction
  <2>2. CASE ~(of = Receipts!None \/ sold[of].store # "apple" \/ sold[of].env # request[p].env)
    <3>0. of # Receipts!None /\ sold[of].store = "apple" /\ Receipts!VerifyTransaction(p, of)
      BY <1>9, <2>2 DEF Receipts!LookupTransaction
    <3>1. of \in DOMAIN sold /\ (sold[of].st # "revoked" => sold[of].st = "bought")
      BY <1>0, <3>0 DEF ReceiptInv, SoldRight, Receipts!Sales
    <3>2. CASE sold[of].ours /\ sold[of].pro /\ sold[of].st # "revoked"
      BY <1>5, <3>0, <3>1, <3>2 DEF Receipts!VerifyTransaction, Receipts!Stands
    <3>3. CASE ~(sold[of].ours /\ sold[of].pro /\ sold[of].st # "revoked")
      BY <1>6, <3>0, <3>3 DEF Receipts!VerifyTransaction, Receipts!Stands, Receipts!Answers
    <3> QED BY <3>2, <3>3
  <2> QED BY <1>9, <2>1, <2>2 DEF Receipts!LookupTransaction
<1>10. CASE Receipts!AppReceipt(p)
  <2> DEFINE valid == {t \in DOMAIN sold : /\ sold[t].store = "apple" /\ sold[t].env = request[p].env
                                         /\ sold[t].pro /\ sold[t].ours /\ sold[t].st # "revoked"}
  <2>1. request[p].env \in Receipts!Environments
        /\ \/ (of = Receipts!None \/ sold[of].store # "apple") /\ Receipts!Refuse(p, "rejected")
           \/ of # Receipts!None /\ sold[of].env # request[p].env /\ Receipts!NotHere(p)
           \/ of # Receipts!None /\ sold[of].store = "apple" /\ sold[of].env = request[p].env
              /\ (~sold[of].ours \/ valid = {}) /\ Receipts!Refuse(p, "rejected")
           \/ \E t \in valid : Receipts!Grant(p, t, sold[t].root)
    BY <1>10 DEF Receipts!AppReceipt
  <2>2. CASE (of = Receipts!None \/ sold[of].store # "apple") /\ Receipts!Refuse(p, "rejected")
    <3>1. of = Receipts!None \/ sold[of].store = "play"
      BY <1>0, <2>2 DEF Receipts!Sales
    <3>2. request[p].env # "play"
      BY <2>1 DEF Receipts!Environments
    <3> QED BY <1>6, <2>2, <3>1, <3>2 DEF Receipts!Answers
  <2>3. CASE of # Receipts!None /\ sold[of].env # request[p].env /\ Receipts!NotHere(p)
    BY <1>7, <2>1, <2>3
  <2>4. CASE of # Receipts!None /\ sold[of].store = "apple" /\ sold[of].env = request[p].env
              /\ (~sold[of].ours \/ valid = {}) /\ Receipts!Refuse(p, "rejected")
    <3>1. Receipts!Stands(of) => of \in valid
      BY <1>0, <2>4 DEF Receipts!Stands
    <3> QED BY <1>6, <2>4, <3>1 DEF Receipts!Answers, Receipts!Stands
  <2>5. CASE \E t \in valid : Receipts!Grant(p, t, sold[t].root)
    <3>1. PICK t \in valid : Receipts!Grant(p, t, sold[t].root)
      BY <2>5
    <3>2. t \in DOMAIN sold /\ Receipts!Stands(t)
      BY <1>0, <3>1 DEF ReceiptInv, SoldRight, Receipts!Sales, Receipts!Stands
    <3> QED BY <1>5, <3>1, <3>2
  <2> HIDE DEF valid
  <2> QED BY <2>1, <2>2, <2>3, <2>4, <2>5
<1>11. CASE Receipts!PlayToken(p)
  <2>1. CASE of # Receipts!None /\ sold[of].store = "play" /\ sold[of].pro /\ sold[of].ours
             /\ sold[of].st = "bought"
    <3>1. of \in DOMAIN sold /\ Receipts!Stands(of) /\ Receipts!Grant(p, of, sold[of].root)
      BY <1>0, <1>11, <2>1 DEF Receipts!PlayToken, Receipts!Stands
    <3> QED BY <1>5, <3>1
  <2>2. CASE ~(of # Receipts!None /\ sold[of].store = "play" /\ sold[of].pro /\ sold[of].ours
             /\ sold[of].st = "bought")
    <3>1. Receipts!Refuse(p, "rejected") /\ request[p].env = "play"
      BY <1>11, <2>2 DEF Receipts!PlayToken
    <3> QED BY <1>6, <2>2, <3>1 DEF Receipts!Answers, Receipts!Stands
  <2> QED BY <2>1, <2>2
<1> QED BY <1>3, <1>4, <1>8, <1>9, <1>10, <1>11

LEMMA BooksSell == StoresSell
<1> DEFINE Right(s) == s \in Receipts!Sales /\ (s.st = "pending" => s.store = "play")
<1>1. ASSUME NEW s \in {"apple", "play"}, NEW e \in {"production", "sandbox"}, NEW r \in Nat,
             NEW p \in BOOLEAN, NEW o \in BOOLEAN, NEW st \in {"bought", "pending"},
             st = "pending" => s = "play"
      PROVE  Right(Sold(s, e, r, p, o, st))
  BY <1>1 DEF Sold, Receipts!Sales
<1>2. \A b \in SomeBooks : \E x, y : Right(x) /\ Right(y) /\ b = <<x, y>>
  <2>0. 1 \in Nat /\ 2 \in Nat
    OBVIOUS
  <2>1. /\ Right(Sold("apple", "production", 1, TRUE, TRUE, "bought"))
        /\ Right(Sold("apple", "sandbox", 1, TRUE, TRUE, "bought"))
        /\ Right(Sold("apple", "production", 2, FALSE, TRUE, "bought"))
        /\ Right(Sold("apple", "production", 2, TRUE, TRUE, "bought"))
        /\ Right(Sold("apple", "production", 1, TRUE, FALSE, "bought"))
        /\ Right(Sold("play", "production", 2, TRUE, TRUE, "pending"))
    BY <1>1, <2>0
  <2> HIDE DEF Right
  <2> QED BY <2>1 DEF SomeBooks
<1> HIDE DEF Right
<1>3. ASSUME NEW x, NEW y, Right(x), Right(y), NEW b, b = <<x, y>>
      PROVE  b = [t \in DOMAIN b |-> b[t]] /\ \A t \in DOMAIN b : Right(b[t])
  <2>1. DOMAIN b = {1, 2} /\ b[1] = x /\ b[2] = y
    BY <1>3
  <2>2. b = [t \in DOMAIN b |-> b[t]]
    BY <1>3
  <2> QED BY <2>1, <2>2, <1>3
<1> QED BY <1>2, <1>3 DEF StoresSell, Right

-----------------------------------------------------------------------------
(***************************************************************************)
(* A deployment, from its settings to the documents it stores, whatever settings   *)
(* are deployed.                                                            *)
(***************************************************************************)
\* The clients that the settings lead to, and the stages that come after a check.
BootWires ==
  IF ~tuned.r2 THEN [Boot!NoWires EXCEPT !.kyc = Boot!Reports]
  ELSE [client |-> TRUE, kyc |-> Boot!KycWire.kyc, dedicated |-> Boot!KycWire.dedicated,
    public |-> Boot!PublicWire]
PastIap == {"end", "up"}
PastMapbox == {"iap"} \cup PastIap
PastStripe == {"mapbox"} \cup PastMapbox
PastKyc == {"pepper", "public", "stripe"} \cup PastStripe
PastHygiene == {"cors", "reports", "kyc"} \cup PastKyc

\* What stops a boot is among the operator's own settings and buckets.
BootOwn(id) ==
  \/ id = "hygiene" /\ tuned.dirty
  \/ id = "cors" /\ Boot!Production /\ ~tuned.https
  \/ id = "reports" /\ (~tuned.r2 \/ "reports" \in silent)
  \/ id = "kyc" /\ (~tuned.r2 \/ (tuned.kyc \in {Boot!Off, Boot!Reports} /\ ~tuned.allowShared)
     \/ "kyc" \in silent)
BootChecked ==
  /\ \A f \in raw : f[2] = "fatal" => BootOwn(f[1])
  /\ stage \in PastKyc /\ (~wired.dedicated \/ wired.kyc = Boot!Reports) /\ ~tuned.allowShared
       => <<"kyc", "fatal">> \in raw
  /\ stage \in PastStripe /\ Boot!Production /\ (tuned.stripe \in {Boot!Off, "test"}
     \/ tuned.hooks # "two")
       => <<"stripe", "error">> \in raw
  /\ stage \in PastMapbox /\ Boot!Production /\ tuned.mapbox \in {Boot!Off, "revoked"}
     => <<"mapbox", "error">> \in raw
  /\ stage \in PastIap /\ tuned.iap = "gap" => <<"iap", "error">> \in raw
  /\ stage \in PastHygiene /\ Boot!Production /\ tuned.unset => <<"missing", "error">> \in raw
BootJudged ==
  /\ stage = "up" => /\ \A f \in raw : Boot!ResolveSeverity(f[2]) # "fatal"
                     /\ (\E f \in raw : Boot!ResolveSeverity(f[2]) = "error") => report = "degraded"
  /\ stage = "refused" => \/ ~tuned.r2 \/ ~tuned.strongSecret \/ tuned.retiredUrl
                          \/ \E f \in raw : Boot!ResolveSeverity(f[2]) = "fatal"
BootTyped ==
  /\ stage \in Boot!Stages
  /\ wired \in {Boot!NoWires, BootWires} /\ (stage \notin {"joi", "clients", "refused"}
     => wired = BootWires)
  /\ stage \in {"joi", "clients", "hygiene"} => raw = {}
ScansFit ==
  \A s \in scans : /\ DOMAIN s = {"nr", "at", "row", "kept", "apart"} /\ s.kept \in BOOLEAN
                   /\ IF s.kept THEN Boot!Locate(s.row) = s.at ELSE s.at = Boot!Off
                   /\ s.apart => s.at # Boot!Reports
                   /\ s.row # Boot!Shared => s.row = tuned.kyc
BootInv == BootTyped /\ BootChecked /\ BootJudged /\ ScansFit

-----------------------------------------------------------------------------
LEMMA BootInit == Boot!Init => BootInv
<1> SUFFICES ASSUME Boot!Init PROVE BootInv
  OBVIOUS
<1>1. /\ stage = "joi" /\ wired = Boot!NoWires /\ raw = {} /\ scans = {}
  BY DEF Boot!Init
<1> QED BY <1>1 DEF BootInv, BootTyped, BootChecked, BootJudged, ScansFit, Boot!Stages, PastIap,
           PastMapbox, PastStripe, PastKyc, PastHygiene

\* A step of the boot: the documents stay where they are.
LEMMA ScansStay ==
  ASSUME ScansFit, UNCHANGED scans, tuned'.kyc = tuned.kyc \/ \A s \in scans : s.row = Boot!Shared
  PROVE  ScansFit'
BY DEF ScansFit, Boot!Locate

LEMMA BootStarts ==
  ASSUME BootInv, Boot!Validate \/ Boot!InitClients \/ Boot!Deploy
  PROVE  BootInv'
<1>1. CASE Boot!Validate
  <2>1. /\ UNCHANGED <<tuned, wired, silent, raw, report, scans>> /\ stage' \in {"refused", "clients"}
           /\ raw = {}
        /\ (stage' = "refused" => (~tuned.r2 \/ ~tuned.strongSecret \/ tuned.retiredUrl))
    BY <1>1 DEF Boot!Validate, BootInv, BootTyped
  <2>2. BootTyped'
    BY <2>1 DEF BootInv, BootTyped, Boot!Stages, BootWires, Boot!KycWire, Boot!PublicWire
  <2>3. BootChecked'
    BY <2>1 DEF BootChecked, PastIap, PastMapbox, PastStripe, PastKyc, PastHygiene
  <2>4. BootJudged'
    BY <2>1 DEF BootJudged
  <2>5. ScansFit'
    BY <2>1, ScansStay DEF BootInv
  <2> QED BY <2>2, <2>3, <2>4, <2>5 DEF BootInv
<1>2. CASE Boot!InitClients
  <2>1. UNCHANGED <<tuned, silent, raw, report, scans>> /\ stage' = "hygiene" /\ wired' = BootWires
        /\ raw = {}
    BY <1>2 DEF Boot!InitClients, BootInv, BootTyped, BootWires
  <2>2. BootWires' = BootWires
    BY <2>1 DEF BootWires, Boot!KycWire, Boot!PublicWire
  <2>3. BootTyped'
    BY <2>1, <2>2 DEF BootInv, BootTyped, Boot!Stages
  <2>4. BootChecked'
    BY <2>1 DEF BootChecked, PastIap, PastMapbox, PastStripe, PastKyc, PastHygiene
  <2>5. BootJudged'
    BY <2>1 DEF BootJudged
  <2>6. ScansFit'
    BY <2>1, ScansStay DEF BootInv
  <2> QED BY <2>3, <2>4, <2>5, <2>6 DEF BootInv
<1>3. CASE Boot!Deploy
  <2>1. /\ stage' = "joi" /\ wired' = Boot!NoWires /\ raw' = {} /\ UNCHANGED scans
        /\ (\E s \in scans : s.row # Boot!Shared) => tuned'.kyc = tuned.kyc
    BY <1>3 DEF Boot!Deploy
  <2>2. BootTyped'
    BY <2>1 DEF BootTyped, Boot!Stages
  <2>3. BootChecked'
    BY <2>1 DEF BootChecked, PastIap, PastMapbox, PastStripe, PastKyc, PastHygiene
  <2>4. BootJudged'
    BY <2>1 DEF BootJudged
  <2>5. ScansFit'
    BY <2>1, ScansStay DEF BootInv
  <2> QED BY <2>2, <2>3, <2>4, <2>5 DEF BootInv
<1> QED BY <1>1, <1>2, <1>3

\* A check adds its findings.  Only of four of them is one fatal, and then for a reason.
LEMMA FatalIsOwn ==
  ASSUME BootTyped, stage \in DOMAIN Boot!Order, NEW down \in BOOLEAN,
         NEW f \in Boot!Findings(stage, down), f[2] = "fatal"
  PROVE  /\ f[1] = stage
         /\ stage = "hygiene" => tuned.dirty
         /\ stage = "cors" => Boot!Production /\ ~tuned.https
         /\ stage = "reports" => ~tuned.r2 \/ down
         /\ stage = "kyc" => ~tuned.r2 \/ (tuned.kyc \in {Boot!Off, Boot!Reports} /\ ~tuned.allowShared)
            \/ down
         /\ stage \in {"hygiene", "cors", "reports", "kyc"}
<1>1. wired = BootWires /\ stage \in {"hygiene", "cors", "reports", "kyc", "pepper", "public", "stripe",
      "mapbox", "iap"}
  BY DEF BootTyped, Boot!Order
<1>2. CASE stage = "hygiene"
  BY <1>2 DEF Boot!Findings, Boot!CheckHygiene, Boot!InProduction
<1>3. CASE stage = "cors"
  BY <1>3 DEF Boot!Findings, Boot!CheckCors
<1>4. CASE stage = "reports"
  BY <1>1, <1>4 DEF Boot!Findings, Boot!CheckReportsBucket, BootWires
<1>5. CASE stage = "kyc"
  BY <1>1, <1>5 DEF Boot!Findings, Boot!CheckKycBucket, BootWires, Boot!KycWire
<1>6. CASE stage = "pepper"
  BY <1>6 DEF Boot!Findings, Boot!CheckPepper, Boot!InProduction
<1>7. CASE stage = "public"
  BY <1>7 DEF Boot!Findings, Boot!CheckPublicBucket
<1>8. CASE stage = "stripe"
  BY <1>8 DEF Boot!Findings, Boot!CheckStripe, Boot!InProduction
<1>9. CASE stage = "mapbox"
  BY <1>9 DEF Boot!Findings, Boot!CheckMapbox, Boot!InProduction
<1>10. CASE stage = "iap"
  BY <1>10 DEF Boot!Findings, Boot!CheckIap
<1> QED BY <1>1, <1>2, <1>3, <1>4, <1>5, <1>6, <1>7, <1>8, <1>9, <1>10

\* And what is broken is found, if its check is this one.
LEMMA BrokenIsFound ==
  ASSUME BootTyped, stage \in DOMAIN Boot!Order, NEW down \in BOOLEAN
  PROVE  /\ stage = "kyc" /\ (~wired.dedicated \/ wired.kyc = Boot!Reports) /\ ~tuned.allowShared
              => <<"kyc", "fatal">> \in Boot!Findings(stage, down)
         /\ stage = "stripe" /\ Boot!Production
            /\ (tuned.stripe \in {Boot!Off, "test"} \/ tuned.hooks # "two")
              => <<"stripe", "error">> \in Boot!Findings(stage, down)
         /\ stage = "mapbox" /\ Boot!Production /\ tuned.mapbox \in {Boot!Off, "revoked"}
              => <<"mapbox", "error">> \in Boot!Findings(stage, down)
         /\ stage = "iap" /\ tuned.iap = "gap" => <<"iap", "error">> \in Boot!Findings(stage, down)
         /\ stage = "hygiene" /\ Boot!Production /\ tuned.unset
            => <<"missing", "error">> \in Boot!Findings(stage, down)
<1>1. stage = "kyc" /\ (~wired.dedicated \/ wired.kyc = Boot!Reports) /\ ~tuned.allowShared
        => <<"kyc", "fatal">> \in Boot!Findings(stage, down)
  BY DEF Boot!Findings, Boot!CheckKycBucket
<1>2. stage = "stripe" /\ Boot!Production /\ (tuned.stripe \in {Boot!Off, "test"}
      \/ tuned.hooks # "two")
        => <<"stripe", "error">> \in Boot!Findings(stage, down)
  BY DEF Boot!Findings, Boot!CheckStripe, Boot!InProduction, Boot!Production, Boot!Off
<1>3. stage = "mapbox" /\ Boot!Production /\ tuned.mapbox \in {Boot!Off, "revoked"}
        => <<"mapbox", "error">> \in Boot!Findings(stage, down)
  BY DEF Boot!Findings, Boot!CheckMapbox, Boot!InProduction
<1>4. stage = "iap" /\ tuned.iap = "gap" => <<"iap", "error">> \in Boot!Findings(stage, down)
  BY DEF Boot!Findings, Boot!CheckIap
<1>5. stage = "hygiene" /\ Boot!Production /\ tuned.unset
      => <<"missing", "error">> \in Boot!Findings(stage, down)
  BY DEF Boot!Findings, Boot!CheckHygiene, Boot!InProduction
<1> QED BY <1>1, <1>2, <1>3, <1>4, <1>5

LEMMA BootChecks ==
  ASSUME BootInv, Boot!Check
  PROVE  BootInv'
<1>1. BootTyped /\ BootChecked /\ ScansFit
  BY DEF BootInv
<1>2. PICK down \in BOOLEAN :
        /\ raw' = raw \cup {f \in Boot!Findings(stage, down) : f[2] \notin {"ok", "info"}}
        /\ silent' = IF down THEN silent \cup {stage} ELSE silent
  BY DEF Boot!Check
<1>3. stage \in DOMAIN Boot!Order /\ stage' = Boot!Order[stage]
      /\ UNCHANGED <<tuned, wired, report, scans>>
  BY DEF Boot!Check
<1>4. /\ stage \in {"hygiene", "cors", "reports", "kyc", "pepper", "public", "stripe", "mapbox", "iap"}
      /\ stage' \in {"cors", "reports", "kyc", "pepper", "public", "stripe", "mapbox", "iap", "end"}
      /\ stage' \in PastHygiene => stage \in PastHygiene \/ stage = "hygiene"
      /\ stage' \in PastKyc => stage \in PastKyc \/ stage = "kyc"
      /\ stage' \in PastStripe => stage \in PastStripe \/ stage = "stripe"
      /\ stage' \in PastMapbox => stage \in PastMapbox \/ stage = "mapbox"
      /\ stage' \in PastIap => stage = "iap"
  BY <1>3 DEF Boot!Order, PastIap, PastMapbox, PastStripe, PastKyc, PastHygiene
<1>5. BootWires' = BootWires
  BY <1>3 DEF BootWires, Boot!KycWire, Boot!PublicWire
<1>6. BootTyped'
  BY <1>1, <1>3, <1>4, <1>5 DEF BootTyped, Boot!Stages
<1>7. \A f \in raw' : f[2] = "fatal" => BootOwn(f[1])'
  <2> SUFFICES ASSUME NEW f \in raw', f[2] = "fatal" PROVE BootOwn(f[1])'
    OBVIOUS
  <2>1. \A id : BootOwn(id) => BootOwn(id)'
    BY <1>2, <1>3 DEF BootOwn, Boot!Production
  <2>2. CASE f \in raw
    BY <2>1, <2>2, <1>1 DEF BootChecked
  <2>3. CASE f \in Boot!Findings(stage, down)
    <3>1. /\ f[1] = stage
          /\ stage = "hygiene" => tuned.dirty
          /\ stage = "cors" => Boot!Production /\ ~tuned.https
          /\ stage = "reports" => ~tuned.r2 \/ down
          /\ stage = "kyc" => ~tuned.r2 \/ (tuned.kyc \in {Boot!Off, Boot!Reports}
             /\ ~tuned.allowShared) \/ down
          /\ stage \in {"hygiene", "cors", "reports", "kyc"}
      BY <2>3, <1>1, <1>3, FatalIsOwn
    <3>2. down => stage \in silent'
      BY <1>2
    <3> QED BY <3>1, <3>2, <1>3 DEF BootOwn, Boot!Production
  <2> QED BY <2>2, <2>3, <1>2
<1>8. \A f : f[2] \notin {"ok", "info"} /\ f \in Boot!Findings(stage, down) => f \in raw'
  BY <1>2
<1>9. <<"kyc", "fatal">>[2] = "fatal" /\ \A id : <<id, "error">>[2] = "error"
  OBVIOUS
<1>10. raw \subseteq raw'
  BY <1>2
<1>11. stage' \in PastKyc /\ (~wired'.dedicated \/ wired'.kyc = Boot!Reports) /\ ~tuned'.allowShared
       => <<"kyc", "fatal">> \in raw'
  BY <1>1, <1>3, <1>4, <1>8, <1>9, <1>10, BrokenIsFound DEF BootChecked
<1>12. stage' \in PastStripe /\ Boot!Production'
       /\ (tuned'.stripe \in {Boot!Off, "test"} \/ tuned'.hooks # "two")
       => <<"stripe", "error">> \in raw'
  BY <1>1, <1>3, <1>4, <1>8, <1>9, <1>10, BrokenIsFound DEF BootChecked, Boot!Production
<1>13. stage' \in PastMapbox /\ Boot!Production' /\ tuned'.mapbox \in {Boot!Off, "revoked"}
       => <<"mapbox", "error">> \in raw'
  BY <1>1, <1>3, <1>4, <1>8, <1>9, <1>10, BrokenIsFound DEF BootChecked, Boot!Production
<1>14. stage' \in PastIap /\ tuned'.iap = "gap" => <<"iap", "error">> \in raw'
  BY <1>1, <1>3, <1>4, <1>8, <1>9, <1>10, BrokenIsFound DEF BootChecked
<1>15. stage' \in PastHygiene /\ Boot!Production' /\ tuned'.unset => <<"missing", "error">> \in raw'
  BY <1>1, <1>3, <1>4, <1>8, <1>9, <1>10, BrokenIsFound DEF BootChecked, Boot!Production
<1>16. BootChecked'
  BY <1>7, <1>11, <1>12, <1>13, <1>14, <1>15 DEF BootChecked
<1>17. BootJudged'
  BY <1>4 DEF BootJudged
<1>18. ScansFit'
  BY <1>1, <1>3, ScansStay
<1> QED BY <1>6, <1>16, <1>17, <1>18 DEF BootInv

LEMMA BootEnds ==
  ASSUME BootInv, Boot!OnApplicationBootstrap
  PROVE  BootInv'
<1> DEFINE found == {Boot!ResolveSeverity(f[2]) : f \in raw}
<1>1. /\ stage = "end" /\ UNCHANGED <<tuned, wired, silent, raw, scans>>
      /\ report' = IF "fatal" \in found THEN "fail" ELSE IF "error" \in found THEN "degraded" ELSE "ok"
      /\ stage' = IF "fatal" \in found THEN "refused" ELSE "up"
  BY DEF Boot!OnApplicationBootstrap
<1>2. \A x : (Boot!ResolveSeverity(x)' = Boot!ResolveSeverity(x))
  BY <1>1 DEF Boot!ResolveSeverity, Boot!Production
<1>3. BootTyped'
  BY <1>1 DEF BootInv, BootTyped, Boot!Stages, BootWires, Boot!KycWire, Boot!PublicWire
<1>4. BootChecked'
  BY <1>1 DEF BootInv, BootChecked, PastIap, PastMapbox, PastStripe, PastKyc, PastHygiene,
     BootOwn, Boot!Production
<1>5. BootJudged'
  <2>1. \A x : (x \in found <=> \E f \in raw : Boot!ResolveSeverity(f[2]) = x)
    OBVIOUS
  <2>2. stage' = "up" => (\A f \in raw : Boot!ResolveSeverity(f[2]) # "fatal")
    BY <1>1, <2>1
  <2>3. stage' = "up" /\ (\E f \in raw : Boot!ResolveSeverity(f[2]) = "error") => report' = "degraded"
    BY <1>1, <2>1
  <2>4. stage' = "refused" => \E f \in raw : Boot!ResolveSeverity(f[2]) = "fatal"
    BY <1>1, <2>1
  <2> HIDE DEF found
  <2>5. raw' = raw
    BY <1>1
  <2> QED BY <1>2, <2>2, <2>3, <2>4, <2>5 DEF BootJudged
<1>6. ScansFit'
  BY <1>1, ScansStay DEF BootInv
<1> QED BY <1>3, <1>4, <1>5, <1>6 DEF BootInv

\* The documents come and go while the process serves.
LEMMA BootServes ==
  ASSUME BootInv, Boot!KycPutObject \/ Boot!KycDeleteObject \/ Boot!KycDeletePrefix
  PROVE  BootInv'
<1>1. /\ stage = "up" /\ wired.client /\ UNCHANGED <<tuned, stage, wired, silent, raw, report>>
  BY DEF Boot!KycPutObject, Boot!KycDeleteObject, Boot!KycDeletePrefix
<1>2. BootTyped /\ BootChecked /\ BootJudged /\ ScansFit /\ wired = BootWires
  BY <1>1 DEF BootInv, BootTyped
<1>3. BootTyped'
  BY <1>1, <1>2 DEF BootTyped, BootWires, Boot!KycWire, Boot!PublicWire
<1>4. BootChecked'
  BY <1>1, <1>2 DEF BootChecked, BootOwn, Boot!Production
<1>5. BootJudged'
  BY <1>1, <1>2 DEF BootJudged, Boot!ResolveSeverity, Boot!Production
<1>6. /\ wired.dedicated => wired.kyc = tuned.kyc /\ tuned.kyc # Boot!Off
      /\ ~ wired.dedicated => wired.kyc = Boot!Reports
      /\ tuned.kyc # Boot!Off => wired.dedicated
  <2>1. tuned.r2
    BY <1>1, <1>2 DEF BootWires, Boot!NoWires
  <2> QED BY <2>1, <1>2 DEF BootWires, Boot!KycWire
<1>7. CASE Boot!KycPutObject
  <2> DEFINE wide == Boot!Production /\ tuned.strict /\ ~tuned.allowShared
  <2> DEFINE name == IF wired.dedicated THEN wired.kyc ELSE Boot!Shared
  <2> DEFINE new == Boot!Scan(Boot!Cardinality(scans), wired.kyc, name, wide)
  <2>1. scans' = scans \cup {new}
    BY <1>7 DEF Boot!KycPutObject
  <2>2. new.kept = TRUE /\ new.at = wired.kyc /\ new.row = name /\ new.apart = wide
        /\ DOMAIN new = {"nr", "at", "row", "kept", "apart"}
    BY DEF Boot!Scan
  <2>3. Boot!Locate(name) = wired.kyc
    BY <1>6 DEF Boot!Locate, Boot!Shared, Boot!Off, Boot!Reports
  <2>4. wide => wired.kyc # Boot!Reports
    <3>1. ASSUME wide, wired.kyc = Boot!Reports PROVE FALSE
      <4>1. <<"kyc", "fatal">> \in raw
        BY <1>1, <1>2, <3>1 DEF BootChecked, PastKyc, PastStripe, PastMapbox, PastIap
      <4>2. Boot!ResolveSeverity("fatal") = "fatal"
        BY <3>1 DEF Boot!ResolveSeverity
      <4> QED BY <1>1, <1>2, <4>1, <4>2 DEF BootJudged
    <3> QED BY <3>1
  <2>5. name # Boot!Shared => name = tuned.kyc
    BY <1>6
  <2> HIDE DEF wide, name, new
  <2>6. ScansFit'
    BY <2>1, <2>2, <2>3, <2>4, <2>5, <1>1, <1>2 DEF ScansFit, Boot!Locate
  <2> QED BY <2>6, <1>3, <1>4, <1>5 DEF BootInv
<1>8. CASE Boot!KycDeleteObject
  <2>1. PICK s \in scans : s.kept
             /\ scans' = (scans \ {s}) \cup {IF Boot!Locate(s.row) = s.at THEN Boot!Gone(s)
                                       ELSE [s EXCEPT !.kept = FALSE]}
    BY <1>8 DEF Boot!KycDeleteObject
  <2>2. Boot!Locate(s.row) = s.at
    BY <2>1, <1>2 DEF ScansFit
  <2>3. scans' = (scans \ {s}) \cup {Boot!Gone(s)}
    BY <2>1, <2>2
  <2>4. /\ Boot!Gone(s).kept = FALSE /\ Boot!Gone(s).at = Boot!Off /\ Boot!Gone(s).row = s.row
        /\ Boot!Gone(s).apart = s.apart /\ DOMAIN Boot!Gone(s) = DOMAIN s
    BY <1>2 DEF ScansFit, Boot!Gone
  <2>5. \A d \in scans' : d \in scans \/ d = Boot!Gone(s)
    BY <2>3
  <2> HIDE DEF Boot!Gone
  <2>6. ScansFit'
    BY <2>4, <2>5, <1>1, <1>2 DEF ScansFit, Boot!Locate, Boot!Off, Boot!Reports
  <2> QED BY <2>6, <1>3, <1>4, <1>5 DEF BootInv
<1>9. CASE Boot!KycDeletePrefix
  <2>1. scans' = {IF s.at \in Boot!Swept THEN Boot!Gone(s) ELSE [s EXCEPT !.kept = FALSE] : s \in scans}
    BY <1>9 DEF Boot!KycDeletePrefix
  <2>2. \A s \in scans : s.at \in Boot!Swept \cup {Boot!Off}
    <3>1. \A s \in scans : s.kept => s.at = Boot!Reports \/ (s.at = tuned.kyc /\ tuned.kyc # Boot!Off)
      BY <1>2 DEF ScansFit, Boot!Locate, Boot!Shared, Boot!Off
    <3> QED BY <3>1, <1>2, <1>6 DEF ScansFit, Boot!Swept
  <2>3. \A s \in scans : /\ Boot!Gone(s).kept = FALSE /\ Boot!Gone(s).at = Boot!Off
                            /\ Boot!Gone(s).row = s.row
                         /\ Boot!Gone(s).apart = s.apart /\ DOMAIN Boot!Gone(s) = DOMAIN s
    BY <1>2 DEF ScansFit, Boot!Gone
  <2>4. \A s \in scans : LET g == [s EXCEPT !.kept = FALSE]
          IN g.kept = FALSE /\ g.at = s.at /\ g.row = s.row /\ g.apart = s.apart /\ DOMAIN g = DOMAIN s
    BY <1>2 DEF ScansFit
  <2>5. ASSUME NEW d \in scans' PROVE \E s \in scans : /\ d.kept = FALSE /\ d.at = Boot!Off
                                                          /\ d.row = s.row
                                                     /\ d.apart = s.apart /\ DOMAIN d = DOMAIN s
    <3>1. PICK s \in scans : d = IF s.at \in Boot!Swept THEN Boot!Gone(s) ELSE [s EXCEPT !.kept = FALSE]
      BY <2>1
    <3> HIDE DEF Boot!Gone
    <3>2. CASE s.at \in Boot!Swept
      BY <3>1, <3>2, <2>3
    <3>3. CASE s.at \notin Boot!Swept
      BY <3>1, <3>3, <2>2, <2>4
    <3> QED BY <3>2, <3>3
  <2>6. ScansFit'
    BY <2>5, <1>1, <1>2 DEF ScansFit, Boot!Locate, Boot!Off, Boot!Reports
  <2> QED BY <2>6, <1>3, <1>4, <1>5 DEF BootInv
<1> QED BY <1>7, <1>8, <1>9

LEMMA BootStep ==
  ASSUME BootInv, [Boot!Next]_Boot!bootVars
  PROVE  BootInv'
<1>1. CASE UNCHANGED Boot!bootVars
  BY <1>1 DEF Boot!bootVars, BootInv, BootTyped, BootChecked, BootJudged, ScansFit, BootWires,
     Boot!KycWire, Boot!PublicWire, BootOwn, Boot!Production, Boot!ResolveSeverity, Boot!Locate
<1>2. CASE Boot!Next
  BY <1>2, BootStarts, BootChecks, BootEnds, BootServes DEF Boot!Next
<1> QED BY <1>1, <1>2

\* What is promised of a deployment.
LEMMA BootPromises ==
  ASSUME BootInv
  PROVE  Boot!BootHolds /\ Boot!DocumentsAreFound
<1>1. Boot!DocumentsApart
  BY DEF BootInv, BootTyped, ScansFit, Boot!DocumentsApart, BootWires, Boot!KycWire,
     Boot!PublicWire, Boot!NoWires
<1>2. Boot!OthersDoNotStop
  <2> SUFFICES ASSUME stage = "refused", Boot!InOrder, silent \cap {"reports", "kyc"} = {} PROVE FALSE
    BY DEF Boot!OthersDoNotStop
  <2>1. PICK f \in raw : Boot!ResolveSeverity(f[2]) = "fatal"
    BY DEF BootInv, BootJudged, Boot!InOrder
  <2>2. f[2] = "fatal"
    BY <2>1 DEF Boot!ResolveSeverity
  <2>3. BootOwn(f[1])
    BY <2>2 DEF BootInv, BootChecked
  <2> QED BY <2>3 DEF BootOwn, Boot!InOrder
<1>3. Boot!BrokenIsSaid
  <2> SUFFICES ASSUME stage = "up", Boot!Production, Boot!Broken PROVE report = "degraded"
    BY DEF Boot!BrokenIsSaid
  <2>1. PICK id \in {"stripe", "mapbox", "iap", "missing"} : <<id, "error">> \in raw
    BY DEF BootInv, BootChecked, Boot!Broken, PastIap, PastMapbox, PastStripe, PastKyc, PastHygiene
  <2>2. <<id, "error">>[2] = "error" /\ Boot!ResolveSeverity("error") = "error"
    BY DEF Boot!ResolveSeverity
  <2>3. \E f \in raw : Boot!ResolveSeverity(f[2]) = "error"
    BY <2>1, <2>2
  <2> QED BY <2>3 DEF BootInv, BootJudged
<1>4. Boot!DocumentsAreFound
  BY DEF BootInv, ScansFit, Boot!DocumentsAreFound
<1> QED BY <1>1, <1>2, <1>3, <1>4 DEF Boot!BootHolds

-----------------------------------------------------------------------------
(***************************************************************************)
(* What is shown of an order that moves on while it is read.                   *)
(***************************************************************************)
\* An order that came to its report is not worked on any more, and one that is over stays
\* so: what a reader knows of it lies behind it.
PastWork == {"SUBMITTED", "APPROVED", "DISPUTED", "COMPLETED", "REFUNDED"}
ReadBefore == \A r \in Readers : /\ reader[r].st \in PastWork => watched.st \in PastWork
                                 /\ reader[r].st = "COMPLETED" => watched.st = "COMPLETED"
Watched == watched \in [st : Views!Statuses, by : Inspectors \cup {NoOne}]
Reads == reader \in [Readers -> [who : Views!People \cup {NoOne}, st : Views!Statuses,
                                 by : Inspectors \cup {NoOne}]]
ViewInv == Watched /\ Reads /\ page \in [Readers -> Views!OrderDetail] /\ ReadBefore

LEMMA ViewInit == Views!Init => ViewInv
BY DEF Views!Init, ViewInv, Watched, Reads, ReadBefore, PastWork, Views!Statuses, Views!Idle,
   Views!Hidden, Views!OrderDetail

\* No handler takes an order back to where it was.
LEMMA OrderMovesOn ==
  ASSUME Watched, Views!Handled
  PROVE  /\ Watched'
         /\ watched.st \in PastWork => watched'.st \in PastWork
         /\ watched.st = "COMPLETED" => watched'.st = "COMPLETED"
<1> DEFINE On == /\ watched' \in [st : Views!Statuses, by : Inspectors \cup {NoOne}]
                 /\ watched.st \in PastWork => watched'.st \in PastWork
                 /\ watched.st = "COMPLETED" => watched'.st = "COMPLETED"
<1>0. Views!Pool \cap PastWork = {} /\ "COMPLETED" \in PastWork /\ "ASSIGNED" \in Views!Statuses
  BY DEF Views!Pool, PastWork, Views!Statuses
<1>1. watched' = watched => On
  BY DEF Watched
<1>2. ASSUME NEW i \in Inspectors \cup {NoOne}, watched.st \in Views!Pool,
             watched' = [watched EXCEPT !.by = i] PROVE On
  BY <1>0, <1>2 DEF Watched
<1>3. Views!Assign => On
  <2>1. Views!Assign => watched.st \in Views!Pool /\ watched' = [watched EXCEPT !.st = "ASSIGNED"]
    BY DEF Views!Assign
  <2> QED BY <1>0, <2>1 DEF Watched
<1>4. Views!Move => On
  <2> SUFFICES ASSUME NEW st \in Views!OrderTransitions[watched.st] \ {"ASSIGNED"},
                      watched' = [watched EXCEPT !.st = st]
               PROVE  On
    BY DEF Views!Move
  <2> DEFINE s == watched.st
  <2>0. s \in Views!Statuses /\ st \in Views!OrderTransitions[s]
    BY DEF Watched
  <2> HIDE DEF s
  <2>1. st \in Views!Statuses /\ (s \in PastWork => st \in PastWork) /\ s # "COMPLETED"
    BY <2>0 DEF Views!OrderTransitions, Views!Statuses, PastWork
  <2> USE DEF s
  <2> QED BY <2>1 DEF Watched
<1>5. On
  <2>1. CASE \E i \in Inspectors : Views!Dispatch(i) \/ Views!Claim(i)
    <3>1. \/ watched' = watched
          \/ \E i \in Inspectors : watched.st \in Views!Pool /\ watched' = [watched EXCEPT !.by = i]
      BY <2>1 DEF Views!Dispatch, Views!Claim
    <3> HIDE DEF On
    <3> QED BY <3>1, <1>1, <1>2
  <2>2. CASE Views!GiveBack
    <3>1. watched.st \in Views!Pool /\ watched' = [watched EXCEPT !.by = NoOne]
      BY <2>2 DEF Views!GiveBack
    <3> HIDE DEF On
    <3> QED BY <3>1, <1>2
  <2>3. Views!DeclineOffer \/ Views!ExpireStaleOffers \/ Views!Report \/ Views!Erase \/ Views!OfferAges
          => watched' = watched
    BY DEF Views!DeclineOffer, Views!ExpireStaleOffers, Views!Report, Views!Erase, Views!OfferAges
  <2> HIDE DEF On
  <2> QED BY <2>1, <2>2, <2>3, <1>1, <1>3, <1>4 DEF Views!Handled
<1> QED BY <1>5 DEF Watched

LEMMA ViewStep == ViewInv /\ (Views!Next \/ UNCHANGED Views!viewVars) => ViewInv'
<1> SUFFICES ASSUME ViewInv, Views!Next \/ UNCHANGED Views!viewVars PROVE ViewInv'
  OBVIOUS
<1>1. CASE Views!Handled /\ UNCHANGED reader /\ page' = [r \in Readers |-> Views!Hidden]
  <2>1. page' \in [Readers -> Views!OrderDetail] /\ Reads'
    BY <1>1 DEF ViewInv, Reads, Views!Hidden, Views!OrderDetail
  <2> QED BY <1>1, <2>1, OrderMovesOn DEF ViewInv, ReadBefore
<1>2. ASSUME NEW r \in Readers, Views!ReadOrder(r) PROVE ViewInv'
  <2>1. PICK u \in Views!People :
             reader' = [reader EXCEPT ![r] = [who |-> u, st |-> watched.st, by |-> watched.by]]
    BY <1>2 DEF Views!ReadOrder
  <2>2. page' \in [Readers -> Views!OrderDetail] /\ watched' = watched
    BY <1>2 DEF Views!ReadOrder, Views!world, ViewInv, Views!Hidden, Views!OrderDetail
  <2>3. Reads' /\ reader'[r].st = watched.st /\ \A q \in Readers : q # r => reader'[q] = reader[q]
    BY <2>1 DEF ViewInv, Reads, Watched
  <2> QED BY <2>2, <2>3 DEF ViewInv, ReadBefore, Watched
<1>3. ASSUME NEW r \in Readers, Views!GetDetail(r) PROVE ViewInv'
  <2>1. watched' = watched /\ reader' = [reader EXCEPT ![r] = Views!Idle]
    BY <1>3 DEF Views!GetDetail, Views!world
  <2>2. Reads' /\ reader'[r].st = "CREATED" /\ \A q \in Readers : q # r => reader'[q] = reader[q]
    BY <2>1 DEF ViewInv, Reads, Views!Idle, Views!Statuses
  <2>3. Views!Detail(reader[r].who, reader[r].st, reader[r].by) \in Views!OrderDetail
    BY DEF Views!Detail, Views!OrderDetail, ViewInv
  <2>4. page' \in [Readers -> Views!OrderDetail]
    BY <1>3, <2>3 DEF Views!GetDetail, ViewInv, Views!Hidden, Views!OrderDetail
  <2> QED BY <2>1, <2>2, <2>4 DEF ViewInv, ReadBefore, Watched, PastWork
<1>4. CASE UNCHANGED Views!viewVars
  BY <1>4 DEF Views!viewVars, Views!world, ViewInv, Watched, Reads, ReadBefore
<1> QED BY <1>1, <1>2, <1>3, <1>4 DEF Views!Next

LEMMA PagesShowAtMost == ViewInv /\ (Views!Next \/ UNCHANGED Views!viewVars) => Views!ShownAtMost
<1> SUFFICES ASSUME ViewInv, Views!Next \/ UNCHANGED Views!viewVars,
                    NEW r \in Readers, page'[r] # page[r], page'[r] # Views!Hidden
             PROVE  /\ page'[r].inspector => /\ reader[r].by \notin forgotten
                                             /\ reader[r].who = "admin" \/ watched.st = "COMPLETED"
                    /\ page'[r].report => filed \/ watched.st \notin Views!ActiveStatuses
  BY DEF Views!ShownAtMost
<1>1. Views!GetDetail(r)
  BY DEF Views!Next, Views!viewVars, Views!ReadOrder, Views!GetDetail, ViewInv
<1> DEFINE d == Views!Detail(reader[r].who, reader[r].st, reader[r].by)
<1>2. page'[r] = d
  BY <1>1 DEF Views!GetDetail, ViewInv
<1>3. d.inspector => reader[r].by \notin forgotten
      /\ (reader[r].who = "admin" \/ reader[r].st = "COMPLETED")
  BY DEF Views!Detail, Views!ResolveContact, Views!DisclosedToCustomer
<1>4. d.report => reader[r].st \in PastWork
  BY DEF Views!Detail, Views!SubmittedOrLater, PastWork
<1>5. PastWork \cap Views!ActiveStatuses = {}
  BY DEF PastWork, Views!ActiveStatuses
<1> QED BY <1>2, <1>3, <1>4, <1>5 DEF ViewInv, ReadBefore

-----------------------------------------------------------------------------
(***************************************************************************)
(* The gate before an order that a report completes.                         *)
(***************************************************************************)
Walk == {"front", "boot", "rim"}
OldWalk == {"front"}
Stations == {"hood", "sill"}
OldStations == {"hood"}
BuildOf == [build : Completeness!Builds, has : SUBSET Completeness!Elements,
            rows : SUBSET Completeness!DamageRows]

\* A payload holds nothing but what its build asks for.
PayloadFits(d) ==
  /\ d \in Completeness!Payloads
  /\ d.structured = (d.from # "flat") /\ d.method = (d.from = "cabin")
  /\ d.has \subseteq Completeness!Shown(d.from, d.rows)
PhoneFits == phone \in BuildOf /\ phone.has \subseteq Completeness!Shown(phone.build, phone.rows)
SheetFits ==
  /\ sheet \in [data : Completeness!Payloads, by : {"none", "mine", "other"},
                for : {"nothing", "itself", "order"}]
  /\ PayloadFits(sheet.data)
AskedFits ==
  /\ asked \in [op : {"none", "create", "attach"}, data : Completeness!Payloads, gated : BOOLEAN]
  /\ PayloadFits(asked.data)
\* What is judged is what is stored, and what passed is whole.
Judged ==
  /\ step # "idle" => asked.op # "none"
  /\ step # "idle" /\ asked.op = "attach"
       => asked.data = sheet.data /\ sheet.by # "other" /\ Completeness!VehicleMatches
  /\ step \in {"link", "write"} /\ asked.gated
       => asked.data.structured /\ Completeness!Missing(asked.data) = {}
GateInv == PhoneFits /\ SheetFits /\ AskedFits /\ Judged

LEMMA EvidenceGrows ==
  /\ Completeness!Exterior(OldWalk) \subseteq Completeness!Exterior(Walk)
  /\ Completeness!Thickness(OldStations) \subseteq Completeness!Thickness(Stations)
BY DEF Completeness!Exterior, Completeness!Thickness, OldWalk, Walk, OldStations, Stations

LEMMA ShownByBuild ==
  ASSUME NEW rows
  PROVE  \A b \in Completeness!Builds :
           LET shown == Completeness!Shown(b, rows) IN
           /\ Completeness!Calibration \cup Completeness!Wheels \subseteq shown
           /\ Completeness!Exterior(OldWalk) \subseteq shown
           /\ Completeness!Thickness(OldStations) \subseteq shown
           /\ b \notin {"flat", "eight"} => Completeness!Exterior(Walk) \subseteq shown
           /\ b \in {"sills", "cabin"} => Completeness!Thickness(Stations) \subseteq shown
           /\ b = "cabin" => Completeness!Interior \cup Completeness!Damage(rows) \subseteq shown
BY EvidenceGrows DEF Completeness!Shown, Completeness!Builds, OldWalk, Walk, OldStations, Stations

LEMMA CabinShowsAll ==
  ASSUME NEW rows, NEW b \in Completeness!Builds
  PROVE  Completeness!Shown(b, rows) \subseteq Completeness!Shown("cabin", rows)
BY EvidenceGrows DEF Completeness!Shown, Completeness!Builds, OldWalk, Walk, OldStations, Stations

LEMMA ShownAreElements ==
  ASSUME NEW rows \in SUBSET Completeness!DamageRows, NEW b \in Completeness!Builds
  PROVE  Completeness!Shown(b, rows) \subseteq Completeness!Elements
<1>1. Completeness!Damage(rows) \subseteq Completeness!Damage(Completeness!DamageRows)
  BY DEF Completeness!Damage
<1>2. Completeness!Shown("cabin", rows) \subseteq Completeness!Elements
  BY <1>1 DEF Completeness!Shown, Completeness!Elements
<1> QED BY <1>2, CabinShowsAll

\* What an older build cannot have taken.
LEMMA OlderShowsLess ==
  ASSUME NEW rows, NEW b \in Completeness!Builds
  PROVE  /\ b \in {"flat", "eight"} => \A a : <<"exterior", "photo", a>> \in Completeness!Shown(b, rows)
            => a \in OldWalk
         /\ b \in {"flat", "eight", "seventeen"}
              => \A p \in Stations : Completeness!Thickness({p}) \cap Completeness!Shown(b, rows) # {}
                => p \in OldStations
<1>1. \A w, p : /\ <<"thickness", w, p>> \notin Completeness!Calibration \cup Completeness!Wheels
                /\ \A S : <<"thickness", w, p>> \notin Completeness!Exterior(S)
  BY DEF Completeness!Calibration, Completeness!Wheels, Completeness!Exterior
<1>2. \A a : /\ <<"exterior", "photo", a>> \notin Completeness!Calibration \cup Completeness!Wheels
             /\ \A S : <<"exterior", "photo", a>> \notin Completeness!Thickness(S)
  BY DEF Completeness!Calibration, Completeness!Wheels, Completeness!Thickness
<1>3. ASSUME b \in {"flat", "eight"}, NEW a, <<"exterior", "photo", a>> \in Completeness!Shown(b, rows)
      PROVE  a \in OldWalk
  <2>1. <<"exterior", "photo", a>> \in Completeness!Exterior(OldWalk)
    BY <1>2, <1>3 DEF Completeness!Shown, OldWalk
  <2> QED BY <2>1 DEF Completeness!Exterior
<1>4. ASSUME b \in {"flat", "eight", "seventeen"}, NEW p \in Stations,
             Completeness!Thickness({p}) \cap Completeness!Shown(b, rows) # {}
      PROVE  p \in OldStations
  <2>1. PICK w \in {"um", "photo"} : <<"thickness", w, p>> \in Completeness!Shown(b, rows)
    BY <1>4 DEF Completeness!Thickness
  <2>2. <<"thickness", w, p>> \in Completeness!Thickness(OldStations)
    BY <1>1, <1>4, <2>1 DEF Completeness!Shown, OldStations
  <2> QED BY <2>2 DEF Completeness!Thickness
<1> QED BY <1>3, <1>4

\* A payload that misses nothing is whole by the newest rule it shows any knowledge of.
LEMMA NothingMissingIsWhole ==
  ASSUME NEW d, d.structured, Completeness!Missing(d) = {}
  PROVE  Completeness!Whole(d)
<1> DEFINE photographed == Completeness!Captured(d)
           walk == Completeness!Resolve(Walk, OldWalk, photographed)
           measured == Completeness!Mentioned(d)
           stations == Completeness!Resolve(Stations, OldStations, measured)
<1>1. /\ Completeness!Exterior(walk) \cup Completeness!Thickness(stations) \subseteq d.has
      /\ Completeness!Calibration \cup Completeness!Wheels \subseteq d.has
      /\ d.method => Completeness!Interior \cup Completeness!Damage(d.rows) \subseteq d.has
  BY DEF Completeness!Missing, Walk, OldWalk, Stations, OldStations
<1>2. photographed \subseteq Walk /\ measured \subseteq Stations
  BY DEF Completeness!Captured, Completeness!Mentioned, Walk, Stations
<1>3. /\ walk = Walk \/ (walk = OldWalk /\ photographed \subseteq OldWalk)
      /\ stations = Stations \/ (stations = OldStations /\ measured \subseteq OldStations)
  BY <1>2 DEF Completeness!Resolve
<1> HIDE DEF photographed, walk, measured, stations
<1>4. /\ Completeness!Exterior(IF photographed \subseteq OldWalk THEN OldWalk ELSE Walk) \subseteq d.has
      /\ Completeness!Thickness(IF measured \subseteq OldStations THEN OldStations
         ELSE Stations) \subseteq d.has
  BY <1>1, <1>3, EvidenceGrows
<1> QED BY <1>1, <1>4 DEF Completeness!Whole, photographed, measured, Walk, OldWalk, Stations,
           OldStations

\* A payload that misses something lacks what its own build shows.
LEMMA MissingWasShown ==
  ASSUME NEW d, PayloadFits(d), d.structured, Completeness!Missing(d) # {}
  PROVE  \E e \in Completeness!Shown(d.from, d.rows) : e \notin d.has
<1> DEFINE photographed == Completeness!Captured(d)
           walk == Completeness!Resolve(Walk, OldWalk, photographed)
           measured == Completeness!Mentioned(d)
           stations == Completeness!Resolve(Stations, OldStations, measured)
           shown == Completeness!Shown(d.from, d.rows)
<1> SUFFICES ASSUME shown \subseteq d.has PROVE FALSE
  OBVIOUS
<1>0. d.from \in Completeness!Builds /\ d.method = (d.from = "cabin") /\ d.has \subseteq shown
  BY DEF PayloadFits, Completeness!Payloads
<1>1. OldWalk \subseteq photographed /\ OldStations \subseteq measured
  <2>1. Completeness!Exterior(OldWalk) \cup Completeness!Thickness(OldStations) \subseteq d.has
    BY <1>0, ShownByBuild
  <2>2. <<"exterior", "photo", "front">> \in d.has /\ <<"thickness", "um", "hood">> \in d.has
    BY <2>1 DEF Completeness!Exterior, Completeness!Thickness, OldWalk, OldStations
  <2> QED BY <2>2 DEF Completeness!Captured, Completeness!Mentioned, Completeness!Thickness,
             OldWalk, OldStations
<1>2. d.from \in {"flat", "eight"} => photographed \subseteq OldWalk
  BY <1>0, OlderShowsLess DEF Completeness!Captured
<1>3. d.from \in {"flat", "eight", "seventeen"} => measured \subseteq OldStations
  BY <1>0, OlderShowsLess DEF Completeness!Mentioned, Stations
<1>4. /\ d.from \in {"flat", "eight"} => walk = OldWalk
      /\ d.from \in {"flat", "eight", "seventeen"} => stations = OldStations
  BY <1>1, <1>2, <1>3 DEF Completeness!Resolve
<1>5. walk \in {Walk, OldWalk} /\ stations \in {Stations, OldStations}
  BY DEF Completeness!Resolve
<1>6. Completeness!Exterior(walk) \subseteq shown /\ Completeness!Thickness(stations) \subseteq shown
  <2> HIDE DEF walk, stations, shown
  <2>1. d.from \in Completeness!Builds /\ (d.from \notin {"flat", "eight", "seventeen"}
        => d.from \in {"sills", "cabin"})
    BY <1>0 DEF Completeness!Builds
  <2> QED BY <1>4, <1>5, <2>1, ShownByBuild DEF shown
<1>7. Completeness!Missing(d) \subseteq shown \ d.has
  <2>1. /\ Completeness!Calibration \cup Completeness!Wheels \subseteq shown
        /\ d.method => Completeness!Interior \cup Completeness!Damage(d.rows) \subseteq shown
    BY <1>0, ShownByBuild
  <2> QED BY <1>6, <2>1 DEF Completeness!Missing, Walk, OldWalk, Stations, OldStations
<1> QED BY <1>7

LEMMA PayloadsFit ==
  ASSUME NEW p \in BuildOf, p.has \subseteq Completeness!Shown(p.build, p.rows)
  PROVE  PayloadFits(Completeness!Payload(p))
<1> DEFINE d == Completeness!Payload(p)
<1>1. d \in Completeness!Payloads /\ d.from = p.build /\ d.has = p.has /\ d.rows = p.rows
      /\ d.structured = (p.build # "flat") /\ d.method = (p.build = "cabin")
  BY DEF Completeness!Payload, Completeness!Payloads, BuildOf
<1> HIDE DEF d
<1>2. PayloadFits(d)
  BY <1>1 DEF PayloadFits
<1> QED BY <1>2 DEF d

LEMMA NothingFits == PayloadFits(Completeness!NoRow.data)
<1> DEFINE p == [build |-> "flat", has |-> {}, rows |-> {}]
<1>1. p \in BuildOf /\ p.has \subseteq Completeness!Shown(p.build, p.rows)
  BY DEF BuildOf, Completeness!Builds
<1>2. Completeness!NoRow.data = Completeness!Payload(p)
  BY DEF Completeness!NoRow
<1> QED BY <1>1, <1>2, PayloadsFit

LEMMA GateInit == Completeness!Init => GateInv
<1> SUFFICES ASSUME Completeness!Init PROVE GateInv
  OBVIOUS
<1>1. PICK b \in Completeness!Builds, rows \in {{}} \cup {{r} : r \in Completeness!DamageRows},
           skipped \in SomeSkips :
        phone = [build |-> b, rows |-> rows,
                 has |-> Completeness!Shown(b, rows) \ (skipped \cup Completeness!Damage({"nameless"}))]
  BY DEF Completeness!Init
<1>2. rows \in SUBSET Completeness!DamageRows
  BY DEF Completeness!DamageRows
<1>3. PhoneFits
  <2> DEFINE shown == Completeness!Shown(b, rows)
  <2>1. shown \subseteq Completeness!Elements
    BY <1>2, ShownAreElements
  <2>2. phone.build = b /\ phone.rows = rows /\ phone.has \subseteq shown
        /\ phone = [build |-> b, rows |-> rows, has |-> phone.has]
    BY <1>1
  <2> HIDE DEF shown
  <2>3. phone \in BuildOf
    BY <1>2, <2>1, <2>2 DEF BuildOf
  <2> QED BY <2>2, <2>3 DEF PhoneFits, shown
<1>4. sheet = Completeness!NoRow /\ asked = Completeness!NoRequest /\ step = "idle"
  BY DEF Completeness!Init
<1>5. SheetFits /\ AskedFits
  <2>1. Completeness!NoRow.data \in Completeness!Payloads
    BY NothingFits DEF PayloadFits
  <2> DEFINE none == Completeness!NoRow.data
  <2>2. sheet = [data |-> none, by |-> "none", for |-> "nothing"]
        /\ asked = [op |-> "none", data |-> none, gated |-> FALSE]
    BY <1>4 DEF Completeness!NoRow, Completeness!NoRequest
  <2> HIDE DEF none
  <2>3. sheet.data = none /\ asked.data = none
    BY <2>2
  <2>4. none \in Completeness!Payloads /\ PayloadFits(none)
    BY <2>1, NothingFits DEF none
  <2> QED BY <2>2, <2>3, <2>4 DEF SheetFits, AskedFits
<1> QED BY <1>3, <1>4, <1>5 DEF GateInv, Judged

LEMMA AppCollects ==
  ASSUME GateInv, Completeness!Collect
  PROVE  GateInv'
<1>1. UNCHANGED <<sheet, standing, floor, holder, cars, step, asked>> /\ phone \in BuildOf
      /\ phone.has \subseteq Completeness!Shown(phone.build, phone.rows)
  BY DEF Completeness!Collect, GateInv, PhoneFits
<1>4. (SheetFits /\ AskedFits /\ Judged)'
  BY <1>1 DEF GateInv, SheetFits, AskedFits, Judged, Completeness!VehicleMatches,
     Completeness!Both, Completeness!Same
<1>2. CASE \E e \in Completeness!Shown(phone.build, phone.rows) \ phone.has :
             phone' = [phone EXCEPT !.has = @ \cup {e}]
  <2>1. PICK e \in Completeness!Shown(phone.build, phone.rows) :
             phone' = [phone EXCEPT !.has = @ \cup {e}]
    BY <1>2
  <2>2. Completeness!Shown(phone.build, phone.rows) \subseteq Completeness!Elements
    BY <1>1, ShownAreElements DEF BuildOf
  <2>3. phone' \in BuildOf /\ phone'.build = phone.build /\ phone'.rows = phone.rows
        /\ phone'.has = phone.has \cup {e}
    BY <1>1, <2>1, <2>2 DEF BuildOf
  <2> QED BY <1>1, <1>4, <2>1, <2>3 DEF PhoneFits, GateInv
<1>3. CASE phone' = [phone EXCEPT !.build = "cabin"]
  <2>1. phone' \in BuildOf /\ phone'.build = "cabin" /\ phone'.rows = phone.rows
        /\ phone'.has = phone.has
    BY <1>1, <1>3 DEF BuildOf, Completeness!Builds
  <2>2. phone.build \in Completeness!Builds
    BY <1>1 DEF BuildOf
  <2> QED BY <1>1, <1>4, <2>1, <2>2, CabinShowsAll DEF PhoneFits, GateInv
<1> QED BY <1>2, <1>3 DEF Completeness!Collect

LEMMA RowsAreFiled ==
  ASSUME GateInv, Completeness!Create \/ Completeness!Update
  PROVE  GateInv'
<1> DEFINE d == Completeness!Payload(phone)
<1>1. d \in Completeness!Payloads /\ PayloadFits(d)
  BY PayloadsFit DEF GateInv, PhoneFits, PayloadFits
<1>2. /\ UNCHANGED <<phone, standing, floor, holder, cars, step, asked>> /\ step = "idle"
      /\ \/ sheet' = [Completeness!NoRow EXCEPT !.data = d, !.for = "itself"]
         \/ sheet' = [sheet EXCEPT !.data = d]
  BY DEF Completeness!Create, Completeness!Update
<1> HIDE DEF d
<1>3. sheet' \in [data : Completeness!Payloads, by : {"none", "mine", "other"},
                 for : {"nothing", "itself", "order"}] /\ sheet'.data = d
  BY <1>1, <1>2 DEF GateInv, SheetFits, Completeness!NoRow
<1>4. SheetFits' /\ PhoneFits' /\ AskedFits'
  BY <1>1, <1>2, <1>3 DEF GateInv, SheetFits, PhoneFits, AskedFits
<1>5. Judged'
  BY <1>2 DEF Judged
<1> QED BY <1>4, <1>5 DEF GateInv

LEMMA SomebodyAsks ==
  ASSUME GateInv, Completeness!CreateForOrder \/ Completeness!AttachReportByCode
  PROVE  GateInv'
<1>1. PICK op \in {"create", "attach"}, d \in Completeness!Payloads :
        /\ asked' = [op |-> op, data |-> d, gated |-> FALSE] /\ PayloadFits(d)
        /\ op = "attach" => d = sheet.data /\ sheet.by # "other" /\ Completeness!VehicleMatches
  <2>1. PayloadFits(Completeness!Payload(phone)) /\ PayloadFits(sheet.data)
    BY PayloadsFit DEF GateInv, PhoneFits, SheetFits
  <2>2. Completeness!Payload(phone) \in Completeness!Payloads /\ sheet.data \in Completeness!Payloads
    BY <2>1 DEF PayloadFits
  <2>3. CASE Completeness!CreateForOrder
    <3>1. asked' = [op |-> "create", data |-> Completeness!Payload(phone), gated |-> FALSE]
      BY <2>3 DEF Completeness!CreateForOrder, Completeness!Ask
    <3> QED BY <2>1, <2>2, <3>1
  <2>4. CASE Completeness!AttachReportByCode
    <3>1. asked' = [op |-> "attach", data |-> sheet.data, gated |-> FALSE] /\ sheet.by # "other"
          /\ Completeness!VehicleMatches
      BY <2>4 DEF Completeness!AttachReportByCode, Completeness!Ask
    <3> QED BY <2>1, <2>2, <3>1
  <2> QED BY <2>3, <2>4
<1>2. UNCHANGED <<phone, sheet, standing, floor, holder, cars>> /\ step' = "gate"
  BY DEF Completeness!CreateForOrder, Completeness!AttachReportByCode, Completeness!Ask
<1>3. asked'.op = op /\ asked'.data = d
  BY <1>1
<1>4. AskedFits' /\ SheetFits' /\ PhoneFits'
  BY <1>1, <1>2, <1>3 DEF GateInv, SheetFits, PhoneFits, AskedFits
<1>5. Completeness!VehicleMatches' = Completeness!VehicleMatches
  BY <1>2 DEF Completeness!VehicleMatches, Completeness!Both, Completeness!Same
<1>6. Judged'
  BY <1>1, <1>2, <1>3, <1>5 DEF Judged
<1> QED BY <1>4, <1>6 DEF GateInv

\* A request ends with nothing left of it.
LEMMA RequestEnds ==
  ASSUME Completeness!Refused
  PROVE  AskedFits' /\ Judged'
<1> DEFINE none == Completeness!NoRow.data
<1>1. step' = "idle" /\ asked' = [op |-> "none", data |-> none, gated |-> FALSE] /\ asked'.data = none
  BY DEF Completeness!Refused, Completeness!NoRequest
<1>2. none \in Completeness!Payloads /\ PayloadFits(none)
  BY NothingFits DEF PayloadFits
<1> HIDE DEF none
<1> QED BY <1>1, <1>2 DEF AskedFits, Judged

LEMMA GateJudges ==
  ASSUME GateInv, Completeness!AssertReportComplete
  PROVE  GateInv'
<1>1. UNCHANGED <<phone, sheet, standing, floor, holder, cars>> /\ step = "gate"
      /\ asked.op \in {"none", "create", "attach"} /\ asked.data \in Completeness!Payloads
         /\ PayloadFits(asked.data)
  BY DEF Completeness!AssertReportComplete, GateInv, AskedFits
<1>2. SheetFits' /\ PhoneFits'
  BY <1>1 DEF GateInv, SheetFits, PhoneFits
<1>3. CASE Completeness!Refused
  BY <1>2, <1>3, RequestEnds DEF GateInv
<1>4. CASE ~Completeness!Refused
  <2>1. /\ floor # 0 => asked.data.structured /\ Completeness!Missing(asked.data) = {}
        /\ step' \in {"link", "write"} /\ asked' = [asked EXCEPT !.gated = (floor # 0)]
    BY <1>4 DEF Completeness!AssertReportComplete, Completeness!Passes
  <2>2. asked' \in [op : {"none", "create", "attach"}, data : Completeness!Payloads, gated : BOOLEAN]
        /\ asked'.data = asked.data /\ asked'.op = asked.op /\ asked'.gated = (floor # 0)
    BY <2>1 DEF GateInv, AskedFits
  <2>3. AskedFits'
    BY <1>1, <2>2 DEF AskedFits
  <2>4. Completeness!VehicleMatches' = Completeness!VehicleMatches
    BY <1>1 DEF Completeness!VehicleMatches, Completeness!Both, Completeness!Same
  <2>5. Judged'
    BY <1>1, <2>1, <2>2, <2>4 DEF GateInv, Judged
  <2> QED BY <1>2, <2>3, <2>5 DEF GateInv
<1> QED BY <1>3, <1>4

LEMMA ReportIsLinked ==
  ASSUME GateInv, Completeness!AttachLink
  PROVE  GateInv'
<1>1. UNCHANGED <<phone, sheet, standing, floor, holder, cars>> /\ step = "link"
  BY DEF Completeness!AttachLink
<1>2. SheetFits' /\ PhoneFits'
  BY <1>1 DEF GateInv, SheetFits, PhoneFits
<1>3. CASE Completeness!Refused
  BY <1>2, <1>3, RequestEnds DEF GateInv
<1>4. CASE step' = "write" /\ asked' = asked
  <2>1. Completeness!VehicleMatches' = Completeness!VehicleMatches
    BY <1>1 DEF Completeness!VehicleMatches, Completeness!Both, Completeness!Same
  <2> QED BY <1>1, <1>2, <1>4, <2>1 DEF GateInv, AskedFits, Judged
<1> QED BY <1>3, <1>4 DEF Completeness!AttachLink

LEMMA ReportIsWritten ==
  ASSUME GateInv, Completeness!Write
  PROVE  GateInv'
<1>1. phone' = phone /\ Completeness!Refused
      /\ \/ asked.op = "create" /\ sheet' = [data |-> asked.data, by |-> "none", for |-> "order"]
         \/ asked.op # "create" /\ sheet' = [sheet EXCEPT !.for = "order", !.by = "mine"]
  BY DEF Completeness!Write
<1>2. SheetFits' /\ sheet'.data \in {asked.data, sheet.data}
  <2>1. /\ asked.data \in Completeness!Payloads /\ PayloadFits(asked.data) /\ PayloadFits(sheet.data)
        /\ sheet \in [data : Completeness!Payloads, by : {"none", "mine", "other"},
                      for : {"nothing", "itself", "order"}]
    BY DEF GateInv, AskedFits, SheetFits
  <2>2. /\ sheet' \in [data : Completeness!Payloads, by : {"none", "mine", "other"},
                       for : {"nothing", "itself", "order"}]
        /\ sheet'.data \in {asked.data, sheet.data}
    <3>1. CASE sheet' = [data |-> asked.data, by |-> "none", for |-> "order"]
      BY <2>1, <3>1
    <3>2. CASE sheet' = [sheet EXCEPT !.for = "order", !.by = "mine"]
      BY <2>1, <3>2
    <3> QED BY <1>1, <3>1, <3>2
  <2>3. PayloadFits(sheet'.data)
    <3>1. CASE sheet'.data = asked.data
      BY <2>1, <3>1
    <3>2. CASE sheet'.data = sheet.data
      BY <2>1, <3>2
    <3> QED BY <2>2, <3>1, <3>2
  <2> QED BY <2>2, <2>3 DEF SheetFits
<1>3. PhoneFits'
  BY <1>1 DEF GateInv, PhoneFits
<1> QED BY <1>1, <1>2, <1>3, RequestEnds DEF GateInv

LEMMA OthersAct ==
  ASSUME GateInv, Completeness!Elsewhere
  PROVE  GateInv'
<1>1. UNCHANGED <<phone, cars, step, asked>>
  BY DEF Completeness!Elsewhere
<1>2. Completeness!VehicleMatches' = Completeness!VehicleMatches
  BY <1>1 DEF Completeness!VehicleMatches, Completeness!Both, Completeness!Same
<1>3. PhoneFits' /\ AskedFits'
  BY <1>1 DEF GateInv, PhoneFits, AskedFits
<1>4. CASE sheet' = sheet
  BY <1>1, <1>2, <1>3, <1>4 DEF GateInv, SheetFits, Judged
<1>5. CASE step = "idle" /\ sheet' = [sheet EXCEPT !.by = "other"]
  <2>1. sheet' \in [data : Completeness!Payloads, by : {"none", "mine", "other"},
                   for : {"nothing", "itself", "order"}] /\ sheet'.data = sheet.data
    BY <1>5 DEF GateInv, SheetFits
  <2>2. SheetFits'
    BY <2>1 DEF GateInv, SheetFits
  <2> QED BY <1>1, <1>3, <1>5, <2>2 DEF GateInv, Judged
<1> QED BY <1>4, <1>5 DEF Completeness!Elsewhere

LEMMA GateStep ==
  GateInv /\ (Completeness!Next \/ UNCHANGED Completeness!completenessVars) => GateInv'
<1>1. GateInv /\ UNCHANGED Completeness!completenessVars => GateInv'
  BY DEF Completeness!completenessVars, GateInv, PhoneFits, SheetFits, AskedFits, Judged,
     Completeness!VehicleMatches, Completeness!Both, Completeness!Same
<1> QED BY <1>1, AppCollects, RowsAreFiled, SomebodyAsks, GateJudges, ReportIsLinked,
           ReportIsWritten, OthersAct DEF Completeness!Next

LEMMA ReportsAreJudged ==
  GateInv /\ (Completeness!Next \/ UNCHANGED Completeness!completenessVars)
    => Completeness!JudgedByItsRules
<1> SUFFICES ASSUME GateInv, Completeness!Next \/ UNCHANGED Completeness!completenessVars
             PROVE  Completeness!JudgedByItsRules
  OBVIOUS
<1>1. Completeness!SubmittedIsWhole
  <2> SUFFICES ASSUME standing = "IN_PROGRESS", standing' = "SUBMITTED"
               PROVE  /\ asked.gated => Completeness!Whole(sheet'.data)
                      /\ asked.op = "attach" => sheet.by # "other" /\ Completeness!VehicleMatches
    BY DEF Completeness!SubmittedIsWhole, Completeness!VehicleMatches
  <2>1. Completeness!Write
    BY DEF Completeness!Next, Completeness!completenessVars, Completeness!Collect,
       Completeness!Create, Completeness!Update, Completeness!CreateForOrder,
       Completeness!AttachReportByCode, Completeness!AssertReportComplete,
       Completeness!AttachLink, Completeness!Elsewhere
  <2>2. step = "write" /\ (asked.op = "create" => sheet'.data = asked.data)
        /\ (asked.op # "create" => sheet'.data = sheet.data)
           /\ asked.op \in {"none", "create", "attach"}
    BY <2>1 DEF Completeness!Write, GateInv, SheetFits, AskedFits
  <2> QED BY <2>2, NothingMissingIsWhole DEF GateInv, Judged
<1>2. Completeness!RefusedForWhatWasShown
  <2> SUFFICES ASSUME step = "gate", step' = "idle", asked.data.structured
               PROVE  \E e \in Completeness!Shown(asked.data.from, asked.data.rows) :
                      e \notin asked.data.has
    BY DEF Completeness!RefusedForWhatWasShown
  <2>1. Completeness!AssertReportComplete
    BY DEF Completeness!Next, Completeness!completenessVars, Completeness!Collect,
       Completeness!Create, Completeness!Update, Completeness!CreateForOrder,
       Completeness!AttachReportByCode, Completeness!AttachLink, Completeness!Elsewhere,
       Completeness!Write
  <2>2. Completeness!Missing(asked.data) # {}
    BY <2>1 DEF Completeness!AssertReportComplete, Completeness!Passes
  <2> QED BY <2>2, MissingWasShown DEF GateInv, AskedFits
<1> QED BY <1>1, <1>2 DEF Completeness!JudgedByItsRules

-----------------------------------------------------------------------------
(***************************************************************************)
(* The staff: somebody is left who may manage the admins, unless they erase *)
(* themselves.                                                              *)
(***************************************************************************)
\* One request at a time, whose actor has the role that it came with.
StaffTyped == Staff!TypeOK
StaffAlone ==
  /\ \A t \in Tasks : at[t] = "idle" <=> my[t].op = "none"
  /\ \A s, t \in Tasks : s # t => my[s].op = "none" \/ my[t].op = "none"
ActsRightly(t) ==
  LET j == my[t] IN
  /\ j.op \notin {"none", "eraseMe"} =>
       /\ j.actor \in Users /\ j.u \in Users /\ Staff!Lets(j.actor) /\ role[j.actor] = j.acts
       /\ j.op \in {"ban", "erase"} => j.u # j.actor
       /\ j.op = "erase" => j.acts = "SUPER_ADMIN"
  /\ j.op = "eraseMe" => j.u \in Users /\ at[t] = "g_erase"
  /\ at[t] = "g_write" => /\ j.op \in {"ban", "unban", "changeRole"}
                          /\ j.op = "ban" => Staff!MayBan(j.acts, role[j.u])
  /\ at[t] = "g_erase" => j.op \in {"erase", "eraseMe"}
  /\ at[t] \in {"g_supers", "g_admins"} => j.op \in {"changeRole", "erase"}
  /\ at[t] = "g_admins" => j.op = "changeRole"
  /\ at[t] \in {"g_supers", "g_admins", "g_write"} /\ j.op = "changeRole"
       => Staff!MayChange(j.acts, role[j.u], j.next, j.u = j.actor) /\ role[j.u] # j.next
StaffActs == \A t \in Tasks : ActsRightly(t)
StaffInv == StaffTyped /\ StaffAlone /\ StaffActs

LEMMA StaffInit == Staff!Init => StaffInv
BY DEF Staff!Init, StaffInv, StaffTyped, StaffAlone, StaffActs, ActsRightly, Staff!TypeOK,
   Staff!NoJob, Staff!Job, Staff!Jobs, Staff!Labels, Staff!Roles, Staff!HandlerNames

\* A request begins when no other runs.
LEMMA StaffBegins ==
  ASSUME StaffInv, NEW t \in Tasks, Staff!AdminRequest(t) \/ Staff!EraseMe(t)
  PROVE  StaffInv'
<1>1. PICK j \in Staff!Jobs, l \in {"g_require", "g_erase"} :
        /\ at[t] = "idle" /\ j.op \in StaffHandlers
        /\ \A s \in Tasks : my[s].op \notin StaffHandlers
        /\ at' = [at EXCEPT ![t] = l] /\ my' = [my EXCEPT ![t] = j]
        /\ j.u \in Users
        /\ l = "g_require" =>
             /\ j.op # "eraseMe" /\ j.actor \in Users /\ Staff!Lets(j.actor) /\ role[j.actor] = j.acts
             /\ j.op \in {"ban", "erase"} => j.u # j.actor
             /\ j.op = "erase" => j.acts = "SUPER_ADMIN"
        /\ l = "g_erase" => j.op = "eraseMe"
  <2>1. CASE Staff!AdminRequest(t)
    <3>1. PICK a \in Users, u \in Users, op \in {"ban", "unban", "changeRole", "erase"},
            next \in Staff!Roles :
            /\ Staff!Lets(a) /\ (op \in {"ban", "erase"} => u # a)
            /\ op = "erase" => role[a] = "SUPER_ADMIN"
            /\ Staff!Begin(t, "g_require", Staff!Job(op, a, role[a], u, next))
      BY <2>1 DEF Staff!AdminRequest
    <3>2. /\ role[a] \in Staff!Roles
          /\ Staff!Job(op, a, role[a], u, next) \in Staff!Jobs
          /\ Staff!Job(op, a, role[a], u, next).op = op
          /\ Staff!Job(op, a, role[a], u, next).actor = a
          /\ Staff!Job(op, a, role[a], u, next).acts = role[a]
          /\ Staff!Job(op, a, role[a], u, next).u = u
      BY DEF StaffInv, StaffTyped, Staff!TypeOK, Staff!Job, Staff!Jobs, Staff!HandlerNames
    <3> QED BY <3>1, <3>2 DEF Staff!Begin, StaffHandlers
  <2>2. CASE Staff!EraseMe(t)
    <3>1. PICK u \in Staff!Signed : Staff!Begin(t, "g_erase",
               Staff!Job("eraseMe", u, role[u], u, "USER"))
      BY <2>2 DEF Staff!EraseMe
    <3>2. /\ u \in Users /\ Staff!Job("eraseMe", u, role[u], u, "USER") \in Staff!Jobs
          /\ Staff!Job("eraseMe", u, role[u], u, "USER").op = "eraseMe"
          /\ Staff!Job("eraseMe", u, role[u], u, "USER").u = u
      BY DEF StaffInv, StaffTyped, Staff!TypeOK, Staff!Job, Staff!Jobs, Staff!HandlerNames,
         Staff!Roles, Staff!Signed
    <3> QED BY <3>1, <3>2 DEF Staff!Begin, StaffHandlers
  <2> QED BY <2>1, <2>2
<1>2. UNCHANGED <<role, banned, deleted>>
  BY DEF Staff!AdminRequest, Staff!EraseMe, Staff!people
<1>3. at \in [Tasks -> Staff!Labels] /\ my \in [Tasks -> Staff!Jobs]
  BY DEF StaffInv, StaffTyped, Staff!TypeOK
<1>4. \A s \in Tasks : my[s].op = "none"
  BY <1>1, <1>3 DEF StaffHandlers, Staff!Jobs, Staff!HandlerNames
<1>5. StaffTyped'
  BY <1>1, <1>2, <1>3 DEF StaffInv, StaffTyped, Staff!TypeOK, Staff!Labels
<1>6. StaffAlone'
  BY <1>1, <1>3, <1>4 DEF StaffInv, StaffAlone, StaffHandlers
<1>7. StaffActs'
  <2> SUFFICES ASSUME NEW s \in Tasks PROVE ActsRightly(s)'
    BY DEF StaffActs
  <2>1. CASE s # t
    BY <2>1, <1>1, <1>2, <1>3, <1>4 DEF StaffInv, StaffActs, StaffAlone, ActsRightly, Staff!Lets,
       Staff!Signed
  <2>2. CASE s = t
    <3>1. at'[t] = l /\ my'[t] = j
      BY <1>1, <1>3
    <3>2. j.actor \in Users => (Staff!Lets(j.actor) <=> j.actor \in Users \ (banned' \cup deleted')
          /\ role'[j.actor] \in Staff!Admins)
      BY <1>2 DEF Staff!Lets, Staff!Signed
    <3> QED BY <2>2, <3>1, <3>2, <1>1, <1>2 DEF ActsRightly, Staff!Lets, Staff!Signed
  <2> QED BY <2>1, <2>2
<1> QED BY <1>5, <1>6, <1>7 DEF StaffInv

\* When a request ends, none runs, whatever it wrote.
LEMMA StaffEnds ==
  ASSUME StaffInv, NEW t \in Tasks, at[t] # "idle", Staff!End(t),
         role' \in [Users -> Staff!Roles], banned' \subseteq Users, deleted' \subseteq Users
  PROVE  StaffInv' /\ at'[t] = "idle"
<1>1. /\ at \in [Tasks -> Staff!Labels] /\ my \in [Tasks -> Staff!Jobs] /\ Staff!NoJob \in Staff!Jobs
      /\ Staff!NoJob.op = "none"
  BY DEF StaffInv, StaffTyped, Staff!TypeOK, Staff!NoJob, Staff!Job, Staff!Jobs, Staff!Roles
<1>2. at' = [at EXCEPT ![t] = "idle"] /\ my' = [my EXCEPT ![t] = Staff!NoJob]
  BY DEF Staff!End
<1>3. \A s \in Tasks : my'[s].op = "none" /\ at'[s] = "idle"
  BY <1>1, <1>2 DEF StaffInv, StaffAlone
<1>4. StaffTyped'
  BY <1>1, <1>2 DEF StaffTyped, Staff!TypeOK, Staff!Labels
<1> QED BY <1>3, <1>4 DEF StaffInv, StaffAlone, StaffActs, ActsRightly

\* One that goes on has to be right where it goes.
LEMMA StaffGoes ==
  ASSUME StaffInv, NEW t \in Tasks, NEW l \in Staff!Labels \ {"idle"}, at[t] # "idle", Staff!Go(t, l),
         UNCHANGED Staff!people, at' = [at EXCEPT ![t] = l] /\ my' = my => ActsRightly(t)'
  PROVE  StaffInv'
<1>1. at \in [Tasks -> Staff!Labels] /\ my \in [Tasks -> Staff!Jobs]
  BY DEF StaffInv, StaffTyped, Staff!TypeOK
<1>2. at' = [at EXCEPT ![t] = l] /\ my' = my /\ role' = role /\ banned' = banned /\ deleted' = deleted
  BY DEF Staff!Go, Staff!people
<1>3. StaffTyped'
  BY <1>1, <1>2 DEF StaffInv, StaffTyped, Staff!TypeOK
<1>4. StaffAlone'
  BY <1>1, <1>2 DEF StaffInv, StaffAlone
<1>5. \A s \in Tasks : s # t => ActsRightly(s)'
  BY <1>1, <1>2 DEF StaffInv, StaffActs, ActsRightly, Staff!Lets, Staff!Signed
<1> QED BY <1>2, <1>3, <1>4, <1>5 DEF StaffInv, StaffActs

LEMMA StaffRequires ==
  ASSUME StaffInv, NEW t \in Tasks, Staff!RequireUser(t)
  PROVE  StaffInv'
<1> DEFINE j == my[t]
           now == role[j.u]
<1>1. /\ at[t] = "g_require" /\ UNCHANGED Staff!people /\ j.op \notin {"none", "eraseMe"}
      /\ j \in Staff!Jobs /\ j.op \in Staff!HandlerNames
      /\ j.u \in Users /\ now \in Staff!Roles /\ ActsRightly(t)
  BY DEF Staff!RequireUser, StaffInv, StaffAlone, StaffActs, ActsRightly, StaffTyped,
     Staff!TypeOK, Staff!Jobs, Staff!HandlerNames
<1>2. \/ Staff!End(t)
      \/ /\ Staff!Go(t, "g_supers") /\ now = "SUPER_ADMIN" /\ j.op = "erase"
      \/ /\ Staff!Go(t, "g_supers") /\ now = "SUPER_ADMIN" /\ j.op = "changeRole"
         /\ Staff!MayChange(j.acts, now, j.next, j.u = j.actor) /\ now # j.next
      \/ /\ Staff!Go(t, "g_admins") /\ j.op = "changeRole"
         /\ Staff!MayChange(j.acts, now, j.next, j.u = j.actor) /\ now # j.next
      \/ Staff!Go(t, "g_erase") /\ j.op = "erase"
      \/ /\ Staff!Go(t, "g_write") /\ j.op = "changeRole"
         /\ Staff!MayChange(j.acts, now, j.next, j.u = j.actor) /\ now # j.next
      \/ Staff!Go(t, "g_write") /\ j.op = "unban"
      \/ Staff!Go(t, "g_write") /\ j.op = "ban" /\ Staff!MayBan(j.acts, now)
  BY <1>1 DEF Staff!RequireUser, Staff!HandlerNames
<1>3. CASE Staff!End(t)
  BY <1>1, <1>3, StaffEnds DEF Staff!people, StaffInv, StaffTyped, Staff!TypeOK
<1>4. ASSUME NEW l \in {"g_supers", "g_admins", "g_write", "g_erase"}, Staff!Go(t, l),
             \/ l = "g_supers" /\ j.op = "erase"
             \/ /\ l \in {"g_supers", "g_admins", "g_write"} /\ j.op = "changeRole"
                /\ Staff!MayChange(j.acts, now, j.next, j.u = j.actor) /\ now # j.next
             \/ l = "g_erase" /\ j.op = "erase"
             \/ l = "g_write" /\ j.op = "unban"
             \/ l = "g_write" /\ j.op = "ban" /\ Staff!MayBan(j.acts, now)
      PROVE  StaffInv'
  <2>1. l \in Staff!Labels \ {"idle"}
    BY DEF Staff!Labels
  <2>2. at' = [at EXCEPT ![t] = l] /\ my' = my => ActsRightly(t)'
    <3> HAVE at' = [at EXCEPT ![t] = l] /\ my' = my
    <3>1. at'[t] = l /\ my'[t] = j /\ role' = role /\ banned' = banned /\ deleted' = deleted
      BY <1>1 DEF StaffInv, StaffTyped, Staff!TypeOK, Staff!people
    <3>2. Staff!Lets(j.actor) => j.actor \notin banned' \cup deleted' /\ role'[j.actor] \in Staff!Admins
      BY <3>1 DEF Staff!Lets, Staff!Signed
    <3> QED BY <1>1, <1>4, <3>1, <3>2 DEF ActsRightly, Staff!Lets, Staff!Signed
  <2> QED BY <1>1, <1>4, <2>1, <2>2, StaffGoes
<1> QED BY <1>2, <1>3, <1>4

LEMMA StaffCounts ==
  ASSUME StaffInv, NEW t \in Tasks, Staff!CountSuperAdmins(t) \/ Staff!CountAdmins(t)
  PROVE  StaffInv'
<1> DEFINE j == my[t]
<1>1. /\ at[t] \in {"g_supers", "g_admins"} /\ UNCHANGED Staff!people /\ ActsRightly(t)
  BY DEF Staff!CountSuperAdmins, Staff!CountAdmins, StaffInv, StaffActs
<1>2. \/ Staff!End(t)
      \/ \E l \in {"g_erase", "g_admins", "g_write"} :
           Staff!Go(t, l) /\ (l = "g_erase" <=> j.op = "erase")
  BY <1>1 DEF Staff!CountSuperAdmins, Staff!CountAdmins, ActsRightly
<1>3. CASE Staff!End(t)
  BY <1>1, <1>3, StaffEnds DEF Staff!people, StaffInv, StaffTyped, Staff!TypeOK
<1>4. ASSUME NEW l \in {"g_admins", "g_write", "g_erase"}, Staff!Go(t, l),
             l = "g_erase" <=> j.op = "erase"
      PROVE  StaffInv'
  <2>1. l \in Staff!Labels \ {"idle"}
    BY DEF Staff!Labels
  <2>2. at' = [at EXCEPT ![t] = l] /\ my' = my => ActsRightly(t)'
    <3> HAVE at' = [at EXCEPT ![t] = l] /\ my' = my
    <3>1. at'[t] = l /\ my'[t] = j /\ role' = role /\ banned' = banned /\ deleted' = deleted
      BY <1>1 DEF StaffInv, StaffTyped, Staff!TypeOK, Staff!people
    <3>2. Staff!Lets(j.actor) => j.actor \notin banned' \cup deleted' /\ role'[j.actor] \in Staff!Admins
      BY <3>1 DEF Staff!Lets, Staff!Signed
    <3> QED BY <1>1, <1>4, <3>1, <3>2 DEF ActsRightly, Staff!Lets, Staff!Signed
  <2> QED BY <1>1, <1>4, <2>1, <2>2, StaffGoes
<1> QED BY <1>2, <1>3, <1>4

LEMMA StaffWrites ==
  ASSUME StaffInv, NEW t \in Tasks, Staff!WriteUser(t) \/ Staff!EraseUser(t)
  PROVE  StaffInv'
<1>1. /\ at[t] \in {"g_write", "g_erase"} /\ Staff!End(t) /\ ActsRightly(t) /\ my[t] \in Staff!Jobs
  BY DEF Staff!WriteUser, Staff!EraseUser, StaffInv, StaffActs, StaffTyped, Staff!TypeOK
<1>2. my[t].u \in Users /\ my[t].next \in Staff!Roles
  BY <1>1 DEF ActsRightly, Staff!Jobs
<1>3. role' \in [Users -> Staff!Roles] /\ banned' \subseteq Users /\ deleted' \subseteq Users
  BY <1>1, <1>2 DEF Staff!WriteUser, Staff!EraseUser, StaffInv, StaffTyped, Staff!TypeOK
<1> QED BY <1>1, <1>3, StaffEnds

LEMMA StaffStep == StaffInv /\ (Staff!Next \/ UNCHANGED Staff!vars) => StaffInv'
<1>1. ASSUME StaffInv, Staff!Next PROVE StaffInv'
  BY <1>1, StaffBegins, StaffRequires, StaffCounts, StaffWrites DEF Staff!Next
<1>2. ASSUME StaffInv, UNCHANGED Staff!vars PROVE StaffInv'
  BY <1>2 DEF Staff!vars, Staff!people, StaffInv, StaffTyped, StaffAlone, StaffActs, ActsRightly,
     Staff!TypeOK, Staff!Lets, Staff!Signed
<1> QED BY <1>1, <1>2

\* Whoever takes the role, the account or the row of a manager is one, and stays.
LEMMA AManagerStays == StaffInv /\ Staff!Next => Staff!KeepsAManager
<1> SUFFICES ASSUME StaffInv, Staff!Next, Staff!Managers # {}, Staff!Managers' = {}
             PROVE  \E t \in Tasks : at[t] = "g_erase" /\ my[t].op = "eraseMe" /\ at'[t] = "idle"
  BY DEF Staff!KeepsAManager
<1>1. PICK t \in Tasks : \/ Staff!AdminRequest(t) \/ Staff!EraseMe(t) \/ Staff!RequireUser(t)
                         \/ Staff!CountSuperAdmins(t) \/ Staff!CountAdmins(t)
                         \/ Staff!WriteUser(t) \/ Staff!EraseUser(t)
  BY DEF Staff!Next
<1>2. Staff!WriteUser(t) \/ Staff!EraseUser(t)
  <2>1. UNCHANGED <<role, banned, deleted>> => Staff!Managers' = Staff!Managers
    BY DEF Staff!Managers, Staff!Signed
  <2> QED BY <1>1, <2>1 DEF Staff!AdminRequest, Staff!EraseMe, Staff!RequireUser,
             Staff!CountSuperAdmins, Staff!CountAdmins, Staff!people
<1> DEFINE j == my[t]
<1>3. /\ at[t] \in {"g_write", "g_erase"} /\ Staff!End(t) /\ ActsRightly(t) /\ my[t] \in Staff!Jobs
      /\ at[t] \in {"g_write", "g_erase"} /\ role \in [Users -> Staff!Roles] /\ j.u \in Users
      /\ at'[t] = "idle"
  BY <1>2 DEF Staff!WriteUser, Staff!EraseUser, StaffInv, StaffActs, StaffTyped, Staff!TypeOK,
     ActsRightly, Staff!End
<1>4. PICK m \in Users : m \notin banned \cup deleted /\ role[m] = "SUPER_ADMIN"
  BY DEF Staff!Managers, Staff!Signed
<1>5. CASE j.op = "eraseMe"
  BY <1>3, <1>5 DEF ActsRightly
<1>6. CASE j.op # "eraseMe"
  <2>1. /\ j.op \in {"ban", "unban", "changeRole", "erase"} /\ j.actor \in Users
        /\ j.actor \notin banned \cup deleted /\ role[j.actor] = j.acts
        /\ j.op \in {"ban", "erase"} => j.u # j.actor
    BY <1>3, <1>6 DEF ActsRightly, Staff!Lets, Staff!Signed
  <2>2. ~(m \in Users \ (banned' \cup deleted') /\ role'[m] = "SUPER_ADMIN")
    BY DEF Staff!Managers, Staff!Signed
  <2>3. ~(j.actor \in Users \ (banned' \cup deleted') /\ role'[j.actor] = "SUPER_ADMIN")
    BY DEF Staff!Managers, Staff!Signed
  <2>4. CASE j.op \in {"ban", "unban", "changeRole"}
    <3>1. at[t] = "g_write" /\ Staff!WriteUser(t)
      BY <1>2, <1>3, <2>4 DEF ActsRightly, Staff!EraseUser
    <3>2. CASE j.op = "unban"
      BY <1>4, <2>2, <3>1, <3>2 DEF Staff!WriteUser
    <3>3. CASE j.op = "ban"
      BY <1>3, <1>4, <2>1, <2>2, <2>3, <3>1, <3>3 DEF Staff!WriteUser, ActsRightly, Staff!MayBan,
         Staff!Admins
    <3>4. CASE j.op = "changeRole"
      <4>1. role' = [role EXCEPT ![j.u] = j.next] /\ UNCHANGED <<banned, deleted>>
            /\ Staff!MayChange(j.acts, role[j.u], j.next, j.u = j.actor) /\ role[j.u] # j.next
        BY <3>1, <3>4, <1>3 DEF Staff!WriteUser, ActsRightly
      <4>2. j.u = m /\ j.next \in Staff!Roles \ {"SUPER_ADMIN"}
        BY <1>3, <1>4, <2>2, <4>1 DEF Staff!Jobs
      <4>3. j.acts = "SUPER_ADMIN" /\ j.u # j.actor
        BY <1>4, <4>1, <4>2 DEF Staff!MayChange, Staff!Rank, Staff!Roles
      <4> QED BY <1>3, <2>1, <2>3, <4>1, <4>3
    <3> QED BY <2>4, <3>2, <3>3, <3>4
  <2>5. CASE j.op = "erase"
    <3>1. Staff!EraseUser(t) /\ j.acts = "SUPER_ADMIN" /\ j.u # j.actor
      BY <1>2, <1>3, <2>5 DEF ActsRightly, Staff!WriteUser
    <3> QED BY <2>1, <2>3, <3>1 DEF Staff!EraseUser
  <2> QED BY <2>1, <2>4, <2>5
<1> QED BY <1>5, <1>6

-----------------------------------------------------------------------------
(***************************************************************************)
(* The photos of a public report: what an erasure took out of the bucket is out.*)
(***************************************************************************)
KnownKinds == Manifest!ToSet(Manifest!Kinds)
Photographs == [key : Nat, kind : KnownKinds]
Ahead(m, places, i) == {j \in places : Manifest!Before(m, j, i)}

LEMMA ShotsAreCounted == \A S : Manifest!Cardinality(S) = Cardinality(S)
BY DEF Manifest!Cardinality, Cardinality

LEMMA PlaceIs ==
  ASSUME NEW m, NEW places, NEW i
  PROVE  Manifest!PlaceOf(m, places, i) = 1 + Cardinality(Ahead(m, places, i))
BY ShotsAreCounted DEF Manifest!PlaceOf, Ahead

LEMMA KindsAreRanked ==
  ASSUME NEW k \in KnownKinds
  PROVE  /\ Manifest!Rank(k) \in Nat
         /\ Manifest!Name(k) \in 1 .. 6 /\ Manifest!Kinds[Manifest!Name(k)] = k
<1>1. Manifest!Rank(k) \in Nat
  BY DEF Manifest!Rank
<1>2. DOMAIN Manifest!Kinds = 1 .. 6
  BY DEF Manifest!Kinds
<1>3. \E n \in DOMAIN Manifest!Kinds : Manifest!Kinds[n] = k
  BY DEF KnownKinds, Manifest!ToSet
<1> QED BY <1>1, <1>2, <1>3 DEF Manifest!Name

LEMMA BeforeOrders ==
  ASSUME NEW m \in Seq(Photographs), NEW i \in DOMAIN m, NEW j \in DOMAIN m
  PROVE  /\ ~Manifest!Before(m, i, i)
         /\ i # j => Manifest!Before(m, i, j) \/ Manifest!Before(m, j, i)
         /\ \A l \in DOMAIN m : Manifest!Before(m, l, i) /\ Manifest!Before(m, i, j)
            => Manifest!Before(m, l, j)
<1>0. \A n \in DOMAIN m : n \in Int /\ m[n] \in Photographs
  OBVIOUS
<1>1. \A n \in DOMAIN m : n \in Int /\ m[n].kind \in KnownKinds
  BY <1>0 DEF Photographs
<1>2. \A n \in DOMAIN m : /\ Manifest!Rank(m[n].kind) \in Int /\ Manifest!Name(m[n].kind) \in Int
                          /\ Manifest!Kinds[Manifest!Name(m[n].kind)] = m[n].kind
  BY <1>1, KindsAreRanked
<1>3. \A n, o \in DOMAIN m : Manifest!Name(m[n].kind) = Manifest!Name(m[o].kind)
      => m[n].kind = m[o].kind
  BY <1>2
<1> QED BY <1>1, <1>2, <1>3 DEF Manifest!Before

LEMMA PlacesAreFinite ==
  ASSUME NEW m \in Seq(Photographs), NEW places \in SUBSET DOMAIN m
  PROVE  IsFiniteSet(places) /\ Cardinality(places) \in Nat /\ Cardinality(places) <= Len(m)
<1>1. DOMAIN m = 1 .. Len(m) /\ Len(m) \in Nat
  OBVIOUS
<1>2. IsFiniteSet(1 .. Len(m)) /\ Cardinality(1 .. Len(m)) = Len(m)
  <2>1. 1 \in Int /\ Len(m) \in Int
    BY <1>1
  <2>2. IsFiniteSet(1 .. Len(m)) /\ Cardinality(1 .. Len(m)) = IF 1 > Len(m) THEN 0 ELSE Len(m) - 1 + 1
    BY <2>1, FS_Interval
  <2> QED BY <1>1, <2>2
<1>3. IsFiniteSet(places) /\ Cardinality(places) <= Len(m)
  BY <1>1, <1>2, FS_Subset
<1> QED BY <1>3, FS_CardinalityType

\* Every photo has a place of its own, and no place is empty.
LEMMA PlacesAreTaken ==
  ASSUME NEW m \in Seq(Photographs), NEW places \in SUBSET DOMAIN m
  PROVE  /\ \A i \in places : Manifest!PlaceOf(m, places, i) \in 1 .. Cardinality(places)
         /\ \A i, j \in places : Manifest!PlaceOf(m, places, i) = Manifest!PlaceOf(m, places, j)
            => i = j
         /\ \A n \in 1 .. Cardinality(places) : \E i \in places : Manifest!PlaceOf(m, places, i) = n
<1>1. IsFiniteSet(places) /\ Cardinality(places) \in Nat
  BY PlacesAreFinite
<1>2. ASSUME NEW i \in places
      PROVE  IsFiniteSet(Ahead(m, places, i)) /\ Cardinality(Ahead(m, places, i)) \in Nat
             /\ Manifest!PlaceOf(m, places, i) \in 1 .. Cardinality(places)
  <2>1. Ahead(m, places, i) \subseteq places \ {i}
    BY BeforeOrders DEF Ahead
  <2>2. IsFiniteSet(places \ {i}) /\ Cardinality(places \ {i}) = Cardinality(places) - 1
    BY <1>1, FS_RemoveElement
  <2>3. IsFiniteSet(Ahead(m, places, i)) /\ Cardinality(Ahead(m, places, i)) <= Cardinality(places) - 1
    BY <2>1, <2>2, FS_Subset
  <2>4. Cardinality(Ahead(m, places, i)) \in Nat
    BY <2>3, FS_CardinalityType
  <2> QED BY <1>1, <2>3, <2>4, PlaceIs
<1>3. ASSUME NEW i \in places, NEW j \in places, Manifest!Before(m, i, j)
      PROVE  Manifest!PlaceOf(m, places, i) # Manifest!PlaceOf(m, places, j)
  <2>1. Ahead(m, places, i) \subseteq Ahead(m, places, j) /\ i \in Ahead(m, places, j)
        /\ i \notin Ahead(m, places, i)
    BY <1>3, BeforeOrders DEF Ahead
  <2>2. Cardinality(Ahead(m, places, i)) # Cardinality(Ahead(m, places, j))
    BY <1>2, <2>1, FS_Subset
  <2> QED BY <1>2, <2>2, PlaceIs
<1>4. \A i, j \in places : Manifest!PlaceOf(m, places, i) = Manifest!PlaceOf(m, places, j) => i = j
  BY <1>3, BeforeOrders
<1>5. ASSUME NEW n \in 1 .. Cardinality(places)
             PROVE \E i \in places : Manifest!PlaceOf(m, places, i) = n
  <2> DEFINE all == 1 .. Cardinality(places)
             f == [i \in places |-> Manifest!PlaceOf(m, places, i)]
  <2>1. f \in Injection(places, all)
    BY <1>2, <1>4 DEF Injection, IsInjective
  <2>2. IsFiniteSet(all) /\ Cardinality(all) = Cardinality(places)
    BY <1>1, FS_Interval
  <2>3. f \in Surjection(places, all)
    BY <2>1, <2>2, FS_Injection
  <2> QED BY <2>3 DEF Surjection
<1> QED BY <1>2, <1>4, <1>5

\* The photos at those places, each once: sorting neither loses a photo nor invents one.
LEMMA SortedKeeps ==
  ASSUME NEW m \in Seq(Photographs), NEW places \in SUBSET DOMAIN m
  PROVE  LET s == Manifest!Sorted(m, places) IN
         /\ s \in Seq(Photographs) /\ Len(s) = Cardinality(places)
         /\ \A n \in DOMAIN s : \E i \in places : s[n] = m[i]
         /\ \A i \in places : \E n \in DOMAIN s : s[n] = m[i]
<1> DEFINE s == Manifest!Sorted(m, places)
           all == 1 .. Cardinality(places)
           at1(n) == CHOOSE i \in places : Manifest!PlaceOf(m, places, i) = n
<1>1. s = [n \in all |-> m[at1(n)]]
  BY ShotsAreCounted DEF Manifest!Sorted
<1>2. \A n \in all : at1(n) \in places /\ Manifest!PlaceOf(m, places, at1(n)) = n
  BY PlacesAreTaken
<1>3. \A i \in places : Manifest!PlaceOf(m, places, i) \in all
      /\ at1(Manifest!PlaceOf(m, places, i)) = i
  BY PlacesAreTaken
<1>4. Cardinality(places) \in Nat
  BY PlacesAreFinite
<1> HIDE DEF at1
<1>5. s \in [all -> Photographs]
  BY <1>1, <1>2
<1>6. s \in Seq(Photographs) /\ Len(s) = Cardinality(places) /\ DOMAIN s = all
  BY <1>4, <1>5
<1>7. \A n \in DOMAIN s : \E i \in places : s[n] = m[i]
  BY <1>1, <1>2, <1>6
<1>8. \A i \in places : \E n \in DOMAIN s : s[n] = m[i]
  BY <1>1, <1>3, <1>6
<1> HIDE DEF s
<1> QED BY <1>6, <1>7, <1>8 DEF s

LEMMA FirstAreSome ==
  ASSUME NEW s \in Seq(Photographs), NEW n \in Nat
  PROVE  /\ Manifest!First(s, n) \in Seq(Photographs)
         /\ \A i \in DOMAIN Manifest!First(s, n) : i \in DOMAIN s /\ Manifest!First(s, n)[i] = s[i]
         /\ n >= Len(s) => Manifest!First(s, n) = s
BY DEF Manifest!First

\* The keys of what a manifest shows are those of photos that can be shown, and of all of
\* them if that many may be.
LEMMA RefsAreUsable ==
  ASSUME NEW m \in Seq(Photographs), NEW n \in Nat, NEW b \in BOOLEAN
  PROVE  /\ \A k \in Manifest!KeysOf(Manifest!Refs(m, n, b)) : k # 0
         /\ n >= Len(m) => \A i \in Manifest!Usable(m, b) :
            m[i].key \in Manifest!KeysOf(Manifest!Refs(m, n, b))
<1> DEFINE u == Manifest!Usable(m, b)
           s == Manifest!Sorted(m, u)
           r == Manifest!Refs(m, n, b)
<1>1. u \in SUBSET DOMAIN m /\ \A i \in u : m[i].key # 0
  BY DEF Manifest!Usable
<1>2. /\ s \in Seq(Photographs) /\ Len(s) = Cardinality(u)
      /\ \A o \in DOMAIN s : \E i \in u : s[o] = m[i]
      /\ \A i \in u : \E o \in DOMAIN s : s[o] = m[i]
  BY <1>1, SortedKeeps
<1>3. r = Manifest!First(s, n) /\ Cardinality(u) <= Len(m) /\ Cardinality(u) \in Nat /\ Len(m) \in Nat
  BY <1>1, PlacesAreFinite DEF Manifest!Refs
<1> HIDE DEF u, s
<1>4. /\ \A i \in DOMAIN r : i \in DOMAIN s /\ r[i] = s[i]
      /\ n >= Len(m) => r = s
  <2>1. /\ \A i \in DOMAIN Manifest!First(s, n) : i \in DOMAIN s /\ Manifest!First(s, n)[i] = s[i]
        /\ n >= Len(s) => Manifest!First(s, n) = s
    BY <1>2, FirstAreSome
  <2>2. n >= Len(m) => n >= Len(s)
    BY <1>2, <1>3
  <2> HIDE DEF r
  <2> QED BY <1>3, <2>1, <2>2
<1> HIDE DEF r
<1>5. Manifest!KeysOf(r) = {r[i].key : i \in DOMAIN r}
  BY DEF Manifest!KeysOf, Manifest!ToSet
<1>6. \A k \in Manifest!KeysOf(r) : k # 0
  BY <1>1, <1>2, <1>4, <1>5
<1>7. n >= Len(m) => \A i \in u : m[i].key \in Manifest!KeysOf(r)
  BY <1>2, <1>4, <1>5
<1> QED BY <1>6, <1>7 DEF r, u

-----------------------------------------------------------------------------
\* The manifest is of photos, and nothing without a key was ever copied.
RollInv == roll \in Seq(Photographs) /\ 0 \notin copied

LEMMA RollInit == Manifest!Init => RollInv
<1> SUFFICES ASSUME Manifest!Init PROVE RollInv
  OBVIOUS
<1>1. \A k \in {"damage-1", "exterior-front", "none", "passport", "passport-2"} : k \in KnownKinds
  <2>1. \A n \in 1 .. 6 : Manifest!Kinds[n] \in KnownKinds
    BY DEF KnownKinds, Manifest!ToSet, Manifest!Kinds
  <2> QED BY <2>1 DEF Manifest!Kinds
<1>2. \A n \in {0, 1, 2}, k \in {"damage-1", "exterior-front", "none", "passport", "passport-2"} :
        [key |-> n, kind |-> k] \in Photographs
  BY <1>1 DEF Photographs
<1>3. roll \in Seq(Photographs)
  <2> DEFINE a == [key |-> 1, kind |-> "damage-1"]
             b == [key |-> 2, kind |-> "exterior-front"]
             c == [key |-> 0, kind |-> "none"]
             d == [key |-> 1, kind |-> "passport"]
             e == [key |-> 2, kind |-> "passport-2"]
  <2>1. roll = <<>> \/ roll = <<a, b>> \/ roll = <<c, d, e>>
    BY DEF Manifest!Init
  <2>2. a \in Photographs /\ b \in Photographs /\ c \in Photographs /\ d \in Photographs
        /\ e \in Photographs
    BY <1>2
  <2> HIDE DEF a, b, c, d, e
  <2>3. <<>> \in Seq(Photographs)
    OBVIOUS
  <2>4. <<a, b>> \in Seq(Photographs)
    BY <2>2
  <2>5. <<c, d, e>> \in Seq(Photographs)
    BY <2>2
  <2> QED BY <2>1, <2>3, <2>4, <2>5
<1>4. 0 \notin copied
  BY DEF Manifest!Init
<1> QED BY <1>3, <1>4 DEF RollInv

LEMMA KeyIsWritten ==
  ASSUME NEW m \in Seq(Photographs), NEW i \in DOMAIN m, NEW n \in Nat
  PROVE  LET rows == [m EXCEPT ![i].key = n]
         IN rows \in Seq(Photographs) /\ DOMAIN rows = DOMAIN m /\ rows[i].key = n
<1> DEFINE e == [m[i] EXCEPT !.key = n]
<1>1. m[i] \in Photographs
  OBVIOUS
<1>2. e \in Photographs /\ e.key = n
  BY <1>1 DEF Photographs
<1>3. [m EXCEPT ![i].key = n] = [m EXCEPT ![i] = e]
  OBVIOUS
<1> HIDE DEF e
<1>4. [m EXCEPT ![i] = e] \in Seq(Photographs) /\ DOMAIN [m EXCEPT ![i] = e] = DOMAIN m
      /\ [m EXCEPT ![i] = e][i] = e
  BY <1>2
<1> QED BY <1>2, <1>3, <1>4

LEMMA PhotosRoll ==
  ASSUME RollInv, MaxShots \in Nat, Manifest!PhotosChange
  PROVE  RollInv'
<1>1. ASSUME NEW rows \in Seq(Photographs), Manifest!Rewrite(rows) PROVE roll' \in Seq(Photographs)
  <2>1. Manifest!Usable(rows, TRUE) \in SUBSET DOMAIN rows
    BY DEF Manifest!Usable
  <2> QED BY <1>1, <2>1, SortedKeeps DEF Manifest!Rewrite
<1>2. roll \in Seq(Photographs) /\ 0 \notin copied /\ copied' = copied
  BY DEF RollInv, Manifest!PhotosChange
<1>3. ASSUME NEW i \in DOMAIN roll, NEW n \in Nat
      PROVE  [roll EXCEPT ![i].key = n] \in Seq(Photographs)
  BY <1>2, KeyIsWritten
<1>4. \E rows \in Seq(Photographs) : Manifest!Rewrite(rows)
  <2>1. CASE \E i \in DOMAIN roll : Manifest!Rewrite([roll EXCEPT ![i].key = 0])
    BY <2>1, <1>3
  <2>2. ASSUME NEW k \in KnownKinds, NEW n \in 1 .. MaxShots,
               Manifest!Rewrite(Append(roll, [key |-> n, kind |-> k]))
        PROVE  \E rows \in Seq(Photographs) : Manifest!Rewrite(rows)
    <3> DEFINE e == [key |-> n, kind |-> k]
    <3>1. e \in Photographs
      BY DEF Photographs
    <3> HIDE DEF e
    <3>2. Append(roll, e) \in Seq(Photographs)
      BY <1>2, <3>1
    <3> QED BY <2>2, <3>2 DEF e
  <2>3. ASSUME NEW n \in 1 .. MaxShots, NEW i \in Manifest!Usable(roll, TRUE),
               Manifest!Rewrite([roll EXCEPT ![i].key = n])
        PROVE  \E rows \in Seq(Photographs) : Manifest!Rewrite(rows)
    BY <1>3, <2>3 DEF Manifest!Usable
  <2> QED BY <2>1, <2>2, <2>3 DEF Manifest!PhotosChange, KnownKinds
<1> QED BY <1>1, <1>2, <1>4 DEF RollInv

LEMMA RollStep ==
  ASSUME MaxShots \in Nat
  PROVE  RollInv /\ (Manifest!Next \/ UNCHANGED Manifest!manifestVars) => RollInv'
<1> SUFFICES ASSUME RollInv, Manifest!Next \/ UNCHANGED Manifest!manifestVars PROVE RollInv'
  OBVIOUS
<1>1. CASE Manifest!MirrorPhotos
  <2>1. 2 \in Nat /\ roll \in Seq(Photographs)
    BY DEF RollInv
  <2>2. 0 \notin Manifest!KeysOf(Manifest!Refs(roll, 2, FALSE))
    BY <2>1, RefsAreUsable
  <2> QED BY <1>1, <2>1, <2>2 DEF Manifest!MirrorPhotos, RollInv
<1>2. CASE Manifest!Show \/ Manifest!ReportFull \/ Manifest!Erase \/ UNCHANGED Manifest!manifestVars
  BY <1>2 DEF Manifest!Show, Manifest!ReportFull, Manifest!Erase, Manifest!manifestVars, RollInv
<1> QED BY <1>1, <1>2, PhotosRoll DEF Manifest!Next

\* A photo that comes has a key that none had, and one that goes is one less.
LEMMA ChangesChange ==
  ASSUME RollInv, MaxShots \in Nat, Manifest!PhotosChange
  PROVE  roll' # roll
<1>1. roll \in Seq(Photographs) /\ Len(roll) \in Nat /\ DOMAIN roll = 1 .. Len(roll)
  BY DEF RollInv
<1>2. ASSUME NEW rows \in Seq(Photographs), Manifest!Rewrite(rows)
      PROVE  /\ Manifest!Usable(rows, TRUE) \in SUBSET DOMAIN rows
             /\ Len(roll') = Cardinality(Manifest!Usable(rows, TRUE))
             /\ \A i \in DOMAIN rows : rows[i].key # 0 => \E n \in DOMAIN roll' : roll'[n] = rows[i]
  <2>1. Manifest!Usable(rows, TRUE) \in SUBSET DOMAIN rows
    BY DEF Manifest!Usable
  <2>2. \A i \in DOMAIN rows : rows[i].key # 0 => i \in Manifest!Usable(rows, TRUE)
    BY DEF Manifest!Usable
  <2> QED BY <1>2, <2>1, <2>2, SortedKeeps DEF Manifest!Rewrite
<1>3. ASSUME NEW rows \in Seq(Photographs), Manifest!Rewrite(rows), NEW n \in Nat \ {0},
             \E i \in DOMAIN rows : rows[i].key = n, \A i \in DOMAIN roll : roll[i].key # n
      PROVE  roll' # roll
  <2>1. PICK i \in DOMAIN rows : rows[i].key = n
    BY <1>3
  <2>2. PICK o \in DOMAIN roll' : roll'[o] = rows[i]
    BY <1>2, <1>3, <2>1
  <2> QED BY <1>3, <2>1, <2>2
<1>4. \A n : n \notin Manifest!Used => \A i \in DOMAIN roll : roll[i].key # n
  BY DEF Manifest!Used, Manifest!KeysOf, Manifest!ToSet
<1>5. CASE \E i \in DOMAIN roll : Manifest!Rewrite([roll EXCEPT ![i].key = 0])
  <2>1. PICK i \in DOMAIN roll : Manifest!Rewrite([roll EXCEPT ![i].key = 0])
    BY <1>5
  <2> DEFINE rows == [roll EXCEPT ![i].key = 0]
             u == Manifest!Usable(rows, TRUE)
  <2>2. rows \in Seq(Photographs) /\ DOMAIN rows = DOMAIN roll /\ rows[i].key = 0
    BY <1>1, KeyIsWritten
  <2>3. u \subseteq DOMAIN roll \ {i}
    BY <2>2 DEF Manifest!Usable
  <2>4. Len(roll') = Cardinality(u)
    BY <1>2, <2>1, <2>2
  <2> HIDE DEF u, rows
  <2>5. IsFiniteSet(DOMAIN roll) /\ Cardinality(DOMAIN roll) \in Nat
        /\ Cardinality(DOMAIN roll) <= Len(roll)
    BY <1>1, PlacesAreFinite
  <2>6. IsFiniteSet(DOMAIN roll \ {i}) /\ Cardinality(DOMAIN roll \ {i}) = Cardinality(DOMAIN roll) - 1
    BY <2>5, FS_RemoveElement
  <2>7. IsFiniteSet(u) /\ Cardinality(u) <= Cardinality(DOMAIN roll \ {i})
    BY <2>3, <2>6, FS_Subset
  <2>8. Cardinality(u) \in Nat
    BY <2>7, FS_CardinalityType
  <2> QED BY <1>1, <2>4, <2>5, <2>6, <2>7, <2>8
<1>6. ASSUME NEW k \in KnownKinds, NEW n \in 1 .. MaxShots, n \notin Manifest!Used,
             Manifest!Rewrite(Append(roll, [key |-> n, kind |-> k]))
      PROVE  roll' # roll
  <2> DEFINE e == [key |-> n, kind |-> k]
  <2>1. e \in Photographs /\ e.key = n /\ n \in Nat \ {0}
    BY DEF Photographs
  <2> HIDE DEF e
  <2>2. Append(roll, e) \in Seq(Photographs) /\ Len(roll) + 1 \in DOMAIN Append(roll, e)
        /\ Append(roll, e)[Len(roll) + 1] = e
    BY <1>1, <2>1
  <2>3. Manifest!Rewrite(Append(roll, e))
    BY <1>6 DEF e
  <2> QED BY <1>3, <1>4, <1>6, <2>1, <2>2, <2>3
<1>7. ASSUME NEW n \in 1 .. MaxShots, NEW i \in Manifest!Usable(roll, TRUE), n \notin Manifest!Used,
             Manifest!Rewrite([roll EXCEPT ![i].key = n])
      PROVE  roll' # roll
  <2>1. i \in DOMAIN roll /\ n \in Nat \ {0}
    BY DEF Manifest!Usable
  <2> DEFINE rows == [roll EXCEPT ![i].key = n]
  <2>2. rows \in Seq(Photographs) /\ DOMAIN rows = DOMAIN roll /\ rows[i].key = n
    BY <1>1, <2>1, KeyIsWritten
  <2> HIDE DEF rows
  <2>3. Manifest!Rewrite(rows)
    BY <1>7 DEF rows
  <2> QED BY <1>3, <1>4, <1>7, <2>1, <2>2, <2>3
<1> QED BY <1>5, <1>6, <1>7 DEF Manifest!PhotosChange, KnownKinds

\* The sweep takes whatever a build may have copied of a photo that the report has.
LEMMA ErasuresSweep ==
  ASSUME MaxShots \in Nat
  PROVE  RollInv /\ (Manifest!Next \/ UNCHANGED Manifest!manifestVars) => Manifest!ErasedIsSwept
<1> SUFFICES ASSUME RollInv, Manifest!Next \/ UNCHANGED Manifest!manifestVars,
                    claimed, marked, ~marked', roll' = roll
             PROVE  copied' \cap Manifest!KeysOf(roll) = {}
  BY DEF Manifest!ErasedIsSwept
<1>1. CASE Manifest!Erase
  <2>1. roll \in Seq(Photographs) /\ Len(roll) \in Nat /\ Len(roll) >= Len(roll)
    BY DEF RollInv
  <2>2. \A i \in Manifest!Usable(roll, TRUE) : roll[i].key \in Manifest!SweptKeys(roll)
    BY <2>1, RefsAreUsable DEF Manifest!SweptKeys, Manifest!All
  <2>3. \A i \in DOMAIN roll : roll[i].key = 0 \/ roll[i].key \in Manifest!SweptKeys(roll)
    BY <2>2 DEF Manifest!Usable
  <2>4. copied' = copied \ Manifest!SweptKeys(roll) /\ 0 \notin copied
    BY <1>1 DEF Manifest!Erase, RollInv
  <2> QED BY <2>3, <2>4 DEF Manifest!KeysOf, Manifest!ToSet
<1>2. ~Manifest!PhotosChange
  BY ChangesChange
<1>3. CASE Manifest!MirrorPhotos
  BY <1>3 DEF Manifest!MirrorPhotos, Manifest!Stamp
<1> QED BY <1>1, <1>2, <1>3 DEF Manifest!Next, Manifest!Show, Manifest!ReportFull,
           Manifest!manifestVars

-----------------------------------------------------------------------------
\* A run is of one part: what is proved of a part by itself is so here.
LEMMA OfOnePart ==
  [PlatformNext]_platformVars
    => /\ which' = which
       /\ which = "pool" => Next \/ UNCHANGED vars
       /\ which = "refunds" => Refunds!Next \/ UNCHANGED <<refundsState, at, my>>
       /\ which = "purchases" => Purchases!Next \/ UNCHANGED <<purchasesState, at, my>>
       /\ which = "phones" => Links!Next \/ UNCHANGED <<phonesState, at, my>>
       /\ which = "connect" => Connect!Next \/ UNCHANGED <<connectState, at, my>>
       /\ which = "staff" => Staff!Next \/ UNCHANGED <<staffState, at, my>>
       /\ which = "notices" => Notices!Next \/ UNCHANGED <<noticesState, at, my>>
       /\ which = "ordering" => Ordering!Next \/ UNCHANGED <<orderingState, at, my>>
       /\ which = "intake" => Intake!Next \/ UNCHANGED <<intakeState, at, my>>
       /\ which = "accounts" => Accounts!Next \/ UNCHANGED <<accountsState, at, my>>
       /\ which = "contracts" => Contracts!Next \/ UNCHANGED <<contractsState, at, my>>
       /\ which = "receipts" => Receipts!Next \/ UNCHANGED receiptsState
       /\ which = "boot" => Boot!Next \/ UNCHANGED bootState
       /\ which = "kyc" => Kyc!Next \/ UNCHANGED <<kycState, at, my>>
       /\ which = "showroom" => Showroom!Next \/ UNCHANGED <<showroomState, at, my>>
       /\ which = "gallery" => Gallery!Next \/ UNCHANGED <<galleryState, at, my>>
       /\ which = "manifest" => Manifest!Next \/ UNCHANGED manifestState
       /\ which = "views" => Views!Next \/ UNCHANGED viewsState
       /\ which = "completeness" => Completeness!Next \/ UNCHANGED completenessState
<1> SUFFICES ASSUME [PlatformNext]_platformVars
             PROVE  /\ which' = which
                    /\ which = "pool" => PoolNext \/ UNCHANGED platformVars
                    /\ which = "refunds" => RefundsNext \/ UNCHANGED platformVars
                    /\ which = "purchases" => PurchasesNext \/ UNCHANGED platformVars
                    /\ which = "phones" => PhonesNext \/ UNCHANGED platformVars
                    /\ which = "connect" => ConnectNext \/ UNCHANGED platformVars
                    /\ which = "staff" => StaffNext \/ UNCHANGED platformVars
                    /\ which = "notices" => NoticesNext \/ UNCHANGED platformVars
                    /\ which = "ordering" => OrderingNext \/ UNCHANGED platformVars
                    /\ which = "intake" => IntakeNext \/ UNCHANGED platformVars
                    /\ which = "accounts" => AccountsNext \/ UNCHANGED platformVars
                    /\ which = "contracts" => ContractsNext \/ UNCHANGED platformVars
                    /\ which = "receipts" => ReceiptsNext \/ UNCHANGED platformVars
                    /\ which = "boot" => BootNext \/ UNCHANGED platformVars
                    /\ which = "kyc" => KycNext \/ UNCHANGED platformVars
                    /\ which = "showroom" => ShowroomNext \/ UNCHANGED platformVars
                    /\ which = "gallery" => GalleryNext \/ UNCHANGED platformVars
                    /\ which = "manifest" => ManifestNext \/ UNCHANGED platformVars
                    /\ which = "views" => ViewsNext \/ UNCHANGED platformVars
                    /\ which = "completeness" => CompletenessNext \/ UNCHANGED platformVars
  BY DEF platformVars, mainState, sideState, deskState, paperState, PoolNext, RefundsNext,
     PurchasesNext, StaffNext, ManifestNext, PhonesNext, ConnectNext, NoticesNext, OrderingNext,
     IntakeNext, AccountsNext, ContractsNext, ReceiptsNext, BootNext, KycNext, ShowroomNext,
     GalleryNext, ViewsNext, CompletenessNext
<1> QED
  BY DEF PlatformNext, PoolNext, HandsNext, KycNext, ShowroomNext, IntakeNext, RefundsNext,
     PurchasesNext, AccountsNext, PhonesNext, ContractsNext, PricingNext, ConnectNext, StaffNext,
     NoticesNext, ViewsNext, QueueNext, SearchNext, ReceiptsNext, BootNext, CompletenessNext,
     MrzNext, GalleryNext, ManifestNext, OrderingNext, LookupsNext, platformVars

\* The step of a part that is proved to move.
LEMMA PartMoves ==
  PlatformNext => /\ which = "kyc" => Kyc!Next
                  /\ which = "showroom" => Showroom!Next
                  /\ which = "staff" => Staff!Next
BY DEF PlatformNext, PoolNext, HandsNext, KycNext, ShowroomNext, IntakeNext, RefundsNext,
   PurchasesNext, AccountsNext, PhonesNext, ContractsNext, PricingNext, ConnectNext, StaffNext,
   NoticesNext, ViewsNext, QueueNext, SearchNext, ReceiptsNext, BootNext, CompletenessNext,
   MrzNext, GalleryNext, ManifestNext, OrderingNext, LookupsNext

\* However many settlements, retries, operators and webhooks overlap on the platform, money
\* goes back once, and until then it is in the queue or on the list of what failed.
THEOREM MoneyIsBackOnce ==
  ASSUME Amounts, OneKey
  PROVE  PlatformSpec => []MoneyGoesBackOnce
<1> DEFINE Inv == which = "refunds" => RefundsInv /\ OnceInv
<1>1. PlatformInit => Inv
  BY RefundsInit, OnceInit DEF PlatformInit, Begins
<1>2. Inv /\ [PlatformNext]_platformVars => Inv'
  <2>1. UNCHANGED <<refundsState, at, my>> => UNCHANGED Refunds!vars
    BY DEF refundsState, Refunds!vars, Refunds!stripe
  <2> QED BY <2>1, OfOnePart, RefundsStep, RefundsOnce
<1>3. Inv => MoneyGoesBackOnce
  BY RefundsHold DEF MoneyGoesBackOnce, In
<1> QED BY <1>1, <1>2, <1>3, PTL DEF PlatformSpec

\* The account money would go to is one its inspector completed, and it is in the country and
\* of the kind the profile says, however forms, pushed tokens and Stripe's events interleave
\* and whatever becomes of the accounts.
THEOREM PayoutAccountIsTheirs == PlatformSpec => []AccountIsTheirs
<1> DEFINE Inv == which = "connect" => ConnectInv
<1>1. PlatformInit => Inv
  BY ConnectInit DEF PlatformInit, Begins
<1>2. Inv /\ [PlatformNext]_platformVars => Inv'
  BY OfOnePart, ConnectStep
<1>3. Inv => AccountIsTheirs
  BY ConnectHolds DEF AccountIsTheirs, In
<1> QED BY <1>1, <1>2, <1>3, PTL DEF PlatformSpec

\* Preferences are as the user last chose them, an offer's notice calls for as long as its
\* offer is open, and a credential is not among the notices a session can list, however many
\* notices are sent, answered for and read meanwhile.
THEOREM NoticesDoHold == PlatformSpec => []NoticesHold
<1> DEFINE Inv == which = "notices" => NoticesInv
<1>1. PlatformInit => Inv
  BY NoticesInit DEF PlatformInit, Begins
<1>2. Inv /\ [PlatformNext]_platformVars => Inv'
  BY OfOnePart, NoticesStep
<1>3. Inv => NoticesHold
  BY NoticesKeep DEF NoticesHold, In
<1> QED BY <1>1, <1>2, <1>3, PTL DEF PlatformSpec

\* What somebody may open follows what was paid and what is linked, whatever dies, is
\* refunded, unlinked or erased meanwhile.
THEOREM AccessDoesFollow ==
  ASSUME InOrder, Linkers \subseteq PartAlone
  PROVE  PlatformSpec => []AccessFollows
<1> DEFINE Inv == (which = "purchases" => BuysInv) /\ (which = "phones" => LinkInv)
<1>1. PlatformInit => Inv
  BY BuysInit, LinkInit DEF PlatformInit, Begins
<1>2. Inv /\ [PlatformNext]_platformVars => Inv'
  BY OfOnePart, BuysStep, LinkStep
<1>3. Inv => AccessFollows
  BY AccessIsPaidFor, LinkHolds DEF AccessFollows, In
<1> QED BY <1>1, <1>2, <1>3, PTL DEF PlatformSpec

\* Whatever is held on a card is held by the one intent that the payment of its order names,
\* and is in the ledger unless Stripe has still to tell of it; an order that searches has a
\* deadline.  So no hold is lost to a cancellation, to the reconciler or to the sweep of
\* expired searches, wherever a handler dies and however the customer's tabs race them.
THEOREM HoldsDoStand == ASSUME CountsDown PROVE PlatformSpec => []HoldsAreKnown
<1> DEFINE Inv == which = "ordering" => OrderInv
<1>1. PlatformInit => Inv
  BY OrderInit DEF PlatformInit, Begins
<1>2. Inv /\ [PlatformNext]_platformVars => Inv'
  BY OfOnePart, OrderStep
<1>3. Inv => HoldsAreKnown
  BY OrderHolds DEF HoldsAreKnown, In
<1> QED BY <1>1, <1>2, <1>3, PTL DEF PlatformSpec

\* A device has paid one credit for each of its free reports, PRO is for no more devices than
\* its purchase may have, under one number, and an order is SUBMITTED for a report of its own,
\* whoever conflicts over a code, an order or a purchase and wherever they are refused.
THEOREM QuotaDoesHold == ASSUME IntakeCalm PROVE PlatformSpec => []QuotaHolds
<1> DEFINE Inv == (which = "intake" => IntakeInv) /\ (which = "receipts" => ReceiptInv)
<1>1. PlatformInit => Inv
  BY IntakeInit, ReceiptInit, BooksSell DEF PlatformInit, Begins
<1>2. Inv /\ [PlatformNext]_platformVars => Inv'
  <2>1. /\ UNCHANGED <<intakeState, at, my>> => UNCHANGED Intake!vars
        /\ UNCHANGED receiptsState => UNCHANGED Receipts!receiptVars
    BY DEF intakeState, Intake!vars, Intake!quotaState, receiptsState, Receipts!receiptVars
  <2> QED BY <2>1, OfOnePart, IntakeStep, ReceiptStep
<1>3. Inv => QuotaHolds
  BY IntakePromises, ReceiptPromises DEF QuotaHolds, In
<1> QED BY <1>1, <1>2, <1>3, PTL DEF PlatformSpec

\* A token and a code do their work once, a password is refused no more often than it may be
\* with those counted that had read the counter before, and a contract is rendered no more
\* often, however many who read the same row overlap.
THEOREM OnlySoOftenHolds ==
  ASSUME AccountsCalm, ContractsCalm, Linkers \subseteq PartAlone
  PROVE  PlatformSpec => []OnlySoOften
<1> DEFINE Inv == /\ which = "accounts" => AccountInv
                  /\ which = "phones" => LinkInv /\ CodeInv
                  /\ which = "contracts" => DeedInv
<1>1. PlatformInit => Inv
  BY AccountInit, LinkInit, CodeInit, DeedInit DEF PlatformInit, Begins
<1>2. Inv /\ [PlatformNext]_platformVars => Inv'
  <2>1. /\ UNCHANGED <<accountsState, at, my>> => UNCHANGED Accounts!vars
        /\ UNCHANGED <<contractsState, at, my>> => UNCHANGED Contracts!vars
    BY DEF accountsState, Accounts!vars, Accounts!users, Accounts!logins, contractsState,
       Contracts!vars, Contracts!templates, Contracts!contracts
  <2> QED BY <2>1, OfOnePart, AccountStep, LinkStep, CodeStep, DeedStep
<1>3. Inv => OnlySoOften
  BY AccountPromises, CodeHolds, DeedPromises DEF OnlySoOften, In
<1> QED BY <1>1, <1>2, <1>3, PTL DEF PlatformSpec

\* A process that serves keeps identity documents apart and says what does not work; one
\* that does not was stopped by its own settings or buckets, whoever else does not answer.
THEOREM BootDoesHold == PlatformSpec => []BootHolds
<1> DEFINE Inv == which = "boot" => BootInv
<1>1. PlatformInit => Inv
  BY BootInit DEF PlatformInit, Begins
<1>2. Inv /\ [PlatformNext]_platformVars => Inv'
  <2>1. UNCHANGED bootState => UNCHANGED Boot!bootVars
    BY DEF bootState, Boot!bootVars
  <2> QED BY <2>1, OfOnePart, BootStep
<1>3. Inv => BootHolds
  BY BootPromises DEF BootHolds, In
<1> QED BY <1>1, <1>2, <1>3, PTL DEF PlatformSpec

\* What a row says of the object store is so: of the document of an application, the photos of
\* a report, the copies an advert's stamp stands for, a PDF, a contract, the pictures of a
\* gallery, the documents a server that starts again looks for; whatever the store refuses and
\* wherever a handler dies.
THEOREM RowsDoHaveTheirObjects ==
  ASSUME KycCalm, ShowroomCalm, IntakeCalm, ContractsCalm, GalleryCalm
  PROVE  PlatformSpec => []RowsHaveTheirObjects
<1> DEFINE Inv == /\ which = "kyc" => KycInv
                  /\ which = "showroom" => ShowroomInv
                  /\ which = "intake" => IntakeInv
                  /\ which = "contracts" => DeedInv
                  /\ which = "gallery" => GalleryInv
                  /\ which = "boot" => BootInv
<1>1. PlatformInit => Inv
  BY KycInit, ShowroomInit, IntakeInit, DeedInit, GalleryInit, BootInit DEF PlatformInit, Begins
<1>2. Inv /\ [PlatformNext]_platformVars => Inv'
  <2>1. /\ UNCHANGED <<kycState, at, my>> => UNCHANGED Kyc!vars
        /\ UNCHANGED <<showroomState, at, my>> => UNCHANGED Showroom!vars
        /\ UNCHANGED <<intakeState, at, my>> => UNCHANGED Intake!vars
        /\ UNCHANGED <<contractsState, at, my>> => UNCHANGED Contracts!vars
        /\ UNCHANGED <<galleryState, at, my>> => UNCHANGED Gallery!galleryVars
        /\ UNCHANGED bootState => UNCHANGED Boot!bootVars
    BY DEF kycState, Kyc!vars, showroomState, Showroom!vars, Showroom!reportState, intakeState,
       Intake!vars, Intake!quotaState, contractsState, Contracts!vars, Contracts!templates,
       Contracts!contracts, galleryState, Gallery!galleryVars, bootState, Boot!bootVars
  <2> QED BY <2>1, OfOnePart, KycStep, ShowroomStep, IntakeStep, DeedStep, GalleryStep, BootStep
<1>3. Inv => RowsHaveTheirObjects
  <2>1. /\ KycInv => Kyc!UndecidedHasDocument
        /\ GalleryInv => Gallery!GalleryHolds
    BY DEF KycInv, GalleryInv
  <2> QED BY <2>1, ShowroomPromises, IntakePromises, DeedPromises, BootPromises
             DEF RowsHaveTheirObjects, In
<1> QED BY <1>1, <1>2, <1>3, PTL DEF PlatformSpec

\* An answer is true of what it was made from when it is given: a purchase is confirmed or
\* rejected as its store says, a page shows no more of an order than its reader may see by
\* now, an order is submitted for a report that is whole, and who is sent back to a car lacks
\* what the app has asked for; a gallery that was put in order has its photos in that order.
THEOREM AnswersDoHold ==
  ASSUME GalleryCalm
  PROVE  PlatformSpec => AnswersAreTrue
<1> DEFINE Inv == /\ which = "receipts" => ReceiptInv
                  /\ which = "views" => ViewInv
                  /\ which = "completeness" => GateInv
                  /\ which = "gallery" => GalleryInv
           Answers == /\ which = "receipts" => Receipts!VerdictsAreTrue
                      /\ which = "views" => Views!ShownAtMost
                      /\ which = "completeness" => Completeness!JudgedByItsRules
                      /\ which = "gallery" => Gallery!ReorderIsWhole
<1>1. PlatformInit => Inv
  BY ReceiptInit, BooksSell, ViewInit, GateInit, GalleryInit DEF PlatformInit, Begins
<1>2. /\ UNCHANGED receiptsState => UNCHANGED Receipts!receiptVars
      /\ UNCHANGED viewsState => UNCHANGED Views!viewVars
      /\ UNCHANGED completenessState => UNCHANGED Completeness!completenessVars
      /\ UNCHANGED <<galleryState, at, my>> => UNCHANGED Gallery!galleryVars
  BY DEF receiptsState, Receipts!receiptVars, viewsState, Views!viewVars, Views!world,
     completenessState, Completeness!completenessVars, galleryState, Gallery!galleryVars
<1>3. Inv /\ [PlatformNext]_platformVars => Inv'
  BY <1>2, OfOnePart, ReceiptStep, ViewStep, GateStep, GalleryStep
<1>4. Inv /\ [PlatformNext]_platformVars => [Answers]_platformVars
  <2>1. Inv /\ [PlatformNext]_platformVars =>
          /\ which = "receipts" => Receipts!VerdictsAreTrue
          /\ which = "views" => Views!ShownAtMost
          /\ which = "completeness" => Completeness!JudgedByItsRules
    BY <1>2, OfOnePart, VerdictsTrue, PagesShowAtMost, ReportsAreJudged
  <2>2. Inv /\ [PlatformNext]_platformVars /\ which = "gallery" => Gallery!ReorderIsWhole
    <3>1. UNCHANGED <<galleryState, at, my>> => Gallery!ReorderIsWhole
      BY DEF galleryState, Gallery!ReorderIsWhole
    <3> QED BY <3>1, OfOnePart, ReordersAreWhole
  <2> QED BY <2>1, <2>2
<1> QED BY <1>1, <1>3, <1>4, PTL DEF PlatformSpec, AnswersAreTrue

\* What was decided about somebody is not undone by a step of somebody else: who has refused
\* an order is not asked again, an application that was rejected lets nobody work, an advert
\* the admins hid is shown by them only, an erased account stays erased, an order keeps the
\* contract it was given, an inspector the account the money goes to, the staff somebody who
\* manages it; photos an erasure swept are not copied back, and a search keeps its deadline.
THEOREM DecisionsDoStand ==
  ASSUME Turns, KycCalm, ShowroomCalm, AccountsCalm, ContractsCalm, CountsDown, ~Overlaps,
         MaxShots \in Nat
  PROVE  PlatformSpec => DecisionsStand
<1> DEFINE Inv == /\ which = "pool" => AskInv
                  /\ which = "kyc" => KycInv
                  /\ which = "showroom" => ShowroomInv
                  /\ which = "accounts" => AccountInv
                  /\ which = "contracts" => DeedInv
                  /\ which = "connect" => ReplaceInv
                  /\ which = "staff" => StaffInv
                  /\ which = "manifest" => RollInv
                  /\ which = "ordering" => DeadlineInv
           Decisions == /\ which = "pool" => AsksOnceARound
                        /\ which = "kyc" => Kyc!WorksOnApproval
                        /\ which = "showroom" => Showroom!OnlyAdminUnhides
                        /\ which = "accounts" => Accounts!StaysErased
                        /\ which = "contracts" => Contracts!KeepsItsContract
                        /\ which = "connect" => Connect!KeepsLivingAccount
                        /\ which = "staff" => Staff!KeepsAManager
                        /\ which = "manifest" => Manifest!ErasedIsSwept
                        /\ which = "ordering" => Ordering!DeadlineStays
<1>1. PlatformInit => Inv
  BY AskInit, KycInit, ShowroomInit, AccountInit, DeedInit, ReplaceInit, StaffInit, RollInit,
     DeadlineInit DEF PlatformInit, Begins
<1>2. /\ UNCHANGED <<kycState, at, my>> => UNCHANGED Kyc!vars
      /\ UNCHANGED <<showroomState, at, my>> => UNCHANGED Showroom!vars
      /\ UNCHANGED <<accountsState, at, my>> => UNCHANGED Accounts!vars
      /\ UNCHANGED <<contractsState, at, my>> => UNCHANGED Contracts!vars
      /\ UNCHANGED <<connectState, at, my>> => UNCHANGED Connect!vars
      /\ UNCHANGED <<staffState, at, my>> => UNCHANGED Staff!vars
      /\ UNCHANGED manifestState => UNCHANGED Manifest!manifestVars
  BY DEF kycState, Kyc!vars, showroomState, Showroom!vars, Showroom!reportState, accountsState,
     Accounts!vars, Accounts!users, Accounts!logins, contractsState, Contracts!vars,
     Contracts!templates, Contracts!contracts, connectState, Connect!vars, Connect!connect,
     staffState, Staff!vars, Staff!people, manifestState, Manifest!manifestVars
<1>3. Inv /\ [PlatformNext]_platformVars => Inv'
  BY <1>2, OfOnePart, NextAsks, KycStep, ShowroomStep, AccountStep, DeedStep, ReplaceStep,
     StaffStep, RollStep, DeadlineStep
<1>4. Inv /\ [PlatformNext]_platformVars => [Decisions]_platformVars
  <2> SUFFICES ASSUME Inv, PlatformNext, [PlatformNext]_platformVars PROVE Decisions
    OBVIOUS
  <2>1. which = "pool" => AsksOnceARound
    BY OfOnePart, NextAsks
  <2>2. which = "kyc" => Kyc!WorksOnApproval
    BY <1>2, OfOnePart, PartMoves, NobodyIsBackIn, KycStep DEF KycInv, Kyc!WorksOnApproval
  <2>3. which = "showroom" => Showroom!OnlyAdminUnhides
    BY PartMoves, UnhidesAreTheAdmins
  <2>4. /\ which = "accounts" => Accounts!StaysErased
        /\ which = "contracts" => Contracts!KeepsItsContract
    BY <1>2, OfOnePart, AccountStays, DeedStays
  <2>5. /\ which = "connect" => Connect!KeepsLivingAccount
        /\ which = "manifest" => Manifest!ErasedIsSwept
        /\ which = "ordering" => Ordering!DeadlineStays
    BY <1>2, OfOnePart, ReplaceStep, ErasuresSweep, DeadlineStep
  <2>6. which = "staff" => Staff!KeepsAManager
    BY PartMoves, AManagerStays
  <2> HIDE DEF Inv
  <2> QED BY <2>1, <2>2, <2>3, <2>4, <2>5, <2>6
<1>5. [][Decisions]_platformVars => DecisionsStand
  BY PTL DEF DecisionsStand
<1> HIDE DEF Inv, Decisions
<1> QED BY <1>1, <1>3, <1>4, <1>5, PTL DEF PlatformSpec
=============================================================================
