------------------------- MODULE UpstreamTokensProofs -------------------------
(***************************************************************************)
(* TokensAreShared for every set of requests and every number of           *)
(* revocations, expiries and failures.  The argument: tokens are numbered, *)
(* one of them is cached or on its way, and a request that is refused lets *)
(* go of that one only if it is the one it carried.  So a second try       *)
(* carries a token issued after the first was taken, and whoever asks for  *)
(* another token does so after an expiry, a failure or a revocation that   *)
(* no one has asked for yet.                                               *)
(***************************************************************************)
EXTENDS UpstreamTokens, TLAPS

(* What an answer says of the thing asked for, or of no one's failure.     *)
LEMMA LimitationTells ==
  ASSUME NEW a \in Answers \ {"none"}, ~Refused(a)
  PROVE  /\ Limitation(a) \in {"success", "rate_limited", "private"}
         /\ Limitation(a) = "private" => a \in {"403", "forbidden", "unauthorized_private"}
BY DEF Answers, Refused, Limitation

(* At first there is no token and no request.                              *)
LEMMA InitInductive == Init => Inductive
<1> SUFFICES ASSUME Init PROVE Inductive
  OBVIOUS
<1>1. pending.at = "none" /\ valid = {} /\ cached = 0
  BY DEF Init, NoPending
<1>2. seen.issued = 0 /\ seen.revoked = 0 /\ seen.expired = 0 /\ seen.failed = 0
  BY DEF Init
<1>3. \A r \in Requests : /\ req[r].at = "new" /\ req[r].token = 0 /\ req[r].tries = 0
                         /\ req[r].began = 0 /\ req[r].answer = "none" /\ req[r].out = "none"
  BY DEF Init
<1>4. TypeOK
  <2>1. req \in [Requests -> [at : {"new", "needs", "waits", "sent", "answered", "done"},
                             token : Nat, tries : {0, 1}, began : Nat,
                             answer : Answers, out : Outs]]
    BY DEF Init, Answers, Outs
  <2>2. seen \in [issued : Nat, revoked : Nat, expired : Nat, failed : Nat]
    BY DEF Init
  <2>3. pending \in [at : {"none", "sent"}]
    BY DEF Init, NoPending
  <2> QED BY <1>1, <2>1, <2>2, <2>3 DEF TypeOK
<1>5. OneToken /\ Accounted
  BY <1>1, <1>2 DEF OneToken, Accounted, InPlay
<1>6. \A r \in Requests : Fresh(r) /\ Carries(r) /\ SecondTry(r) /\ AnswersTrue(r)
  <2> SUFFICES ASSUME NEW r \in Requests PROVE Fresh(r) /\ Carries(r) /\ SecondTry(r) /\ AnswersTrue(r)
    OBVIOUS
  <2>1. req[r].at = "new" /\ req[r].token = 0 /\ req[r].tries = 0 /\ req[r].began = 0 /\ Fresh(r)
    BY <1>3 DEF Fresh
  <2>2. Carries(r)
    BY <1>1, <1>2, <2>1 DEF Carries
  <2>3. SecondTry(r)
    BY <2>1 DEF SecondTry, RevokedSince
  <2>4. AnswersTrue(r)
    BY <2>1 DEF AnswersTrue, Refused
  <2> QED BY <2>1, <2>2, <2>3, <2>4
<1>7. TokensAreShared
  <2>1. \A r \in Requests : req[r].out \notin {"refused", "private", "unavailable"}
    BY <1>3
  <2>2. TokenRequestsBounded
    BY <1>2 DEF TokenRequestsBounded
  <2> QED BY <2>1, <2>2 DEF TokensAreShared, RefusedOnlyByRevocation,
             RefusalIsNotPrivacy, AbortIsPrivate
<1> QED BY <1>4, <1>5, <1>6, <1>7 DEF Inductive

(* The account bounds the token requests.                                  *)
LEMMA AccountBounds ==
  ASSUME TypeOK, Accounted
  PROVE  TokenRequestsBounded
BY DEF TypeOK, Accounted, TokenRequestsBounded

(* What is said of the requests that have ended.                           *)
Outcomes(r) ==
  /\ req[r].out = "refused" => seen.revoked > req[r].began
  /\ req[r].out = "private" => r \in Hidden
  /\ req[r].out = "unavailable" => seen.failed > 0

(* The invariant, request by request.                                      *)
Holds(r) == Fresh(r) /\ Carries(r) /\ SecondTry(r) /\ AnswersTrue(r) /\ Outcomes(r)

LEMMA Parted ==
  Inductive <=> TypeOK /\ OneToken /\ Accounted /\ \A r \in Requests : Holds(r)
BY AccountBounds DEF Inductive, Holds, Outcomes, TokensAreShared, RefusedOnlyByRevocation,
   RefusalIsNotPrivacy, AbortIsPrivate

(* A step of one request leaves the others as they were, as long as the    *)
(* token in the cache is dropped at most.                                  *)
LEMMA OthersHold ==
  ASSUME Inductive, NEW r \in Requests, NEW q \in Requests, q # r,
         req'[q] = req[q], cached' \in {cached, 0},
         pending' = pending \/ pending'.at # "answered", UNCHANGED <<valid, seen>>
  PROVE  Holds(q)'
<1>1. Holds(q)
  BY Parted
<1> QED BY <1>1 DEF Holds, Fresh, Carries, SecondTry, AnswersTrue, Outcomes, RevokedSince

(* The invariant after a step, put together from its parts.                *)
LEMMA PutTogether ==
  ASSUME TypeOK', OneToken', Accounted', \A q \in Requests : Holds(q)'
  PROVE  Inductive'
<1>1. TokenRequestsBounded'
  BY DEF TypeOK, Accounted, TokenRequestsBounded
<1> QED BY <1>1 DEF Inductive, Holds, Outcomes, TokensAreShared, RefusedOnlyByRevocation,
   RefusalIsNotPrivacy, AbortIsPrivate

(* A row of req that changes keeps the type of req.                        *)
Rows == [at : {"new", "needs", "waits", "sent", "answered", "done"}, token : Nat,
         tries : {0, 1}, began : Nat, answer : Answers, out : Outs]

LEMMA RowType ==
  ASSUME TypeOK, NEW r \in Requests, NEW row \in Rows, req' = [req EXCEPT ![r] = row]
  PROVE  /\ req' \in [Requests -> Rows] /\ req'[r] = row
         /\ \A q \in Requests : q # r => req'[q] = req[q]
BY DEF TypeOK, Rows

LEMMA StartKeeps ==
  ASSUME Inductive, NEW r \in Requests, Start(r)
  PROVE  Inductive'
<1> DEFINE row == [req[r] EXCEPT !.at = "needs", !.began = seen.revoked]
<1>1. TypeOK /\ OneToken /\ Accounted /\ Holds(r)
  BY Parted
<1>2. row \in Rows
  BY <1>1 DEF TypeOK, Rows
<1>3. req' = [req EXCEPT ![r] = row] /\ UNCHANGED <<valid, cached, pending, seen>>
  BY DEF Start
<1>4. req' \in [Requests -> Rows] /\ req'[r] = row /\ \A q \in Requests : q # r => req'[q] = req[q]
  BY <1>1, <1>2, <1>3, RowType
<1>5. TypeOK' /\ OneToken' /\ Accounted'
  BY <1>1, <1>3, <1>4 DEF TypeOK, Rows, OneToken, Accounted, InPlay
<1>6. Holds(r)'
  <2>1. /\ req'[r].at = "needs" /\ req'[r].token = 0 /\ req'[r].tries = 0
        /\ req'[r].began = seen.revoked /\ req'[r].out = "none"
    BY <1>1, <1>4 DEF Start, TypeOK, Rows, Holds, Fresh
  <2>2. Carries(r)'
    BY <1>1, <1>3, <2>1 DEF TypeOK, OneToken, Carries, RevokedSince
  <2>3. SecondTry(r)' /\ AnswersTrue(r)' /\ Fresh(r)'
    BY <2>1 DEF SecondTry, AnswersTrue, Fresh, RevokedSince, Refused
  <2>4. Outcomes(r)'
    BY <2>1 DEF Outcomes
  <2> QED BY <2>2, <2>3, <2>4 DEF Holds
<1>7. \A q \in Requests : q # r => Holds(q)'
  BY <1>3, <1>4, OthersHold
<1> QED BY <1>5, <1>6, <1>7, PutTogether

LEMMA DoneType ==
  ASSUME NEW row \in Rows, NEW how \in Outs
  PROVE  Done(row, how) \in Rows
<1>1. [row EXCEPT !.at = "done", !.token = 0] \in Rows
  BY DEF Rows
<1>2. ASSUME NEW x \in Rows PROVE [x EXCEPT !.answer = "none", !.out = how] \in Rows
  BY DEF Rows, Answers
<1>3. Done(row, how) = [[row EXCEPT !.at = "done", !.token = 0] EXCEPT !.answer = "none", !.out = how]
  BY DEF Done
<1> QED BY <1>1, <1>2, <1>3

(* A request that ends holds no token and owes only its outcome.           *)
LEMMA DoneHolds ==
  ASSUME Inductive, NEW r \in Requests, NEW how \in Outs \ {"none"},
         req' = [req EXCEPT ![r] = Done(req[r], how)], cached' \in {cached, 0},
         UNCHANGED <<valid, pending, seen>>,
         how = "refused" => seen.revoked > req[r].began,
         how = "private" => r \in Hidden, how = "unavailable" => seen.failed > 0,
         Accounted'
  PROVE  Inductive'
<1>1. TypeOK /\ OneToken /\ Holds(r)
  BY Parted
<1>2. Done(req[r], how) \in Rows
  BY <1>1, DoneType DEF TypeOK, Rows
<1>3. req' \in [Requests -> Rows] /\ req'[r] = Done(req[r], how)
      /\ \A q \in Requests : q # r => req'[q] = req[q]
  BY <1>1, <1>2, RowType
<1>4. TypeOK' /\ OneToken'
  BY <1>1, <1>3 DEF TypeOK, Rows, OneToken
<1>5. Holds(r)'
  <2>1. /\ req'[r].at = "done" /\ req'[r].token = 0 /\ req'[r].out = how
        /\ req'[r].began = req[r].began
    BY <1>1, <1>3 DEF Done, TypeOK, Rows
  <2>2. Carries(r)'
    BY <1>1, <2>1 DEF TypeOK, OneToken, Holds, Carries, RevokedSince
  <2>3. SecondTry(r)' /\ AnswersTrue(r)' /\ Fresh(r)'
    BY <2>1 DEF SecondTry, AnswersTrue, Fresh, RevokedSince, Refused
  <2>4. Outcomes(r)'
    BY <2>1 DEF Outcomes
  <2> QED BY <2>2, <2>3, <2>4 DEF Holds
<1>6. \A q \in Requests : q # r => Holds(q)'
  BY <1>3, OthersHold
<1> QED BY <1>4, <1>5, <1>6, PutTogether

LEMMA AbortKeeps ==
  ASSUME Inductive, NEW r \in Requests, Abort(r)
  PROVE  Inductive'
<1>1. Accounted'
  BY Parted DEF Abort, Accounted, InPlay
<1>2. req' = [req EXCEPT ![r] = Done(req[r], "aborted")]
  BY DEF Abort
<1>3. "aborted" \in Outs \ {"none"}
  BY DEF Outs
<1>4. cached' \in {cached, 0} /\ UNCHANGED <<valid, pending, seen>>
  BY DEF Abort
<1> QED BY <1>1, <1>2, <1>3, <1>4, DoneHolds

(* The token a request takes from the cache is newer than the one it was   *)
(* refused with.                                                           *)
LEMMA TokenKeeps ==
  ASSUME Inductive, NEW r \in Requests, token(r)
  PROVE  Inductive'
<1>1. TypeOK /\ OneToken /\ Accounted /\ Holds(r)
  BY Parted
<1>2. CASE pending.at = "none" /\ cached # 0
  <2> DEFINE row == [req[r] EXCEPT !.at = "sent", !.token = cached]
  <2>1. req' = [req EXCEPT ![r] = row] /\ UNCHANGED <<valid, cached, pending, seen>>
    BY <1>2 DEF token
  <2>2. row \in Rows
    BY <1>1 DEF TypeOK, Rows
  <2>3. req' \in [Requests -> Rows] /\ req'[r] = row
        /\ \A q \in Requests : q # r => req'[q] = req[q]
    BY <1>1, <2>1, <2>2, RowType
  <2>4. /\ req'[r].at = "sent" /\ req'[r].token = seen.issued /\ req'[r].out = "none"
        /\ req'[r].tries = req[r].tries /\ req'[r].began = req[r].began
        /\ req[r].at = "needs"
    BY <1>1, <1>2, <2>3 DEF token, TypeOK, Rows, OneToken, Holds, Fresh
  <2>5. seen.issued \in Nat /\ seen.issued # 0 /\ seen.revoked \in Nat
    BY <1>1, <1>2 DEF TypeOK, OneToken
  <2>6. TypeOK' /\ OneToken' /\ Accounted'
    BY <1>1, <2>1, <2>3 DEF TypeOK, Rows, OneToken, Accounted, InPlay
  <2>7. Carries(r)'
    BY <1>1, <1>2, <2>1, <2>4, <2>5 DEF Holds, Carries, RevokedSince
  <2>8. SecondTry(r)'
    <3> SUFFICES ASSUME req[r].tries = 1, seen.issued \notin valid PROVE seen.revoked > req[r].began
      BY <2>1, <2>4 DEF SecondTry, RevokedSince
    <3>1. req[r].token # 0 /\ seen.issued # req[r].token
      BY <1>1, <1>2, <2>4 DEF Holds, SecondTry, OneToken
    <3>2. seen.issued \in (req[r].token + 1) .. seen.issued
      BY <1>1, <2>5, <3>1 DEF Holds, Carries, TypeOK, Rows
    <3> QED BY <1>1, <3>1, <3>2 DEF Holds, Carries, RevokedSince
  <2>9. AnswersTrue(r)' /\ Fresh(r)' /\ Outcomes(r)'
    BY <2>4 DEF AnswersTrue, Fresh, Outcomes, Refused
  <2>10. \A q \in Requests : q # r => Holds(q)'
    BY <2>1, <2>3, OthersHold
  <2> QED BY <2>6, <2>7, <2>8, <2>9, <2>10, PutTogether DEF Holds
<1>3. CASE pending.at # "none" \/ cached = 0
  <2> DEFINE row == [req[r] EXCEPT !.at = "waits"]
  <2>1. req' = [req EXCEPT ![r] = row] /\ UNCHANGED <<valid, cached, seen>>
    BY <1>3 DEF token
  <2>2. IF pending.at = "none" THEN pending' = [at |-> "sent"] ELSE pending' = pending
    BY <1>3 DEF token
  <2>3. cached = 0
    BY <1>1, <1>3 DEF OneToken
  <2>4. row \in Rows
    BY <1>1 DEF TypeOK, Rows
  <2>5. req' \in [Requests -> Rows] /\ req'[r] = row
        /\ \A q \in Requests : q # r => req'[q] = req[q]
    BY <1>1, <2>1, <2>4, RowType
  <2>6. /\ req'[r].at = "waits" /\ req'[r].token = req[r].token /\ req'[r].out = "none"
        /\ req'[r].tries = req[r].tries /\ req'[r].began = req[r].began
        /\ req[r].at = "needs"
    BY <1>1, <1>3, <2>5 DEF token, TypeOK, Rows, Holds, Fresh
  <2>7. TypeOK' /\ OneToken' /\ Accounted'
    BY <1>1, <2>1, <2>2, <2>3, <2>5 DEF TypeOK, Rows, OneToken, Accounted, InPlay
  <2>8. Carries(r)' /\ SecondTry(r)'
    BY <1>1, <2>1, <2>2, <2>3, <2>6 DEF Holds, Carries, SecondTry, RevokedSince
  <2>9. AnswersTrue(r)' /\ Fresh(r)' /\ Outcomes(r)'
    BY <2>6 DEF AnswersTrue, Fresh, Outcomes, Refused
  <2>10. \A q \in Requests : q # r => Holds(q)'
    BY <2>1, <2>2, <2>5, OthersHold
  <2> QED BY <2>7, <2>8, <2>9, <2>10, PutTogether DEF Holds
<1> QED BY <1>2, <1>3 DEF token

(* An answer is about the token only when the token was refused.           *)
LEMMA RespondKeeps ==
  ASSUME Inductive, NEW r \in Requests, Respond(r)
  PROVE  Inductive'
<1>1. TypeOK /\ OneToken /\ Accounted /\ Holds(r)
  BY Parted
<1>2. PICK a \in Answers \ {"none"} :
        /\ req' = [req EXCEPT ![r] = [req[r] EXCEPT !.at = "answered", !.answer = a]]
        /\ a \in {"401", "unauthorized"} => req[r].token \notin valid
        /\ a \in {"403", "forbidden", "unauthorized_private"} => r \in Hidden
  BY DEF Respond, Answers
<1> DEFINE row == [req[r] EXCEPT !.at = "answered", !.answer = a]
<1>3. row \in Rows
  BY <1>1 DEF TypeOK, Rows
<1>4. req' \in [Requests -> Rows] /\ req'[r] = row /\ \A q \in Requests : q # r => req'[q] = req[q]
  BY <1>1, <1>2, <1>3, RowType
<1>5. /\ req'[r].at = "answered" /\ req'[r].answer = a /\ req'[r].token = req[r].token
      /\ req'[r].tries = req[r].tries /\ req'[r].began = req[r].began
      /\ req'[r].out = "none" /\ req[r].at = "sent"
  BY <1>1, <1>4 DEF Respond, TypeOK, Rows, Holds, Fresh
<1>6. UNCHANGED <<valid, cached, pending, seen>>
  BY DEF Respond
<1>7. TypeOK' /\ OneToken' /\ Accounted'
  BY <1>1, <1>4, <1>6 DEF TypeOK, Rows, OneToken, Accounted, InPlay
<1>8. Carries(r)' /\ SecondTry(r)'
  BY <1>1, <1>5, <1>6 DEF Holds, Carries, SecondTry, RevokedSince
<1>9. AnswersTrue(r)' /\ Fresh(r)' /\ Outcomes(r)'
  BY <1>2, <1>5, <1>6 DEF AnswersTrue, Fresh, Outcomes, Refused
<1>10. \A q \in Requests : q # r => Holds(q)'
  BY <1>4, <1>6, OthersHold
<1> QED BY <1>7, <1>8, <1>9, <1>10, PutTogether DEF Holds

(* A refused token was not in play any more, so dropping it costs nothing. *)
LEMMA DropIsAccounted ==
  ASSUME Inductive, NEW r \in Requests, req[r].at = "answered", Refused(req[r].answer),
         cached' = invalidate(req[r].token), UNCHANGED <<valid, pending, seen>>
  PROVE  OneToken' /\ Accounted' /\ cached' \in {cached, 0} /\ cached' # req[r].token
<1>1. TypeOK /\ OneToken /\ Accounted /\ Holds(r)
  BY Parted
<1>2. req[r].token # 0 /\ req[r].token \notin valid
  BY <1>1 DEF Holds, Carries, AnswersTrue
<1>3. cached' = (IF cached = req[r].token THEN 0 ELSE cached)
  BY DEF invalidate
<1>4. CASE cached = req[r].token
  BY <1>1, <1>2, <1>3, <1>4 DEF TypeOK, OneToken, Accounted, InPlay
<1>5. CASE cached # req[r].token
  BY <1>1, <1>2, <1>3, <1>5 DEF TypeOK, OneToken, Accounted, InPlay
<1> QED BY <1>4, <1>5

LEMMA GraphqlKeeps ==
  ASSUME Inductive, NEW r \in Requests, graphql(r)
  PROVE  Inductive'
<1>1. TypeOK /\ OneToken /\ Accounted /\ Holds(r)
  BY Parted
<1>2. req[r].at = "answered" /\ UNCHANGED <<valid, pending, seen>>
  BY DEF graphql
<1>3. CASE Refused(req[r].answer)
  <2>1. cached' = invalidate(req[r].token)
    BY <1>3 DEF graphql
  <2>2. OneToken' /\ Accounted' /\ cached' \in {cached, 0} /\ cached' # req[r].token
    BY <1>2, <1>3, <2>1, DropIsAccounted
  <2>3. CASE req[r].tries = 0
    <3> DEFINE row == [req[r] EXCEPT !.at = "needs", !.tries = 1]
    <3>1. req' = [req EXCEPT ![r] = row]
      BY <1>3, <2>3 DEF graphql
    <3>2. row \in Rows
      BY <1>1 DEF TypeOK, Rows
    <3>3. req' \in [Requests -> Rows] /\ req'[r] = row
          /\ \A q \in Requests : q # r => req'[q] = req[q]
      BY <1>1, <3>1, <3>2, RowType
    <3>4. /\ req'[r].at = "needs" /\ req'[r].token = req[r].token /\ req'[r].out = "none"
          /\ req'[r].began = req[r].began
      BY <1>1, <1>2, <3>3 DEF TypeOK, Rows, Holds, Fresh
    <3>5. TypeOK'
      BY <1>1, <1>2, <2>2, <3>3 DEF TypeOK, Rows
    <3>6. Carries(r)' /\ SecondTry(r)'
      BY <1>1, <1>2, <2>2, <3>4 DEF Holds, Carries, SecondTry, RevokedSince
    <3>7. AnswersTrue(r)' /\ Fresh(r)' /\ Outcomes(r)'
      BY <3>4 DEF AnswersTrue, Fresh, Outcomes, Refused
    <3>8. \A q \in Requests : q # r => Holds(q)'
      BY <1>2, <2>2, <3>3, OthersHold
    <3> QED BY <2>2, <3>5, <3>6, <3>7, <3>8, PutTogether DEF Holds
  <2>4. CASE req[r].tries # 0
    <3>1. req' = [req EXCEPT ![r] = Done(req[r], "refused")]
      BY <1>3, <2>4 DEF graphql
    <3>2. req[r].tries = 1
      BY <1>1, <2>4 DEF TypeOK
    <3>3. seen.revoked > req[r].began
      BY <1>1, <1>2, <1>3, <3>2 DEF Holds, AnswersTrue, SecondTry, RevokedSince
    <3>4. "refused" \in Outs \ {"none"}
      BY DEF Outs
    <3> QED BY <1>2, <2>2, <3>1, <3>3, <3>4, DoneHolds
  <2> QED BY <2>3, <2>4
<1>4. CASE ~Refused(req[r].answer)
  <2> DEFINE how == Limitation(req[r].answer)
  <2>1. req' = [req EXCEPT ![r] = Done(req[r], how)] /\ cached' = cached
    BY <1>4 DEF graphql
  <2>2. req[r].answer \in Answers \ {"none"}
    BY <1>1, <1>2 DEF TypeOK, Holds, AnswersTrue
  <2>3. /\ how \in {"success", "rate_limited", "private"}
        /\ how = "private" => req[r].answer \in {"403", "forbidden", "unauthorized_private"}
    BY <1>4, <2>2, LimitationTells
  <2>4. how = "private" => r \in Hidden
    BY <1>1, <1>2, <2>3 DEF Holds, AnswersTrue
  <2>5. how \in Outs \ {"none"} /\ how # "refused" /\ how # "unavailable"
    BY <2>3 DEF Outs
  <2>6. Accounted'
    BY <1>1, <1>2, <2>1 DEF Accounted, InPlay
  <2> HIDE DEF how
  <2> QED BY <1>2, <2>1, <2>4, <2>5, <2>6, DoneHolds
<1> QED BY <1>3, <1>4

(* The token issued is the only one in play and newer than all carried.    *)
LEMMA IssueKeeps == Inductive /\ Issue => Inductive'
<1> SUFFICES ASSUME Inductive, Issue PROVE Inductive'
  OBVIOUS
<1>1. TypeOK /\ OneToken /\ Accounted
  BY Parted
<1> DEFINE n == seen.issued + 1
<1>2. /\ valid' = valid \cup {n} /\ pending' = [at |-> "answered", token |-> n]
      /\ UNCHANGED <<cached, req>> /\ cached = 0 /\ pending.at = "sent"
  BY <1>1 DEF Issue, OneToken
<1>3. /\ seen'.issued = n /\ seen'.revoked = seen.revoked /\ seen'.expired = seen.expired
      /\ seen'.failed = seen.failed /\ seen' \in [issued : Nat, revoked : Nat, expired : Nat, failed : Nat]
  BY <1>1 DEF Issue, TypeOK
<1>4. TypeOK' /\ OneToken'
  <2>1. seen.issued \in Nat /\ valid \subseteq 1 .. seen.issued /\ n \in Nat
    BY <1>1 DEF TypeOK
  <2>2. valid' \subseteq 1 .. n
    <3>1. \A k \in 1 .. seen.issued : k \in 1 .. n
      BY <2>1
    <3>2. n \in 1 .. n
      BY <2>1
    <3> QED BY <1>2, <2>1, <3>1, <3>2
  <2>3. pending' \in [at : {"answered"}, token : Nat]
    BY <1>2, <2>1
  <2> HIDE DEF n
  <2> QED BY <1>1, <1>2, <1>3, <2>1, <2>2, <2>3 DEF TypeOK, OneToken
<1>5. Accounted'
  BY <1>1, <1>2, <1>3 DEF TypeOK, Accounted, InPlay
<1>6. ASSUME NEW q \in Requests PROVE Holds(q)'
  <2>1. Holds(q) /\ req[q].token \in Nat /\ seen.issued \in Nat
    BY <1>1, Parted DEF TypeOK
  <2>2. req[q].token <= seen.issued /\ n \in Nat /\ n > seen.issued
    BY <2>1 DEF Holds, Carries
  <2>3. Carries(q)'
    <3>1. ASSUME NEW k \in (req[q].token + 1) .. n, k \notin valid \cup {n}, req[q].token # 0
          PROVE  seen.revoked > req[q].began
      <4>1. k \in (req[q].token + 1) .. seen.issued
        BY <2>1, <3>1
      <4> QED BY <2>1, <3>1, <4>1 DEF Holds, Carries, RevokedSince
    <3> QED BY <1>2, <1>3, <2>1, <2>2, <3>1 DEF Holds, Carries, RevokedSince
  <2>4. SecondTry(q)' /\ AnswersTrue(q)'
    BY <1>2, <1>3, <2>1, <2>2 DEF Holds, SecondTry, AnswersTrue, RevokedSince, Refused
  <2>5. Fresh(q)' /\ Outcomes(q)'
    BY <1>2, <1>3, <2>1 DEF Holds, Fresh, Outcomes
  <2> QED BY <2>3, <2>4, <2>5 DEF Holds
<1> QED BY <1>4, <1>5, <1>6, PutTogether

(* Everyone waiting goes on with a token newer than any they had.          *)
LEMMA FetchTokenKeeps == Inductive /\ fetchToken => Inductive'
<1> SUFFICES ASSUME Inductive, fetchToken PROVE Inductive'
  OBVIOUS
<1>1. TypeOK /\ OneToken /\ Accounted
  BY Parted
<1>2. /\ pending.at = "answered" /\ pending.token = seen.issued /\ cached' = seen.issued
      /\ pending'.at = "none" /\ pending' \in [at : {"none", "sent"}]
      /\ UNCHANGED <<valid, seen>> /\ seen.issued # 0 /\ seen.issued \in Nat
      /\ cached = 0
  BY <1>1 DEF fetchToken, OneToken, NoPending, TypeOK
<1>3. ASSUME NEW q \in Requests, req[q].at = "waits"
      PROVE  /\ req'[q].at = "sent" /\ req'[q].token = seen.issued /\ req'[q].out = req[q].out
             /\ req'[q].tries = req[q].tries /\ req'[q].began = req[q].began
             /\ req'[q] \in Rows
  <2>1. req'[q] = [req[q] EXCEPT !.at = "sent", !.token = pending.token] /\ req[q] \in Rows
    BY <1>1, <1>3 DEF fetchToken, TypeOK, Rows
  <2> QED BY <1>2, <2>1 DEF Rows
<1>4. ASSUME NEW q \in Requests, req[q].at # "waits" PROVE req'[q] = req[q]
  BY <1>4 DEF fetchToken
<1>5. req' \in [Requests -> Rows]
  <2>1. \A q \in Requests : req'[q] \in Rows
    BY <1>1, <1>3, <1>4 DEF TypeOK, Rows
  <2> QED BY <2>1 DEF fetchToken
<1>6. TypeOK' /\ OneToken'
  BY <1>1, <1>2, <1>5 DEF TypeOK, Rows, OneToken
<1>7. Accounted'
  BY <1>1, <1>2 DEF TypeOK, Accounted, InPlay
<1>8. ASSUME NEW q \in Requests PROVE Holds(q)'
  <2>1. Holds(q) /\ req[q].token \in Nat /\ req[q].token < seen.issued
    BY <1>1, <1>2, Parted DEF TypeOK, Holds, Carries
  <2>2. CASE req[q].at = "waits"
    <3>1. Carries(q)'
      BY <1>1, <1>2, <1>3, <2>1, <2>2 DEF Holds, Carries, RevokedSince
    <3>2. SecondTry(q)'
      <4> SUFFICES ASSUME req[q].tries = 1, seen.issued \notin valid PROVE seen.revoked > req[q].began
        BY <1>2, <1>3, <2>2 DEF SecondTry, RevokedSince
      <4>1. req[q].token # 0
        BY <2>1, <2>2 DEF Holds, SecondTry
      <4>2. seen.issued \in (req[q].token + 1) .. seen.issued
        BY <1>2, <2>1
      <4> QED BY <2>1, <4>1, <4>2 DEF Holds, Carries, RevokedSince
    <3>3. AnswersTrue(q)' /\ Fresh(q)' /\ Outcomes(q)'
      BY <1>2, <1>3, <2>1, <2>2 DEF Holds, AnswersTrue, Fresh, Outcomes, Refused
    <3> QED BY <3>1, <3>2, <3>3 DEF Holds
  <2>3. CASE req[q].at # "waits"
    <3>1. req'[q] = req[q]
      BY <1>4, <2>3
    <3>2. Carries(q)' /\ SecondTry(q)'
      BY <1>2, <2>1, <3>1 DEF Holds, Carries, SecondTry, RevokedSince
    <3>3. AnswersTrue(q)' /\ Fresh(q)' /\ Outcomes(q)'
      BY <1>2, <2>1, <3>1 DEF Holds, AnswersTrue, Fresh, Outcomes, Refused
    <3> QED BY <3>2, <3>3 DEF Holds
  <2> QED BY <2>2, <2>3
<1> QED BY <1>6, <1>7, <1>8, PutTogether

(* A failure is counted, and it is what those who waited are told.         *)
LEMMA FetchTokenFailsKeeps == Inductive /\ fetchTokenFails => Inductive'
<1> SUFFICES ASSUME Inductive, fetchTokenFails PROVE Inductive'
  OBVIOUS
<1>1. TypeOK /\ OneToken /\ Accounted
  BY Parted
<1>2. /\ pending.at # "none" /\ pending'.at = "none" /\ pending' \in [at : {"none", "sent"}]
      /\ UNCHANGED <<valid, cached>> /\ cached = 0
  BY <1>1 DEF fetchTokenFails, OneToken, NoPending
<1>3. /\ seen'.issued = seen.issued /\ seen'.revoked = seen.revoked /\ seen'.expired = seen.expired
      /\ seen'.failed = seen.failed + 1 /\ seen' \in [issued : Nat, revoked : Nat, expired : Nat, failed : Nat]
  BY <1>1 DEF fetchTokenFails, TypeOK
<1>4. ASSUME NEW q \in Requests, req[q].at = "waits"
      PROVE  /\ req'[q].at = "done" /\ req'[q].token = 0 /\ req'[q].out = "unavailable"
             /\ req'[q].began = req[q].began /\ req'[q] \in Rows
  <2>1. req'[q] = Done(req[q], "unavailable") /\ req[q] \in Rows
    BY <1>1, <1>4 DEF fetchTokenFails, TypeOK, Rows
  <2>2. "unavailable" \in Outs
    BY DEF Outs
  <2>3. req'[q] \in Rows
    BY <2>1, <2>2, DoneType
  <2> QED BY <2>1, <2>3 DEF Done, Rows
<1>5. ASSUME NEW q \in Requests, req[q].at # "waits" PROVE req'[q] = req[q]
  BY <1>5 DEF fetchTokenFails
<1>6. req' \in [Requests -> Rows]
  <2>1. \A q \in Requests : req'[q] \in Rows
    BY <1>1, <1>4, <1>5 DEF TypeOK, Rows
  <2> QED BY <2>1 DEF fetchTokenFails
<1>7. TypeOK' /\ OneToken'
  BY <1>1, <1>2, <1>3, <1>6 DEF TypeOK, Rows, OneToken
<1>8. Accounted'
  BY <1>1, <1>2, <1>3 DEF TypeOK, Accounted, InPlay
<1>9. ASSUME NEW q \in Requests PROVE Holds(q)'
  <2>1. Holds(q) /\ seen.failed \in Nat /\ seen.issued \in Nat
    BY <1>1, Parted DEF TypeOK
  <2>2. CASE req[q].at = "waits"
    <3>1. Carries(q)'
      BY <1>1, <1>2, <1>3, <1>4, <2>1, <2>2 DEF Holds, Carries, RevokedSince
    <3>2. SecondTry(q)' /\ AnswersTrue(q)' /\ Fresh(q)' /\ Outcomes(q)'
      BY <1>3, <1>4, <2>1, <2>2 DEF SecondTry, AnswersTrue, Fresh, Outcomes, RevokedSince, Refused
    <3> QED BY <3>1, <3>2 DEF Holds
  <2>3. CASE req[q].at # "waits"
    <3>1. req'[q] = req[q]
      BY <1>5, <2>3
    <3>2. Carries(q)' /\ SecondTry(q)'
      BY <1>2, <1>3, <2>1, <3>1 DEF Holds, Carries, SecondTry, RevokedSince
    <3>3. AnswersTrue(q)' /\ Fresh(q)' /\ Outcomes(q)'
      BY <1>2, <1>3, <2>1, <3>1 DEF Holds, AnswersTrue, Fresh, Outcomes, Refused
    <3> QED BY <3>2, <3>3 DEF Holds
  <2> QED BY <2>2, <2>3
<1> QED BY <1>7, <1>8, <1>9, PutTogether

(* A revocation excuses every refusal of the requests under way.           *)
LEMMA RevokeKeeps == Inductive /\ Revoke => Inductive'
<1> SUFFICES ASSUME Inductive, Revoke PROVE Inductive'
  OBVIOUS
<1>1. TypeOK /\ OneToken /\ Accounted
  BY Parted
<1>2. valid' = {} /\ UNCHANGED <<cached, pending, req>>
  BY DEF Revoke
<1>3. /\ seen'.issued = seen.issued /\ seen'.revoked = seen.revoked + 1 /\ seen'.expired = seen.expired
      /\ seen'.failed = seen.failed /\ seen' \in [issued : Nat, revoked : Nat, expired : Nat, failed : Nat]
  BY <1>1 DEF Revoke, TypeOK
<1>4. TypeOK' /\ OneToken' /\ Accounted'
  BY <1>1, <1>2, <1>3 DEF TypeOK, OneToken, Accounted, InPlay
<1>5. ASSUME NEW q \in Requests PROVE Holds(q)'
  <2>1. Holds(q) /\ seen.revoked \in Nat /\ req[q].began \in Nat /\ req[q].began <= seen.revoked
    BY <1>1, Parted DEF TypeOK, Holds, Carries
  <2>2. RevokedSince(q)'
    BY <1>2, <1>3, <2>1 DEF RevokedSince
  <2>3. Carries(q)' /\ SecondTry(q)'
    BY <1>2, <1>3, <2>1, <2>2 DEF Holds, Carries, SecondTry, RevokedSince
  <2>4. AnswersTrue(q)' /\ Fresh(q)' /\ Outcomes(q)'
    BY <1>2, <1>3, <2>1 DEF Holds, AnswersTrue, Fresh, Outcomes, Refused
  <2> QED BY <2>3, <2>4 DEF Holds
<1> QED BY <1>4, <1>5, PutTogether

(* An expiry is counted when the next token is asked for.                  *)
LEMMA ExpireKeeps == Inductive /\ Expire => Inductive'
<1> SUFFICES ASSUME Inductive, Expire PROVE Inductive'
  OBVIOUS
<1>1. TypeOK /\ OneToken /\ Accounted
  BY Parted
<1>2. cached' = 0 /\ UNCHANGED <<valid, pending, req>>
  BY DEF Expire
<1>3. /\ seen'.issued = seen.issued /\ seen'.revoked = seen.revoked /\ seen'.expired = seen.expired + 1
      /\ seen'.failed = seen.failed /\ seen' \in [issued : Nat, revoked : Nat, expired : Nat, failed : Nat]
  BY <1>1 DEF Expire, TypeOK
<1>4. TypeOK' /\ OneToken' /\ Accounted'
  BY <1>1, <1>2, <1>3 DEF Expire, TypeOK, OneToken, Accounted, InPlay
<1>5. ASSUME NEW q \in Requests PROVE Holds(q)'
  <2>1. Holds(q)
    BY Parted
  <2>2. Carries(q)' /\ SecondTry(q)'
    BY <1>2, <1>3, <2>1 DEF Holds, Carries, SecondTry, RevokedSince
  <2>3. AnswersTrue(q)' /\ Fresh(q)' /\ Outcomes(q)'
    BY <1>2, <1>3, <2>1 DEF Holds, AnswersTrue, Fresh, Outcomes, Refused
  <2> QED BY <2>2, <2>3 DEF Holds
<1> QED BY <1>4, <1>5, PutTogether

LEMMA StutterKeeps == Inductive /\ UNCHANGED vars => Inductive'
<1> SUFFICES ASSUME Inductive, UNCHANGED vars PROVE Inductive'
  OBVIOUS
<1>1. TypeOK' /\ OneToken' /\ Accounted'
  BY Parted DEF vars, TypeOK, OneToken, Accounted, InPlay
<1>2. ASSUME NEW q \in Requests PROVE Holds(q)'
  BY Parted DEF vars, Holds, Carries, SecondTry, AnswersTrue, Fresh, Outcomes, Refused, RevokedSince
<1> QED BY <1>1, <1>2, PutTogether

LEMMA StepInductive == Inductive /\ [Next]_vars => Inductive'
<1> SUFFICES ASSUME Inductive, [Next]_vars PROVE Inductive'
  OBVIOUS
<1>1. CASE \E r \in Requests : Start(r) \/ Step(r) \/ Abort(r)
  BY <1>1, StartKeeps, TokenKeeps, RespondKeeps, GraphqlKeeps, AbortKeeps DEF Step
<1>2. CASE Issue \/ fetchToken \/ fetchTokenFails
  BY <1>2, IssueKeeps, FetchTokenKeeps, FetchTokenFailsKeeps
<1>3. CASE Revoke \/ Expire \/ UNCHANGED vars
  BY <1>3, RevokeKeeps, ExpireKeeps, StutterKeeps
<1> QED BY <1>1, <1>2, <1>3 DEF Next

(* However requests share a token, a refusal is laid on a revocation, a    *)
(* token request on an event, privacy on what was asked for, and a failure *)
(* on the provider (token-source.ts, transport.ts).                        *)
THEOREM TokensAreSharedAlways == Spec => []TokensAreShared
<1>1. Inductive => TokensAreShared
  BY DEF Inductive
<1> QED BY <1>1, InitInductive, StepInductive, PTL DEF Spec

(* One token is in play at a time: while one is asked for none is cached,  *)
(* and the one cached is the newest (token-source.ts).                     *)
THEOREM OneTokenAlways == Spec => [](TypeOK /\ OneToken)
<1>1. Inductive => TypeOK /\ OneToken
  BY DEF Inductive
<1> QED BY <1>1, InitInductive, StepInductive, PTL DEF Spec
===============================================================================
