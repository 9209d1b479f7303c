--------------------------- MODULE UpstreamTokens --------------------------
(***************************************************************************)
(* The client-credentials token source and the Warcraft Logs transport on  *)
(* top of it.  Concurrent requests share one token request; a refused      *)
(* token is dropped and the request is tried once more with a fresh one.   *)
(*                                                                         *)
(* A token is a number; the provider may revoke all it has issued.         *)
(***************************************************************************)
EXTENDS Naturals, FiniteSets

CONSTANTS
    Requests,     \* GraphQL requests
    Hidden,       \* those that ask about something private
    MaxRevokes,   \* bound: revocations
    MaxExpiries,  \* bound: expiries of the cached token
    MaxFails      \* bound: failed token requests

ASSUME TokensAssumption ==
    /\ IsFiniteSet(Requests) /\ Hidden \subseteq Requests
    /\ MaxRevokes \in Nat /\ MaxExpiries \in Nat /\ MaxFails \in Nat

VARIABLES
    valid,     \* tokens the provider accepts
    cached,    \* the cached token, 0 for none or expired
    pending,   \* the token request: none, sent, or answered with a token
    req,       \* each request
    seen       \* events so far: tokens issued, revocations, expiries, failures

vars == <<valid, cached, pending, req, seen>>

NoPending == [at |-> "none"]

(* A request that has ended.                                               *)
Done(row, out) == [row EXCEPT !.at = "done", !.token = 0, !.answer = "none", !.out = out]

Start(r) ==
    /\ req[r].at = "new"
    /\ req' = [req EXCEPT ![r] = [@ EXCEPT !.at = "needs", !.began = seen.revoked]]
    /\ UNCHANGED <<valid, cached, pending, seen>>

(* token: the shared request is joined, the cached token used, or one asked*)
(* for.                                                                    *)
token(r) ==
    /\ req[r].at = "needs"
    /\ \/ /\ pending.at = "none" /\ cached # 0
          /\ req' = [req EXCEPT ![r] = [@ EXCEPT !.at = "sent", !.token = cached]]
          /\ UNCHANGED pending
       \/ /\ pending.at # "none" \/ cached = 0
          /\ req' = [req EXCEPT ![r].at = "waits"]
          /\ pending' = IF pending.at = "none" THEN [at |-> "sent"] ELSE pending
    /\ UNCHANGED <<valid, cached, seen>>

Issue ==
    /\ pending.at = "sent"
    /\ pending' = [at |-> "answered", token |-> seen.issued + 1]
    /\ valid' = valid \cup {seen.issued + 1}
    /\ seen' = [seen EXCEPT !.issued = @ + 1]
    /\ UNCHANGED <<cached, req>>

(* fetchToken: everyone waiting goes on with the token it returned.        *)
fetchToken ==
    /\ pending.at = "answered"
    /\ cached' = pending.token
    /\ req' = [r \in Requests |-> IF req[r].at = "waits"
                                  THEN [req[r] EXCEPT !.at = "sent", !.token = pending.token]
                                  ELSE req[r]]
    /\ pending' = NoPending
    /\ UNCHANGED <<valid, seen>>

(* Its deadline, or a refusal of our credentials: an upstream failure.     *)
fetchTokenFails ==
    /\ pending.at # "none" /\ seen.failed < MaxFails
    /\ pending' = NoPending
    /\ req' = [r \in Requests |-> IF req[r].at = "waits"
                                  THEN Done(req[r], "unavailable")
                                  ELSE req[r]]
    /\ seen' = [seen EXCEPT !.failed = @ + 1]
    /\ UNCHANGED <<valid, cached>>

(* The provider answers: a refused token as a 401 or in the envelope, with *)
(* or without a message; anything else is about what was asked for.        *)
Respond(r) ==
    /\ req[r].at = "sent"
    /\ \E a \in IF req[r].token \notin valid THEN {"401", "unauthorized"}
                ELSE IF r \in Hidden THEN {"403", "forbidden", "unauthorized_private"}
                ELSE {"ok", "429"} :
        req' = [req EXCEPT ![r] = [@ EXCEPT !.at = "answered", !.answer = a]]
    /\ UNCHANGED <<valid, cached, pending, seen>>

(* graphQlAuthRejected                                                     *)
Refused(a) == a \in {"401", "unauthorized"}

(* responseLimitation, graphQlErrorLimitation                              *)
Limitation(a) ==
    CASE a = "ok" -> "success"
      [] a = "429" -> "rate_limited"
      [] a \in {"403", "forbidden", "unauthorized_private", "unauthorized"} -> "private"

invalidateNever(t) == cached

(* invalidate: only the token the request carried.                         *)
invalidate(t) == IF cached = t THEN 0 ELSE cached

graphql(r) ==
    /\ req[r].at = "answered"
    /\ IF Refused(req[r].answer)
       THEN /\ cached' = invalidate(req[r].token)
            /\ req' = [req EXCEPT ![r] =
                         IF @.tries = 0 THEN [@ EXCEPT !.at = "needs", !.tries = 1]
                         ELSE Done(@, "refused")]
       ELSE /\ req' = [req EXCEPT ![r] = Done(@, Limitation(req[r].answer))]
            /\ UNCHANGED cached
    /\ UNCHANGED <<valid, pending, seen>>

(* The caller gives up; the shared token request goes on.                  *)
Abort(r) ==
    /\ req[r].at \in {"needs", "waits", "sent"}
    /\ req' = [req EXCEPT ![r] = Done(@, "aborted")]
    /\ UNCHANGED <<valid, cached, pending, seen>>

Revoke ==
    /\ seen.revoked < MaxRevokes
    /\ valid' = {} /\ seen' = [seen EXCEPT !.revoked = @ + 1]
    /\ UNCHANGED <<cached, pending, req>>

(* A minute before its expiry the cached token is no longer used.          *)
Expire ==
    /\ cached # 0 /\ seen.expired < MaxExpiries
    /\ cached' = 0 /\ seen' = [seen EXCEPT !.expired = @ + 1]
    /\ UNCHANGED <<valid, pending, req>>

Init ==
    /\ valid = {} /\ cached = 0 /\ pending = NoPending
    /\ req = [r \in Requests |-> [at |-> "new", token |-> 0, tries |-> 0, began |-> 0,
                                  answer |-> "none", out |-> "none"]]
    /\ seen = [issued |-> 0, revoked |-> 0, expired |-> 0, failed |-> 0]

Step(r) == token(r) \/ Respond(r) \/ graphql(r)

Next ==
    \/ \E r \in Requests : Start(r) \/ Step(r) \/ Abort(r)
    \/ Issue \/ fetchToken \/ fetchTokenFails \/ Revoke \/ Expire

(* The provider answers, or the deadline does.                             *)
Spec == Init /\ [][Next]_vars
LiveSpec == Spec /\ (\A r \in Requests : WF_vars(Step(r))) /\ WF_vars(Issue) /\ WF_vars(fetchToken)

---------------------------------------------------------------------------
(* Properties.                                                             *)

(* A request is refused twice only if the provider revoked tokens while it *)
(* ran: a token revoked earlier costs it one retry, whoever else holds or  *)
(* replaces that token meanwhile.                                          *)
RefusedOnlyByRevocation ==
    \A r \in Requests : req[r].out = "refused" => seen.revoked > req[r].began

(* Each revocation, expiry and failure costs one token request, however    *)
(* many requests run into it.                                              *)
TokenRequestsBounded ==
    seen.issued <= 1 + seen.revoked + seen.expired + seen.failed

(* What is said of the thing asked for is never said for our token.        *)
RefusalIsNotPrivacy == \A r \in Requests : req[r].out = "private" => r \in Hidden

(* A caller that gives up fails no one else.                               *)
AbortIsPrivate == \A r \in Requests : req[r].out = "unavailable" => seen.failed > 0

(* However requests share a token, a refusal is laid on a revocation, a    *)
(* token request on an event, privacy on what was asked for, and a failure *)
(* on the provider (token-source.ts, transport.ts).                        *)
TokensAreShared ==
    RefusedOnlyByRevocation /\ TokenRequestsBounded /\ RefusalIsNotPrivacy /\ AbortIsPrivate

(* The states of the program these rest on: the newest token is the one    *)
(* cached or about to be, a request's token is older than one on its way,  *)
(* and a token newer than it that is no longer valid was revoked after it  *)
(* began; requests in need are counted, whoever is to issue the next token.*)
Answers == {"none", "ok", "429", "401", "unauthorized", "403", "forbidden", "unauthorized_private"}
Outs    == {"none", "success", "rate_limited", "private", "unavailable", "refused", "aborted"}

TypeOK ==
    /\ cached \in Nat
    /\ pending \in [at : {"none", "sent"}] \cup [at : {"answered"}, token : Nat]
    /\ req \in [Requests -> [at : {"new", "needs", "waits", "sent", "answered", "done"},
                             token : Nat, tries : {0, 1}, began : Nat,
                             answer : Answers, out : Outs]]
    /\ seen \in [issued : Nat, revoked : Nat, expired : Nat, failed : Nat]
    /\ valid \subseteq 1 .. seen.issued

(* One token is in play at a time.                                         *)
OneToken ==
    /\ pending.at # "none" => cached = 0
    /\ cached \in {0, seen.issued}
    /\ pending.at = "answered" => pending.token = seen.issued /\ seen.issued # 0

(* A token in play is one more than what was lost so far accounts for.     *)
InPlay == (cached # 0 \/ pending.at = "answered") /\ seen.issued \in valid
Accounted ==
    seen.issued <= (IF InPlay THEN 1 ELSE 0) + seen.revoked + seen.expired + seen.failed

(* A request begins with nothing, and its outcome comes last.              *)
Fresh(r) ==
    /\ req[r].at = "new" => req[r].token = 0 /\ req[r].tries = 0
    /\ req[r].at # "done" => req[r].out = "none"

RevokedSince(r) == seen.revoked > req[r].began

Carries(r) ==
    /\ req[r].token <= seen.issued /\ req[r].began <= seen.revoked
    /\ req[r].at \in {"sent", "answered"} => req[r].token # 0
    /\ pending.at = "answered" => req[r].token < pending.token
    /\ req[r].token # 0 =>
         \A k \in (req[r].token + 1) .. seen.issued : k \notin valid => RevokedSince(r)

(* A second try has another token than the first, and one not valid any    *)
(* more was revoked meanwhile.                                             *)
SecondTry(r) ==
    req[r].tries = 1 =>
        /\ req[r].at \in {"needs", "waits"} => req[r].token # 0 /\ cached # req[r].token
        /\ req[r].at \in {"sent", "answered"} /\ req[r].token \notin valid => RevokedSince(r)

AnswersTrue(r) ==
    req[r].at = "answered" =>
        /\ req[r].answer # "none"
        /\ Refused(req[r].answer) => req[r].token \notin valid
        /\ req[r].answer \in {"403", "forbidden", "unauthorized_private"} => r \in Hidden

Inductive ==
    /\ TypeOK /\ OneToken /\ Accounted
    /\ \A r \in Requests : Fresh(r) /\ Carries(r) /\ SecondTry(r) /\ AnswersTrue(r)
    /\ TokensAreShared

(* Every request that was begun ends.                                      *)
Begun(r) == req[r].at # "new"
Ended(r) == req[r].at = "done"

=============================================================================
