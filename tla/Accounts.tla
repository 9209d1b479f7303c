------------------------------ MODULE Accounts -----------------------------
(***************************************************************************)
(* Accounts: registration, verification, password reset and change, email  *)
(* change by two mailed proofs, sessions, administration, the versioned    *)
(* provider credentials of an account, and operators.                      *)
(*                                                                         *)
(* A request reads the account and writes in a later transaction; every    *)
(* write repeats in SQL what must still hold.  A password is the number of *)
(* its change, and own counts the changes its owner made in a session;     *)
(* hashing, cookies and request limits are left out.                       *)
(***************************************************************************)
EXTENDS Naturals, FiniteSets, FiniteSetsExt

CONSTANTS
    Ids,        \* account ids
    Emails,     \* canonical addresses
    Clients,    \* browsers, one request each at a time
    Ops,        \* which requests are made
    MaxAccounts, \* bound: accounts at a time
    MaxPw,      \* bound: password changes of an account
    MaxVersion, \* bound: credential versions
    MaxTokens   \* bound: mailed tokens

ASSUME AccountsAssumption ==
    /\ IsFiniteSet(Ids) /\ IsFiniteSet(Emails) /\ IsFiniteSet(Clients)
    /\ MaxAccounts \in Nat /\ MaxPw \in Nat /\ MaxVersion \in Nat /\ MaxTokens \in Nat
    /\ Ops \subseteq {"register", "verify", "reset", "email", "session", "password", "admin",
                      "provider", "operator"}

VARIABLES
    acct,      \* rows of accounts, NoAccount where there is none
    tokens,    \* account_mail_tokens
    sessions,  \* account_sessions that are not revoked
    reqs,      \* each client's request between its read and its write
    provider,  \* each account's provider credential row
    operator   \* the operator and its sessions

accountsVars == <<acct, tokens, sessions, reqs, provider, operator>>

NoAccount == [st |-> "none"]
NoRequest == [op |-> "idle"]

Exists(a) == acct[a].st # "none"
HasRoom == Cardinality({a \in Ids : Exists(a)}) < MaxAccounts
Taken(e) == \E a \in Ids : Exists(a) /\ acct[a].email = e

(* A pending registration lasts seven days.                                *)
Standing(a) == Exists(a) /\ acct[a].active /\ (acct[a].verified \/ acct[a].fresh)
Good(a) == Exists(a) /\ acct[a].active /\ acct[a].verified

Fits(a) == acct[a].ver < MaxVersion
Bumped(a) == [acct[a] EXCEPT !.ver = @ + 1]
Revoked(a) == {s \in sessions : s.account # a}

(* Ids and flows are fresh UUIDs; a flow has the id of its first proof.    *)
FreshIds == 1 .. MaxTokens \ {t.id : t \in tokens}
FreshId == CHOOSE n \in FreshIds : TRUE
NextFreshId == CHOOSE n \in FreshIds \ {FreshId} : TRUE

Token(a, purpose, to, flow, proposed) ==
    [id |-> FreshId, account |-> a, purpose |-> purpose, to |-> to, flow |-> flow,
     proposed |-> proposed, st |-> "live"]
Void(S) == {IF t \in S /\ t.st = "live" THEN [t EXCEPT !.st = "void"] ELSE t : t \in tokens}
Used(t, S) == {IF u = t THEN [t EXCEPT !.st = "used"]
               ELSE IF u \in S /\ u.st = "live" THEN [u EXCEPT !.st = "void"] ELSE u : u \in tokens}
Purposes(a, P) == {t \in tokens : t.account = a /\ t.purpose \in P}

Reads(c, op, a) ==
    /\ reqs[c] = NoRequest
    /\ reqs' = [reqs EXCEPT ![c] = [op |-> op, account |-> a, row |-> acct[a]]]
    /\ UNCHANGED <<acct, tokens, sessions, provider, operator>>

Answer(c, op) == reqs[c].op = op /\ reqs' = [reqs EXCEPT ![c] = NoRequest]

---------------------------------------------------------------------------
(* Registration and verification.                                          *)

(* registerPending: expired registrations go with their tokens, then the   *)
(* account is inserted unless another holds the address.                   *)
registerPending ==
    /\ "register" \in Ops
    /\ \E a \in Ids, e \in Emails :
        LET old  == {b \in Ids : Exists(b) /\ ~acct[b].verified /\ ~acct[b].fresh}
            free == \A b \in Ids \ old : Exists(b) => acct[b].email # e
        IN  /\ ~Exists(a) /\ HasRoom
            /\ acct' = [b \in Ids |->
                    IF b = a /\ free THEN [st |-> "row", email |-> e, role |-> "user", active |-> TRUE,
                                   verified |-> FALSE, fresh |-> TRUE, must |-> FALSE, pw |-> 1, own |-> 0, ver |-> 1]
                    ELSE IF b \in old THEN NoAccount ELSE acct[b]]
            /\ tokens' = {t \in tokens : t.account \notin old}
    /\ UNCHANGED <<sessions, reqs, provider, operator>>

Age ==
    /\ \E a \in Ids : Exists(a) /\ ~acct[a].verified /\ acct[a].fresh
                      /\ acct' = [acct EXCEPT ![a].fresh = FALSE]
    /\ UNCHANGED <<tokens, sessions, reqs, provider, operator>>

readVerification(c) ==
    /\ "verify" \in Ops
    /\ \E a \in Ids : Exists(a) /\ acct[a].active /\ ~acct[a].verified /\ acct[a].fresh
                      /\ Reads(c, "issueVerification", a)

(* The token names the account; its row must still exist.                  *)
issueVerification(c) ==
    /\ Answer(c, "issueVerification")
    /\ LET a == reqs[c].account
       IN  IF Exists(a) /\ FreshIds # {}
           THEN tokens' = tokens \cup {Token(a, "verify", reqs[c].row.email, 0, "none")}
           ELSE UNCHANGED tokens
    /\ UNCHANGED <<acct, sessions, provider, operator>>

confirmVerification ==
    \E t \in tokens : LET a == t.account IN
        /\ t.purpose = "verify" /\ t.st = "live" /\ Standing(a) /\ ~acct[a].verified
        /\ acct' = [acct EXCEPT ![a].verified = TRUE]
        /\ tokens' = Used(t, Purposes(a, {"verify"}))
        /\ UNCHANGED <<sessions, reqs, provider, operator>>

---------------------------------------------------------------------------
(* Password reset and change.                                              *)

readReset(c) ==
    /\ "reset" \in Ops
    /\ \E a \in Ids : Standing(a) /\ Reads(c, "issueReset", a)

(* The mail goes to the address that was read, whoever holds it now.       *)
issueResetBlind(c) ==
    /\ Answer(c, "issueReset")
    /\ LET a == reqs[c].account
       IN  IF Standing(a) /\ FreshIds # {}
           THEN tokens' = tokens \cup {Token(a, "reset", reqs[c].row.email, 0, "none")}
           ELSE UNCHANGED tokens
    /\ UNCHANGED <<acct, sessions, provider, operator>>

issueReset(c) ==
    /\ Answer(c, "issueReset")
    /\ LET a == reqs[c].account
       IN  IF Standing(a) /\ acct[a].email = reqs[c].row.email /\ FreshIds # {}
           THEN tokens' = tokens \cup {Token(a, "reset", reqs[c].row.email, 0, "none")}
           ELSE UNCHANGED tokens
    /\ UNCHANGED <<acct, sessions, provider, operator>>

completeReset ==
    \E t \in tokens : LET a == t.account IN
        /\ t.purpose = "reset" /\ t.st = "live" /\ Standing(a) /\ Fits(a) /\ acct[a].pw < MaxPw
        /\ acct' = [acct EXCEPT ![a] = [Bumped(a) EXCEPT !.pw = @ + 1, !.verified = TRUE, !.must = FALSE]]
        /\ tokens' = Used(t, Purposes(a, {"reset", "verify"}))
        /\ sessions' = Revoked(a)
        /\ UNCHANGED <<reqs, provider, operator>>

Usable(s) ==
    LET a == s.account IN Good(a) /\ acct[a].ver = s.ver

readPassword(c) ==
    /\ "password" \in Ops
    /\ \E s \in sessions : Usable(s) /\ Reads(c, "changePassword", s.account)

(* The session must still be there, the version and the password the same. *)
changePassword(c) ==
    /\ Answer(c, "changePassword")
    /\ LET a == reqs[c].account IN
       IF Good(a) /\ acct[a].ver = reqs[c].row.ver /\ acct[a].pw = reqs[c].row.pw
          /\ (\E s \in sessions : s.account = a) /\ Fits(a) /\ acct[a].pw < MaxPw
       THEN /\ acct' = [acct EXCEPT ![a] = [Bumped(a) EXCEPT !.pw = @ + 1, !.own = @ + 1,
                                                     !.must = FALSE]]
            /\ sessions' = Revoked(a)
       ELSE UNCHANGED <<acct, sessions>>
    /\ UNCHANGED <<tokens, provider, operator>>

---------------------------------------------------------------------------
(* Email change: one proof mailed to each address.                         *)

readEmailChange(c) ==
    /\ "email" \in Ops
    /\ \E a \in Ids : Good(a) /\ Reads(c, "issueEmailChange", a)

(* Only the proofs mailed to the current address are replaced.             *)
issueEmailChangeHalf(c) ==
    /\ Answer(c, "issueEmailChange")
    /\ LET a == reqs[c].account IN
       \E e \in Emails :
        IF Good(a) /\ acct[a].pw = reqs[c].row.pw /\ acct[a].email = reqs[c].row.email
           /\ acct[a].ver = reqs[c].row.ver /\ ~Taken(e) /\ (\E m, n \in FreshIds : m # n)
        THEN LET cur == Token(a, "email_change_current", acct[a].email, FreshId, e)
                 new == [Token(a, "email_change_new", e, FreshId, e) EXCEPT !.id = NextFreshId]
             IN  tokens' = Void(Purposes(a, {"email_change_current"})) \cup {cur, new}
        ELSE UNCHANGED tokens
    /\ UNCHANGED <<acct, sessions, provider, operator>>

issueEmailChange(c) ==
    /\ Answer(c, "issueEmailChange")
    /\ LET a == reqs[c].account IN
       \E e \in Emails :
        IF Good(a) /\ acct[a].pw = reqs[c].row.pw /\ acct[a].email = reqs[c].row.email
           /\ acct[a].ver = reqs[c].row.ver /\ ~Taken(e) /\ (\E m, n \in FreshIds : m # n)
        THEN LET cur == Token(a, "email_change_current", acct[a].email, FreshId, e)
                 new == [Token(a, "email_change_new", e, FreshId, e) EXCEPT !.id = NextFreshId]
             IN  tokens' = Void(Purposes(a, {"email_change_current", "email_change_new"}))
                           \cup {cur, new}
        ELSE UNCHANGED tokens
    /\ UNCHANGED <<acct, sessions, provider, operator>>

Partner(t) == CHOOSE u \in tokens : u.flow = t.flow /\ u # t

(* A proof is consumed; the second of the flow moves the address, ends all *)
(* sessions and withdraws every reset mailed to the old address.  A proof  *)
(* counts as given when it is no longer live, replaced ones included.  If  *)
(* the address was taken meanwhile the proof is spent, or kept when only   *)
(* the unique index saw it.  The proofs of a flow expire together.         *)
confirmEmailChange ==
    \E t \in tokens : LET a == t.account IN
        /\ t.flow # 0 /\ t.st = "live" /\ Good(a) /\ Fits(a)
        /\ IF Partner(t).st = "live"
           THEN tokens' = Used(t, {}) /\ UNCHANGED <<acct, sessions>>
           ELSE IF Taken(t.proposed)
           THEN tokens' \in {Used(t, {}), tokens} /\ UNCHANGED <<acct, sessions>>
           ELSE /\ acct' = [acct EXCEPT ![a] = [Bumped(a) EXCEPT !.email = t.proposed]]
                /\ tokens' = Used(t, Purposes(a, {"reset", "email_change_current", "email_change_new"}))
                /\ sessions' = Revoked(a)
        /\ UNCHANGED <<reqs, provider, operator>>

---------------------------------------------------------------------------
(* Sessions.                                                               *)

readSignIn(c) ==
    /\ "session" \in Ops
    /\ \E a \in Ids : Good(a) /\ Reads(c, "issueSession", a)

issueSession(c) ==
    /\ Answer(c, "issueSession")
    /\ LET a == reqs[c].account IN
       sessions' = IF Good(a) /\ acct[a].ver = reqs[c].row.ver
                   THEN sessions \cup {[account |-> a, ver |-> acct[a].ver,
                                        pw |-> reqs[c].row.pw, role |-> reqs[c].row.role]}
                   ELSE sessions
    /\ UNCHANGED <<acct, tokens, provider, operator>>

signOut ==
    /\ \E s \in sessions : Usable(s) /\ sessions' = sessions \ {s}
    /\ UNCHANGED <<acct, tokens, reqs, provider, operator>>

---------------------------------------------------------------------------
(* Administration, one change at a time.                                   *)

Admins == {a \in Ids : Good(a) /\ acct[a].role = "admin"}

provisionAdmin ==
    /\ "admin" \in Ops
    /\ \E a \in Ids, e \in Emails :
        /\ ~Exists(a) /\ HasRoom /\ ~Taken(e)
        /\ acct' = [acct EXCEPT ![a] =
                [st |-> "row", email |-> e, role |-> "admin", active |-> TRUE, verified |-> TRUE,
                 fresh |-> TRUE, must |-> TRUE, pw |-> 1, own |-> 0, ver |-> 1]]
    /\ UNCHANGED <<tokens, sessions, reqs, provider, operator>>

Mutations == {<<"role", "admin">>, <<"role", "user">>, <<"active", "yes">>, <<"active", "no">>,
              <<"password", "required">>}

RemovesAdmin(b, mutation) == b \in Admins /\ mutation \in {<<"role", "user">>, <<"active", "no">>}

MakesAdmin(b, mutation) ==
    /\ ~acct[b].verified
    /\ \/ mutation = <<"role", "admin">>
       \/ mutation = <<"active", "yes">> /\ acct[b].role = "admin"

Mutated(b, mutation) ==
    CASE mutation[1] = "role" -> [Bumped(b) EXCEPT !.role = mutation[2]]
      [] mutation[1] = "active" -> [Bumped(b) EXCEPT !.active = (mutation[2] = "yes")]
      [] OTHER -> [Bumped(b) EXCEPT !.must = TRUE]

(* mutateAccountAdmin: a role, the active flag or a demanded change.       *)
mutateAccountAdmin ==
    /\ "admin" \in Ops
    /\ \E actor, b \in Ids, mutation \in Mutations :
        /\ actor \in Admins /\ ~acct[actor].must /\ Exists(b) /\ Fits(b)
        /\ ~MakesAdmin(b, mutation)
        /\ RemovesAdmin(b, mutation) => Cardinality(Admins) > 1
        /\ acct' = [acct EXCEPT ![b] = Mutated(b, mutation)]
        /\ sessions' = Revoked(b)
    /\ UNCHANGED <<tokens, reqs, provider, operator>>

---------------------------------------------------------------------------
(* Provider credentials: a row per account, changed against a version.     *)

readProvider(c) ==
    /\ "provider" \in Ops /\ reqs[c] = NoRequest
    /\ \E a \in Ids : Good(a) /\
        reqs' = [reqs EXCEPT ![c] = [op |-> "replace", account |-> a, row |-> provider[a]]]
    /\ UNCHANGED <<acct, tokens, sessions, provider, operator>>

(* An insert when the caller saw no row, an update of the version it saw.  *)
replaceProvider(c) ==
    /\ Answer(c, "replace")
    /\ LET a == reqs[c].account
       IN  provider' = IF Good(a) /\ provider[a].ver = reqs[c].row.ver /\ provider[a].ver < MaxVersion
                       THEN [provider EXCEPT ![a] = [ver |-> @.ver + 1, by |-> c, on |-> TRUE]]
                       ELSE provider
    /\ UNCHANGED <<acct, tokens, sessions, operator>>

removeProvider ==
    /\ "provider" \in Ops
    /\ \E a \in Ids : /\ Good(a) /\ provider[a].on /\ provider[a].ver < MaxVersion
                      /\ provider' = [provider EXCEPT ![a] = [ver |-> @.ver + 1, by |-> "none", on |-> FALSE]]
    /\ UNCHANGED <<acct, tokens, sessions, reqs, operator>>

---------------------------------------------------------------------------
(* Operators: the session is inserted without asking, and refused when it  *)
(* is used.                                                                *)

readOperator(c) ==
    /\ "operator" \in Ops /\ reqs[c] = NoRequest /\ operator.active
    /\ reqs' = [reqs EXCEPT ![c] = [op |-> "operator", row |-> operator]]
    /\ UNCHANGED <<acct, tokens, sessions, provider, operator>>

issueOperatorSession(c) ==
    /\ Answer(c, "operator")
    /\ operator' = [operator EXCEPT !.sessions = @ \cup {reqs[c].row.ver}]
    /\ UNCHANGED <<acct, tokens, sessions, provider>>

(* Versions a session may carry that know an earlier credential.           *)
rotateOperator ==
    /\ "operator" \in Ops /\ operator.pw < MaxPw
    /\ operator' = [operator EXCEPT !.pw = @ + 1, !.ver = @ + 1, !.sessions = {},
                                    !.old = @ \cup {operator.ver}]
    /\ UNCHANGED <<acct, tokens, sessions, reqs, provider>>

disableOperator ==
    /\ "operator" \in Ops /\ operator.active
    /\ operator' = [operator EXCEPT !.active = FALSE, !.sessions = {}]
    /\ UNCHANGED <<acct, tokens, sessions, reqs, provider>>

OperatorUsable(v) == v \in operator.sessions /\ operator.active /\ v = operator.ver

---------------------------------------------------------------------------
AccountsInit ==
    /\ acct = [a \in Ids |-> NoAccount]
    /\ tokens = {} /\ sessions = {}
    /\ reqs = [c \in Clients |-> NoRequest]
    /\ provider = [a \in Ids |-> [ver |-> 0, by |-> "none", on |-> FALSE]]
    /\ operator = [active |-> TRUE, ver |-> 1, pw |-> 1, sessions |-> {}, old |-> {}]

Request(c) ==
    \/ readVerification(c) \/ issueVerification(c) \/ readReset(c) \/ issueReset(c)
    \/ readPassword(c) \/ changePassword(c) \/ readEmailChange(c) \/ issueEmailChange(c)
    \/ readSignIn(c) \/ issueSession(c) \/ readProvider(c) \/ replaceProvider(c)
    \/ readOperator(c) \/ issueOperatorSession(c)

AccountsNext ==
    \/ \E c \in Clients : Request(c)
    \/ registerPending \/ Age \/ confirmVerification \/ completeReset \/ confirmEmailChange
    \/ signOut \/ provisionAdmin \/ mutateAccountAdmin \/ removeProvider
    \/ rotateOperator \/ disableOperator

AccountsSpec == AccountsInit /\ [][AccountsNext]_accountsVars

---------------------------------------------------------------------------
(* Properties.                                                             *)

(* No two accounts have one address, and every token and session belongs   *)
(* to an account that exists.                                              *)
IdsAreUnique ==
    /\ \A a, b \in Ids : Exists(a) /\ Exists(b) /\ acct[a].email = acct[b].email => a = b
    /\ \A t \in tokens : Exists(t.account)
    /\ \A s \in sessions : Exists(s.account)
    /\ \A t, u \in tokens : t.id = u.id => t = u

(* A session that can be used was opened with the password and the role    *)
(* the account has now, whatever changed between its read and its insert.  *)
SessionIsCurrent ==
    \A s \in sessions : Usable(s) => s.pw = acct[s.account].pw /\ s.role = acct[s.account].role

(* The address moves only when the holders of both addresses confirmed the *)
(* same change; a proof withdrawn by a later request does not count.       *)
EmailMovesOnBothProofs ==
    \A a \in Ids : Exists(a) /\ acct'[a].st # "none" /\ acct'[a].email # acct[a].email =>
        \E t, u \in tokens' :
            /\ t.flow = u.flow /\ t.flow # 0 /\ t.account = a
            /\ t.purpose = "email_change_current" /\ u.purpose = "email_change_new"
            /\ t.st = "used" /\ u.st = "used" /\ u.proposed = acct'[a].email

(* A reset that still works was mailed to the account's present address.   *)
ResetGoesToOwner ==
    \A t \in tokens : t.purpose = "reset" /\ t.st = "live" => t.to = acct[t.account].email

(* Every password set from a mail has spent a token of its own: a link     *)
(* opened twice, or a second link after the first, sets nothing.           *)
ResetWorksOnce ==
    \A a \in Ids : Exists(a) =>
        acct[a].pw = 1 + acct[a].own + Cardinality({t \in Purposes(a, {"reset"}) : t.st = "used"})

(* Administrators cannot lock themselves out: the last one is neither      *)
(* demoted nor deactivated, by whichever concurrent requests.              *)
AdminRemains == Admins # {} => Admins' # {}

(* No credential is replaced by a client that had not seen the latest      *)
(* change of it, a removal included.                                       *)
ProviderSeen ==
    \A a \in Ids, c \in Clients :
        provider'[a] # provider[a] /\ provider'[a].by = c /\ reqs'[c] # reqs[c]
            => provider[a] = reqs[c].row

(* An operator session opened with a rotated credential is never usable.   *)
OperatorSessionIsCurrent == \A v \in operator.old : ~OperatorUsable(v)

(* A reset token goes to the owner's mail and works once, a session ends   *)
(* with the credentials it was made under, and an operator's session with  *)
(* the secret (accounts.ts, operators.ts).                                 *)
CredentialsAreCurrent ==
    /\ IdsAreUnique /\ ResetGoesToOwner /\ ResetWorksOnce
    /\ SessionIsCurrent /\ OperatorSessionIsCurrent

(* An address moves only on both proofs, an administrator always remains,  *)
(* and a provider's link is not removed unseen (accounts.ts).              *)
AccountSteps == [][EmailMovesOnBothProofs /\ AdminRemains /\ ProviderSeen]_accountsVars

=============================================================================
