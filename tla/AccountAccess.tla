--------------------------- MODULE AccountAccess ---------------------------
(***************************************************************************)
(* Accounts, one-time codes and sessions of internal/auth, with sign-in    *)
(* through an identity provider and the suspension of users by the         *)
(* administration.  Each action is one MySQL transaction; the rows it      *)
(* locks make it atomic.  Sessions are looked up by token alone            *)
(* (GetSessionByToken never reads the user), so what a suspension or a new  *)
(* password must end, it ends by writing the session rows.                 *)
(***************************************************************************)
EXTENDS Naturals, FiniteSets

CONSTANTS
    Email,          \* normalized addresses; auth_users has one row per address
    Subject,        \* what the provider calls its users
    Flow,           \* sign-ins through the provider
    MaxCodes, MaxSessions, MaxPasswords,    \* bounds: rows of each table, passwords of a user
    NoOne

ASSUME AccountAssumption ==
    /\ MaxCodes \in Nat /\ MaxSessions \in Nat /\ MaxPasswords \in Nat \ {0}
    /\ NoOne \notin Email

VARIABLES
    accounts,       \* auth_users with its credential; password 0 is no credential row
    registering,    \* accounts whose registration request has not set a password yet
    codes,          \* auth_one_time_grants, in the order they were issued
    authSessions,   \* auth_sessions, in the order they were opened; 'password' is the one
                    \* the account had when the session was opened or last changed it
    identities,     \* oauth_identities of the provider: whose account a subject is
    flows           \* oauth_states and the oauth_handoffs that continue them

accountVars == <<accounts, registering, codes, authSessions, identities, flows>>

CodeId == 1 .. MaxCodes
SessionId == 1 .. MaxSessions
NoAccount == [status |-> "none", verified |-> FALSE, password |-> 0]
NoCode == [purpose |-> "none", to |-> NoOne, flow |-> NoOne, state |-> "none"]
NoSession == [of |-> NoOne, status |-> "none", password |-> 0, by |-> <<"nothing", 0>>]
NoFlow == [at |-> "none", intent |-> "login", session |-> 0, subject |-> NoOne,
           email |-> NoOne, verified |-> FALSE, bound |-> NoOne]

Usable(e) == accounts[e].status = "active" /\ accounts[e].verified
Live(c, purpose) == codes[c].state = "live" /\ codes[c].purpose = purpose
ActiveSessions(e) == {s \in SessionId : authSessions[s].of = e /\ authSessions[s].status = "active"}
\* Whoever acts in a session is its account; requireCurrentSessionTx.
Current(s) == authSessions[s].status = "active"

\* newPasswordSession and its row.
OpenSession(e, by, password) ==
    \E s \in SessionId :
        /\ authSessions[s].status = "none"
        /\ \A r \in SessionId : r < s => authSessions[r].status # "none"
        /\ authSessions' = [authSessions EXCEPT
               ![s] = [of |-> e, status |-> "active", password |-> password, by |-> by]]

\* A new code, and the live codes it makes invalid.
IssueCode(code, replaced) ==
    \E c \in CodeId :
        /\ codes[c].state = "none"
        /\ \A d \in CodeId : d < c => codes[d].state # "none"
        /\ codes' = [d \in CodeId |-> IF d = c THEN code
                                     ELSE IF d \in replaced THEN [codes[d] EXCEPT !.state = "void"]
                                     ELSE codes[d]]

CodeFor(e, purpose) == [purpose |-> purpose, to |-> e, flow |-> NoOne, state |-> "live"]
Use(c) == [codes EXCEPT ![c].state = "used"]
Revoke(ss) == [s \in SessionId |-> IF s \in ss THEN [authSessions[s] EXCEPT !.status = "revoked"]
                                   ELSE authSessions[s]]

-----------------------------------------------------------------------------
\* Registration: the user and its verification code, with the mail and the
\* workspace; then the password, in a transaction of its own.
Register(e) ==
    /\ accounts[e] = NoAccount
    /\ accounts' = [accounts EXCEPT ![e].status = "pending"]
    /\ registering' = registering \cup {e}
    /\ IssueCode(CodeFor(e, "verify"), {})
    /\ UNCHANGED <<authSessions, identities, flows>>

SetInitialPassword(e) ==
    /\ e \in registering
    /\ registering' = registering \ {e}
    /\ accounts' = [accounts EXCEPT ![e].password = 1]
    /\ UNCHANGED <<codes, authSessions, identities, flows>>

\* The request ends between its two transactions.
RegistrationCut(e) ==
    /\ e \in registering
    /\ registering' = registering \ {e}
    /\ UNCHANGED <<accounts, codes, authSessions, identities, flows>>

ReissueVerification(e) ==
    /\ accounts[e].status = "pending" /\ ~accounts[e].verified
    /\ IssueCode(CodeFor(e, "verify"), {c \in CodeId : Live(c, "verify") /\ codes[c].to = e})
    /\ UNCHANGED <<accounts, registering, authSessions, identities, flows>>

VerifyEmail(c) ==
    LET e == codes[c].to IN
    /\ Live(c, "verify")
    /\ accounts[e].status = "pending" /\ ~accounts[e].verified
    /\ codes' = Use(c)
    /\ accounts' = [accounts EXCEPT ![e].status = "active", ![e].verified = TRUE]
    /\ UNCHANGED <<registering, authSessions, identities, flows>>

\* A code expires, or is tried after it has.
CodeExpires(c) ==
    /\ codes[c].state = "live"
    /\ codes' = [codes EXCEPT ![c].state = "void"]
    /\ UNCHANGED <<accounts, registering, authSessions, identities, flows>>

-----------------------------------------------------------------------------
LoginPassword(e) ==
    /\ accounts[e].password > 0 /\ Usable(e)
    /\ OpenSession(e, <<"password", 0>>, accounts[e].password)
    /\ UNCHANGED <<accounts, registering, codes, identities, flows>>

\* RequestLoginCode, RequestReset: at most one per minute, which is left out.
RequestLoginCode(e) ==
    /\ Usable(e)
    /\ IssueCode(CodeFor(e, "login"), {})
    /\ UNCHANGED <<accounts, registering, authSessions, identities, flows>>

ConsumeLoginCode(c) ==
    LET e == codes[c].to IN
    /\ Live(c, "login") /\ Usable(e)
    /\ codes' = Use(c)
    /\ OpenSession(e, <<"code", c>>, accounts[e].password)
    /\ UNCHANGED <<accounts, registering, identities, flows>>

RequestReset(e) ==
    /\ Usable(e) /\ accounts[e].password > 0
    /\ IssueCode(CodeFor(e, "reset"), {})
    /\ UNCHANGED <<accounts, registering, authSessions, identities, flows>>

ResetPassword(c) ==
    LET e == codes[c].to IN
    /\ Live(c, "reset")
    /\ accounts[e].status # "disabled" /\ accounts[e].password \in 1 .. MaxPasswords - 1
    /\ codes' = Use(c)
    /\ accounts' = [accounts EXCEPT ![e].password = @ + 1]
    /\ authSessions' = Revoke(ActiveSessions(e))
    /\ UNCHANGED <<registering, identities, flows>>

\* Every session of the account but the one that changes the password ends.
ChangePassword(s) ==
    LET e == authSessions[s].of IN
    /\ Current(s)
    /\ accounts[e].password \in 1 .. MaxPasswords - 1
    /\ accounts' = [accounts EXCEPT ![e].password = @ + 1]
    /\ authSessions' = [Revoke(ActiveSessions(e) \ {s}) EXCEPT
                            ![s].password = accounts[e].password + 1]
    /\ UNCHANGED <<registering, codes, identities, flows>>

RevokeSession(s, target) ==
    /\ Current(s) /\ target \in ActiveSessions(authSessions[s].of)
    /\ authSessions' = Revoke({target})
    /\ UNCHANGED <<accounts, registering, codes, identities, flows>>

\* A session's time is over, or its user logs out.
SessionEnds(s) ==
    /\ Current(s)
    /\ authSessions' = [authSessions EXCEPT ![s].status = "over"]
    /\ UNCHANGED <<accounts, registering, codes, identities, flows>>

\* mutateManagedUser: "suspend" and "restore".
SuspendUser(e) ==
    /\ accounts[e].status # "none"
    /\ accounts' = [accounts EXCEPT ![e].status = "disabled"]
    /\ authSessions' = Revoke(ActiveSessions(e))
    /\ UNCHANGED <<registering, codes, identities, flows>>

RestoreUser(e) ==
    /\ accounts[e].status = "disabled"
    /\ accounts' = [accounts EXCEPT ![e].status = IF accounts[e].verified THEN "active" ELSE "pending"]
    /\ UNCHANGED <<registering, codes, authSessions, identities, flows>>

-----------------------------------------------------------------------------
StartedBy(s) == [NoFlow EXCEPT !.at = "started", !.intent = "bind", !.session = s]

\* Start: a sign-in, or the binding of an identity to the account of a session.
StartFlow(f, flow) ==
    /\ flows[f].at = "none"
    /\ flow.intent = "bind" => Current(flow.session)
    /\ flows' = [flows EXCEPT ![f] = flow]
    /\ UNCHANGED <<accounts, registering, codes, authSessions, identities>>

\* Callback: the state is consumed with what the provider says of its user, who
\* may have no address.
Callback(f, subject, email, verified) ==
    /\ flows[f].at = "started"
    /\ flows' = [flows EXCEPT ![f].at = "claimed", ![f].subject = subject,
                              ![f].email = email, ![f].verified = verified]
    /\ UNCHANGED <<accounts, registering, codes, authSessions, identities>>

\* A state or a handoff expires, or the request that carries the claim ends.
FlowEnds(f) ==
    /\ flows[f].at \notin {"none", "over"}
    /\ flows' = [flows EXCEPT ![f].at = "over"]
    /\ UNCHANGED <<accounts, registering, codes, authSessions, identities>>

\* The identity is read and kept with the handoff; a subject that has an account
\* cannot register.  No address is no verified address.
CreateBrowserHandoff(f) ==
    LET owner == identities[flows[f].subject] IN
    /\ flows[f].at = "claimed" /\ flows[f].intent # "bind"
    /\ flows' = IF owner # NoOne /\ flows[f].intent = "register"
                THEN [flows EXCEPT ![f].at = "over"]
                ELSE [flows EXCEPT ![f].at = "handed", ![f].bound = owner,
                                   ![f].verified = @ /\ flows[f].email # NoOne]
    /\ UNCHANGED <<accounts, registering, codes, authSessions, identities>>

\* The identity and its user are read again; a refusal leaves the handoff as it
\* was.  A subject without an account goes on to register.
ExchangeBrowserHandoff(f) ==
    LET e == flows[f].bound IN
    /\ flows[f].at = "handed"
    /\ IF e = NoOne
       THEN flows' = [flows EXCEPT ![f].at = "social"] /\ UNCHANGED authSessions
       ELSE /\ identities[flows[f].subject] = e /\ Usable(e)
            /\ OpenSession(e, <<"flow", f>>, accounts[e].password)
            /\ flows' = [flows EXCEPT ![f].at = "over"]
    /\ UNCHANGED <<accounts, registering, codes, identities>>

SocialCode(e, f) == [purpose |-> "social", to |-> e, flow |-> f, state |-> "live"]
SocialCodes(f) == {c \in CodeId : Live(c, "social") /\ codes[c].flow = f}

\* handleSocialRegistrationComplete asks for it only while the address is not
\* verified.
RequestEmailVerification(f, e) ==
    /\ flows[f].at = "social" /\ identities[flows[f].subject] = NoOne
    /\ ~flows[f].verified
    /\ accounts[e].status = "none"
    /\ IssueCode(SocialCode(e, f), SocialCodes(f))
    /\ flows' = [flows EXCEPT ![f].email = e, ![f].verified = FALSE]
    /\ UNCHANGED <<accounts, registering, authSessions, identities>>

AddressIsProven(f) ==
    IF flows[f].verified THEN UNCHANGED codes
    ELSE \E c \in SocialCodes(f) : codes[c].to = flows[f].email /\ codes' = Use(c)

\* SocialRegistrationService.Complete: user, identity and session in one transaction.
CompleteSocial(f) ==
    LET e == flows[f].email IN
    /\ flows[f].at = "social" /\ e # NoOne
    /\ identities[flows[f].subject] = NoOne
    /\ accounts[e].status = "none"
    /\ AddressIsProven(f)
    /\ accounts' = [accounts EXCEPT ![e].status = "active", ![e].verified = TRUE]
    /\ identities' = [identities EXCEPT ![flows[f].subject] = e]
    /\ OpenSession(e, <<"flow", f>>, 0)
    /\ flows' = [flows EXCEPT ![f].at = "over", ![f].bound = e]
    /\ UNCHANGED registering

\* Bug: the session that completes the binding need not be the one that began it.
BugBindAnySession(f, s) ==
    LET e == authSessions[s].of IN
    /\ flows[f].at = "claimed" /\ flows[f].intent = "bind"
    /\ Current(s)
    /\ identities[flows[f].subject] = NoOne /\ \A x \in Subject : identities[x] # e
    /\ identities' = [identities EXCEPT ![flows[f].subject] = e]
    /\ flows' = [flows EXCEPT ![f].at = "over"]
    /\ UNCHANGED <<accounts, registering, codes, authSessions>>

\* One subject has one account and one account has one subject of the provider.
BindConnectedAccount(f, s) ==
    LET e == authSessions[s].of IN
    /\ flows[f].at = "claimed" /\ flows[f].intent = "bind"
    /\ flows[f].session = s /\ Current(s)
    /\ identities[flows[f].subject] = NoOne /\ \A x \in Subject : identities[x] # e
    /\ identities' = [identities EXCEPT ![flows[f].subject] = e]
    /\ flows' = [flows EXCEPT ![f].at = "over"]
    /\ UNCHANGED <<accounts, registering, codes, authSessions>>

\* The foreign key of oauth_handoffs keeps an identity that any handoff, over or
\* not, was made for: migrations/000015, ON DELETE RESTRICT.
Referenced(x) == \E f \in Flow : flows[f].bound # NoOne /\ flows[f].subject = x

UnbindConnectedAccount(s) ==
    \E x \in Subject :
        /\ Current(s) /\ identities[x] = authSessions[s].of
        /\ ~Referenced(x)
        /\ identities' = [identities EXCEPT ![x] = NoOne]
        /\ UNCHANGED <<accounts, registering, codes, authSessions, flows>>

-----------------------------------------------------------------------------
AccountInit ==
    /\ accounts = [e \in Email |-> NoAccount]
    /\ registering = {}
    /\ codes = [c \in CodeId |-> NoCode]
    /\ authSessions = [s \in SessionId |-> NoSession]
    /\ identities = [x \in Subject |-> NoOne]
    /\ flows = [f \in Flow |-> NoFlow]

ByAddress(e) ==
    \/ Register(e) \/ SetInitialPassword(e) \/ RegistrationCut(e) \/ ReissueVerification(e)
    \/ LoginPassword(e) \/ RequestLoginCode(e) \/ RequestReset(e)
    \/ SuspendUser(e) \/ RestoreUser(e)

ByCode(c) == VerifyEmail(c) \/ CodeExpires(c) \/ ConsumeLoginCode(c) \/ ResetPassword(c)

InSession(s) ==
    \/ ChangePassword(s) \/ SessionEnds(s) \/ UnbindConnectedAccount(s)
    \/ \E target \in SessionId : RevokeSession(s, target)
    \/ \E f \in Flow : StartFlow(f, StartedBy(s)) \/ BindConnectedAccount(f, s)

ThroughProvider(f) ==
    \/ \E intent \in {"login", "register"} :
           StartFlow(f, [NoFlow EXCEPT !.at = "started", !.intent = intent])
    \/ \E x \in Subject, e \in Email \cup {NoOne}, verified \in BOOLEAN : Callback(f, x, e, verified)
    \/ FlowEnds(f) \/ CreateBrowserHandoff(f) \/ ExchangeBrowserHandoff(f) \/ CompleteSocial(f)
    \/ \E e \in Email : RequestEmailVerification(f, e)

AccountNext ==
    \/ \E e \in Email : ByAddress(e)
    \/ \E c \in CodeId : ByCode(c)
    \/ \E s \in SessionId : InSession(s)
    \/ \E f \in Flow : ThroughProvider(f)

AccountSpec == AccountInit /\ [][AccountNext]_accountVars

-----------------------------------------------------------------------------
AccountTypeOK ==
    /\ accounts \in [Email -> [status : {"none", "pending", "active", "disabled"},
                               verified : BOOLEAN, password : 0 .. MaxPasswords]]
    /\ registering \subseteq Email
    /\ codes \in [CodeId -> [purpose : {"none", "verify", "login", "reset", "social"},
                              to : Email \cup {NoOne}, flow : Flow \cup {NoOne},
                              state : {"none", "live", "used", "void"}]]
    /\ authSessions \in [SessionId -> [of : Email \cup {NoOne},
                                        status : {"none", "active", "revoked", "over"},
                                        password : 0 .. MaxPasswords,
                                        by : {<<"nothing", 0>>, <<"password", 0>>}
                                                 \cup ({"code"} \X CodeId) \cup ({"flow"} \X Flow)]]
    /\ identities \in [Subject -> Email \cup {NoOne}]
    /\ flows \in [Flow -> [at : {"none", "started", "claimed", "handed", "social", "over"},
                            intent : {"login", "register", "bind"}, session : 0 .. MaxSessions,
                            subject : Subject \cup {NoOne}, email : Email \cup {NoOne},
                            verified : BOOLEAN, bound : Email \cup {NoOne}]]
    /\ \A f \in Flow : flows[f].at \in {"handed", "social"} /\ flows[f].verified => flows[f].email # NoOne

\* A session that GetSessionByToken accepts is one of a user who may sign in: it
\* looks at the session alone, so each suspension has ended all of them and no
\* sign-in that began before it has opened another.
SessionsOfUsableAccounts == \A s \in SessionId : Current(s) => Usable(authSessions[s].of)

\* No session outlives a new password, but the one that set it and, when it is the
\* first password, those that were opened without one.
SessionsFollowPassword ==
    \A s \in SessionId : Current(s) =>
        LET now == accounts[authSessions[s].of].password IN
        authSessions[s].password = now \/ (authSessions[s].password = 0 /\ now = 1)

\* A login code, a handoff or a registration through the provider opens one session.
OneSessionPerSecret ==
    \A r, s \in SessionId :
        r # s /\ authSessions[r].by = authSessions[s].by =>
            authSessions[r].by[1] \in {"nothing", "password"}

\* Of the verification codes mailed to an account only the last is good.
OneVerificationCode ==
    \A e \in Email :
        Cardinality({c \in CodeId : Live(c, "verify") /\ codes[c].to = e}) <= 1

\* An address is verified by a code that was mailed to it, or by the provider's
\* word for that very address.
AddressesAreProven ==
    \A e \in Email : accounts[e].verified =>
        \/ \E c \in CodeId : /\ codes[c].state = "used" /\ codes[c].to = e
                             /\ codes[c].purpose \in {"verify", "social"}
        \/ \E f \in Flow : flows[f].at = "over" /\ flows[f].verified /\ flows[f].email = e

\* A sign-in through the provider opens a session of the account its subject is
\* bound to, and never of one that merely has the address the provider gave.
FlowOpensItsOwnAccount ==
    [][\A s \in SessionId, f \in Flow :
          authSessions'[s].by = <<"flow", f>> /\ authSessions[s].status = "none" =>
              identities'[flows[f].subject] = authSessions'[s].of]_accountVars

\* A subject gets an account when it creates one, or in the live session of that
\* account that asked for it; it loses it only in a live session of the account.
BoundByItsOwner ==
    [][\A x \in Subject : identities'[x] # identities[x] =>
          \/ identities'[x] # NoOne /\ accounts[identities'[x]].status = "none"
          \/ \E f \in Flow : /\ flows[f].subject = x /\ flows[f].at = "claimed"
                             /\ flows[f].session \in ActiveSessions(identities'[x])
          \/ identities'[x] = NoOne /\ ActiveSessions(identities[x]) # {}]_accountVars

\* Accounts as a whole: sessions end with the suspension or the password they rest on,
\* each secret works once, addresses are proven, and a provider's subject opens the
\* account it is bound to and no other.
AccountSafety ==
    /\ [](/\ AccountTypeOK /\ SessionsOfUsableAccounts /\ SessionsFollowPassword
          /\ OneSessionPerSecret /\ OneVerificationCode /\ AddressesAreProven)
    /\ FlowOpensItsOwnAccount /\ BoundByItsOwner
=============================================================================
