---------------------------- MODULE RequestProofs ----------------------------
(* Safety of the components that change when somebody asks: accounts,          *)
(* workspaces, text shares, bio pages, the console of administrators and       *)
(* support, proved for every number of rows, requests and readers.             *)
EXTENDS AccountAccess, Workspace, TextShare, BioPage, AdminConsole, SupportTickets, FiniteSetTheorems, TLAPS

-----------------------------------------------------------------------------
(* AccountAccess: accounts, codes, sessions and sign-ins through the provider *)

AccountRow == [status : {"none", "pending", "active", "disabled"},
               verified : BOOLEAN, password : 0 .. MaxPasswords]
CodeRow == [purpose : {"none", "verify", "login", "reset", "social"},
            to : Email \cup {NoOne}, flow : Flow \cup {NoOne},
            state : {"none", "live", "used", "void"}]
Secret == {<<"nothing", 0>>, <<"password", 0>>} \cup ({"code"} \X CodeId) \cup ({"flow"} \X Flow)
AccountSession == [of : Email \cup {NoOne}, status : {"none", "active", "revoked", "over"},
                   password : 0 .. MaxPasswords, by : Secret]
FlowRow == [at : {"none", "started", "claimed", "handed", "social", "over"},
            intent : {"login", "register", "bind"}, session : 0 .. MaxSessions,
            subject : Subject \cup {NoOne}, email : Email \cup {NoOne},
            verified : BOOLEAN, bound : Email \cup {NoOne}]

\* A registration that may still set the first password is of an account without one.
AccountsInv ==
    /\ accounts \in [Email -> AccountRow] /\ registering \subseteq Email
    /\ \A e \in Email : accounts[e].status = "none" => ~accounts[e].verified /\ accounts[e].password = 0
    /\ \A e \in registering : accounts[e].status # "none" /\ accounts[e].password = 0

\* Codes go to addresses; one that verifies goes to an account, and is the only one.
CodesInv ==
    /\ codes \in [CodeId -> CodeRow]
    /\ \A c \in CodeId : codes[c].state # "none" => codes[c].to \in Email
    /\ \A c \in CodeId : Live(c, "verify") => accounts[codes[c].to].status # "none"
    /\ \A c, d \in CodeId : Live(c, "verify") /\ Live(d, "verify") /\ codes[c].to = codes[d].to => c = d

\* A session rests on a secret that is used up, a usable account and its password.
SessionRow(s) ==
    LET x == authSessions[s] IN
    /\ x.status = "none" => x.by = <<"nothing", 0>>
    /\ x.status # "none" => x.of \in Email
    /\ \A c \in CodeId : x.by = <<"code", c>> => codes[c].state = "used"
    /\ \A f \in Flow : x.by = <<"flow", f>> => flows[f].at = "over"
    /\ x.status = "active" =>
         /\ Usable(x.of)
         /\ x.password = accounts[x.of].password \/ (x.password = 0 /\ accounts[x.of].password = 1)

SessionsInv ==
    /\ authSessions \in [SessionId -> AccountSession]
    /\ \A s \in SessionId : SessionRow(s)
    /\ OneSessionPerSecret

FlowIsSound(r) ==
    /\ r.at \in {"claimed", "handed", "social"} => r.subject \in Subject
    /\ r.at \in {"handed", "social"} /\ r.verified => r.email # NoOne

FlowsInv == flows \in [Flow -> FlowRow] /\ \A f \in Flow : FlowIsSound(flows[f])

AccountInv ==
    /\ AccountsInv /\ CodesInv /\ SessionsInv /\ FlowsInv
    /\ identities \in [Subject -> Email \cup {NoOne}]
    /\ AddressesAreProven

-----------------------------------------------------------------------------
(* What no step undoes *)

AccountsStay == \A e \in Email : accounts[e].status # "none" => accounts'[e].status # "none"
CodesStay == \A c \in CodeId : codes[c].state = "used" => codes'[c] = codes[c]
FlowsStay == \A f \in Flow : flows[f].at = "over" => flows'[f] = flows[f]

LEMMA AccountNumbers ==
    ASSUME AccountAssumption
    PROVE  /\ MaxCodes \in Nat /\ MaxSessions \in Nat /\ MaxPasswords \in Nat /\ MaxPasswords >= 1
           /\ NoOne \notin Email
  BY DEF AccountAssumption

LEMMA AccountsStart ==
    ASSUME AccountAssumption, AccountInit
    PROVE  AccountInv
  <1>1. AccountsInv
    BY AccountNumbers DEF AccountInit, AccountsInv, AccountRow, NoAccount
  <1>2. CodesInv
    BY DEF AccountInit, CodesInv, CodeRow, NoCode, Live
  <1>3. SessionsInv
    <2>1. NoSession \in AccountSession
      BY AccountNumbers DEF NoSession, AccountSession, Secret
    <2>2. \A s \in SessionId : SessionRow(s)
      BY DEF AccountInit, SessionRow, NoSession
    <2>3. OneSessionPerSecret
      BY DEF AccountInit, OneSessionPerSecret, NoSession
    <2> QED BY <2>1, <2>2, <2>3 DEF AccountInit, SessionsInv
  <1>4. FlowsInv
    BY AccountNumbers DEF AccountInit, FlowsInv, FlowRow, NoFlow, FlowIsSound
  <1>5. AddressesAreProven /\ identities \in [Subject -> Email \cup {NoOne}]
    BY DEF AccountInit, AddressesAreProven, NoAccount
  <1> QED BY <1>1, <1>2, <1>3, <1>4, <1>5 DEF AccountInv

LEMMA ProofsStay ==
    ASSUME AddressesAreProven, CodesStay, FlowsStay,
           \A e \in Email : accounts'[e].verified => accounts[e].verified
    PROVE  AddressesAreProven'
  BY DEF AddressesAreProven, CodesStay, FlowsStay

(* Codes that are used or expire: the others are as they were. *)
LEMMA CodesShrink ==
    ASSUME CodesInv, AccountsStay, codes' \in [CodeId -> CodeRow],
           \A c \in CodeId : /\ codes'[c].to = codes[c].to /\ codes'[c].purpose = codes[c].purpose
                             /\ codes'[c].state = "live" => codes[c].state = "live"
                             /\ codes'[c].state # "none" => codes[c].state # "none"
    PROVE  CodesInv'
  BY DEF CodesInv, AccountsStay, Live

LEMMA OneCodeEnds ==
    ASSUME CodesInv, AccountsStay, NEW c \in CodeId, NEW st \in {"used", "void"},
           codes[c].state = "live", codes' = [codes EXCEPT ![c].state = st]
    PROVE  /\ CodesInv' /\ CodesStay
           /\ codes'[c].state = st /\ codes'[c].to = codes[c].to /\ codes'[c].purpose = codes[c].purpose
  <1>1. codes[c] \in CodeRow
    BY DEF CodesInv
  <1>2. /\ codes' \in [CodeId -> CodeRow]
        /\ codes'[c].state = st /\ codes'[c].to = codes[c].to /\ codes'[c].purpose = codes[c].purpose
        /\ \A d \in CodeId : d # c => codes'[d] = codes[d]
    BY <1>1 DEF CodesInv, CodeRow
  <1>3. \A d \in CodeId : /\ codes'[d].to = codes[d].to /\ codes'[d].purpose = codes[d].purpose
                          /\ codes'[d].state = "live" => codes[d].state = "live"
                          /\ codes'[d].state # "none" => codes[d].state # "none"
    BY <1>2
  <1>4. CodesStay
    BY <1>2 DEF CodesStay
  <1> QED BY <1>2, <1>3, <1>4, CodesShrink

LEMMA CodeIssued ==
    ASSUME CodesInv, AccountsStay, NEW code \in CodeRow, code.state = "live", code.to \in Email,
           NEW replaced, \A d \in replaced : codes[d].state = "live", IssueCode(code, replaced),
           code.purpose = "verify" =>
               /\ accounts'[code.to].status # "none"
               /\ \A d \in CodeId : Live(d, "verify") /\ codes[d].to = code.to => d \in replaced
    PROVE  CodesInv' /\ CodesStay
  <1>1. PICK c \in CodeId :
           /\ codes[c].state = "none"
           /\ codes' = [d \in CodeId |-> IF d = c THEN code
                                         ELSE IF d \in replaced THEN [codes[d] EXCEPT !.state = "void"]
                                         ELSE codes[d]]
    BY DEF IssueCode
  <1>2. \A d \in CodeId : codes[d] \in CodeRow
    BY DEF CodesInv
  <1>3. /\ codes'[c] = code /\ c \notin replaced
        /\ \A d \in CodeId \ {c} : d \notin replaced => codes'[d] = codes[d]
        /\ \A d \in CodeId \ {c} : d \in replaced =>
             /\ codes'[d] \in CodeRow /\ codes'[d].state = "void" /\ codes'[d].to = codes[d].to
    BY <1>1, <1>2 DEF CodeRow
  <1>4. codes' \in [CodeId -> CodeRow]
    BY <1>1, <1>2, <1>3
  <1>5. \A d \in CodeId : codes'[d].state # "none" => codes'[d].to \in Email
    BY <1>3 DEF CodesInv
  <1>6. ASSUME NEW d \in CodeId, d # c, Live(d, "verify")'
        PROVE  Live(d, "verify") /\ codes'[d].to = codes[d].to /\ d \notin replaced
    BY <1>3, <1>6 DEF Live
  <1>7. \A d \in CodeId : Live(d, "verify")' => accounts'[codes'[d].to].status # "none"
    <2> SUFFICES ASSUME NEW d \in CodeId, Live(d, "verify")'
                 PROVE  accounts'[codes'[d].to].status # "none"
      OBVIOUS
    <2>1. CASE d = c
      BY <2>1, <1>3 DEF Live
    <2>2. CASE d # c
      <3>1. codes[d].to \in Email
        BY <1>6, <2>2 DEF CodesInv, Live
      <3> QED BY <3>1, <1>6, <2>2 DEF CodesInv, AccountsStay
    <2> QED BY <2>1, <2>2
  <1>8. \A a, b \in CodeId : Live(a, "verify")' /\ Live(b, "verify")' /\ codes'[a].to = codes'[b].to => a = b
    <2> SUFFICES ASSUME NEW a \in CodeId, NEW b \in CodeId, Live(a, "verify")', Live(b, "verify")',
                        codes'[a].to = codes'[b].to, a # b
                 PROVE  FALSE
      OBVIOUS
    <2>1. CASE a # c /\ b # c
      BY <2>1, <1>6 DEF CodesInv
    <2>2. CASE a = c
      <3>1. code.purpose = "verify" /\ b # c
        BY <2>2, <1>3 DEF Live
      <3> QED BY <3>1, <2>2, <1>3, <1>6
    <2>3. CASE b = c
      <3>1. code.purpose = "verify" /\ a # c
        BY <2>3, <1>3 DEF Live
      <3> QED BY <3>1, <2>3, <1>3, <1>6
    <2> QED BY <2>1, <2>2, <2>3
  <1>9. CodesStay
    BY <1>1, <1>3 DEF CodesStay
  <1> QED BY <1>4, <1>5, <1>7, <1>8, <1>9 DEF CodesInv

LEMMA FlowMoves ==
    ASSUME FlowsInv, NEW f \in Flow, flows' \in [Flow -> FlowRow], FlowIsSound(flows'[f]),
           flows[f].at # "over", \A g \in Flow : g # f => flows'[g] = flows[g]
    PROVE  FlowsInv' /\ FlowsStay
  <1>1. \A g \in Flow : FlowIsSound(flows'[g])
    BY DEF FlowsInv
  <1> QED BY <1>1 DEF FlowsInv, FlowsStay

(* Sessions that end, or are as they were: what those that go on rest on still holds. *)
LEMMA SessionsShrink ==
    ASSUME SessionsInv, CodesStay, FlowsStay, authSessions' \in [SessionId -> AccountSession],
           \A s \in SessionId :
               /\ authSessions'[s].by = authSessions[s].by /\ authSessions'[s].of = authSessions[s].of
               /\ authSessions'[s].status = "none" <=> authSessions[s].status = "none",
           \A s \in SessionId : authSessions'[s].status = "active" =>
               LET now == accounts'[authSessions[s].of] IN
               /\ now.status = "active" /\ now.verified
               /\ authSessions'[s].password = now.password
                    \/ (authSessions'[s].password = 0 /\ now.password = 1)
    PROVE  SessionsInv'
  <1>1. ASSUME NEW s \in SessionId
        PROVE  SessionRow(s)'
    <2>1. SessionRow(s)
      BY DEF SessionsInv
    <2>2. \A c \in CodeId : authSessions'[s].by = <<"code", c>> => codes'[c].state = "used"
      BY <2>1 DEF SessionRow, CodesStay
    <2>3. \A f \in Flow : authSessions'[s].by = <<"flow", f>> => flows'[f].at = "over"
      BY <2>1 DEF SessionRow, FlowsStay
    <2> QED BY <2>1, <2>2, <2>3 DEF SessionRow, Usable
  <1>2. OneSessionPerSecret'
    BY DEF SessionsInv, OneSessionPerSecret
  <1> QED BY <1>1, <1>2 DEF SessionsInv

(* Nothing happens to sessions, nor to what the active ones rest on. *)
LEMMA SessionsUntouched ==
    ASSUME SessionsInv, CodesStay, FlowsStay, authSessions' = authSessions,
           \A e \in Email : accounts[e].status = "active" /\ accounts[e].verified => accounts'[e] = accounts[e]
    PROVE  SessionsInv'
  <1>1. \A s \in SessionId : authSessions'[s].status = "active" =>
               LET now == accounts'[authSessions[s].of] IN
               /\ now.status = "active" /\ now.verified
               /\ authSessions'[s].password = now.password
                    \/ (authSessions'[s].password = 0 /\ now.password = 1)
    BY DEF SessionsInv, SessionRow, Usable
  <1> QED BY <1>1, SessionsShrink DEF SessionsInv

(* Those of one account are revoked, or some of them. *)
LEMMA SessionsRevokedAre ==
    ASSUME SessionsInv, NEW ss, authSessions' = Revoke(ss)
    PROVE  /\ authSessions' \in [SessionId -> AccountSession]
           /\ \A s \in SessionId :
                /\ authSessions'[s].by = authSessions[s].by /\ authSessions'[s].of = authSessions[s].of
                /\ authSessions'[s].password = authSessions[s].password
                /\ s \in ss => authSessions'[s].status = "revoked"
                /\ s \notin ss => authSessions'[s].status = authSessions[s].status
  <1>1. ASSUME NEW s \in SessionId
        PROVE  /\ authSessions'[s] \in AccountSession
               /\ authSessions'[s].by = authSessions[s].by /\ authSessions'[s].of = authSessions[s].of
               /\ authSessions'[s].password = authSessions[s].password
               /\ s \in ss => authSessions'[s].status = "revoked"
               /\ s \notin ss => authSessions'[s].status = authSessions[s].status
    <2>1. authSessions[s] \in AccountSession
      BY DEF SessionsInv
    <2> QED BY <2>1 DEF Revoke, AccountSession
  <1> QED BY <1>1 DEF Revoke

LEMMA SessionsRevoked ==
    ASSUME SessionsInv, CodesStay, FlowsStay, NEW e \in Email, NEW ss, authSessions' = Revoke(ss),
           ss \subseteq {s \in SessionId : authSessions[s].status = "active"},
           \A x \in Email : x # e => accounts'[x] = accounts[x],
           accounts'[e] = accounts[e] \/ ss = ActiveSessions(e)
    PROVE  SessionsInv' /\ \A s \in SessionId : authSessions'[s].by = authSessions[s].by
  <1>1. \A s \in SessionId :
            /\ authSessions'[s].by = authSessions[s].by /\ authSessions'[s].of = authSessions[s].of
            /\ authSessions'[s].password = authSessions[s].password
            /\ authSessions'[s].status = "none" <=> authSessions[s].status = "none"
            /\ authSessions'[s].status = "active" => authSessions[s].status = "active" /\ s \notin ss
    BY SessionsRevokedAre
  <1>2. \A s \in SessionId : authSessions'[s].status = "active" =>
               LET now == accounts'[authSessions[s].of] IN
               /\ now.status = "active" /\ now.verified
               /\ authSessions'[s].password = now.password
                    \/ (authSessions'[s].password = 0 /\ now.password = 1)
    <2> SUFFICES ASSUME NEW s \in SessionId, authSessions'[s].status = "active"
                 PROVE  /\ accounts'[authSessions[s].of].status = "active"
                        /\ accounts'[authSessions[s].of].verified
                        /\ \/ authSessions[s].password = accounts'[authSessions[s].of].password
                           \/ authSessions[s].password = 0 /\ accounts'[authSessions[s].of].password = 1
      BY <1>1
    <2>1. SessionRow(s) /\ authSessions[s].status = "active" /\ s \notin ss
      BY <1>1 DEF SessionsInv
    <2>2. accounts'[authSessions[s].of] = accounts[authSessions[s].of]
      BY <2>1 DEF ActiveSessions, SessionRow
    <2> QED BY <2>1, <2>2 DEF SessionRow, Usable
  <1>3. authSessions' \in [SessionId -> AccountSession]
    BY SessionsRevokedAre
  <1> QED BY <1>1, <1>2, <1>3, SessionsShrink

(* A session is opened on a secret of its own. *)
LEMMA SessionOpened ==
    ASSUME SessionsInv, CodesStay, FlowsStay, NEW e \in Email, NEW by \in Secret, NEW p \in 0 .. MaxPasswords,
           OpenSession(e, by, p),
           \A x \in Email : accounts[x].status = "active" /\ accounts[x].verified => accounts'[x] = accounts[x],
           accounts'[e].status = "active", accounts'[e].verified, accounts'[e].password = p,
           by[1] = "password" \/ \A s \in SessionId : authSessions[s].by # by,
           by[1] # "nothing",
           \A c \in CodeId : by = <<"code", c>> => codes'[c].state = "used",
           \A f \in Flow : by = <<"flow", f>> => flows'[f].at = "over"
    PROVE  /\ SessionsInv'
           /\ \A s \in SessionId : authSessions[s].status = "none" /\ authSessions'[s].by # authSessions[s].by =>
                 authSessions'[s].by = by /\ authSessions'[s].of = e
  <1> DEFINE row == [of |-> e, status |-> "active", password |-> p, by |-> by]
  <1>1. PICK n \in SessionId :
           authSessions[n].status = "none" /\ authSessions' = [authSessions EXCEPT ![n] = row]
    BY DEF OpenSession
  <1>2. row \in AccountSession
    BY DEF AccountSession
  <1>3. row.of = e /\ row.status = "active" /\ row.password = p /\ row.by = by
    OBVIOUS
  <1> HIDE DEF row
  <1>4. /\ authSessions' \in [SessionId -> AccountSession] /\ authSessions'[n] = row
        /\ \A s \in SessionId : s # n => authSessions'[s] = authSessions[s]
    BY <1>1, <1>2 DEF SessionsInv
  <1>5. ASSUME NEW s \in SessionId
        PROVE  SessionRow(s)'
    <2>1. CASE s = n
      BY <2>1, <1>3, <1>4 DEF SessionRow, Usable
    <2>2. CASE s # n
      <3>1. SessionRow(s) /\ authSessions'[s] = authSessions[s]
        BY <2>2, <1>4 DEF SessionsInv
      <3>2. \A c \in CodeId : authSessions[s].by = <<"code", c>> => codes'[c].state = "used"
        BY <3>1 DEF SessionRow, CodesStay
      <3>3. \A f \in Flow : authSessions[s].by = <<"flow", f>> => flows'[f].at = "over"
        BY <3>1 DEF SessionRow, FlowsStay
      <3> QED BY <3>1, <3>2, <3>3 DEF SessionRow, Usable
    <2> QED BY <2>1, <2>2
  <1>6. OneSessionPerSecret'
    <2> SUFFICES ASSUME NEW a \in SessionId, NEW b \in SessionId, a # b, authSessions'[a].by = authSessions'[b].by
                 PROVE  authSessions'[a].by[1] \in {"nothing", "password"}
      BY DEF OneSessionPerSecret
    <2>1. CASE a # n /\ b # n
      BY <2>1, <1>4 DEF SessionsInv, OneSessionPerSecret
    <2>2. CASE a = n \/ b = n
      BY <2>2, <1>3, <1>4
    <2> QED BY <2>1, <2>2
  <1> QED BY <1>3, <1>4, <1>5, <1>6 DEF SessionsInv

(* One account changes. *)
LEMMA AccountGets ==
    ASSUME AccountsInv, NEW e \in Email, accounts' \in [Email -> AccountRow],
           \A x \in Email : x # e => accounts'[x] = accounts[x],
           accounts'[e].status # "none", registering' \subseteq Email,
           \A x \in registering' : x # e => x \in registering,
           e \in registering' => accounts'[e].password = 0
    PROVE  AccountsInv' /\ AccountsStay
  BY DEF AccountsInv, AccountsStay

-----------------------------------------------------------------------------
(* The steps *)

SessionsFromFlows ==
    \A s \in SessionId, f \in Flow :
        authSessions'[s].by = <<"flow", f>> /\ authSessions[s].status = "none" =>
            identities'[flows[f].subject] = authSessions'[s].of

IdentitiesByOwners ==
    \A x \in Subject : identities'[x] # identities[x] =>
        \/ identities'[x] # NoOne /\ accounts[identities'[x]].status = "none"
        \/ \E f \in Flow : /\ flows[f].subject = x /\ flows[f].at = "claimed"
                           /\ flows[f].session \in ActiveSessions(identities'[x])
        \/ identities'[x] = NoOne /\ ActiveSessions(identities[x]) # {}

GoodAccountStep == AccountInv' /\ SessionsFromFlows /\ IdentitiesByOwners

LEMMA NoNewSession ==
    ASSUME SessionsInv, \A s \in SessionId : authSessions'[s].by = authSessions[s].by
    PROVE  SessionsFromFlows
  BY DEF SessionsInv, SessionRow, SessionsFromFlows

LEMMA RegisterIsGood ==
    ASSUME AccountAssumption, AccountInv, NEW e \in Email, Register(e)
    PROVE  GoodAccountStep
  <1> DEFINE code == CodeFor(e, "verify")
  <1>1. /\ accounts[e].status = "none" /\ registering' = registering \cup {e} /\ IssueCode(code, {})
        /\ UNCHANGED <<authSessions, identities, flows>> /\ ~accounts[e].verified /\ accounts[e].password = 0
    BY DEF Register, NoAccount
  <1>2. /\ accounts' \in [Email -> AccountRow]
        /\ accounts'[e].status = "pending" /\ ~accounts'[e].verified /\ accounts'[e].password = 0
        /\ \A x \in Email : x # e => accounts'[x] = accounts[x]
    BY <1>1 DEF Register, AccountRow, AccountInv, AccountsInv
  <1>4. code \in CodeRow /\ code.state = "live" /\ code.to = e /\ code.purpose = "verify"
    BY DEF CodeFor, CodeRow
  <1> HIDE DEF code
  <1>5. AccountsInv' /\ AccountsStay
    BY <1>1, <1>2, AccountGets DEF AccountInv, AccountsInv
  <1>6. \A d \in CodeId : ~(Live(d, "verify") /\ codes[d].to = e)
    BY <1>1 DEF AccountInv, CodesInv
  <1>7. CodesInv' /\ CodesStay
    BY <1>1, <1>2, <1>4, <1>6, <1>5, CodeIssued DEF AccountInv
  <1>8. FlowsInv' /\ FlowsStay
    BY <1>1 DEF AccountInv, FlowsInv, FlowsStay
  <1>9. SessionsInv'
    BY <1>1, <1>2, <1>7, <1>8, SessionsUntouched DEF AccountInv
  <1>10. AddressesAreProven'
    BY <1>2, <1>7, <1>8, ProofsStay DEF AccountInv
  <1>11. SessionsFromFlows /\ IdentitiesByOwners
    BY <1>1, NoNewSession DEF AccountInv, IdentitiesByOwners
  <1> QED BY <1>1, <1>5, <1>7, <1>8, <1>9, <1>10, <1>11 DEF AccountInv, GoodAccountStep

LEMMA PasswordIsGood ==
    ASSUME AccountAssumption, AccountInv, NEW e \in Email, SetInitialPassword(e)
    PROVE  GoodAccountStep
  <1>1. /\ e \in registering /\ registering' = registering \ {e}
        /\ UNCHANGED <<codes, authSessions, identities, flows>>
        /\ accounts[e].status # "none" /\ accounts[e].password = 0
    BY DEF SetInitialPassword, AccountInv, AccountsInv
  <1>2. 1 \in 0 .. MaxPasswords
    BY AccountNumbers
  <1>3. /\ accounts' \in [Email -> AccountRow]
        /\ accounts'[e].status = accounts[e].status /\ accounts'[e].verified = accounts[e].verified
        /\ accounts'[e].password = 1
        /\ \A x \in Email : x # e => accounts'[x] = accounts[x]
    BY <1>2 DEF SetInitialPassword, AccountRow, AccountInv, AccountsInv
  <1>5. AccountsInv' /\ AccountsStay
    BY <1>1, <1>3, AccountGets DEF AccountInv, AccountsInv
  <1>6. FlowsInv' /\ FlowsStay /\ CodesInv' /\ CodesStay
    BY <1>1, <1>5 DEF AccountInv, FlowsInv, FlowsStay, CodesInv, CodesStay, AccountsStay, Live
  <1>7. \A s \in SessionId : authSessions'[s].status = "active" =>
               LET now == accounts'[authSessions[s].of] IN
               /\ now.status = "active" /\ now.verified
               /\ authSessions'[s].password = now.password
                    \/ (authSessions'[s].password = 0 /\ now.password = 1)
    <2> SUFFICES ASSUME NEW s \in SessionId, authSessions[s].status = "active"
                 PROVE  /\ accounts'[authSessions[s].of].status = "active"
                        /\ accounts'[authSessions[s].of].verified
                        /\ \/ authSessions[s].password = accounts'[authSessions[s].of].password
                           \/ authSessions[s].password = 0 /\ accounts'[authSessions[s].of].password = 1
      BY <1>1
    <2>1. SessionRow(s)
      BY DEF AccountInv, SessionsInv
    <2> QED BY <2>1, <1>1, <1>3 DEF SessionRow, Usable
  <1>8. SessionsInv'
    BY <1>1, <1>6, <1>7, SessionsShrink DEF AccountInv, SessionsInv
  <1>9. AddressesAreProven'
    BY <1>3, <1>6, ProofsStay DEF AccountInv
  <1>10. SessionsFromFlows /\ IdentitiesByOwners
    BY <1>1, NoNewSession DEF AccountInv, IdentitiesByOwners
  <1> QED BY <1>1, <1>5, <1>6, <1>8, <1>9, <1>10 DEF AccountInv, GoodAccountStep

LEMMA CutIsGood ==
    ASSUME AccountInv, NEW e \in Email, RegistrationCut(e)
    PROVE  GoodAccountStep
  <1>1. /\ registering' = registering \ {e}
        /\ UNCHANGED <<accounts, codes, authSessions, identities, flows>>
    BY DEF RegistrationCut
  <1>2. AccountsInv' /\ AccountsStay /\ FlowsInv' /\ FlowsStay /\ CodesInv' /\ CodesStay
    BY <1>1 DEF AccountInv, AccountsInv, AccountsStay, FlowsInv, FlowsStay, CodesInv, CodesStay, Live
  <1>3. SessionsInv'
    BY <1>1, <1>2, SessionsUntouched DEF AccountInv
  <1>4. AddressesAreProven'
    BY <1>1, <1>2, ProofsStay DEF AccountInv
  <1>5. SessionsFromFlows /\ IdentitiesByOwners
    BY <1>1, NoNewSession DEF AccountInv, IdentitiesByOwners
  <1> QED BY <1>1, <1>2, <1>3, <1>4, <1>5 DEF AccountInv, GoodAccountStep

(* Steps of the codes alone: a code is issued, or one is void. *)
LEMMA CodesAloneAreGood ==
    ASSUME AccountInv, CodesInv', CodesStay,
           UNCHANGED <<accounts, registering, authSessions, identities, flows>>
    PROVE  GoodAccountStep
  <1>1. AccountsInv' /\ FlowsInv' /\ FlowsStay
    BY DEF AccountInv, AccountsInv, FlowsInv, FlowsStay
  <1>2. SessionsInv'
    BY <1>1, SessionsUntouched DEF AccountInv
  <1>3. AddressesAreProven'
    BY <1>1, ProofsStay DEF AccountInv
  <1>4. SessionsFromFlows /\ IdentitiesByOwners
    BY NoNewSession DEF AccountInv, IdentitiesByOwners
  <1> QED BY <1>1, <1>2, <1>3, <1>4 DEF AccountInv, GoodAccountStep

LEMMA AskingIsGood ==
    ASSUME AccountInv, NEW e \in Email, ReissueVerification(e) \/ RequestLoginCode(e) \/ RequestReset(e)
    PROVE  GoodAccountStep
  <1>1. UNCHANGED <<accounts, registering, authSessions, identities, flows>>
    BY DEF ReissueVerification, RequestLoginCode, RequestReset
  <1>2. AccountsStay
    BY <1>1 DEF AccountsStay
  <1>3. ASSUME NEW p \in {"verify", "login", "reset"}
        PROVE  /\ CodeFor(e, p) \in CodeRow /\ CodeFor(e, p).state = "live"
               /\ CodeFor(e, p).to = e /\ CodeFor(e, p).purpose = p
    BY DEF CodeFor, CodeRow
  <1>4. CASE ReissueVerification(e)
    <2> DEFINE old == {c \in CodeId : Live(c, "verify") /\ codes[c].to = e}
    <2>1. IssueCode(CodeFor(e, "verify"), old) /\ accounts'[e].status # "none"
      BY <1>1, <1>4 DEF ReissueVerification
    <2>2. \A d \in old : codes[d].state = "live"
      BY DEF Live
    <2>3. \A d \in CodeId : Live(d, "verify") /\ codes[d].to = e => d \in old
      OBVIOUS
    <2> HIDE DEF old
    <2>4. CodesInv' /\ CodesStay
      BY <2>1, <2>2, <2>3, <1>2, <1>3, CodeIssued DEF AccountInv
    <2> QED BY <2>4, <1>1, CodesAloneAreGood
  <1>5. CASE RequestLoginCode(e) \/ RequestReset(e)
    <2>1. PICK p \in {"login", "reset"} : IssueCode(CodeFor(e, p), {})
      BY <1>5 DEF RequestLoginCode, RequestReset
    <2>2. CodesInv' /\ CodesStay
      BY <2>1, <1>2, <1>3, CodeIssued DEF AccountInv
    <2> QED BY <2>2, <1>1, CodesAloneAreGood
  <1> QED BY <1>4, <1>5

LEMMA ExpiryIsGood ==
    ASSUME AccountInv, NEW c \in CodeId, CodeExpires(c)
    PROVE  GoodAccountStep
  <1>1. /\ UNCHANGED <<accounts, registering, authSessions, identities, flows>>
        /\ codes[c].state = "live" /\ codes' = [codes EXCEPT ![c].state = "void"]
    BY DEF CodeExpires
  <1>2. AccountsStay
    BY <1>1 DEF AccountsStay
  <1>3. CodesInv' /\ CodesStay
    BY <1>1, <1>2, OneCodeEnds DEF AccountInv
  <1> QED BY <1>1, <1>3, CodesAloneAreGood


LEMMA VerifyIsGood ==
    ASSUME AccountInv, NEW c \in CodeId, VerifyEmail(c)
    PROVE  GoodAccountStep
  <1> DEFINE e == codes[c].to
  <1>1. /\ codes[c].state = "live" /\ codes[c].purpose = "verify"
        /\ accounts[e].status = "pending" /\ ~accounts[e].verified
        /\ accounts' = [accounts EXCEPT ![e].status = "active", ![e].verified = TRUE]
        /\ codes' = [codes EXCEPT ![c].state = "used"]
        /\ UNCHANGED <<registering, authSessions, identities, flows>>
    BY DEF VerifyEmail, Live, Use
  <1>2. e \in Email
    BY <1>1 DEF AccountInv, CodesInv
  <1> HIDE DEF e
  <1>3. /\ accounts' \in [Email -> AccountRow]
        /\ accounts'[e].status = "active" /\ accounts'[e].verified
        /\ accounts'[e].password = accounts[e].password
        /\ \A x \in Email : x # e => accounts'[x] = accounts[x]
    BY <1>1, <1>2 DEF AccountRow, AccountInv, AccountsInv
  <1>7. AccountsInv' /\ AccountsStay
    BY <1>1, <1>2, <1>3, AccountGets DEF AccountInv, AccountsInv
  <1> USE DEF e
  <1>8. CodesInv' /\ CodesStay /\ codes'[c].state = "used" /\ codes'[c].to = e /\ codes'[c].purpose = "verify"
    BY <1>1, <1>7, OneCodeEnds DEF AccountInv
  <1>9. FlowsInv' /\ FlowsStay
    BY <1>1 DEF AccountInv, FlowsInv, FlowsStay
  <1>10. SessionsInv'
    BY <1>1, <1>3, <1>8, <1>9, SessionsUntouched DEF AccountInv
  <1>11. AddressesAreProven'
    <2> SUFFICES ASSUME NEW x \in Email, accounts'[x].verified
                 PROVE  \/ \E d \in CodeId : /\ codes'[d].state = "used" /\ codes'[d].to = x
                                             /\ codes'[d].purpose \in {"verify", "social"}
                        \/ \E f \in Flow : flows'[f].at = "over" /\ flows'[f].verified /\ flows'[f].email = x
      BY DEF AddressesAreProven
    <2>1. CASE x = e
      BY <2>1, <1>8
    <2>2. CASE x # e
      BY <2>2, <1>3, <1>8, <1>9 DEF AccountInv, AddressesAreProven, CodesStay, FlowsStay
    <2> QED BY <2>1, <2>2
  <1>12. SessionsFromFlows /\ IdentitiesByOwners
    BY <1>1, NoNewSession DEF AccountInv, IdentitiesByOwners
  <1> QED BY <1>1, <1>7, <1>8, <1>9, <1>10, <1>11, <1>12 DEF AccountInv, GoodAccountStep

(* Steps of the sessions, with those of the codes that open one. *)
LEMMA SessionsAloneAreGood ==
    ASSUME AccountInv, SessionsInv', CodesInv', CodesStay, SessionsFromFlows,
           UNCHANGED <<accounts, registering, identities, flows>>
    PROVE  GoodAccountStep
  <1>1. AccountsInv' /\ FlowsInv' /\ FlowsStay
    BY DEF AccountInv, AccountsInv, FlowsInv, FlowsStay
  <1>2. AddressesAreProven'
    BY <1>1, ProofsStay DEF AccountInv
  <1>3. IdentitiesByOwners
    BY DEF IdentitiesByOwners
  <1> QED BY <1>1, <1>2, <1>3 DEF AccountInv, GoodAccountStep

LEMMA LoginIsGood ==
    ASSUME AccountAssumption, AccountInv, NEW e \in Email, LoginPassword(e)
    PROVE  GoodAccountStep
  <1> DEFINE p == accounts[e].password
             by == <<"password", 0>>
  <1>1. /\ accounts[e].status = "active" /\ accounts[e].verified /\ OpenSession(e, by, p)
        /\ UNCHANGED <<accounts, registering, codes, identities, flows>>
    BY DEF LoginPassword, Usable
  <1>2. p \in 0 .. MaxPasswords
    BY DEF AccountInv, AccountsInv, AccountRow
  <1>3. by \in Secret /\ by[1] = "password" /\ (\A c : by # <<"code", c>>) /\ \A f : by # <<"flow", f>>
    BY DEF Secret
  <1>4. CodesInv' /\ CodesStay /\ FlowsStay
    BY <1>1 DEF AccountInv, CodesInv, CodesStay, FlowsStay, Live
  <1> HIDE DEF by, p
  <1>5. accounts'[e].password = p
    BY <1>1 DEF p
  <1>6. /\ SessionsInv'
        /\ \A s \in SessionId : authSessions[s].status = "none" /\ authSessions'[s].by # authSessions[s].by =>
              authSessions'[s].by = by /\ authSessions'[s].of = e
    BY <1>1, <1>2, <1>3, <1>4, <1>5, SessionOpened DEF AccountInv
  <1>7. SessionsFromFlows
    BY <1>3, <1>6 DEF SessionsFromFlows, AccountInv, SessionsInv, SessionRow
  <1> QED BY <1>1, <1>4, <1>6, <1>7, SessionsAloneAreGood

LEMMA ConsumeIsGood ==
    ASSUME AccountAssumption, AccountInv, NEW c \in CodeId, ConsumeLoginCode(c)
    PROVE  GoodAccountStep
  <1> DEFINE e == codes[c].to
             p == accounts[e].password
             by == <<"code", c>>
  <1>1. /\ accounts[e].status = "active" /\ accounts[e].verified /\ OpenSession(e, by, p)
        /\ UNCHANGED <<accounts, registering, identities, flows>>
        /\ codes[c].state = "live" /\ codes' = [codes EXCEPT ![c].state = "used"]
    BY DEF ConsumeLoginCode, Usable, Live, Use
  <1>2. e \in Email
    BY <1>1 DEF AccountInv, CodesInv
  <1>3. p \in 0 .. MaxPasswords
    BY <1>2 DEF AccountInv, AccountsInv, AccountRow
  <1>4. by \in Secret /\ by[1] = "code" /\ (\A d : by = <<"code", d>> => d = c) /\ \A f : by # <<"flow", f>>
    BY DEF Secret
  <1>5. AccountsStay /\ FlowsStay
    BY <1>1 DEF AccountsStay, FlowsStay
  <1>6. CodesInv' /\ CodesStay /\ codes'[c].state = "used"
    BY <1>1, <1>5, OneCodeEnds DEF AccountInv
  <1>7. \A s \in SessionId : authSessions[s].by # by
    BY <1>1 DEF AccountInv, SessionsInv, SessionRow
  <1>8. accounts'[e].password = p
    BY <1>1
  <1> HIDE DEF by, p, e
  <1>9. /\ SessionsInv'
        /\ \A s \in SessionId : authSessions[s].status = "none" /\ authSessions'[s].by # authSessions[s].by =>
              authSessions'[s].by = by /\ authSessions'[s].of = e
    BY <1>1, <1>2, <1>3, <1>4, <1>5, <1>6, <1>7, <1>8, SessionOpened DEF AccountInv
  <1>10. SessionsFromFlows
    BY <1>4, <1>9 DEF SessionsFromFlows, AccountInv, SessionsInv, SessionRow
  <1> QED BY <1>1, <1>6, <1>9, <1>10, SessionsAloneAreGood


(* The password of an account grows by one. *)
LEMMA PasswordGrows ==
    ASSUME AccountAssumption, AccountInv, NEW e \in Email, accounts[e].password \in 1 .. MaxPasswords - 1,
           accounts' = [accounts EXCEPT ![e].password = @ + 1], registering' = registering,
           accounts[e].status # "none"
    PROVE  /\ AccountsInv' /\ AccountsStay /\ \A x \in Email : x # e => accounts'[x] = accounts[x]
           /\ accounts'[e].status = accounts[e].status /\ accounts'[e].verified = accounts[e].verified
           /\ accounts'[e].password = accounts[e].password + 1
           /\ accounts'[e].password \in 0 .. MaxPasswords
  <1>1. accounts[e].password + 1 \in 0 .. MaxPasswords /\ e \notin registering
    BY AccountNumbers DEF AccountInv, AccountsInv
  <1>2. /\ accounts' \in [Email -> AccountRow]
        /\ accounts'[e].status = accounts[e].status /\ accounts'[e].verified = accounts[e].verified
        /\ accounts'[e].password = accounts[e].password + 1
        /\ \A x \in Email : x # e => accounts'[x] = accounts[x]
    BY <1>1 DEF AccountRow, AccountInv, AccountsInv
  <1>3. AccountsInv' /\ AccountsStay
    BY <1>1, <1>2, AccountGets DEF AccountInv, AccountsInv
  <1> QED BY <1>1, <1>2, <1>3

LEMMA ResetIsGood ==
    ASSUME AccountAssumption, AccountInv, NEW c \in CodeId, ResetPassword(c)
    PROVE  GoodAccountStep
  <1> DEFINE e == codes[c].to
  <1>1. /\ codes[c].state = "live" /\ codes' = [codes EXCEPT ![c].state = "used"]
        /\ accounts[e].password \in 1 .. MaxPasswords - 1
        /\ accounts' = [accounts EXCEPT ![e].password = @ + 1]
        /\ authSessions' = Revoke(ActiveSessions(e))
        /\ UNCHANGED <<registering, identities, flows>>
    BY DEF ResetPassword, Live, Use
  <1>2. e \in Email
    BY <1>1 DEF AccountInv, CodesInv
  <1>3. accounts[e].status # "none"
    BY <1>1, <1>2, AccountNumbers DEF AccountInv, AccountsInv
  <1> HIDE DEF e
  <1>4. /\ AccountsInv' /\ AccountsStay /\ \A x \in Email : x # e => accounts'[x] = accounts[x]
        /\ accounts'[e].verified = accounts[e].verified
    BY <1>1, <1>2, <1>3, PasswordGrows
  <1>5. CodesInv' /\ CodesStay
    BY <1>1, <1>4, OneCodeEnds DEF AccountInv
  <1>6. FlowsInv' /\ FlowsStay
    BY <1>1 DEF AccountInv, FlowsInv, FlowsStay
  <1>7. ActiveSessions(e) \subseteq {s \in SessionId : authSessions[s].status = "active"}
    BY DEF ActiveSessions
  <1>9. SessionsInv' /\ \A s \in SessionId : authSessions'[s].by = authSessions[s].by
    BY <1>1, <1>2, <1>4, <1>5, <1>6, <1>7, SessionsRevoked DEF AccountInv
  <1>8. AddressesAreProven'
    BY <1>4, <1>5, <1>6, ProofsStay DEF AccountInv
  <1>10. SessionsFromFlows /\ IdentitiesByOwners
    BY <1>1, <1>9, NoNewSession DEF AccountInv, IdentitiesByOwners
  <1> QED BY <1>1, <1>4, <1>5, <1>6, <1>8, <1>9, <1>10 DEF AccountInv, GoodAccountStep

LEMMA ChangeIsGood ==
    ASSUME AccountAssumption, AccountInv, NEW s \in SessionId, ChangePassword(s)
    PROVE  GoodAccountStep
  <1> DEFINE e == authSessions[s].of
             R == Revoke(ActiveSessions(e) \ {s})
  <1>1. /\ authSessions[s].status = "active" /\ accounts[e].password \in 1 .. MaxPasswords - 1
        /\ accounts' = [accounts EXCEPT ![e].password = @ + 1]
        /\ authSessions' = [R EXCEPT ![s].password = accounts[e].password + 1]
        /\ UNCHANGED <<registering, codes, identities, flows>>
    BY DEF ChangePassword, Current
  <1>2. SessionRow(s)
    BY DEF AccountInv, SessionsInv
  <1>3. e \in Email /\ accounts[e].status = "active" /\ accounts[e].verified
    BY <1>1, <1>2 DEF SessionRow, Usable
  <1>4. /\ AccountsInv' /\ AccountsStay /\ \A x \in Email : x # e => accounts'[x] = accounts[x]
        /\ accounts'[e].status = "active" /\ accounts'[e].verified
        /\ accounts'[e].password = accounts[e].password + 1
        /\ accounts'[e].password \in 0 .. MaxPasswords
    BY <1>1, <1>3, PasswordGrows
  <1>5. CodesInv' /\ CodesStay /\ FlowsInv' /\ FlowsStay
    BY <1>1, <1>4 DEF AccountInv, CodesInv, CodesStay, FlowsInv, FlowsStay, AccountsStay, Live
  <1>6. /\ R \in [SessionId -> AccountSession]
        /\ \A x \in SessionId :
             /\ R[x].by = authSessions[x].by /\ R[x].of = authSessions[x].of
             /\ R[x].password = authSessions[x].password
             /\ R[x].status = "none" <=> authSessions[x].status = "none"
             /\ R[x].status = "active" =>
                  authSessions[x].status = "active" /\ (authSessions[x].of # e \/ x = s)
    <2>1. ASSUME NEW x \in SessionId
          PROVE  /\ R[x] \in AccountSession
                 /\ R[x].by = authSessions[x].by /\ R[x].of = authSessions[x].of
                 /\ R[x].password = authSessions[x].password
                 /\ R[x].status = "none" <=> authSessions[x].status = "none"
                 /\ R[x].status = "active" =>
                      authSessions[x].status = "active" /\ (authSessions[x].of # e \/ x = s)
      <3>1. authSessions[x] \in AccountSession
        BY DEF AccountInv, SessionsInv
      <3> QED BY <3>1 DEF Revoke, ActiveSessions, AccountSession
    <2> QED BY <2>1 DEF Revoke
  <1> HIDE DEF R
  <1>7. /\ authSessions' \in [SessionId -> AccountSession]
        /\ \A x \in SessionId : x # s => authSessions'[x] = R[x]
        /\ authSessions'[s].by = R[s].by /\ authSessions'[s].of = R[s].of /\ authSessions'[s].status = R[s].status
        /\ authSessions'[s].password = accounts'[e].password
    BY <1>1, <1>4, <1>6 DEF AccountSession
  <1>8. \A x \in SessionId :
             /\ authSessions'[x].by = authSessions[x].by /\ authSessions'[x].of = authSessions[x].of
             /\ authSessions'[x].status = "none" <=> authSessions[x].status = "none"
    BY <1>6, <1>7
  <1>9. \A x \in SessionId : authSessions'[x].status = "active" =>
               LET now == accounts'[authSessions[x].of] IN
               /\ now.status = "active" /\ now.verified
               /\ authSessions'[x].password = now.password
                    \/ (authSessions'[x].password = 0 /\ now.password = 1)
    <2> SUFFICES ASSUME NEW x \in SessionId, authSessions'[x].status = "active"
                 PROVE  /\ accounts'[authSessions[x].of].status = "active"
                        /\ accounts'[authSessions[x].of].verified
                        /\ \/ authSessions'[x].password = accounts'[authSessions[x].of].password
                           \/ authSessions'[x].password = 0 /\ accounts'[authSessions[x].of].password = 1
      OBVIOUS
    <2>1. CASE x = s
      BY <2>1, <1>4, <1>7
    <2>2. CASE x # s
      <3>1. /\ authSessions[x].status = "active" /\ authSessions[x].of # e
            /\ authSessions'[x].password = authSessions[x].password
        BY <2>2, <1>6, <1>7
      <3>2. SessionRow(x)
        BY DEF AccountInv, SessionsInv
      <3> QED BY <3>1, <3>2, <1>4 DEF SessionRow, Usable
    <2> QED BY <2>1, <2>2
  <1>10. SessionsInv'
    BY <1>5, <1>7, <1>8, <1>9, SessionsShrink DEF AccountInv
  <1>11. AddressesAreProven'
    BY <1>3, <1>4, <1>5, ProofsStay DEF AccountInv
  <1>12. SessionsFromFlows /\ IdentitiesByOwners
    BY <1>1, <1>8, NoNewSession DEF AccountInv, IdentitiesByOwners
  <1> QED BY <1>1, <1>4, <1>5, <1>10, <1>11, <1>12 DEF AccountInv, GoodAccountStep


LEMMA RevokeIsGood ==
    ASSUME AccountInv, NEW s \in SessionId, NEW target \in SessionId, RevokeSession(s, target)
    PROVE  GoodAccountStep
  <1>1. /\ authSessions[target].status = "active" /\ authSessions' = Revoke({target})
        /\ UNCHANGED <<accounts, registering, codes, identities, flows>>
    BY DEF RevokeSession, ActiveSessions
  <1>2. authSessions[target].of \in Email /\ {target} \subseteq {x \in SessionId : authSessions[x].status = "active"}
    BY <1>1 DEF AccountInv, SessionsInv, SessionRow
  <1>3. CodesInv' /\ CodesStay /\ FlowsStay
    BY <1>1 DEF AccountInv, CodesInv, CodesStay, FlowsStay, Live
  <1>4. SessionsInv' /\ \A x \in SessionId : authSessions'[x].by = authSessions[x].by
    BY <1>1, <1>2, <1>3, SessionsRevoked DEF AccountInv
  <1>5. SessionsFromFlows
    BY <1>4, NoNewSession DEF AccountInv
  <1> QED BY <1>1, <1>3, <1>4, <1>5, SessionsAloneAreGood

LEMMA EndIsGood ==
    ASSUME AccountInv, NEW s \in SessionId, SessionEnds(s)
    PROVE  GoodAccountStep
  <1>1. /\ authSessions[s].status = "active" /\ authSessions' = [authSessions EXCEPT ![s].status = "over"]
        /\ UNCHANGED <<accounts, registering, codes, identities, flows>>
    BY DEF SessionEnds, Current
  <1>2. /\ authSessions' \in [SessionId -> AccountSession]
        /\ authSessions'[s].by = authSessions[s].by /\ authSessions'[s].of = authSessions[s].of
        /\ authSessions'[s].status = "over"
        /\ \A x \in SessionId : x # s => authSessions'[x] = authSessions[x]
    BY <1>1 DEF AccountInv, SessionsInv, AccountSession
  <1>3. CodesInv' /\ CodesStay /\ FlowsStay
    BY <1>1 DEF AccountInv, CodesInv, CodesStay, FlowsStay, Live
  <1>4. \A x \in SessionId :
            /\ authSessions'[x].by = authSessions[x].by /\ authSessions'[x].of = authSessions[x].of
            /\ authSessions'[x].status = "none" <=> authSessions[x].status = "none"
    BY <1>1, <1>2
  <1>5. \A x \in SessionId : authSessions'[x].status = "active" =>
               LET now == accounts'[authSessions[x].of] IN
               /\ now.status = "active" /\ now.verified
               /\ authSessions'[x].password = now.password
                    \/ (authSessions'[x].password = 0 /\ now.password = 1)
    BY <1>1, <1>2 DEF AccountInv, SessionsInv, SessionRow, Usable
  <1>6. SessionsInv'
    BY <1>2, <1>3, <1>4, <1>5, SessionsShrink DEF AccountInv
  <1>7. SessionsFromFlows
    BY <1>4, NoNewSession DEF AccountInv
  <1> QED BY <1>1, <1>3, <1>6, <1>7, SessionsAloneAreGood

LEMMA SuspendIsGood ==
    ASSUME AccountInv, NEW e \in Email, SuspendUser(e)
    PROVE  GoodAccountStep
  <1>1. /\ accounts[e].status # "none" /\ accounts' = [accounts EXCEPT ![e].status = "disabled"]
        /\ authSessions' = Revoke(ActiveSessions(e))
        /\ UNCHANGED <<registering, codes, identities, flows>>
    BY DEF SuspendUser
  <1>2. /\ accounts' \in [Email -> AccountRow] /\ accounts'[e].status = "disabled"
        /\ accounts'[e].verified = accounts[e].verified /\ accounts'[e].password = accounts[e].password
        /\ \A x \in Email : x # e => accounts'[x] = accounts[x]
    BY <1>1 DEF AccountRow, AccountInv, AccountsInv
  <1>3. AccountsInv' /\ AccountsStay
    BY <1>1, <1>2, AccountGets DEF AccountInv, AccountsInv
  <1>4. CodesInv' /\ CodesStay /\ FlowsInv' /\ FlowsStay
    BY <1>1, <1>3 DEF AccountInv, CodesInv, CodesStay, FlowsInv, FlowsStay, AccountsStay, Live
  <1>5. ActiveSessions(e) \subseteq {s \in SessionId : authSessions[s].status = "active"}
    BY DEF ActiveSessions
  <1>6. SessionsInv' /\ \A s \in SessionId : authSessions'[s].by = authSessions[s].by
    BY <1>1, <1>2, <1>4, <1>5, SessionsRevoked DEF AccountInv
  <1>7. AddressesAreProven'
    BY <1>2, <1>4, ProofsStay DEF AccountInv
  <1>8. SessionsFromFlows /\ IdentitiesByOwners
    BY <1>1, <1>6, NoNewSession DEF AccountInv, IdentitiesByOwners
  <1> QED BY <1>1, <1>3, <1>4, <1>6, <1>7, <1>8 DEF AccountInv, GoodAccountStep

LEMMA RestoreIsGood ==
    ASSUME AccountInv, NEW e \in Email, RestoreUser(e)
    PROVE  GoodAccountStep
  <1>1. PICK st \in {"active", "pending"} :
           /\ accounts[e].status = "disabled" /\ accounts' = [accounts EXCEPT ![e].status = st]
           /\ UNCHANGED <<registering, codes, authSessions, identities, flows>>
    BY DEF RestoreUser
  <1>2. /\ accounts' \in [Email -> AccountRow] /\ accounts'[e].status = st
        /\ accounts'[e].verified = accounts[e].verified /\ accounts'[e].password = accounts[e].password
        /\ \A x \in Email : x # e => accounts'[x] = accounts[x]
    BY <1>1 DEF AccountRow, AccountInv, AccountsInv
  <1>3. AccountsInv' /\ AccountsStay
    BY <1>1, <1>2, AccountGets DEF AccountInv, AccountsInv
  <1>4. CodesInv' /\ CodesStay /\ FlowsInv' /\ FlowsStay
    BY <1>1, <1>3 DEF AccountInv, CodesInv, CodesStay, FlowsInv, FlowsStay, AccountsStay, Live
  <1>5. SessionsInv'
    BY <1>1, <1>2, <1>4, SessionsUntouched DEF AccountInv
  <1>6. AddressesAreProven'
    BY <1>2, <1>4, ProofsStay DEF AccountInv
  <1>7. SessionsFromFlows /\ IdentitiesByOwners
    BY <1>1, NoNewSession DEF AccountInv, IdentitiesByOwners
  <1> QED BY <1>1, <1>3, <1>4, <1>5, <1>6, <1>7 DEF AccountInv, GoodAccountStep

-----------------------------------------------------------------------------
(* The steps of a sign-in through the provider *)

(* A step of one flow that leaves the rest alone. *)
LEMMA FlowAloneIsGood ==
    ASSUME AccountInv, FlowsInv', FlowsStay,
           UNCHANGED <<accounts, registering, codes, authSessions, identities>>
    PROVE  GoodAccountStep
  <1>1. AccountsInv' /\ CodesInv' /\ CodesStay
    BY DEF AccountInv, AccountsInv, CodesInv, CodesStay, Live
  <1>2. SessionsInv'
    BY <1>1, SessionsUntouched DEF AccountInv
  <1>3. AddressesAreProven'
    BY <1>1, ProofsStay DEF AccountInv
  <1>4. SessionsFromFlows /\ IdentitiesByOwners
    BY NoNewSession DEF AccountInv, IdentitiesByOwners
  <1> QED BY <1>1, <1>2, <1>3, <1>4 DEF AccountInv, GoodAccountStep

LEMMA StartIsGood ==
    ASSUME AccountInv, NEW f \in Flow, NEW flow \in FlowRow, flow.at = "started", StartFlow(f, flow)
    PROVE  GoodAccountStep
  <1>1. /\ flows[f].at = "none" /\ flows' = [flows EXCEPT ![f] = flow]
        /\ UNCHANGED <<accounts, registering, codes, authSessions, identities>>
    BY DEF StartFlow
  <1>2. /\ flows' \in [Flow -> FlowRow] /\ FlowIsSound(flows'[f])
        /\ \A g \in Flow : g # f => flows'[g] = flows[g]
    BY <1>1 DEF AccountInv, FlowsInv, FlowIsSound
  <1>3. FlowsInv' /\ FlowsStay
    BY <1>1, <1>2, FlowMoves DEF AccountInv
  <1> QED BY <1>1, <1>3, FlowAloneIsGood

LEMMA StartedFlows ==
    ASSUME AccountAssumption
    PROVE  /\ \A s \in SessionId : StartedBy(s) \in FlowRow /\ StartedBy(s).at = "started"
           /\ \A intent \in {"login", "register"} :
                /\ [NoFlow EXCEPT !.at = "started", !.intent = intent] \in FlowRow
                /\ [NoFlow EXCEPT !.at = "started", !.intent = intent].at = "started"
  <1>1. NoFlow \in FlowRow
    BY AccountNumbers DEF NoFlow, FlowRow
  <1>2. \A s \in SessionId : s \in 0 .. MaxSessions
    BY AccountNumbers DEF SessionId
  <1> QED BY <1>1, <1>2 DEF StartedBy, FlowRow

(* What keeps the type of the flows, one field at a time. *)
LEMMA FlowFields ==
    ASSUME NEW fl \in [Flow -> FlowRow], NEW f \in Flow
    PROVE  /\ \A a \in {"claimed", "handed", "social", "over"} : [fl EXCEPT ![f].at = a] \in [Flow -> FlowRow]
           /\ \A x \in Subject : [fl EXCEPT ![f].subject = x] \in [Flow -> FlowRow]
           /\ \A e \in Email \cup {NoOne} : [fl EXCEPT ![f].email = e] \in [Flow -> FlowRow]
           /\ \A v \in BOOLEAN : [fl EXCEPT ![f].verified = v] \in [Flow -> FlowRow]
           /\ \A e \in Email \cup {NoOne} : [fl EXCEPT ![f].bound = e] \in [Flow -> FlowRow]
  <1>1. ASSUME NEW a \in {"claimed", "handed", "social", "over"}
        PROVE  [fl EXCEPT ![f].at = a] \in [Flow -> FlowRow]
    BY DEF FlowRow
  <1>2. ASSUME NEW x \in Subject
        PROVE  [fl EXCEPT ![f].subject = x] \in [Flow -> FlowRow]
    BY DEF FlowRow
  <1>3. ASSUME NEW e \in Email \cup {NoOne}
        PROVE  /\ [fl EXCEPT ![f].email = e] \in [Flow -> FlowRow]
               /\ [fl EXCEPT ![f].bound = e] \in [Flow -> FlowRow]
    BY DEF FlowRow
  <1>4. ASSUME NEW v \in BOOLEAN
        PROVE  [fl EXCEPT ![f].verified = v] \in [Flow -> FlowRow]
    BY DEF FlowRow
  <1> QED BY <1>1, <1>2, <1>3, <1>4

LEMMA CallbackIsGood ==
    ASSUME AccountInv, NEW f \in Flow, NEW x \in Subject, NEW e \in Email \cup {NoOne}, NEW v \in BOOLEAN,
           Callback(f, x, e, v)
    PROVE  GoodAccountStep
  <1>1. /\ flows[f].at = "started"
        /\ flows' = [flows EXCEPT ![f].at = "claimed", ![f].subject = x, ![f].email = e, ![f].verified = v]
        /\ UNCHANGED <<accounts, registering, codes, authSessions, identities>>
    BY DEF Callback
  <1> DEFINE f1 == [flows EXCEPT ![f].at = "claimed"]
             f2 == [f1 EXCEPT ![f].subject = x]
             f3 == [f2 EXCEPT ![f].email = e]
             f4 == [f3 EXCEPT ![f].verified = v]
  <1>2. flows' \in [Flow -> FlowRow]
    <2>1. f1 \in [Flow -> FlowRow]
      BY FlowFields DEF AccountInv, FlowsInv
    <2>2. f2 \in [Flow -> FlowRow]
      BY <2>1, FlowFields
    <2>3. f3 \in [Flow -> FlowRow]
      BY <2>2, FlowFields
    <2>4. f4 \in [Flow -> FlowRow]
      BY <2>3, FlowFields
    <2>5. flows' = f4
      BY <1>1
    <2> QED BY <2>4, <2>5
  <1>3. /\ flows'[f].at = "claimed" /\ flows'[f].subject = x
        /\ \A g \in Flow : g # f => flows'[g] = flows[g]
    <2>1. \A g \in Flow : g # f => flows'[g] = flows[g]
      BY <1>1 DEF AccountInv, FlowsInv
    <2>2. flows[f] \in FlowRow /\ flows \in [Flow -> FlowRow]
      BY DEF AccountInv, FlowsInv
    <2>3. flows'[f] = [flows[f] EXCEPT !.at = "claimed", !.subject = x, !.email = e, !.verified = v]
      BY <1>1, <2>2
    <2>4. flows'[f].at = "claimed" /\ flows'[f].subject = x
      BY <2>2, <2>3 DEF FlowRow
    <2> QED BY <2>1, <2>4
  <1>4. FlowsInv' /\ FlowsStay
    BY <1>1, <1>2, <1>3, FlowMoves DEF AccountInv, FlowIsSound
  <1> QED BY <1>1, <1>4, FlowAloneIsGood

LEMMA FlowEndIsGood ==
    ASSUME AccountInv, NEW f \in Flow, FlowEnds(f)
    PROVE  GoodAccountStep
  <1>1. /\ flows[f].at # "over" /\ flows' = [flows EXCEPT ![f].at = "over"]
        /\ UNCHANGED <<accounts, registering, codes, authSessions, identities>>
    BY DEF FlowEnds
  <1>2. /\ flows' \in [Flow -> FlowRow] /\ flows'[f].at = "over"
        /\ \A g \in Flow : g # f => flows'[g] = flows[g]
    BY <1>1 DEF AccountInv, FlowsInv, FlowRow
  <1>3. FlowsInv' /\ FlowsStay
    BY <1>1, <1>2, FlowMoves DEF AccountInv, FlowIsSound
  <1> QED BY <1>1, <1>3, FlowAloneIsGood

LEMMA HandoffIsGood ==
    ASSUME AccountInv, NEW f \in Flow, CreateBrowserHandoff(f)
    PROVE  GoodAccountStep
  <1> DEFINE owner == identities[flows[f].subject]
             proven == flows[f].verified /\ flows[f].email # NoOne
  <1>1. /\ flows[f].at = "claimed"
        /\ UNCHANGED <<accounts, registering, codes, authSessions, identities>>
        /\ \/ flows' = [flows EXCEPT ![f].at = "over"]
           \/ flows' = [flows EXCEPT ![f].at = "handed", ![f].bound = owner, ![f].verified = proven]
    BY DEF CreateBrowserHandoff
  <1>2. flows[f].subject \in Subject /\ flows[f] \in FlowRow
    BY <1>1 DEF AccountInv, FlowsInv, FlowIsSound
  <1>3. owner \in Email \cup {NoOne} /\ proven \in BOOLEAN /\ (proven => flows[f].email # NoOne)
    BY <1>2 DEF AccountInv
  <1> HIDE DEF owner, proven
  <1>4. /\ flows' \in [Flow -> FlowRow] /\ FlowIsSound(flows'[f])
        /\ \A g \in Flow : g # f => flows'[g] = flows[g]
    <2>1. CASE flows' = [flows EXCEPT ![f].at = "over"]
      <3>1. flows' \in [Flow -> FlowRow] /\ flows'[f].at = "over"
        BY <2>1 DEF AccountInv, FlowsInv, FlowRow
      <3> QED BY <2>1, <3>1 DEF FlowIsSound, AccountInv, FlowsInv
    <2>2. CASE flows' = [flows EXCEPT ![f].at = "handed", ![f].bound = owner, ![f].verified = proven]
      <3>1. flows' \in [Flow -> FlowRow]
        <4> DEFINE f1 == [flows EXCEPT ![f].at = "handed"]
                   f2 == [f1 EXCEPT ![f].bound = owner]
                   f3 == [f2 EXCEPT ![f].verified = proven]
        <4>1. f1 \in [Flow -> FlowRow]
          BY FlowFields DEF AccountInv, FlowsInv
        <4>2. f2 \in [Flow -> FlowRow]
          BY <4>1, <1>3, FlowFields
        <4>3. f3 \in [Flow -> FlowRow]
          BY <4>2, <1>3, FlowFields
        <4>4. flows' = f3
          BY <2>2
        <4> QED BY <4>3, <4>4
      <3>2. /\ flows'[f].at = "handed" /\ flows'[f].verified = proven
            /\ flows'[f].subject = flows[f].subject /\ flows'[f].email = flows[f].email
            /\ \A g \in Flow : g # f => flows'[g] = flows[g]
        BY <2>2, <1>2 DEF AccountInv, FlowsInv, FlowRow
      <3> QED BY <3>1, <3>2, <1>2, <1>3 DEF FlowIsSound
    <2> QED BY <1>1, <2>1, <2>2
  <1>5. FlowsInv' /\ FlowsStay
    BY <1>1, <1>4, FlowMoves DEF AccountInv
  <1> QED BY <1>1, <1>5, FlowAloneIsGood


(* A flow opens its session: one step of the sessions, with those of the account. *)
LEMMA FlowOpens ==
    ASSUME AccountInv, CodesStay, FlowsStay, NEW f \in Flow, NEW e \in Email, NEW p \in 0 .. MaxPasswords,
           OpenSession(e, <<"flow", f>>, p), flows[f].at # "over", flows'[f].at = "over",
           \A x \in Email : accounts[x].status = "active" /\ accounts[x].verified => accounts'[x] = accounts[x],
           accounts'[e].status = "active", accounts'[e].verified, accounts'[e].password = p,
           identities'[flows[f].subject] = e
    PROVE  SessionsInv' /\ SessionsFromFlows
  <1> DEFINE by == <<"flow", f>>
  <1>1. by \in Secret /\ by[1] = "flow" /\ (\A d : by # <<"code", d>>) /\ \A g : by = <<"flow", g>> => g = f
    BY DEF Secret
  <1>2. \A s \in SessionId : authSessions[s].by # by
    BY DEF AccountInv, SessionsInv, SessionRow
  <1>3. OpenSession(e, by, p)
    OBVIOUS
  <1> HIDE DEF by
  <1>4. /\ SessionsInv'
        /\ \A s \in SessionId : authSessions[s].status = "none" /\ authSessions'[s].by # authSessions[s].by =>
              authSessions'[s].by = by /\ authSessions'[s].of = e
    BY <1>1, <1>2, <1>3, SessionOpened DEF AccountInv
  <1>5. SessionsFromFlows
    BY <1>1, <1>4 DEF SessionsFromFlows, AccountInv, SessionsInv, SessionRow
  <1> QED BY <1>4, <1>5

LEMMA ExchangeIsGood ==
    ASSUME AccountInv, NEW f \in Flow, ExchangeBrowserHandoff(f)
    PROVE  GoodAccountStep
  <1> DEFINE e == flows[f].bound
             p == accounts[e].password
  <1>1. flows[f].at = "handed" /\ UNCHANGED <<accounts, registering, codes, identities>>
    BY DEF ExchangeBrowserHandoff
  <1>2. flows[f] \in FlowRow /\ e \in Email \cup {NoOne}
    BY DEF AccountInv, FlowsInv, FlowRow
  <1>3. CASE e = NoOne
    <2>1. flows' = [flows EXCEPT ![f].at = "social"] /\ authSessions' = authSessions
      BY <1>3 DEF ExchangeBrowserHandoff
    <2>2. /\ flows' \in [Flow -> FlowRow] /\ flows'[f].at = "social"
          /\ flows'[f].subject = flows[f].subject /\ flows'[f].email = flows[f].email
          /\ flows'[f].verified = flows[f].verified
          /\ \A g \in Flow : g # f => flows'[g] = flows[g]
      BY <2>1 DEF AccountInv, FlowsInv, FlowRow
    <2>3. FlowIsSound(flows'[f])
      BY <2>2, <1>1 DEF AccountInv, FlowsInv, FlowIsSound
    <2>4. FlowsInv' /\ FlowsStay
      BY <1>1, <2>2, <2>3, FlowMoves DEF AccountInv
    <2> QED BY <1>1, <2>1, <2>4, FlowAloneIsGood
  <1>4. CASE e # NoOne
    <2>1. /\ identities[flows[f].subject] = e /\ accounts[e].status = "active" /\ accounts[e].verified
          /\ OpenSession(e, <<"flow", f>>, p) /\ flows' = [flows EXCEPT ![f].at = "over"]
      BY <1>4 DEF ExchangeBrowserHandoff, Usable
    <2>2. e \in Email
      BY <1>2, <1>4
    <2>3. p \in 0 .. MaxPasswords
      BY <2>2 DEF AccountInv, AccountsInv, AccountRow
    <2>4. /\ flows' \in [Flow -> FlowRow] /\ flows'[f].at = "over"
          /\ \A g \in Flow : g # f => flows'[g] = flows[g]
      BY <2>1 DEF AccountInv, FlowsInv, FlowRow
    <2>5. FlowsInv' /\ FlowsStay
      BY <1>1, <2>4, FlowMoves DEF AccountInv, FlowIsSound
    <2>6. AccountsInv' /\ CodesInv' /\ CodesStay
      BY <1>1 DEF AccountInv, AccountsInv, CodesInv, CodesStay, Live
    <2>7. accounts'[e].password = p /\ accounts'[e].status = "active" /\ accounts'[e].verified
      BY <1>1, <2>1
    <2> HIDE DEF e, p
    <2>8. SessionsInv' /\ SessionsFromFlows
      BY <1>1, <2>1, <2>2, <2>3, <2>4, <2>5, <2>6, <2>7, FlowOpens
    <2>9. AddressesAreProven'
      BY <1>1, <2>5, <2>6, ProofsStay DEF AccountInv
    <2>10. IdentitiesByOwners
      BY <1>1 DEF IdentitiesByOwners
    <2> QED BY <1>1, <2>5, <2>6, <2>8, <2>9, <2>10 DEF AccountInv, GoodAccountStep
  <1> QED BY <1>3, <1>4

LEMMA EmailIsGood ==
    ASSUME AccountInv, NEW f \in Flow, NEW e \in Email, RequestEmailVerification(f, e)
    PROVE  GoodAccountStep
  <1>1. /\ flows[f].at = "social" /\ IssueCode(SocialCode(e, f), SocialCodes(f))
        /\ flows' = [flows EXCEPT ![f].email = e, ![f].verified = FALSE]
        /\ UNCHANGED <<accounts, registering, authSessions, identities>>
    BY DEF RequestEmailVerification
  <1>2. /\ SocialCode(e, f) \in CodeRow /\ SocialCode(e, f).state = "live"
        /\ SocialCode(e, f).to = e /\ SocialCode(e, f).purpose = "social"
    BY DEF SocialCode, CodeRow
  <1>3. \A d \in SocialCodes(f) : codes[d].state = "live"
    BY DEF SocialCodes, Live
  <1>4. AccountsInv' /\ AccountsStay
    BY <1>1 DEF AccountInv, AccountsInv, AccountsStay
  <1>5. CodesInv' /\ CodesStay
    BY <1>1, <1>2, <1>3, <1>4, CodeIssued DEF AccountInv
  <1>6. /\ flows' \in [Flow -> FlowRow] /\ flows'[f].at = "social" /\ ~flows'[f].verified
        /\ flows'[f].subject = flows[f].subject
        /\ \A g \in Flow : g # f => flows'[g] = flows[g]
    BY <1>1 DEF AccountInv, FlowsInv, FlowRow
  <1>7. FlowIsSound(flows'[f])
    BY <1>1, <1>6 DEF AccountInv, FlowsInv, FlowIsSound
  <1>8. FlowsInv' /\ FlowsStay
    BY <1>1, <1>6, <1>7, FlowMoves DEF AccountInv
  <1>9. SessionsInv'
    BY <1>1, <1>5, <1>8, SessionsUntouched DEF AccountInv
  <1>10. AddressesAreProven'
    BY <1>1, <1>5, <1>8, ProofsStay DEF AccountInv
  <1>11. SessionsFromFlows /\ IdentitiesByOwners
    BY <1>1, NoNewSession DEF AccountInv, IdentitiesByOwners
  <1> QED BY <1>1, <1>4, <1>5, <1>8, <1>9, <1>10, <1>11 DEF AccountInv, GoodAccountStep

(* Registration through the provider proves its address and uses the code, if any. *)
LEMMA AddressProven ==
    ASSUME AccountInv, AccountsStay, NEW f \in Flow, AddressIsProven(f),
           flows[f].at # "over", flows'[f].at = "over", flows'[f].verified = flows[f].verified,
           flows'[f].email = flows[f].email, FlowsStay,
           \A x \in Email : x # flows[f].email => accounts'[x] = accounts[x]
    PROVE  CodesInv' /\ CodesStay /\ AddressesAreProven'
  <1> DEFINE e == flows[f].email
  <1>1. CASE flows[f].verified
    <2>1. codes' = codes
      BY <1>1 DEF AddressIsProven
    <2>2. CodesInv' /\ CodesStay
      BY <2>1 DEF AccountInv, CodesInv, CodesStay, AccountsStay, Live
    <2>3. ASSUME NEW x \in Email, accounts'[x].verified
          PROVE  \/ \E d \in CodeId : /\ codes'[d].state = "used" /\ codes'[d].to = x
                                      /\ codes'[d].purpose \in {"verify", "social"}
                 \/ \E g \in Flow : flows'[g].at = "over" /\ flows'[g].verified /\ flows'[g].email = x
      <3>1. CASE x = e
        BY <3>1, <1>1
      <3>2. CASE x # e
        BY <2>3, <3>2, <2>2 DEF AccountInv, AddressesAreProven, CodesStay, FlowsStay
      <3> QED BY <3>1, <3>2
    <2> QED BY <2>2, <2>3 DEF AddressesAreProven
  <1>2. CASE ~flows[f].verified
    <2>1. PICK c \in CodeId : /\ codes[c].state = "live" /\ codes[c].purpose = "social" /\ codes[c].to = e
                              /\ codes' = [codes EXCEPT ![c].state = "used"]
      BY <1>2 DEF AddressIsProven, SocialCodes, Live, Use
    <2>2. /\ CodesInv' /\ CodesStay
          /\ codes'[c].state = "used" /\ codes'[c].to = e /\ codes'[c].purpose = "social"
      BY <2>1, OneCodeEnds DEF AccountInv
    <2>3. ASSUME NEW x \in Email, accounts'[x].verified
          PROVE  \/ \E d \in CodeId : /\ codes'[d].state = "used" /\ codes'[d].to = x
                                      /\ codes'[d].purpose \in {"verify", "social"}
                 \/ \E g \in Flow : flows'[g].at = "over" /\ flows'[g].verified /\ flows'[g].email = x
      <3>1. CASE x = e
        BY <3>1, <2>2
      <3>2. CASE x # e
        BY <2>3, <3>2, <2>2 DEF AccountInv, AddressesAreProven, CodesStay, FlowsStay
      <3> QED BY <3>1, <3>2
    <2> QED BY <2>2, <2>3 DEF AddressesAreProven
  <1> QED BY <1>1, <1>2

LEMMA CompleteIsGood ==
    ASSUME AccountAssumption, AccountInv, NEW f \in Flow, CompleteSocial(f)
    PROVE  GoodAccountStep
  <1> DEFINE e == flows[f].email
             x == flows[f].subject
  <1>1. /\ flows[f].at = "social" /\ e # NoOne /\ identities[x] = NoOne
        /\ accounts[e].status = "none" /\ AddressIsProven(f)
        /\ accounts' = [accounts EXCEPT ![e].status = "active", ![e].verified = TRUE]
        /\ identities' = [identities EXCEPT ![x] = e]
        /\ OpenSession(e, <<"flow", f>>, 0)
        /\ flows' = [flows EXCEPT ![f].at = "over", ![f].bound = e]
        /\ registering' = registering
    BY DEF CompleteSocial
  <1>2. flows[f] \in FlowRow /\ e \in Email /\ x \in Subject
    BY <1>1 DEF AccountInv, FlowsInv, FlowRow, FlowIsSound
  <1>3. 0 \in 0 .. MaxPasswords
    BY AccountNumbers
  <1>4. flows' \in [Flow -> FlowRow]
    <2> DEFINE f1 == [flows EXCEPT ![f].at = "over"]
               f2 == [f1 EXCEPT ![f].bound = e]
    <2>1. f1 \in [Flow -> FlowRow]
      BY FlowFields DEF AccountInv, FlowsInv
    <2>2. f2 \in [Flow -> FlowRow]
      BY <2>1, <1>2, FlowFields
    <2>3. flows' = f2
      BY <1>1
    <2> QED BY <2>2, <2>3
  <1>5. /\ flows'[f].at = "over" /\ flows'[f].verified = flows[f].verified /\ flows'[f].email = e
        /\ \A g \in Flow : g # f => flows'[g] = flows[g]
    BY <1>1, <1>2 DEF AccountInv, FlowsInv, FlowRow
  <1>6. FlowsInv' /\ FlowsStay
    BY <1>1, <1>4, <1>5, FlowMoves DEF AccountInv, FlowIsSound
  <1>7. identities' \in [Subject -> Email \cup {NoOne}] /\ identities'[x] = e
        /\ \A y \in Subject : y # x => identities'[y] = identities[y]
    BY <1>1, <1>2 DEF AccountInv
  <1>8. IdentitiesByOwners
    BY <1>1, <1>7 DEF IdentitiesByOwners
  <1> HIDE DEF e
  <1>9. /\ accounts' \in [Email -> AccountRow]
        /\ accounts'[e].status = "active" /\ accounts'[e].verified /\ accounts'[e].password = 0
        /\ \A y \in Email : y # e => accounts'[y] = accounts[y]
    BY <1>1, <1>2 DEF AccountRow, AccountInv, AccountsInv
  <1>10. AccountsInv' /\ AccountsStay
    BY <1>1, <1>2, <1>9, AccountGets DEF AccountInv, AccountsInv
  <1>11. CodesInv' /\ CodesStay /\ AddressesAreProven'
    BY <1>1, <1>5, <1>6, <1>9, <1>10, AddressProven DEF e
  <1>12. SessionsInv' /\ SessionsFromFlows
    BY <1>1, <1>2, <1>3, <1>5, <1>6, <1>7, <1>9, <1>11, FlowOpens
  <1> QED BY <1>6, <1>7, <1>8, <1>10, <1>11, <1>12 DEF AccountInv, GoodAccountStep

(* Steps of the identities, with the flow that binds one. *)
LEMMA IdentitiesAloneAreGood ==
    ASSUME AccountInv, FlowsInv', FlowsStay, identities' \in [Subject -> Email \cup {NoOne}],
           IdentitiesByOwners, UNCHANGED <<accounts, registering, codes, authSessions>>
    PROVE  GoodAccountStep
  <1>1. AccountsInv' /\ CodesInv' /\ CodesStay
    BY DEF AccountInv, AccountsInv, CodesInv, CodesStay, Live
  <1>2. SessionsInv'
    BY <1>1, SessionsUntouched DEF AccountInv
  <1>3. AddressesAreProven'
    BY <1>1, ProofsStay DEF AccountInv
  <1>4. SessionsFromFlows
    BY NoNewSession DEF AccountInv
  <1> QED BY <1>1, <1>2, <1>3, <1>4 DEF AccountInv, GoodAccountStep

LEMMA BindIsGood ==
    ASSUME AccountInv, NEW f \in Flow, NEW s \in SessionId, BindConnectedAccount(f, s)
    PROVE  GoodAccountStep
  <1> DEFINE e == authSessions[s].of
             x == flows[f].subject
  <1>1. /\ flows[f].at = "claimed" /\ flows[f].session = s /\ authSessions[s].status = "active"
        /\ identities' = [identities EXCEPT ![x] = e] /\ flows' = [flows EXCEPT ![f].at = "over"]
        /\ UNCHANGED <<accounts, registering, codes, authSessions>>
    BY DEF BindConnectedAccount, Current
  <1>2. x \in Subject /\ e \in Email
    BY <1>1 DEF AccountInv, FlowsInv, FlowIsSound, SessionsInv, SessionRow
  <1>3. /\ flows' \in [Flow -> FlowRow] /\ flows'[f].at = "over"
        /\ \A g \in Flow : g # f => flows'[g] = flows[g]
    BY <1>1 DEF AccountInv, FlowsInv, FlowRow
  <1>4. FlowsInv' /\ FlowsStay
    BY <1>1, <1>3, FlowMoves DEF AccountInv, FlowIsSound
  <1>5. identities' \in [Subject -> Email \cup {NoOne}] /\ identities'[x] = e
        /\ \A y \in Subject : y # x => identities'[y] = identities[y]
    BY <1>1, <1>2 DEF AccountInv
  <1>6. s \in ActiveSessions(e)
    BY <1>1 DEF ActiveSessions
  <1>7. IdentitiesByOwners
    BY <1>1, <1>5, <1>6 DEF IdentitiesByOwners
  <1> QED BY <1>1, <1>4, <1>5, <1>7, IdentitiesAloneAreGood

LEMMA UnbindIsGood ==
    ASSUME AccountInv, NEW s \in SessionId, UnbindConnectedAccount(s)
    PROVE  GoodAccountStep
  <1>1. PICK x \in Subject :
           /\ authSessions[s].status = "active" /\ identities[x] = authSessions[s].of
           /\ identities' = [identities EXCEPT ![x] = NoOne]
           /\ UNCHANGED <<accounts, registering, codes, authSessions, flows>>
    BY DEF UnbindConnectedAccount, Current
  <1>2. FlowsInv' /\ FlowsStay
    BY <1>1 DEF AccountInv, FlowsInv, FlowsStay
  <1>3. identities' \in [Subject -> Email \cup {NoOne}] /\ identities'[x] = NoOne
        /\ \A y \in Subject : y # x => identities'[y] = identities[y]
    BY <1>1 DEF AccountInv
  <1>4. s \in ActiveSessions(identities[x])
    BY <1>1 DEF ActiveSessions
  <1>5. IdentitiesByOwners
    BY <1>3, <1>4 DEF IdentitiesByOwners
  <1> QED BY <1>1, <1>2, <1>3, <1>5, IdentitiesAloneAreGood


LEMMA AccountsStep ==
    ASSUME AccountAssumption, AccountInv, AccountNext
    PROVE  GoodAccountStep
  <1>1. CASE \E e \in Email : ByAddress(e)
    <2>1. PICK e \in Email : ByAddress(e)
      BY <1>1
    <2> QED BY <2>1, RegisterIsGood, PasswordIsGood, CutIsGood, AskingIsGood, LoginIsGood,
               SuspendIsGood, RestoreIsGood DEF ByAddress
  <1>2. CASE \E c \in CodeId : ByCode(c)
    <2>1. PICK c \in CodeId : ByCode(c)
      BY <1>2
    <2> QED BY <2>1, VerifyIsGood, ExpiryIsGood, ConsumeIsGood, ResetIsGood DEF ByCode
  <1>3. CASE \E s \in SessionId : InSession(s)
    <2>1. PICK s \in SessionId : InSession(s)
      BY <1>3
    <2>2. CASE \E f \in Flow : StartFlow(f, StartedBy(s))
      BY <2>2, StartedFlows, StartIsGood
    <2>3. CASE \E f \in Flow : BindConnectedAccount(f, s)
      BY <2>3, BindIsGood
    <2> QED BY <2>1, <2>2, <2>3, ChangeIsGood, EndIsGood, UnbindIsGood, RevokeIsGood DEF InSession
  <1>4. CASE \E f \in Flow : ThroughProvider(f)
    <2>1. PICK f \in Flow : ThroughProvider(f)
      BY <1>4
    <2>2. CASE \E intent \in {"login", "register"} :
                   StartFlow(f, [NoFlow EXCEPT !.at = "started", !.intent = intent])
      BY <2>2, StartedFlows, StartIsGood
    <2>3. CASE \E x \in Subject, e \in Email \cup {NoOne}, verified \in BOOLEAN : Callback(f, x, e, verified)
      BY <2>3, CallbackIsGood
    <2>4. CASE \E e \in Email : RequestEmailVerification(f, e)
      BY <2>4, EmailIsGood
    <2> QED BY <2>1, <2>2, <2>3, <2>4, FlowEndIsGood, HandoffIsGood, ExchangeIsGood, CompleteIsGood
            DEF ThroughProvider
  <1> QED BY <1>1, <1>2, <1>3, <1>4 DEF AccountNext

LEMMA AccountsIdle ==
    ASSUME AccountInv, UNCHANGED accountVars
    PROVE  GoodAccountStep
  <1>1. UNCHANGED <<accounts, registering, codes, authSessions, identities, flows>>
    BY DEF accountVars
  <1>2. CodesInv' /\ CodesStay
    BY <1>1 DEF AccountInv, CodesInv, CodesStay, Live
  <1> QED BY <1>1, <1>2, CodesAloneAreGood

(* What the invariant says of codes, one by one, counts the live ones. *)
LEMMA AtMostOneVerificationCode ==
    ASSUME CodesInv
    PROVE  OneVerificationCode
  <1> SUFFICES ASSUME NEW e \in Email
               PROVE  Cardinality({c \in CodeId : Live(c, "verify") /\ codes[c].to = e}) <= 1
    BY DEF OneVerificationCode
  <1> DEFINE live == {c \in CodeId : Live(c, "verify") /\ codes[c].to = e}
  <1>1. \A c, d \in live : c = d
    BY DEF CodesInv
  <1> HIDE DEF live
  <1>2. live = {} \/ \E c : live = {c}
    BY <1>1
  <1>3. ASSUME live = {}
        PROVE  Cardinality(live) <= 1
    <2>1. Cardinality({}) = 0
      BY FS_EmptySet
    <2> QED BY <1>3, <2>1
  <1>4. ASSUME \E c : live = {c}
        PROVE  Cardinality(live) <= 1
    <2>1. PICK c : live = {c}
      BY <1>4
    <2>2. Cardinality({c}) = 1
      BY FS_Singleton
    <2> QED BY <2>1, <2>2
  <1>5. Cardinality(live) <= 1
    BY <1>2, <1>3, <1>4
  <1> QED BY <1>5 DEF live

LEMMA AccountInvIsSafe ==
    ASSUME AccountInv
    PROVE  /\ AccountTypeOK /\ SessionsOfUsableAccounts /\ SessionsFollowPassword
           /\ OneSessionPerSecret /\ OneVerificationCode /\ AddressesAreProven
  <1>1. AccountTypeOK
    BY DEF AccountInv, AccountsInv, CodesInv, SessionsInv, FlowsInv, FlowIsSound, AccountTypeOK,
           AccountRow, CodeRow, AccountSession, Secret, FlowRow
  <1>2. SessionsOfUsableAccounts /\ SessionsFollowPassword
    BY DEF AccountInv, SessionsInv, SessionRow, Current, SessionsOfUsableAccounts, SessionsFollowPassword
  <1>3. OneVerificationCode
    BY AtMostOneVerificationCode DEF AccountInv
  <1> QED BY <1>1, <1>2, <1>3 DEF AccountInv, SessionsInv

\* Sessions end with the suspension or the password they rest on, each secret opens one
\* session, the last verification code alone is good, every verified address was proven,
\* and a provider's subject opens the account it is bound to and is bound by its owner
\* (internal/auth, internal/oauth).
THEOREM AccountsAreSafe == AccountSpec => AccountSafety
  <1> DEFINE Safe == /\ AccountTypeOK /\ SessionsOfUsableAccounts /\ SessionsFollowPassword
                     /\ OneSessionPerSecret /\ OneVerificationCode /\ AddressesAreProven
  <1>1. AccountInit => AccountInv
    BY AccountAssumption, AccountsStart
  <1>2. AccountInv /\ [AccountNext]_accountVars => GoodAccountStep
    BY AccountAssumption, AccountsStep, AccountsIdle
  <1>3. AccountInv /\ [AccountNext]_accountVars => AccountInv'
    BY <1>2 DEF GoodAccountStep
  <1>4. AccountSpec => []AccountInv
    BY <1>1, <1>3, PTL DEF AccountSpec
  <1>5. AccountInv => Safe
    BY AccountInvIsSafe
  <1>6. AccountInv /\ [AccountNext]_accountVars => [SessionsFromFlows]_accountVars /\ [IdentitiesByOwners]_accountVars
    BY <1>2 DEF GoodAccountStep
  <1>7. FlowOpensItsOwnAccount <=> [][SessionsFromFlows]_accountVars
    BY DEF FlowOpensItsOwnAccount, SessionsFromFlows
  <1>8. BoundByItsOwner <=> [][IdentitiesByOwners]_accountVars
    BY DEF BoundByItsOwner, IdentitiesByOwners
  <1>9. AccountSafety <=> []Safe /\ FlowOpensItsOwnAccount /\ BoundByItsOwner
    BY DEF AccountSafety
  <1> HIDE DEF Safe
  <1> QED BY <1>4, <1>5, <1>6, <1>7, <1>8, <1>9, PTL DEF AccountSpec

-----------------------------------------------------------------------------
(* Workspace: members and invitations *)

OwnersOf(r) == {p \in Person : r[p] = "owner"}

(* The owners are always finitely many, which is what their count relies on. *)
WorkspaceInv ==
    /\ WorkspaceTypeOK
    /\ IsFiniteSet(OwnersOf(role))
    /\ LastOwnerStays
    /\ OneOpenInvitation

(* Someone else is an owner whenever the owners are more than one. *)
LEMMA AnotherOwnerIsThere ==
    ASSUME WorkspaceInv, NEW m \in Person, role[m] = "owner", AnotherOwner(m)
    PROVE  \E o \in Person : o # m /\ role[o] = "owner"
  <1> DEFINE S == OwnersOf(role)
  <1>1. IsFiniteSet(S) /\ m \in S /\ Cardinality(S) > 1
    BY DEF WorkspaceInv, OwnersOf, AnotherOwner
  <1>2. Cardinality(S) \in Nat
    BY <1>1, FS_CardinalityType
  <1>3. IsFiniteSet(S \ {m}) /\ Cardinality(S \ {m}) = Cardinality(S) - 1
    BY <1>1, FS_RemoveElement
  <1>4. S \ {m} # {}
    BY <1>1, <1>2, <1>3, FS_EmptySet
  <1> QED BY <1>4 DEF OwnersOf

(* Changing one role adds at most one owner. *)
LEMMA OwnersStayFinite ==
    ASSUME IsFiniteSet(OwnersOf(role)), NEW m \in Person, NEW to,
           role' = [role EXCEPT ![m] = to], role \in [Person -> Roles \cup {"none"}]
    PROVE  IsFiniteSet(OwnersOf(role'))
  <1>1. OwnersOf(role') \in SUBSET (OwnersOf(role) \cup {m})
    BY DEF OwnersOf
  <1>2. IsFiniteSet(OwnersOf(role) \cup {m})
    BY FS_AddElement
  <1> QED BY <1>1, <1>2, FS_Subset

(* Marking a lapsed invitation neither opens one nor touches its terms. *)
LEMMA MarkExpiredKeeps ==
    ASSUME WorkspaceTypeOK, NEW i \in InviteId, MarkExpired(i)
    PROVE  /\ invites' \in [InviteId -> [to : Person, role : InvitedRoles, lapsed : BOOLEAN,
                 status : {"none", "pending", "accepted", "rejected", "revoked", "expired"}]]
           /\ \A j \in InviteId : Open(j)' => Open(j) /\ invites'[j] = invites[j]
  BY DEF WorkspaceTypeOK, MarkExpired, Open

(* Every variable of a workspace keeps its type. *)
LEMMA WorkspaceTypeStep ==
    ASSUME WorkspaceTypeOK, [WorkspaceNext]_workspaceVars
    PROVE  WorkspaceTypeOK'
  <1> USE DEF WorkspaceTypeOK, Roles, Managers, InvitedRoles
  <1>1. ASSUME NEW p \in Person, ReadActor(p) \/ RequestEnds(p) PROVE WorkspaceTypeOK'
    BY <1>1 DEF ReadActor, RequestEnds
  <1>2. ASSUME NEW p \in Person, NEW m \in Person, RemoveMember(p, m) PROVE WorkspaceTypeOK'
    BY <1>2 DEF RemoveMember
  <1>3. ASSUME NEW p \in Person, NEW m \in Person, NEW to \in Roles, UpdateMemberRole(p, m, to)
        PROVE  WorkspaceTypeOK'
    BY <1>3 DEF UpdateMemberRole
  <1>4. ASSUME NEW p \in Person, NEW to \in Person, NEW as \in InvitedRoles,
               CreateInvitation(p, to, as)
        PROVE  WorkspaceTypeOK'
    <2> HIDE DEF InvitedRoles
    <2>1. PICK i \in InviteId : invites' = [invites EXCEPT
                  ![i] = [to |-> to, role |-> as, status |-> "pending", lapsed |-> FALSE]]
      BY <1>4 DEF CreateInvitation
    <2>2. actor' = [actor EXCEPT ![p] = "none"] /\ UNCHANGED role
      BY <1>4 DEF CreateInvitation
    <2> QED BY <2>1, <2>2
  <1>5. ASSUME NEW i \in InviteId, InvitationLapses(i) PROVE WorkspaceTypeOK'
    BY <1>5 DEF InvitationLapses
  <1>6. ASSUME NEW p \in Person, NEW i \in InviteId, RevokeInvitation(p, i) PROVE WorkspaceTypeOK'
    BY <1>6, MarkExpiredKeeps DEF RevokeInvitation
  <1>7. ASSUME NEW p \in Person, NEW i \in InviteId, RejectInvitation(p, i) PROVE WorkspaceTypeOK'
    BY <1>7, MarkExpiredKeeps DEF RejectInvitation
  <1>8. ASSUME NEW p \in Person, NEW i \in InviteId, AcceptInvitation(p, i) PROVE WorkspaceTypeOK'
    BY <1>8, MarkExpiredKeeps DEF AcceptInvitation
  <1>9. CASE UNCHANGED workspaceVars
    BY <1>9 DEF workspaceVars
  <1> QED BY <1>1, <1>2, <1>3, <1>4, <1>5, <1>6, <1>7, <1>8, <1>9 DEF WorkspaceNext

(* How a step may change the roles: not at all, or one role, and an owner is lost only *)
(* beside another one; a person becomes or stops being an owner at an owner's request. *)
LEMMA RoleStep ==
    ASSUME WorkspaceTypeOK, [WorkspaceNext]_workspaceVars
    PROVE  \/ role' = role
           \/ \E m \in Person, to \in Roles \cup {"none"} :
                /\ role' = [role EXCEPT ![m] = to]
                /\ role[m] = "owner" /\ to # "owner" => AnotherOwner(m)
                /\ (role[m] = "owner") # (to = "owner")
                     => \E a \in Person : actor[a] = "owner" /\ actor'[a] = "none"
                /\ role[m] = "none" =>
                     \E i \in InviteId : /\ Open(i) /\ invites[i].to = m /\ invites[i].role = to
                                         /\ invites'[i].status = "accepted"
  <1>1. ASSUME NEW p \in Person, NEW m \in Person, RemoveMember(p, m)
        PROVE  /\ role' = [role EXCEPT ![m] = "none"]
               /\ role[m] = "owner" => AnotherOwner(m) /\ actor[p] = "owner" /\ actor'[p] = "none"
               /\ role[m] # "none"
    BY <1>1 DEF RemoveMember, MayTouch, WorkspaceTypeOK, Managers
  <1>2. ASSUME NEW p \in Person, NEW m \in Person, NEW to \in Roles, UpdateMemberRole(p, m, to)
        PROVE  /\ role' = [role EXCEPT ![m] = to]
               /\ role[m] = "owner" /\ to # "owner" => AnotherOwner(m)
               /\ (role[m] = "owner") # (to = "owner") => actor[p] = "owner" /\ actor'[p] = "none"
               /\ role[m] # "none"
    BY <1>2 DEF UpdateMemberRole, MayTouch, WorkspaceTypeOK, Managers
  <1>3. ASSUME NEW p \in Person, NEW i \in InviteId, AcceptInvitation(p, i), role' # role
        PROVE  /\ role' = [role EXCEPT ![p] = invites[i].role] /\ role[p] = "none"
               /\ Open(i) /\ invites[i].to = p /\ invites'[i].status = "accepted"
               /\ invites[i].role \in Roles /\ invites[i].role # "owner"
    BY <1>3 DEF AcceptInvitation, WorkspaceTypeOK, InvitedRoles
  <1>4. CASE \E p, m \in Person : RemoveMember(p, m)
    BY <1>1, <1>4
  <1>5. CASE \E p, m \in Person : \E to \in Roles : UpdateMemberRole(p, m, to)
    BY <1>2, <1>5
  <1>6. CASE \E p \in Person, i \in InviteId : AcceptInvitation(p, i)
    BY <1>3, <1>6
  <1>7. CASE role' = role
    BY <1>7
  <1>8. \/ \E p, m \in Person : RemoveMember(p, m)
        \/ \E p, m \in Person : \E to \in Roles : UpdateMemberRole(p, m, to)
        \/ \E p \in Person, i \in InviteId : AcceptInvitation(p, i)
        \/ role' = role
    BY DEF WorkspaceNext, workspaceVars, ReadActor, RequestEnds, CreateInvitation, InvitationLapses,
           RevokeInvitation, RejectInvitation
  <1> QED BY <1>4, <1>5, <1>6, <1>7, <1>8

(* No invitation opens but by CreateInvitation, which sees none open for that person. *)
LEMMA OpenStep ==
    ASSUME WorkspaceTypeOK, OneOpenInvitation, [WorkspaceNext]_workspaceVars
    PROVE  OneOpenInvitation'
  <1>1. ASSUME \A j \in InviteId : Open(j)' => Open(j) /\ invites'[j].to = invites[j].to
        PROVE  OneOpenInvitation'
    BY <1>1 DEF OneOpenInvitation
  <1>2. CASE UNCHANGED invites
    BY <1>1, <1>2 DEF Open
  <1>3. ASSUME NEW p \in Person, NEW to \in Person, NEW as \in InvitedRoles,
               CreateInvitation(p, to, as)
        PROVE  OneOpenInvitation'
    <2>1. PICK i \in InviteId :
              invites' = [invites EXCEPT
                  ![i] = [to |-> to, role |-> as, status |-> "pending", lapsed |-> FALSE]]
      BY <1>3 DEF CreateInvitation
    <2>2. ~\E j \in InviteId : Open(j) /\ invites[j].to = to
      BY <1>3 DEF CreateInvitation
    <2>3. \A j \in InviteId : j # i => invites'[j] = invites[j]
      BY <2>1 DEF WorkspaceTypeOK
    <2>4. invites'[i].to = to
      BY <2>1 DEF WorkspaceTypeOK
    <2>5. \A j \in InviteId : j # i /\ Open(j)' => Open(j) /\ invites[j].to # to
      BY <2>2, <2>3 DEF Open
    <2> QED BY <2>3, <2>4, <2>5 DEF OneOpenInvitation
  <1>4. ASSUME NEW i \in InviteId, InvitationLapses(i) PROVE OneOpenInvitation'
    BY <1>1, <1>4 DEF InvitationLapses, Open, WorkspaceTypeOK
  <1>5. ASSUME NEW p \in Person, NEW i \in InviteId,
               RevokeInvitation(p, i) \/ RejectInvitation(p, i) \/ AcceptInvitation(p, i)
        PROVE  OneOpenInvitation'
    <2>1. CASE MarkExpired(i)
      BY <1>1, <2>1, MarkExpiredKeeps
    <2>2. CASE \E s \in {"revoked", "rejected", "accepted"} :
                 invites' = [invites EXCEPT ![i].status = s]
      BY <1>1, <2>2 DEF Open, WorkspaceTypeOK
    <2> QED BY <1>5, <2>1, <2>2 DEF RevokeInvitation, RejectInvitation, AcceptInvitation
  <1>6. \/ UNCHANGED invites
        \/ \E p, to \in Person, as \in InvitedRoles : CreateInvitation(p, to, as)
        \/ \E i \in InviteId : InvitationLapses(i)
        \/ \E p \in Person, i \in InviteId :
             RevokeInvitation(p, i) \/ RejectInvitation(p, i) \/ AcceptInvitation(p, i)
    BY DEF WorkspaceNext, workspaceVars, ReadActor, RequestEnds, RemoveMember, UpdateMemberRole
  <1> QED BY <1>2, <1>3, <1>4, <1>5, <1>6

LEMMA WorkspaceInvStep == WorkspaceInv /\ [WorkspaceNext]_workspaceVars => WorkspaceInv'
  <1> SUFFICES ASSUME WorkspaceInv, [WorkspaceNext]_workspaceVars PROVE WorkspaceInv'
    OBVIOUS
  <1>1. WorkspaceTypeOK'
    BY WorkspaceTypeStep DEF WorkspaceInv
  <1>2. OneOpenInvitation'
    BY OpenStep DEF WorkspaceInv
  <1>3. IsFiniteSet(OwnersOf(role')) /\ LastOwnerStays'
    <2>1. CASE role' = role
      BY <2>1 DEF WorkspaceInv, LastOwnerStays
    <2>2. ASSUME NEW m \in Person, NEW to \in Roles \cup {"none"},
                 role' = [role EXCEPT ![m] = to],
                 role[m] = "owner" /\ to # "owner" => AnotherOwner(m)
          PROVE  IsFiniteSet(OwnersOf(role')) /\ LastOwnerStays'
      <3>1. IsFiniteSet(OwnersOf(role'))
        BY <2>2, OwnersStayFinite DEF WorkspaceInv, WorkspaceTypeOK
      <3>2. CASE role[m] = "owner" /\ to # "owner"
        <4>1. PICK o \in Person : o # m /\ role[o] = "owner"
          BY <2>2, <3>2, AnotherOwnerIsThere
        <4> QED BY <2>2, <3>1, <4>1 DEF LastOwnerStays, WorkspaceInv, WorkspaceTypeOK
      <3>3. CASE ~(role[m] = "owner" /\ to # "owner")
        <4>1. PICK o \in Person : role[o] = "owner"
          BY DEF WorkspaceInv, LastOwnerStays
        <4>2. role'[o] = "owner"
          BY <2>2, <3>3, <4>1 DEF WorkspaceInv, WorkspaceTypeOK
        <4> QED BY <3>1, <4>2 DEF LastOwnerStays
      <3> QED BY <3>2, <3>3
    <2> QED BY <2>1, <2>2, RoleStep DEF WorkspaceInv
  <1> QED BY <1>1, <1>2, <1>3 DEF WorkspaceInv, OwnersOf

LEMMA WorkspaceInvInit == WorkspaceInit => WorkspaceInv
  <1> SUFFICES ASSUME WorkspaceInit PROVE WorkspaceInv
    OBVIOUS
  <1>1. WorkspaceTypeOK
    BY WorkspaceAssumption DEF WorkspaceInit, WorkspaceTypeOK, NoInvite, Roles, InvitedRoles, Managers
  <1>2. OwnersOf(role) = {Founder}
    BY WorkspaceAssumption DEF WorkspaceInit, OwnersOf
  <1>3. IsFiniteSet(OwnersOf(role))
    BY <1>2, FS_Singleton
  <1>4. LastOwnerStays
    BY WorkspaceAssumption DEF WorkspaceInit, LastOwnerStays
  <1>5. OneOpenInvitation
    BY DEF WorkspaceInit, OneOpenInvitation, Open, NoInvite
  <1> QED BY <1>1, <1>3, <1>4, <1>5 DEF WorkspaceInv

(* A membership begins with an invitation, an ownership with the word of an owner. *)
LEMMA WorkspaceActionStep ==
    ASSUME WorkspaceInv, [WorkspaceNext]_workspaceVars
    PROVE  /\ \A p \in Person : role[p] = "none" /\ role'[p] # "none" =>
                \E i \in InviteId : /\ Open(i) /\ invites[i].to = p /\ invites[i].role = role'[p]
                                    /\ invites'[i].status = "accepted"
           /\ \A p \in Person : (role[p] = "owner") # (role'[p] = "owner") =>
                \E a \in Person : actor[a] = "owner" /\ actor'[a] = "none"
  BY RoleStep DEF WorkspaceInv, WorkspaceTypeOK

(* No interleaving of late requests, removals, demotions and invitations leaves a workspace *)
(* without an owner, makes a member without an invitation or an owner without an owner.     *)
THEOREM WorkspaceIsSafe == WorkspaceSpec => WorkspaceSafety
  <1>1. WorkspaceInv /\ [WorkspaceNext]_workspaceVars
          => [\A p \in Person : role[p] = "none" /\ role'[p] # "none" =>
                \E i \in InviteId : /\ Open(i) /\ invites[i].to = p /\ invites[i].role = role'[p]
                                    /\ invites'[i].status = "accepted"]_workspaceVars
    BY WorkspaceActionStep
  <1>2. WorkspaceInv /\ [WorkspaceNext]_workspaceVars
          => [\A p \in Person : (role[p] = "owner") # (role'[p] = "owner") =>
                \E a \in Person : actor[a] = "owner" /\ actor'[a] = "none"]_workspaceVars
    BY WorkspaceActionStep
  <1>3. WorkspaceInv => WorkspaceTypeOK /\ LastOwnerStays /\ OneOpenInvitation
    BY DEF WorkspaceInv
  <1> QED BY <1>1, <1>2, <1>3, WorkspaceInvInit, WorkspaceInvStep, PTL
          DEF WorkspaceSpec, WorkspaceSafety, MembershipByInvitation, OwnersDecideOwnership

-----------------------------------------------------------------------------
(* TextShare: texts read once, and the counter of the quota *)

(* Beside the properties: the counter is the number of live shares, an edit in *)
(* progress is of a share, and what was shown once is a row.                   *)
TextInv ==
    /\ TextTypeOK
    /\ ReadOnce
    /\ \A s \in Share : shares[s].status = "none" => oneTimeReads[s] = 0
    /\ \A e \in Editor : edits[e].of = NoShare => edits[e] = NoEdit
    /\ IsFiniteSet(LiveShares) /\ textUsed = Cardinality(LiveShares)

ShareRow == [status : {"none", "live", "deleted"}, public : BOOLEAN, oneTime : BOOLEAN,
             consumed : BOOLEAN, expired : BOOLEAN, version : 0 .. MaxTextVersion]

(* A step on the shares: nothing, one share created, one row changed in place, one *)
(* deleted.                                                                        *)
CreatesShare(s) ==
    /\ shares[s].status = "none" /\ textUsed < TextQuota
    /\ \E r \in ShareRow : r.status = "live" /\ shares' = [shares EXCEPT ![s] = r]
    /\ textUsed' = textUsed + 1 /\ UNCHANGED oneTimeReads

ChangesShare(s) ==
    /\ \E r \in ShareRow :
         /\ r.status = shares[s].status /\ shares[s].status = "live"
         /\ shares' = [shares EXCEPT ![s] = r]
         /\ \/ /\ UNCHANGED oneTimeReads
               /\ ~shares[s].consumed \/ (r.consumed /\ r.oneTime = shares[s].oneTime)
            \/ /\ ~shares[s].consumed /\ shares[s].oneTime /\ r.consumed /\ r.oneTime
               /\ oneTimeReads' = [oneTimeReads EXCEPT ![s] = @ + 1]
    /\ UNCHANGED textUsed

DeletesShare(s) ==
    /\ shares[s].status = "live" /\ textUsed # 0
    /\ \E r \in ShareRow : /\ r.status = "deleted" /\ shares' = [shares EXCEPT ![s] = r]
                           /\ r.consumed = shares[s].consumed /\ r.oneTime = shares[s].oneTime
    /\ textUsed' = textUsed - 1 /\ UNCHANGED oneTimeReads

LEMMA NextShareVersion ==
    ASSUME NEW r \in ShareRow, r.version < MaxTextVersion
    PROVE  /\ \A public, once \in BOOLEAN :
                LET q == [r EXCEPT !.public = public, !.oneTime = once, !.expired = FALSE,
                                   !.version = @ + 1]
                IN  q \in ShareRow /\ q.status = r.status
           /\ LET q == [r EXCEPT !.status = "deleted", !.version = @ + 1]
              IN  q \in ShareRow /\ q.status = "deleted" /\ q.consumed = r.consumed
                  /\ q.oneTime = r.oneTime
           /\ LET q == [r EXCEPT !.consumed = TRUE, !.version = @ + 1]
              IN  q \in ShareRow /\ q.status = r.status /\ q.consumed /\ q.oneTime = r.oneTime
  <1>1. r.version + 1 \in 0 .. MaxTextVersion
    BY TextAssumption DEF ShareRow
  <1> QED BY <1>1 DEF ShareRow

LEMMA TextStepKinds ==
    ASSUME TextInv, [TextNext]_textVars
    PROVE  \/ UNCHANGED <<shares, textUsed, oneTimeReads>>
           \/ \E s \in Share : CreatesShare(s) \/ ChangesShare(s) \/ DeletesShare(s)
  <1>a. /\ shares \in [Share -> ShareRow] /\ \A r \in Reader : readers[r].of \in Share \cup {NoShare}
        /\ \A e \in Editor : edits[e] # NoEdit => edits[e].of \in Share
    BY DEF TextInv, TextTypeOK, ShareRow
  <1>1. ASSUME NEW s \in Share, TextExpires(s) PROVE ChangesShare(s)
    <2> DEFINE r == [shares[s] EXCEPT !.expired = TRUE]
    <2>1. r \in ShareRow /\ shares' = [shares EXCEPT ![s] = r]
      BY <1>a, <1>1 DEF TextExpires, ShareRow
    <2> QED BY <1>a, <1>1, <2>1 DEF TextExpires, ChangesShare, ShareRow
  <1>2. ASSUME NEW s \in Share, NEW public \in BOOLEAN, NEW once \in BOOLEAN,
               CreateText(s, public, once)
        PROVE  CreatesShare(s)
    <2> DEFINE r == [NoText EXCEPT !.status = "live", !.version = 1, !.public = public,
                                   !.oneTime = once]
    <2>1. NoText \in ShareRow /\ 1 \in 0 .. MaxTextVersion
      BY TextAssumption DEF NoText, ShareRow
    <2>2. r \in ShareRow /\ r.status = "live"
      BY <2>1 DEF ShareRow
    <2>3. shares' = [shares EXCEPT ![s] = r] /\ shares[s].status = "none" /\ textUsed < TextQuota
          /\ textUsed' = textUsed + 1 /\ UNCHANGED oneTimeReads
      BY <1>2 DEF CreateText
    <2> HIDE DEF r
    <2> QED BY <2>2, <2>3 DEF CreatesShare
  <1>3. ASSUME NEW e \in Editor, NEW public \in BOOLEAN, NEW once \in BOOLEAN,
               UpdateText(e, public, once)
        PROVE  edits[e].of \in Share /\ ChangesShare(edits[e].of)
    <2> DEFINE s == edits[e].of
    <2> DEFINE r == [shares[s] EXCEPT !.public = public, !.oneTime = once, !.expired = FALSE,
                                      !.version = @ + 1]
    <2>1. s \in Share
      BY <1>a, <1>3 DEF UpdateText
    <2>2. shares[s] \in ShareRow /\ shares[s].version < MaxTextVersion
      BY <1>a, <1>3, <2>1 DEF UpdateText, StillTheSame
    <2>3. shares' = [shares EXCEPT ![s] = r]
      BY <1>a, <1>3, <2>1 DEF UpdateText
    <2>5. shares[s].status = "live" /\ ~shares[s].consumed /\ UNCHANGED <<textUsed, oneTimeReads>>
      BY <1>3 DEF UpdateText, StillTheSame
    <2>4. r \in ShareRow /\ r.status = shares[s].status
      BY <2>2, NextShareVersion
    <2> HIDE DEF r
    <2> QED BY <2>1, <2>3, <2>4, <2>5 DEF ChangesShare
  <1>4. ASSUME NEW e \in Editor, DeleteText(e) PROVE edits[e].of \in Share /\ DeletesShare(edits[e].of)
    <2> DEFINE s == edits[e].of
    <2> DEFINE r == [shares[s] EXCEPT !.status = "deleted", !.version = @ + 1]
    <2>1. s \in Share
      BY <1>a, <1>4 DEF DeleteText
    <2>2. shares[s] \in ShareRow /\ shares[s].version < MaxTextVersion
      BY <1>a, <1>4, <2>1 DEF DeleteText, StillTheSame
    <2>3. r \in ShareRow /\ r.status = "deleted"
          /\ r.consumed = shares[s].consumed /\ r.oneTime = shares[s].oneTime
      BY <2>2, NextShareVersion
    <2>4. shares' = [shares EXCEPT ![s] = r] /\ shares[s].status = "live"
      BY <1>a, <1>4, <2>1 DEF DeleteText, StillTheSame
    <2> QED BY <1>4, <2>1, <2>3, <2>4 DEF DeleteText, DeletesShare
  <1>5. ASSUME NEW r \in Reader, ConsumePublic(r), ~UNCHANGED <<shares, textUsed, oneTimeReads>>
        PROVE  readers[r].of \in Share /\ ChangesShare(readers[r].of)
    <2> DEFINE s == readers[r].of
    <2> DEFINE q == [shares[s] EXCEPT !.consumed = TRUE, !.version = @ + 1]
    <2>1. s \in Share
      BY <1>a, <1>5 DEF ConsumePublic
    <2>2. shares[s] \in ShareRow /\ shares[s].version < MaxTextVersion /\ shares[s].oneTime
      BY <1>a, <1>5, <2>1 DEF ConsumePublic
    <2>3. q \in ShareRow /\ q.status = shares[s].status /\ q.consumed /\ q.oneTime
      BY <2>2, NextShareVersion
    <2>4. shares' = [shares EXCEPT ![s] = q] /\ shares[s].status = "live" /\ ~shares[s].consumed
      BY <1>a, <1>5, <2>1 DEF ConsumePublic, Shown
    <2>5. oneTimeReads' = [oneTimeReads EXCEPT ![s] = @ + 1] /\ UNCHANGED textUsed
      BY <1>5 DEF ConsumePublic
    <2> QED BY <2>1, <2>2, <2>3, <2>4, <2>5 DEF ChangesShare
  <1>6. \/ UNCHANGED <<shares, textUsed, oneTimeReads>>
        \/ \E s \in Share : TextExpires(s) \/ \E public, once \in BOOLEAN : CreateText(s, public, once)
        \/ \E e \in Editor : DeleteText(e) \/ \E public, once \in BOOLEAN : UpdateText(e, public, once)
        \/ \E r \in Reader : ConsumePublic(r)
    BY DEF TextNext, textVars, EditEnds, ReadText, ReaderLeaves, AuthorizePublic
  <1> QED BY <1>1, <1>2, <1>3, <1>4, <1>5, <1>6

(* What the three kinds do to the live and the deleted shares. *)
LEMMA LiveSharesStep ==
    ASSUME TextInv, NEW s \in Share
    PROVE  /\ CreatesShare(s) => /\ LiveShares' = LiveShares \cup {s} /\ s \notin LiveShares
                            /\ s \notin DeletedShares /\ DeletedShares' = DeletedShares
           /\ ChangesShare(s) => LiveShares' = LiveShares /\ DeletedShares' = DeletedShares
           /\ DeletesShare(s) => /\ LiveShares' = LiveShares \ {s} /\ s \in LiveShares
                            /\ DeletedShares' = DeletedShares \cup {s}
  BY DEF TextInv, TextTypeOK, CreatesShare, ChangesShare, DeletesShare, LiveShares, DeletedShares

LEMMA TextRequestsStep ==
    ASSUME TextInv, [TextNext]_textVars
    PROVE  /\ edits' \in [Editor -> [of : Share \cup {NoShare}, version : 0 .. MaxTextVersion]]
           /\ readers' \in [Reader -> [of : Share \cup {NoShare}, shown : BOOLEAN]]
           /\ \A e \in Editor : edits'[e].of = NoShare => edits'[e] = NoEdit
  <1> USE DEF TextInv, TextTypeOK
  <1>1. NoEdit \in [of : Share \cup {NoShare}, version : 0 .. MaxTextVersion]
        /\ NoReader \in [of : Share \cup {NoShare}, shown : BOOLEAN]
    BY TextAssumption DEF NoEdit, NoReader
  <1>2. CASE UNCHANGED <<edits, readers>>
    BY <1>2
  <1>3. ASSUME NEW e \in Editor, edits' = [edits EXCEPT ![e] = NoEdit], UNCHANGED readers
        PROVE  /\ edits' \in [Editor -> [of : Share \cup {NoShare}, version : 0 .. MaxTextVersion]]
               /\ readers' \in [Reader -> [of : Share \cup {NoShare}, shown : BOOLEAN]]
               /\ \A f \in Editor : edits'[f].of = NoShare => edits'[f] = NoEdit
    BY <1>1, <1>3
  <1>4. ASSUME NEW e \in Editor, NEW s \in Share, ReadText(e, s)
        PROVE  /\ edits' \in [Editor -> [of : Share \cup {NoShare}, version : 0 .. MaxTextVersion]]
               /\ readers' \in [Reader -> [of : Share \cup {NoShare}, shown : BOOLEAN]]
               /\ \A f \in Editor : edits'[f].of = NoShare => edits'[f] = NoEdit
    BY <1>4, TextAssumption DEF ReadText
  <1>5. ASSUME NEW r \in Reader, NEW s \in Share, AuthorizePublic(r, s)
        PROVE  readers' \in [Reader -> [of : Share \cup {NoShare}, shown : BOOLEAN]]
               /\ UNCHANGED edits
    BY <1>5 DEF AuthorizePublic
  <1>6. ASSUME NEW r \in Reader, ConsumePublic(r) \/ ReaderLeaves(r)
        PROVE  readers' \in [Reader -> [of : Share \cup {NoShare}, shown : BOOLEAN]]
               /\ UNCHANGED edits
    <2>1. CASE ConsumePublic(r)
      BY <2>1 DEF ConsumePublic
    <2>2. CASE ReaderLeaves(r)
      BY <1>1, <2>2 DEF ReaderLeaves
    <2> QED BY <1>6, <2>1, <2>2
  <1>7. \/ UNCHANGED <<edits, readers>>
        \/ \E e \in Editor : edits' = [edits EXCEPT ![e] = NoEdit] /\ UNCHANGED readers
        \/ \E e \in Editor, s \in Share : ReadText(e, s)
        \/ \E r \in Reader, s \in Share : AuthorizePublic(r, s)
        \/ \E r \in Reader : ConsumePublic(r) \/ ReaderLeaves(r)
    BY DEF TextNext, textVars, TextExpires, CreateText, DeleteText, UpdateText, EditEnds
  <1> QED BY <1>2, <1>3, <1>4, <1>5, <1>6, <1>7

LEMMA TextInvStep == TextInv /\ [TextNext]_textVars => TextInv'
  <1> SUFFICES ASSUME TextInv, [TextNext]_textVars PROVE TextInv'
    OBVIOUS
  <1>1. /\ edits' \in [Editor -> [of : Share \cup {NoShare}, version : 0 .. MaxTextVersion]]
        /\ readers' \in [Reader -> [of : Share \cup {NoShare}, shown : BOOLEAN]]
        /\ \A e \in Editor : edits'[e].of = NoShare => edits'[e] = NoEdit
    BY TextRequestsStep
  <1> DEFINE Rows == /\ shares' \in [Share -> ShareRow] /\ textUsed' \in 0 .. TextQuota
                     /\ oneTimeReads' \in [Share -> Nat]
                     /\ ReadOnce' /\ \A s \in Share : shares'[s].status = "none" => oneTimeReads'[s] = 0
  <1> DEFINE Counted == IsFiniteSet(LiveShares') /\ textUsed' = Cardinality(LiveShares')
  <1>2. shares \in [Share -> ShareRow] /\ textUsed \in 0 .. TextQuota /\ TextQuota \in Nat
        /\ oneTimeReads \in [Share -> Nat]
    BY TextAssumption DEF TextInv, TextTypeOK, ShareRow
  <1>3. CASE UNCHANGED <<shares, textUsed, oneTimeReads>>
    <2>1. Rows
      BY <1>2, <1>3 DEF TextInv, ReadOnce
    <2>2. Counted
      BY <1>3 DEF TextInv, LiveShares
    <2> QED BY <1>1, <2>1, <2>2 DEF TextInv, TextTypeOK, ShareRow
  <1>4. ASSUME NEW s \in Share, CreatesShare(s) PROVE Rows /\ Counted
    <2>1. Rows
      BY <1>2, <1>4 DEF TextInv, ReadOnce, CreatesShare
    <2>2. Counted
      <3>1. LiveShares' = LiveShares \cup {s} /\ s \notin LiveShares /\ textUsed' = textUsed + 1
        BY <1>4, LiveSharesStep DEF CreatesShare
      <3>2. IsFiniteSet(LiveShares) /\ textUsed = Cardinality(LiveShares)
        BY DEF TextInv
      <3>3. IsFiniteSet(LiveShares \cup {s})
            /\ Cardinality(LiveShares \cup {s}) = Cardinality(LiveShares) + 1
        BY <3>1, <3>2, FS_AddElement
      <3> QED BY <3>1, <3>2, <3>3
    <2> QED BY <2>1, <2>2
  <1>5. ASSUME NEW s \in Share, ChangesShare(s) PROVE Rows /\ Counted
    <2>1. Rows
      <3>1. shares' \in [Share -> ShareRow] /\ textUsed' \in 0 .. TextQuota
            /\ oneTimeReads' \in [Share -> Nat]
        BY <1>2, <1>5 DEF ChangesShare
      <3>2. ReadOnce'
        BY <1>2, <1>5 DEF TextInv, ReadOnce, ChangesShare
      <3>3. \A t \in Share : shares'[t].status = "none" => oneTimeReads'[t] = 0
        BY <1>2, <1>5 DEF TextInv, ChangesShare
      <3> QED BY <3>1, <3>2, <3>3
    <2>2. Counted
      BY <1>5, LiveSharesStep DEF TextInv, ChangesShare
    <2> QED BY <2>1, <2>2
  <1>6. ASSUME NEW s \in Share, DeletesShare(s) PROVE Rows /\ Counted
    <2>1. Rows
      BY <1>2, <1>6 DEF TextInv, ReadOnce, DeletesShare
    <2>2. Counted
      <3>1. LiveShares' = LiveShares \ {s} /\ s \in LiveShares /\ textUsed' = textUsed - 1
        BY <1>6, LiveSharesStep DEF DeletesShare
      <3>2. IsFiniteSet(LiveShares) /\ textUsed = Cardinality(LiveShares)
        BY DEF TextInv
      <3>3. IsFiniteSet(LiveShares \ {s})
            /\ Cardinality(LiveShares \ {s}) = Cardinality(LiveShares) - 1
        BY <3>1, <3>2, FS_RemoveElement
      <3> QED BY <3>1, <3>2, <3>3
    <2> QED BY <2>1, <2>2
  <1>7. CASE Rows /\ Counted
    BY <1>1, <1>7 DEF TextInv, TextTypeOK, ShareRow
  <1> QED BY <1>3, <1>4, <1>5, <1>6, <1>7, TextStepKinds

LEMMA TextInvInit == TextInit => TextInv
  <1> SUFFICES ASSUME TextInit PROVE TextInv
    OBVIOUS
  <1>1. TextTypeOK
    BY TextAssumption DEF TextInit, TextTypeOK, NoText, NoEdit, NoReader
  <1>2. LiveShares = {}
    BY DEF TextInit, LiveShares, NoText
  <1>3. IsFiniteSet(LiveShares) /\ textUsed = Cardinality(LiveShares)
    BY <1>2, FS_EmptySet DEF TextInit
  <1> QED BY <1>1, <1>3 DEF TextInit, TextInv, ReadOnce, NoEdit

(* Every step takes one share, gives one back or leaves the counter alone. *)
LEMMA TextQuotaStep ==
    ASSUME TextInv, [TextNext]_textVars
    PROVE  [TextQuotaCounter!Next]_<<textUsed, LiveShares, DeletedShares>>
  <1>1. CASE UNCHANGED <<shares, textUsed, oneTimeReads>>
    BY <1>1 DEF LiveShares, DeletedShares
  <1>2. ASSUME NEW s \in Share, CreatesShare(s) PROVE TextQuotaCounter!Take(s)
    BY <1>2, LiveSharesStep DEF CreatesShare, TextQuotaCounter!Take
  <1>3. ASSUME NEW s \in Share, ChangesShare(s) PROVE UNCHANGED <<textUsed, LiveShares, DeletedShares>>
    BY <1>3, LiveSharesStep DEF ChangesShare
  <1>4. ASSUME NEW s \in Share, DeletesShare(s) PROVE TextQuotaCounter!GiveBack(s)
    BY <1>4, LiveSharesStep DEF DeletesShare, TextQuotaCounter!GiveBack
  <1> QED BY <1>1, <1>2, <1>3, <1>4, TextStepKinds DEF TextQuotaCounter!Next

(* However readers, editors and expiry interleave, a one-time text is shown once, and the *)
(* counter row implements QuotaCounter, so the quota is neither passed nor leaked.         *)
THEOREM TextIsSafe == TextSpec => TextSafety
  <1>1. TextInit => TextQuotaCounter!Init
    BY DEF TextInit, NoText, TextQuotaCounter!Init, LiveShares, DeletedShares
  <1>2. TextInv /\ [TextNext]_textVars
          => [TextQuotaCounter!Next]_<<textUsed, LiveShares, DeletedShares>>
    BY TextQuotaStep
  <1>3. TextInv => TextTypeOK /\ ReadOnce
    BY DEF TextInv
  <1> QED BY <1>1, <1>2, <1>3, TextInvInit, TextInvStep, PTL
          DEF TextSpec, TextSafety, TextKeepsQuota, TextQuotaCounter!Spec

(* The counter is at every moment the number of the live shares. *)
THEOREM TextCounterIsExact == TextSpec => [](IsFiniteSet(LiveShares) /\ textUsed = Cardinality(LiveShares))
  <1>1. TextInv => IsFiniteSet(LiveShares) /\ textUsed = Cardinality(LiveShares)
    BY DEF TextInv
  <1> QED BY <1>1, TextInvInit, TextInvStep, PTL DEF TextSpec

-----------------------------------------------------------------------------
(* BioPage: approvals of the links of a page, and the counter of the quota *)

BioRisk == {"allowed", "blocked", "review"}
PageRecord == [status : {"none", "draft", "published", "paused", "deleted"},
               version : 0 .. MaxPageVersion]
ChildRecord == [of : Page \cup {NoPage}, destination : Destination \cup {NoDestination},
                risk : BioRisk]
RefresherRecord == [publish : BOOLEAN, of : Page \cup {NoPage}, version : 0 .. MaxPageVersion,
                    todo : SUBSET Pairs, holds : SUBSET (Pairs \X BioRisk), counted : BOOLEAN]

BioTypes ==
    /\ pages \in [Page -> PageRecord]
    /\ bioUsed \in 0 .. BioQuota
    /\ childRows \in [Child -> ChildRecord]
    /\ decided \in [Pairs -> {"allow", "block", "none"}] /\ approved \subseteq Pairs
    /\ pageEdits \in [PageEditor -> [of : Page \cup {NoPage}, version : 0 .. MaxPageVersion]]
    /\ refreshers \in [Refresher -> RefresherRecord]

\* A link of a page has a destination.
LinksLeadSomewhere ==
    \A c \in Child : childRows[c].of # NoPage => childRows[c].destination \in Destination

\* What Redis says now was once decided, and so was the copy a request holds between its
\* read and its write.
CopiesAreDecisions ==
    /\ \A pair \in Pairs : decided[pair] = "allow" => pair \in approved
    /\ \A h \in Refresher : \A pair \in Pairs :
         <<pair, "allowed">> \in refreshers[h].holds => pair \in approved

\* The page a publication holds is an active one, and its links keep the destinations that were
\* allowed when they were counted.
CountedOnApproval ==
    \A h \in Refresher : refreshers[h].counted =>
        /\ refreshers[h].of \in ActivePages
        /\ \A c \in ChildrenOf(refreshers[h].of) : <<c, childRows[c].destination>> \in approved

PagesAreCounted == IsFiniteSet(ActivePages) /\ bioUsed = Cardinality(ActivePages)

BioInv ==
    /\ BioTypes
    /\ LinksLeadSomewhere
    /\ CopiesAreDecisions
    /\ ApprovalOfThisDestination
    /\ CountedOnApproval
    /\ PagesAreCounted

LEMMA RiskOfDecision ==
    /\ DOMAIN RiskOf = {"allow", "block", "none"}
    /\ \A d \in DOMAIN RiskOf : RiskOf[d] \in BioRisk /\ (RiskOf[d] = "allowed" => d = "allow")
  BY DEF RiskOf, BioRisk

(* An edited list gives a link a status only with the destination the status was given for. *)
LEMMA RelistKeeps ==
    ASSUME BioInv, NEW p \in Page, NEW list \in Lists(p), childRows' = Relist(p, list)
    PROVE  /\ childRows' \in [Child -> ChildRecord]
           /\ LinksLeadSomewhere'
           /\ \A c \in Child : childRows'[c].risk = "allowed" =>
                 childRows[c].risk = "allowed" /\ childRows'[c].destination = childRows[c].destination
  <1>1. PICK ids \in SUBSET Child : list \in [ids -> Destination]
    BY DEF Lists
  <1>2. ASSUME NEW c \in Child
        PROVE  /\ childRows'[c] \in ChildRecord
               /\ childRows'[c].of # NoPage => childRows'[c].destination \in Destination
               /\ childRows'[c].risk = "allowed" =>
                    childRows[c].risk = "allowed" /\ childRows'[c].destination = childRows[c].destination
    <2>1. childRows[c] \in ChildRecord
          /\ (childRows[c].of # NoPage => childRows[c].destination \in Destination)
      BY DEF BioInv, BioTypes, LinksLeadSomewhere
    <2>2. CASE c \in ids
      <3>1. childRows'[c] = [of |-> p, destination |-> list[c],
              risk |-> IF childRows[c].destination = list[c] THEN childRows[c].risk ELSE "review"]
        BY <1>1, <2>2 DEF Relist
      <3>2. list[c] \in Destination
        BY <1>1, <2>2
      <3> QED BY <2>1, <3>1, <3>2 DEF ChildRecord, BioRisk
    <2>3. CASE c \notin ids
      <3>1. childRows'[c] = IF childRows[c].of = p
                            THEN [childRows[c] EXCEPT !.of = NoPage, !.risk = "review"]
                            ELSE childRows[c]
        BY <1>1, <2>3 DEF Relist
      <3> QED BY <2>1, <3>1, BioAssumption DEF ChildRecord, BioRisk
    <2> QED BY <2>2, <2>3
  <1>3. childRows' = [c \in Child |-> childRows'[c]]
    BY DEF Relist
  <1> QED BY <1>2, <1>3 DEF LinksLeadSomewhere

(* Steps on the pages: one created, one moved among the active states, one deleted. *)
CreatesPage(p) ==
    /\ pages[p].status = "none" /\ bioUsed < BioQuota
    /\ pages' = [pages EXCEPT ![p] = [status |-> "draft", version |-> 1]]
    /\ bioUsed' = bioUsed + 1

ChangesPage(p) ==
    /\ p \in ActivePages /\ UNCHANGED bioUsed
    /\ \E r \in PageRecord : /\ r.status \in {"draft", "published", "paused"}
                             /\ pages' = [pages EXCEPT ![p] = r]
                             /\ r.status = "published" /\ pages[p].status # "published" =>
                                  \E h \in Refresher : refreshers[h].counted /\ refreshers[h].of = p

DeletesPage(p) ==
    /\ p \in ActivePages /\ bioUsed' = IF bioUsed > 0 THEN bioUsed - 1 ELSE 0
    /\ \E r \in PageRecord : r.status = "deleted" /\ pages' = [pages EXCEPT ![p] = r]

LEMMA NextPageVersion ==
    ASSUME NEW r \in PageRecord, r.version < MaxPageVersion
    PROVE  /\ [r EXCEPT !.version = @ + 1] \in PageRecord
           /\ [r EXCEPT !.version = @ + 1].status = r.status
           /\ \A s \in {"published", "paused", "deleted"} :
                [status |-> s, version |-> r.version + 1] \in PageRecord
  <1>1. r.version + 1 \in 0 .. MaxPageVersion
    BY BioAssumption DEF PageRecord
  <1> QED BY <1>1 DEF PageRecord

LEMMA PageStepKinds ==
    ASSUME BioInv, [BioNext]_bioVars
    PROVE  \/ UNCHANGED <<pages, bioUsed>>
           \/ \E p \in Page : CreatesPage(p) \/ ChangesPage(p) \/ DeletesPage(p)
  <1>1. pages \in [Page -> PageRecord] /\ ActivePages \subseteq Page
    BY DEF BioInv, BioTypes, ActivePages
  <1>2. ASSUME NEW p \in Page, NEW list, CreatePage(p, list) PROVE CreatesPage(p)
    BY <1>2 DEF CreatePage, CreatesPage
  <1>3. ASSUME NEW e \in PageEditor, NEW list, UpdatePage(e, list)
        PROVE  pageEdits[e].of \in Page /\ ChangesPage(pageEdits[e].of)
    <2> DEFINE p == pageEdits[e].of
    <2> DEFINE r == [pages[p] EXCEPT !.version = @ + 1]
    <2>1. p \in ActivePages /\ pages[p].version < MaxPageVersion /\ UNCHANGED bioUsed
      BY <1>3 DEF UpdatePage, Lockable, Unmoved
    <2>2. pages' = [pages EXCEPT ![p] = r]
      BY <1>1, <1>3, <2>1 DEF UpdatePage
    <2>3. r \in PageRecord /\ r.status = pages[p].status
      BY <1>1, <2>1, NextPageVersion
    <2>4. pages[p].status \in {"draft", "published", "paused"}
      BY <2>1 DEF ActivePages
    <2> HIDE DEF r
    <2> QED BY <1>1, <2>1, <2>2, <2>3, <2>4 DEF ChangesPage
  <1>4. ASSUME NEW e \in PageEditor, PausePage(e)
        PROVE  pageEdits[e].of \in Page /\ ChangesPage(pageEdits[e].of)
    <2> DEFINE p == pageEdits[e].of
    <2> DEFINE r == [status |-> "paused", version |-> pages[p].version + 1]
    <2>1. p \in ActivePages /\ pages[p].version < MaxPageVersion /\ UNCHANGED bioUsed
      BY <1>4 DEF PausePage, Lockable, Unmoved
    <2>2. pages' = [pages EXCEPT ![p] = r] /\ r.status = "paused"
      BY <1>1, <1>4, <2>1 DEF PausePage
    <2>3. r \in PageRecord
      BY <1>1, <2>1, NextPageVersion
    <2> HIDE DEF r
    <2> QED BY <1>1, <2>1, <2>2, <2>3 DEF ChangesPage
  <1>5. ASSUME NEW e \in PageEditor, DeletePage(e)
        PROVE  pageEdits[e].of \in Page /\ DeletesPage(pageEdits[e].of)
    <2> DEFINE p == pageEdits[e].of
    <2> DEFINE r == [status |-> "deleted", version |-> pages[p].version + 1]
    <2>1. p \in ActivePages /\ pages[p].version < MaxPageVersion
          /\ bioUsed' = IF bioUsed > 0 THEN bioUsed - 1 ELSE 0
      BY <1>5 DEF DeletePage, Lockable, Unmoved
    <2>2. pages' = [pages EXCEPT ![p] = r] /\ r.status = "deleted"
      BY <1>1, <1>5, <2>1 DEF DeletePage
    <2>3. r \in PageRecord
      BY <1>1, <2>1, NextPageVersion
    <2> HIDE DEF r
    <2> QED BY <1>1, <2>1, <2>2, <2>3 DEF DeletesPage
  <1>6. ASSUME NEW h \in Refresher, PublishPage(h)
        PROVE  refreshers[h].of \in Page /\ ChangesPage(refreshers[h].of)
    <2> DEFINE p == refreshers[h].of
    <2> DEFINE r == [status |-> "published", version |-> pages[p].version + 1]
    <2>1. p \in ActivePages /\ pages[p].version < MaxPageVersion /\ UNCHANGED bioUsed
          /\ refreshers[h].counted
      BY <1>6 DEF PublishPage, Unmoved, ReadOf
    <2>2. pages' = [pages EXCEPT ![p] = r] /\ r.status = "published"
      BY <1>1, <1>6, <2>1 DEF PublishPage
    <2>3. r \in PageRecord
      BY <1>1, <2>1, NextPageVersion
    <2> HIDE DEF r
    <2> QED BY <1>1, <2>1, <2>2, <2>3 DEF ChangesPage
  <1>7. \/ UNCHANGED <<pages, bioUsed>>
        \/ \E p \in Page : \E list \in Lists(p) : CreatePage(p, list)
        \/ \E e \in PageEditor : \/ PausePage(e) \/ DeletePage(e)
                                 \/ \E list \in Lists(pageEdits[e].of) : UpdatePage(e, list)
        \/ \E h \in Refresher : PublishPage(h)
    BY DEF BioNext, bioVars, PageEditEnds, ReadPage, Decide, RefreshEnds, BeginRefresh,
           ResolveChild, SyncChildRisk, CountUnresolved
  <1> QED BY <1>2, <1>3, <1>4, <1>5, <1>6, <1>7

LEMMA ActivePagesStep ==
    ASSUME BioInv, NEW p \in Page
    PROVE  /\ CreatesPage(p) => /\ ActivePages' = ActivePages \cup {p} /\ p \notin ActivePages
                                /\ p \notin DeletedPages /\ DeletedPages' = DeletedPages
           /\ ChangesPage(p) => ActivePages' = ActivePages /\ DeletedPages' = DeletedPages
           /\ DeletesPage(p) => /\ ActivePages' = ActivePages \ {p} /\ p \in ActivePages
                                /\ DeletedPages' = DeletedPages \cup {p}
  <1>1. pages \in [Page -> PageRecord]
    BY DEF BioInv, BioTypes
  <1>2. ASSUME NEW r, pages' = [pages EXCEPT ![p] = r]
        PROVE  /\ ActivePages' = IF r.status \in {"draft", "published", "paused"}
                                 THEN ActivePages \cup {p} ELSE ActivePages \ {p}
               /\ DeletedPages' = IF r.status = "deleted"
                                  THEN DeletedPages \cup {p} ELSE DeletedPages \ {p}
    BY <1>1, <1>2 DEF ActivePages, DeletedPages
  <1>3. CASE CreatesPage(p)
    BY <1>1, <1>2, <1>3 DEF CreatesPage, ChangesPage, DeletesPage, ActivePages, DeletedPages
  <1>4. CASE ChangesPage(p)
    BY <1>1, <1>2, <1>4 DEF CreatesPage, ChangesPage, DeletesPage, ActivePages, DeletedPages
  <1>5. CASE DeletesPage(p)
    BY <1>1, <1>2, <1>5 DEF CreatesPage, ChangesPage, DeletesPage, ActivePages, DeletedPages
  <1> QED BY <1>3, <1>4, <1>5

(* The counter is positive while a page is active, so giving one back takes one off. *)
LEMMA PageGivenBack ==
    ASSUME BioInv, NEW p \in Page, DeletesPage(p)
    PROVE  bioUsed' = bioUsed - 1 /\ IsFiniteSet(ActivePages') /\ bioUsed' = Cardinality(ActivePages')
  <1>1. ActivePages' = ActivePages \ {p} /\ p \in ActivePages
    BY ActivePagesStep
  <1>2. IsFiniteSet(ActivePages) /\ bioUsed = Cardinality(ActivePages)
    BY DEF BioInv, PagesAreCounted
  <1>3. IsFiniteSet(ActivePages \ {p}) /\ Cardinality(ActivePages \ {p}) = Cardinality(ActivePages) - 1
    BY <1>1, <1>2, FS_RemoveElement
  <1>4. bioUsed \in Nat /\ bioUsed # 0
    BY <1>1, <1>2, FS_EmptySet, FS_CardinalityType
  <1>5. bioUsed' = bioUsed - 1
    BY <1>4 DEF DeletesPage
  <1> QED BY <1>1, <1>2, <1>3, <1>5

LEMMA PagesStep ==
    ASSUME BioInv, [BioNext]_bioVars
    PROVE  pages' \in [Page -> PageRecord] /\ bioUsed' \in 0 .. BioQuota /\ PagesAreCounted'
  <1>1. /\ pages \in [Page -> PageRecord] /\ bioUsed \in 0 .. BioQuota /\ BioQuota \in Nat
        /\ IsFiniteSet(ActivePages) /\ bioUsed = Cardinality(ActivePages)
    BY BioAssumption DEF BioInv, BioTypes, PagesAreCounted
  <1>2. CASE UNCHANGED <<pages, bioUsed>>
    BY <1>1, <1>2 DEF PagesAreCounted, ActivePages
  <1>3. ASSUME NEW p \in Page, CreatesPage(p)
        PROVE  pages' \in [Page -> PageRecord] /\ bioUsed' \in 0 .. BioQuota /\ PagesAreCounted'
    <2>1. [status |-> "draft", version |-> 1] \in PageRecord
      BY BioAssumption DEF PageRecord
    <2>2. pages' \in [Page -> PageRecord] /\ bioUsed' \in 0 .. BioQuota /\ bioUsed' = bioUsed + 1
      BY <1>1, <1>3, <2>1 DEF CreatesPage
    <2>3. ActivePages' = ActivePages \cup {p} /\ p \notin ActivePages
      BY <1>3, ActivePagesStep
    <2>4. IsFiniteSet(ActivePages \cup {p})
          /\ Cardinality(ActivePages \cup {p}) = Cardinality(ActivePages) + 1
      BY <1>1, <2>3, FS_AddElement
    <2> QED BY <1>1, <2>2, <2>3, <2>4 DEF PagesAreCounted
  <1>4. ASSUME NEW p \in Page, ChangesPage(p)
        PROVE  pages' \in [Page -> PageRecord] /\ bioUsed' \in 0 .. BioQuota /\ PagesAreCounted'
    <2>1. pages' \in [Page -> PageRecord] /\ bioUsed' = bioUsed
      BY <1>1, <1>4 DEF ChangesPage
    <2> QED BY <1>1, <1>4, <2>1, ActivePagesStep DEF PagesAreCounted
  <1>5. ASSUME NEW p \in Page, DeletesPage(p)
        PROVE  pages' \in [Page -> PageRecord] /\ bioUsed' \in 0 .. BioQuota /\ PagesAreCounted'
    <2>1. pages' \in [Page -> PageRecord] /\ bioUsed' \in 0 .. BioQuota
      BY <1>1, <1>5 DEF DeletesPage
    <2> QED BY <1>5, <2>1, PageGivenBack DEF PagesAreCounted
  <1> QED BY <1>2, <1>3, <1>4, <1>5, PageStepKinds

(* The links of a page and the copies of their decisions. *)
LEMMA ChildrenStep ==
    ASSUME BioInv, [BioNext]_bioVars
    PROVE  /\ childRows' \in [Child -> ChildRecord]
           /\ LinksLeadSomewhere' /\ ApprovalOfThisDestination'
           /\ approved \subseteq approved'
  <1> DEFINE Kept == /\ childRows' \in [Child -> ChildRecord]
                     /\ LinksLeadSomewhere' /\ ApprovalOfThisDestination'
                     /\ approved \subseteq approved'
  <1>1. childRows \in [Child -> ChildRecord] /\ LinksLeadSomewhere /\ ApprovalOfThisDestination
    BY DEF BioInv, BioTypes
  <1>2. CASE UNCHANGED childRows /\ approved \subseteq approved'
    BY <1>1, <1>2 DEF LinksLeadSomewhere, ApprovalOfThisDestination
  <1>3. ASSUME NEW p \in Page, NEW list \in Lists(p), childRows' = Relist(p, list), UNCHANGED approved
        PROVE  Kept
    BY <1>1, <1>3, RelistKeeps DEF ApprovalOfThisDestination
  <1>4. ASSUME NEW h \in Refresher, NEW pair \in Pairs, NEW risk \in BioRisk,
               SyncChildRisk(h, pair, risk)
        PROVE  Kept
    <2>1. PICK c \in Child, d \in Destination : pair = <<c, d>>
      BY DEF Pairs
    <2>2. childRows' = [childRows EXCEPT ![c].risk =
             IF childRows[c].of # NoPage /\ childRows[c].destination = d THEN risk ELSE @]
      BY <1>4, <2>1 DEF SyncChildRisk
    <2>3. risk = "allowed" => pair \in approved
      BY <1>4 DEF SyncChildRisk, BioInv, CopiesAreDecisions
    <2>4. \A b \in Child : b # c => childRows'[b] = childRows[b]
      BY <1>1, <2>2
    <2>5. /\ childRows'[c] \in ChildRecord /\ childRows'[c].of = childRows[c].of
          /\ childRows'[c].destination = childRows[c].destination
          /\ \/ childRows'[c].risk = childRows[c].risk
             \/ childRows'[c].risk = risk /\ childRows[c].destination = d
      BY <1>1, <2>2 DEF ChildRecord
    <2>6. childRows' \in [Child -> ChildRecord]
      BY <1>1, <2>2, <2>5
    <2>7. LinksLeadSomewhere'
      BY <1>1, <2>4, <2>5 DEF LinksLeadSomewhere
    <2>8. UNCHANGED approved
      BY <1>4 DEF SyncChildRisk
    <2>9. ApprovalOfThisDestination'
      BY <1>1, <2>1, <2>3, <2>4, <2>5, <2>8 DEF ApprovalOfThisDestination
    <2> QED BY <2>6, <2>7, <2>8, <2>9
  <1>5. ASSUME NEW e \in PageEditor, NEW list \in Lists(pageEdits[e].of), UpdatePage(e, list)
        PROVE  Kept
    <2>1. pageEdits[e].of \in Page /\ childRows' = Relist(pageEdits[e].of, list) /\ UNCHANGED approved
      BY <1>5 DEF UpdatePage, Lockable, Unmoved, ActivePages
    <2> QED BY <1>3, <2>1
  <1>6. ASSUME NEW p \in Page, NEW list \in Lists(p), CreatePage(p, list) PROVE Kept
    BY <1>3, <1>6 DEF CreatePage
  <1>7. \/ UNCHANGED childRows /\ approved \subseteq approved'
        \/ \E p \in Page : \E list \in Lists(p) : CreatePage(p, list)
        \/ \E e \in PageEditor : \E list \in Lists(pageEdits[e].of) : UpdatePage(e, list)
        \/ \E h \in Refresher : \E pair \in Pairs, risk \in BioRisk : SyncChildRisk(h, pair, risk)
    BY DEF BioNext, bioVars, BioRisk, PageEditEnds, ReadPage, Decide, RefreshEnds, BeginRefresh,
           ResolveChild, PausePage, DeletePage, PublishPage, CountUnresolved
  <1> QED BY <1>2, <1>4, <1>5, <1>6, <1>7

(* A step that gives a page its links again touches no link of another page. *)
LEMMA RelistSparesOthers ==
    ASSUME BioInv, NEW q \in Page, NEW list \in Lists(q), childRows' = Relist(q, list),
           NEW p \in Page, p # q, NEW c \in ChildrenOf(p)'
    PROVE  c \in ChildrenOf(p) /\ childRows'[c] = childRows[c]
  <1>1. PICK ids \in SUBSET Child : list \in [ids -> Destination]
    BY DEF Lists
  <1>2. c \in Child /\ childRows'[c].of = p
    BY DEF ChildrenOf
  <1>3. c \notin ids
    BY <1>1, <1>2 DEF Relist
  <1>4. childRows'[c] = IF childRows[c].of = q THEN [childRows[c] EXCEPT !.of = NoPage, !.risk = "review"]
                        ELSE childRows[c]
    BY <1>1, <1>2, <1>3 DEF Relist
  <1>5. childRows[c].of # q
    <2>1. childRows[c] \in ChildRecord /\ NoPage # p
      BY <1>2, BioAssumption DEF BioInv, BioTypes
    <2> QED BY <1>2, <1>4, <2>1 DEF ChildRecord
  <1> QED BY <1>2, <1>4, <1>5 DEF ChildrenOf

(* The row of a page whose links are counted is locked until the publication commits. *)
LEMMA HeldPageStays ==
    ASSUME BioInv, [BioNext]_bioVars, NEW h \in Refresher, refreshers[h].counted
    PROVE  /\ refreshers[h].of \in ActivePages'
           /\ \A c \in Child : childRows'[c].of = refreshers[h].of =>
                childRows[c].of = refreshers[h].of /\ childRows'[c].destination = childRows[c].destination
  <1> DEFINE p == refreshers[h].of
  <1> DEFINE Stays == /\ p \in ActivePages'
                      /\ \A c \in Child : childRows'[c].of = p =>
                           childRows[c].of = p /\ childRows'[c].destination = childRows[c].destination
  <1>1. /\ p \in ActivePages /\ p \in Page /\ pages \in [Page -> PageRecord]
        /\ childRows \in [Child -> ChildRecord]
    BY DEF BioInv, BioTypes, CountedOnApproval, ActivePages
  <1>2. ASSUME UNCHANGED <<pages, childRows>> PROVE Stays
    BY <1>1, <1>2 DEF ActivePages
  <1>3. ASSUME NEW q \in Page, q # p, NEW r, pages' = [pages EXCEPT ![q] = r]
        PROVE  p \in ActivePages'
    BY <1>1, <1>3 DEF ActivePages
  <1>4. ASSUME NEW q \in Page, NEW list \in Lists(q), CreatePage(q, list) PROVE Stays
    <2>1. q # p /\ childRows' = Relist(q, list)
      BY <1>1, <1>4 DEF CreatePage, ActivePages
    <2>2. p \in ActivePages'
      BY <1>3, <1>4, <2>1 DEF CreatePage
    <2> QED BY <1>1, <2>1, <2>2, RelistSparesOthers DEF ChildrenOf
  <1>5. ASSUME NEW e \in PageEditor, Lockable(pageEdits[e])
        PROVE  pageEdits[e].of \in Page /\ pageEdits[e].of # p
    BY <1>5 DEF Lockable, Unmoved, ActivePages
  <1>6. ASSUME NEW e \in PageEditor, NEW list \in Lists(pageEdits[e].of), UpdatePage(e, list)
        PROVE  Stays
    <2> DEFINE q == pageEdits[e].of
    <2>1. q \in Page /\ q # p /\ childRows' = Relist(q, list)
      BY <1>5, <1>6 DEF UpdatePage
    <2>2. pages' = [pages EXCEPT ![q] = [pages[q] EXCEPT !.version = @ + 1]]
      BY <1>1, <1>6, <2>1 DEF UpdatePage
    <2>3. p \in ActivePages'
      BY <1>3, <2>1, <2>2
    <2> QED BY <1>1, <2>1, <2>3, RelistSparesOthers DEF ChildrenOf
  <1>7. ASSUME NEW e \in PageEditor, PausePage(e) \/ DeletePage(e) PROVE Stays
    <2> DEFINE q == pageEdits[e].of
    <2>1. q \in Page /\ q # p
      BY <1>5, <1>7 DEF PausePage, DeletePage
    <2>2. UNCHANGED childRows /\ \E r : pages' = [pages EXCEPT ![q] = r]
      BY <1>7 DEF PausePage, DeletePage
    <2> QED BY <1>3, <2>1, <2>2
  <1>8. ASSUME NEW g \in Refresher, PublishPage(g) PROVE Stays
    <2> DEFINE q == refreshers[g].of
    <2>1. UNCHANGED childRows
          /\ pages' = [pages EXCEPT ![q] = [status |-> "published", version |-> pages[q].version + 1]]
      BY <1>8 DEF PublishPage
    <2>2. p \in ActivePages'
      BY <1>1, <2>1 DEF ActivePages
    <2> QED BY <2>1, <2>2
  <1>9. ASSUME NEW g \in Refresher, NEW pair \in Pairs, NEW risk \in BioRisk,
               SyncChildRisk(g, pair, risk)
        PROVE  Stays
    <2>1. PICK c \in Child : \E x : childRows' = [childRows EXCEPT ![c].risk = x]
      BY <1>9 DEF SyncChildRisk, Pairs
    <2>2. \A b \in Child : childRows'[b].of = childRows[b].of
                           /\ childRows'[b].destination = childRows[b].destination
      BY <1>1, <2>1 DEF ChildRecord
    <2>3. p \in ActivePages'
      BY <1>1, <1>9 DEF SyncChildRisk, ActivePages
    <2> QED BY <2>2, <2>3
  <1>10. \/ UNCHANGED <<pages, childRows>>
         \/ \E q \in Page : \E list \in Lists(q) : CreatePage(q, list)
         \/ \E e \in PageEditor : \/ PausePage(e) \/ DeletePage(e)
                                  \/ \E list \in Lists(pageEdits[e].of) : UpdatePage(e, list)
         \/ \E g \in Refresher : PublishPage(g)
         \/ \E g \in Refresher : \E pair \in Pairs, risk \in BioRisk : SyncChildRisk(g, pair, risk)
    BY DEF BioNext, bioVars, BioRisk, PageEditEnds, ReadPage, Decide, RefreshEnds, BeginRefresh,
           ResolveChild, CountUnresolved
  <1>11. Stays
    BY <1>2, <1>4, <1>6, <1>7, <1>8, <1>9, <1>10
  <1> QED BY <1>11

LEMMA CountedStep ==
    ASSUME BioInv, [BioNext]_bioVars
    PROVE  CountedOnApproval'
  <1>1. refreshers \in [Refresher -> RefresherRecord] /\ approved \subseteq approved'
    BY ChildrenStep DEF BioInv, BioTypes
  <1>2. ASSUME NEW h \in Refresher, refreshers'[h].counted
        PROVE  \/ CountUnresolved(h)
               \/ refreshers[h].counted /\ refreshers'[h].of = refreshers[h].of
    <2>1. CASE UNCHANGED refreshers
      BY <1>2, <2>1
    <2>2. ASSUME NEW g \in Refresher, CountUnresolved(g) PROVE g = h \/ refreshers'[h] = refreshers[h]
      BY <1>1, <2>2 DEF CountUnresolved
    <2>3. ASSUME NEW g \in Refresher, NEW r, refreshers' = [refreshers EXCEPT ![g] = r], ~r.counted
          PROVE  refreshers'[h] = refreshers[h]
      BY <1>1, <1>2, <2>3
    <2>4. ASSUME NEW g \in Refresher, PublishPage(g) \/ RefreshEnds(g)
          PROVE  refreshers'[h] = refreshers[h]
      BY <2>3, <2>4 DEF PublishPage, RefreshEnds, Idle
    <2>5. ASSUME NEW g \in Refresher, NEW p \in Page, NEW publish \in BOOLEAN, BeginRefresh(g, p, publish)
          PROVE  refreshers'[h] = refreshers[h]
      BY <2>3, <2>5 DEF BeginRefresh
    <2>6. ASSUME NEW g \in Refresher, NEW pair \in Pairs, ResolveChild(g, pair)
          PROVE  refreshers'[h].counted = refreshers[h].counted /\ refreshers'[h].of = refreshers[h].of
      BY <1>1, <2>6 DEF ResolveChild, RefresherRecord
    <2>7. ASSUME NEW g \in Refresher, NEW pair \in Pairs, NEW risk \in BioRisk,
                 SyncChildRisk(g, pair, risk)
          PROVE  refreshers'[h].counted = refreshers[h].counted /\ refreshers'[h].of = refreshers[h].of
      BY <1>1, <2>7 DEF SyncChildRisk, RefresherRecord
    <2>8. \/ UNCHANGED refreshers
          \/ \E g \in Refresher : \/ CountUnresolved(g) \/ PublishPage(g) \/ RefreshEnds(g)
                                  \/ \E p \in Page, publish \in BOOLEAN : BeginRefresh(g, p, publish)
                                  \/ \E pair \in Pairs : ResolveChild(g, pair)
                                  \/ \E pair \in Pairs, risk \in BioRisk : SyncChildRisk(g, pair, risk)
      BY DEF BioNext, bioVars, BioRisk, CreatePage, UpdatePage, PausePage, DeletePage, PageEditEnds,
             ReadPage, Decide
    <2> QED BY <1>2, <2>1, <2>2, <2>4, <2>5, <2>6, <2>7, <2>8
  <1>3. ASSUME NEW h \in Refresher, CountUnresolved(h)
        PROVE  /\ refreshers'[h].of \in ActivePages'
               /\ \A c \in Child : childRows'[c].of = refreshers'[h].of => <<c, childRows'[c].destination>> \in approved'
    <2>1. refreshers'[h].of = refreshers[h].of /\ UNCHANGED <<pages, childRows, approved>>
      BY <1>1, <1>3 DEF CountUnresolved, RefresherRecord
    <2>2. refreshers[h].of \in ActivePages
      BY <1>3 DEF CountUnresolved, Lockable, Unmoved, ReadOf
    <2>3. \A c \in Child : childRows[c].of = refreshers[h].of => <<c, childRows[c].destination>> \in approved
      BY <1>3 DEF CountUnresolved, ChildrenOf, BioInv, ApprovalOfThisDestination
    <2> QED BY <2>1, <2>2, <2>3 DEF ActivePages
  <1>4. ASSUME NEW h \in Refresher, refreshers[h].counted, refreshers'[h].of = refreshers[h].of
        PROVE  /\ refreshers'[h].of \in ActivePages'
               /\ \A c \in Child : childRows'[c].of = refreshers'[h].of => <<c, childRows'[c].destination>> \in approved'
    <2>1. \A c \in ChildrenOf(refreshers[h].of) : <<c, childRows[c].destination>> \in approved
      BY <1>4 DEF BioInv, CountedOnApproval
    <2> QED BY <1>1, <1>4, <2>1, HeldPageStays DEF ChildrenOf
  <1> QED BY <1>2, <1>3, <1>4 DEF CountedOnApproval, ChildrenOf

LEMMA CopiesStep ==
    ASSUME BioInv, [BioNext]_bioVars
    PROVE  /\ decided' \in [Pairs -> {"allow", "block", "none"}] /\ approved' \subseteq Pairs
           /\ pageEdits' \in [PageEditor -> [of : Page \cup {NoPage}, version : 0 .. MaxPageVersion]]
           /\ refreshers' \in [Refresher -> RefresherRecord]
           /\ CopiesAreDecisions'
  <1> DEFINE EditRecord == [of : Page \cup {NoPage}, version : 0 .. MaxPageVersion]
  <1> DEFINE Kept == /\ decided' \in [Pairs -> {"allow", "block", "none"}] /\ approved' \subseteq Pairs
                     /\ pageEdits' \in [PageEditor -> EditRecord]
                     /\ refreshers' \in [Refresher -> RefresherRecord]
                     /\ CopiesAreDecisions'
  <1>1. /\ decided \in [Pairs -> {"allow", "block", "none"}] /\ approved \subseteq Pairs
        /\ pageEdits \in [PageEditor -> EditRecord]
        /\ refreshers \in [Refresher -> RefresherRecord]
        /\ CopiesAreDecisions
    BY DEF BioInv, BioTypes
  <1>2. NoPageEdit \in EditRecord /\ Idle \in RefresherRecord /\ Idle.holds = {}
    BY BioAssumption DEF NoPageEdit, Idle, RefresherRecord
  <1> HIDE DEF EditRecord
  <1>3. CASE UNCHANGED <<decided, approved, refreshers>> /\ pageEdits' \in [PageEditor -> EditRecord]
    BY <1>1, <1>3 DEF CopiesAreDecisions, EditRecord
  <1>4. ASSUME NEW p \in Page, NEW e \in PageEditor, ReadPage(e, p) PROVE Kept
    <2>1. [of |-> p, version |-> pages[p].version] \in EditRecord
      BY DEF EditRecord, BioInv, BioTypes, PageRecord
    <2> QED BY <1>1, <1>3, <1>4, <2>1 DEF ReadPage
  <1>5. ASSUME NEW e \in PageEditor, pageEdits' = [pageEdits EXCEPT ![e] = NoPageEdit],
               UNCHANGED <<decided, approved, refreshers>>
        PROVE  Kept
    BY <1>1, <1>2, <1>3, <1>5
  <1>6. ASSUME NEW c \in Child, NEW d \in Destination, NEW decision \in DOMAIN RiskOf,
               Decide(c, d, decision)
        PROVE  Kept
    <2>1. <<c, d>> \in Pairs /\ decision \in {"allow", "block", "none"}
      BY RiskOfDecision DEF Pairs
    <2>2. decided' \in [Pairs -> {"allow", "block", "none"}] /\ approved' \subseteq Pairs
          /\ UNCHANGED <<pageEdits, refreshers>> /\ approved \subseteq approved'
      BY <1>1, <1>6, <2>1 DEF Decide
    <2>3. \A pair \in Pairs : decided'[pair] = "allow" => pair \in approved'
      BY <1>1, <1>6, <2>1 DEF Decide, CopiesAreDecisions
    <2> QED BY <1>1, <2>2, <2>3 DEF CopiesAreDecisions
  <1>7. ASSUME NEW h \in Refresher, NEW r \in RefresherRecord,
               refreshers' = [refreshers EXCEPT ![h] = r], UNCHANGED <<decided, approved, pageEdits>>,
               \A pair \in Pairs : <<pair, "allowed">> \in r.holds => pair \in approved
        PROVE  Kept
    BY <1>1, <1>7 DEF CopiesAreDecisions
  <1>8. ASSUME NEW h \in Refresher, refreshers' = [refreshers EXCEPT ![h] = Idle],
               UNCHANGED <<decided, approved, pageEdits>>
        PROVE  Kept
    BY <1>2, <1>7, <1>8
  <1>9. ASSUME NEW h \in Refresher, NEW p \in Page, NEW publish \in BOOLEAN, BeginRefresh(h, p, publish)
        PROVE  Kept
    <2> DEFINE r == [publish |-> publish, of |-> p, version |-> pages[p].version, holds |-> {}, counted |-> FALSE,
                     todo |-> {<<c, childRows[c].destination>> : c \in ChildrenOf(p)}]
    <2>1. \A c \in ChildrenOf(p) : <<c, childRows[c].destination>> \in Pairs
      BY BioAssumption DEF BioInv, LinksLeadSomewhere, ChildrenOf, Pairs
    <2>2. pages[p].version \in 0 .. MaxPageVersion
      BY DEF BioInv, BioTypes, PageRecord
    <2>3. r \in RefresherRecord
      BY <2>1, <2>2 DEF RefresherRecord
    <2>4. refreshers' = [refreshers EXCEPT ![h] = r] /\ UNCHANGED <<decided, approved, pageEdits>>
      BY <1>9 DEF BeginRefresh
    <2>5. r.holds = {}
      OBVIOUS
    <2> HIDE DEF r
    <2> QED BY <1>7, <2>3, <2>4, <2>5
  <1>10. ASSUME NEW h \in Refresher, NEW pair \in Pairs, ResolveChild(h, pair) PROVE Kept
    <2>1. PICK risk \in {RiskOf[decided[pair]], "review"} :
            refreshers' = [refreshers EXCEPT ![h].todo = @ \ {pair}, ![h].holds = {<<pair, risk>>}]
      BY <1>10 DEF ResolveChild
    <2>2. risk \in BioRisk /\ (risk = "allowed" => pair \in approved)
      BY <1>1, <2>1, RiskOfDecision DEF BioRisk, CopiesAreDecisions
    <2> DEFINE r == [refreshers[h] EXCEPT !.todo = @ \ {pair}, !.holds = {<<pair, risk>>}]
    <2>3. r \in RefresherRecord /\ r.holds = {<<pair, risk>>}
      <3>1. refreshers[h] \in RefresherRecord
        BY <1>1
      <3>2. refreshers[h].todo \ {pair} \in SUBSET Pairs
            /\ {<<pair, risk>>} \in SUBSET (Pairs \X BioRisk)
        BY <2>2, <3>1 DEF RefresherRecord
      <3> QED BY <3>1, <3>2 DEF RefresherRecord
    <2>4. refreshers' = [refreshers EXCEPT ![h] = r]
      BY <1>1, <2>1
    <2>5. UNCHANGED <<decided, approved, pageEdits>>
      BY <1>10 DEF ResolveChild
    <2>6. \A q \in Pairs : <<q, "allowed">> \in r.holds => q \in approved
      BY <2>2, <2>3
    <2> HIDE DEF r
    <2> QED BY <1>7, <2>3, <2>4, <2>5, <2>6
  <1>11. ASSUME NEW h \in Refresher, NEW pair \in Pairs, NEW risk \in BioRisk,
                SyncChildRisk(h, pair, risk)
         PROVE  Kept
    <2> DEFINE r == [refreshers[h] EXCEPT !.holds = {}]
    <2>1. r \in RefresherRecord /\ r.holds = {}
      BY <1>1 DEF RefresherRecord
    <2>2. refreshers' = [refreshers EXCEPT ![h] = r] /\ UNCHANGED <<decided, approved, pageEdits>>
      BY <1>1, <1>11 DEF SyncChildRisk
    <2> HIDE DEF r
    <2> QED BY <1>7, <2>1, <2>2
  <1>14. ASSUME NEW h \in Refresher, CountUnresolved(h) PROVE Kept
    <2> DEFINE r == [refreshers[h] EXCEPT !.counted = TRUE]
    <2>1. r \in RefresherRecord /\ r.holds = {}
      BY <1>1, <1>14 DEF CountUnresolved, RefresherRecord
    <2>2. refreshers' = [refreshers EXCEPT ![h] = r] /\ UNCHANGED <<decided, approved, pageEdits>>
      BY <1>1, <1>14 DEF CountUnresolved
    <2> HIDE DEF r
    <2> QED BY <1>7, <2>1, <2>2
  <1>12. \/ UNCHANGED <<decided, approved, refreshers, pageEdits>>
         \/ \E e \in PageEditor, p \in Page : ReadPage(e, p)
         \/ \E e \in PageEditor : pageEdits' = [pageEdits EXCEPT ![e] = NoPageEdit]
                                  /\ UNCHANGED <<decided, approved, refreshers>>
         \/ \E c \in Child, d \in Destination, decision \in DOMAIN RiskOf : Decide(c, d, decision)
         \/ \E h \in Refresher : refreshers' = [refreshers EXCEPT ![h] = Idle]
                                 /\ UNCHANGED <<decided, approved, pageEdits>>
         \/ \E h \in Refresher, p \in Page, publish \in BOOLEAN : BeginRefresh(h, p, publish)
         \/ \E h \in Refresher, pair \in Pairs : ResolveChild(h, pair)
         \/ \E h \in Refresher, pair \in Pairs, risk \in BioRisk : SyncChildRisk(h, pair, risk)
         \/ \E h \in Refresher : CountUnresolved(h)
    BY DEF BioNext, bioVars, BioRisk, CreatePage, UpdatePage, PausePage, DeletePage, PageEditEnds,
           RefreshEnds, PublishPage
  <1>13. CASE UNCHANGED <<decided, approved, refreshers, pageEdits>>
    BY <1>1, <1>3, <1>13
  <1> QED BY <1>4, <1>5, <1>6, <1>8, <1>9, <1>10, <1>11, <1>12, <1>13, <1>14 DEF EditRecord

LEMMA BioInvStep == BioInv /\ [BioNext]_bioVars => BioInv'
  <1> SUFFICES ASSUME BioInv, [BioNext]_bioVars PROVE BioInv'
    OBVIOUS
  <1> QED BY PagesStep, ChildrenStep, CountedStep, CopiesStep DEF BioInv, BioTypes

LEMMA BioInvInit == BioInit => BioInv
  <1> SUFFICES ASSUME BioInit PROVE BioInv
    OBVIOUS
  <1>1. NewPage \in PageRecord /\ NoRow \in ChildRecord /\ Idle \in RefresherRecord
        /\ NoPageEdit \in [of : Page \cup {NoPage}, version : 0 .. MaxPageVersion]
        /\ 0 \in 0 .. BioQuota
    BY BioAssumption
       DEF NewPage, PageRecord, NoRow, ChildRecord, BioRisk, Idle, RefresherRecord, NoPageEdit
  <1>2. BioTypes
    BY <1>1 DEF BioInit, BioTypes
  <1>3. LinksLeadSomewhere /\ ApprovalOfThisDestination
    BY DEF BioInit, NoRow, LinksLeadSomewhere, ApprovalOfThisDestination
  <1>4. CopiesAreDecisions /\ CountedOnApproval
    BY DEF BioInit, Idle, CopiesAreDecisions, CountedOnApproval
  <1>5. ActivePages = {}
    BY DEF BioInit, NewPage, ActivePages
  <1>6. PagesAreCounted
    BY <1>5, FS_EmptySet DEF BioInit, PagesAreCounted
  <1> QED BY <1>2, <1>3, <1>4, <1>6 DEF BioInv

LEMMA BioInvType == BioInv => BioTypeOK
  <1> SUFFICES ASSUME BioInv PROVE BioTypeOK
    OBVIOUS
  <1>1. \A h \in Refresher :
           /\ refreshers[h].of \in Page \cup {NoPage} /\ refreshers[h].version \in 0 .. MaxPageVersion
           /\ refreshers[h].todo \subseteq Pairs
           /\ refreshers[h].holds \subseteq Pairs \X {"allowed", "blocked", "review"}
           /\ refreshers[h].counted \in BOOLEAN
    BY DEF BioInv, BioTypes, RefresherRecord, BioRisk
  <1> QED BY <1>1, RiskOfDecision
          DEF BioInv, BioTypes, BioTypeOK, PageRecord, ChildRecord, BioRisk

LEMMA PublishStep ==
    ASSUME BioInv, [BioNext]_bioVars, NEW p \in Page,
           pages[p].status # "published", pages'[p].status = "published"
    PROVE  \A c \in ChildrenOf(p) : <<c, childRows[c].destination>> \in approved
  <1>1. ~UNCHANGED pages
    OBVIOUS
  <1>2. PICK q \in Page : CreatesPage(q) \/ ChangesPage(q) \/ DeletesPage(q)
    BY <1>1, PageStepKinds
  <1>3. pages \in [Page -> PageRecord]
    BY DEF BioInv, BioTypes
  <1>4. q = p /\ ChangesPage(q)
    BY <1>2, <1>3 DEF CreatesPage, ChangesPage, DeletesPage
  <1>5. \E h \in Refresher : refreshers[h].counted /\ refreshers[h].of = p
    BY <1>3, <1>4 DEF ChangesPage
  <1> QED BY <1>5 DEF BioInv, CountedOnApproval

(* Every step takes one page, gives one back or leaves the counter alone. *)
LEMMA BioQuotaStep ==
    ASSUME BioInv, [BioNext]_bioVars
    PROVE  [BioQuotaCounter!Next]_<<bioUsed, ActivePages, DeletedPages>>
  <1>1. CASE UNCHANGED <<pages, bioUsed>>
    BY <1>1 DEF ActivePages, DeletedPages
  <1>2. ASSUME NEW p \in Page, CreatesPage(p) PROVE BioQuotaCounter!Take(p)
    BY <1>2, ActivePagesStep DEF CreatesPage, BioQuotaCounter!Take
  <1>3. ASSUME NEW p \in Page, ChangesPage(p) PROVE UNCHANGED <<bioUsed, ActivePages, DeletedPages>>
    BY <1>3, ActivePagesStep DEF ChangesPage
  <1>4. ASSUME NEW p \in Page, DeletesPage(p) PROVE BioQuotaCounter!GiveBack(p)
    BY <1>4, ActivePagesStep, PageGivenBack DEF BioQuotaCounter!GiveBack
  <1> QED BY <1>1, <1>2, <1>3, <1>4, PageStepKinds DEF BioQuotaCounter!Next

(* However late the copy of a decision arrives and whatever its link was changed to meanwhile, *)
(* an approval is of the destination the row has, a page goes public on approvals only, and    *)
(* the counter row implements QuotaCounter.                                                     *)
THEOREM BioIsSafe == BioSpec => BioSafety
  <1>1. BioInit => BioQuotaCounter!Init
    BY DEF BioInit, NewPage, BioQuotaCounter!Init, ActivePages, DeletedPages
  <1>2. BioInv /\ [BioNext]_bioVars
          => [BioQuotaCounter!Next]_<<bioUsed, ActivePages, DeletedPages>>
    BY BioQuotaStep
  <1>3. BioInv => BioTypeOK /\ ApprovalOfThisDestination
    BY BioInvType DEF BioInv
  <1>4. BioInv /\ [BioNext]_bioVars
          => [\A p \in Page : pages[p].status # "published" /\ pages'[p].status = "published" =>
                \A c \in ChildrenOf(p) : <<c, childRows[c].destination>> \in approved]_bioVars
    BY PublishStep
  <1> QED BY <1>1, <1>2, <1>3, <1>4, BioInvInit, BioInvStep, PTL
          DEF BioSpec, BioSafety, PublishedOnApproval, BioKeepsQuota, BioQuotaCounter!Spec

-----------------------------------------------------------------------------
(* AdminConsole: sign-in and governed mutations *)

CredentialRow == [failed : Nat, locked : BOOLEAN, totp : {"none", "pending", "active"}, secret : Versions]
AdminSessionRow == [of : Admin \cup {NoAdmin}, status : {"none", "active", "revoked"},
                    mfa : {"none", "fresh", "stale"}]
OfficialRow == [enabled : BOOLEAN, default : BOOLEAN, version : Versions,
                https : {"pending", "active", "failed"}]
AnnouncementRow == [state : {"draft", "scheduled", "published", "archived"}, version : Versions]
GovernedRow == [setting : Versions, workspace : {"active", "suspended"},
                domains : [OfficialDomain -> OfficialRow], announcement : AnnouncementRow]
CallRecord == [by : Admin \cup {NoAdmin}, asked : SUBSET Asked, key : IdemKey \cup {NoAdmin},
               missed : BOOLEAN]
EffectKey == Admin \X Kinds \X IdemKey

\* What is known of the default domain, for any value of the governed rows.
ServesByDefault(g) ==
    \A d \in OfficialDomain : g.domains[d].default => g.domains[d].enabled /\ g.domains[d].https = "active"

\* A secret exists exactly once a second factor was enrolled.
SecretsAreEnrolled == \A a \in Admin : credentials[a].totp = "none" <=> credentials[a].secret = 0

\* Between two locks the wrong attempts are among those the row counts, and short of the
\* limit while the row is not locked.
GuessesAreCounted ==
    \A a \in Admin : /\ guesses[a] <= credentials[a].failed
                     /\ guesses[a] <= MaxFailures
                     /\ ~credentials[a].locked => guesses[a] < MaxFailures

SessionsHaveOwners ==
    \A s \in AdminSessionId :
        /\ adminSessions[s].of = NoAdmin => adminSessions[s].status = "none" /\ adminSessions[s].mfa = "none"

CallsAreAuthenticated ==
    \A c \in Call : calls[c].asked # {} => calls[c].by \in Admin /\ calls[c].key \in IdemKey

\* A key that has changed something has its record.
EffectsAreRecorded ==
    /\ \A k \in EffectKey : effects[k] <= 1
    /\ \A a \in Admin, kind \in Kinds, key \in IdemKey :
         effects[<<a, kind, key>>] # 0 => \E r \in records : r.by = a /\ r.asked.kind = kind /\ r.key = key

SignInInv ==
    /\ credentials \in [Admin -> CredentialRow]
    /\ adminSessions \in [AdminSessionId -> AdminSessionRow]
    /\ guesses \in [Admin -> Nat]
    /\ SecretsAreEnrolled
    /\ SessionsHaveOwners
    /\ GuessesAreCounted
    /\ MfaBehindActiveTotp

MutationInv ==
    /\ governed \in GovernedRow
    /\ calls \in [Call -> CallRecord]
    /\ records \subseteq [by : Admin, asked : Asked, key : IdemKey]
    /\ effects \in [EffectKey -> Nat]
    /\ CallsAreAuthenticated
    /\ EffectsAreRecorded
    /\ ServesByDefault(governed)

AdminInv == SignInInv /\ MutationInv

LEMMA AskedKinds ==
    ASSUME NEW asked \in Asked
    PROVE  /\ asked.kind \in Kinds /\ asked.expected \in Versions
           /\ asked.kind = "domain" => asked.on \in OfficialDomain /\ asked.act \in DomainActs
           /\ asked.kind = "announcement" => asked.act \in AnnouncementActs
  <1>1. CASE asked \in [kind : {"setting"}, on : {NoAdmin}, act : {"update"}, expected : Versions]
    BY <1>1 DEF Kinds
  <1>2. CASE asked \in [kind : {"domain"}, on : OfficialDomain, act : DomainActs, expected : Versions]
    BY <1>2 DEF Kinds
  <1>3. CASE asked \in [kind : {"announcement"}, on : {NoAdmin}, act : AnnouncementActs, expected : Versions]
    BY <1>3 DEF Kinds
  <1>4. CASE asked \in [kind : {"workspace"}, on : {NoAdmin}, act : {"suspend", "restore"}, expected : {0}]
    BY <1>4, AdminAssumption DEF Kinds, Versions
  <1> QED BY <1>1, <1>2, <1>3, <1>4 DEF Asked

(* What each mutation makes of the governed rows: rows of their types, among which the *)
(* default domain still serves.                                                         *)
LEMMA SettingOutcome ==
    ASSUME NEW g \in GovernedRow, ServesByDefault(g), NEW asked \in Asked,
           NEW h \in UpdatePlatformSetting(g, asked)
    PROVE  h \in GovernedRow /\ ServesByDefault(h)
  <1>1. g.setting + 1 \in Versions /\ h = [g EXCEPT !.setting = g.setting + 1]
    BY AdminAssumption DEF UpdatePlatformSetting, GovernedRow, Versions
  <1>2. h \in GovernedRow /\ h.domains = g.domains
    BY <1>1 DEF GovernedRow
  <1> QED BY <1>2 DEF ServesByDefault

LEMMA AnnouncementOutcome ==
    ASSUME NEW g \in GovernedRow, ServesByDefault(g), NEW asked \in Asked, asked.kind = "announcement",
           NEW h \in MutateAnnouncement(g, asked)
    PROVE  h \in GovernedRow /\ ServesByDefault(h)
  <1> DEFINE To == [schedule |-> "scheduled", publish |-> "published", archive |-> "archived"]
  <1>1. h = [g EXCEPT !.announcement = [state |-> To[asked.act], version |-> g.announcement.version + 1]]
        /\ g.announcement.version < MaxGoverned
    BY DEF MutateAnnouncement
  <1>2. To[asked.act] \in {"scheduled", "published", "archived"}
    BY AskedKinds DEF AnnouncementActs
  <1>3. g.announcement.version + 1 \in Versions
    BY <1>1, AdminAssumption DEF GovernedRow, AnnouncementRow, Versions
  <1> HIDE DEF To
  <1>4. [state |-> To[asked.act], version |-> g.announcement.version + 1] \in AnnouncementRow
    BY <1>2, <1>3 DEF AnnouncementRow
  <1>5. h \in GovernedRow /\ h.domains = g.domains
    BY <1>1, <1>4 DEF GovernedRow
  <1> QED BY <1>5 DEF ServesByDefault

LEMMA WorkspaceOutcome ==
    ASSUME NEW g \in GovernedRow, ServesByDefault(g), NEW asked \in Asked,
           NEW h \in MutateManagedWorkspace(g, asked)
    PROVE  h \in GovernedRow /\ ServesByDefault(h)
  <1>1. \E w \in {"active", "suspended"} : h = [g EXCEPT !.workspace = w]
    BY DEF MutateManagedWorkspace
  <1>2. h \in GovernedRow /\ h.domains = g.domains
    BY <1>1 DEF GovernedRow
  <1> QED BY <1>2 DEF ServesByDefault

LEMMA DomainOutcome ==
    ASSUME NEW g \in GovernedRow, ServesByDefault(g), NEW asked \in Asked, asked.kind = "domain",
           NEW h \in MutateOfficialDomain(g, asked)
    PROVE  h \in GovernedRow /\ ServesByDefault(h)
  <1> DEFINE d == g.domains[asked.on]
             to == [d EXCEPT !.version = @ + 1,
                        !.enabled = (asked.act = "enable") \/ (@ /\ asked.act # "disable"),
                        !.default = @ \/ asked.act = "set_default",
                        !.https = CASE asked.act = "https_active" -> "active"
                                    [] asked.act = "https_failed" -> "failed"
                                    [] OTHER -> @]
             others == [o \in OfficialDomain |->
                      IF o = asked.on THEN to
                      ELSE IF g.domains[o].default /\ g.domains[o].version < MaxGoverned
                           THEN [g.domains[o] EXCEPT !.default = FALSE, !.version = @ + 1]
                           ELSE g.domains[o]]
             refused == \/ d.version # asked.expected \/ d.version = MaxGoverned
                        \/ asked.act \in {"disable", "https_failed"} /\ d.default
                        \/ asked.act = "set_default" /\ ~(d.enabled /\ d.https = "active")
  <1>1. asked.on \in OfficialDomain /\ asked.act \in DomainActs
    BY AskedKinds
  <1>2. d \in OfficialRow /\ (d.default => d.enabled /\ d.https = "active")
    BY <1>1 DEF GovernedRow, ServesByDefault
  <1>3. ~refused
    BY DEF MutateOfficialDomain
  <1>4. h = [g EXCEPT !.domains[asked.on] = to] \/ h = [g EXCEPT !.domains = others]
    BY <1>3 DEF MutateOfficialDomain
  <1>5. d.version + 1 \in Versions
    BY <1>2, <1>3, AdminAssumption DEF OfficialRow, Versions
  <1>6. to \in OfficialRow
    BY <1>2, <1>5 DEF OfficialRow
  <1>7. to.default => to.enabled /\ to.https = "active"
    BY <1>1, <1>2, <1>3 DEF OfficialRow, DomainActs
  <1> HIDE DEF to
  <1>8. \A o \in OfficialDomain :
          others[o] \in OfficialRow /\ (others[o].default => others[o].enabled /\ others[o].https = "active")
    <2> SUFFICES ASSUME NEW o \in OfficialDomain
                 PROVE  others[o] \in OfficialRow
                        /\ (others[o].default => others[o].enabled /\ others[o].https = "active")
      OBVIOUS
    <2>1. g.domains[o] \in OfficialRow
          /\ (g.domains[o].default => g.domains[o].enabled /\ g.domains[o].https = "active")
      BY DEF GovernedRow, ServesByDefault
    <2>2. CASE o = asked.on
      BY <1>6, <1>7, <2>2
    <2>3. CASE o # asked.on /\ g.domains[o].default /\ g.domains[o].version < MaxGoverned
      <3>1. g.domains[o].version + 1 \in Versions
        BY <2>1, <2>3, AdminAssumption DEF OfficialRow, Versions
      <3>2. others[o] = [g.domains[o] EXCEPT !.default = FALSE, !.version = @ + 1]
        BY <2>3
      <3> HIDE DEF others
      <3> QED BY <2>1, <3>1, <3>2 DEF OfficialRow
    <2>4. CASE o # asked.on /\ ~(g.domains[o].default /\ g.domains[o].version < MaxGoverned)
      BY <2>1, <2>4
    <2> QED BY <2>2, <2>3, <2>4
  <1>9. CASE h = [g EXCEPT !.domains = others]
    <2>1. others \in [OfficialDomain -> OfficialRow]
      BY <1>8
    <2> HIDE DEF others
    <2>2. h \in GovernedRow /\ h.domains = others
      BY <1>9, <2>1 DEF GovernedRow
    <2> QED BY <1>8, <2>2 DEF ServesByDefault
  <1>10. CASE h = [g EXCEPT !.domains[asked.on] = to]
    <2>1. h \in GovernedRow /\ h.domains = [g.domains EXCEPT ![asked.on] = to]
      BY <1>1, <1>6, <1>10 DEF GovernedRow
    <2>2. g.domains \in [OfficialDomain -> OfficialRow]
      BY DEF GovernedRow
    <2> QED BY <1>1, <1>7, <2>1, <2>2 DEF ServesByDefault
  <1> QED BY <1>4, <1>9, <1>10

LEMMA MutationOutcome ==
    ASSUME NEW g \in GovernedRow, ServesByDefault(g), NEW asked \in Asked, NEW h \in Outcomes(g, asked)
    PROVE  h \in GovernedRow /\ ServesByDefault(h)
  <1>1. asked.kind \in Kinds
    BY AskedKinds
  <1>2. CASE asked.kind = "setting"
    BY <1>2, SettingOutcome DEF Outcomes
  <1>3. CASE asked.kind = "domain"
    BY <1>3, DomainOutcome DEF Outcomes
  <1>4. CASE asked.kind = "announcement"
    BY <1>4, AnnouncementOutcome DEF Outcomes
  <1>5. CASE asked.kind = "workspace"
    BY <1>5, WorkspaceOutcome DEF Outcomes
  <1> QED BY <1>1, <1>2, <1>3, <1>4, <1>5 DEF Kinds

(* A mutation that commits had no record, so none of its key was applied before. *)
LEMMA CommitStep ==
    ASSUME MutationInv, NEW c \in Call, CommitCall(c)
    PROVE  MutationInv'
  <1>1. PICK asked \in calls[c].asked :
           /\ governed' \in Outcomes(governed, asked)
           /\ StoreIdempotency(c, asked)
           /\ effects' = [effects EXCEPT ![<<calls[c].by, asked.kind, calls[c].key>>] =
                              @ + (IF governed' # governed THEN 1 ELSE 0)]
    BY DEF CommitCall
  <1>2. calls[c] \in CallRecord /\ asked \in Asked /\ calls[c].by \in Admin /\ calls[c].key \in IdemKey
    BY <1>1 DEF MutationInv, CallRecord, CallsAreAuthenticated
  <1> DEFINE k == <<calls[c].by, asked.kind, calls[c].key>>
  <1>3. k \in EffectKey
    BY <1>2, AskedKinds DEF EffectKey
  <1>4. governed' \in GovernedRow /\ ServesByDefault(governed)'
    BY <1>1, <1>2, MutationOutcome DEF MutationInv, ServesByDefault
  <1>5. calls' = [calls EXCEPT ![c] = NoCall] /\ NoCall \in CallRecord /\ NoCall.asked = {}
    BY DEF CommitCall, NoCall, CallRecord
  <1>6. calls' \in [Call -> CallRecord] /\ CallsAreAuthenticated'
    BY <1>5 DEF MutationInv, CallsAreAuthenticated
  <1>7. records' = records \cup {[by |-> calls[c].by, asked |-> asked, key |-> calls[c].key]}
        /\ ~\E r \in records : r.by = calls[c].by /\ r.asked.kind = asked.kind /\ r.key = calls[c].key
    BY <1>1 DEF StoreIdempotency, SameKey
  <1>8. records' \subseteq [by : Admin, asked : Asked, key : IdemKey]
    BY <1>2, <1>7 DEF MutationInv
  <1>9. effects[k] = 0 /\ effects \in [EffectKey -> Nat]
    <2>1. asked.kind \in Kinds
      BY <1>2, AskedKinds
    <2>2. effects[<<calls[c].by, asked.kind, calls[c].key>>] = 0
      BY <1>2, <1>7, <2>1 DEF MutationInv, EffectsAreRecorded
    <2> QED BY <2>2 DEF MutationInv
  <1>10. \E n \in {0, 1} : effects' = [effects EXCEPT ![k] = n]
    <2>1. CASE governed' # governed
      BY <1>1, <1>9, <2>1
    <2>2. CASE governed' = governed
      BY <1>1, <1>9, <2>2
    <2> QED BY <2>1, <2>2
  <1>11. effects' \in [EffectKey -> Nat]
    <2>1. PICK n \in Nat : effects' = [effects EXCEPT ![k] = n]
      BY <1>10
    <2> HIDE DEF k
    <2>2. effects \in [EffectKey -> Nat]
      BY <1>9
    <2> QED BY <2>1, <2>2
  <1>12. \A j \in EffectKey : effects'[j] <= 1
    BY <1>9, <1>10 DEF MutationInv, EffectsAreRecorded
  <1>13. ASSUME NEW a \in Admin, NEW kind \in Kinds, NEW key \in IdemKey, effects'[<<a, kind, key>>] # 0
         PROVE  \E r \in records' : r.by = a /\ r.asked.kind = kind /\ r.key = key
    <2>1. <<a, kind, key>> \in EffectKey
      BY DEF EffectKey
    <2>2. CASE <<a, kind, key>> = k
      <3>1. a = calls[c].by /\ kind = asked.kind /\ key = calls[c].key
        BY <2>2
      <3> DEFINE r == [by |-> calls[c].by, asked |-> asked, key |-> calls[c].key]
      <3>2. r \in records' /\ r.by = a /\ r.asked.kind = kind /\ r.key = key
        BY <1>7, <3>1
      <3> QED BY <3>2
    <2>3. CASE <<a, kind, key>> # k
      <3>1. effects'[<<a, kind, key>>] = effects[<<a, kind, key>>]
        BY <1>9, <1>10, <2>1, <2>3
      <3> QED BY <1>7, <1>13, <3>1 DEF MutationInv, EffectsAreRecorded
    <2> QED BY <2>2, <2>3
  <1>14. EffectsAreRecorded'
    BY <1>12, <1>13 DEF EffectsAreRecorded
  <1> QED BY <1>4, <1>6, <1>8, <1>11, <1>14 DEF MutationInv

LEMMA MutationStep == AdminInv /\ [AdminNext]_adminVars => MutationInv'
  <1> SUFFICES ASSUME AdminInv, [AdminNext]_adminVars PROVE MutationInv'
    OBVIOUS
  <1>1. calls \in [Call -> CallRecord] /\ CallsAreAuthenticated /\ MutationInv
    BY DEF AdminInv, MutationInv
  <1>2. ASSUME UNCHANGED <<governed, records, effects>>, calls' \in [Call -> CallRecord],
               CallsAreAuthenticated'
        PROVE  MutationInv'
    BY <1>1, <1>2 DEF MutationInv, EffectsAreRecorded, ServesByDefault
  <1>3. CASE UNCHANGED <<governed, calls, records, effects>>
    BY <1>1, <1>2, <1>3 DEF CallsAreAuthenticated
  <1>4. ASSUME NEW c \in Call, CallEnds(c) PROVE MutationInv'
    <2>1. NoCall \in CallRecord /\ NoCall.asked = {}
      BY DEF NoCall, CallRecord
    <2> QED BY <1>1, <1>2, <1>4, <2>1 DEF CallEnds, CallsAreAuthenticated
  <1>5. ASSUME NEW c \in Call, LoadIdempotency(c) PROVE MutationInv'
    <2>1. calls' = [calls EXCEPT ![c].missed = TRUE] /\ UNCHANGED <<governed, records, effects>>
      BY <1>5 DEF LoadIdempotency
    <2>2. calls' \in [Call -> CallRecord]
      BY <1>1, <2>1 DEF CallRecord
    <2>3. CallsAreAuthenticated'
      BY <1>1, <2>1 DEF CallsAreAuthenticated, CallRecord
    <2> QED BY <1>2, <2>1, <2>2, <2>3
  <1>6. ASSUME NEW c \in Call, NEW s \in AdminSessionId, NEW key \in IdemKey, NEW asked \in Asked,
               BeginCall(c, s, key, asked)
        PROVE  MutationInv'
    <2>1. adminSessions[s].of \in Admin
      BY <1>6 DEF BeginCall, Active, AdminInv, SignInInv, SessionsHaveOwners, AdminSessionRow
    <2> DEFINE r == [by |-> adminSessions[s].of, asked |-> {asked}, key |-> key, missed |-> FALSE]
    <2>2. r \in CallRecord /\ r.by \in Admin /\ r.key \in IdemKey
      BY <2>1 DEF CallRecord
    <2>3. calls' = [calls EXCEPT ![c] = r] /\ UNCHANGED <<governed, records, effects>>
      BY <1>6 DEF BeginCall
    <2> HIDE DEF r
    <2> QED BY <1>1, <1>2, <2>2, <2>3 DEF CallsAreAuthenticated
  <1>7. ASSUME NEW c \in Call, CommitCall(c) PROVE MutationInv'
    BY <1>1, <1>7, CommitStep
  <1>8. \/ UNCHANGED <<governed, calls, records, effects>>
        \/ \E c \in Call : CallEnds(c) \/ LoadIdempotency(c) \/ CommitCall(c)
        \/ \E c \in Call, s \in AdminSessionId, key \in IdemKey, asked \in Asked : BeginCall(c, s, key, asked)
    BY DEF AdminNext, adminVars, LoginFails, LockEnds, Login, MfaGrowsStale, EnrollTOTP, Logout,
           ConfirmTOTP, RevokeAdminSession
  <1> QED BY <1>3, <1>4, <1>5, <1>6, <1>7, <1>8

(* Steps on one administrator's row, and on one session. *)
LEMMA CredentialStep ==
    ASSUME SignInInv, NEW a \in Admin, NEW r \in CredentialRow, NEW n \in Nat,
           credentials' = [credentials EXCEPT ![a] = r], guesses' = [guesses EXCEPT ![a] = n],
           r.totp = "none" <=> r.secret = 0,
           credentials[a].totp = "active" => r.totp = "active",
           n <= r.failed, n <= MaxFailures, ~r.locked => n < MaxFailures,
           UNCHANGED adminSessions
    PROVE  SignInInv'
  <1>1. credentials' \in [Admin -> CredentialRow] /\ guesses' \in [Admin -> Nat]
    BY DEF SignInInv
  <1>2. SecretsAreEnrolled' /\ GuessesAreCounted'
    BY DEF SignInInv, SecretsAreEnrolled, GuessesAreCounted
  <1>3. SessionsHaveOwners'
    BY DEF SignInInv, SessionsHaveOwners
  <1>4. \A s \in AdminSessionId : adminSessions[s].mfa # "none" => adminSessions[s].of \in Admin
    BY DEF SignInInv, SessionsHaveOwners, AdminSessionRow
  <1>5. MfaBehindActiveTotp'
    BY <1>4 DEF SignInInv, MfaBehindActiveTotp
  <1> QED BY <1>1, <1>2, <1>3, <1>5 DEF SignInInv

LEMMA SessionStep ==
    ASSUME SignInInv, NEW s \in AdminSessionId, NEW r \in AdminSessionRow,
           adminSessions' = [adminSessions EXCEPT ![s] = r],
           r.of \in Admin, r.mfa # "none" => credentials[r.of].totp = "active"
    PROVE  /\ adminSessions' \in [AdminSessionId -> AdminSessionRow]
           /\ SessionsHaveOwners'
           /\ \A t \in AdminSessionId : adminSessions'[t].mfa # "none" =>
                adminSessions'[t].of \in Admin /\ credentials[adminSessions'[t].of].totp = "active"
  <1>1. adminSessions' \in [AdminSessionId -> AdminSessionRow]
    BY DEF SignInInv
  <1>2. SessionsHaveOwners'
    BY AdminAssumption DEF SignInInv, SessionsHaveOwners
  <1>3. \A t \in AdminSessionId : adminSessions[t].mfa # "none" =>
           adminSessions[t].of \in Admin /\ credentials[adminSessions[t].of].totp = "active"
    BY DEF SignInInv, SessionsHaveOwners, AdminSessionRow, MfaBehindActiveTotp
  <1> QED BY <1>1, <1>2, <1>3 DEF SignInInv

LEMMA SignInStep == SignInInv /\ [AdminNext]_adminVars => SignInInv'
  <1> SUFFICES ASSUME SignInInv, [AdminNext]_adminVars PROVE SignInInv'
    OBVIOUS
  <1>1. /\ credentials \in [Admin -> CredentialRow] /\ guesses \in [Admin -> Nat]
        /\ adminSessions \in [AdminSessionId -> AdminSessionRow]
        /\ MaxFailures \in Nat \ {0} /\ MaxGoverned \in Nat
    BY AdminAssumption DEF SignInInv
  <1>2. \A s \in AdminSessionId : Active(s) \/ adminSessions[s].mfa # "none"
                                    => adminSessions[s].of \in Admin
    BY <1>1 DEF SignInInv, SessionsHaveOwners, AdminSessionRow, Active
  <1>3. \A a \in Admin : /\ guesses[a] <= credentials[a].failed /\ guesses[a] <= MaxFailures
                         /\ ~credentials[a].locked => guesses[a] < MaxFailures
                         /\ credentials[a].totp = "none" <=> credentials[a].secret = 0
    BY DEF SignInInv, GuessesAreCounted, SecretsAreEnrolled
  <1>4. CASE UNCHANGED <<credentials, adminSessions, guesses>>
    BY <1>1, <1>4 DEF SignInInv, SecretsAreEnrolled, SessionsHaveOwners, GuessesAreCounted,
                      MfaBehindActiveTotp
  <1>5. ASSUME NEW s \in AdminSessionId, NEW r \in AdminSessionRow,
               adminSessions' = [adminSessions EXCEPT ![s] = r],
               r.of \in Admin, r.mfa # "none" => credentials[r.of].totp = "active",
               UNCHANGED <<credentials, guesses>>
        PROVE  SignInInv'
    BY <1>1, <1>5, SessionStep
       DEF SignInInv, SecretsAreEnrolled, GuessesAreCounted, MfaBehindActiveTotp
  <1>6. ASSUME NEW a \in Admin, LoginFails(a) PROVE SignInInv'
    <2> DEFINE n == credentials[a].failed + 1
    <2> DEFINE full == n >= MaxFailures
    <2> DEFINE r == [credentials[a] EXCEPT !.failed = n, !.locked = full]
    <2>1. credentials[a] \in CredentialRow /\ guesses[a] \in Nat
      BY <1>1
    <2>0. full \in BOOLEAN /\ n \in Nat
      BY <2>1 DEF CredentialRow
    <2> HIDE DEF full, n
    <2>2. /\ r \in CredentialRow /\ r.failed = n /\ r.locked = full
          /\ r.totp = credentials[a].totp /\ r.secret = credentials[a].secret
      BY <2>0, <2>1 DEF CredentialRow
    <2> USE DEF full, n
    <2>3a. credentials' = [credentials EXCEPT ![a].failed = n, ![a].locked = full]
      BY <1>1, <1>6 DEF LoginFails, CountFailure
    <2>3. /\ credentials' = [credentials EXCEPT ![a] = r]
          /\ guesses' = [guesses EXCEPT ![a] = guesses[a] + 1]
          /\ UNCHANGED adminSessions /\ ~credentials[a].locked
      BY <1>1, <1>6, <2>3a DEF LoginFails
    <2>4. /\ guesses[a] + 1 <= n /\ guesses[a] + 1 <= MaxFailures
          /\ n < MaxFailures => guesses[a] + 1 < MaxFailures
      BY <1>1, <1>3, <2>1, <2>3 DEF CredentialRow
    <2>5. guesses[a] + 1 \in Nat /\ (~r.locked => n < MaxFailures)
      <3>1. n \in Nat /\ MaxFailures \in Nat /\ guesses[a] + 1 \in Nat
        BY <1>1, <2>0, <2>1
      <3>2. ~full => n < MaxFailures
        <4> HIDE DEF n
        <4> QED BY <3>1
      <3> HIDE DEF r
      <3> QED BY <2>2, <3>1, <3>2
    <2> HIDE DEF r, n
    <2> QED BY <1>3, <2>2, <2>3, <2>4, <2>5, CredentialStep
  <1>7. ASSUME NEW a \in Admin, LockEnds(a) PROVE SignInInv'
    <2> DEFINE r == [credentials[a] EXCEPT !.locked = FALSE]
    <2>1. credentials[a] \in CredentialRow
      BY <1>1
    <2>2. /\ r \in CredentialRow /\ r.failed \in Nat /\ r.totp = credentials[a].totp
          /\ r.secret = credentials[a].secret
      BY <2>1 DEF CredentialRow
    <2>3. /\ credentials' = [credentials EXCEPT ![a] = r] /\ guesses' = [guesses EXCEPT ![a] = 0]
          /\ UNCHANGED adminSessions
      BY <1>1, <1>7 DEF LockEnds
    <2>4. 0 <= r.failed /\ 0 <= MaxFailures /\ 0 < MaxFailures
      BY <1>1, <2>2
    <2> HIDE DEF r
    <2> QED BY <1>3, <2>2, <2>3, <2>4, CredentialStep
  <1>8. ASSUME NEW a \in Admin, NEW code \in Versions, Login(a, code) PROVE SignInInv'
    <2>1. credentials[a] \in CredentialRow
      BY <1>1
    <2>2. PICK s \in AdminSessionId :
             adminSessions' = [adminSessions EXCEPT ![s] =
                [of |-> a, status |-> "active", mfa |-> IF credentials[a].totp = "active" THEN "fresh" ELSE "none"]]
      BY <1>8 DEF Login
    <2> DEFINE q == [of |-> a, status |-> "active",
                     mfa |-> IF credentials[a].totp = "active" THEN "fresh" ELSE "none"]
    <2>3. q \in AdminSessionRow /\ q.of \in Admin /\ (q.mfa # "none" => credentials[q.of].totp = "active")
      BY DEF AdminSessionRow
    <2>4. /\ adminSessions' \in [AdminSessionId -> AdminSessionRow] /\ SessionsHaveOwners'
          /\ \A t \in AdminSessionId : adminSessions'[t].mfa # "none" =>
               adminSessions'[t].of \in Admin /\ credentials[adminSessions'[t].of].totp = "active"
      BY <2>2, <2>3, SessionStep
    <2>5. credentials' = [credentials EXCEPT ![a].failed = 0] /\ guesses' = [guesses EXCEPT ![a] = 0]
          /\ ~credentials[a].locked
      BY <1>8 DEF Login
    <2>6. credentials' \in [Admin -> CredentialRow] /\ guesses' \in [Admin -> Nat]
          /\ \A b \in Admin : /\ credentials'[b].totp = credentials[b].totp
                              /\ credentials'[b].secret = credentials[b].secret
      BY <1>1, <2>5 DEF CredentialRow
    <2>7. GuessesAreCounted'
      BY <1>1, <1>3, <2>5 DEF GuessesAreCounted, CredentialRow
    <2>8. SecretsAreEnrolled' /\ MfaBehindActiveTotp'
      BY <1>3, <2>4, <2>6 DEF SecretsAreEnrolled, MfaBehindActiveTotp
    <2> QED BY <2>4, <2>6, <2>7, <2>8 DEF SignInInv
  <1>9. ASSUME NEW s \in AdminSessionId, MfaGrowsStale(s) PROVE SignInInv'
    <2> DEFINE r == [adminSessions[s] EXCEPT !.mfa = "stale"]
    <2>1. adminSessions[s] \in AdminSessionRow /\ adminSessions[s].mfa = "fresh"
          /\ adminSessions[s].of \in Admin /\ credentials[adminSessions[s].of].totp = "active"
      BY <1>1, <1>2, <1>9 DEF MfaGrowsStale, SignInInv, MfaBehindActiveTotp
    <2>2. r \in AdminSessionRow /\ r.of = adminSessions[s].of
      BY <2>1 DEF AdminSessionRow
    <2>3. adminSessions' = [adminSessions EXCEPT ![s] = r] /\ UNCHANGED <<credentials, guesses>>
      BY <1>1, <1>9 DEF MfaGrowsStale
    <2> HIDE DEF r
    <2> QED BY <1>5, <2>1, <2>2, <2>3
  <1>10. ASSUME NEW s \in AdminSessionId, Active(s),
                adminSessions' = [adminSessions EXCEPT ![s].status = "revoked"],
                UNCHANGED <<credentials, guesses>>
         PROVE  SignInInv'
    <2> DEFINE r == [adminSessions[s] EXCEPT !.status = "revoked"]
    <2>1. adminSessions[s] \in AdminSessionRow /\ adminSessions[s].of \in Admin
          /\ (adminSessions[s].mfa # "none" => credentials[adminSessions[s].of].totp = "active")
      BY <1>1, <1>2, <1>10 DEF SignInInv, MfaBehindActiveTotp
    <2>2. r \in AdminSessionRow /\ r.of = adminSessions[s].of /\ r.mfa = adminSessions[s].mfa
      BY <2>1 DEF AdminSessionRow
    <2>3. adminSessions' = [adminSessions EXCEPT ![s] = r]
      BY <1>1, <1>10
    <2> HIDE DEF r
    <2> QED BY <1>5, <1>10, <2>1, <2>2, <2>3
  <1>11. ASSUME NEW s \in AdminSessionId, EnrollTOTP(s) PROVE SignInInv'
    <2> DEFINE a == adminSessions[s].of
    <2> DEFINE r == [credentials[a] EXCEPT !.totp = "pending", !.secret = @ + 1]
    <2>1. a \in Admin
      BY <1>2, <1>11 DEF EnrollTOTP
    <2>2. credentials[a] \in CredentialRow /\ credentials[a].totp # "active"
          /\ credentials[a].secret < MaxGoverned
      BY <1>1, <1>11, <2>1 DEF EnrollTOTP
    <2>3. credentials[a].secret + 1 \in Versions /\ credentials[a].secret + 1 # 0
      BY <1>1, <2>2 DEF CredentialRow, Versions
    <2>4. /\ r \in CredentialRow /\ r.failed = credentials[a].failed /\ r.locked = credentials[a].locked
          /\ r.totp = "pending" /\ r.secret = credentials[a].secret + 1
      BY <2>2, <2>3 DEF CredentialRow
    <2>5. credentials' = [credentials EXCEPT ![a] = r] /\ guesses' = [guesses EXCEPT ![a] = guesses[a]]
          /\ UNCHANGED adminSessions
      BY <1>1, <1>11, <2>1 DEF EnrollTOTP
    <2>6. /\ guesses[a] \in Nat /\ guesses[a] <= r.failed /\ guesses[a] <= MaxFailures
          /\ ~r.locked => guesses[a] < MaxFailures
      BY <1>1, <1>3, <2>1, <2>4
    <2> HIDE DEF r, a
    <2>7. r.secret # 0 /\ r.totp # "none" /\ credentials[a].totp # "active"
      BY <2>2, <2>3, <2>4
    <2> QED BY <2>1, <2>4, <2>5, <2>6, <2>7, CredentialStep
  <1>12. ASSUME NEW s \in AdminSessionId, NEW code \in Versions, ConfirmTOTP(s, code) PROVE SignInInv'
    <2> DEFINE a == adminSessions[s].of
    <2>1. a \in Admin /\ credentials[a].totp = "pending"
      BY <1>2, <1>12 DEF ConfirmTOTP
    <2>2. credentials' = [credentials EXCEPT ![a].totp = "active"]
          /\ adminSessions' = [adminSessions EXCEPT ![s].mfa = "fresh"] /\ UNCHANGED guesses
      BY <1>12 DEF ConfirmTOTP
    <2>3. /\ credentials' \in [Admin -> CredentialRow] /\ credentials'[a].totp = "active"
          /\ \A b \in Admin : /\ credentials'[b].secret = credentials[b].secret
                              /\ credentials'[b].failed = credentials[b].failed
                              /\ credentials'[b].locked = credentials[b].locked
                              /\ b # a => credentials'[b].totp = credentials[b].totp
      BY <1>1, <2>1, <2>2 DEF CredentialRow
    <2>4. /\ adminSessions' \in [AdminSessionId -> AdminSessionRow]
          /\ \A t \in AdminSessionId : /\ adminSessions'[t].of = adminSessions[t].of
                                       /\ adminSessions'[t].status = adminSessions[t].status
                                       /\ t # s => adminSessions'[t].mfa = adminSessions[t].mfa
      BY <1>1, <2>2 DEF AdminSessionRow
    <2>5. SecretsAreEnrolled'
      BY <1>3, <2>1, <2>3 DEF SecretsAreEnrolled
    <2>6. GuessesAreCounted'
      BY <1>3, <2>2, <2>3 DEF GuessesAreCounted
    <2>7. SessionsHaveOwners'
      BY <2>1, <2>4, AdminAssumption DEF SignInInv, SessionsHaveOwners
    <2>8. MfaBehindActiveTotp'
      BY <1>2, <2>1, <2>3, <2>4 DEF SignInInv, MfaBehindActiveTotp
    <2> QED BY <1>1, <2>2, <2>3, <2>4, <2>5, <2>6, <2>7, <2>8 DEF SignInInv
  <1>13. \/ UNCHANGED <<credentials, adminSessions, guesses>>
         \/ \E a \in Admin : LoginFails(a) \/ LockEnds(a) \/ \E code \in Versions : Login(a, code)
         \/ \E s \in AdminSessionId :
              \/ MfaGrowsStale(s) \/ EnrollTOTP(s)
              \/ Active(s) /\ adminSessions' = [adminSessions EXCEPT ![s].status = "revoked"]
                 /\ UNCHANGED <<credentials, guesses>>
              \/ \E code \in Versions : ConfirmTOTP(s, code)
    BY DEF AdminNext, adminVars, CallEnds, LoadIdempotency, CommitCall, BeginCall, Logout,
           RevokeAdminSession
  <1> QED BY <1>4, <1>6, <1>7, <1>8, <1>9, <1>10, <1>11, <1>12, <1>13

LEMMA AdminInvInit == AdminInit => AdminInv
  <1> SUFFICES ASSUME AdminInit PROVE AdminInv
    OBVIOUS
  <1>1. /\ NoAdminSession \in AdminSessionRow /\ NoAdminSession.mfa = "none"
        /\ NoAdminSession.status = "none"
        /\ [failed |-> 0, locked |-> FALSE, totp |-> "none", secret |-> 0] \in CredentialRow
    BY AdminAssumption DEF NoAdminSession, AdminSessionRow, CredentialRow, Versions
  <1>2. SignInInv
    BY <1>1, AdminAssumption
       DEF AdminInit, SignInInv, SecretsAreEnrolled, SessionsHaveOwners, GuessesAreCounted,
           MfaBehindActiveTotp
  <1>3. NoCall \in CallRecord /\ NoCall.asked = {}
    BY DEF NoCall, CallRecord
  <1>4. \A row \in {Pending, Serving, Default} :
           row \in OfficialRow /\ (row.default => row.enabled /\ row.https = "active")
    <2>1. 1 \in Versions
      BY AdminAssumption DEF Versions
    <2>2. Pending \in OfficialRow /\ Pending.enabled /\ ~Pending.default
      BY <2>1 DEF Pending, OfficialRow
    <2>3. Serving \in OfficialRow /\ Serving.enabled /\ Serving.https = "active"
      BY <2>2 DEF Serving, OfficialRow
    <2>4. Default \in OfficialRow /\ Default.enabled /\ Default.https = "active"
      BY <2>3 DEF Default, OfficialRow
    <2> QED BY <2>2, <2>3, <2>4
  <1>5. PICK domains \in [OfficialDomain -> {Pending, Serving, Default}] :
           governed = [setting |-> 0, domains |-> domains,
                   announcement |-> [state |-> "draft", version |-> 1], workspace |-> "active"]
    BY DEF AdminInit
  <1>6. [state |-> "draft", version |-> 1] \in AnnouncementRow /\ 0 \in Versions
    BY AdminAssumption DEF AnnouncementRow, Versions
  <1>7. domains \in [OfficialDomain -> OfficialRow]
    BY <1>4
  <1>8. governed \in GovernedRow /\ governed.domains = domains
    BY <1>5, <1>6, <1>7 DEF GovernedRow
  <1>9. ServesByDefault(governed)
    BY <1>4, <1>8 DEF ServesByDefault
  <1>10. effects \in [EffectKey -> Nat] /\ EffectsAreRecorded
    BY DEF AdminInit, EffectKey, EffectsAreRecorded
  <1>11. calls \in [Call -> CallRecord] /\ CallsAreAuthenticated /\ records = {}
    BY <1>3 DEF AdminInit, CallsAreAuthenticated
  <1> QED BY <1>2, <1>8, <1>9, <1>10, <1>11 DEF AdminInv, MutationInv

LEMMA AdminInvSafe == AdminInv => AdminSafety
  <1> SUFFICES ASSUME AdminInv PROVE AdminSafety
    OBVIOUS
  <1>1. AdminTypeOK
    BY DEF AdminInv, SignInInv, MutationInv, AdminTypeOK, CredentialRow, AdminSessionRow, GovernedRow,
           OfficialRow, AnnouncementRow, CallRecord, SecretsAreEnrolled
  <1>2. AppliedOnce
    BY DEF AdminInv, MutationInv, EffectsAreRecorded, AppliedOnce
  <1>3. GuessesAreBounded /\ MfaBehindActiveTotp
    BY DEF AdminInv, SignInInv, GuessesAreCounted, GuessesAreBounded
  <1>4. DefaultServes
    BY DEF AdminInv, MutationInv, ServesByDefault, DefaultServes
  <1> QED BY <1>1, <1>2, <1>3, <1>4 DEF AdminSafety

(* A mutation delivered twice is applied once, mutations stay behind a second factor in force, *)
(* guesses between two locks stay bounded and the default domain serves.                        *)
THEOREM AdminIsSafe == AdminSpec => []AdminSafety
  <1>1. AdminInv /\ [AdminNext]_adminVars => AdminInv'
    BY SignInStep, MutationStep DEF AdminInv
  <1> QED BY <1>1, AdminInvInit, AdminInvSafe, PTL DEF AdminSpec

-----------------------------------------------------------------------------
(* SupportTickets: the thread of a ticket, and what a request leaves of itself *)

TicketRow == [status : {"none", "awaiting_support", "awaiting_user", "closed"},
              version : 0 .. MaxTicketVersion]
DeskType == [at : {"free", "received", "committed", "resolving", "projecting", "linking", "notifying", "answered"},
             job : SUBSET Jobs, id : 0 .. MaxTicketVersion, asks : BOOLEAN]
MessagesOf(t) == {m \in messages : m.ticket = t}
LastSaid(M) ==
    {m \in M : m.kind # "internal_note" /\ \A n \in M : n.kind # "internal_note" => n.version <= m.version}

\* A row and the messages of its ticket: each message made a version, and the last that
\* is not a note tells whom an open ticket waits for.
ThreadIs(r, M) ==
    /\ IsFiniteSet(M)
    /\ r.status = "none" => M = {}
    /\ r.status # "none" => r.version = Cardinality(M) + (IF r.status = "closed" THEN 3 ELSE 2)
    /\ \A m \in M : m.version <= r.version
    /\ r.status \in {"awaiting_user", "awaiting_support"} =>
         (r.status = "awaiting_user" <=> \E m \in LastSaid(M) : m.kind = "support_reply")

ThreadsInv ==
    /\ tickets \in [Ticket -> TicketRow]
    /\ messages \subseteq Messages
    /\ mails \in [Ticket \X ReplyKey -> Nat]
    /\ \A t \in Ticket : ThreadIs(tickets[t], MessagesOf(t))
    /\ OneMailPerAnswer

\* What is done is on record, under some correlation id.
OnRecord(job) == \E x \in Correlation : RecordOf(job, x) \in audits

\* What a request presupposes of its ticket, and what it has left behind so far.
DeskRow(d, job) ==
    LET at == desks[d].at IN
    /\ at # "free"
    /\ job.op # "create" => TicketExists(job.ticket)
    /\ at \in {"resolving", "projecting", "linking"} => job.ticket \in DomainTicket
    /\ at \in {"resolving", "projecting", "linking", "notifying", "answered"} => OnRecord(job)
    /\ at \in {"received", "committed", "resolving"} => ~desks[d].asks
    /\ at = "linking" => job.ticket \in requests
    /\ at \in {"notifying", "answered"} /\ desks[d].asks =>
         job.ticket \in requests /\ LinkOf(job.ticket) \in audits
    /\ at = "answered" => \A e \in EventOf(job.op) : <<e, job.ticket, AboutOf(d, job)>> \in notices
    /\ at # "received" /\ job.op \in {"close", "adminClose"} =>
         tickets[job.ticket].status = "closed" /\ desks[d].id = tickets[job.ticket].version

\* The closing that was told is the one of the version at which the ticket is closed.
ClosingTold(n) ==
    n[1] = "ticket_closed" =>
        /\ n[2] \in Ticket /\ tickets[n[2]].status = "closed"
        /\ n = <<"ticket_closed", n[2], tickets[n[2]].version>>

TicketInv ==
    /\ ThreadsInv
    /\ requests \subseteq DomainTicket
    /\ desks \in [Desk -> DeskType]
    /\ \A d \in Desk : \E one : desks[d].job \subseteq {one}
    /\ \A d \in Desk : \A job \in desks[d].job : DeskRow(d, job)
    /\ \A n \in notices : ClosingTold(n)

\* What no step undoes: a ticket stays, and one that is closed stays as it is.
ThreadsStay ==
    \A t \in Ticket :
        /\ TicketExists(t) => tickets'[t].status # "none"
        /\ tickets[t].status = "closed" =>
             /\ tickets'[t] = tickets[t]
             /\ {m \in messages' : m.ticket = t} = {m \in messages : m.ticket = t}

LEMMA TicketNumbers ==
    ASSUME TicketAssumption
    PROVE  MaxTicketVersion \in Nat /\ MaxTicketVersion >= 2 /\ DomainTicket \subseteq Ticket
  BY DEF TicketAssumption

LEMMA ThreadStarts ==
    ASSUME NEW r, r.status = "awaiting_support", r.version = 2
    PROVE  ThreadIs(r, {})
  BY FS_EmptySet DEF ThreadIs, LastSaid

LEMMA ThreadCloses ==
    ASSUME NEW r, NEW M, ThreadIs(r, M), NEW q, r.status \in {"awaiting_support", "awaiting_user"},
           M \subseteq Messages, MaxTicketVersion \in Nat, r.version \in Nat,
           q.status = "closed", q.version = r.version + 1
    PROVE  ThreadIs(q, M)
  <1>1. Cardinality(M) \in Nat
    BY FS_CardinalityType DEF ThreadIs
  <1>2. \A m \in M : m.version \in Nat
    BY DEF Messages
  <1> QED BY <1>1, <1>2 DEF ThreadIs

LEMMA ThreadGrows ==
    ASSUME NEW r, NEW M, ThreadIs(r, M), r.status \in {"awaiting_support", "awaiting_user"},
           M \subseteq Messages, MaxTicketVersion \in Nat, r.version \in Nat,
           NEW n, n \notin M, n.version = r.version + 1, n.kind \in MessageKinds,
           NEW q, q.version = r.version + 1,
           q.status = CASE n.kind = "requester_reply" -> "awaiting_support"
                        [] n.kind = "support_reply" -> "awaiting_user"
                        [] OTHER -> r.status
    PROVE  ThreadIs(q, M \cup {n})
  <1>1. Cardinality(M) \in Nat /\ IsFiniteSet(M)
    BY FS_CardinalityType DEF ThreadIs
  <1>2. \A m \in M : m.version \in Nat /\ m.version <= r.version
    BY DEF Messages, ThreadIs
  <1>3. IsFiniteSet(M \cup {n}) /\ Cardinality(M \cup {n}) = Cardinality(M) + 1
    BY <1>1, FS_AddElement
  <1>4. q.status \in {"awaiting_support", "awaiting_user"}
    OBVIOUS
  <1>5. \A m \in M \cup {n} : m.version <= q.version
    BY <1>2
  <1>6. q.status = "awaiting_user" <=> \E m \in LastSaid(M \cup {n}) : m.kind = "support_reply"
    <2>1. CASE n.kind = "internal_note"
      <3>1. LastSaid(M \cup {n}) = LastSaid(M)
        BY <2>1 DEF LastSaid
      <3>2. q.status = r.status
        BY <2>1
      <3> QED BY <3>1, <3>2 DEF ThreadIs
    <2>2. CASE n.kind # "internal_note"
      <3>1. \A m \in M : ~(n.version <= m.version)
        BY <1>2
      <3>2. n.version <= n.version
        OBVIOUS
      <3>3. LastSaid(M \cup {n}) = {n}
        BY <1>2, <2>2, <3>1, <3>2 DEF LastSaid
      <3>4. q.status = "awaiting_user" <=> n.kind = "support_reply"
        BY <2>2 DEF MessageKinds
      <3> QED BY <3>3, <3>4
    <2> QED BY <2>1, <2>2
  <1>7. q.version = Cardinality(M \cup {n}) + 2
    BY <1>1, <1>3 DEF ThreadIs
  <1> QED BY <1>3, <1>4, <1>5, <1>6, <1>7 DEF ThreadIs

(* One ticket gets a new row, with or without a message; its threads stay threads. *)
LEMMA OneThreadMoves ==
    ASSUME ThreadsInv, NEW t \in Ticket, NEW r \in TicketRow,
           tickets' = [tickets EXCEPT ![t] = r],
           messages' \subseteq Messages,
           \A m : m \in messages' <=> m \in messages \/ (m \in messages' /\ m.ticket = t),
           ThreadIs(r, MessagesOf(t)'),
           tickets[t].status # "closed", r.status # "none",
           mails' \in [Ticket \X ReplyKey -> Nat], OneMailPerAnswer'
    PROVE  ThreadsInv' /\ ThreadsStay
  <1>1. tickets' \in [Ticket -> TicketRow] /\ tickets'[t] = r
    BY DEF ThreadsInv
  <1>2. \A x \in Ticket : x # t => tickets'[x] = tickets[x] /\ MessagesOf(x)' = MessagesOf(x)
    BY DEF ThreadsInv, MessagesOf
  <1>3. \A x \in Ticket : ThreadIs(tickets'[x], MessagesOf(x)')
    <2> SUFFICES ASSUME NEW x \in Ticket PROVE ThreadIs(tickets'[x], MessagesOf(x)')
      OBVIOUS
    <2>1. CASE x = t
      BY <2>1, <1>1
    <2>2. CASE x # t
      BY <2>2, <1>2 DEF ThreadsInv
    <2> QED BY <2>1, <2>2
  <1>4. ThreadsStay
    BY <1>1, <1>2 DEF ThreadsStay, TicketExists, MessagesOf
  <1> QED BY <1>1, <1>3, <1>4 DEF ThreadsInv

LEMMA CreateMoves ==
    ASSUME TicketAssumption, ThreadsInv, NEW t \in Ticket, NEW id, CreateTicket(t, id)
    PROVE  ThreadsInv' /\ ThreadsStay /\ tickets'[t].status # "none"
  <1>1. CASE TicketExists(t)
    <2>1. UNCHANGED <<tickets, messages, mails>>
      BY <1>1 DEF CreateTicket
    <2> QED BY <2>1, <1>1 DEF ThreadsInv, ThreadsStay, MessagesOf, OneMailPerAnswer, TicketExists
  <1>2. CASE ~TicketExists(t)
    <2> DEFINE r == [status |-> "awaiting_support", version |-> 2]
    <2>1. tickets' = [tickets EXCEPT ![t] = r] /\ messages' = messages /\ mails' = mails
      BY <1>2 DEF CreateTicket
    <2>2. r \in TicketRow /\ tickets[t].status = "none"
      BY <1>2, TicketNumbers DEF TicketRow, TicketExists
    <2>3. MessagesOf(t)' = {}
      BY <2>1, <2>2 DEF ThreadsInv, ThreadIs, MessagesOf
    <2>4. ThreadIs(r, MessagesOf(t)')
      BY <2>3, ThreadStarts
    <2>5. OneMailPerAnswer' /\ messages' \subseteq Messages /\ mails' \in [Ticket \X ReplyKey -> Nat]
      BY <2>1 DEF ThreadsInv, OneMailPerAnswer
    <2>6. r.status # "none"
      OBVIOUS
    <2>7. tickets'[t] = r
      BY <2>1 DEF ThreadsInv
    <2> HIDE DEF r
    <2> QED BY <2>1, <2>2, <2>4, <2>5, <2>6, <2>7, OneThreadMoves
  <1> QED BY <1>1, <1>2

LEMMA CloseMoves ==
    ASSUME TicketAssumption, ThreadsInv, NEW t \in Ticket, NEW expected, NEW id, Close(t, expected, id),
           TicketExists(t)
    PROVE  /\ ThreadsInv' /\ ThreadsStay
           /\ tickets'[t].status = "closed" /\ id = tickets'[t].version
  <1>1. CASE tickets[t].status = "closed" /\ UNCHANGED tickets
    <2>1. UNCHANGED <<tickets, messages, mails>> /\ id = tickets'[t].version
      BY <1>1 DEF Close
    <2> QED BY <2>1, <1>1 DEF ThreadsInv, ThreadsStay, MessagesOf, OneMailPerAnswer, TicketExists
  <1>2. CASE /\ tickets[t].status # "closed" /\ tickets[t].version < MaxTicketVersion
             /\ tickets' = [tickets EXCEPT ![t].status = "closed", ![t].version = @ + 1]
    <2> DEFINE r == [status |-> "closed", version |-> tickets[t].version + 1]
    <2>0. tickets[t] \in TicketRow
      BY DEF ThreadsInv
    <2>1. tickets' = [tickets EXCEPT ![t] = r] /\ messages' = messages /\ mails' = mails
      BY <1>2, <2>0 DEF Close, TicketRow, ThreadsInv
    <2>2. r \in TicketRow /\ tickets[t].status \in {"awaiting_support", "awaiting_user"}
      BY <1>2, <2>0, TicketNumbers DEF TicketRow, TicketExists
    <2>3. MessagesOf(t)' = MessagesOf(t) /\ MessagesOf(t) \subseteq Messages
      BY <2>1 DEF MessagesOf, ThreadsInv
    <2>4. ThreadIs(tickets[t], MessagesOf(t)) /\ tickets[t].version \in Nat
      BY <2>0 DEF ThreadsInv, TicketRow
    <2>5. r.status = "closed" /\ r.version = tickets[t].version + 1
      OBVIOUS
    <2>6. tickets'[t] = r /\ id = tickets'[t].version
      BY <2>1 DEF ThreadsInv, Close
    <2> HIDE DEF r
    <2>7. ThreadIs(r, MessagesOf(t)')
      BY <2>2, <2>3, <2>4, <2>5, TicketNumbers, ThreadCloses
    <2>8. OneMailPerAnswer' /\ messages' \subseteq Messages /\ mails' \in [Ticket \X ReplyKey -> Nat]
      BY <2>1 DEF ThreadsInv, OneMailPerAnswer
    <2>9. ThreadsInv' /\ ThreadsStay
      BY <1>2, <2>1, <2>2, <2>5, <2>7, <2>8, OneThreadMoves
    <2> QED BY <2>9, <2>6, <2>5
  <1> QED BY <1>1, <1>2 DEF Close

LEMMA MessageMoves ==
    ASSUME TicketAssumption, ThreadsInv, NEW t \in Ticket, NEW k \in ReplyKey, NEW kind \in MessageKinds,
           AddMessage(t, k, kind), TicketExists(t)
    PROVE  ThreadsInv' /\ ThreadsStay
  <1>1. CASE UNCHANGED <<tickets, messages, mails>>
    BY <1>1 DEF ThreadsInv, ThreadsStay, MessagesOf, OneMailPerAnswer, TicketExists
  <1>2. CASE /\ ~\E m \in messages : m.ticket = t /\ m.key = k
             /\ tickets[t].status # "closed" /\ tickets[t].version < MaxTicketVersion
             /\ tickets' = ApplyTicketMessage(t, kind)
             /\ messages' = messages \cup {[ticket |-> t, key |-> k, kind |-> kind,
                                            version |-> tickets[t].version + 1]}
             /\ mails' = IF kind = "support_reply" THEN [mails EXCEPT ![<<t, k>>] = @ + 1] ELSE mails
    <2> DEFINE v == tickets[t].version + 1
               n == [ticket |-> t, key |-> k, kind |-> kind, version |-> v]
               s == CASE kind = "requester_reply" -> "awaiting_support"
                      [] kind = "support_reply" -> "awaiting_user"
                      [] OTHER -> tickets[t].status
               r == [status |-> s, version |-> v]
    <2>0. tickets[t] \in TicketRow
      BY DEF ThreadsInv
    <2>1. tickets[t].status \in {"awaiting_support", "awaiting_user"} /\ tickets[t].version \in Nat
      BY <1>2, <2>0 DEF TicketRow, TicketExists
    <2>2. s \in {"awaiting_support", "awaiting_user"}
      BY <2>1
    <2>3. tickets' = [tickets EXCEPT ![t] = r]
      BY <1>2, <2>0 DEF ApplyTicketMessage, TicketRow, ThreadsInv
    <2>4. ThreadIs(tickets[t], MessagesOf(t)) /\ MessagesOf(t) \subseteq Messages
      BY DEF ThreadsInv, MessagesOf
    <2>5. tickets[t].version >= 2
      <3>1. Cardinality(MessagesOf(t)) \in Nat
        BY <2>4, FS_CardinalityType DEF ThreadIs
      <3> QED BY <3>1, <2>4, <2>1 DEF ThreadIs
    <2>6. v \in 3 .. MaxTicketVersion /\ v \in 0 .. MaxTicketVersion
      BY <1>2, <2>1, <2>5, TicketNumbers
    <2>7. r \in TicketRow /\ r.status = s /\ r.version = v
      BY <2>2, <2>6 DEF TicketRow
    <2>8. n \in Messages /\ n.ticket = t /\ n.key = k /\ n.kind = kind /\ n.version = v
      BY <2>6 DEF Messages
    <2>9. messages' = messages \cup {n} /\ n \notin messages
      BY <1>2, <2>8
    <2> HIDE DEF n, r, s
    <2>10. MessagesOf(t)' = MessagesOf(t) \cup {n} /\ n \notin MessagesOf(t)
      BY <2>8, <2>9 DEF MessagesOf
    <2>11. ThreadIs(r, MessagesOf(t)')
      BY <2>1, <2>4, <2>7, <2>8, <2>10, TicketNumbers, ThreadGrows DEF s
    <2>12. /\ messages' \subseteq Messages
           /\ \A m : m \in messages' <=> m \in messages \/ (m \in messages' /\ m.ticket = t)
      BY <2>8, <2>9 DEF ThreadsInv
    <2>13. /\ mails \in [Ticket \X ReplyKey -> Nat] /\ <<t, k>> \in Ticket \X ReplyKey
           /\ mails' \in [Ticket \X ReplyKey -> Nat]
      BY <1>2 DEF ThreadsInv
    <2>14. OneMailPerAnswer'
      <3> SUFFICES ASSUME NEW x \in Ticket, NEW y \in ReplyKey
                   PROVE  mails'[<<x, y>>] =
                            Cardinality({m \in messages' : m.ticket = x /\ m.key = y /\ m.kind = "support_reply"})
        BY DEF OneMailPerAnswer
      <3> DEFINE A == {m \in messages : m.ticket = x /\ m.key = y /\ m.kind = "support_reply"}
                 B == {m \in messages' : m.ticket = x /\ m.key = y /\ m.kind = "support_reply"}
      <3>1. mails[<<x, y>>] = Cardinality(A)
        BY DEF ThreadsInv, OneMailPerAnswer
      <3>2. CASE x = t /\ y = k /\ kind = "support_reply"
        <4>1. A = {} /\ B = {n}
          BY <3>2, <1>2, <2>8, <2>9
        <4>2. Cardinality(A) = 0 /\ Cardinality(B) = 1
          BY <4>1, FS_EmptySet, FS_Singleton
        <4>3. mails'[<<x, y>>] = mails[<<x, y>>] + 1
          BY <3>2, <1>2, <2>13
        <4> QED BY <3>1, <4>2, <4>3
      <3>3. CASE ~(x = t /\ y = k /\ kind = "support_reply")
        <4>1. B = A
          BY <3>3, <2>8, <2>9
        <4>2. mails'[<<x, y>>] = mails[<<x, y>>]
          <5>1. CASE kind = "support_reply"
            <6>1. <<x, y>> # <<t, k>>
              BY <5>1, <3>3
            <6>2. mails' = [mails EXCEPT ![<<t, k>>] = @ + 1]
              BY <5>1, <1>2
            <6>3. <<x, y>> \in Ticket \X ReplyKey
              OBVIOUS
            <6> QED BY <6>1, <6>2, <6>3, <2>13
          <5>2. CASE kind # "support_reply"
            BY <5>2, <1>2
          <5> QED BY <5>1, <5>2
        <4> QED BY <3>1, <4>1, <4>2
      <3> QED BY <3>2, <3>3
    <2>15. r.status # "none"
      BY <2>2, <2>7
    <2> QED BY <1>2, <2>3, <2>7, <2>11, <2>12, <2>13, <2>14, <2>15, OneThreadMoves
  <1> QED BY <1>1, <1>2 DEF AddMessage


-----------------------------------------------------------------------------
(* The desks *)

LEMMA TicketsStart ==
    ASSUME TicketAssumption, TicketInit
    PROVE  TicketInv
  <1>1. ThreadsInv
    <2>1. \A t \in Ticket : tickets[t] = Missing /\ MessagesOf(t) = {}
      BY DEF TicketInit, MessagesOf
    <2>2. Missing \in TicketRow /\ Missing.status = "none"
      BY TicketNumbers DEF Missing, TicketRow
    <2>3. \A t \in Ticket : ThreadIs(tickets[t], MessagesOf(t))
      BY <2>1, <2>2, FS_EmptySet DEF ThreadIs
    <2>4. OneMailPerAnswer
      <3>1. SUFFICES ASSUME NEW t \in Ticket, NEW k \in ReplyKey
                     PROVE  mails[<<t, k>>] = Cardinality({m \in messages : /\ m.ticket = t /\ m.key = k
                                                                           /\ m.kind = "support_reply"})
        BY DEF OneMailPerAnswer
      <3>2. {m \in messages : m.ticket = t /\ m.key = k /\ m.kind = "support_reply"} = {}
        BY DEF TicketInit
      <3> QED BY <3>2, FS_EmptySet DEF TicketInit
    <2> QED BY <2>1, <2>2, <2>3, <2>4 DEF ThreadsInv, TicketInit
  <1>2. Free \in DeskType
    BY TicketNumbers DEF Free, DeskType
  <1> QED BY <1>1, <1>2 DEF TicketInv, TicketInit, Free


(* A ticket or a record of it that is there stays there for the other desks. *)
LEMMA DeskRowStays ==
    ASSUME TicketInv, ThreadsStay, requests \subseteq requests', audits \subseteq audits', notices \subseteq notices',
           NEW d \in Desk, desks'[d] = desks[d], NEW job \in desks[d].job
    PROVE  DeskRow(d, job)'
  <1>1. DeskRow(d, job)
    BY DEF TicketInv
  <1>2. job \in Jobs
    BY DEF TicketInv, DeskType
  <1>3. job.ticket \in Ticket
    BY <1>2 DEF Jobs
  <1>4. TicketExists(job.ticket) => TicketExists(job.ticket)'
    BY <1>3 DEF ThreadsStay, TicketExists
  <1>5. tickets[job.ticket].status = "closed" => tickets'[job.ticket] = tickets[job.ticket]
    BY <1>3 DEF ThreadsStay
  <1>6. AboutOf(d, job)' = AboutOf(d, job)
    BY DEF AboutOf
  <1>7. OnRecord(job) => OnRecord(job)'
    BY DEF OnRecord, RecordOf
  <1> QED BY <1>1, <1>4, <1>5, <1>6, <1>7 DEF DeskRow

(* One desk goes on, with what it leaves behind; the others keep what they had. *)
LEMMA DeskMoves ==
    ASSUME TicketInv, NEW d \in Desk, NEW row \in DeskType, desks' = [desks EXCEPT ![d] = row],
           ThreadsInv', ThreadsStay, requests' \subseteq DomainTicket,
           requests \subseteq requests', audits \subseteq audits', notices \subseteq notices',
           \E one : row.job \subseteq {one},
           \A job \in row.job : DeskRow(d, job)',
           \A n \in notices' \ notices : ClosingTold(n)'
    PROVE  TicketInv'
  <1>1. desks' \in [Desk -> DeskType] /\ desks'[d] = row
    BY DEF TicketInv
  <1>2. \A x \in Desk : x # d => desks'[x] = desks[x]
    BY DEF TicketInv
  <1>3. \A x \in Desk : \E one : desks'[x].job \subseteq {one}
    BY <1>1, <1>2 DEF TicketInv
  <1>4. ASSUME NEW x \in Desk, NEW job \in desks'[x].job
        PROVE  DeskRow(x, job)'
    <2>1. CASE x = d
      BY <1>1, <2>1
    <2>2. CASE x # d
      <3>1. desks'[x] = desks[x] /\ job \in desks[x].job
        BY <1>2, <1>4, <2>2
      <3> QED BY <3>1, DeskRowStays
    <2> QED BY <2>1, <2>2
  <1>5. ASSUME NEW n \in notices'
        PROVE  ClosingTold(n)'
    <2>1. CASE n \in notices
      <3>1. ClosingTold(n)
        BY <2>1 DEF TicketInv
      <3> QED BY <3>1 DEF ClosingTold, ThreadsStay
    <2> QED BY <1>5, <2>1
  <1> QED BY <1>1, <1>3, <1>4, <1>5 DEF TicketInv

(* What a step leaves alone in the store. *)
LEMMA ThreadsUntouched ==
    ASSUME ThreadsInv, UNCHANGED <<tickets, messages, mails>>
    PROVE  ThreadsInv' /\ ThreadsStay
  BY DEF ThreadsInv, ThreadsStay, MessagesOf, OneMailPerAnswer, TicketExists

LEMMA ReceiveMoves ==
    ASSUME TicketAssumption, TicketInv, NEW d \in Desk, NEW job \in Jobs, Receive(d, job)
    PROVE  TicketInv' /\ ThreadsStay
  <1> DEFINE row == [at |-> "received", job |-> {job}, id |-> 0, asks |-> FALSE]
  <1>1. row \in DeskType /\ row.job = {job} /\ row.at = "received" /\ ~row.asks
    BY TicketNumbers DEF DeskType
  <1>2. /\ desks' = [desks EXCEPT ![d] = row]
        /\ UNCHANGED <<tickets, messages, mails, requests, audits, notices>>
        /\ job.op # "create" => TicketExists(job.ticket)
    BY DEF Receive
  <1>3. ThreadsInv' /\ ThreadsStay
    BY <1>2, ThreadsUntouched DEF TicketInv
  <1> HIDE DEF row
  <1>4. desks'[d] = row
    BY <1>2 DEF TicketInv
  <1>5. DeskRow(d, job)'
    BY <1>1, <1>2, <1>4 DEF DeskRow, TicketExists
  <1> QED BY <1>1, <1>2, <1>3, <1>5, DeskMoves DEF TicketInv

LEMMA DeskExcept ==
    ASSUME NEW r \in DeskType, NEW x, NEW y
    PROVE  [r EXCEPT !.at = x, !.id = y] = [at |-> x, job |-> r.job, id |-> y, asks |-> r.asks]
  <1>1. [r EXCEPT !.at = x] = [at |-> x, job |-> r.job, id |-> r.id, asks |-> r.asks]
    BY DEF DeskType
  <1>2. [[at |-> x, job |-> r.job, id |-> r.id, asks |-> r.asks] EXCEPT !.id = y]
          = [at |-> x, job |-> r.job, id |-> y, asks |-> r.asks]
    OBVIOUS
  <1>3. [r EXCEPT !.at = x, !.id = y] = [[r EXCEPT !.at = x] EXCEPT !.id = y]
    OBVIOUS
  <1> QED BY <1>1, <1>2, <1>3

LEMMA CommitMoves ==
    ASSUME TicketAssumption, TicketInv, NEW d \in Desk, CommitJob(d)
    PROVE  TicketInv' /\ ThreadsStay
  <1>1. desks[d].at = "received" /\ UNCHANGED <<requests, audits, notices>> /\ desks[d] \in DeskType
    BY DEF CommitJob, TicketInv
  <1>2. PICK job \in desks[d].job :
           \/ \E id \in 1 .. MaxTicketVersion :
                  /\ IF job.op = "create" THEN CreateTicket(job.ticket, id)
                     ELSE job.op \in {"close", "adminClose"} /\ Close(job.ticket, job.expected, id)
                  /\ desks' = [desks EXCEPT ![d].at = "committed", ![d].id = id]
           \/ /\ job.op \in MessageKinds /\ AddMessage(job.ticket, job.key, job.op)
              /\ desks' = [desks EXCEPT ![d].at = "committed"]
    BY DEF CommitJob
  <1>3. desks[d].job = {job} /\ job \in Jobs /\ DeskRow(d, job)
    BY <1>1 DEF TicketInv, DeskType
  <1>4. job.ticket \in Ticket /\ (job.op # "create" => TicketExists(job.ticket))
    BY <1>3 DEF Jobs, DeskRow
  <1>5. ASSUME NEW id \in 0 .. MaxTicketVersion, desks' = [desks EXCEPT ![d].at = "committed", ![d].id = id],
               ThreadsInv', ThreadsStay, job.op = "create" => tickets'[job.ticket].status # "none",
               job.op \in {"close", "adminClose"} =>
                   tickets'[job.ticket].status = "closed" /\ id = tickets'[job.ticket].version
        PROVE  TicketInv'
    <2> DEFINE row == [at |-> "committed", job |-> desks[d].job, id |-> id, asks |-> desks[d].asks]
    <2>1. desks' = [desks EXCEPT ![d] = row]
      <3>1. [desks[d] EXCEPT !.at = "committed", !.id = id] = row
        BY <1>1, DeskExcept
      <3>2. desks' = [desks EXCEPT ![d] = [desks[d] EXCEPT !.at = "committed", !.id = id]]
        BY <1>5 DEF TicketInv
      <3> QED BY <3>1, <3>2
    <2>2. row \in DeskType /\ row.job = {job} /\ row.at = "committed" /\ row.id = id /\ ~row.asks
      BY <1>1, <1>3, <1>5 DEF DeskType, DeskRow
    <2> HIDE DEF row
    <2>3. desks'[d] = row
      BY <2>1 DEF TicketInv
    <2>4. job.op # "create" => tickets'[job.ticket].status # "none"
      BY <1>4, <1>5 DEF ThreadsStay
    <2>5. DeskRow(d, job)'
      BY <2>2, <2>3, <2>4, <1>5 DEF DeskRow, TicketExists
    <2>6. /\ \E one : row.job \subseteq {one}
          /\ \A x \in row.job : DeskRow(d, x)'
      BY <2>2, <2>5
    <2>7. requests' \subseteq DomainTicket /\ requests' = requests /\ audits' = audits /\ notices' = notices
      BY <1>1 DEF TicketInv
    <2> QED BY <1>5, <2>1, <2>2, <2>6, <2>7, DeskMoves
  <1>6. CASE \E id \in 1 .. MaxTicketVersion :
                  /\ job.op = "create" /\ CreateTicket(job.ticket, id)
                  /\ desks' = [desks EXCEPT ![d].at = "committed", ![d].id = id]
    <2>1. PICK id \in 1 .. MaxTicketVersion :
                  /\ job.op = "create" /\ CreateTicket(job.ticket, id)
                  /\ desks' = [desks EXCEPT ![d].at = "committed", ![d].id = id]
      BY <1>6
    <2>2. ThreadsInv' /\ ThreadsStay /\ tickets'[job.ticket].status # "none"
      BY <2>1, <1>4, CreateMoves DEF TicketInv
    <2>3. id \in 0 .. MaxTicketVersion
      BY TicketNumbers
    <2> QED BY <1>5, <2>1, <2>2, <2>3
  <1>7. CASE \E id \in 1 .. MaxTicketVersion :
                  /\ job.op \in {"close", "adminClose"} /\ Close(job.ticket, job.expected, id)
                  /\ desks' = [desks EXCEPT ![d].at = "committed", ![d].id = id]
    <2>1. PICK id \in 1 .. MaxTicketVersion :
                  /\ job.op \in {"close", "adminClose"} /\ Close(job.ticket, job.expected, id)
                  /\ desks' = [desks EXCEPT ![d].at = "committed", ![d].id = id]
      BY <1>7
    <2>2. ThreadsInv' /\ ThreadsStay /\ tickets'[job.ticket].status = "closed" /\ id = tickets'[job.ticket].version
      BY <2>1, <1>4, CloseMoves DEF TicketInv
    <2>3. id \in 0 .. MaxTicketVersion
      BY TicketNumbers
    <2> QED BY <1>5, <2>1, <2>2, <2>3
  <1>8. CASE /\ job.op \in MessageKinds /\ AddMessage(job.ticket, job.key, job.op)
             /\ desks' = [desks EXCEPT ![d].at = "committed"]
    <2>1. job.op \notin {"create", "close", "adminClose"} /\ job.key \in ReplyKey
      BY <1>3, <1>8 DEF MessageKinds, Jobs
    <2>2. ThreadsInv' /\ ThreadsStay
      BY <1>4, <1>8, <2>1, MessageMoves DEF TicketInv
    <2>3. desks' = [desks EXCEPT ![d].at = "committed", ![d].id = desks[d].id]
      BY <1>1, <1>8 DEF TicketInv, DeskType
    <2>4. desks[d].id \in 0 .. MaxTicketVersion
      BY <1>1 DEF DeskType
    <2> QED BY <1>5, <2>1, <2>2, <2>3, <2>4
  <1> QED BY <1>2, <1>6, <1>7, <1>8


LEMMA AsksExcept ==
    ASSUME NEW r \in DeskType, NEW x, NEW y
    PROVE  [r EXCEPT !.at = x, !.asks = y] = [at |-> x, job |-> r.job, id |-> r.id, asks |-> y]
  <1>1. [r EXCEPT !.at = x] = [at |-> x, job |-> r.job, id |-> r.id, asks |-> r.asks]
    BY DEF DeskType
  <1>2. [[at |-> x, job |-> r.job, id |-> r.id, asks |-> r.asks] EXCEPT !.asks = y]
          = [at |-> x, job |-> r.job, id |-> r.id, asks |-> y]
    OBVIOUS
  <1>3. [r EXCEPT !.at = x, !.asks = y] = [[r EXCEPT !.at = x] EXCEPT !.asks = y]
    OBVIOUS
  <1> QED BY <1>1, <1>2, <1>3

(* A desk that goes on to another place with its job, and the store left alone. *)
LEMMA DeskGoesOn ==
    ASSUME TicketAssumption, TicketInv, NEW d \in Desk,
           NEW to \in {"resolving", "projecting", "linking", "notifying", "answered"}, NEW asks \in BOOLEAN,
           desks' = [desks EXCEPT ![d].at = to, ![d].asks = asks], UNCHANGED <<tickets, messages, mails>>,
           desks[d].at \notin {"free", "received"},
           requests' \subseteq DomainTicket, requests \subseteq requests',
           audits \subseteq audits', notices \subseteq notices',
           \A n \in notices' \ notices : ClosingTold(n)',
           \A job \in desks[d].job :
               /\ to \in {"resolving", "projecting", "linking"} => job.ticket \in DomainTicket
               /\ OnRecord(job)'
               /\ to = "resolving" => ~asks
               /\ to = "linking" => job.ticket \in requests'
               /\ to \in {"notifying", "answered"} /\ asks =>
                    job.ticket \in requests' /\ LinkOf(job.ticket) \in audits'
               /\ to = "answered" =>
                    \A e \in EventOf(job.op) : <<e, job.ticket, AboutOf(d, job)>> \in notices'
    PROVE  TicketInv' /\ ThreadsStay
  <1> DEFINE row == [at |-> to, job |-> desks[d].job, id |-> desks[d].id, asks |-> asks]
  <1>1. desks[d] \in DeskType /\ \E one : desks[d].job \subseteq {one}
    BY DEF TicketInv
  <1>2. row \in DeskType /\ row.at = to /\ row.job = desks[d].job /\ row.id = desks[d].id /\ row.asks = asks
    BY <1>1 DEF DeskType
  <1>3. desks' = [desks EXCEPT ![d] = row]
    <2>1. [desks[d] EXCEPT !.at = to, !.asks = asks] = row
      BY <1>1, AsksExcept
    <2>2. desks' = [desks EXCEPT ![d] = [desks[d] EXCEPT !.at = to, !.asks = asks]]
      BY DEF TicketInv
    <2> QED BY <2>1, <2>2
  <1>4. ThreadsInv' /\ ThreadsStay
    BY ThreadsUntouched DEF TicketInv
  <1> HIDE DEF row
  <1>5. desks'[d] = row
    BY <1>3 DEF TicketInv
  <1>6. ASSUME NEW job \in row.job
        PROVE  DeskRow(d, job)'
    <2>1. job \in desks[d].job /\ DeskRow(d, job)
      BY <1>2, <1>6 DEF TicketInv
    <2>2. AboutOf(d, job)' = AboutOf(d, job)
      BY <1>2, <1>5 DEF AboutOf
    <2> QED BY <2>1, <2>2, <1>2, <1>5 DEF DeskRow, TicketExists
  <1>7. \E one : row.job \subseteq {one}
    BY <1>1, <1>2
  <1> QED BY <1>2, <1>3, <1>4, <1>6, <1>7, DeskMoves

(* The same, of a step that does not find out whether a request is to be asked for. *)
LEMMA AsksStays ==
    ASSUME TicketInv, NEW d \in Desk, NEW to, desks' = [desks EXCEPT ![d].at = to]
    PROVE  desks[d].asks \in BOOLEAN /\ desks' = [desks EXCEPT ![d].at = to, ![d].asks = desks[d].asks]
  <1>1. desks[d] \in DeskType /\ desks \in [Desk -> DeskType]
    BY DEF TicketInv
  <1>2. [desks[d] EXCEPT !.at = to] = [desks[d] EXCEPT !.at = to, !.asks = desks[d].asks]
    BY <1>1 DEF DeskType
  <1>3. desks' = [desks EXCEPT ![d] = [desks[d] EXCEPT !.at = to]]
    BY <1>1
  <1> QED BY <1>1, <1>2, <1>3 DEF DeskType

LEMMA RecordMoves ==
    ASSUME TicketAssumption, TicketInv, NEW d \in Desk, RecordAudit(d)
    PROVE  TicketInv' /\ ThreadsStay
  <1>1. PICK job \in desks[d].job, x \in Correlation :
           /\ audits' = audits \cup {RecordOf(job, x)}
           /\ desks' = [desks EXCEPT ![d].at = IF job.op = "create" /\ job.ticket \in DomainTicket
                                              THEN "resolving" ELSE "notifying"]
    BY DEF RecordAudit
  <1>2. /\ UNCHANGED <<tickets, messages, mails>> /\ requests' = requests /\ notices' = notices
        /\ desks[d].at = "committed"
    BY DEF RecordAudit
  <1>3. PICK to \in {"resolving", "projecting", "linking", "notifying", "answered"} :
           /\ desks' = [desks EXCEPT ![d].at = to]
           /\ (to = "resolving" /\ job.ticket \in DomainTicket) \/ to = "notifying"
    BY <1>1
  <1>4. \A j \in desks[d].job : j = job
    BY DEF TicketInv
  <1>5. requests' \subseteq DomainTicket /\ ~desks[d].asks
    BY <1>1, <1>2 DEF TicketInv, DeskRow
  <1>6. OnRecord(job)'
    BY <1>1 DEF OnRecord, RecordOf
  <1> QED BY <1>1, <1>2, <1>3, <1>4, <1>5, <1>6, AsksStays, DeskGoesOn

LEMMA ResolveMoves ==
    ASSUME TicketAssumption, TicketInv, NEW d \in Desk, ResolveAccess(d)
    PROVE  TicketInv' /\ ThreadsStay
  <1>1. PICK to \in {"resolving", "projecting", "linking", "notifying", "answered"}, asks \in BOOLEAN :
           /\ desks' = [desks EXCEPT ![d].at = to, ![d].asks = asks]
           /\ \/ to = "notifying" /\ \A job \in desks[d].job : ~asks
              \/ to = "projecting"
              \/ to = "linking" /\ \E job \in desks[d].job : job.ticket \in requests
    <2>1. CASE desks' = [desks EXCEPT ![d].at = "notifying"]
      <3>1. \A job \in desks[d].job : ~desks[d].asks
        BY DEF TicketInv, DeskRow, ResolveAccess
      <3> QED BY <2>1, <3>1, AsksStays
    <2>2. CASE desks' # [desks EXCEPT ![d].at = "notifying"]
      BY <2>2 DEF ResolveAccess
    <2> QED BY <2>1, <2>2
  <1>2. /\ UNCHANGED <<tickets, messages, mails>> /\ requests' = requests /\ notices' = notices
        /\ audits' = audits /\ desks[d].at = "resolving"
    BY DEF ResolveAccess
  <1>3. \A job \in desks[d].job : job.ticket \in DomainTicket /\ OnRecord(job)'
    BY <1>2 DEF TicketInv, DeskRow, OnRecord, RecordOf
  <1>4. requests' \subseteq DomainTicket /\ \A i, j \in desks[d].job : i = j
    BY <1>2 DEF TicketInv
  <1> QED BY <1>1, <1>2, <1>3, <1>4, DeskGoesOn

LEMMA ProjectMoves ==
    ASSUME TicketAssumption, TicketInv, NEW d \in Desk, ProjectAccessRequest(d)
    PROVE  TicketInv' /\ ThreadsStay
  <1>1. PICK job \in desks[d].job : requests' = requests \cup {job.ticket}
    BY DEF ProjectAccessRequest
  <1>2. /\ UNCHANGED <<tickets, messages, mails>> /\ notices' = notices /\ audits' = audits
        /\ desks[d].at = "projecting" /\ desks' = [desks EXCEPT ![d].at = "linking"]
    BY DEF ProjectAccessRequest
  <1>3. \A x \in desks[d].job : x = job /\ x.ticket \in DomainTicket /\ OnRecord(x)'
    BY <1>2 DEF TicketInv, DeskRow, OnRecord, RecordOf
  <1>4. requests' \subseteq DomainTicket /\ requests \subseteq requests' /\ job.ticket \in requests'
    BY <1>1, <1>3 DEF TicketInv
  <1> QED BY <1>2, <1>3, <1>4, AsksStays, DeskGoesOn

LEMMA LinkMoves ==
    ASSUME TicketAssumption, TicketInv, NEW d \in Desk, RecordLink(d)
    PROVE  TicketInv' /\ ThreadsStay
  <1>1. /\ UNCHANGED <<tickets, messages, mails>> /\ requests' = requests /\ notices' = notices
        /\ desks[d].at = "linking" /\ desks' = [desks EXCEPT ![d].at = "notifying"]
        /\ audits' = audits \cup {LinkOf(job.ticket) : job \in desks[d].job}
    BY DEF RecordLink
  <1>2. audits \subseteq audits' /\ requests' \subseteq DomainTicket
    BY <1>1 DEF TicketInv
  <1>3. \A job \in desks[d].job :
            job.ticket \in requests /\ LinkOf(job.ticket) \in audits' /\ OnRecord(job)'
    BY <1>1, <1>2 DEF TicketInv, DeskRow, OnRecord, RecordOf
  <1> QED BY <1>1, <1>2, <1>3, AsksStays, DeskGoesOn

LEMMA NotifyMoves ==
    ASSUME TicketAssumption, TicketInv, NEW d \in Desk, Notify(d)
    PROVE  TicketInv' /\ ThreadsStay
  <1>1. PICK job \in desks[d].job :
           notices' = notices \cup {<<e, job.ticket, AboutOf(d, job)>> : e \in EventOf(job.op)}
    BY DEF Notify
  <1>2. /\ UNCHANGED <<tickets, messages, mails>> /\ requests' = requests /\ audits' = audits
        /\ desks[d].at = "notifying" /\ desks' = [desks EXCEPT ![d].at = "answered"]
    BY DEF Notify
  <1>3. job \in Jobs /\ DeskRow(d, job) /\ \A x \in desks[d].job : x = job
    BY DEF TicketInv, DeskType
  <1>4. /\ OnRecord(job)' /\ job.ticket \in Ticket
        /\ desks[d].asks => job.ticket \in requests /\ LinkOf(job.ticket) \in audits
    BY <1>2, <1>3 DEF DeskRow, Jobs, OnRecord, RecordOf
  <1>5. "ticket_closed" \in EventOf(job.op) => job.op \in {"close", "adminClose"}
    BY <1>3 DEF Jobs, MessageKinds, EventOf
  <1>6. job.op \in {"close", "adminClose"} =>
            /\ tickets[job.ticket].status = "closed"
            /\ AboutOf(d, job) = tickets[job.ticket].version
    BY <1>2, <1>3 DEF DeskRow, AboutOf, MessageKinds
  <1>7. ASSUME NEW n \in notices' \ notices
        PROVE  ClosingTold(n)'
    <2>1. PICK e \in EventOf(job.op) : n = <<e, job.ticket, AboutOf(d, job)>>
      BY <1>1, <1>7
    <2> QED BY <2>1, <1>2, <1>4, <1>5, <1>6 DEF ClosingTold
  <1>8. requests' \subseteq DomainTicket /\ notices \subseteq notices'
    BY <1>1, <1>2 DEF TicketInv
  <1> QED BY <1>1, <1>2, <1>3, <1>4, <1>7, <1>8, AsksStays, DeskGoesOn

LEMMA DeskEnds ==
    ASSUME TicketAssumption, TicketInv, NEW d \in Desk, TicketRequestEnds(d)
    PROVE  TicketInv' /\ ThreadsStay
  <1>1. Free \in DeskType /\ Free.job = {}
    BY TicketNumbers DEF Free, DeskType
  <1>2. /\ desks' = [desks EXCEPT ![d] = Free] /\ UNCHANGED <<tickets, messages, mails>>
        /\ requests' = requests /\ audits' = audits /\ notices' = notices
    BY DEF TicketRequestEnds
  <1>3. ThreadsInv' /\ ThreadsStay /\ requests' \subseteq DomainTicket
    BY <1>2, ThreadsUntouched DEF TicketInv
  <1> QED BY <1>1, <1>2, <1>3, DeskMoves

LEMMA TicketsStep ==
    ASSUME TicketAssumption, TicketInv, [TicketNext]_ticketVars
    PROVE  TicketInv' /\ ThreadsStay
  <1>1. CASE \E d \in Desk, job \in Jobs : Receive(d, job)
    BY <1>1, ReceiveMoves
  <1>2. CASE \E d \in Desk : CommitJob(d)
    BY <1>2, CommitMoves
  <1>3. CASE \E d \in Desk : RecordAudit(d)
    BY <1>3, RecordMoves
  <1>4. CASE \E d \in Desk : ResolveAccess(d)
    BY <1>4, ResolveMoves
  <1>5. CASE \E d \in Desk : ProjectAccessRequest(d)
    BY <1>5, ProjectMoves
  <1>6. CASE \E d \in Desk : Notify(d)
    BY <1>6, NotifyMoves
  <1>7. CASE \E d \in Desk : TicketRequestEnds(d)
    BY <1>7, DeskEnds
  <1>9. CASE \E d \in Desk : RecordLink(d)
    BY <1>9, LinkMoves
  <1>8. CASE RequesterLeaves \/ UNCHANGED ticketVars
    <2>1. UNCHANGED <<tickets, messages, mails>> /\ UNCHANGED <<requests, audits, notices, desks>>
      BY <1>8 DEF RequesterLeaves, ticketVars
    <2>2. ThreadsInv' /\ ThreadsStay
      BY <2>1, ThreadsUntouched DEF TicketInv
    <2>3. \A d \in Desk : \A job \in desks'[d].job : DeskRow(d, job)'
      BY <2>1, <2>2, DeskRowStays
    <2>4. \A n \in notices' : ClosingTold(n)'
      BY <2>1 DEF TicketInv, ClosingTold
    <2> QED BY <2>1, <2>2, <2>3, <2>4 DEF TicketInv
  <1> QED BY <1>1, <1>2, <1>3, <1>4, <1>5, <1>6, <1>7, <1>8, <1>9 DEF TicketNext

LEMMA ClosingIsOne ==
    ASSUME \A n \in notices : ClosingTold(n)
    PROVE  ClosingIsToldOnce
  <1> SUFFICES ASSUME NEW t \in Ticket
               PROVE  Cardinality({n \in notices : n[1] = "ticket_closed" /\ n[2] = t}) <= 1
    BY DEF ClosingIsToldOnce
  <1> DEFINE A == {n \in notices : n[1] = "ticket_closed" /\ n[2] = t}
             one == <<"ticket_closed", t, tickets[t].version>>
  <1>1. A \subseteq {one}
    BY DEF ClosingTold
  <1>2. A = {} \/ A = {one}
    BY <1>1
  <1>3. Cardinality({}) = 0 /\ Cardinality({one}) = 1
    BY FS_EmptySet, FS_Singleton
  <1> HIDE DEF A, one
  <1>4. Cardinality(A) <= 1
    BY <1>2, <1>3
  <1> QED BY <1>4 DEF A

LEMMA TicketsAreAsTheySay ==
    ASSUME TicketInv
    PROVE  TicketTypeOK /\ StatusTellsWhoIsNext /\ OneMailPerAnswer /\ AnsweredMeansTold /\ ClosingIsToldOnce
  <1>1. TicketTypeOK
    <2>1. \A t \in Ticket : TicketExists(t) =>
              tickets[t].version = Cardinality({m \in messages : m.ticket = t})
                                     + (IF tickets[t].status = "closed" THEN 3 ELSE 2)
      BY DEF TicketInv, ThreadsInv, ThreadIs, MessagesOf, TicketExists
    <2> QED BY <2>1 DEF TicketInv, ThreadsInv, TicketTypeOK, TicketRow, DeskType
  <1>2. StatusTellsWhoIsNext
    <2> SUFFICES ASSUME NEW t \in Ticket, tickets[t].status \in {"awaiting_user", "awaiting_support"}
                 PROVE  LET said == {m \in messages : m.ticket = t /\ m.kind # "internal_note"}
                            last == {m \in said : \A n \in said : n.version <= m.version}
                        IN  tickets[t].status = "awaiting_user" <=> \E m \in last : m.kind = "support_reply"
      BY DEF StatusTellsWhoIsNext
    <2> DEFINE said == {m \in messages : m.ticket = t /\ m.kind # "internal_note"}
               last == {m \in said : \A n \in said : n.version <= m.version}
    <2>1. last = LastSaid(MessagesOf(t))
      BY DEF LastSaid, MessagesOf
    <2>2. ThreadIs(tickets[t], MessagesOf(t))
      BY DEF TicketInv, ThreadsInv
    <2> HIDE DEF last
    <2>3. tickets[t].status = "awaiting_user" <=> \E m \in last : m.kind = "support_reply"
      BY <2>1, <2>2 DEF ThreadIs
    <2> QED BY <2>3 DEF last
  <1>3. AnsweredMeansTold
    BY DEF TicketInv, AnsweredMeansTold, DeskRow, OnRecord
  <1> QED BY <1>1, <1>2, <1>3, ClosingIsOne DEF TicketInv, ThreadsInv

(* However requests on a ticket interleave, fail between their commits and are sent    *)
(* again, its row tells its thread, an answer is mailed once, an answered request has   *)
(* left its records, a closing is told once, and a closed ticket is silent.             *)
THEOREM TicketsAreSafe == TicketSpec => TicketSafety
  <1>1. TicketSpec => []TicketInv
    BY TicketAssumption, TicketsStart, TicketsStep, PTL DEF TicketSpec
  <1>2. TicketInv => /\ TicketTypeOK /\ StatusTellsWhoIsNext /\ OneMailPerAnswer
                     /\ AnsweredMeansTold /\ ClosingIsToldOnce
    BY TicketsAreAsTheySay
  <1>3. TicketInv /\ [TicketNext]_ticketVars =>
            [\A t \in Ticket : tickets[t].status = "closed" =>
                /\ tickets'[t] = tickets[t]
                /\ {m \in messages' : m.ticket = t} = {m \in messages : m.ticket = t}]_ticketVars
    BY TicketAssumption, TicketsStep DEF ThreadsStay
  <1> QED BY <1>1, <1>2, <1>3, PTL DEF TicketSpec, TicketSafety, ClosedIsFinal
==============================================================================
