---------------------------- MODULE AdminConsole ----------------------------
(***************************************************************************)
(* The administration, internal/admin: sign-in with a lock and a second     *)
(* factor, and the governed mutations.  A mutation is authenticated once,    *)
(* looks for a record of its idempotency key, and then, under the lock of   *)
(* the row it changes, changes it and stores the record in one commit; two   *)
(* deliveries of one call may both have missed the record.                  *)
(***************************************************************************)
EXTENDS Naturals, FiniteSets

CONSTANTS
    Admin,
    Call,               \* requests of the administration under way
    IdemKey,            \* idempotency keys the clients use; a retry repeats one
    OfficialDomain,     \* rows of admin_official_domains
    MaxFailures,        \* maxFailedAttempts
    MaxAdminSessions,   \* bound: rows of admin_sessions
    MaxGoverned,        \* bound: versions of a governed row, secrets of an administrator
    MaxFailed,          \* bound: failed attempts since the last success
    NoAdmin

ASSUME AdminAssumption == /\ MaxFailures \in Nat \ {0} /\ MaxAdminSessions \in Nat /\ MaxGoverned \in Nat \ {0} /\ MaxFailed \in Nat
                          /\ NoAdmin \notin Admin

VARIABLES
    credentials,    \* failed attempts, the lock, and the second factor with its secret
    adminSessions,  \* admin_sessions, in the order they were opened
    guesses,        \* wrong passwords and codes since the last success or the end of a lock
    governed,       \* the rows mutations change
    calls,          \* mutations under way: what was authenticated, and whether no record was found
    records,        \* admin_idempotency_records: who, what was asked, under which key
    effects         \* how often a key of an administrator changed something, per kind of mutation

adminVars == <<credentials, adminSessions, guesses, governed, calls, records, effects>>

AdminSessionId == 1 .. MaxAdminSessions
Versions == 0 .. MaxGoverned
Kinds == {"setting", "domain", "announcement", "workspace"}         \* the action of a record
DomainActs == {"enable", "disable", "set_default", "https_active", "https_failed"}
AnnouncementActs == {"schedule", "publish", "archive"}
\* What a mutation asks for, and the version of the row its client saw.
Asked == [kind : {"setting"}, on : {NoAdmin}, act : {"update"}, expected : Versions]
            \cup [kind : {"domain"}, on : OfficialDomain, act : DomainActs, expected : Versions]
            \cup [kind : {"announcement"}, on : {NoAdmin}, act : AnnouncementActs, expected : Versions]
            \cup [kind : {"workspace"}, on : {NoAdmin}, act : {"suspend", "restore"}, expected : {0}]

NoAdminSession == [of |-> NoAdmin, status |-> "none", mfa |-> "none"]
NoCall == [by |-> NoAdmin, asked |-> {}, key |-> NoAdmin, missed |-> FALSE]
Pending == [enabled |-> TRUE, default |-> FALSE, https |-> "pending", version |-> 1]
Serving == [Pending EXCEPT !.https = "active"]
Default == [Serving EXCEPT !.default = TRUE]

-----------------------------------------------------------------------------
(* Signing in *)

\* failLogin
CountFailure(a) ==
    credentials' = [credentials EXCEPT ![a].failed = @ + 1, ![a].locked = credentials[a].failed + 1 >= MaxFailures]

\* A wrong password, or a wrong code after the right one.  The row is locked, so failures count one
\* by one; after a lock they go on from where they were, and the next one locks again.
LoginFails(a) ==
    /\ ~credentials[a].locked
    /\ credentials[a].failed < MaxFailed
    /\ CountFailure(a)
    /\ guesses' = [guesses EXCEPT ![a] = @ + 1]
    /\ UNCHANGED <<adminSessions, governed, calls, records, effects>>

\* The right password and, once the second factor is active, a code of its secret.
Login(a, code) ==
    /\ ~credentials[a].locked
    /\ credentials[a].totp = "active" => code = credentials[a].secret
    /\ \E s \in AdminSessionId :
           /\ adminSessions[s].status = "none"
           /\ \A r \in AdminSessionId : r < s => adminSessions[r].status # "none"
           /\ adminSessions' = [adminSessions EXCEPT ![s] =
                  [of |-> a, status |-> "active", mfa |-> IF credentials[a].totp = "active" THEN "fresh" ELSE "none"]]
    /\ credentials' = [credentials EXCEPT ![a].failed = 0]
    /\ guesses' = [guesses EXCEPT ![a] = 0]
    /\ UNCHANGED <<governed, calls, records, effects>>

LockEnds(a) ==
    /\ credentials[a].locked
    /\ credentials' = [credentials EXCEPT ![a].locked = FALSE]
    /\ guesses' = [guesses EXCEPT ![a] = 0]
    /\ UNCHANGED <<adminSessions, governed, calls, records, effects>>

\* Ten minutes after the code: mfaFreshness.
MfaGrowsStale(s) ==
    /\ adminSessions[s].mfa = "fresh"
    /\ adminSessions' = [adminSessions EXCEPT ![s].mfa = "stale"]
    /\ UNCHANGED <<credentials, guesses, governed, calls, records, effects>>

Active(s) == adminSessions[s].status = "active"

\* Bug: an active second factor can be replaced.
BugEnrollAnytime(s) ==
    /\ Active(s)
    /\ credentials[adminSessions[s].of].secret < MaxGoverned
    /\ credentials' = [credentials EXCEPT ![adminSessions[s].of].totp = "pending",
                                          ![adminSessions[s].of].secret = @ + 1]
    /\ UNCHANGED <<adminSessions, guesses, governed, calls, records, effects>>

\* A new secret replaces one that waits for its confirmation.
EnrollTOTP(s) ==
    /\ Active(s)
    /\ credentials[adminSessions[s].of].totp # "active"
    /\ credentials[adminSessions[s].of].secret < MaxGoverned
    /\ credentials' = [credentials EXCEPT ![adminSessions[s].of].totp = "pending",
                                          ![adminSessions[s].of].secret = @ + 1]
    /\ UNCHANGED <<adminSessions, guesses, governed, calls, records, effects>>

ConfirmTOTP(s, code) ==
    /\ Active(s)
    /\ credentials[adminSessions[s].of].totp = "pending"
    /\ code = credentials[adminSessions[s].of].secret
    /\ credentials' = [credentials EXCEPT ![adminSessions[s].of].totp = "active"]
    /\ adminSessions' = [adminSessions EXCEPT ![s].mfa = "fresh"]
    /\ UNCHANGED <<guesses, governed, calls, records, effects>>

Logout(s) ==
    /\ Active(s)
    /\ adminSessions' = [adminSessions EXCEPT ![s].status = "revoked"]
    /\ UNCHANGED <<credentials, guesses, governed, calls, records, effects>>

\* RevokeSession of another session, by one whose second factor is fresh.
RevokeAdminSession(by, s) ==
    /\ Active(by) /\ adminSessions[by].mfa = "fresh"
    /\ Active(s)
    /\ adminSessions' = [adminSessions EXCEPT ![s].status = "revoked"]
    /\ UNCHANGED <<credentials, guesses, governed, calls, records, effects>>

-----------------------------------------------------------------------------
(* Governed mutations *)

VersionOf(asked) == CASE asked.kind = "setting"      -> governed.setting
                      [] asked.kind = "domain"       -> governed.domains[asked.on].version
                      [] asked.kind = "announcement" -> governed.announcement.version
                      [] asked.kind = "workspace"    -> 0

\* Authenticate and RequireHighRisk, once for the call; the session may end before it commits.
BeginCall(c, s, key, asked) ==
    /\ calls[c] = NoCall
    /\ Active(s) /\ adminSessions[s].mfa = "fresh"
    /\ asked.expected = VersionOf(asked)
    /\ calls' = [calls EXCEPT ![c] = [by |-> adminSessions[s].of, asked |-> {asked}, key |-> key, missed |-> FALSE]]
    /\ UNCHANGED <<credentials, adminSessions, guesses, governed, records, effects>>

CallEnds(c) ==
    /\ calls[c] # NoCall
    /\ calls' = [calls EXCEPT ![c] = NoCall]
    /\ UNCHANGED <<credentials, adminSessions, guesses, governed, records, effects>>

SameKey(r, c, asked) == r.by = calls[c].by /\ r.asked.kind = asked.kind /\ r.key = calls[c].key

\* loadIdempotency, a plain read: a record ends the call with the stored answer, or with a refusal
\* when something else was asked under its key.
LoadIdempotency(c) ==
    /\ \E asked \in calls[c].asked : ~\E r \in records : SameKey(r, c, asked)
    /\ ~calls[c].missed
    /\ calls' = [calls EXCEPT ![c].missed = TRUE]
    /\ UNCHANGED <<credentials, adminSessions, guesses, governed, records, effects>>

\* What a mutation makes of the rows; the empty set is a refusal.
UpdatePlatformSetting(g, asked) ==
    IF asked.expected = g.setting /\ g.setting < MaxGoverned
    THEN {[g EXCEPT !.setting = @ + 1]} ELSE {}

\* The row is locked and carries the version the caller saw.  set_default also clears the others,
\* but a statement does not see a default that another call has set and not yet committed: it may
\* leave them as they are.
MutateOfficialDomain(g, asked) ==
    LET d == g.domains[asked.on]
        to == [d EXCEPT !.version = @ + 1,
                        !.enabled = (asked.act = "enable") \/ (@ /\ asked.act # "disable"),
                        !.default = @ \/ asked.act = "set_default",
                        !.https = CASE asked.act = "https_active" -> "active"
                                    [] asked.act = "https_failed" -> "failed"
                                    [] OTHER -> @]
        others == [o \in OfficialDomain |->
                      IF o = asked.on THEN to
                      ELSE IF g.domains[o].default /\ g.domains[o].version < MaxGoverned
                           THEN [g.domains[o] EXCEPT !.default = FALSE, !.version = @ + 1]
                           ELSE g.domains[o]]
    IN  IF \/ d.version # asked.expected \/ d.version = MaxGoverned
           \/ asked.act \in {"disable", "https_failed"} /\ d.default
           \/ asked.act = "set_default" /\ ~(d.enabled /\ d.https = "active")
        THEN {}
        ELSE {[g EXCEPT !.domains[asked.on] = to]} \cup
             (IF asked.act = "set_default" THEN {[g EXCEPT !.domains = others]} ELSE {})

\* An announcement goes from draft by way of a schedule, or straight, to published and archived.
MutateAnnouncement(g, asked) ==
    LET a == g.announcement
        From == [schedule |-> {"draft"}, publish |-> {"draft", "scheduled"}, archive |-> {"published"}]
        To == [schedule |-> "scheduled", publish |-> "published", archive |-> "archived"]
    IN  IF asked.expected = a.version /\ a.version < MaxGoverned /\ a.state \in From[asked.act]
        THEN {[g EXCEPT !.announcement = [state |-> To[asked.act], version |-> a.version + 1]]}
        ELSE {}

\* A suspension of what is suspended succeeds and changes nothing; only the suspended is restored.
MutateManagedWorkspace(g, asked) ==
    IF asked.act = "suspend" THEN {[g EXCEPT !.workspace = "suspended"]}
    ELSE IF g.workspace = "suspended" THEN {[g EXCEPT !.workspace = "active"]} ELSE {}

Outcomes(g, asked) ==
    CASE asked.kind = "setting"      -> UpdatePlatformSetting(g, asked)
      [] asked.kind = "domain"       -> MutateOfficialDomain(g, asked)
      [] asked.kind = "announcement" -> MutateAnnouncement(g, asked)
      [] asked.kind = "workspace"    -> MutateManagedWorkspace(g, asked)

\* storeIdempotency: a record that is there by now takes the whole transaction back.
StoreIdempotency(c, asked) ==
    /\ ~\E r \in records : SameKey(r, c, asked)
    /\ records' = records \cup {[by |-> calls[c].by, asked |-> asked, key |-> calls[c].key]}

\* The locked row, the change and the record, in one commit.
CommitCall(c) ==
    /\ calls[c].missed
    /\ \E asked \in calls[c].asked :
           /\ governed' \in Outcomes(governed, asked)
           /\ StoreIdempotency(c, asked)
           /\ effects' = [effects EXCEPT ![<<calls[c].by, asked.kind, calls[c].key>>] =
                              @ + (IF governed' # governed THEN 1 ELSE 0)]
    /\ calls' = [calls EXCEPT ![c] = NoCall]
    /\ UNCHANGED <<credentials, adminSessions, guesses>>

-----------------------------------------------------------------------------
AdminInit ==
    /\ credentials = [a \in Admin |-> [failed |-> 0, locked |-> FALSE, totp |-> "none", secret |-> 0]]
    /\ adminSessions = [s \in AdminSessionId |-> NoAdminSession]
    /\ guesses = [a \in Admin |-> 0]
    /\ \E domains \in [OfficialDomain -> {Pending, Serving, Default}] :
           /\ \A d, e \in OfficialDomain : domains[d] = Default /\ domains[e] = Default => d = e
           /\ governed = [setting |-> 0, domains |-> domains,
                   announcement |-> [state |-> "draft", version |-> 1], workspace |-> "active"]
    /\ calls = [c \in Call |-> NoCall]
    /\ records = {}
    /\ effects = [k \in Admin \X Kinds \X IdemKey |-> 0]

AdminNext ==
    \/ \E a \in Admin : LoginFails(a) \/ LockEnds(a) \/ \E code \in Versions : Login(a, code)
    \/ \E s \in AdminSessionId :
           \/ MfaGrowsStale(s) \/ EnrollTOTP(s) \/ Logout(s)
           \/ \E code \in Versions : ConfirmTOTP(s, code)
           \/ \E by \in AdminSessionId : RevokeAdminSession(by, s)
    \/ \E c \in Call :
           \/ CallEnds(c) \/ LoadIdempotency(c) \/ CommitCall(c)
           \/ \E s \in AdminSessionId, key \in IdemKey, asked \in Asked : BeginCall(c, s, key, asked)

AdminSpec == AdminInit /\ [][AdminNext]_adminVars

-----------------------------------------------------------------------------
(* Properties *)

\* The rows and the calls under way.
AdminTypeOK ==
    /\ credentials \in [Admin -> [failed : Nat, locked : BOOLEAN, totp : {"none", "pending", "active"}, secret : Versions]]
    /\ \A a \in Admin : credentials[a].totp = "none" <=> credentials[a].secret = 0
    /\ adminSessions \in [AdminSessionId -> [of : Admin \cup {NoAdmin}, status : {"none", "active", "revoked"},
                                             mfa : {"none", "fresh", "stale"}]]
    /\ governed \in [setting : Versions, workspace : {"active", "suspended"},
                     domains : [OfficialDomain -> [enabled : BOOLEAN, default : BOOLEAN, version : Versions,
                                                   https : {"pending", "active", "failed"}]],
                     announcement : [state : {"draft", "scheduled", "published", "archived"}, version : Versions]]
    /\ calls \in [Call -> [by : Admin \cup {NoAdmin}, asked : SUBSET Asked, key : IdemKey \cup {NoAdmin}, missed : BOOLEAN]]
    /\ records \subseteq [by : Admin, asked : Asked, key : IdemKey]

\* A call delivered again, at once or after others have changed the rows back, changes them once.
AppliedOnce == \A k \in DOMAIN effects : effects[k] <= 1

\* Whoever has mutations to make has proved a second factor that is in force still.
MfaBehindActiveTotp ==
    \A s \in AdminSessionId : adminSessions[s].mfa # "none" => credentials[adminSessions[s].of].totp = "active"

\* Between two locks no more passwords are tried than the limit.
GuessesAreBounded == \A a \in Admin : guesses[a] <= MaxFailures

\* The default domain of new links is one that serves: neither disabled nor without HTTPS.
DefaultServes ==
    \A d \in OfficialDomain : governed.domains[d].default =>
        governed.domains[d].enabled /\ governed.domains[d].https = "active"

\* The console as a whole: mutations happen once, under a second factor in force and a
\* bounded number of guesses, and the default domain serves.
AdminSafety == AdminTypeOK /\ AppliedOnce /\ MfaBehindActiveTotp /\ GuessesAreBounded /\ DefaultServes
=============================================================================
