------------------------------ MODULE LinkStore ------------------------------
(***************************************************************************)
(* The link store of internal/links: the MySQL tables links, link_versions *)
(* and analytics_outbox as the transactions of MySQLStore change them, and *)
(* the two-request edits of the HTTP API (the PATCH handler and the bulk   *)
(* pause/activate), which read a row outside the transaction they commit   *)
(* it in.                                                                  *)
(*                                                                         *)
(* One action is one transaction (row locked FOR UPDATE until COMMIT) or   *)
(* one read.  A destination is a model value; the risk fingerprint is a    *)
(* SHA-256 of the sorted reachable targets, so a set of targets stands for *)
(* its fingerprint.  An address is a (hostname, code) pair.                *)
(***************************************************************************)
EXTENDS Integers, Sequences

CONSTANTS
    Link,           \* identifiers AUTO_INCREMENT may hand out
    Addr,           \* (hostname, code) pairs
    Target,         \* normalised destinations
    Config,         \* the link contents an editor may submit
    Editor,         \* API clients
    Unlimited,      \* no click_limit
    Never,          \* no expires_at
    NoRow,          \* the link does not exist
    NoOp,           \* the editor has no write in flight
    Guess,          \* TRUE: a client may send a version it was never shown
    MaxVersion,     \* bound on edits of one link
    MaxClicks,      \* bound on the clicks of one link
    MaxNow          \* bound on the clock a claim is made at

Fingerprint == SUBSET Target \ {{}}

ConfigRecord ==
    [addr : Addr, kind : {"official", "custom"}, targets : Fingerprint,
     cap : (Nat \ {0}) \cup {Unlimited}, oneTime : BOOLEAN,
     expires : Nat \cup {Never}, password : BOOLEAN]

ASSUME ConfigAssumption ==
    /\ Config \subseteq ConfigRecord
    /\ Unlimited \notin Nat
    /\ Never \notin Nat

Status == {"active", "paused", "deleted"}
Row == [cfg : ConfigRecord, status : Status, gone : BOOLEAN,
        version : Nat \ {0}, clicks : Nat]

ASSUME NoRowAssumption == NoRow \notin Row
ASSUME BoundAssumption ==
    MaxVersion \in Nat /\ MaxClicks \in Nat /\ MaxNow \in Nat

Snapshot == [cfg : ConfigRecord, status : Status, clicks : Nat, base : Nat]
Operation == [link : Link, expected : Nat, cfg : ConfigRecord,
              status : {"active", "paused"}, base : Nat]
Event == [link : Link, seq : Nat \ {0}, version : Nat \ {0},
          targets : Fingerprint, at : Nat]

VARIABLES
    row,        \* links: the current row of each link, or NoRow
    history,    \* link_versions: one snapshot per version; base is a ghost,
                \* the version whose contents the writer had before it
    outbox,     \* analytics_outbox: the accepted clicks; version and targets
                \* are ghosts, the row the click was accepted under
    domain,     \* what the custom-domain authority answers for an address
    seen,       \* the version each client was last shown of each link
    op          \* the write a client's request is about to commit

vars == <<row, history, outbox, domain, seen, op>>

-----------------------------------------------------------------------------
(* The custom-domain authority, consulted inside the transaction. *)

\* Bug: downgrade grace is taken for readiness.
AssignmentInGrace(c) == c.kind = "custom" => domain[c.addr] # "off"
AssignmentAuthorized(c) == c.kind = "custom" => domain[c.addr] = "ready"
RoutingAuthorized(c) == c.kind = "custom" => domain[c.addr] # "off"

\* UNIQUE (hostname, code): a deleted row keeps its address.
AddressFree(l, a) == \A m \in Link \ {l} : row[m] # NoRow => row[m].cfg.addr # a

\* Writes a row and appends its version snapshot in the same transaction.
Write(l, r, base) ==
    /\ row' = [row EXCEPT ![l] = r]
    /\ history' = [history EXCEPT ![l] =
         Append(@, [cfg |-> r.cfg, status |-> r.status,
                    clicks |-> r.clicks, base |-> base])]

Show(e, l, v) == seen' = [seen EXCEPT ![e][l] = v]

\* The expected_version a client may send.
Expected(e, l) == IF Guess THEN 1 .. MaxVersion ELSE {seen[e][l]} \ {0}

-----------------------------------------------------------------------------
Create(e, l, c) ==
    /\ row[l] = NoRow
    /\ AssignmentAuthorized(c)
    /\ AddressFree(l, c.addr)
    /\ Write(l, [cfg |-> c, status |-> "active", gone |-> FALSE,
                 version |-> 1, clicks |-> 0], 0)
    /\ Show(e, l, 1)
    /\ UNCHANGED <<outbox, domain, op>>

Get(e, l) ==
    /\ row[l] # NoRow
    /\ Show(e, l, row[l].version)
    /\ UNCHANGED <<row, history, outbox, domain, op>>

\* updateLink reads the row, refuses a version other than the expected one,
\* and takes the password from the row it read unless the request sets it.
BeginUpdate(e, l, c, s) ==
    /\ op[e] = NoOp
    /\ row[l] # NoRow
    /\ row[l].version \in Expected(e, l)
    /\ row[l].version < MaxVersion
    /\ \E p \in {c.password, row[l].cfg.password} :
         op' = [op EXCEPT ![e] =
                 [link |-> l, expected |-> row[l].version,
                  cfg |-> [c EXCEPT !.password = p], status |-> s,
                  base |-> row[l].version]]
    /\ UNCHANGED <<row, history, outbox, domain, seen>>

\* SetStatus copies the row it reads and keeps the client's expected version.
BeginSetStatus(e, l, v, s) ==
    /\ op[e] = NoOp
    /\ row[l] # NoRow
    /\ v \in Expected(e, l)
    /\ v < MaxVersion
    /\ op' = [op EXCEPT ![e] = [link |-> l, expected |-> v, cfg |-> row[l].cfg,
                                status |-> s, base |-> row[l].version]]
    /\ UNCHANGED <<row, history, outbox, domain, seen>>

\* Bug: last write wins.
UpdateAcceptedAnyVersion(o) ==
    ~row[o.link].gone /\ AssignmentAuthorized(o.cfg) /\ AddressFree(o.link, o.cfg.addr)

UpdateAccepted(o) ==
    /\ row[o.link].version = o.expected
    /\ ~row[o.link].gone
    /\ AssignmentAuthorized(o.cfg)
    /\ AddressFree(o.link, o.cfg.addr)

\* MySQLStore.Update, for the PATCH handler and for SetStatus.
CommitUpdate(e) ==
    /\ op[e] # NoOp
    /\ UpdateAccepted(op[e])
    /\ LET o == op[e]
           r == row[o.link]
       IN /\ Write(o.link, [r EXCEPT !.cfg = o.cfg, !.status = o.status,
                                     !.version = @ + 1], o.base)
          /\ Show(e, o.link, r.version + 1)
    /\ op' = [op EXCEPT ![e] = NoOp]
    /\ UNCHANGED <<outbox, domain>>

\* A conflict, a refused domain, a failed or rolled-back transaction.
RefuseUpdate(e) ==
    /\ op[e] # NoOp
    /\ op' = [op EXCEPT ![e] = NoOp]
    /\ UNCHANGED <<row, history, outbox, domain, seen>>

Delete(e, l, v) ==
    /\ row[l] # NoRow
    /\ v \in Expected(e, l)
    /\ v < MaxVersion
    /\ row[l].version = v
    /\ ~row[l].gone
    /\ Write(l, [row[l] EXCEPT !.status = "deleted", !.gone = TRUE,
                               !.version = @ + 1], v)
    /\ Show(e, l, v + 1)
    /\ UNCHANGED <<outbox, domain, op>>

\* Bug: the status of the snapshot is copied as it is.
RestoredStatusVerbatim(s) == s

RestoredStatus(s) == IF s = "paused" THEN "paused" ELSE "active"

\* Bug: the whole snapshot comes back, click_count included.
RestoreWithClicks(e, l, v, n) ==
    /\ row[l] # NoRow /\ v \in Expected(e, l) /\ v < MaxVersion /\ row[l].version = v
    /\ n \in 1 .. Len(history[l])
    /\ AddressFree(l, history[l][n].cfg.addr)
    /\ Write(l, [cfg |-> history[l][n].cfg, clicks |-> history[l][n].clicks,
                 status |-> RestoredStatus(history[l][n].status),
                 gone |-> FALSE, version |-> v + 1], v)
    /\ Show(e, l, v + 1)
    /\ UNCHANGED <<outbox, domain, op>>

\* Brings back the contents of version n as a new version of a live link.  The
\* click count stays; the custom-domain authority is not consulted.
Restore(e, l, v, n) ==
    /\ row[l] # NoRow
    /\ v \in Expected(e, l)
    /\ v < MaxVersion
    /\ row[l].version = v
    /\ n \in 1 .. Len(history[l])
    /\ AddressFree(l, history[l][n].cfg.addr)
    /\ Write(l, [row[l] EXCEPT !.cfg = history[l][n].cfg,
                               !.status = RestoredStatus(history[l][n].status),
                               !.gone = FALSE, !.version = @ + 1], v)
    /\ Show(e, l, v + 1)
    /\ UNCHANGED <<outbox, domain, op>>

-----------------------------------------------------------------------------
(* The redirect claim: the last gate before a destination leaves GoJet. *)

NotExpired(c, at) == c.expires # Never => c.expires > at

WithinLimits(c, clicks) ==
    /\ c.cap # Unlimited => clicks < c.cap
    /\ c.oneTime => clicks < 1

\* Bug: the claim trusts the snapshot of the caller.
ClaimAllowedAnyVersion(l, v, t, at) ==
    /\ row[l] # NoRow
    /\ row[l].status = "active" /\ ~row[l].gone
    /\ RoutingAuthorized(row[l].cfg)
    /\ NotExpired(row[l].cfg, at)
    /\ WithinLimits(row[l].cfg, row[l].clicks)

ClaimAllowed(l, v, t, at) ==
    /\ row[l] # NoRow
    /\ row[l].version = v
    /\ row[l].cfg.targets = t
    /\ row[l].status = "active" /\ ~row[l].gone
    /\ RoutingAuthorized(row[l].cfg)
    /\ NotExpired(row[l].cfg, at)
    /\ WithinLimits(row[l].cfg, row[l].clicks)

\* Counts the click and records its outbox event in one transaction.
Claim(l, v, t, at) ==
    /\ ClaimAllowed(l, v, t, at)
    /\ row[l].clicks < MaxClicks
    /\ row' = [row EXCEPT ![l].clicks = @ + 1]
    /\ outbox' = outbox \cup
         {[link |-> l, seq |-> row[l].clicks + 1, version |-> v,
           targets |-> t, at |-> at]}
    /\ UNCHANGED <<history, domain, seen, op>>

\* The domain components move an address between ready, downgrade grace and off.
SetDomain(a, s) ==
    /\ domain' = [domain EXCEPT ![a] = s]
    /\ UNCHANGED <<row, history, outbox, seen, op>>

-----------------------------------------------------------------------------
DomainState == {"ready", "grace", "off"}

Init ==
    /\ row = [l \in Link |-> NoRow]
    /\ history = [l \in Link |-> <<>>]
    /\ outbox = {}
    /\ domain = [a \in Addr |-> "off"]
    /\ seen = [e \in Editor |-> [l \in Link |-> 0]]
    /\ op = [e \in Editor |-> NoOp]

Edit ==
    \E e \in Editor :
        \/ CommitUpdate(e)
        \/ RefuseUpdate(e)
        \/ \E l \in Link :
              \/ Get(e, l)
              \/ \E c \in Config : Create(e, l, c)
              \/ \E c \in Config, s \in {"active", "paused"} : BeginUpdate(e, l, c, s)
              \/ \E v \in 1 .. MaxVersion :
                    \/ \E s \in {"active", "paused"} : BeginSetStatus(e, l, v, s)
                    \/ Delete(e, l, v)
                    \/ \E n \in 1 .. MaxVersion : Restore(e, l, v, n)

CustomAddr == {c.addr : c \in {d \in Config : d.kind = "custom"}}

Environment == \E a \in CustomAddr, s \in DomainState : SetDomain(a, s)

Redirect ==
    \E l \in Link, v \in 1 .. MaxVersion, t \in Fingerprint, at \in 0 .. MaxNow :
        Claim(l, v, t, at)

Next == Edit \/ Environment \/ Redirect

Spec == Init /\ [][Next]_vars

-----------------------------------------------------------------------------
\* Every variable has its type.
TypeOK ==
    /\ row \in [Link -> Row \cup {NoRow}]
    /\ history \in [Link -> Seq(Snapshot)]
    /\ outbox \subseteq Event
    /\ domain \in [Addr -> DomainState]
    /\ seen \in [Editor -> [Link -> Nat]]
    /\ op \in [Editor -> Operation \cup {NoOp}]

\* link_versions holds exactly one snapshot per version, the last one is the
\* current row, and a row is marked deleted_at exactly when its status says so:
\* what Restore and the history page show is what the link was.
HistoryIsComplete ==
    \A l \in Link :
        IF row[l] = NoRow THEN history[l] = <<>>
        ELSE /\ Len(history[l]) = row[l].version
             /\ history[l][row[l].version].cfg = row[l].cfg
             /\ history[l][row[l].version].status = row[l].status
             /\ row[l].gone = (row[l].status = "deleted")

\* Optimistic concurrency: version n was written by somebody who had version
\* n - 1 in hand, so no write silently undoes another one, whichever handlers
\* overlap (PATCH, bulk pause, delete, restore).
NoLostUpdate ==
    \A l \in Link : \A n \in 1 .. Len(history[l]) : history[l][n].base = n - 1

\* One address never leads to two links, deleted links included.
AddressUnique ==
    \A l, m \in Link :
        row[l] # NoRow /\ row[m] # NoRow /\ l # m => row[l].cfg.addr # row[m].cfg.addr

\* The clicks of a link and its analytics events are the same thing: sequence
\* numbers 1 .. click_count, none missing, none used twice, across restores.
EventsAreClicks ==
    \A l \in Link :
        LET mine == {x \in outbox : x.link = l}
            clicks == IF row[l] = NoRow THEN 0 ELSE row[l].clicks
        IN /\ \A x \in mine : x.seq <= clicks
           /\ \A k \in 1 .. clicks : \E x \in mine : x.seq = k
           /\ \A x, y \in mine : x.seq = y.seq => x = y

\* Every accepted click was within the limits of the version it was accepted
\* under: active, unexpired, below the click limit, first of a one-time link,
\* and towards that version's exact target set.
ClicksWithinLimits ==
    \A x \in outbox :
        /\ x.version <= Len(history[x.link])
        /\ LET s == history[x.link][x.version]
           IN /\ s.status = "active"
              /\ s.cfg.targets = x.targets
              /\ s.cfg.expires # Never => x.at < s.cfg.expires
              /\ s.cfg.cap # Unlimited => x.seq <= s.cfg.cap
              /\ s.cfg.oneTime => x.seq = 1

\* A link reaches a custom address it never had before only while the domain
\* is ready for assignment (grace is not enough), and a click is never counted
\* on a custom address that is off.
DomainGates ==
    [][\A l \in Link :
         /\ /\ row'[l] # NoRow /\ row'[l].cfg.kind = "custom"
            /\ \A n \in 1 .. Len(history[l]) :
                 history[l][n].cfg.addr # row'[l].cfg.addr
            => domain[row'[l].cfg.addr] = "ready"
         /\ outbox' # outbox /\ row'[l] # row[l] => RoutingAuthorized(row[l].cfg)]_vars

\* The rows as a whole: well typed, one link to an address, and a history that is the
\* link's past.
StoreSafety == TypeOK /\ AddressUnique /\ HistoryIsComplete

\* Clicks as a whole: each has its event under the next number, and each was within the
\* limits of the version that took it.
ClickSafety == EventsAreClicks /\ ClicksWithinLimits
=============================================================================
