--------------------------- MODULE SupportTickets ---------------------------
(***************************************************************************)
(* Support tickets, internal/support.  A request commits its change of the  *)
(* ticket under the row's lock; the audit record, the request for custom     *)
(* domains and the notification follow in commits of their own, and any of   *)
(* them may fail.  The client that has got no answer sends the request        *)
(* again, under the same key, which is to repair what is missing and to       *)
(* repeat nothing.                                                           *)
(***************************************************************************)
EXTENDS Naturals, FiniteSets

CONSTANTS
    Ticket,             \* a ticket is known by the idempotency key that creates it
    DomainTicket,       \* those that ask for custom domains
    ReplyKey,           \* idempotency keys of messages
    Desk,               \* requests being served
    Correlation,        \* ids that requests carry, their own or generated
    MaxTicketVersion    \* bound

ASSUME TicketAssumption == DomainTicket \subseteq Ticket /\ MaxTicketVersion \in Nat /\ MaxTicketVersion >= 2

VARIABLES
    tickets,    \* support_tickets
    messages,   \* support_ticket_messages after the first of a ticket
    mails,      \* mail jobs enqueued about a message, counted
    belongs,    \* whether the requester is a member of the workspace still
    requests,   \* the tickets with a row of custom_domain_entitlement_requests
    audits,     \* support_audit_events, by what makes them unique
    notices,    \* workspace_notifications, by their dedupe key
    desks       \* the requests being served

ticketVars == <<tickets, messages, mails, belongs, requests, audits, notices, desks>>

MessageKinds == {"requester_reply", "support_reply", "internal_note"}
Messages == [ticket : Ticket, key : ReplyKey, kind : MessageKinds, version : 3 .. MaxTicketVersion]
Jobs == [op : {"create", "close", "adminClose"}, ticket : Ticket, key : {"none"}, expected : 0 .. MaxTicketVersion]
            \cup [op : MessageKinds, ticket : Ticket, key : ReplyKey, expected : {0}]
Missing == [status |-> "none", version |-> 0]
Free == [at |-> "free", job |-> {}, id |-> 0, asks |-> FALSE]

TicketExists(t) == tickets[t].status # "none"
ByRequester == {"create", "close", "requester_reply"}

\* The event told to the requester, or nothing: internal notes stay inside.
EventOf(op) == CASE op = "create"                   -> {"ticket_created"}
                 [] op = "requester_reply"          -> {"ticket_reply_sent"}
                 [] op = "support_reply"            -> {"ticket_reply_received"}
                 [] op = "internal_note"            -> {}
                 [] op \in {"close", "adminClose"}  -> {"ticket_closed"}

-----------------------------------------------------------------------------
(* The store *)

\* ApplyTicketMessage on an open ticket
ApplyTicketMessage(t, kind) ==
    [tickets EXCEPT ![t].status = CASE kind = "requester_reply" -> "awaiting_support"
                                    [] kind = "support_reply"   -> "awaiting_user"
                                    [] OTHER                    -> @,
                    ![t].version = @ + 1]

\* CreateWorkspaceTicket: the ticket with its first message, which makes version 2; the address of
\* the mail is the membership's.  A ticket with the key is returned as it is now.
CreateTicket(t, id) ==
    /\ IF TicketExists(t) THEN UNCHANGED tickets
       ELSE /\ belongs
            /\ tickets' = [tickets EXCEPT ![t] = [status |-> "awaiting_support", version |-> 2]]
    /\ id = tickets'[t].version
    /\ UNCHANGED <<messages, mails>>

\* Bug: whether the ticket is closed is not looked at.
BugReplyToClosed(t, k, kind) ==
    \/ /\ \E m \in messages : m.ticket = t /\ m.key = k /\ m.kind = kind
       /\ UNCHANGED <<tickets, messages, mails>>
    \/ /\ ~\E m \in messages : m.ticket = t /\ m.key = k
       /\ tickets[t].version < MaxTicketVersion
       /\ kind = "support_reply" => belongs
       /\ tickets' = ApplyTicketMessage(t, kind)
       /\ messages' = messages \cup {[ticket |-> t, key |-> k, kind |-> kind, version |-> tickets[t].version + 1]}
       /\ mails' = IF kind = "support_reply" THEN [mails EXCEPT ![<<t, k>>] = @ + 1] ELSE mails

\* ReplyRequester, AddAdminMessage: a message with the key is returned, even from a closed ticket;
\* else the message, the ticket and, for an answer of the support, the mail in one commit.  There
\* is no address to mail to once the requester has left, and the answer is refused.
AddMessage(t, k, kind) ==
    \/ /\ \E m \in messages : m.ticket = t /\ m.key = k /\ m.kind = kind
       /\ UNCHANGED <<tickets, messages, mails>>
    \/ /\ ~\E m \in messages : m.ticket = t /\ m.key = k
       /\ tickets[t].status # "closed" /\ tickets[t].version < MaxTicketVersion
       /\ kind = "support_reply" => belongs
       /\ tickets' = ApplyTicketMessage(t, kind)
       /\ messages' = messages \cup {[ticket |-> t, key |-> k, kind |-> kind, version |-> tickets[t].version + 1]}
       /\ mails' = IF kind = "support_reply" THEN [mails EXCEPT ![<<t, k>>] = @ + 1] ELSE mails

\* CloseRequesterTicket (no expected version: 0), CloseAdminTicket: closed is an answer as well, to
\* who saw the version now or the one before it.
Close(t, expected, id) ==
    /\ \/ /\ tickets[t].status = "closed"
          /\ expected \in {0, tickets[t].version, tickets[t].version - 1}
          /\ UNCHANGED tickets
       \/ /\ tickets[t].status # "closed" /\ tickets[t].version < MaxTicketVersion
          /\ expected \in {0, tickets[t].version}
          /\ tickets' = [tickets EXCEPT ![t].status = "closed", ![t].version = @ + 1]
    /\ id = tickets'[t].version
    /\ UNCHANGED <<messages, mails>>

-----------------------------------------------------------------------------
(* A request, step by step *)

\* The membership, for a requester, and the ticket are looked at before the transaction.
Receive(d, job) ==
    /\ desks[d] = Free
    /\ job.op \in ByRequester => belongs
    /\ job.op # "create" => TicketExists(job.ticket)
    /\ job.op = "adminClose" <=> job.expected > 0
    /\ job.op = "adminClose" => job.expected \in {tickets[job.ticket].version, tickets[job.ticket].version - 1}
    /\ desks' = [desks EXCEPT ![d] = [at |-> "received", job |-> {job}, id |-> 0, asks |-> FALSE]]
    /\ UNCHANGED <<tickets, messages, mails, belongs, requests, audits, notices>>

\* The store's commit.  What the later records are about is the version of the ticket it returned,
\* or the message.
CommitJob(d) ==
    /\ desks[d].at = "received"
    /\ \E job \in desks[d].job :
           \/ \E id \in 1 .. MaxTicketVersion :
                  /\ IF job.op = "create" THEN CreateTicket(job.ticket, id)
                     ELSE job.op \in {"close", "adminClose"} /\ Close(job.ticket, job.expected, id)
                  /\ desks' = [desks EXCEPT ![d].at = "committed", ![d].id = id]
           \/ /\ job.op \in MessageKinds /\ AddMessage(job.ticket, job.key, job.op)
              /\ desks' = [desks EXCEPT ![d].at = "committed"]
    /\ UNCHANGED <<belongs, requests, audits, notices>>

AboutOf(d, job) == IF job.op \in MessageKinds THEN job.key ELSE desks[d].id
\* What is done under a request's correlation id; the request for domains, under its ticket's own.
RecordOf(job, x) == <<job.op, job.ticket, job.key, x>>
LinkOf(t) == <<"domain_request_linked", t>>

\* RecordSupportAudit, by the wrapper of the store: once for what is done under one correlation id,
\* which the request has carried from the start and nothing has read before.
RecordAudit(d) ==
    /\ desks[d].at = "committed"
    /\ \E job \in desks[d].job, x \in Correlation :
           /\ audits' = audits \cup {RecordOf(job, x)}
           /\ desks' = [desks EXCEPT ![d].at = IF job.op = "create" /\ job.ticket \in DomainTicket
                                              THEN "resolving" ELSE "notifying"]
    /\ UNCHANGED <<tickets, messages, mails, belongs, requests, notices>>

\* ProjectTicketDomainAccess: an entitled workspace asks for nothing, and the ticket whose request is
\* the one pending not again; the entitlement and the decisions on requests are other components'.
ResolveAccess(d) ==
    /\ desks[d].at = "resolving"
    /\ \/ desks' = [desks EXCEPT ![d].at = "notifying"]
       \/ desks' = [desks EXCEPT ![d].at = "projecting", ![d].asks = TRUE]
       \/ /\ \E job \in desks[d].job : job.ticket \in requests
          /\ desks' = [desks EXCEPT ![d].at = "linking", ![d].asks = TRUE]
    /\ UNCHANGED <<tickets, messages, mails, belongs, requests, audits, notices>>

\* ProjectAccessRequest: an insert; a ticket that has a request already, decided or covered by a
\* later one, ends the call with an error.
ProjectAccessRequest(d) ==
    /\ desks[d].at = "projecting"
    /\ \E job \in desks[d].job : job.ticket \notin requests /\ requests' = requests \cup {job.ticket}
    /\ desks' = [desks EXCEPT ![d].at = "linking"]
    /\ UNCHANGED <<tickets, messages, mails, belongs, audits, notices>>

\* RecordDomainRequestAudit
RecordLink(d) ==
    /\ desks[d].at = "linking"
    /\ audits' = audits \cup {LinkOf(job.ticket) : job \in desks[d].job}
    /\ desks' = [desks EXCEPT ![d].at = "notifying"]
    /\ UNCHANGED <<tickets, messages, mails, belongs, requests, notices>>

\* ProduceSupportNotification: its recipient must be a member still.
Notify(d) ==
    /\ desks[d].at = "notifying"
    /\ \E job \in desks[d].job :
           /\ EventOf(job.op) # {} => belongs
           /\ notices' = notices \cup {<<e, job.ticket, AboutOf(d, job)>> : e \in EventOf(job.op)}
    /\ desks' = [desks EXCEPT ![d].at = "answered"]
    /\ UNCHANGED <<tickets, messages, mails, belongs, requests, audits>>

\* An error, a refusal or a crash, after whatever is committed; or the answer.
TicketRequestEnds(d) ==
    /\ desks[d].at # "free"
    /\ desks' = [desks EXCEPT ![d] = Free]
    /\ UNCHANGED <<tickets, messages, mails, belongs, requests, audits, notices>>

-----------------------------------------------------------------------------
(* Around *)

RequesterLeaves ==
    /\ belongs /\ belongs' = FALSE
    /\ UNCHANGED <<tickets, messages, mails, requests, audits, notices, desks>>

TicketInit ==
    /\ tickets = [t \in Ticket |-> Missing]
    /\ messages = {}
    /\ mails = [x \in Ticket \X ReplyKey |-> 0]
    /\ belongs = TRUE
    /\ requests = {}
    /\ audits = {}
    /\ notices = {}
    /\ desks = [d \in Desk |-> Free]

TicketNext ==
    \/ \E d \in Desk :
           \/ \E job \in Jobs : Receive(d, job)
           \/ CommitJob(d) \/ RecordAudit(d) \/ ResolveAccess(d) \/ ProjectAccessRequest(d)
           \/ RecordLink(d) \/ Notify(d) \/ TicketRequestEnds(d)
    \/ RequesterLeaves

TicketSpec == TicketInit /\ [][TicketNext]_ticketVars

-----------------------------------------------------------------------------
(* Properties *)

\* The rows, and the work at the desks; a ticket is at the version its messages made.
TicketTypeOK ==
    /\ tickets \in [Ticket -> [status : {"none", "awaiting_support", "awaiting_user", "closed"},
                               version : 0 .. MaxTicketVersion]]
    /\ messages \subseteq Messages
    /\ \A t \in Ticket : TicketExists(t) => tickets[t].version = Cardinality({m \in messages : m.ticket = t})
                                             + (IF tickets[t].status = "closed" THEN 3 ELSE 2)
    /\ mails \in [Ticket \X ReplyKey -> Nat]
    /\ requests \subseteq DomainTicket
    /\ desks \in [Desk -> [at : {"free", "received", "committed", "resolving", "projecting", "linking", "notifying", "answered"},
                           job : SUBSET Jobs, id : 0 .. MaxTicketVersion, asks : BOOLEAN]]

\* Whom an open ticket waits for is told by its last message that is not a note.
StatusTellsWhoIsNext ==
    \A t \in Ticket : tickets[t].status \in {"awaiting_user", "awaiting_support"} =>
        LET said == {m \in messages : m.ticket = t /\ m.kind # "internal_note"}
            last == {m \in said : \A n \in said : n.version <= m.version}
        IN  tickets[t].status = "awaiting_user" <=> \E m \in last : m.kind = "support_reply"

\* However often an answer of the support is sent again, it is one message and one mail.
OneMailPerAnswer ==
    \A t \in Ticket, k \in ReplyKey :
        mails[<<t, k>>] = Cardinality({m \in messages : m.ticket = t /\ m.key = k /\ m.kind = "support_reply"})

\* A request that is answered has left its audit record, its notification and, if it had to ask for
\* custom domains, the pending request and the record of that, also when it repairs an earlier one
\* that failed between the commits.
AnsweredMeansTold ==
    \A d \in Desk : \A job \in desks[d].job : desks[d].at = "answered" =>
        /\ \E x \in Correlation : RecordOf(job, x) \in audits
        /\ desks[d].asks => job.ticket \in requests /\ LinkOf(job.ticket) \in audits
        /\ \A e \in EventOf(job.op) : <<e, job.ticket, AboutOf(d, job)>> \in notices

\* The closing of a ticket is told once, whoever closes it and however often.
ClosingIsToldOnce ==
    \A t \in Ticket : Cardinality({n \in notices : n[1] = "ticket_closed" /\ n[2] = t}) <= 1

\* Nothing is said in a ticket after it is closed.
ClosedIsFinal ==
    [][\A t \in Ticket : tickets[t].status = "closed" =>
          /\ tickets'[t] = tickets[t]
          /\ {m \in messages' : m.ticket = t} = {m \in messages : m.ticket = t}]_ticketVars

\* Tickets as a whole: an answered request is told once to everyone it concerns, and a
\* closed ticket is silent.
TicketSafety ==
    /\ [](/\ TicketTypeOK /\ StatusTellsWhoIsNext /\ OneMailPerAnswer
          /\ AnsweredMeansTold /\ ClosingIsToldOnce)
    /\ ClosedIsFinal
=============================================================================
