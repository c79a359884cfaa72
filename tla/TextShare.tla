----------------------------- MODULE TextShare -----------------------------
(***************************************************************************)
(* Text shares, internal/text: versioned rows under a quota, some of them  *)
(* to be read once.  A public read is two transactions, the authorization  *)
(* and the consumption; an edit is sent with the version its author saw.   *)
(***************************************************************************)
EXTENDS Naturals, FiniteSets

CONSTANTS
    Share,
    Editor,         \* requests of the workspace
    Reader,         \* public requests
    TextQuota,
    MaxTextVersion, \* bound: versions of a share
    NoShare

ASSUME TextAssumption == TextQuota \in Nat /\ MaxTextVersion \in Nat \ {0} /\ NoShare \notin Share

VARIABLES
    shares,         \* text_shares
    textUsed,       \* active_count of text_workspace_counters
    edits,          \* what an editor read: a share and its version
    readers,        \* what a public request was authorized for, and what it was shown
    oneTimeReads    \* how often a share was shown while it was to be read once

textVars == <<shares, textUsed, edits, readers, oneTimeReads>>

NoText == [status |-> "none", public |-> FALSE, oneTime |-> FALSE, consumed |-> FALSE,
           expired |-> FALSE, version |-> 0]
NoEdit == [of |-> NoShare, version |-> 0]
NoReader == [of |-> NoShare, shown |-> FALSE]

LiveShares == {s \in Share : shares[s].status = "live"}
DeletedShares == {s \in Share : shares[s].status = "deleted"}

\* validatePublicLifecycle
Shown(s) ==
    /\ shares[s].status = "live" /\ shares[s].public
    /\ ~shares[s].expired /\ ~shares[s].consumed

-----------------------------------------------------------------------------
(* The workspace *)

CreateText(s, public, once) ==
    /\ shares[s].status = "none"
    /\ textUsed < TextQuota
    /\ shares' = [shares EXCEPT ![s] = [NoText EXCEPT !.status = "live", !.version = 1,
                                        !.public = public, !.oneTime = once]]
    /\ textUsed' = textUsed + 1
    /\ UNCHANGED <<edits, readers, oneTimeReads>>

ReadText(e, s) ==
    /\ edits[e] = NoEdit
    /\ shares[s].status = "live"
    /\ edits' = [edits EXCEPT ![e] = [of |-> s, version |-> shares[s].version]]
    /\ UNCHANGED <<shares, textUsed, readers, oneTimeReads>>

\* The row locked by Update or Delete is the one its author saw.
StillTheSame(e) ==
    /\ shares[edits[e].of].status = "live"
    /\ shares[edits[e].of].version = edits[e].version
    /\ shares[edits[e].of].version < MaxTextVersion

\* An update may change every field, the time it expires too.
UpdateText(e, public, once) ==
    /\ edits[e] # NoEdit /\ StillTheSame(e)
    /\ ~shares[edits[e].of].consumed
    /\ shares' = [shares EXCEPT ![edits[e].of].public = public, ![edits[e].of].oneTime = once,
                                ![edits[e].of].expired = FALSE, ![edits[e].of].version = @ + 1]
    /\ edits' = [edits EXCEPT ![e] = NoEdit]
    /\ UNCHANGED <<textUsed, readers, oneTimeReads>>

\* Bug: what was consumed has left the counter already.
BugDeleteSkipsConsumed(e) ==
    /\ edits[e] # NoEdit /\ StillTheSame(e)
    /\ shares' = [shares EXCEPT ![edits[e].of].status = "deleted", ![edits[e].of].version = @ + 1]
    /\ textUsed' = IF shares[edits[e].of].consumed THEN textUsed ELSE textUsed - 1
    /\ edits' = [edits EXCEPT ![e] = NoEdit]
    /\ UNCHANGED <<readers, oneTimeReads>>

DeleteText(e) ==
    /\ edits[e] # NoEdit /\ StillTheSame(e)
    /\ textUsed # 0
    /\ shares' = [shares EXCEPT ![edits[e].of].status = "deleted", ![edits[e].of].version = @ + 1]
    /\ textUsed' = textUsed - 1
    /\ edits' = [edits EXCEPT ![e] = NoEdit]
    /\ UNCHANGED <<readers, oneTimeReads>>

\* A refusal, or an editor who gives up.
EditEnds(e) ==
    /\ edits[e] # NoEdit
    /\ edits' = [edits EXCEPT ![e] = NoEdit]
    /\ UNCHANGED <<shares, textUsed, readers, oneTimeReads>>

TextExpires(s) ==
    /\ shares[s].status = "live" /\ ~shares[s].expired
    /\ shares' = [shares EXCEPT ![s].expired = TRUE]
    /\ UNCHANGED <<textUsed, edits, readers, oneTimeReads>>

-----------------------------------------------------------------------------
(* The public *)

\* authorizePublic: the lifecycle, and the password when there is one.
AuthorizePublic(r, s) ==
    /\ readers[r] = NoReader
    /\ Shown(s)
    /\ readers' = [readers EXCEPT ![r] = [of |-> s, shown |-> FALSE]]
    /\ UNCHANGED <<shares, textUsed, edits, oneTimeReads>>

\* ConsumePublic checks the locked row again and shows that row, not the one authorized.
ConsumePublic(r) ==
    LET s == readers[r].of
    IN  /\ s # NoShare /\ ~readers[r].shown
        /\ Shown(s)
        /\ readers' = [readers EXCEPT ![r].shown = TRUE]
        /\ IF shares[s].oneTime
           THEN /\ shares[s].version < MaxTextVersion
                /\ shares' = [shares EXCEPT ![s].consumed = TRUE, ![s].version = @ + 1]
                /\ oneTimeReads' = [oneTimeReads EXCEPT ![s] = @ + 1]
           ELSE UNCHANGED <<shares, oneTimeReads>>
        /\ UNCHANGED <<textUsed, edits>>

ReaderLeaves(r) ==
    /\ readers[r] # NoReader
    /\ readers' = [readers EXCEPT ![r] = NoReader]
    /\ UNCHANGED <<shares, textUsed, edits, oneTimeReads>>

-----------------------------------------------------------------------------
TextInit ==
    /\ shares = [s \in Share |-> NoText]
    /\ textUsed = 0
    /\ edits = [e \in Editor |-> NoEdit]
    /\ readers = [r \in Reader |-> NoReader]
    /\ oneTimeReads = [s \in Share |-> 0]

TextNext ==
    \/ \E s \in Share : TextExpires(s) \/ \E public, once \in BOOLEAN : CreateText(s, public, once)
    \/ \E e \in Editor :
           \/ DeleteText(e) \/ EditEnds(e)
           \/ \E s \in Share : ReadText(e, s)
           \/ \E public, once \in BOOLEAN : UpdateText(e, public, once)
    \/ \E r \in Reader :
           \/ ConsumePublic(r) \/ ReaderLeaves(r)
           \/ \E s \in Share : AuthorizePublic(r, s)

TextSpec == TextInit /\ [][TextNext]_textVars

-----------------------------------------------------------------------------
(* Properties *)

\* The rows and the requests under way.
TextTypeOK ==
    /\ shares \in [Share -> [status : {"none", "live", "deleted"}, public : BOOLEAN, oneTime : BOOLEAN,
                             consumed : BOOLEAN, expired : BOOLEAN, version : 0 .. MaxTextVersion]]
    /\ textUsed \in 0 .. TextQuota
    /\ edits \in [Editor -> [of : Share \cup {NoShare}, version : 0 .. MaxTextVersion]]
    /\ readers \in [Reader -> [of : Share \cup {NoShare}, shown : BOOLEAN]]
    /\ oneTimeReads \in [Share -> Nat]

\* However many readers were authorized, and whatever an editor does to the share meanwhile, a
\* text to be read once is shown once and is then closed for good.
ReadOnce ==
    \A s \in Share : /\ oneTimeReads[s] <= 1
                     /\ oneTimeReads[s] = 1 => shares[s].consumed /\ shares[s].oneTime

\* Text shares keep the promise of QuotaCounter.
TextQuotaCounter == INSTANCE QuotaCounter WITH
    Resource <- Share, Quota <- TextQuota,
    used <- textUsed, live <- LiveShares, gone <- DeletedShares
TextKeepsQuota == TextQuotaCounter!Spec

\* Text shares as a whole: a one-time text is shown once, and the quota counter counts
\* the rows that are not deleted.
TextSafety == [](TextTypeOK /\ ReadOnce) /\ TextKeepsQuota
=============================================================================
