--------------------------- MODULE LinkStoreProofs ---------------------------
(* Invariants of LinkStore, proved for every number of links, editors, clicks *)
(* and versions.                                                              *)
EXTENDS LinkStore, SequenceTheorems, TLAPS

(* What appending a snapshot does to a history. *)
LEMMA AppendSnapshot ==
    ASSUME NEW h \in Seq(Snapshot), NEW s \in Snapshot
    PROVE  /\ Append(h, s) \in Seq(Snapshot)
           /\ Len(Append(h, s)) = Len(h) + 1
           /\ Append(h, s)[Len(h) + 1] = s
           /\ \A n \in 1 .. Len(h) : Append(h, s)[n] = h[n]
  OBVIOUS

(* A row that is written keeps both tables well typed. *)
LEMMA WriteType ==
    ASSUME TypeOK, NEW l \in Link, NEW r \in Row, NEW b \in Nat, Write(l, r, b)
    PROVE  /\ row' \in [Link -> Row \cup {NoRow}]
           /\ history' \in [Link -> Seq(Snapshot)]
  <1>1. [cfg |-> r.cfg, status |-> r.status, clicks |-> r.clicks, base |-> b] \in Snapshot
    BY DEF Row, Snapshot
  <1>2. history[l] \in Seq(Snapshot)
    BY DEF TypeOK
  <1>3. Append(history[l], [cfg |-> r.cfg, status |-> r.status,
                            clicks |-> r.clicks, base |-> b]) \in Seq(Snapshot)
    BY <1>1, <1>2
  <1>4. history' \in [Link -> Seq(Snapshot)]
    BY <1>3 DEF TypeOK, Write
  <1>5. row' \in [Link -> Row \cup {NoRow}]
    BY DEF TypeOK, Write
  <1> QED BY <1>4, <1>5

LEMMA ShowType ==
    ASSUME TypeOK, NEW e \in Editor, NEW l \in Link, NEW v \in Nat, Show(e, l, v)
    PROVE  seen' \in [Editor -> [Link -> Nat]]
  BY DEF TypeOK, Show

(* A configuration with another password is a configuration. *)
LEMMA WithPassword ==
    ASSUME NEW c \in ConfigRecord, NEW p \in BOOLEAN
    PROVE  [c EXCEPT !.password = p] \in ConfigRecord
  BY DEF ConfigRecord

(* The rows the writers build are rows. *)
LEMMA RowUpdate ==
    ASSUME NEW r \in Row, NEW c \in ConfigRecord, NEW s \in Status,
           NEW g \in BOOLEAN, NEW v \in Nat \ {0}
    PROVE  /\ [r EXCEPT !.cfg = c, !.status = s, !.version = v] \in Row
           /\ [r EXCEPT !.status = s, !.gone = g, !.version = v] \in Row
           /\ [r EXCEPT !.cfg = c, !.status = s, !.gone = g, !.version = v] \in Row
  <1>1. [r EXCEPT !.cfg = c, !.status = s, !.version = v] \in Row
    BY DEF Row
  <1>2. [r EXCEPT !.status = s, !.gone = g, !.version = v] \in Row
    BY DEF Row
  <1>3. [r EXCEPT !.cfg = c, !.status = s, !.gone = g, !.version = v] \in Row
    BY DEF Row
  <1> QED BY <1>1, <1>2, <1>3

-----------------------------------------------------------------------------
(* One lemma per action: the type invariant is preserved. *)

LEMMA CreateType ==
    ASSUME TypeOK, NEW e \in Editor, NEW l \in Link, NEW c \in Config, Create(e, l, c)
    PROVE  TypeOK'
  <1> DEFINE r == [cfg |-> c, status |-> "active", gone |-> FALSE,
                   version |-> 1, clicks |-> 0]
  <1>1. r \in Row
    BY ConfigAssumption DEF Row, Status
  <1>2. Write(l, r, 0) /\ Show(e, l, 1)
    BY DEF Create
  <1> HIDE DEF r
  <1>3. row' \in [Link -> Row \cup {NoRow}] /\ history' \in [Link -> Seq(Snapshot)]
    BY <1>1, <1>2, WriteType
  <1>4. seen' \in [Editor -> [Link -> Nat]]
    BY <1>2, ShowType
  <1> QED BY <1>3, <1>4 DEF TypeOK, Create

LEMMA BeginUpdateType ==
    ASSUME TypeOK, NEW e \in Editor, NEW l \in Link, NEW c \in Config,
           NEW s \in {"active", "paused"}, BeginUpdate(e, l, c, s)
    PROVE  TypeOK'
  <1>1. row[l] \in Row
    BY DEF TypeOK, BeginUpdate
  <1>2. c \in ConfigRecord /\ c.password \in BOOLEAN /\ row[l].cfg.password \in BOOLEAN
        /\ row[l].version \in Nat
    BY <1>1, ConfigAssumption DEF Row, ConfigRecord
  <1>3. PICK p \in {c.password, row[l].cfg.password} :
           op' = [op EXCEPT ![e] = [link |-> l, expected |-> row[l].version,
                                    cfg |-> [c EXCEPT !.password = p], status |-> s,
                                    base |-> row[l].version]]
    BY DEF BeginUpdate
  <1>4. [c EXCEPT !.password = p] \in ConfigRecord
    BY <1>2, WithPassword
  <1>5. [link |-> l, expected |-> row[l].version, cfg |-> [c EXCEPT !.password = p],
         status |-> s, base |-> row[l].version] \in Operation
    BY <1>2, <1>4 DEF Operation
  <1>6. op' \in [Editor -> Operation \cup {NoOp}]
    BY <1>3, <1>5 DEF TypeOK
  <1> QED BY <1>6 DEF TypeOK, BeginUpdate

LEMMA BeginSetStatusType ==
    ASSUME TypeOK, NEW e \in Editor, NEW l \in Link, NEW v \in 1 .. MaxVersion,
           NEW s \in {"active", "paused"}, BeginSetStatus(e, l, v, s)
    PROVE  TypeOK'
  <1>1. row[l] \in Row /\ v \in Nat
    BY BoundAssumption DEF TypeOK, BeginSetStatus
  <1>2. [link |-> l, expected |-> v, cfg |-> row[l].cfg, status |-> s,
         base |-> row[l].version] \in Operation
    BY <1>1 DEF Operation, Row
  <1>3. op' \in [Editor -> Operation \cup {NoOp}]
    BY <1>2 DEF TypeOK, BeginSetStatus
  <1> QED BY <1>3 DEF TypeOK, BeginSetStatus

LEMMA CommitUpdateType ==
    ASSUME TypeOK, NEW e \in Editor, CommitUpdate(e), row[op[e].link] # NoRow
    PROVE  TypeOK'
  <1> DEFINE o == op[e]
             r == [row[o.link] EXCEPT !.cfg = o.cfg, !.status = o.status, !.version = @ + 1]
  <1>1. o \in Operation
    BY DEF TypeOK, CommitUpdate
  <1>2. o.link \in Link /\ o.base \in Nat /\ o.cfg \in ConfigRecord
        /\ o.status \in {"active", "paused"}
    BY <1>1 DEF Operation
  <1>3. row[o.link] \in Row
    BY <1>2 DEF TypeOK
  <1>4. r \in Row
    <2>1. row[o.link].version + 1 \in Nat \ {0}
      BY <1>3 DEF Row
    <2>2. o.status \in Status
      BY <1>2 DEF Status
    <2> QED BY <1>2, <1>3, <2>1, <2>2, RowUpdate
  <1>5. Write(o.link, r, o.base) /\ Show(e, o.link, row[o.link].version + 1)
    BY DEF CommitUpdate
  <1>6. row[o.link].version + 1 \in Nat
    BY <1>3 DEF Row
  <1>7. op' \in [Editor -> Operation \cup {NoOp}]
    BY DEF TypeOK, CommitUpdate
  <1> HIDE DEF o, r
  <1>8. row' \in [Link -> Row \cup {NoRow}] /\ history' \in [Link -> Seq(Snapshot)]
    BY <1>2, <1>4, <1>5, WriteType
  <1>9. seen' \in [Editor -> [Link -> Nat]]
    BY <1>2, <1>5, <1>6, ShowType
  <1> QED BY <1>7, <1>8, <1>9 DEF TypeOK, CommitUpdate

LEMMA DeleteType ==
    ASSUME TypeOK, NEW e \in Editor, NEW l \in Link, NEW v \in Nat, Delete(e, l, v)
    PROVE  TypeOK'
  <1> DEFINE r == [row[l] EXCEPT !.status = "deleted", !.gone = TRUE, !.version = @ + 1]
  <1>1. row[l] \in Row
    BY DEF TypeOK, Delete
  <1>2. r \in Row
    <2>1. row[l].version + 1 \in Nat \ {0} /\ row[l].cfg \in ConfigRecord
      BY <1>1 DEF Row
    <2>2. "deleted" \in Status
      BY DEF Status
    <2> QED BY <1>1, <2>1, <2>2, RowUpdate
  <1>3. Write(l, r, v) /\ Show(e, l, v + 1) /\ v + 1 \in Nat
    BY DEF Delete
  <1> HIDE DEF r
  <1>4. row' \in [Link -> Row \cup {NoRow}] /\ history' \in [Link -> Seq(Snapshot)]
    BY <1>2, <1>3, WriteType
  <1>5. seen' \in [Editor -> [Link -> Nat]]
    BY <1>3, ShowType
  <1> QED BY <1>4, <1>5 DEF TypeOK, Delete

LEMMA RestoreType ==
    ASSUME TypeOK, NEW e \in Editor, NEW l \in Link, NEW v \in Nat, NEW n \in Nat,
           Restore(e, l, v, n)
    PROVE  TypeOK'
  <1> DEFINE s == history[l][n]
             r == [row[l] EXCEPT !.cfg = s.cfg, !.status = RestoredStatus(s.status),
                                 !.gone = FALSE, !.version = @ + 1]
  <1>1. row[l] \in Row
    BY DEF TypeOK, Restore
  <1>2. s \in Snapshot
    BY DEF TypeOK, Restore
  <1>3. s.cfg \in ConfigRecord /\ RestoredStatus(s.status) \in Status
    BY <1>2 DEF Snapshot, RestoredStatus, Status
  <1>4. Write(l, r, v) /\ Show(e, l, v + 1) /\ v + 1 \in Nat
    BY DEF Restore
  <1> HIDE DEF s
  <1>5. r \in Row
    <2>1. row[l].version + 1 \in Nat \ {0}
      BY <1>1 DEF Row
    <2> QED BY <1>1, <1>3, <2>1, RowUpdate
  <1> HIDE DEF r
  <1>6. row' \in [Link -> Row \cup {NoRow}] /\ history' \in [Link -> Seq(Snapshot)]
    BY <1>4, <1>5, WriteType
  <1>7. seen' \in [Editor -> [Link -> Nat]]
    BY <1>4, ShowType
  <1> QED BY <1>6, <1>7 DEF TypeOK, Restore

LEMMA ClaimType ==
    ASSUME TypeOK, NEW l \in Link, NEW v \in Nat \ {0}, NEW t \in Fingerprint,
           NEW at \in Nat, Claim(l, v, t, at)
    PROVE  TypeOK'
  <1>1. row[l] \in Row
    BY DEF TypeOK, Claim, ClaimAllowed
  <1>2. [row[l] EXCEPT !.clicks = @ + 1] \in Row /\ row[l].clicks + 1 \in Nat \ {0}
    BY <1>1 DEF Row
  <1>3. row' \in [Link -> Row \cup {NoRow}]
    BY <1>2 DEF TypeOK, Claim
  <1>4. [link |-> l, seq |-> row[l].clicks + 1, version |-> v,
         targets |-> t, at |-> at] \in Event
    BY <1>2 DEF Event
  <1>5. outbox' \subseteq Event
    BY <1>4 DEF TypeOK, Claim
  <1> QED BY <1>3, <1>5 DEF TypeOK, Claim

-----------------------------------------------------------------------------
(* The inductive invariant.  A write in flight is never ahead of the row: the  *)
(* contents it carries (base) and, unless versions are guessed, the version it *)
(* expects were current when it read them, and versions only grow.             *)

Version(l) == IF row[l] = NoRow THEN 0 ELSE row[l].version

Fresh ==
    /\ \A e \in Editor : op[e] # NoOp =>
          /\ row[op[e].link] # NoRow
          /\ op[e].base <= Version(op[e].link)
          /\ ~Guess => op[e].expected <= op[e].base
    /\ \A e \in Editor, l \in Link : seen[e][l] <= Version(l)

IInv == TypeOK /\ Fresh /\ HistoryIsComplete /\ (~Guess => NoLostUpdate)

LEMMA VersionType ==
    ASSUME TypeOK, NEW l \in Link
    PROVE  Version(l) \in Nat
  BY DEF TypeOK, Row, Version

(* A write that adds the next version, by somebody who had the one before,     *)
(* keeps the history complete and loses no update.                             *)
LEMMA WriteKeepsHistory ==
    ASSUME IInv, NEW l \in Link, NEW r \in Row, NEW b \in Nat, Write(l, r, b),
           r.version = Version(l) + 1, ~Guess => b = Version(l),
           r.gone = (r.status = "deleted")
    PROVE  HistoryIsComplete' /\ (~Guess => NoLostUpdate)'
  <1> DEFINE s == [cfg |-> r.cfg, status |-> r.status, clicks |-> r.clicks, base |-> b]
  <1>1. s \in Snapshot /\ s.cfg = r.cfg /\ s.status = r.status /\ s.base = b
    BY DEF Row, Snapshot
  <1>2. history[l] \in Seq(Snapshot) /\ Len(history[l]) = Version(l)
    BY DEF IInv, TypeOK, HistoryIsComplete, Version
  <1>3. row' = [row EXCEPT ![l] = r] /\ history' = [history EXCEPT ![l] = Append(@, s)]
    BY DEF Write
  <1> HIDE DEF s
  <1>4. history'[l] = Append(history[l], s) /\ row'[l] = r
        /\ \A m \in Link : m # l => history'[m] = history[m] /\ row'[m] = row[m]
    BY <1>3 DEF IInv, TypeOK
  <1>5. /\ Len(history'[l]) = Version(l) + 1
        /\ history'[l][Version(l) + 1] = s
        /\ \A n \in 1 .. Version(l) : history'[l][n] = history[l][n]
    BY <1>1, <1>2, <1>4, AppendSnapshot
  <1>6. Version(l) \in Nat /\ r # NoRow
    BY VersionType, NoRowAssumption DEF IInv
  <1>7. HistoryIsComplete'
    <2>1. ASSUME NEW m \in Link, m # l
          PROVE  IF row'[m] = NoRow THEN history'[m] = <<>>
                 ELSE /\ Len(history'[m]) = row'[m].version
                      /\ history'[m][row'[m].version].cfg = row'[m].cfg
                      /\ history'[m][row'[m].version].status = row'[m].status
                      /\ row'[m].gone = (row'[m].status = "deleted")
      BY <1>4, <2>1 DEF IInv, HistoryIsComplete
    <2>2. /\ row'[l] # NoRow
          /\ Len(history'[l]) = row'[l].version
          /\ history'[l][row'[l].version].cfg = row'[l].cfg
          /\ history'[l][row'[l].version].status = row'[l].status
          /\ row'[l].gone = (row'[l].status = "deleted")
      BY <1>1, <1>4, <1>5, <1>6
    <2> QED BY <2>1, <2>2 DEF HistoryIsComplete
  <1>8. ASSUME ~Guess
        PROVE  NoLostUpdate'
    <2>1. ASSUME NEW m \in Link, NEW n \in 1 .. Len(history'[m]), m # l
          PROVE  history'[m][n].base = n - 1
      BY <1>4, <1>8, <2>1 DEF IInv, NoLostUpdate
    <2>2. ASSUME NEW n \in 1 .. Len(history'[l])
          PROVE  history'[l][n].base = n - 1
      <3>1. CASE n = Version(l) + 1
        <4>1. history'[l][n].base = Version(l)
          BY <1>1, <1>5, <1>8, <3>1
        <4> QED BY <1>6, <3>1, <4>1
      <3>2. CASE n # Version(l) + 1
        <4>1. n \in 1 .. Version(l)
          BY <1>5, <1>6, <3>2
        <4>2. history[l][n].base = n - 1
          BY <1>2, <1>8, <4>1 DEF IInv, NoLostUpdate
        <4> QED BY <1>5, <4>1, <4>2
      <3> QED BY <3>1, <3>2
    <2> QED BY <2>1, <2>2 DEF NoLostUpdate
  <1> QED BY <1>7, <1>8

(* What a write does to the versions the others hold.                          *)
LEMMA WriteKeepsFresh ==
    ASSUME IInv, TypeOK', NEW l \in Link, NEW r \in Row, NEW b \in Nat,
           Write(l, r, b), r.version = Version(l) + 1,
           NEW e \in Editor, Show(e, l, Version(l) + 1),
           \A f \in Editor : op'[f] = op[f] \/ op'[f] = NoOp
    PROVE  Fresh'
  <1>1. Version(l)' = Version(l) + 1 /\ row'[l] # NoRow
    BY NoRowAssumption DEF Write, Version, IInv, TypeOK
  <1>2. \A m \in Link : m # l => row'[m] = row[m] /\ Version(m)' = Version(m)
    BY DEF Write, Version, IInv, TypeOK
  <1>3. \A m \in Link : Version(m) \in Nat /\ Version(m) <= Version(m)'
    BY <1>1, <1>2, VersionType DEF IInv
  <1>4. \A f \in Editor, m \in Link :
           seen'[f][m] = IF f = e /\ m = l THEN Version(l) + 1 ELSE seen[f][m]
    BY DEF Show, IInv, TypeOK
  <1>5. \A f \in Editor, m \in Link : seen'[f][m] <= Version(m)'
    <2> TAKE f \in Editor, m \in Link
    <2>1. seen[f][m] \in Nat /\ seen[f][m] <= Version(m) /\ Version(m)' \in Nat
      BY VersionType, <1>1, <1>2, <1>3 DEF IInv, Fresh, TypeOK
    <2> QED BY <1>1, <1>3, <1>4, <2>1
  <1> DEFINE NewVersion(m) == IF row'[m] = NoRow THEN 0 ELSE row'[m].version
  <1>6. \A m \in Link : NewVersion(m) \in Nat /\ Version(m) <= NewVersion(m)
    BY <1>1, <1>2, <1>3, VersionType DEF IInv, Version
  <1>7. ASSUME NEW f \in Editor, op'[f] # NoOp
        PROVE  /\ row'[op'[f].link] # NoRow
               /\ op'[f].base <= NewVersion(op'[f].link)
               /\ ~Guess => op'[f].expected <= op'[f].base
    <2>1. op'[f] = op[f] /\ op[f] # NoOp
      BY <1>7
    <2>2. op[f].link \in Link /\ op[f].base \in Nat
      BY <2>1 DEF IInv, TypeOK, Operation
    <2>3. /\ row[op[f].link] # NoRow
          /\ op[f].base <= Version(op[f].link)
          /\ ~Guess => op[f].expected <= op[f].base
      BY <2>1 DEF IInv, Fresh
    <2>4. row'[op[f].link] # NoRow
      BY <1>1, <1>2, <2>2, <2>3
    <2> HIDE DEF NewVersion
    <2>5. op[f].base <= NewVersion(op[f].link)
      BY <1>3, <1>6, <2>2, <2>3
    <2> QED BY <2>1, <2>3, <2>4, <2>5
  <1>8. \A f \in Editor, m \in Link : seen'[f][m] <= NewVersion(m)
    BY <1>5 DEF Version
  <1> QED BY <1>7, <1>8 DEF Fresh, Version

-----------------------------------------------------------------------------
(* One lemma per action: the inductive invariant is preserved. *)

LEMMA CreateInv ==
    ASSUME IInv, NEW e \in Editor, NEW l \in Link, NEW c \in Config, Create(e, l, c)
    PROVE  IInv'
  <1> DEFINE r == [cfg |-> c, status |-> "active", gone |-> FALSE,
                   version |-> 1, clicks |-> 0]
  <1>1. TypeOK'
    BY CreateType DEF IInv
  <1>2. r \in Row /\ r.version = 1 /\ r.gone = (r.status = "deleted")
    <2>1. r \in Row
      BY ConfigAssumption DEF Row, Status
    <2>2. r.version = 1 /\ r.gone = FALSE /\ r.status # "deleted"
      OBVIOUS
    <2> QED BY <2>1, <2>2
  <1>3. Write(l, r, 0) /\ Show(e, l, 1) /\ Version(l) = 0
    BY DEF Create, Version
  <1>4. \A f \in Editor : op'[f] = op[f]
    BY DEF Create
  <1> HIDE DEF r
  <1>5. HistoryIsComplete' /\ (~Guess => NoLostUpdate)'
    BY <1>2, <1>3, WriteKeepsHistory
  <1>6. Fresh'
    BY <1>1, <1>2, <1>3, <1>4, WriteKeepsFresh
  <1> QED BY <1>1, <1>5, <1>6 DEF IInv

LEMMA GetInv ==
    ASSUME IInv, NEW e \in Editor, NEW l \in Link, Get(e, l)
    PROVE  IInv'
  <1>1. row[l].version \in Nat /\ Version(l) = row[l].version
    BY DEF IInv, TypeOK, Row, Get, Version
  <1>2. TypeOK'
    BY <1>1, ShowType DEF IInv, TypeOK, Get
  <1>3. Fresh'
    <2>1. \A f \in Editor, m \in Link :
             seen'[f][m] = IF f = e /\ m = l THEN Version(l) ELSE seen[f][m]
      BY <1>1 DEF IInv, TypeOK, Get, Show
    <2>2. \A m \in Link : Version(m) \in Nat
      BY VersionType DEF IInv
    <2>3. \A f \in Editor, m \in Link : seen'[f][m] <= Version(m)
      BY <2>1, <2>2 DEF IInv, Fresh
    <2> QED BY <2>3 DEF IInv, Fresh, Get, Version
  <1> QED BY <1>2, <1>3 DEF IInv, HistoryIsComplete, NoLostUpdate, Get

(* The reads that start a write take a base the row has just had. *)
LEMMA BeginInv ==
    ASSUME IInv, TypeOK', NEW e \in Editor, NEW l \in Link, row[l] # NoRow,
           UNCHANGED <<row, history, outbox, domain, seen>>,
           \A f \in Editor : f # e => op'[f] = op[f],
           op'[e].link = l, op'[e].base = row[l].version,
           ~Guess => op'[e].expected <= row[l].version
    PROVE  IInv'
  <1>1. row[l].version = Version(l) /\ Version(l) \in Nat
    BY VersionType DEF IInv, Version
  <1>2. ASSUME NEW f \in Editor, op'[f] # NoOp
        PROVE  /\ row[op'[f].link] # NoRow
               /\ op'[f].base <= Version(op'[f].link)
               /\ ~Guess => op'[f].expected <= op'[f].base
    <2>1. CASE f = e
      BY <1>1, <2>1
    <2>2. CASE f # e
      BY <1>2, <2>2 DEF IInv, Fresh
    <2> QED BY <2>1, <2>2
  <1>3. Fresh'
    BY <1>2 DEF IInv, Fresh, Version
  <1> QED BY <1>3 DEF IInv, HistoryIsComplete, NoLostUpdate

LEMMA BeginUpdateInv ==
    ASSUME IInv, NEW e \in Editor, NEW l \in Link, NEW c \in Config,
           NEW s \in {"active", "paused"}, BeginUpdate(e, l, c, s)
    PROVE  IInv'
  <1>1. TypeOK'
    BY BeginUpdateType DEF IInv
  <1>2. row[l] # NoRow /\ row[l].version \in Nat
    BY DEF IInv, TypeOK, Row, BeginUpdate
  <1>3. /\ \A f \in Editor : f # e => op'[f] = op[f]
        /\ op'[e].link = l /\ op'[e].base = row[l].version
        /\ op'[e].expected = row[l].version
    BY DEF IInv, TypeOK, BeginUpdate
  <1>4. UNCHANGED <<row, history, outbox, domain, seen>>
    BY DEF BeginUpdate
  <1> QED BY <1>1, <1>2, <1>3, <1>4, BeginInv

LEMMA BeginSetStatusInv ==
    ASSUME IInv, NEW e \in Editor, NEW l \in Link, NEW v \in 1 .. MaxVersion,
           NEW s \in {"active", "paused"}, BeginSetStatus(e, l, v, s)
    PROVE  IInv'
  <1>1. TypeOK'
    BY BeginSetStatusType DEF IInv
  <1>2. row[l] # NoRow
    BY DEF BeginSetStatus
  <1>3. /\ \A f \in Editor : f # e => op'[f] = op[f]
        /\ op'[e].link = l /\ op'[e].base = row[l].version
        /\ op'[e].expected = v
    BY DEF IInv, TypeOK, BeginSetStatus
  <1>4. ~Guess => v <= row[l].version
    BY <1>2 DEF IInv, Fresh, Version, BeginSetStatus, Expected
  <1>5. UNCHANGED <<row, history, outbox, domain, seen>>
    BY DEF BeginSetStatus
  <1> QED BY <1>1, <1>2, <1>3, <1>4, <1>5, BeginInv

LEMMA CommitUpdateInv ==
    ASSUME IInv, NEW e \in Editor, CommitUpdate(e)
    PROVE  IInv'
  <1> DEFINE o == op[e]
             r == [row[o.link] EXCEPT !.cfg = o.cfg, !.status = o.status, !.version = @ + 1]
  <1>1. o # NoOp /\ o \in Operation /\ row[o.link].version = o.expected /\ ~row[o.link].gone
    BY DEF IInv, TypeOK, CommitUpdate, UpdateAccepted
  <1>2. /\ o.link \in Link /\ o.base \in Nat /\ o.expected \in Nat
        /\ o.cfg \in ConfigRecord /\ o.status \in {"active", "paused"}
    BY <1>1 DEF Operation
  <1>3. /\ row[o.link] # NoRow /\ o.base <= Version(o.link)
        /\ ~Guess => o.expected <= o.base
    BY <1>1 DEF IInv, Fresh
  <1>4. row[o.link] \in Row /\ Version(o.link) = row[o.link].version
    BY <1>2, <1>3 DEF IInv, TypeOK, Version
  <1>5. TypeOK'
    BY <1>3, CommitUpdateType DEF IInv
  <1>6. r \in Row /\ r.version = Version(o.link) + 1 /\ r.gone = (r.status = "deleted")
    <2>1. row[o.link].version + 1 \in Nat \ {0} /\ row[o.link].gone = FALSE
      BY <1>1, <1>4 DEF Row
    <2>2. o.status \in Status /\ o.status # "deleted"
      BY <1>2 DEF Status
    <2>3. r \in Row
      BY <1>2, <1>4, <2>1, <2>2, RowUpdate
    <2>4. /\ r.version = row[o.link].version + 1
          /\ r.gone = row[o.link].gone
          /\ r.status = o.status
      BY <1>4 DEF Row
    <2> QED BY <1>4, <2>1, <2>2, <2>3, <2>4
  <1>7. ~Guess => o.base = Version(o.link)
    BY <1>1, <1>2, <1>3, <1>4
  <1>8. Write(o.link, r, o.base) /\ Show(e, o.link, Version(o.link) + 1)
    BY <1>4 DEF CommitUpdate
  <1>9. \A f \in Editor : op'[f] = op[f] \/ op'[f] = NoOp
    BY DEF IInv, TypeOK, CommitUpdate
  <1> HIDE DEF o, r
  <1>10. HistoryIsComplete' /\ (~Guess => NoLostUpdate)'
    BY <1>2, <1>6, <1>7, <1>8, WriteKeepsHistory
  <1>11. Fresh'
    BY <1>2, <1>5, <1>6, <1>8, <1>9, WriteKeepsFresh
  <1> QED BY <1>5, <1>10, <1>11 DEF IInv

LEMMA DeleteInv ==
    ASSUME IInv, NEW e \in Editor, NEW l \in Link, NEW v \in Nat, Delete(e, l, v)
    PROVE  IInv'
  <1> DEFINE r == [row[l] EXCEPT !.status = "deleted", !.gone = TRUE, !.version = @ + 1]
  <1>1. TypeOK'
    BY DeleteType DEF IInv
  <1>2. row[l] \in Row /\ row[l].version = v /\ Version(l) = v
    BY DEF IInv, TypeOK, Delete, Version
  <1>3. r \in Row /\ r.version = v + 1 /\ r.gone = (r.status = "deleted")
    <2>1. row[l].version + 1 \in Nat \ {0} /\ row[l].cfg \in ConfigRecord
      BY <1>2 DEF Row
    <2>2. "deleted" \in Status
      BY DEF Status
    <2>3. r \in Row
      BY <1>2, <2>1, <2>2, RowUpdate
    <2>4. r.version = row[l].version + 1 /\ r.gone = TRUE /\ r.status = "deleted"
      BY <1>2 DEF Row
    <2> QED BY <1>2, <2>3, <2>4
  <1>4. Write(l, r, v) /\ Show(e, l, v + 1) /\ op' = op
    BY DEF Delete
  <1> HIDE DEF r
  <1>5. HistoryIsComplete' /\ (~Guess => NoLostUpdate)'
    BY <1>2, <1>3, <1>4, WriteKeepsHistory
  <1>6. Fresh'
    BY <1>1, <1>2, <1>3, <1>4, WriteKeepsFresh
  <1> QED BY <1>1, <1>5, <1>6 DEF IInv

LEMMA RestoreInv ==
    ASSUME IInv, NEW e \in Editor, NEW l \in Link, NEW v \in Nat, NEW n \in Nat,
           Restore(e, l, v, n)
    PROVE  IInv'
  <1> DEFINE s == history[l][n]
             r == [row[l] EXCEPT !.cfg = s.cfg, !.status = RestoredStatus(s.status),
                                 !.gone = FALSE, !.version = @ + 1]
  <1>1. TypeOK'
    BY RestoreType DEF IInv
  <1>2. row[l] \in Row /\ row[l].version = v /\ Version(l) = v
    BY DEF IInv, TypeOK, Restore, Version
  <1>3. s \in Snapshot
    BY DEF IInv, TypeOK, Restore
  <1>4. /\ s.cfg \in ConfigRecord
        /\ RestoredStatus(s.status) \in Status /\ RestoredStatus(s.status) # "deleted"
    BY <1>3 DEF Snapshot, RestoredStatus, Status
  <1>5. Write(l, r, v) /\ Show(e, l, v + 1) /\ op' = op
    BY DEF Restore
  <1> HIDE DEF s
  <1>6. r \in Row /\ r.version = v + 1 /\ r.gone = (r.status = "deleted")
    <2>1. row[l].version + 1 \in Nat \ {0}
      BY <1>2 DEF Row
    <2>2. r \in Row
      BY <1>2, <1>4, <2>1, RowUpdate
    <2>3. r.version = row[l].version + 1 /\ r.gone = FALSE
          /\ r.status = RestoredStatus(s.status)
      BY <1>2 DEF Row
    <2> QED BY <1>2, <1>4, <2>2, <2>3
  <1> HIDE DEF r
  <1>7. HistoryIsComplete' /\ (~Guess => NoLostUpdate)'
    BY <1>2, <1>5, <1>6, WriteKeepsHistory
  <1>8. Fresh'
    BY <1>1, <1>2, <1>5, <1>6, WriteKeepsFresh
  <1> QED BY <1>1, <1>7, <1>8 DEF IInv

LEMMA ClaimInv ==
    ASSUME IInv, NEW l \in Link, NEW v \in Nat \ {0}, NEW t \in Fingerprint,
           NEW at \in Nat, Claim(l, v, t, at)
    PROVE  IInv'
  <1>1. TypeOK'
    BY ClaimType DEF IInv
  <1>2. /\ \A m \in Link : row'[m] = NoRow <=> row[m] = NoRow
        /\ \A m \in Link : /\ row'[m].version = row[m].version
                          /\ row'[m].cfg = row[m].cfg
                          /\ row'[m].status = row[m].status
                          /\ row'[m].gone = row[m].gone
    <2>1. row[l] \in Row /\ row[l] # NoRow
      BY DEF IInv, TypeOK, Claim, ClaimAllowed
    <2>2. row' = [row EXCEPT ![l] = [row[l] EXCEPT !.clicks = row[l].clicks + 1]]
      BY DEF Claim
    <2>3. \A m \in Link : m # l => row'[m] = row[m]
      BY <2>2 DEF IInv, TypeOK
    <2>4. row'[l] = [row[l] EXCEPT !.clicks = row[l].clicks + 1]
      BY <2>2 DEF IInv, TypeOK
    <2>5. [row[l] EXCEPT !.clicks = row[l].clicks + 1] \in Row
      BY <2>1 DEF Row
    <2>6. /\ row'[l].version = row[l].version /\ row'[l].cfg = row[l].cfg
          /\ row'[l].status = row[l].status /\ row'[l].gone = row[l].gone
      BY <2>1, <2>4 DEF Row
    <2> QED BY <2>1, <2>3, <2>4, <2>5, <2>6, NoRowAssumption
  <1>3. history' = history /\ op' = op /\ seen' = seen
    BY DEF Claim
  <1>4. \A m \in Link : Version(m)' = Version(m)
    BY <1>2 DEF Version
  <1>5. HistoryIsComplete'
    BY <1>2, <1>3 DEF IInv, HistoryIsComplete
  <1>6. Fresh'
    <2>1. ASSUME NEW f \in Editor, op[f] # NoOp
          PROVE  /\ row'[op[f].link] # NoRow
                 /\ op[f].base <= IF row'[op[f].link] = NoRow THEN 0
                                  ELSE row'[op[f].link].version
                 /\ ~Guess => op[f].expected <= op[f].base
      <3>1. op[f].link \in Link
        BY <2>1 DEF IInv, TypeOK, Operation
      <3> QED BY <1>2, <2>1, <3>1 DEF IInv, Fresh, Version
    <2>2. \A f \in Editor, m \in Link : seen[f][m] <= Version(m)'
      BY <1>4 DEF IInv, Fresh
    <2> QED BY <1>3, <2>1, <2>2 DEF Fresh, Version
  <1> QED BY <1>1, <1>3, <1>5, <1>6 DEF IInv, NoLostUpdate

LEMMA InitInv == Init => IInv
  <1> SUFFICES ASSUME Init PROVE IInv
    OBVIOUS
  <1>1. TypeOK
    BY DEF Init, TypeOK, DomainState
  <1>2. Fresh
    BY DEF Init, Fresh, Version
  <1>3. HistoryIsComplete /\ NoLostUpdate
    BY DEF Init, HistoryIsComplete, NoLostUpdate
  <1> QED BY <1>1, <1>2, <1>3 DEF IInv

LEMMA StepInv == IInv /\ [Next]_vars => IInv'
  <1> SUFFICES ASSUME IInv, [Next]_vars PROVE IInv'
    OBVIOUS
  <1>1. ASSUME NEW e \in Editor, CommitUpdate(e) PROVE IInv'
    BY <1>1, CommitUpdateInv
  <1>2. ASSUME NEW e \in Editor, RefuseUpdate(e) PROVE IInv'
    <2>1. TypeOK'
      BY <1>2 DEF IInv, TypeOK, RefuseUpdate
    <2>2. \A f \in Editor : op'[f] = op[f] \/ op'[f] = NoOp
      BY <1>2 DEF IInv, TypeOK, RefuseUpdate
    <2>3. Fresh'
      BY <1>2, <2>2 DEF IInv, Fresh, Version, RefuseUpdate
    <2> QED BY <1>2, <2>1, <2>3 DEF IInv, HistoryIsComplete, NoLostUpdate, RefuseUpdate
  <1>3. ASSUME NEW e \in Editor, NEW l \in Link, Get(e, l) PROVE IInv'
    BY <1>3, GetInv
  <1>4. ASSUME NEW e \in Editor, NEW l \in Link, NEW c \in Config, Create(e, l, c)
        PROVE IInv'
    BY <1>4, CreateInv
  <1>5. ASSUME NEW e \in Editor, NEW l \in Link, NEW c \in Config,
               NEW s \in {"active", "paused"}, BeginUpdate(e, l, c, s)
        PROVE IInv'
    BY <1>5, BeginUpdateInv
  <1>6. ASSUME NEW e \in Editor, NEW l \in Link, NEW v \in 1 .. MaxVersion,
               NEW s \in {"active", "paused"}, BeginSetStatus(e, l, v, s)
        PROVE IInv'
    BY <1>6, BeginSetStatusInv
  <1>7. ASSUME NEW e \in Editor, NEW l \in Link, NEW v \in 1 .. MaxVersion, Delete(e, l, v)
        PROVE IInv'
    BY <1>7, DeleteInv
  <1>8. ASSUME NEW e \in Editor, NEW l \in Link, NEW v \in 1 .. MaxVersion,
               NEW n \in 1 .. MaxVersion, Restore(e, l, v, n)
        PROVE IInv'
    BY <1>8, RestoreInv
  <1>9. ASSUME Environment PROVE IInv'
    <2>1. PICK a \in CustomAddr, s \in DomainState : SetDomain(a, s)
      BY <1>9 DEF Environment
    <2>2. TypeOK'
      BY <2>1 DEF IInv, TypeOK, SetDomain
    <2> QED BY <2>1, <2>2 DEF IInv, Fresh, Version, HistoryIsComplete, NoLostUpdate, SetDomain
  <1>10. ASSUME Redirect PROVE IInv'
    <2>1. PICK l \in Link, v \in 1 .. MaxVersion, t \in Fingerprint, at \in 0 .. MaxNow :
             Claim(l, v, t, at)
      BY <1>10 DEF Redirect
    <2> QED BY <2>1, ClaimInv
  <1>11. ASSUME UNCHANGED vars PROVE IInv'
    <2>1. TypeOK'
      BY <1>11 DEF IInv, TypeOK, vars
    <2> QED BY <1>11, <2>1 DEF IInv, Fresh, Version, HistoryIsComplete, NoLostUpdate, vars
  <1>12. ASSUME Edit PROVE IInv'
    BY <1>1, <1>2, <1>3, <1>4, <1>5, <1>6, <1>7, <1>8, <1>12 DEF Edit
  <1> QED BY <1>9, <1>10, <1>11, <1>12 DEF Next

(* The inductive invariant holds in every reachable state. *)
THEOREM Invariance == Spec => []IInv
  <1>1. Init => IInv
    BY InitInv
  <1>2. IInv /\ [Next]_vars => IInv'
    BY StepInv
  <1> QED BY <1>1, <1>2, PTL DEF Spec

(* Every variable of the store has its type. *)
THEOREM TypeCorrect == Spec => []TypeOK
  <1>1. IInv => TypeOK
    BY DEF IInv
  <1> QED BY <1>1, Invariance, PTL

(* link_versions is the link's past, for every number of editors and versions. *)
THEOREM HistoryCorrect == Spec => []HistoryIsComplete
  <1>1. IInv => HistoryIsComplete
    BY DEF IInv
  <1> QED BY <1>1, Invariance, PTL

(* As long as clients send versions they were shown, no write undoes another. *)
THEOREM NoUpdateIsLost == ~Guess => (Spec => []NoLostUpdate)
  <1> SUFFICES ASSUME ~Guess PROVE Spec => []NoLostUpdate
    OBVIOUS
  <1>1. IInv => NoLostUpdate
    BY DEF IInv
  <1> QED BY <1>1, Invariance, PTL

-----------------------------------------------------------------------------
(* To the tables every step is one of three: an editor's write of the next     *)
(* version to an address that is free, a claim, or nothing.                    *)

Clicks(l) == IF row[l] = NoRow THEN 0 ELSE row[l].clicks

VersionWrite ==
    /\ \E l \in Link, r \in Row, b \in Nat :
          /\ Write(l, r, b)
          /\ AddressFree(l, r.cfg.addr) \/ (row[l] # NoRow /\ r.cfg.addr = row[l].cfg.addr)
          /\ r.clicks = Clicks(l)
    /\ outbox' = outbox

AnyClaim ==
    \E l \in Link, v \in Nat \ {0}, t \in Fingerprint, at \in Nat : Claim(l, v, t, at)

StoreStep == VersionWrite \/ AnyClaim \/ UNCHANGED <<row, history, outbox>>

LEMMA StepKinds ==
    ASSUME IInv, [Next]_vars
    PROVE  StoreStep
  <1>1. ASSUME NEW e \in Editor, CommitUpdate(e) PROVE VersionWrite
    <2> DEFINE o == op[e]
               r == [row[o.link] EXCEPT !.cfg = o.cfg, !.status = o.status,
                                        !.version = @ + 1]
    <2>1. /\ o.link \in Link /\ o.base \in Nat /\ o.cfg \in ConfigRecord
          /\ o.status \in Status /\ row[o.link] # NoRow
      BY <1>1 DEF IInv, TypeOK, Fresh, CommitUpdate, Operation, Status
    <2>2. row[o.link] \in Row /\ row[o.link].version + 1 \in Nat \ {0}
      BY <2>1 DEF IInv, TypeOK, Row
    <2>3. r \in Row
      BY <2>1, <2>2, RowUpdate
    <2>4. r.cfg = o.cfg /\ r.clicks = row[o.link].clicks
      BY <2>2 DEF Row
    <2>5. Write(o.link, r, o.base) /\ AddressFree(o.link, o.cfg.addr) /\ outbox' = outbox
      BY <1>1 DEF CommitUpdate, UpdateAccepted
    <2> HIDE DEF o, r
    <2>6. AddressFree(o.link, r.cfg.addr) /\ r.clicks = Clicks(o.link)
      BY <2>1, <2>4, <2>5 DEF Clicks
    <2> QED BY <2>1, <2>3, <2>5, <2>6 DEF VersionWrite
  <1>2. ASSUME NEW e \in Editor, NEW l \in Link, NEW c \in Config, Create(e, l, c)
        PROVE VersionWrite
    <2> DEFINE r == [cfg |-> c, status |-> "active", gone |-> FALSE,
                     version |-> 1, clicks |-> 0]
    <2>1. r \in Row /\ r.cfg = c /\ r.clicks = 0
      BY ConfigAssumption DEF Row, Status
    <2>2. Write(l, r, 0) /\ AddressFree(l, c.addr) /\ outbox' = outbox /\ Clicks(l) = 0
      BY <1>2 DEF Create, Clicks
    <2> HIDE DEF r
    <2> QED BY <2>1, <2>2 DEF VersionWrite
  <1>3. ASSUME NEW e \in Editor, NEW l \in Link, NEW v \in 1 .. MaxVersion, Delete(e, l, v)
        PROVE VersionWrite
    <2> DEFINE r == [row[l] EXCEPT !.status = "deleted", !.gone = TRUE, !.version = @ + 1]
    <2>1. row[l] # NoRow /\ row[l] \in Row /\ row[l].version + 1 \in Nat \ {0}
          /\ row[l].cfg \in ConfigRecord /\ "deleted" \in Status /\ v \in Nat
      BY <1>3 DEF IInv, TypeOK, Row, Delete, Status
    <2>2. r \in Row
      BY <2>1, RowUpdate
    <2>3. r.cfg = row[l].cfg /\ r.clicks = row[l].clicks
      BY <2>1 DEF Row
    <2>4. Write(l, r, v) /\ outbox' = outbox
      BY <1>3 DEF Delete
    <2> HIDE DEF r
    <2> QED BY <2>1, <2>2, <2>3, <2>4 DEF VersionWrite, Clicks
  <1>4. ASSUME NEW e \in Editor, NEW l \in Link, NEW v \in 1 .. MaxVersion,
               NEW n \in 1 .. MaxVersion, Restore(e, l, v, n)
        PROVE VersionWrite
    <2> DEFINE s == history[l][n]
               r == [row[l] EXCEPT !.cfg = s.cfg, !.status = RestoredStatus(s.status),
                                   !.gone = FALSE, !.version = @ + 1]
    <2>1. row[l] # NoRow /\ row[l] \in Row /\ row[l].version + 1 \in Nat \ {0} /\ v \in Nat
      BY <1>4 DEF IInv, TypeOK, Row, Restore
    <2>2. s \in Snapshot
      BY <1>4 DEF IInv, TypeOK, Restore
    <2>3. s.cfg \in ConfigRecord /\ RestoredStatus(s.status) \in Status
      BY <2>2 DEF Snapshot, RestoredStatus, Status
    <2>4. Write(l, r, v) /\ AddressFree(l, s.cfg.addr) /\ outbox' = outbox
      BY <1>4 DEF Restore
    <2> HIDE DEF s
    <2>5. r \in Row
      BY <2>1, <2>3, RowUpdate
    <2>6. r.cfg = s.cfg /\ r.clicks = row[l].clicks
      BY <2>1 DEF Row
    <2> HIDE DEF r
    <2> QED BY <2>1, <2>4, <2>5, <2>6 DEF VersionWrite, Clicks
  <1>5. ASSUME Redirect PROVE AnyClaim
    BY <1>5 DEF Redirect, AnyClaim
  <1>6. ASSUME Edit PROVE VersionWrite \/ UNCHANGED <<row, history, outbox>>
    BY <1>1, <1>2, <1>3, <1>4, <1>6
       DEF Edit, RefuseUpdate, Get, BeginUpdate, BeginSetStatus
  <1>7. ASSUME Environment PROVE UNCHANGED <<row, history, outbox>>
    BY <1>7 DEF Environment, SetDomain
  <1> QED BY <1>5, <1>6, <1>7 DEF Next, vars, StoreStep

(* A claim counts one click and records its event; nothing else moves. *)
LEMMA ClaimEffect ==
    ASSUME IInv, NEW l \in Link, NEW v \in Nat \ {0}, NEW t \in Fingerprint,
           NEW at \in Nat, Claim(l, v, t, at)
    PROVE  /\ \A m \in Link : row'[m] = NoRow <=> row[m] = NoRow
           /\ \A m \in Link : row'[m].cfg = row[m].cfg
           /\ \A m \in Link : m # l => row'[m] = row[m]
           /\ row[l] # NoRow /\ row'[l].clicks = row[l].clicks + 1 /\ row[l].clicks \in Nat
           /\ row[l] \in Row
           /\ history' = history
           /\ outbox' = outbox \cup {[link |-> l, seq |-> row[l].clicks + 1,
                                      version |-> v, targets |-> t, at |-> at]}
  <1>1. row[l] \in Row /\ row[l] # NoRow
    BY DEF IInv, TypeOK, Claim, ClaimAllowed
  <1>2. row' = [row EXCEPT ![l] = [row[l] EXCEPT !.clicks = row[l].clicks + 1]]
    BY DEF Claim
  <1>3. \A m \in Link : m # l => row'[m] = row[m]
    BY <1>2 DEF IInv, TypeOK
  <1>4. row'[l] = [row[l] EXCEPT !.clicks = row[l].clicks + 1]
    BY <1>2 DEF IInv, TypeOK
  <1>5. [row[l] EXCEPT !.clicks = row[l].clicks + 1] \in Row
    BY <1>1 DEF Row
  <1>6. row'[l].cfg = row[l].cfg /\ row'[l].clicks = row[l].clicks + 1 /\ row[l].clicks \in Nat
    BY <1>1, <1>4 DEF Row
  <1>7. history' = history
        /\ outbox' = outbox \cup {[link |-> l, seq |-> row[l].clicks + 1,
                                   version |-> v, targets |-> t, at |-> at]}
    BY DEF Claim
  <1> QED BY <1>1, <1>3, <1>4, <1>5, <1>6, <1>7, NoRowAssumption

-----------------------------------------------------------------------------
(* Addresses.                                                                  *)

LEMMA AddressStep ==
    ASSUME IInv, AddressUnique, StoreStep
    PROVE  AddressUnique'
  <1>1. CASE VersionWrite
    <2>1. PICK l \in Link, r \in Row, b \in Nat :
             /\ Write(l, r, b)
             /\ AddressFree(l, r.cfg.addr) \/ (row[l] # NoRow /\ r.cfg.addr = row[l].cfg.addr)
      BY <1>1 DEF VersionWrite
    <2>2. row'[l] = r /\ r # NoRow /\ \A m \in Link : m # l => row'[m] = row[m]
      BY <2>1, NoRowAssumption DEF IInv, TypeOK, Write
    <2>3. \A m \in Link : m # l /\ row[m] # NoRow => row[m].cfg.addr # r.cfg.addr
      BY <2>1 DEF AddressFree, AddressUnique
    <2>4. ASSUME NEW m \in Link, NEW n \in Link, m # n,
                 row'[m] # NoRow, row'[n] # NoRow
          PROVE  row'[m].cfg.addr # row'[n].cfg.addr
      <3>1. CASE m = l
        BY <2>2, <2>3, <2>4, <3>1
      <3>2. CASE n = l
        BY <2>2, <2>3, <2>4, <3>2
      <3>3. CASE m # l /\ n # l
        BY <2>2, <2>4, <3>3 DEF AddressUnique
      <3> QED BY <3>1, <3>2, <3>3
    <2> QED BY <2>4 DEF AddressUnique
  <1>2. CASE AnyClaim
    <2>1. /\ \A m \in Link : row'[m] = NoRow <=> row[m] = NoRow
          /\ \A m \in Link : row'[m].cfg = row[m].cfg
      BY <1>2, ClaimEffect DEF AnyClaim
    <2> QED BY <2>1 DEF AddressUnique
  <1>3. CASE UNCHANGED <<row, history, outbox>>
    BY <1>3 DEF AddressUnique
  <1> QED BY <1>1, <1>2, <1>3 DEF StoreStep

-----------------------------------------------------------------------------
(* Clicks and events.                                                          *)

LEMMA ClicksStep ==
    ASSUME IInv, EventsAreClicks, StoreStep
    PROVE  EventsAreClicks'
  <1> DEFINE NewClicks(m) == IF row'[m] = NoRow THEN 0 ELSE row'[m].clicks
             Counted(m, events, clicks) ==
               LET mine == {x \in events : x.link = m}
               IN /\ \A x \in mine : x.seq <= clicks
                  /\ \A k \in 1 .. clicks : \E x \in mine : x.seq = k
                  /\ \A x, y \in mine : x.seq = y.seq => x = y
  <1>1. \A m \in Link : Counted(m, outbox, Clicks(m))
    BY DEF EventsAreClicks, Clicks
  <1>2. SUFFICES \A m \in Link : Counted(m, outbox', NewClicks(m))
    BY DEF EventsAreClicks
  <1> HIDE DEF Counted
  <1>3. CASE VersionWrite
    <2>1. PICK l \in Link, r \in Row, b \in Nat : Write(l, r, b) /\ r.clicks = Clicks(l)
      BY <1>3 DEF VersionWrite
    <2>2. row'[l] = r /\ r # NoRow /\ \A m \in Link : m # l => row'[m] = row[m]
      BY <2>1, NoRowAssumption DEF IInv, TypeOK, Write
    <2>3. \A m \in Link : NewClicks(m) = Clicks(m)
      BY <2>1, <2>2 DEF Clicks
    <2>4. outbox' = outbox
      BY <1>3 DEF VersionWrite
    <2> QED BY <1>1, <2>3, <2>4
  <1>4. CASE AnyClaim
    <2>1. PICK l \in Link, v \in Nat \ {0}, t \in Fingerprint, at \in Nat : Claim(l, v, t, at)
      BY <1>4 DEF AnyClaim
    <2> DEFINE x0 == [link |-> l, seq |-> row[l].clicks + 1,
                      version |-> v, targets |-> t, at |-> at]
    <2>2. /\ \A m \in Link : row'[m] = NoRow <=> row[m] = NoRow
          /\ \A m \in Link : m # l => row'[m] = row[m]
          /\ Clicks(l) = row[l].clicks /\ NewClicks(l) = Clicks(l) + 1 /\ Clicks(l) \in Nat
          /\ outbox' = outbox \cup {x0}
      BY <2>1, ClaimEffect DEF Clicks
    <2>3. x0.link = l /\ x0.seq = Clicks(l) + 1
      BY <2>2
    <2> HIDE DEF x0
    <2>4. ASSUME NEW m \in Link, m # l
          PROVE  Counted(m, outbox', NewClicks(m))
      <3>1. NewClicks(m) = Clicks(m)
        BY <2>2, <2>4 DEF Clicks
      <3>2. {x \in outbox' : x.link = m} = {x \in outbox : x.link = m}
        BY <2>2, <2>3, <2>4
      <3> QED BY <1>1, <3>1, <3>2 DEF Counted
    <2>5. Counted(l, outbox', NewClicks(l))
      <3> DEFINE old == {x \in outbox : x.link = l}
                 new == {x \in outbox' : x.link = l}
      <3>1. /\ \A x \in old : x.seq <= Clicks(l)
            /\ \A k \in 1 .. Clicks(l) : \E x \in old : x.seq = k
            /\ \A x, y \in old : x.seq = y.seq => x = y
        BY <1>1 DEF Counted
      <3>2. new = old \cup {x0}
        BY <2>2, <2>3
      <3>3. \A x \in old : x.seq \in Nat
        BY DEF IInv, TypeOK, Event
      <3> HIDE DEF old, new, NewClicks
      <3>4. \A x \in new : x.seq <= NewClicks(l)
        BY <2>2, <2>3, <3>1, <3>2, <3>3
      <3>5. \A k \in 1 .. NewClicks(l) : \E x \in new : x.seq = k
        <4> TAKE k \in 1 .. NewClicks(l)
        <4>1. CASE k = Clicks(l) + 1
          BY <2>3, <3>2, <4>1
        <4>2. CASE k # Clicks(l) + 1
          <5>1. k \in 1 .. Clicks(l)
            BY <2>2, <4>2
          <5> QED BY <3>1, <3>2, <5>1
        <4> QED BY <4>1, <4>2
      <3>6. \A x, y \in new : x.seq = y.seq => x = y
        <4>1. \A x \in old : x.seq # x0.seq
          BY <2>2, <2>3, <3>1, <3>3
        <4> QED BY <3>1, <3>2, <4>1
      <3> QED BY <3>4, <3>5, <3>6 DEF Counted, new
    <2> QED BY <2>4, <2>5
  <1>5. CASE UNCHANGED <<row, history, outbox>>
    <2>1. \A m \in Link : NewClicks(m) = Clicks(m)
      BY <1>5 DEF Clicks
    <2> QED BY <1>1, <1>5, <2>1
  <1> QED BY <1>3, <1>4, <1>5 DEF StoreStep

(* What an event of version v of a link promises about that version's snapshot. *)
Honoured(x, h) ==
    /\ x.version <= Len(h)
    /\ h[x.version].status = "active"
    /\ h[x.version].cfg.targets = x.targets
    /\ h[x.version].cfg.expires # Never => x.at < h[x.version].cfg.expires
    /\ h[x.version].cfg.cap # Unlimited => x.seq <= h[x.version].cfg.cap
    /\ h[x.version].cfg.oneTime => x.seq = 1

LEMMA LimitsStep ==
    ASSUME IInv, ClicksWithinLimits, StoreStep
    PROVE  ClicksWithinLimits'
  <1>1. \A x \in outbox : Honoured(x, history[x.link])
    BY DEF ClicksWithinLimits, Honoured
  <1>2. SUFFICES \A x \in outbox' : Honoured(x, history'[x.link])
    BY DEF ClicksWithinLimits, Honoured
  <1>3. CASE VersionWrite
    <2>1. PICK l \in Link, r \in Row, b \in Nat : Write(l, r, b)
      BY <1>3 DEF VersionWrite
    <2> DEFINE s == [cfg |-> r.cfg, status |-> r.status, clicks |-> r.clicks, base |-> b]
    <2>2. s \in Snapshot
      BY DEF Row, Snapshot
    <2>3. history[l] \in Seq(Snapshot) /\ history'[l] = Append(history[l], s)
          /\ \A m \in Link : m # l => history'[m] = history[m]
      BY <2>1 DEF IInv, TypeOK, Write
    <2> HIDE DEF s
    <2>4. /\ Len(history'[l]) = Len(history[l]) + 1
          /\ \A n \in 1 .. Len(history[l]) : history'[l][n] = history[l][n]
      BY <2>2, <2>3, AppendSnapshot
    <2>5. ASSUME NEW x \in outbox
          PROVE  Honoured(x, history'[x.link])
      <3>1. x.link \in Link /\ x.version \in Nat \ {0}
        BY DEF IInv, TypeOK, Event
      <3>2. CASE x.link = l
        <4>1. x.version \in 1 .. Len(history[l]) /\ Len(history[l]) \in Nat
          BY <1>1, <2>3, <3>1, <3>2 DEF Honoured
        <4>2. history'[l][x.version] = history[l][x.version]
          BY <2>4, <4>1
        <4>3. x.version <= Len(history'[l])
          BY <2>4, <4>1
        <4> QED BY <1>1, <3>2, <4>2, <4>3 DEF Honoured
      <3>3. CASE x.link # l
        BY <1>1, <2>3, <3>1, <3>3
      <3> QED BY <3>2, <3>3
    <2> QED BY <1>3, <2>5 DEF VersionWrite
  <1>4. CASE AnyClaim
    <2>1. PICK l \in Link, v \in Nat \ {0}, t \in Fingerprint, at \in Nat : Claim(l, v, t, at)
      BY <1>4 DEF AnyClaim
    <2> DEFINE x0 == [link |-> l, seq |-> row[l].clicks + 1,
                      version |-> v, targets |-> t, at |-> at]
    <2>2. row[l] # NoRow /\ row[l] \in Row /\ history' = history /\ outbox' = outbox \cup {x0}
      BY <2>1, ClaimEffect
    <2>3. /\ Len(history[l]) = v
          /\ history[l][v].cfg = row[l].cfg
          /\ history[l][v].status = row[l].status
      BY <2>1, <2>2 DEF IInv, HistoryIsComplete, Claim, ClaimAllowed
    <2>4. /\ row[l].cfg.targets = t /\ row[l].status = "active"
          /\ NotExpired(row[l].cfg, at) /\ WithinLimits(row[l].cfg, row[l].clicks)
      BY <2>1 DEF Claim, ClaimAllowed
    <2>5. /\ x0.link = l /\ x0.version = v /\ x0.targets = t /\ x0.at = at
          /\ x0.seq = row[l].clicks + 1
      OBVIOUS
    <2> HIDE DEF x0
    <2>6. row[l].clicks \in Nat /\ row[l].cfg \in ConfigRecord
      BY <2>2 DEF Row
    <2>7. row[l].cfg.expires # Never => at < row[l].cfg.expires
      BY <2>4, <2>6 DEF NotExpired, ConfigRecord
    <2>8. row[l].cfg.cap # Unlimited => row[l].clicks + 1 <= row[l].cfg.cap
      BY <2>4, <2>6 DEF WithinLimits, ConfigRecord
    <2>9. row[l].cfg.oneTime => row[l].clicks + 1 = 1
      BY <2>4, <2>6 DEF WithinLimits
    <2>10. Honoured(x0, history[l])
      BY <2>3, <2>4, <2>5, <2>7, <2>8, <2>9 DEF Honoured
    <2> QED BY <1>1, <2>2, <2>5, <2>10
  <1>5. CASE UNCHANGED <<row, history, outbox>>
    BY <1>1, <1>5
  <1> QED BY <1>3, <1>4, <1>5 DEF StoreStep

-----------------------------------------------------------------------------
(* One address never leads to two links, deleted links included. *)
THEOREM AddressesAreUnique == Spec => []AddressUnique
  <1>1. Init => AddressUnique
    BY DEF Init, AddressUnique
  <1>2. IInv /\ AddressUnique /\ [Next]_vars => AddressUnique'
    BY AddressStep, StepKinds
  <1> QED BY <1>1, <1>2, Invariance, PTL DEF Spec

(* The analytics events of a link are its clicks, numbered without gaps. *)
THEOREM EventsMatchClicks == Spec => []EventsAreClicks
  <1>1. ASSUME Init PROVE EventsAreClicks
    <2>1. \A l \in Link : row[l] = NoRow
      BY <1>1 DEF Init
    <2>2. {x \in outbox : FALSE} = outbox
      BY <1>1 DEF Init
    <2>3. \A k \in 1 .. 0 : FALSE
      OBVIOUS
    <2> QED BY <1>1, <2>1, <2>2, <2>3 DEF Init, EventsAreClicks
  <1>2. IInv /\ EventsAreClicks /\ [Next]_vars => EventsAreClicks'
    BY ClicksStep, StepKinds
  <1> QED BY <1>1, <1>2, Invariance, PTL DEF Spec

(* Every click ever accepted was within the limits of its version. *)
THEOREM LimitsAreRespected == Spec => []ClicksWithinLimits
  <1>1. Init => ClicksWithinLimits
    BY DEF Init, ClicksWithinLimits
  <1>2. IInv /\ ClicksWithinLimits /\ [Next]_vars => ClicksWithinLimits'
    BY LimitsStep, StepKinds
  <1> QED BY <1>1, <1>2, Invariance, PTL DEF Spec

(* The rows as a whole. *)
THEOREM StoreIsSafe == Spec => []StoreSafety
  <1>1. TypeOK /\ AddressUnique /\ HistoryIsComplete => StoreSafety
    BY DEF StoreSafety
  <1> QED BY <1>1, TypeCorrect, AddressesAreUnique, HistoryCorrect, PTL

(* Clicks as a whole. *)
THEOREM ClicksAreSafe == Spec => []ClickSafety
  <1>1. EventsAreClicks /\ ClicksWithinLimits => ClickSafety
    BY DEF ClickSafety
  <1> QED BY <1>1, EventsMatchClicks, LimitsAreRespected, PTL

-----------------------------------------------------------------------------
(* The domain authority: an address the link never had, and a click on one. *)

ReachesNewAddress(l) ==
    /\ row'[l] # NoRow /\ row'[l].cfg.kind = "custom"
    /\ \A n \in 1 .. Len(history[l]) : history[l][n].cfg.addr # row'[l].cfg.addr

(* A link that keeps its contents keeps an address it had. *)
LEMMA KeptAddressIsOld ==
    ASSUME HistoryIsComplete, TypeOK, NEW l \in Link, row[l] # NoRow, row'[l].cfg = row[l].cfg
    PROVE  ~ReachesNewAddress(l)
  <1>1. row[l].version \in Nat \ {0}
    BY DEF TypeOK, Row
  <1>2. /\ Len(history[l]) = row[l].version
        /\ history[l][row[l].version].cfg = row[l].cfg
    BY DEF HistoryIsComplete
  <1>3. row[l].version \in 1 .. Len(history[l])
    BY <1>1, <1>2
  <1> QED BY <1>2, <1>3 DEF ReachesNewAddress

LEMMA UntouchedLinkIsOld ==
    ASSUME HistoryIsComplete, TypeOK, NEW l \in Link, row'[l] = row[l]
    PROVE  ~ReachesNewAddress(l)
  BY KeptAddressIsOld DEF ReachesNewAddress

LEMMA GateStep ==
    ASSUME IInv, [Next]_vars, NEW l \in Link
    PROVE  /\ ReachesNewAddress(l) => domain[row'[l].cfg.addr] = "ready"
           /\ outbox' # outbox /\ row'[l] # row[l] => RoutingAuthorized(row[l].cfg)
  <1>0. HistoryIsComplete /\ TypeOK /\ \A m \in Link : row[m] # NoRow => row[m] \in Row
    BY DEF IInv, TypeOK
  <1>1. ASSUME NEW e \in Editor, NEW m \in Link, NEW c \in Config, Create(e, m, c), ReachesNewAddress(l)
        PROVE  domain[row'[l].cfg.addr] = "ready"
    <2>1. AssignmentAuthorized(c) /\ (m = l => row'[l].cfg = c) /\ (m # l => row'[l] = row[l])
      BY <1>0, <1>1 DEF Create, Write, TypeOK
    <2> QED BY <1>0, <1>1, <2>1, UntouchedLinkIsOld DEF AssignmentAuthorized, ReachesNewAddress
  <1>2. ASSUME NEW e \in Editor, CommitUpdate(e), ReachesNewAddress(l)
        PROVE  domain[row'[l].cfg.addr] = "ready"
    <2> DEFINE o == op[e]
    <2>1. o.link \in Link /\ row[o.link] # NoRow
      BY <1>2 DEF IInv, TypeOK, Fresh, CommitUpdate, Operation
    <2>2. row[o.link] \in Row
      BY <1>0, <2>1
    <2>3. /\ AssignmentAuthorized(o.cfg)
          /\ row' = [row EXCEPT ![o.link] = [row[o.link] EXCEPT !.cfg = o.cfg, !.status = o.status,
                                                               !.version = @ + 1]]
      BY <1>2 DEF CommitUpdate, UpdateAccepted, Write
    <2> HIDE DEF o
    <2>4. (o.link = l => row'[l].cfg = o.cfg) /\ (o.link # l => row'[l] = row[l])
      BY <1>0, <2>1, <2>2, <2>3 DEF TypeOK, Row
    <2> QED BY <1>0, <1>2, <2>3, <2>4, UntouchedLinkIsOld DEF AssignmentAuthorized, ReachesNewAddress
  <1>3. ASSUME NEW e \in Editor, NEW m \in Link, NEW v \in 1 .. MaxVersion, Delete(e, m, v)
        PROVE  ~ReachesNewAddress(l)
    <2>1. row[m] # NoRow /\ row[m] \in Row
      BY <1>0, <1>3 DEF Delete
    <2>2. row' = [row EXCEPT ![m] = [row[m] EXCEPT !.status = "deleted", !.gone = TRUE, !.version = @ + 1]]
      BY <1>3 DEF Delete, Write
    <2>3. (m = l => row'[l].cfg = row[l].cfg) /\ (m # l => row'[l] = row[l])
      BY <1>0, <2>1, <2>2 DEF TypeOK, Row
    <2> QED BY <1>0, <2>1, <2>3, UntouchedLinkIsOld, KeptAddressIsOld
  <1>4. ASSUME NEW e \in Editor, NEW m \in Link, NEW v \in 1 .. MaxVersion, NEW n \in 1 .. MaxVersion,
               Restore(e, m, v, n)
        PROVE  ~ReachesNewAddress(l)
    <2> DEFINE s == history[m][n]
    <2>1. row[m] # NoRow /\ row[m] \in Row /\ n \in 1 .. Len(history[m])
      BY <1>0, <1>4 DEF Restore
    <2>2. row' = [row EXCEPT ![m] = [row[m] EXCEPT !.cfg = s.cfg, !.status = RestoredStatus(s.status),
                                                  !.gone = FALSE, !.version = @ + 1]]
      BY <1>4 DEF Restore, Write
    <2> HIDE DEF s
    <2>3. (m = l => row'[l].cfg = s.cfg) /\ (m # l => row'[l] = row[l])
      BY <1>0, <2>1, <2>2 DEF TypeOK, Row
    <2>4. m = l => ~ReachesNewAddress(l)
      BY <2>1, <2>3 DEF s, ReachesNewAddress
    <2> QED BY <1>0, <2>3, <2>4, UntouchedLinkIsOld
  <1>5. ASSUME AnyClaim
        PROVE  /\ ~ReachesNewAddress(l)
               /\ row'[l] # row[l] => RoutingAuthorized(row[l].cfg)
    <2>1. PICK m \in Link, v \in Nat \ {0}, t \in Fingerprint, at \in Nat : Claim(m, v, t, at)
      BY <1>5 DEF AnyClaim
    <2>2. row[m] # NoRow /\ row[m] \in Row /\ RoutingAuthorized(row[m].cfg)
      BY <1>0, <2>1 DEF Claim, ClaimAllowed
    <2>3. row' = [row EXCEPT ![m].clicks = @ + 1]
      BY <2>1 DEF Claim
    <2>4. (m = l => row'[l].cfg = row[l].cfg) /\ (m # l => row'[l] = row[l])
      BY <1>0, <2>2, <2>3 DEF TypeOK, Row
    <2> QED BY <1>0, <2>2, <2>4, UntouchedLinkIsOld, KeptAddressIsOld
  <1>6. outbox' # outbox => AnyClaim
    BY StepKinds DEF StoreStep, VersionWrite
  <1>7. ASSUME UNCHANGED row
        PROVE  ~ReachesNewAddress(l)
    BY <1>0, <1>7, UntouchedLinkIsOld
  <1>8. ASSUME ReachesNewAddress(l)
        PROVE  domain[row'[l].cfg.addr] = "ready"
    <2>1. CASE Edit
      BY <1>1, <1>2, <1>3, <1>4, <1>7, <1>8, <2>1 DEF Edit, RefuseUpdate, Get, BeginUpdate, BeginSetStatus
    <2>2. CASE Environment
      BY <1>7, <1>8, <2>2 DEF Environment, SetDomain
    <2>3. CASE Redirect
      BY <1>5, <1>8, <2>3 DEF Redirect, AnyClaim
    <2> QED BY <1>7, <1>8, <2>1, <2>2, <2>3 DEF Next, vars
  <1> QED BY <1>5, <1>6, <1>8

(* A link reaches a custom address it never had while its domain is ready for it, and a *)
(* click on a custom address is counted while the address is routed (Create, Update and  *)
(* the claim ask the domain authority in their own transaction).                          *)
THEOREM DomainsAreAsked == Spec => DomainGates
  <1> DEFINE Gate == \A l \in Link :
               /\ /\ row'[l] # NoRow /\ row'[l].cfg.kind = "custom"
                  /\ \A n \in 1 .. Len(history[l]) :
                       history[l][n].cfg.addr # row'[l].cfg.addr
                  => domain[row'[l].cfg.addr] = "ready"
               /\ outbox' # outbox /\ row'[l] # row[l] => RoutingAuthorized(row[l].cfg)
  <1>1. IInv /\ [Next]_vars => Gate
    BY GateStep DEF ReachesNewAddress
  <1>2. IInv /\ [Next]_vars => [Gate]_vars
    BY <1>1
  <1>3. DomainGates <=> [][Gate]_vars
    BY DEF DomainGates
  <1> HIDE DEF Gate
  <1> QED BY <1>2, <1>3, Invariance, PTL DEF Spec
=============================================================================
