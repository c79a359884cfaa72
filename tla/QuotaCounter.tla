---------------------------- MODULE QuotaCounter ----------------------------
(***************************************************************************)
(* What text shares, Bio pages and QR codes promise of the counter row they  *)
(* keep per workspace: it is the number of the resources not deleted, it    *)
(* never passes the quota, and a deleted resource is deleted for good.      *)
(***************************************************************************)
EXTENDS Naturals, FiniteSets

CONSTANTS Resource, Quota
VARIABLES used, live, gone

Take(r) ==
    /\ r \notin live \cup gone
    /\ used < Quota
    /\ live' = live \cup {r} /\ used' = used + 1
    /\ UNCHANGED gone

GiveBack(r) ==
    /\ r \in live
    /\ live' = live \ {r} /\ used' = used - 1
    /\ gone' = gone \cup {r}

Init == used = 0 /\ live = {} /\ gone = {}
Next == \E r \in Resource : Take(r) \/ GiveBack(r)
Spec == Init /\ [][Next]_<<used, live, gone>>
=============================================================================
