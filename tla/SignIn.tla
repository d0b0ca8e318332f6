-------------------------------- MODULE SignIn ------------------------------
(***************************************************************************)
(* src/features/backup.c: connecting a cloud with a code typed in on the    *)
(* phone. g.dev holds the one code that shows; a detached thread polls for  *)
(* each code that was handed out, and looks only at whether some code is    *)
(* pending.                                                                *)
(***************************************************************************)
CONSTANTS Clouds

VARIABLES
  token,       \* the clouds with a refresh token on file
  pending,     \* the cloud whose code shows, or none
  polls,       \* the clouds a thread polls for
  codes        \* the clouds whose code has not expired

svars == <<token, pending, polls, codes>>

None == "none"

Init == token = {} /\ pending = None /\ polls = {} /\ codes = {}

\* pf_backup_connect: a code already showing is the one to use; another one's gives way, which the
\* threads that look just then see; the cloud may not answer, and the thread may not start
Connect(l) ==
  /\ pending # l
  /\ \E left \in SUBSET polls :
       \/ pending' = l /\ polls' = left \cup {l} /\ codes' = codes \cup {l}
       \/ pending' = None /\ polls' = left /\ codes' = codes
  /\ UNCHANGED token

\* token_put, token_drop
PutToken(l) == token' = token \cup {l}
DropToken(l) == token' = token \ {l}

EndPendingNot == UNCHANGED pending   \* fault: a poll that ends leaves its code showing
EndPending == pending' = None

\* device_poll_thread: it sleeps, looks whether a code is pending at all, and asks
PollGone(l) == /\ l \in polls /\ pending = None
               /\ polls' = polls \ {l}
               /\ UNCHANGED <<token, pending, codes>>

PollConnected(l) == /\ l \in polls /\ pending # None /\ l \in codes
                    /\ PutToken(l)
                    /\ polls' = polls \ {l} /\ codes' = codes \ {l} /\ EndPending

PollOver(l) == /\ l \in polls /\ pending # None
               /\ polls' = polls \ {l} /\ codes' = codes \ {l} /\ EndPending
               /\ UNCHANGED token

\* pf_backup_disconnect
Disconnect(l) == /\ DropToken(l)
                 /\ pending' = IF pending = l THEN None ELSE pending
                 /\ UNCHANGED <<polls, codes>>

\* cloud_access: a refresh token the cloud refuses is dropped
Access(l) == /\ l \in token /\ DropToken(l)
             /\ UNCHANGED <<pending, polls, codes>>

Next == \E l \in Clouds : Connect(l) \/ PollGone(l) \/ PollConnected(l) \/ PollOver(l)
                          \/ Disconnect(l) \/ Access(l)

Fairness == \A l \in Clouds : WF_svars(PollGone(l) \/ PollOver(l))

Spec == Init /\ [][Next]_svars /\ Fairness
-----------------------------------------------------------------------------
(* A code that shows goes away: it is used, refused, given up or expires (device_poll_thread).     *)
CodeGoesAway == \A l \in Clouds : pending = l ~> pending # l
=============================================================================
