---------------------------- MODULE SessionChain ----------------------------
(***************************************************************************)
(* What the session component promises, without requests, transactions or *)
(* in-flight maps: a login opens a chain of sessions, a refresh appends a *)
(* successor to a session, and closing sessions is final.  A process that  *)
(* has retired a session with the refresh never refreshes it again; the    *)
(* processes know nothing of each other, and a refresh that slips leaves   *)
(* its session as it was.                                                  *)
(***************************************************************************)
CONSTANTS Sid, NoSid, Proc, InitialSessions

VARIABLES
  status, parent,
  retired     \* the sessions that each process has retired with a refresh

chainVars == <<status, parent, retired>>

ChainInit ==
  /\ status = [s \in Sid |-> IF s \in InitialSessions THEN "active" ELSE "none"]
  /\ parent = [s \in Sid |-> NoSid]
  /\ retired = [p \in Proc |-> {}]

Unused(t) == t \in Sid /\ status[t] = "none"

\* A login: a new chain.
Open(t) ==
  /\ Unused(t)
  /\ status' = [status EXCEPT ![t] = "active"]
  /\ UNCHANGED <<parent, retired>>

\* A refresh: s gets a successor, in one step with the end of s.
Rotate(p, s, t) ==
  /\ status[s] # "none" /\ s \notin retired[p]
  /\ Unused(t)
  /\ status' = [status EXCEPT ![s] = "revoked", ![t] = "active"]
  /\ parent' = [parent EXCEPT ![t] = s]
  /\ retired' = [retired EXCEPT ![p] = @ \cup {s}]

\* A refresh that leaves s as it was.
Slip(p, s, t) ==
  /\ status[s] # "none" /\ s \notin retired[p]
  /\ Unused(t)
  /\ status' = [status EXCEPT ![t] = "active"]
  /\ parent' = [parent EXCEPT ![t] = s]
  /\ UNCHANGED retired

\* Logout, logout-all, a password change or reset.
Close(S) ==
  /\ \A s \in S : status[s] # "none"
  /\ status' = [s \in Sid |-> IF s \in S THEN "revoked" ELSE status[s]]
  /\ UNCHANGED <<parent, retired>>

ChainNext ==
  \/ \E t \in Sid : Open(t)
  \/ \E p \in Proc, s, t \in Sid : Rotate(p, s, t) \/ Slip(p, s, t)
  \/ \E S \in SUBSET Sid : Close(S)

ChainSpec == ChainInit /\ [][ChainNext]_chainVars
=============================================================================
