------------------------------ MODULE DAApproval ------------------------------
(***************************************************************************)
(* What the daemon promises when it consults its clients about a request   *)
(* on a disk (claim release, eject, mount and unmount approval), without   *)
(* sessions, callback registers, queues or timers: a ballot per disk.      *)
(*                                                                         *)
(* A ballot is opened for a set of voters, each counted at most once.  A   *)
(* voter that times out, unregisters or goes away is excused.  The ballot  *)
(* is decided when nobody is left to wait for, and the request is          *)
(* performed exactly when nobody dissented; the first dissent is the       *)
(* reason that is given.                                                   *)
(***************************************************************************)
CONSTANTS Disk,    \* the disks a ballot can be held on
          Voter,   \* the names of the single questions put to the clients
          Reason,  \* the reasons a request can be refused for
          None     \* not a Reason: nobody refused

VARIABLES phase,   \* phase[d]: idle, voting or decided
          waiting, \* waiting[d]: the questions not answered yet
          reason,  \* reason[d]: the first dissent, or None
          outcome  \* outcome[d]: what became of the last request on d

vars == <<phase, waiting, reason, outcome>>

Phase   == {"idle", "voting", "decided"}
Outcome == {"none", "performed", "refused", "abandoned"}

TypeOK ==
  /\ phase   \in [Disk -> Phase]
  /\ waiting \in [Disk -> SUBSET Voter]
  /\ reason  \in [Disk -> Reason \cup {None}]
  /\ outcome \in [Disk -> Outcome]

Init ==
  /\ phase   = [d \in Disk |-> "idle"]
  /\ waiting = [d \in Disk |-> {}]
  /\ reason  = [d \in Disk |-> None]
  /\ outcome = [d \in Disk |-> "none"]

-----------------------------------------------------------------------------
\* A ballot is opened for any set of voters.  With nobody to ask it is decided
\* at once, for or (a claim that cannot be released) against the request.
Open(d) ==
  /\ phase[d] = "idle"
  /\ waiting'[d] \in SUBSET Voter
  /\ reason'[d] \in Reason \cup {None}
  /\ reason'[d] # None => waiting'[d] = {}
  /\ phase' = [phase EXCEPT ![d] = IF waiting'[d] = {} THEN "decided" ELSE "voting"]
  /\ waiting' = [waiting EXCEPT ![d] = waiting'[d]]
  /\ reason' = [reason EXCEPT ![d] = reason'[d]]
  /\ UNCHANGED outcome

\* The answer to one question; only the first dissent is kept.
Vote(d, r) ==
  \E v \in waiting[d] :
    /\ waiting' = [waiting EXCEPT ![d] = @ \ {v}]
    /\ reason'  = [reason EXCEPT ![d] = IF @ = None THEN r ELSE @]
    /\ phase'   = [phase EXCEPT ![d] = IF waiting[d] = {v} THEN "decided" ELSE @]
    /\ UNCHANGED outcome

\* Some answers, to questions about any of the disks, are not waited for any
\* longer.
Excuse ==
  /\ waiting' \in [Disk -> SUBSET UNION {waiting[d] : d \in Disk}]
  /\ \A d \in Disk : waiting'[d] \subseteq waiting[d]
  /\ phase' = [d \in Disk |-> IF waiting[d] # {} /\ waiting'[d] = {}
                               THEN "decided" ELSE phase[d]]
  /\ UNCHANGED <<reason, outcome>>

\* The verdict is carried out.
Settle(d) ==
  /\ phase[d] = "decided"
  /\ outcome' = [outcome EXCEPT ![d] = IF reason[d] = None THEN "performed"
                                                           ELSE "refused"]
  /\ phase'   = [phase EXCEPT ![d] = "idle"]
  /\ reason'  = [reason EXCEPT ![d] = None]
  /\ UNCHANGED waiting

\* The disk is gone and takes the ballot with it.
Abandon(d) ==
  /\ phase'   = [phase EXCEPT ![d] = "idle"]
  /\ waiting' = [waiting EXCEPT ![d] = {}]
  /\ reason'  = [reason EXCEPT ![d] = None]
  /\ outcome' = [outcome EXCEPT ![d] = "abandoned"]

Next ==
  \/ \E d \in Disk : \/ Open(d)
                     \/ \E r \in Reason \cup {None} : Vote(d, r)
                     \/ Settle(d)
                     \/ Abandon(d)
  \/ Excuse

Spec == Init /\ [][Next]_vars
=============================================================================
