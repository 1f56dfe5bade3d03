------------------------------- MODULE DAWork -------------------------------
(***************************************************************************)
(* What the rest of diskarbitrationd counts on when it hands a job to a    *)
(* thread (DAThreadExecute) or to a child process (DACommandExecute): the  *)
(* callback comes after the job has ended, and once.  DAStage takes it for *)
(* granted; DAWorker does it.                                              *)
(***************************************************************************)
CONSTANT Job

VARIABLES pending, \* the jobs that have not been called back
          ended    \* those of them that have ended, or could not be started

Init == pending = {} /\ ended = {}

Start(j) ==
  /\ j \notin pending
  /\ pending' = pending \cup {j}
  /\ ended' \in {ended, ended \cup {j}}

End(j) ==
  /\ j \in pending \ ended
  /\ ended' = ended \cup {j}
  /\ UNCHANGED pending

\* A callback may hand on the job that it is called for.
CallBack(j) ==
  /\ j \in ended
  /\ pending' \in {pending, pending \ {j}}
  /\ ended' = ended \ {j}

Next == \E j \in Job : Start(j) \/ End(j) \/ CallBack(j)

Spec == Init /\ [][Next]_<<pending, ended>>
=============================================================================
