----------------------------- MODULE MCDASession -----------------------------
(* Instances of DASession for TLC.                                          *)
EXTENDS DASession, TLC

CONSTANTS q, w, e1, a1, r1

(* A function that is told of events, one that is asked, one for requests.  *)
Asked   == (a1 :> "question") @@ (r1 :> "request")
Told    == (e1 :> "event") @@ (r1 :> "request")
=============================================================================
