---------------------------- MODULE DABallotProofs ----------------------------
(***************************************************************************)
(* More theorems about DAResponse, for any number of disks, sessions and   *)
(* callbacks: the numbers by which answers are matched, claims and their   *)
(* holders, and that the consultations about requests are ballots in the   *)
(* sense of DAApproval.  They rest on the invariant of DAResponseProofs.   *)
(***************************************************************************)
EXTENDS DAResponseProofs

-----------------------------------------------------------------------------
(* The numbers of questions                                                *)

\* What is on its way with a number was numbered before.
NumbersAreOld ==
  /\ \A r \in responses : r.id < nextID
  /\ \A s \in Session : /\ \A r \in queue[s] : r.id < nextID
                        /\ \A i \in held[s] : i < nextID

\* A step numbers its questions from nextID on, each with a number of its own,
\* and leaves nextID above them.
NumbersAreNew ==
  /\ nextID \in Nat /\ nextID' \in Nat /\ nextID <= nextID'
  /\ \A r \in Asked : nextID <= r.id /\ r.id < nextID'
  /\ \A r, q \in Asked : r.id = q.id => r = q

\* In a step a client gets questions that were put to it, and numbers that
\* were in its queue.
OwnNumbers ==
  \A s \in Session :
    /\ \A r \in queue'[s] : r \in queue[s] \/ (r \in Asked /\ r.cb.session = s)
    /\ \A i \in held'[s] : i \in held[s] \/ \E r \in queue[s] : r.id = i

LEMMA AskedBySweep ==
  ASSUME IInv, NEW R \in SUBSET responses, NEW ctx, NEW flagged, Sweep(R, ctx, flagged)
  PROVE  NumbersAreNew
<1> DEFINE over   == Completed(R)
           pick   == [d \in Disk |-> FirstReachable(candidates[d], d, flagged[d])]
           asking == {d \in over : ctx[d].kind = "Peek" /\ pick[d] # 0}
<1>1. PICK f \in Numbering(asking) :
        responses' = (responses \ R) \cup
          {[id |-> f[d], cb |-> candidates[d][pick[d]], disk |-> d] : d \in asking}
  BY DEF Sweep
<1>2. nextID' = nextID + Cardinality(asking)
  BY DEF Sweep
<1>3. nextID \in Nat
  BY DEF IInv, TypeOK
<1>4. IsFiniteSet(asking)
  BY FS_Subset, ConstantAssumption DEF Completed
<1> HIDE DEF asking, pick
<1>5. /\ Cardinality(asking) \in Nat
      /\ \A d \in asking : /\ f[d] \in Nat
                           /\ nextID <= f[d] /\ f[d] < nextID + Cardinality(asking)
      /\ \A d, e \in asking : f[d] = f[e] => d = e
  BY <1>3, <1>4, NumberingType, FS_CardinalityType
<1>6. \A r \in Asked : \E d \in asking :
         r = [id |-> f[d], cb |-> candidates[d][pick[d]], disk |-> d]
  BY <1>1 DEF Asked
<1>7. QED
  BY <1>2, <1>3, <1>5, <1>6 DEF NumbersAreNew

LEMMA AskedByConsult ==
  ASSUME IInv, NEW d \in Disk, NEW V, IsFiniteSet(V), Consult(d, V)
  PROVE  NumbersAreNew
<1>1. PICK f \in Numbering(V) :
        responses' = responses \cup {[id |-> f[c], cb |-> c, disk |-> d] : c \in V}
  BY DEF Consult
<1>2. nextID' = nextID + Cardinality(V)
  BY DEF Consult
<1>3. nextID \in Nat
  BY DEF IInv, TypeOK
<1>4. /\ Cardinality(V) \in Nat
      /\ \A c \in V : f[c] \in Nat /\ nextID <= f[c] /\ f[c] < nextID + Cardinality(V)
      /\ \A b, c \in V : f[b] = f[c] => b = c
  BY <1>3, NumberingType, FS_CardinalityType
<1>5. \A r \in Asked : \E c \in V : r = [id |-> f[c], cb |-> c, disk |-> d]
  BY <1>1 DEF Asked
<1>6. QED
  BY <1>2, <1>3, <1>4, <1>5 DEF NumbersAreNew

\* Who is asked when a request is approved: nobody, or registered callbacks of
\* its kind, or the holder of the claim; a claim without a callback is refused.
Consults(d) ==
  \E V \in SUBSET AnyCallback : /\ IsFiniteSet(V) /\ Consult(d, V)
                                 /\ \A c \in V : c.kind = request[d].kind

RefusesClaim(d) ==
  /\ request' = [request EXCEPT ![d].approve = TRUE, ![d].dissenter = "NotPermitted"]
  /\ UNCHANGED <<clientVars, responses, nextID, context, candidates, active, stage,
                 claim, outcome>>

LEMMA ApproveAsks ==
  ASSUME TypeOK, NEW d \in Disk, ClaimApprove(d) \/ RequestApprove(d)
  PROVE  /\ CanDispatch(d) /\ ~request[d].approve
         /\ request[d].kind \in ApprovalKind \cup {"Claim"}
         /\ Consults(d) \/ RefusesClaim(d)
<1>1. /\ CanDispatch(d) /\ ~request[d].approve
      /\ request[d].kind \in ApprovalKind \cup {"Claim"}
  BY DEF ClaimApprove, RequestApprove
<1>2. CASE RequestApprove(d)
  <2> DEFINE V == {c \in Registered(request[d].kind) : Reachable(c, d, {})}
  <2>1. V \subseteq Callback /\ \A c \in V : c.kind = request[d].kind
    BY DEF Registered, TypeOK
  <2>2. IsFiniteSet(V) /\ V \subseteq AnyCallback
    BY <2>1, ConstantAssumption, FS_Subset DEF AnyCallback
  <2>3. request[d].kind # "Claim" /\ Consult(d, V)
    BY <1>2 DEF RequestApprove, ApprovalKind
  <2>4. Consults(d)
    BY <2>1, <2>2, <2>3 DEF Consults
  <2>5. QED
    BY <1>1, <2>4
<1>3. CASE ClaimApprove(d)
  <2> DEFINE c == ReleaseCallback(claim[d].session)
             V == IF Reachable(c, d, {}) THEN {c} ELSE {}
  <2>1. CASE claim[d] = NoClaim /\ Consult(d, {})
    BY <1>1, <2>1, FS_EmptySet DEF Consults
  <2>2. CASE claim[d] # NoClaim /\ claim[d].release /\ Consult(d, V)
    <3>1. claim[d].session \in Session
      <4>1. claim[d] \in ClaimType
        BY DEF TypeOK
      <4>2. QED
        BY <2>2, <4>1 DEF ClaimType
    <3>2. V \subseteq {c} /\ c \in AnyCallback /\ c.kind = "Claim"
      BY <3>1 DEF AnyCallback, ReleaseCallback
    <3>3. IsFiniteSet(V)
      BY <3>2, FS_Singleton, FS_Subset
    <3>4. request[d].kind = "Claim"
      BY <1>3 DEF ClaimApprove
    <3> HIDE DEF V, c
    <3>5. Consults(d)
      BY <2>2, <3>2, <3>3, <3>4 DEF Consults
    <3>6. QED
      BY <1>1, <3>5
  <2>3. CASE RefusesClaim(d)
    BY <1>1, <2>3
  <2>4. QED
    BY <1>3, <2>1, <2>2, <2>3 DEF ClaimApprove, RefusesClaim
<1>4. QED
  BY <1>2, <1>3

LEMMA DeliverOwn ==
  ASSUME NEW q, \A s \in Session : q[s] \subseteq queue[s],
         queue' = Deliver(q, Asked),
         \A s \in Session : held'[s] \subseteq held[s]
  PROVE  OwnNumbers
BY DEF Deliver, OwnNumbers

\* Every step: what is asked is new and goes to whom it is put to.
LEMMA StepNumbers == IInv /\ [Next]_vars => NumbersAreNew /\ OwnNumbers
<1> SUFFICES ASSUME IInv, [Next]_vars PROVE NumbersAreNew /\ OwnNumbers
  OBVIOUS
<1> DEFINE Good == NumbersAreNew /\ OwnNumbers
<1>1. TypeOK
  BY DEF IInv
<1>2. \A s \in Session : queue[s] \subseteq queue[s] /\ held[s] \subseteq held[s]
  OBVIOUS
<1>3. ASSUME UNCHANGED <<responses, nextID>> PROVE NumbersAreNew
  BY <1>1, <1>3 DEF NumbersAreNew, Asked, TypeOK
<1>4. ASSUME UNCHANGED <<queue, held>> PROVE OwnNumbers
  BY <1>4 DEF OwnNumbers
<1>5. ASSUME NEW d \in Disk, StagePeek(d) PROVE Good
  <2>1. held' = held
    BY <1>5 DEF StagePeek
  <2>2. PICK cands \in PeekOrders(Registered("Peek")) :
          LET first == FirstReachable(cands, d, {})
              new   == [id |-> nextID, cb |-> cands[first], disk |-> d]
          IN IF first = 0
             THEN UNCHANGED <<responses, queue, nextID, context, candidates, active>>
             ELSE /\ responses' = responses \cup {new}
                  /\ queue'   = Deliver(queue, Asked)
                  /\ nextID'  = nextID + 1
    BY <1>5, Zenon DEF StagePeek
  <2> DEFINE first == FirstReachable(cands, d, {})
             new   == [id |-> nextID, cb |-> cands[first], disk |-> d]
  <2>3. CASE first = 0
    BY <1>3, <1>4, <2>1, <2>2, <2>3
  <2>4. CASE first # 0
    <3>1. /\ responses' = responses \cup {new} /\ new.id = nextID
          /\ queue'   = Deliver(queue, Asked)
          /\ nextID'  = nextID + 1
      BY <2>2, <2>4
    <3> HIDE DEF new
    <3>2. NumbersAreNew
      BY <1>1, <3>1 DEF NumbersAreNew, Asked, TypeOK
    <3>3. QED
      BY <1>2, <2>1, <3>1, <3>2, DeliverOwn
  <2>5. QED
    BY <2>3, <2>4
<1>6. ASSUME NEW d \in Disk, ClaimApprove(d) \/ RequestApprove(d) PROVE Good
  <2>1. CASE Consults(d)
    <3>1. PICK V \in SUBSET AnyCallback : IsFiniteSet(V) /\ Consult(d, V)
      BY <2>1 DEF Consults
    <3>2. NumbersAreNew
      BY <3>1, AskedByConsult
    <3>3. queue' = Deliver(queue, Asked) /\ held' = held
      BY <3>1 DEF Consult
    <3>4. QED
      BY <1>2, <3>2, <3>3, DeliverOwn
  <2>2. CASE RefusesClaim(d)
    BY <1>3, <1>4, <2>2 DEF RefusesClaim, clientVars
  <2>3. QED
    BY <1>1, <1>6, <2>1, <2>2, ApproveAsks
<1>7. ASSUME NEW d \in Disk,
             StageAppear(d) \/ RequestRefused(d) \/ ClaimClaim(d) \/ RequestPerform(d)
      PROVE  Good
  BY <1>3, <1>4, <1>7 DEF StageAppear, RequestRefused, ClaimClaim, RequestPerform, clientVars
<1>8. ASSUME NEW d \in Disk, MediaDisappeared(d) PROVE Good
  <2>1. /\ Sweep({r \in responses : r.disk = d}, context, NobodyFlagged)
        /\ queue' = Deliver(queue, Asked) /\ held' = held
    BY <1>8 DEF MediaDisappeared
  <2>2. NumbersAreNew
    BY <2>1, AskedBySweep
  <2>3. QED
    BY <1>2, <2>1, <2>2, DeliverOwn
<1>9. ASSUME NEW s \in Session, NEW c \in Callback, UnregisterCallback(s, c.tag) PROVE Good
  <2> DEFINE R == {r \in responses : r.cb.session = s /\ r.cb.tag = c.tag}
  <2>1. /\ Sweep(R, context, NobodyFlagged)
        /\ queue' = [Deliver(queue, Asked) EXCEPT ![s] = {r \in @ : r.cb.tag # c.tag}]
        /\ held' = held
    BY <1>9 DEF UnregisterCallback
  <2>2. NumbersAreNew
    BY <2>1, AskedBySweep
  <2>3. \A t \in Session : queue'[t] \subseteq Deliver(queue, Asked)[t]
    BY <2>1 DEF Deliver
  <2>4. OwnNumbers
    BY <2>1, <2>3 DEF OwnNumbers, Deliver
  <2>5. QED
    BY <2>2, <2>4
<1>10. ASSUME NEW s \in Session, CopyCallbackQueue(s) PROVE Good
  <2>1. NumbersAreNew
    BY <1>3, <1>10 DEF CopyCallbackQueue
  <2>2. OwnNumbers
    BY <1>1, <1>10 DEF CopyCallbackQueue, OwnNumbers, TypeOK
  <2>3. QED
    BY <2>1, <2>2
<1>11. ASSUME NEW s \in Session, NEW id \in held[s], NEW dissent \in BOOLEAN,
              QueueResponse(s, id, dissent)
       PROVE  Good
  <2>1. PICK ctx : Sweep({r \in responses : r.id = id}, ctx, NobodyFlagged)
    BY <1>11 DEF QueueResponse
  <2>2. queue' = Deliver(queue, Asked) /\ held' = [held EXCEPT ![s] = @ \ {id}]
    BY <1>11 DEF QueueResponse
  <2>3. NumbersAreNew
    BY <2>1, AskedBySweep
  <2>4. \A t \in Session : held'[t] \subseteq held[t]
    BY <1>1, <2>2 DEF TypeOK
  <2>5. QED
    BY <1>2, <2>2, <2>3, <2>4, DeliverOwn
<1>12. ASSUME NEW s \in Session, SessionRelease(s) PROVE Good
  <2> DEFINE q == [queue EXCEPT ![s] = {}]
  <2>1. /\ Sweep(OwedBy(s), context, NobodyFlagged)
        /\ queue' = Deliver(q, Asked) /\ held' = [held EXCEPT ![s] = {}]
    BY <1>12 DEF SessionRelease
  <2>2. NumbersAreNew
    BY <2>1, AskedBySweep DEF OwedBy
  <2>3. \A t \in Session : q[t] \subseteq queue[t] /\ held'[t] \subseteq held[t]
    BY <1>1, <2>1 DEF TypeOK
  <2>4. QED
    BY <2>1, <2>2, <2>3, DeliverOwn
<1>13. ASSUME NEW k, ResponseTimer(k) PROVE Good
  <2>1. PICK flagged : Sweep({r \in responses : r.id <= k}, context, flagged)
    BY <1>13 DEF ResponseTimer
  <2>2. queue' = Deliver(queue, Asked) /\ held' = held
    BY <1>13 DEF ResponseTimer
  <2>3. NumbersAreNew
    BY <2>1, AskedBySweep
  <2>4. QED
    BY <1>2, <2>2, <2>3, DeliverOwn
<1>14. ASSUME NEW s \in Session, NEW d \in Disk, NEW kind \in RequestKind,
              NEW release \in BOOLEAN, QueueRequest(s, d, kind, release)
       PROVE  Good
  BY <1>3, <1>4, <1>14 DEF QueueRequest, clientVars
<1>15. ASSUME NEW s \in Session, NEW c \in Callback, RegisterCallback(s, c) PROVE Good
  BY <1>3, <1>4, <1>15 DEF RegisterCallback
<1>16. ASSUME NEW s \in Session, NEW d \in Disk, Unclaim(s, d) PROVE Good
  BY <1>3, <1>4, <1>16 DEF Unclaim, clientVars
<1>17. CASE UNCHANGED vars
  BY <1>3, <1>4, <1>17 DEF vars, clientVars
<1>18. ASSUME NEW d \in Disk, DiskNext(d) PROVE Good
  BY <1>5, <1>6, <1>7, <1>18 DEF DiskNext
<1>19. ASSUME NEW s \in Session, ClientNext(s) PROVE Good
  BY <1>9, <1>10, <1>11, <1>12, <1>14, <1>15, <1>16, <1>19 DEF ClientNext
<1>20. QED
  BY <1>8, <1>13, <1>17, <1>18, <1>19 DEF Next

Numbers == NumbersAreOld /\ AnswersOwnQuestion

LEMMA NextNumbers == IInv /\ Numbers /\ [Next]_vars => Numbers'
<1> SUFFICES ASSUME IInv, Numbers, [Next]_vars PROVE Numbers'
  OBVIOUS
<1>1. NumbersAreNew /\ OwnNumbers
  BY StepNumbers
<1>2. TypeOK /\ NumbersAreOld /\ AnswersOwnQuestion
  BY DEF IInv, Numbers
<1>3. \A r \in responses' : r \in responses \/ r \in Asked
  BY DEF Asked
<1>4. TypeOK'
  BY NextIInv DEF IInv
<1>5. /\ \A r \in responses \cup responses' : r.id \in Nat
      /\ \A s \in Session : /\ \A r \in queue[s] \cup queue'[s] : r.id \in Nat
                            /\ \A i \in held[s] \cup held'[s] : i \in Nat
  BY <1>2, <1>4 DEF TypeOK, Question
<1>6. NumbersAreOld'
  <2>1. \A r \in responses' : r.id < nextID'
    BY <1>1, <1>2, <1>3, <1>5 DEF NumbersAreNew, NumbersAreOld
  <2>2. ASSUME NEW s \in Session, NEW r \in queue'[s] PROVE r.id < nextID'
    BY <1>1, <1>2, <1>5 DEF NumbersAreNew, NumbersAreOld, OwnNumbers
  <2>3. ASSUME NEW s \in Session, NEW i \in held'[s] PROVE i < nextID'
    BY <1>1, <1>2, <1>5 DEF NumbersAreNew, NumbersAreOld, OwnNumbers
  <2>4. QED
    BY <2>1, <2>2, <2>3 DEF NumbersAreOld
<1>7. ASSUME NEW r \in responses', NEW q \in responses', r.id = q.id
      PROVE  r = q
  <2>1. CASE r \in responses /\ q \in responses
    BY <1>2, <1>7, <2>1 DEF AnswersOwnQuestion
  <2>2. CASE r \in Asked /\ q \in Asked
    BY <1>1, <1>7, <2>2 DEF NumbersAreNew
  <2>3. ~(r \in responses /\ q \in Asked) /\ ~(q \in responses /\ r \in Asked)
    BY <1>1, <1>2, <1>5, <1>7 DEF NumbersAreNew, NumbersAreOld
  <2>4. QED
    BY <1>3, <2>1, <2>2, <2>3
<1>8. ASSUME NEW s \in Session, NEW r \in responses',
             r.id \in held'[s] \cup {q.id : q \in queue'[s]}
      PROVE  r.cb.session = s
  <2>1. CASE r.id \in held[s] \cup {q.id : q \in queue[s]}
    <3>1. r.id < nextID
      BY <1>2, <2>1 DEF NumbersAreOld
    <3>2. r \notin Asked
      BY <1>1, <1>5, <3>1 DEF NumbersAreNew
    <3>3. QED
      BY <1>2, <1>3, <2>1, <3>2 DEF AnswersOwnQuestion
  <2>2. CASE \E q \in Asked : q.id = r.id /\ q.cb.session = s
    BY <1>7, <2>2 DEF Asked
  <2>3. QED
    BY <1>1, <1>8, <2>1, <2>2 DEF OwnNumbers
<1>9. AnswersOwnQuestion'
  BY <1>7, <1>8 DEF AnswersOwnQuestion
<1>10. QED
  BY <1>6, <1>9 DEF Numbers

LEMMA InitNumbers == Init => Numbers
BY DEF Init, Numbers, NumbersAreOld, AnswersOwnQuestion

\* Answers are matched by their number alone, and yet a client can only answer
\* questions that were put to it.
THEOREM AnswersAreOwn == Spec => []AnswersOwnQuestion
<1>1. Spec => [](IInv /\ Numbers)
  BY Invariance, InitNumbers, NextNumbers, PTL DEF Spec
<1>2. QED
  BY <1>1, PTL DEF Numbers

-----------------------------------------------------------------------------
(* Ballots and claims                                                      *)

\* A request that is queued, and still has a callback, is of a live session.
RequesterIsAlive ==
  \A d \in Disk : request[d].session # None => session[request[d].session] = "open"

\* Only a disk that was announced holds a ballot; one that is gone has no request.
ApprovedIsUp ==
  \A d \in Disk :
    /\ request[d].approve => stage[d] = "appeared" /\ request[d].kind # "None"
    /\ stage[d] = "gone" => request[d] = NoRequest

\* A claim that could not be released was refused without a vote.
RefusedUnasked ==
  \A d \in Disk : request[d].dissenter = "NotPermitted" => request[d].approve /\ ~active[d]

\* The slot holds a dissenting client or nobody.
ReasonIsSession == \A d \in Disk : context[d].response \in Session \cup {None}

\* Votes are only out for a request that is being decided.
VotesAreOfRequest ==
  \A r \in responses : r.cb.kind # "Peek" => request[r.disk].approve

Ballots == /\ ApprovedIsUp
           /\ RefusedUnasked
           /\ ReasonIsSession
           /\ VotesAreOfRequest

Alive == RequesterIsAlive /\ ClaimantIsAlive

LEMMA InitBallots == Init => Ballots /\ Alive
BY ConstantAssumption
   DEF Init, Ballots, Alive, RequesterIsAlive, ApprovedIsUp, RefusedUnasked, ReasonIsSession,
       VotesAreOfRequest, ClaimantIsAlive, NoRequest, NoContext, NoClaim

\* What a sweep leaves of the consultation about one disk.
SweepResult(R, ctx, d) ==
  /\ \A r \in R : r.disk = d => d \in Completed(R) \/ \E q \in responses \ R : q.disk = d
  /\ d \in Completed(R) => active[d] /\ \A r \in responses \ R : r.disk # d
  /\ d \notin Completed(R) => /\ context'[d] = ctx[d]
                              /\ active'[d] = active[d]
                              /\ Verdicts(R, ctx)[d] = request[d]
  /\ d \in Completed(R) /\ ctx[d].kind # "Peek" =>
       /\ context'[d] = NoContext
       /\ ~active'[d]
       /\ Verdicts(R, ctx)[d] = [request[d] EXCEPT !.dissenter = ctx[d].response]
  /\ d \in Completed(R) /\ ctx[d].kind = "Peek" =>
       /\ context'[d] = ctx[d] \/ context'[d] = NoContext
       /\ Verdicts(R, ctx)[d] = request[d]
  /\ active'[d] => active[d]

LEMMA SweepOutcome ==
  ASSUME IInv, NEW R \in SUBSET responses, NEW ctx \in [Disk -> ContextType],
         NEW flagged, Sweep(R, ctx, flagged), NEW d \in Disk
  PROVE  SweepResult(R, ctx, d)
<1> DEFINE over   == Completed(R)
           pick   == [e \in Disk |-> FirstReachable(candidates[e], e, flagged[e])]
           asking == {e \in over : ctx[e].kind = "Peek" /\ pick[e] # 0}
           done   == over \ asking
<1>2. /\ context' = [e \in Disk |-> IF e \in done THEN NoContext ELSE ctx[e]]
      /\ active'  = [e \in Disk |-> active[e] /\ e \notin done]
  BY DEF Sweep
<1>4. done = over \ asking /\ (d \in asking => d \in over /\ ctx[d].kind = "Peek")
  OBVIOUS
<1> HIDE DEF asking, done
<1>5. active[d] \in BOOLEAN
  BY DEF IInv, TypeOK
<1>6. /\ d \in over => active[d] /\ \A r \in responses \ R : r.disk # d
      /\ \A r \in R : r.disk = d => d \in over \/ \E q \in responses \ R : q.disk = d
  BY DEF IInv, BusyWhileAsked, Completed
<1>7. /\ d \notin over \/ ctx[d].kind = "Peek" => Verdicts(R, ctx)[d] = request[d]
      /\ d \in over /\ ctx[d].kind # "Peek" =>
           Verdicts(R, ctx)[d] = [request[d] EXCEPT !.dissenter = ctx[d].response]
  BY DEF Verdicts
<1> HIDE DEF over
<1>8. /\ d \notin over => context'[d] = ctx[d] /\ active'[d] = active[d]
      /\ d \in over /\ ctx[d].kind # "Peek" => context'[d] = NoContext /\ ~active'[d]
      /\ context'[d] = ctx[d] \/ context'[d] = NoContext
      /\ active'[d] => active[d]
  BY <1>2, <1>4, <1>5
<1>9. QED
  BY <1>6, <1>7, <1>8 DEF over, SweepResult

\* Requests that differ at most in who waits for the reply.
SameBallot(p, q) ==
  p.kind = q.kind /\ p.approve = q.approve /\ p.dissenter = q.dissenter

\* A sweep enters no verdict into a request that is not being decided.
LEMMA UnapprovedKept ==
  ASSUME IInv, VotesAreOfRequest, NEW R \in SUBSET responses, NEW ctx,
         NEW d \in Disk, ctx[d].kind = context[d].kind, ~request[d].approve
  PROVE  Verdicts(R, ctx)[d] = request[d]
<1>1. ASSUME d \in Completed(R) PROVE ctx[d].kind = "Peek"
  <2>1. PICK r \in R : r.disk = d
    BY <1>1 DEF Completed
  <2>2. r.cb.kind = "Peek"
    BY <2>1 DEF VotesAreOfRequest
  <2>3. QED
    BY <2>1, <2>2 DEF IInv, OneTopicPerDisk
<1>2. QED
  BY <1>1 DEF Verdicts

\* A handler whose effect on the consultations is a sweep.
LEMMA SweepBallots ==
  ASSUME IInv, Ballots,
         NEW R \in SUBSET responses,
         NEW ctx \in [Disk -> ContextType],
         \A d \in Disk : /\ ctx[d].kind = context[d].kind
                         /\ ctx[d].response \in Session \cup {None},
         NEW flagged,
         Sweep(R, ctx, flagged),
         \A d \in Disk :
           \/ /\ stage'[d] = stage[d]
              /\ \/ request'[d] = Verdicts(R, ctx)[d]
                 \/ /\ request[d].session # None
                    /\ SameBallot(request'[d], Verdicts(R, ctx)[d])
           \/ /\ stage'[d] = "gone" /\ request'[d] = NoRequest
              /\ \A r \in responses \ R : r.disk # d
  PROVE  Ballots'
<1>1. TypeOK /\ PeekContext
  BY DEF IInv
<1>2. ApprovedIsUp /\ RefusedUnasked /\ ReasonIsSession /\ VotesAreOfRequest
  BY DEF Ballots
<1>3. \A r \in responses' : r \in responses \ R \/ r.cb.kind = "Peek"
  BY SweepFacts
<1>4. \A r \in responses : r.disk \in Disk
  BY <1>1 DEF TypeOK, Question
<1>5. ASSUME NEW d \in Disk
      PROVE  /\ request'[d].approve => stage'[d] = "appeared" /\ request'[d].kind # "None"
             /\ stage'[d] = "gone" => request'[d] = NoRequest
             /\ request'[d].dissenter = "NotPermitted" => request'[d].approve /\ ~active'[d]
             /\ context'[d].response \in Session \cup {None}
             /\ request[d].approve => \/ request'[d].approve
                                      \/ \A r \in responses \ R : r.disk # d
  <2> DEFINE v == Verdicts(R, ctx)[d]
  <2>1. SweepResult(R, ctx, d)
    BY SweepOutcome
  <2>2. request[d] \in RequestType
    BY <1>1 DEF TypeOK, RequestType
  <2>3. /\ v.approve = request[d].approve /\ v.kind = request[d].kind
        /\ \/ v.dissenter = request[d].dissenter
           \/ /\ v.dissenter = ctx[d].response /\ ~active'[d] /\ active[d]
    BY <2>1, <2>2 DEF RequestType, SweepResult
  <2>4. context'[d].response \in Session \cup {None}
    BY <2>1 DEF NoContext, SweepResult
  <2>5. CASE /\ stage'[d] = "gone" /\ request'[d] = NoRequest
             /\ \A r \in responses \ R : r.disk # d
    <3>1. ~request'[d].approve /\ request'[d].dissenter = None
      BY <2>5 DEF NoRequest
    <3>2. QED
      BY <2>4, <2>5, <3>1, ConstantAssumption
  <2>6. CASE /\ stage'[d] = stage[d]
             /\ \/ request'[d] = v
                \/ request[d].session # None /\ SameBallot(request'[d], v)
    <3>1. /\ request'[d].kind = request[d].kind /\ request'[d].approve = request[d].approve
          /\ request'[d].dissenter = v.dissenter
      BY <2>3, <2>6 DEF SameBallot
    <3>2. /\ request[d].approve => stage[d] = "appeared" /\ request[d].kind # "None"
          /\ stage[d] = "gone" => request[d] = NoRequest
          /\ request[d].dissenter = "NotPermitted" => request[d].approve /\ ~active[d]
      BY <1>2 DEF ApprovedIsUp, RefusedUnasked
    <3>4. request'[d].dissenter = "NotPermitted" => request'[d].approve /\ ~active'[d]
      BY <2>1, <2>3, <3>1, <3>2, ConstantAssumption DEF SweepResult
    <3>5. stage[d] = "gone" => request'[d] = NoRequest
      <4>1. request[d] = NoRequest => ~request[d].approve /\ request[d].session = None
        BY DEF NoRequest
      <4>2. ~request[d].approve => v = request[d]
        BY <1>2, UnapprovedKept
      <4>3. QED
        BY <2>6, <3>2, <4>1, <4>2
    <3>6. QED
      BY <2>4, <2>6, <3>1, <3>2, <3>4, <3>5
  <2>7. QED
    BY <2>5, <2>6
<1>6. VotesAreOfRequest'
  BY <1>2, <1>3, <1>4, <1>5 DEF VotesAreOfRequest
<1>7. QED
  BY <1>5, <1>6 DEF Ballots, ApprovedIsUp, RefusedUnasked, ReasonIsSession

LEMMA AliveWhenSame ==
  ASSUME Alive, session' = session,
         \A d \in Disk : /\ stage'[d] # "gone" => stage[d] # "gone"
                         /\ \/ request'[d].session \in {request[d].session, None}
                            \/ session[request'[d].session] = "open"
                         /\ \/ claim'[d] \in {claim[d], NoClaim}
                            \/ session[claim'[d].session] = "open"
  PROVE  Alive'
BY DEF Alive, RequesterIsAlive, ClaimantIsAlive, NoClaim

LEMMA VerdictSession ==
  ASSUME TypeOK, NEW R, NEW ctx, NEW d \in Disk
  PROVE  Verdicts(R, ctx)[d].session = request[d].session
<1>1. request[d] \in RequestType
  BY DEF TypeOK, RequestType
<1>2. QED
  BY <1>1 DEF Verdicts, RequestType

\* The handlers that take questions off the list.
SweepNext ==
  \/ \E d \in Disk : MediaDisappeared(d)
  \/ \E s \in Session :
       \/ \E c \in Callback : UnregisterCallback(s, c.tag)
       \/ \E id \in held[s], dissent \in BOOLEAN : QueueResponse(s, id, dissent)
       \/ SessionRelease(s)
  \/ \E r \in responses : ResponseTimer(r.id)

LEMMA SweepNextBallots == IInv /\ Ballots /\ Alive /\ SweepNext => Ballots' /\ Alive'
<1> SUFFICES ASSUME IInv, Ballots, Alive, SweepNext PROVE Ballots' /\ Alive'
  OBVIOUS
<1>1. TypeOK /\ context \in [Disk -> ContextType]
  BY ContextTyped DEF IInv
<1>2. \A d \in Disk : /\ context[d].kind = context[d].kind
                      /\ context[d].response \in Session \cup {None}
  BY DEF Ballots, ReasonIsSession
<1>3. ASSUME NEW d \in Disk, MediaDisappeared(d) PROVE Ballots' /\ Alive'
  <2> DEFINE R == {r \in responses : r.disk = d}
  <2>1. /\ Sweep(R, context, NobodyFlagged)
        /\ request' = [Verdicts(R, context) EXCEPT ![d] = NoRequest]
        /\ stage' = [stage EXCEPT ![d] = "gone"]
        /\ claim' = claim /\ session' = session
    BY <1>3 DEF MediaDisappeared
  <2>2. DOMAIN Verdicts(R, context) = Disk /\ stage \in [Disk -> Stage]
    BY <1>1 DEF Verdicts, TypeOK
  <2>3. \A e \in Disk : IF e = d THEN request'[e] = NoRequest /\ stage'[e] = "gone"
                        ELSE request'[e] = Verdicts(R, context)[e] /\ stage'[e] = stage[e]
    BY <2>1, <2>2
  <2>4. \A e \in Disk :
          \/ stage'[e] = stage[e] /\ request'[e] = Verdicts(R, context)[e]
          \/ /\ stage'[e] = "gone" /\ request'[e] = NoRequest
             /\ \A r \in responses \ R : r.disk # e
    BY <2>3
  <2>5. Ballots'
    <3>1. R \in SUBSET responses
      OBVIOUS
    <3> HIDE DEF R
    <3>2. QED
      BY <1>1, <1>2, <2>1, <2>4, <3>1, SweepBallots
  <2>6. Alive'
    BY <1>1, <2>1, <2>3, VerdictSession, AliveWhenSame DEF NoRequest
  <2>7. QED
    BY <2>5, <2>6
<1>4. ASSUME NEW R \in SUBSET responses, NEW flagged, Sweep(R, context, flagged),
             request' = Verdicts(R, context), UNCHANGED <<session, stage, claim>>
      PROVE  Ballots' /\ Alive'
  <2>1. Ballots'
    BY <1>1, <1>2, <1>4, SweepBallots
  <2>2. Alive'
    BY <1>1, <1>4, VerdictSession, AliveWhenSame
  <2>3. QED
    BY <2>1, <2>2
<1>5. ASSUME NEW s \in Session, NEW c \in Callback, UnregisterCallback(s, c.tag)
      PROVE  Ballots' /\ Alive'
  BY <1>4, <1>5 DEF UnregisterCallback
<1>6. ASSUME NEW k, ResponseTimer(k) PROVE Ballots' /\ Alive'
  BY <1>4, <1>6 DEF ResponseTimer
<1>7. ASSUME NEW s \in Session, NEW id, NEW dissent \in BOOLEAN,
             QueueResponse(s, id, dissent)
      PROVE  Ballots' /\ Alive'
  <2> DEFINE R   == {r \in responses : r.id = id}
             counts(d) == /\ dissent
                          /\ \E r \in R : r.disk = d /\ r.cb.kind # "Peek"
                          /\ context[d].response = None
             ctx == [d \in Disk |-> IF counts(d) THEN [context[d] EXCEPT !.response = s]
                                    ELSE context[d]]
  <2>1. /\ Sweep(R, ctx, NobodyFlagged)
        /\ request' = Verdicts(R, ctx)
        /\ UNCHANGED <<session, stage, claim>>
    BY <1>7 DEF QueueResponse
  <2>2. ctx \in [Disk -> ContextType] /\ \A d \in Disk : ctx[d].kind = context[d].kind
    BY <1>1 DEF ContextType, Dissenter
  <2>3. \A d \in Disk : ctx[d].response \in Session \cup {None}
    BY <1>1, <1>2 DEF ContextType
  <2> HIDE DEF ctx
  <2>4. Ballots'
    BY <2>1, <2>2, <2>3, SweepBallots
  <2>5. Alive'
    BY <1>1, <2>1, VerdictSession, AliveWhenSame
  <2>6. QED
    BY <2>4, <2>5
<1>8. ASSUME NEW s \in Session, SessionRelease(s) PROVE Ballots' /\ Alive'
  <2> DEFINE R == OwedBy(s)
             verdicts == Verdicts(R, context)
  <2>1. /\ R \in SUBSET responses
        /\ Sweep(R, context, NobodyFlagged)
        /\ request' = [d \in Disk |-> IF request[d].session = s
                                      THEN [verdicts[d] EXCEPT !.session = None]
                                      ELSE verdicts[d]]
        /\ claim' = [d \in Disk |-> IF claim[d].session = s /\ stage[d] # "gone"
                                    THEN NoClaim ELSE claim[d]]
        /\ session' = [session EXCEPT ![s] = "zombie"]
        /\ stage' = stage
    BY <1>8 DEF SessionRelease, OwedBy, RequestsWithout
  <2>2. verdicts \in [Disk -> RequestType]
    BY <1>1, <2>1, SweepFacts
  <2>3. \A d \in Disk : \/ request'[d] = verdicts[d] /\ request[d].session # s
                        \/ /\ request[d].session = s /\ request'[d].session = None
                           /\ SameBallot(request'[d], verdicts[d])
    BY <2>1, <2>2 DEF SameBallot, RequestType
  <2>4. Ballots'
    BY <1>1, <1>2, <2>1, <2>3, ConstantAssumption, SweepBallots
  <2>5. \A d \in Disk : request'[d].session # None =>
          request'[d].session = request[d].session /\ request[d].session # s
    BY <1>1, <2>3, VerdictSession
  <2>6. \A d \in Disk : stage[d] # "gone" /\ claim'[d].session # None =>
          claim'[d] = claim[d] /\ claim[d].session # s
    BY <2>1 DEF NoClaim
  <2>7. \A t \in Session : t # s => session'[t] = session[t]
    BY <1>1, <2>1 DEF TypeOK
  <2>8. \A d \in Disk : /\ request[d].session \in Session \cup {None}
                        /\ claim[d].session \in Session \cup {None}
    BY <1>1 DEF TypeOK, ClaimType, NoClaim
  <2>9. Alive'
    BY <2>1, <2>5, <2>6, <2>7, <2>8 DEF Alive, RequesterIsAlive, ClaimantIsAlive
  <2>10. QED
    BY <2>4, <2>9
<1>9. QED
  BY <1>3, <1>5, <1>6, <1>7, <1>8 DEF SweepNext

\* The start of the peek: the disk has no ballot yet.
LEMMA StagePeekBallots ==
  ASSUME IInv, Ballots, Alive, NEW d \in Disk, StagePeek(d)
  PROVE  Ballots' /\ Alive'
<1>1. TypeOK
  BY DEF IInv
<1>2. /\ stage[d] = "probed" /\ stage' = [stage EXCEPT ![d] = "peeked"]
      /\ UNCHANGED <<session, request, claim>>
  BY DEF StagePeek
<1>3. \A e \in Disk : e # d => stage'[e] = stage[e]
  BY <1>1, <1>2 DEF TypeOK
<1>4. stage'[d] = "peeked"
  BY <1>1, <1>2 DEF TypeOK
<1>5. Alive'
  BY <1>2, <1>3, AliveWhenSame
<1>6. /\ \A r \in responses' : r \in responses \/ r.cb.kind = "Peek"
      /\ \A e \in Disk : /\ e # d => active'[e] = active[e]
                         /\ context'[e].response \in Session \cup {None}
  <2>1. PICK cands \in PeekOrders(Registered("Peek")) :
          LET first == FirstReachable(cands, d, {})
              new   == [id |-> nextID, cb |-> cands[first], disk |-> d]
          IN IF first = 0
             THEN UNCHANGED <<responses, queue, nextID, context, candidates, active>>
             ELSE /\ responses' = responses \cup {new}
                  /\ context' = [context EXCEPT ![d] = [kind |-> "Peek", response |-> None]]
                  /\ active' = [active EXCEPT ![d] = TRUE]
    BY Zenon DEF StagePeek
  <2> DEFINE first == FirstReachable(cands, d, {})
             new   == [id |-> nextID, cb |-> cands[first], disk |-> d]
  <2>2. \A r \in responses' : r \in responses \/ r.cb.kind = "Peek"
    <3>1. first # 0 => responses' = responses \cup {new}
      BY <2>1
    <3>2. first = 0 => responses' = responses
      BY <2>1
    <3>3. first # 0 => new.cb.kind = "Peek"
      <4>1. IInv'
        BY StagePeekPreserves
      <4>2. first # 0 => context'[d].kind = "Peek"
        BY <1>1, <2>1 DEF TypeOK
      <4>3. first # 0 => new \in responses' /\ new.disk = d
        BY <3>1
      <4>4. QED
        BY <4>1, <4>2, <4>3 DEF IInv, OneTopicPerDisk
    <3>4. QED
      BY <3>1, <3>2, <3>3
  <2>3. \A e \in Disk : /\ e # d => active'[e] = active[e]
                        /\ context'[e].response \in Session \cup {None}
    BY <1>1, <2>1 DEF TypeOK, Ballots, ReasonIsSession
  <2>4. QED
    BY <2>2, <2>3
<1>7. VotesAreOfRequest'
  BY <1>2, <1>6 DEF Ballots, VotesAreOfRequest
<1>8. ApprovedIsUp' /\ ReasonIsSession'
  BY <1>2, <1>3, <1>4, <1>6 DEF Ballots, ApprovedIsUp, ReasonIsSession
<1>9. RefusedUnasked'
  <2>1. request[d].dissenter # "NotPermitted"
    BY <1>2 DEF Ballots, ApprovedIsUp, RefusedUnasked
  <2>2. QED
    BY <1>2, <1>6, <2>1 DEF Ballots, RefusedUnasked
<1>10. QED
  BY <1>5, <1>7, <1>8, <1>9 DEF Ballots

\* A ballot is opened.
LEMMA ApproveBallots ==
  ASSUME IInv, Ballots, Alive, NEW d \in Disk, ClaimApprove(d) \/ RequestApprove(d)
  PROVE  Ballots' /\ Alive'
<1>1. TypeOK /\ request \in [Disk -> RequestType] /\ IInv'
  BY ApprovePreserves DEF IInv, TypeOK, RequestType
<1>2. /\ request[d] # NoRequest /\ stage[d] = "appeared" /\ ~active[d] /\ ~request[d].approve
      /\ request[d].kind \in ApprovalKind \cup {"Claim"}
      /\ Consults(d) \/ RefusesClaim(d)
  BY <1>1, ApproveAsks DEF CanDispatch
<1>3. /\ UNCHANGED <<session, stage, claim>>
      /\ \A e \in Disk : e # d => request'[e] = request[e] /\ active'[e] = active[e]
      /\ request'[d].approve
      /\ request'[d].kind = request[d].kind /\ request'[d].session = request[d].session
  BY <1>1, <1>2 DEF Consults, Consult, RefusesClaim, TypeOK, RequestType, clientVars
<1>4. Alive'
  BY <1>3, AliveWhenSame
<1>5. request[d].kind # "None" /\ request[d].dissenter # "NotPermitted"
  BY <1>2 DEF Ballots, RefusedUnasked, ApprovalKind
<1>6. ApprovedIsUp'
  <2>1. request'[d].kind # "None" /\ stage'[d] = "appeared"
    BY <1>2, <1>3, <1>5
  <2>2. QED
    BY <1>3, <2>1 DEF Ballots, ApprovedIsUp
<1>7. CASE Consults(d)
  <2>1. PICK V \in SUBSET AnyCallback : Consult(d, V)
    BY <1>7 DEF Consults
  <2>2. request'[d].dissenter = request[d].dissenter
    BY <1>1, <2>1 DEF Consult, RequestType
  <2>3. RefusedUnasked'
    BY <1>3, <1>5, <2>2 DEF Ballots, RefusedUnasked
  <2>4. ReasonIsSession'
    BY <1>1, <2>1 DEF Consult, Ballots, ReasonIsSession, NoContext, TypeOK
  <2>5. \A r \in responses' : r \in responses \/ r.disk = d
    BY <2>1 DEF Consult
  <2>6. VotesAreOfRequest'
    <3>1. \A r \in responses : r.disk \in Disk
      BY <1>1 DEF TypeOK, Question
    <3>2. QED
      BY <1>3, <2>5, <3>1 DEF Ballots, VotesAreOfRequest
  <2>8. QED
    BY <1>4, <1>6, <2>3, <2>4, <2>6 DEF Ballots
<1>8. CASE RefusesClaim(d)
  <2>1. request'[d].dissenter = "NotPermitted"
    BY <1>1, <1>8 DEF RefusesClaim, RequestType
  <2>2. UNCHANGED <<responses, context, active>>
    BY <1>8 DEF RefusesClaim
  <2>3. RefusedUnasked' /\ ReasonIsSession'
    BY <1>2, <1>3, <2>2 DEF Ballots, RefusedUnasked, ReasonIsSession
  <2>4. VotesAreOfRequest'
    <3>1. \A r \in responses : r.disk \in Disk
      BY <1>1 DEF TypeOK, Question
    <3>2. QED
      BY <1>3, <2>2, <3>1 DEF Ballots, VotesAreOfRequest
  <2>6. QED
    BY <1>4, <1>6, <2>3, <2>4 DEF Ballots
<1>9. QED
  BY <1>2, <1>7, <1>8

\* What leaves the questions and the slots alone.
LEMMA QuietBallots ==
  ASSUME IInv, Ballots, Alive,
         \/ \E d \in Disk : \/ StageAppear(d) \/ RequestRefused(d)
                            \/ ClaimClaim(d) \/ RequestPerform(d)
         \/ \E s \in Session :
              \/ \E d \in Disk, kind \in RequestKind, release \in BOOLEAN :
                   QueueRequest(s, d, kind, release)
              \/ \E c \in Callback : RegisterCallback(s, c)
              \/ CopyCallbackQueue(s)
              \/ \E d \in Disk : Unclaim(s, d)
         \/ UNCHANGED vars
  PROVE  Ballots' /\ Alive'
<1>1. TypeOK /\ BusyWhileAsked /\ \A r \in responses : r.disk \in Disk
  BY DEF IInv, TypeOK, Question
<1>2. /\ ~NoRequest.approve /\ NoRequest.kind = "None" /\ NoRequest.session = None
      /\ NoRequest.dissenter = None /\ None # "NotPermitted" /\ None \notin Session
  BY ConstantAssumption DEF NoRequest
<1>3. ASSUME NEW d \in Disk, ~active[d], UNCHANGED <<responses, context, active, session>>,
             \A e \in Disk : e # d => request'[e] = request[e] /\ claim'[e] = claim[e],
             request'[d] = NoRequest, stage' = stage
      PROVE  Ballots'
  <2>1. \A r \in responses : r.disk # d
    BY <1>1, <1>3 DEF BusyWhileAsked
  <2>2. VotesAreOfRequest'
    BY <1>1, <1>3, <2>1 DEF Ballots, VotesAreOfRequest
  <2>3. ApprovedIsUp' /\ RefusedUnasked' /\ ReasonIsSession'
    BY <1>2, <1>3 DEF Ballots, ApprovedIsUp, RefusedUnasked, ReasonIsSession
  <2>4. QED
    BY <2>2, <2>3 DEF Ballots
<1>4. ASSUME NEW d \in Disk, RequestRefused(d) \/ ClaimClaim(d) \/ RequestPerform(d)
      PROVE  Ballots' /\ Alive'
  <2>1. /\ ~active[d] /\ UNCHANGED <<responses, context, active, session, stage>>
        /\ request' = [request EXCEPT ![d] = NoRequest]
        /\ \/ claim' = claim
           \/ claim' = [claim EXCEPT ![d] =
                IF request[d].session = None THEN NoClaim
                ELSE [session |-> request[d].session, release |-> request[d].release]]
    BY <1>4 DEF RequestRefused, ClaimClaim, RequestPerform, CanDispatch, Reply, clientVars
  <2>2. \A e \in Disk : IF e = d THEN request'[e] = NoRequest ELSE request'[e] = request[e]
    BY <1>1, <2>1 DEF TypeOK
  <2>3. \A e \in Disk : e # d => claim'[e] = claim[e]
    BY <1>1, <2>1 DEF TypeOK
  <2>4. Ballots'
    <3>1. \A e \in Disk : e # d => request'[e] = request[e] /\ claim'[e] = claim[e]
      BY <2>2, <2>3
    <3>2. request'[d] = NoRequest
      BY <2>2
    <3>3. UNCHANGED <<responses, context, active, session>> /\ stage' = stage /\ ~active[d]
      BY <2>1
    <3>4. QED
      BY <1>3, <3>1, <3>2, <3>3
  <2>5. claim'[d] \in {claim[d], NoClaim} \/ session[claim'[d].session] = "open"
    BY <1>1, <2>1 DEF TypeOK, Alive, RequesterIsAlive
  <2>6. Alive'
    BY <1>2, <2>1, <2>2, <2>3, <2>5, AliveWhenSame
  <2>7. QED
    BY <2>4, <2>6
<1>5. ASSUME NEW s \in Session, NEW d \in Disk, NEW kind \in RequestKind,
             NEW release \in BOOLEAN, QueueRequest(s, d, kind, release)
      PROVE  Ballots' /\ Alive'
  <2> DEFINE new == [NoRequest EXCEPT !.kind = kind, !.session = s, !.release = release]
  <2>1. /\ session[s] = "open" /\ stage[d] # "gone" /\ request[d] = NoRequest
        /\ request' = [request EXCEPT ![d] = new]
        /\ UNCHANGED <<responses, context, active, session, stage, claim>>
    BY <1>5 DEF QueueRequest, clientVars
  <2>2. ~new.approve /\ new.dissenter = None /\ new.session = s
    BY DEF NoRequest
  <2>3. \A e \in Disk : IF e = d THEN request'[e] = new ELSE request'[e] = request[e]
    BY <1>1, <2>1 DEF TypeOK
  <2> HIDE DEF new
  <2>4. VotesAreOfRequest'
    <3>1. \A r \in responses : r.cb.kind # "Peek" => r.disk # d
      BY <1>2, <2>1 DEF Ballots, VotesAreOfRequest
    <3>2. QED
      BY <1>1, <2>1, <2>3, <3>1 DEF Ballots, VotesAreOfRequest
  <2>5. ApprovedIsUp' /\ RefusedUnasked' /\ ReasonIsSession'
    BY <1>2, <2>1, <2>2, <2>3
       DEF Ballots, ApprovedIsUp, RefusedUnasked, ReasonIsSession
  <2>6. Alive'
    BY <2>1, <2>2, <2>3, AliveWhenSame
  <2>7. QED
    BY <2>4, <2>5, <2>6 DEF Ballots
<1>6. ASSUME NEW s \in Session, NEW d \in Disk, Unclaim(s, d) PROVE Ballots' /\ Alive'
  <2>1. /\ \A e \in Disk : claim'[e] \in {claim[e], NoClaim}
        /\ UNCHANGED <<responses, context, active, session, stage, request>>
    BY <1>1, <1>6 DEF Unclaim, TypeOK, clientVars
  <2>2. Alive'
    BY <2>1, AliveWhenSame
  <2>3. QED
    BY <2>1, <2>2 DEF Ballots, ApprovedIsUp, RefusedUnasked, ReasonIsSession,
                      VotesAreOfRequest
<1>7. ASSUME NEW d \in Disk, StageAppear(d) PROVE Ballots' /\ Alive'
  <2>1. /\ stage[d] = "peeked" /\ stage' = [stage EXCEPT ![d] = "appeared"]
        /\ UNCHANGED <<responses, context, active, session, request, claim>>
    BY <1>7 DEF StageAppear, clientVars
  <2>2. \A e \in Disk : IF e = d THEN stage'[e] = "appeared" ELSE stage'[e] = stage[e]
    BY <1>1, <2>1 DEF TypeOK
  <2>3. Alive'
    BY <2>1, <2>2, AliveWhenSame
  <2>4. QED
    BY <2>1, <2>2, <2>3 DEF Ballots, ApprovedIsUp, RefusedUnasked, ReasonIsSession,
                            VotesAreOfRequest
<1>8. ASSUME UNCHANGED diskVars, UNCHANGED <<responses, session>> PROVE Ballots' /\ Alive'
  BY <1>8 DEF diskVars, Ballots, ApprovedIsUp, RefusedUnasked, ReasonIsSession,
              VotesAreOfRequest, Alive, RequesterIsAlive, ClaimantIsAlive
<1>9. ASSUME \/ \E s \in Session : \/ \E c \in Callback : RegisterCallback(s, c)
                                   \/ CopyCallbackQueue(s)
             \/ UNCHANGED vars
      PROVE  Ballots' /\ Alive'
  BY <1>8, <1>9 DEF RegisterCallback, CopyCallbackQueue, vars, clientVars
<1>10. QED
  BY <1>4, <1>5, <1>6, <1>7, <1>9

LEMMA NextBallots == IInv /\ Ballots /\ Alive /\ [Next]_vars => Ballots' /\ Alive'
<1> SUFFICES ASSUME IInv, Ballots, Alive, [Next]_vars PROVE Ballots' /\ Alive'
  OBVIOUS
<1>1. ASSUME NEW d \in Disk, DiskNext(d) PROVE Ballots' /\ Alive'
  BY <1>1, StagePeekBallots, ApproveBallots, QuietBallots DEF DiskNext
<1>2. ASSUME NEW s \in Session, ClientNext(s) PROVE Ballots' /\ Alive'
  BY <1>2, SweepNextBallots, QuietBallots DEF ClientNext, SweepNext
<1>3. ASSUME \/ \E d \in Disk : MediaDisappeared(d)
             \/ \E r \in responses : ResponseTimer(r.id)
      PROVE  Ballots' /\ Alive'
  BY <1>3, SweepNextBallots DEF SweepNext
<1>4. CASE UNCHANGED vars
  BY <1>4, QuietBallots
<1>5. QED
  BY <1>1, <1>2, <1>3, <1>4 DEF Next

-----------------------------------------------------------------------------
(* What the holders of claims said                                         *)

\* With this the claim may pass on.
Released == {"yes", "late", "unreachable", "withdrawn"}

\* A claim that another session wants: while the disk is busy the holder is asked,
\* once, and has said nothing; after that the request has a dissenter, or the
\* holder let go.
Consented(d) ==
  request[d].kind = "Claim" /\ request[d].approve /\ claim[d] # NoClaim =>
    IF active[d]
    THEN /\ consent[d] = [session |-> claim[d].session, said |-> "nothing"]
         /\ \A r \in responses : r.disk = d => r.cb = ReleaseCallback(claim[d].session)
         /\ \A r, q \in responses : r.disk = d /\ q.disk = d => r = q
    ELSE request[d].dissenter = None =>
           consent[d].session = claim[d].session /\ consent[d].said \in Released

Consents == \A d \in Disk : Consented(d)

LEMMA InitConsents == Init => Consents
BY DEF Init, Consents, Consented, NoRequest

\* A step that does nothing to the consultation about d.
LEMMA ConsentKept ==
  ASSUME NEW d \in Disk, Consented(d),
         \/ ~request'[d].approve
         \/ /\ request'[d] = request[d] /\ claim'[d] \in {claim[d], NoClaim}
            /\ consent'[d] = consent[d] /\ active'[d] = active[d]
            /\ \A r \in responses' : r.disk = d => r \in responses
  PROVE  Consented(d)'
BY DEF Consented

\* A handler that takes the questions R off the list.
LEMMA ConsentSwept ==
  ASSUME IInv, Consents,
         NEW R \in SUBSET responses,
         NEW ctx \in [Disk -> ContextType],
         \A d \in Disk : ctx[d].kind = context[d].kind,
         NEW flagged,
         Sweep(R, ctx, flagged),
         NEW d \in Disk,
         request'[d] = NoRequest \/ SameBallot(request'[d], Verdicts(R, ctx)[d]),
         claim'[d] \in {claim[d], NoClaim},
         consent'[d].session = consent[d].session,
         (\A r \in R : r.disk # d) => consent'[d] = consent[d],
         \A r \in R : r.disk = d /\ r.cb.kind = "Claim" /\ claim'[d] # NoClaim
                      /\ request'[d] # NoRequest
                      => consent'[d].said \in Released \/ ctx[d].response # None
  PROVE  Consented(d)'
<1> DEFINE v == Verdicts(R, ctx)[d]
<1> SUFFICES ASSUME request'[d].kind = "Claim", request'[d].approve, claim'[d] # NoClaim
             PROVE  IF active'[d]
                    THEN /\ consent'[d] = [session |-> claim'[d].session, said |-> "nothing"]
                         /\ \A r \in responses' :
                              r.disk = d => r.cb = ReleaseCallback(claim'[d].session)
                         /\ \A r, q \in responses' : r.disk = d /\ q.disk = d => r = q
                    ELSE request'[d].dissenter = None =>
                           /\ consent'[d].session = claim'[d].session
                           /\ consent'[d].said \in Released
  BY DEF Consented, ReleaseCallback
<1>1. SweepResult(R, ctx, d) /\ TypeOK
  BY SweepOutcome DEF IInv
<1>2. request'[d] # NoRequest /\ SameBallot(request'[d], v) /\ claim'[d] = claim[d]
  BY DEF NoRequest
<1>3. request[d] \in RequestType
  BY <1>1 DEF TypeOK, RequestType
<1>4. v.kind = request[d].kind /\ v.approve = request[d].approve
  BY <1>1, <1>3 DEF SweepResult, RequestType
<1>5. /\ request[d].kind = "Claim" /\ request[d].approve /\ claim[d] # NoClaim
      /\ request'[d].dissenter = v.dissenter
  BY <1>2, <1>4 DEF SameBallot
<1>6. CASE active[d]
  <2>1. /\ consent[d] = [session |-> claim[d].session, said |-> "nothing"]
        /\ \A r \in responses : r.disk = d => r.cb = ReleaseCallback(claim[d].session)
        /\ \A r, q \in responses : r.disk = d /\ q.disk = d => r = q
    BY <1>5, <1>6 DEF Consents, Consented
  <2>2. PICK p \in responses : p.disk = d
    BY <1>6 DEF IInv, BusyWhileAsked
  <2>3. p.cb.kind = "Claim"
    BY <2>1, <2>2 DEF ReleaseCallback
  <2>4. ctx[d].kind = "Claim"
    BY <2>2, <2>3 DEF IInv, OneTopicPerDisk
  <2>5. CASE p \in R
    <3>1. d \in Completed(R)
      BY <1>1, <2>1, <2>2, <2>5 DEF SweepResult
    <3>2. ~active'[d] /\ v.dissenter = ctx[d].response
      BY <1>1, <1>3, <2>4, <3>1 DEF SweepResult, RequestType
    <3>3. consent'[d].said \in Released \/ ctx[d].response # None
      BY <1>2, <2>2, <2>3, <2>5
    <3>4. QED
      BY <1>2, <1>5, <2>1, <3>2, <3>3
  <2>6. CASE p \notin R
    <3>1. \A r \in R : r.disk # d
      BY <2>1, <2>2, <2>6
    <3>2. d \notin Completed(R)
      BY <3>1 DEF Completed
    <3>3. active'[d] /\ context'[d].kind = "Claim" /\ consent'[d] = consent[d]
      BY <1>1, <1>6, <2>4, <3>1, <3>2 DEF SweepResult
    <3>4. OneTopicPerDisk' /\ \A r \in responses' : r \in responses \ R \/ r.cb.kind = "Peek"
      BY SweepFacts
    <3>5. \A r \in responses' : r.disk = d => r \in responses
      BY <3>3, <3>4 DEF OneTopicPerDisk
    <3>6. QED
      BY <1>2, <2>1, <3>3, <3>5
  <2>7. QED
    BY <2>5, <2>6
<1>7. CASE ~active[d]
  <2>1. \A r \in responses : r.disk # d
    BY <1>7 DEF IInv, BusyWhileAsked
  <2>2. d \notin Completed(R) /\ consent'[d] = consent[d]
    BY <2>1 DEF Completed
  <2>3. ~active'[d] /\ v = request[d]
    BY <1>1, <1>7, <2>2 DEF SweepResult
  <2>4. QED
    BY <1>2, <1>5, <1>7, <2>2, <2>3 DEF Consents, Consented
<1>8. QED
  BY <1>6, <1>7

\* What a history entry holds after a step that heard something.
LEMMA HeardOnly ==
  ASSUME TypeOK, NEW R, NEW said \in Said, Heard(R, said), NEW d \in Disk
  PROVE  /\ consent'[d].session = consent[d].session
         /\ (\A r \in R : r.disk # d) => consent'[d] = consent[d]
         /\ (\E r \in R : r.disk = d /\ r.cb.kind = "Claim") => consent'[d].said = said
<1>1. consent[d] \in ConsentType
  BY DEF TypeOK
<1>2. QED
  BY <1>1 DEF Heard, ConsentType

LEMMA SweepNextConsents ==
  IInv /\ Numbers /\ Ballots /\ Consents /\ SweepNext => Consents'
<1> SUFFICES ASSUME IInv, Numbers, Ballots, Consents, SweepNext PROVE Consents'
  OBVIOUS
<1>1. TypeOK /\ context \in [Disk -> ContextType] /\ request \in [Disk -> RequestType]
  BY ContextTyped DEF IInv, TypeOK, RequestType
<1>2. ASSUME NEW d \in Disk, MediaDisappeared(d) PROVE Consents'
  <2> DEFINE R == {r \in responses : r.disk = d}
  <2>1. /\ Sweep(R, context, NobodyFlagged)
        /\ request' = [Verdicts(R, context) EXCEPT ![d] = NoRequest]
        /\ claim' = claim /\ consent' = consent
    BY <1>2 DEF MediaDisappeared
  <2>2. DOMAIN Verdicts(R, context) = Disk
    BY DEF Verdicts
  <2>3. \A e \in Disk : IF e = d THEN request'[e] = NoRequest
                        ELSE request'[e] = Verdicts(R, context)[e]
    BY <2>1, <2>2
  <2>4. R \in SUBSET responses /\ \A r \in R : r.disk = d
    OBVIOUS
  <2> HIDE DEF R
  <2>5. ASSUME NEW e \in Disk PROVE Consented(e)'
    <3>1. request'[e] = NoRequest \/ SameBallot(request'[e], Verdicts(R, context)[e])
      BY <2>3 DEF SameBallot
    <3>2. \A r \in R : r.disk = e => request'[e] = NoRequest
      BY <2>3, <2>4
    <3>3. QED
      BY <1>1, <2>1, <2>4, <3>1, <3>2, ConsentSwept
  <2>6. QED
    BY <2>5 DEF Consents
<1>3. ASSUME NEW R \in SUBSET responses, NEW flagged, Sweep(R, context, flagged),
             NEW said \in Released, Heard(R, said), NEW d \in Disk,
             SameBallot(request'[d], Verdicts(R, context)[d]),
             claim'[d] \in {claim[d], NoClaim}
      PROVE  Consented(d)'
  <2>1. said \in Said
    BY DEF Said, Released
  <2>2. /\ consent'[d].session = consent[d].session
        /\ (\A r \in R : r.disk # d) => consent'[d] = consent[d]
        /\ \A r \in R : r.disk = d /\ r.cb.kind = "Claim" => consent'[d].said \in Released
    BY <1>1, <1>3, <2>1, HeardOnly
  <2>3. QED
    BY <1>1, <1>3, <2>2, ConsentSwept
<1>4. ASSUME NEW R \in SUBSET responses, NEW flagged, Sweep(R, context, flagged),
             NEW said \in Released, Heard(R, said),
             request' = Verdicts(R, context), claim' = claim
      PROVE  Consents'
  BY <1>3, <1>4 DEF Consents, SameBallot
<1>5. ASSUME NEW s \in Session, NEW c \in Callback, UnregisterCallback(s, c.tag)
      PROVE  Consents'
  BY <1>4, <1>5 DEF UnregisterCallback, Released
<1>6. ASSUME NEW k, ResponseTimer(k) PROVE Consents'
  BY <1>4, <1>6 DEF ResponseTimer, Released
<1>7. ASSUME NEW s \in Session, NEW id \in held[s], NEW dissent \in BOOLEAN,
             QueueResponse(s, id, dissent)
      PROVE  Consents'
  <2> DEFINE R   == {r \in responses : r.id = id}
             counts(d) == /\ dissent
                          /\ \E r \in R : r.disk = d /\ r.cb.kind # "Peek"
                          /\ context[d].response = None
             ctx == [d \in Disk |-> IF counts(d) THEN [context[d] EXCEPT !.response = s]
                                    ELSE context[d]]
             said == IF dissent THEN "no" ELSE "yes"
  <2>1. /\ Sweep(R, ctx, NobodyFlagged)
        /\ request' = Verdicts(R, ctx)
        /\ Heard({r \in R : r.cb.session = s}, said)
        /\ claim' = claim
    BY <1>7 DEF QueueResponse
  <2>2. ctx \in [Disk -> ContextType] /\ \A d \in Disk : ctx[d].kind = context[d].kind
    BY <1>1 DEF ContextType, Dissenter
  <2>3. R \in SUBSET responses /\ {r \in R : r.cb.session = s} = R
    BY DEF Numbers, AnswersOwnQuestion
  <2>4. said \in Said /\ (~dissent => said \in Released)
    BY DEF Said, Released
  <2>5. \A d \in Disk : dissent /\ (\E r \in R : r.disk = d /\ r.cb.kind = "Claim")
                        => ctx[d].response # None
    BY <1>1, ConstantAssumption DEF ContextType
  <2> HIDE DEF ctx, R, said
  <2>6. ASSUME NEW d \in Disk PROVE Consented(d)'
    <3>1. /\ consent'[d].session = consent[d].session
          /\ (\A r \in R : r.disk # d) => consent'[d] = consent[d]
          /\ (\E r \in R : r.disk = d /\ r.cb.kind = "Claim") => consent'[d].said = said
      BY <1>1, <2>1, <2>3, <2>4, HeardOnly
    <3>2. \A r \in R : r.disk = d /\ r.cb.kind = "Claim"
                       => consent'[d].said \in Released \/ ctx[d].response # None
      BY <2>4, <2>5, <3>1
    <3>3. SameBallot(request'[d], Verdicts(R, ctx)[d]) /\ claim'[d] = claim[d]
      BY <2>1 DEF SameBallot
    <3>4. QED
      BY <2>1, <2>2, <2>3, <3>1, <3>2, <3>3, ConsentSwept
  <2>7. QED
    BY <2>6 DEF Consents
<1>8. ASSUME NEW s \in Session, SessionRelease(s) PROVE Consents'
  <2> DEFINE R == OwedBy(s)
             verdicts == Verdicts(R, context)
  <2>1. /\ R \in SUBSET responses
        /\ Sweep(R, context, NobodyFlagged)
        /\ Heard(R, "withdrawn") /\ "withdrawn" \in Released
        /\ request' = [d \in Disk |-> IF request[d].session = s
                                      THEN [verdicts[d] EXCEPT !.session = None]
                                      ELSE verdicts[d]]
        /\ \A d \in Disk : claim'[d] \in {claim[d], NoClaim}
    BY <1>8 DEF SessionRelease, OwedBy, RequestsWithout, Released
  <2>2. verdicts \in [Disk -> RequestType]
    BY <1>1, <2>1, SweepFacts
  <2>3. \A d \in Disk : SameBallot(request'[d], verdicts[d])
    BY <2>1, <2>2 DEF SameBallot, RequestType
  <2> HIDE DEF R
  <2>4. \A d \in Disk : Consented(d)'
    BY <1>3, <2>1, <2>3
  <2>5. QED
    BY <2>4 DEF Consents
<1>9. QED
  BY <1>2, <1>5, <1>6, <1>7, <1>8 DEF SweepNext

\* The holder is asked, or it is noted that nobody is.
LEMMA ApproveConsents ==
  ASSUME IInv, Consents, NEW d \in Disk, ClaimApprove(d) \/ RequestApprove(d)
  PROVE  Consents'
<1>1. TypeOK /\ request[d] \in RequestType
  BY DEF IInv, TypeOK, RequestType
<1>2. Consults(d) \/ RefusesClaim(d)
  BY <1>1, ApproveAsks
<1>3. \A r \in responses : r.disk # d
  BY <1>1, ApproveAsks DEF CanDispatch, IInv, BusyWhileAsked
<1>4. \A e \in Disk : e # d => consent'[e] = consent[e]
  BY <1>1 DEF ClaimApprove, RequestApprove, Ask, TypeOK
<1>5. /\ \A e \in Disk : e # d => request'[e] = request[e] /\ active'[e] = active[e]
      /\ claim' = claim
      /\ \A r \in responses' : r \in responses \/ r.disk = d
  BY <1>1, <1>2 DEF Consults, Consult, RefusesClaim, TypeOK
<1>6. \A e \in Disk : e # d => Consented(e)'
  BY <1>4, <1>5, ConsentKept DEF Consents
<1>7. Consented(d)'
  <2>1. CASE RequestApprove(d)
    <3>1. request'[d].kind # "Claim"
      BY <1>1, <2>1 DEF RequestApprove, Consult, ApprovalKind, TypeOK, RequestType
    <3>2. QED
      BY <3>1 DEF Consented
  <2>2. CASE ClaimApprove(d) /\ claim[d] # NoClaim
    <3> DEFINE c == ReleaseCallback(claim[d].session)
               V == IF Reachable(c, d, {}) THEN {c} ELSE {}
    <3>1. consent \in [Disk -> ConsentType]
          /\ c.session = claim[d].session /\ claim' = claim
      BY <1>1, <1>5 DEF TypeOK, ReleaseCallback
    <3>2. CASE /\ Consult(d, V)
               /\ Ask(d, c.session, IF Reachable(c, d, {}) THEN "nothing" ELSE "unreachable")
      <4>1. consent'[d] = [session |-> claim[d].session,
                           said |-> IF Reachable(c, d, {}) THEN "nothing" ELSE "unreachable"]
        BY <3>1, <3>2 DEF Ask
      <4>2. active'[d] = (V # {})
        BY <1>1, <3>2 DEF Consult, TypeOK
      <4>3. PICK f \in Numbering(V) :
              responses' = responses \cup {[id |-> f[b], cb |-> b, disk |-> d] : b \in V}
        BY <3>2 DEF Consult
      <4>4. \A r \in responses' : r.disk = d => r = [id |-> f[c], cb |-> c, disk |-> d]
        BY <1>3, <4>3
      <4>5. c = ReleaseCallback(claim'[d].session)
        BY <3>1
      <4>6. CASE Reachable(c, d, {})
        <5>1. active'[d] /\ consent'[d] = [session |-> claim'[d].session, said |-> "nothing"]
          BY <3>1, <4>1, <4>2, <4>6
        <5> HIDE DEF c
        <5>2. /\ \A r \in responses' : r.disk = d => r.cb = c
              /\ \A r, q \in responses' : r.disk = d /\ q.disk = d => r = q
          BY <4>4
        <5>3. QED
          BY <4>5, <5>1, <5>2 DEF Consented
      <4>7. CASE ~Reachable(c, d, {})
        <5>1. V = {} /\ consent'[d] = [session |-> claim'[d].session, said |-> "unreachable"]
          BY <3>1, <4>1, <4>7
        <5>2. ~active'[d]
          BY <4>2, <5>1
        <5>3. QED
          BY <5>1, <5>2 DEF Consented, Released
      <4>8. QED
        BY <4>6, <4>7
    <3>3. CASE RefusesClaim(d)
      <4>1. request'[d].dissenter = "NotPermitted" /\ active' = active
        BY <1>1, <3>3 DEF RefusesClaim, TypeOK, RequestType
      <4>2. ~active'[d]
        BY <1>1, <4>1, ApproveAsks DEF CanDispatch
      <4>3. QED
        BY <4>1, <4>2, ConstantAssumption DEF Consented
    <3>4. QED
      BY <2>2, <3>2, <3>3 DEF ClaimApprove, RefusesClaim
  <2>3. CASE claim[d] = NoClaim
    BY <1>5, <2>3 DEF Consented
  <2>4. QED
    BY <2>1, <2>2, <2>3
<1>8. QED
  BY <1>6, <1>7 DEF Consents

LEMMA NextConsents == IInv /\ Numbers /\ Ballots /\ Consents /\ [Next]_vars => Consents'
<1> SUFFICES ASSUME IInv, Numbers, Ballots, Consents, [Next]_vars PROVE Consents'
  OBVIOUS
<1>1. TypeOK /\ ~NoRequest.approve
  BY DEF IInv, NoRequest
<1>2. ASSUME NEW d \in Disk, StagePeek(d) PROVE Consents'
  <2>1. UNCHANGED <<request, claim, consent>> /\ stage[d] = "probed"
    BY <1>2 DEF StagePeek
  <2>2. ~request[d].approve
    BY <2>1 DEF Ballots, ApprovedIsUp
  <2>3. PICK cands \in PeekOrders(Registered("Peek")) :
          LET first == FirstReachable(cands, d, {})
              new   == [id |-> nextID, cb |-> cands[first], disk |-> d]
          IN IF first = 0
             THEN UNCHANGED <<responses, queue, nextID, context, candidates, active>>
             ELSE /\ responses' = responses \cup {new}
                  /\ active' = [active EXCEPT ![d] = TRUE]
    BY <1>2, Zenon DEF StagePeek
  <2>4. \A e \in Disk : e # d => /\ active'[e] = active[e]
                                 /\ \A r \in responses' : r.disk = e => r \in responses
    BY <1>1, <2>3 DEF TypeOK
  <2>5. QED
    BY <2>1, <2>2, <2>4, ConsentKept DEF Consents
<1>3. ASSUME NEW d \in Disk, RequestRefused(d) \/ ClaimClaim(d) \/ RequestPerform(d)
      PROVE  Consents'
  <2>1. /\ UNCHANGED <<responses, active, consent>>
        /\ request' = [request EXCEPT ![d] = NoRequest]
        /\ \A e \in Disk : e # d => claim'[e] = claim[e]
    BY <1>1, <1>3 DEF RequestRefused, ClaimClaim, RequestPerform, Reply, TypeOK
  <2>2. ~request'[d].approve /\ \A e \in Disk : e # d => request'[e] = request[e]
    BY <1>1, <2>1 DEF TypeOK
  <2>3. QED
    BY <2>1, <2>2, ConsentKept DEF Consents
<1>4. ASSUME NEW s \in Session, NEW d \in Disk, NEW kind \in RequestKind,
             NEW release \in BOOLEAN, QueueRequest(s, d, kind, release)
      PROVE  Consents'
  <2>1. /\ UNCHANGED <<responses, active, consent, claim>>
        /\ ~request'[d].approve /\ \A e \in Disk : e # d => request'[e] = request[e]
    BY <1>1, <1>4 DEF QueueRequest, TypeOK, NoRequest
  <2>2. QED
    BY <2>1, ConsentKept DEF Consents
<1>5. ASSUME UNCHANGED <<responses, active, consent, request>>,
             \A d \in Disk : claim'[d] \in {claim[d], NoClaim}
      PROVE  Consents'
  BY <1>5, ConsentKept DEF Consents
<1>6. ASSUME \/ \E d \in Disk : StageAppear(d)
             \/ \E s \in Session : \/ \E d \in Disk : Unclaim(s, d)
                                   \/ \E c \in Callback : RegisterCallback(s, c)
                                   \/ CopyCallbackQueue(s)
             \/ UNCHANGED vars
      PROVE  Consents'
  <2>1. UNCHANGED <<responses, active, consent, request>>
    BY <1>6 DEF StageAppear, Unclaim, RegisterCallback, CopyCallbackQueue, vars, diskVars
  <2>2. \A d \in Disk : claim'[d] \in {claim[d], NoClaim}
    BY <1>1, <1>6 DEF StageAppear, Unclaim, RegisterCallback, CopyCallbackQueue, vars,
                      diskVars, TypeOK
  <2>3. QED
    BY <1>5, <2>1, <2>2
<1>7. ASSUME NEW d \in Disk, DiskNext(d) PROVE Consents'
  BY <1>2, <1>3, <1>6, <1>7, ApproveConsents DEF DiskNext
<1>8. ASSUME NEW s \in Session, ClientNext(s) PROVE Consents'
  BY <1>4, <1>6, <1>8, SweepNextConsents DEF ClientNext, SweepNext
<1>9. QED
  BY <1>6, <1>7, <1>8, SweepNextConsents DEF Next, SweepNext

\* The whole invariant of the consultations.
Consultation == IInv /\ Numbers /\ Ballots /\ Alive /\ Consents

\* Numbers, ballots, claimants and their consents stay in order from the first state on.
THEOREM ConsultationInvariance == Spec => []Consultation
<1>1. Init => Consultation
  BY InitIInv, InitNumbers, InitBallots, InitConsents DEF Consultation
<1>2. Consultation /\ [Next]_vars => Consultation'
  BY NextIInv, NextNumbers, NextBallots, NextConsents DEF Consultation
<1>3. QED
  BY <1>1, <1>2, PTL DEF Spec

\* A claim on a disk in the list is held by a live session, whatever order
\* requests, releases of claims and of sessions come in.
THEOREM ClaimantsAreAlive == Spec => []ClaimantIsAlive
BY ConsultationInvariance, PTL DEF Consultation, Alive

\* Which actions touch claims.
LEMMA ClaimChanges ==
  ASSUME TypeOK, [Next]_vars, NEW d \in Disk, claim'[d] # claim[d], claim'[d] # NoClaim
  PROVE  ClaimClaim(d)
<1>1. ASSUME claim' = claim PROVE FALSE
  BY <1>1
<1>2. ASSUME NEW e \in Disk, DiskNext(e) PROVE ClaimClaim(d)
  <2>1. CASE ClaimClaim(e)
    <3>1. e # d => claim'[d] = claim[d]
      BY <2>1 DEF ClaimClaim, TypeOK
    <3>2. QED
      BY <2>1, <3>1
  <2>2. CASE ~ClaimClaim(e)
    <3>1. CASE ClaimApprove(e) \/ RequestApprove(e)
      BY <1>1, <3>1, ApproveAsks DEF Consults, Consult, RefusesClaim
    <3>2. CASE StagePeek(e) \/ StageAppear(e) \/ RequestRefused(e) \/ RequestPerform(e)
      BY <1>1, <3>2 DEF StagePeek, StageAppear, RequestRefused, RequestPerform
    <3>3. QED
      BY <1>2, <2>2, <3>1, <3>2 DEF DiskNext
  <2>3. QED
    BY <2>1, <2>2
<1>3. ASSUME NEW s \in Session, ClientNext(s) PROVE FALSE
  <2>1. CASE \E e \in Disk : Unclaim(s, e)
    BY <2>1 DEF Unclaim, TypeOK
  <2>2. CASE SessionRelease(s)
    BY <2>2 DEF SessionRelease
  <2>3. CASE \/ \E e \in Disk, kind \in RequestKind, release \in BOOLEAN :
                  QueueRequest(s, e, kind, release)
             \/ \E c \in Callback : RegisterCallback(s, c)
             \/ \E c \in Callback : UnregisterCallback(s, c.tag)
             \/ CopyCallbackQueue(s)
             \/ \E id \in held[s], dissent \in BOOLEAN : QueueResponse(s, id, dissent)
    BY <1>1, <2>3 DEF QueueRequest, RegisterCallback, UnregisterCallback,
                      CopyCallbackQueue, QueueResponse, diskVars
  <2>4. QED
    BY <1>3, <2>1, <2>2, <2>3 DEF ClientNext
<1>4. ASSUME \/ \E e \in Disk : MediaDisappeared(e)
             \/ \E r \in responses : ResponseTimer(r.id)
             \/ UNCHANGED vars
      PROVE  FALSE
  BY <1>1, <1>4 DEF MediaDisappeared, ResponseTimer, vars, diskVars
<1>5. QED
  BY <1>2, <1>3, <1>4 DEF Next

\* A claim passes from its holder to another session only after this holder was
\* asked for it in the consultation about this very request and said yes, kept
\* silent until the timer, could not be reached, or took its callback back: no
\* dissent is lost between the check and the step that sets the claim.
THEOREM ClaimsAreAsked == Spec => ClaimNotStolen
<1> DEFINE Asks ==
      \A d \in Disk : claim[d] # NoClaim /\ claim'[d] \notin {claim[d], NoClaim} =>
        /\ consent[d].session = claim[d].session
        /\ consent[d].said \in {"yes", "late", "unreachable", "withdrawn"}
<1>1. Consultation /\ [Next]_vars => Asks
  <2> SUFFICES ASSUME Consultation, [Next]_vars, NEW d \in Disk,
                      claim[d] # NoClaim, claim'[d] # claim[d], claim'[d] # NoClaim
               PROVE  /\ consent[d].session = claim[d].session
                      /\ consent[d].said \in Released
    BY DEF Released
  <2>1. ClaimClaim(d)
    BY ClaimChanges DEF Consultation, IInv
  <2>2. /\ request[d].kind = "Claim" /\ request[d].approve /\ ~active[d]
        /\ request[d].dissenter = None
    BY <2>1 DEF ClaimClaim, CanDispatch
  <2>3. QED
    BY <2>2 DEF Consultation, Consents, Consented
<1>2. [][Asks]_vars => ClaimNotStolen
  BY DEF ClaimNotStolen
<1> HIDE DEF Asks
<1>3. QED
  BY <1>1, <1>2, ConsultationInvariance, PTL DEF Spec

\* A dissent to a question that is still on the list decides the request, be it
\* the first answer or the last.
THEOREM DissentsCount == Spec => DissentCounts
<1> DEFINE Counts ==
      \A s \in Session : \A r \in responses :
         r.id \in held[s] /\ r.cb.kind # "Peek" /\ QueueResponse(s, r.id, TRUE) =>
           IF active'[r.disk] THEN context'[r.disk].response # None
                              ELSE request'[r.disk].dissenter # None
<1>1. Consultation => Counts
  <2> SUFFICES ASSUME Consultation, NEW s \in Session, NEW r \in responses,
                      r.cb.kind # "Peek", QueueResponse(s, r.id, TRUE)
               PROVE  IF active'[r.disk] THEN context'[r.disk].response # None
                      ELSE request'[r.disk].dissenter # None
    OBVIOUS
  <2> DEFINE R == {q \in responses : q.id = r.id}
             d == r.disk
             ctx == [e \in Disk |->
                      IF /\ TRUE
                         /\ \E q \in R : q.disk = e /\ q.cb.kind # "Peek"
                         /\ context[e].response = None
                      THEN [context[e] EXCEPT !.response = s] ELSE context[e]]
  <2>1. Sweep(R, ctx, NobodyFlagged) /\ request' = Verdicts(R, ctx)
    BY DEF QueueResponse
  <2>2. IInv /\ TypeOK /\ context \in [Disk -> ContextType] /\ None \notin Session
    BY ContextTyped, ConstantAssumption DEF Consultation, IInv
  <2>3. d \in Disk /\ request[d] \in RequestType
    BY <2>2 DEF TypeOK, Question, RequestType
  <2>4. ctx \in [Disk -> ContextType] /\ ctx[d].kind = context[d].kind
    BY <2>2, <2>3 DEF ContextType, Dissenter
  <2>5. ctx[d].kind # "Peek" /\ active[d]
    BY <2>2, <2>3, <2>4 DEF IInv, OneTopicPerDisk, BusyWhileAsked
  <2>6. ctx[d].response # None
    BY <2>2, <2>3 DEF ContextType
  <2> HIDE DEF ctx, R, d
  <2>7. SweepResult(R, ctx, d)
    <3>1. R \in SUBSET responses
      BY DEF R
    <3>2. QED
      BY <2>1, <2>2, <2>3, <2>4, <3>1, SweepOutcome
  <2>8. CASE d \in Completed(R)
    <3>1. /\ ~active'[d]
          /\ request'[d] = [request[d] EXCEPT !.dissenter = ctx[d].response]
      BY <2>1, <2>5, <2>7, <2>8 DEF SweepResult
    <3>2. request'[d].dissenter # None
      BY <2>3, <2>6, <3>1 DEF RequestType
    <3>3. QED
      BY <3>1, <3>2 DEF d
  <2>9. CASE d \notin Completed(R)
    <3>1. context'[d] = ctx[d] /\ active'[d] = active[d]
      BY <2>7, <2>9 DEF SweepResult
    <3>2. QED
      BY <2>5, <2>6, <3>1 DEF d
  <2>10. QED
    BY <2>8, <2>9
<1>2. [][Counts]_vars => DissentCounts
  BY DEF DissentCounts
<1> HIDE DEF Counts
<1>3. QED
  BY <1>1, <1>2, ConsultationInvariance, PTL DEF Spec

-----------------------------------------------------------------------------
(* The consultations implement the ballots of DAApproval, for any number of *)
(* disks, sessions and callbacks: the initial states map to initial states, *)
(* and every handler maps to a step of a ballot or to none.                 *)

\* The ballot of a disk as the invariant of the consultations shows it.
BallotShape ==
  \A d \in Disk :
    /\ request[d].approve <=> phaseBar[d] # "idle"
    /\ phaseBar[d] = "voting" <=> waitingBar[d] # {}
    /\ phaseBar[d] \in Approval!Phase
    /\ waitingBar[d] \subseteq Nat
    /\ phaseBar[d] = "idle" => reasonBar[d] = None
    /\ phaseBar[d] = "voting" => /\ active[d] /\ context[d].kind # "Peek"
                                 /\ reasonBar[d] = context[d].response
    /\ phaseBar[d] = "decided" => /\ ~active[d]
                                  /\ reasonBar[d] = request[d].dissenter
    /\ \A r \in responses : r.disk = d /\ phaseBar[d] # "idle" => r.id \in waitingBar[d]

\* The mapping yields functions on the disks.
LEMMA BarFunctions ==
  /\ phaseBar = [d \in Disk |-> phaseBar[d]]
  /\ waitingBar = [d \in Disk |-> waitingBar[d]]
  /\ reasonBar = [d \in Disk |-> reasonBar[d]]
BY DEF phaseBar, waitingBar, reasonBar

LEMMA ShapeOfBallots == Consultation => BallotShape
<1> SUFFICES ASSUME Consultation, NEW d \in Disk
             PROVE  /\ request[d].approve <=> phaseBar[d] # "idle"
                    /\ phaseBar[d] = "voting" <=> waitingBar[d] # {}
                    /\ phaseBar[d] \in Approval!Phase
                    /\ waitingBar[d] \subseteq Nat
                    /\ phaseBar[d] = "idle" => reasonBar[d] = None
                    /\ phaseBar[d] = "voting" => /\ active[d] /\ context[d].kind # "Peek"
                                                 /\ reasonBar[d] = context[d].response
                    /\ phaseBar[d] = "decided" => /\ ~active[d]
                                                  /\ reasonBar[d] = request[d].dissenter
                    /\ \A r \in responses : r.disk = d /\ phaseBar[d] # "idle"
                                            => r.id \in waitingBar[d]
  BY DEF BallotShape
<1>1. IInv /\ TypeOK /\ BusyWhileAsked /\ OneTopicPerDisk /\ PeekContext
  BY DEF Consultation, IInv
<1>2. /\ phaseBar[d] = IF ~request[d].approve THEN "idle"
                       ELSE IF active[d] THEN "voting" ELSE "decided"
      /\ waitingBar[d] = {r.id : r \in {q \in responses : q.disk = d /\ q.cb.kind # "Peek"}}
      /\ reasonBar[d] = IF ~request[d].approve THEN None
                        ELSE IF active[d] THEN context[d].response ELSE request[d].dissenter
  BY DEF phaseBar, waitingBar, reasonBar
<1>3. waitingBar[d] \subseteq Nat
  BY <1>1, <1>2 DEF TypeOK, Question
<1>4. ~request[d].approve => waitingBar[d] = {}
  BY <1>2 DEF Consultation, Ballots, VotesAreOfRequest
<1>5. request[d].approve => /\ context[d].kind # "Peek"
                            /\ \A r \in responses : r.disk = d => r.cb.kind # "Peek"
  BY <1>1 DEF Consultation, Ballots, ApprovedIsUp, PeekContext, OneTopicPerDisk
<1>6. request[d].approve => /\ \A r \in responses : r.disk = d => r.id \in waitingBar[d]
                            /\ active[d] <=> waitingBar[d] # {}
  BY <1>1, <1>2, <1>5 DEF BusyWhileAsked
<1>7. QED
  BY <1>2, <1>3, <1>4, <1>5, <1>6 DEF Approval!Phase

LEMMA InitImplements == Init => Approval!Init
BY DEF Init, Approval!Init, phaseBar, waitingBar, reasonBar, NoRequest

LEMMA PrimedShape == Consultation' => BallotShape'
BY ShapeOfBallots, PTL

LEMMA PrimedFunctions ==
  /\ phaseBar' = [d \in Disk |-> phaseBar'[d]]
  /\ waitingBar' = [d \in Disk |-> waitingBar'[d]]
  /\ reasonBar' = [d \in Disk |-> reasonBar'[d]]
BY DEF phaseBar, waitingBar, reasonBar

-----------------------------------------------------------------------------
(* Handlers that take questions off the list                               *)

\* The ballot of one disk in such a handler: its votes among the questions that
\* are removed are counted, and the last one decides it with the reason in the
\* slot.
LEMMA SweepCounts ==
  ASSUME Consultation, Consultation',
         NEW R \in SUBSET responses,
         NEW ctx \in [Disk -> ContextType],
         \A d \in Disk : ctx[d].kind = context[d].kind,
         NEW flagged,
         Sweep(R, ctx, flagged),
         NEW d \in Disk,
         SameBallot(request'[d], Verdicts(R, ctx)[d])
  PROVE  /\ waitingBar'[d] = waitingBar[d] \ {r.id : r \in R}
         /\ phaseBar'[d] = IF waitingBar[d] # {} /\ waitingBar'[d] = {}
                           THEN "decided" ELSE phaseBar[d]
         /\ reasonBar'[d] = IF phaseBar[d] = "voting" THEN ctx[d].response
                            ELSE reasonBar[d]
<1>1. BallotShape /\ BallotShape' /\ IInv /\ request[d] \in RequestType
  BY ShapeOfBallots, PrimedShape DEF Consultation, IInv, TypeOK, RequestType
<1>2. SweepResult(R, ctx, d)
  BY <1>1, SweepOutcome
<1>3. waitingBar'[d] = waitingBar[d] \ {r.id : r \in R}
  <2>1. \A r \in responses' : r \in responses \ R \/ r.cb.kind = "Peek"
    BY <1>1, SweepFacts
  <2>2. responses \ R \subseteq responses'
    BY DEF Sweep
  <2>3. \A r, q \in responses : r.id = q.id => r = q
    BY DEF Consultation, Numbers, AnswersOwnQuestion
  <2>4. /\ \A i : i \in waitingBar[d] <=>
                    \E r \in responses : r.disk = d /\ r.cb.kind # "Peek" /\ i = r.id
        /\ \A i : i \in waitingBar'[d] <=>
                    \E r \in responses' : r.disk = d /\ r.cb.kind # "Peek" /\ i = r.id
    BY DEF waitingBar
  <2>5. \A i : i \in waitingBar'[d] <=>
                 \E r \in responses \ R : r.disk = d /\ r.cb.kind # "Peek" /\ i = r.id
    BY <2>1, <2>2, <2>4
  <2>6. \A i : i \in waitingBar'[d] <=> i \in waitingBar[d] /\ ~\E r \in R : i = r.id
    BY <2>3, <2>4, <2>5
  <2>7. QED
    BY <2>6
<1> SUFFICES /\ phaseBar'[d] = IF waitingBar[d] # {} /\ waitingBar'[d] = {}
                                THEN "decided" ELSE phaseBar[d]
             /\ reasonBar'[d] = IF phaseBar[d] = "voting" THEN ctx[d].response
                                ELSE reasonBar[d]
  BY <1>3
<1>4. waitingBar'[d] \subseteq waitingBar[d]
  BY <1>3
<1>5. request'[d].approve = request[d].approve
  BY <1>1, <1>2 DEF SweepResult, SameBallot, RequestType
<1>6. CASE ~request[d].approve
  BY <1>1, <1>4, <1>5, <1>6 DEF BallotShape, Approval!Phase
<1>7. CASE request[d].approve /\ waitingBar[d] = {}
  <2>1. /\ phaseBar[d] = "decided" /\ ~active[d] /\ reasonBar[d] = request[d].dissenter
        /\ phaseBar'[d] = "decided" /\ reasonBar'[d] = request'[d].dissenter
    BY <1>1, <1>4, <1>5, <1>7 DEF BallotShape, Approval!Phase
  <2>2. request'[d].dissenter = request[d].dissenter
    BY <1>2, <2>1 DEF SweepResult, SameBallot
  <2>3. QED
    BY <1>7, <2>1, <2>2
<1>8. CASE request[d].approve /\ waitingBar[d] # {}
  <2>1. phaseBar[d] = "voting" /\ active[d] /\ ctx[d].kind # "Peek"
    BY <1>1, <1>8 DEF BallotShape
  <2>2. CASE waitingBar'[d] = {}
    <3>1. phaseBar'[d] = "decided" /\ ~active'[d] /\ reasonBar'[d] = request'[d].dissenter
      BY <1>1, <1>5, <1>8, <2>2 DEF BallotShape, Approval!Phase
    <3>2. Verdicts(R, ctx)[d] = [request[d] EXCEPT !.dissenter = ctx[d].response]
      BY <1>2, <2>1, <3>1 DEF SweepResult
    <3>3. request'[d].dissenter = ctx[d].response
      BY <1>1, <3>2 DEF SameBallot, RequestType
    <3>4. QED
      BY <1>8, <2>1, <2>2, <3>1, <3>3
  <2>3. CASE waitingBar'[d] # {}
    <3>1. phaseBar'[d] = "voting" /\ active'[d] /\ reasonBar'[d] = context'[d].response
      BY <1>1, <2>3 DEF BallotShape
    <3>2. context'[d] = ctx[d]
      BY <1>2, <2>1, <3>1 DEF SweepResult
    <3>3. QED
      BY <2>1, <2>3, <3>1, <3>2
  <2>4. QED
    BY <2>2, <2>3
<1>9. QED
  BY <1>6, <1>7, <1>8

\* Questions that are dropped without an answer excuse their voters.
LEMMA DroppingExcuses ==
  ASSUME Consultation, Consultation',
         NEW R \in SUBSET responses, NEW flagged,
         Sweep(R, context, flagged),
         \A d \in Disk : SameBallot(request'[d], Verdicts(R, context)[d]),
         outcome' = outcome
  PROVE  Approval!Excuse
<1>1. BallotShape /\ context \in [Disk -> ContextType]
  BY ShapeOfBallots, ContextTyped DEF Consultation, IInv
<1>2. \A d \in Disk :
        /\ waitingBar'[d] = waitingBar[d] \ {r.id : r \in R}
        /\ phaseBar'[d] = IF waitingBar[d] # {} /\ waitingBar'[d] = {}
                          THEN "decided" ELSE phaseBar[d]
        /\ reasonBar'[d] = IF phaseBar[d] = "voting" THEN context[d].response
                           ELSE reasonBar[d]
  BY <1>1, SweepCounts
<1>3. \A d \in Disk : waitingBar'[d] \subseteq waitingBar[d] /\ reasonBar'[d] = reasonBar[d]
  BY <1>1, <1>2 DEF BallotShape
<1>4. waitingBar' \in [Disk -> SUBSET UNION {waitingBar[d] : d \in Disk}]
  BY <1>3, PrimedFunctions
<1>5. phaseBar' = [d \in Disk |-> IF waitingBar[d] # {} /\ waitingBar'[d] = {}
                                  THEN "decided" ELSE phaseBar[d]]
  BY <1>2, PrimedFunctions
<1>6. reasonBar' = reasonBar
  BY <1>3, BarFunctions, PrimedFunctions
<1>7. QED
  BY <1>3, <1>4, <1>5, <1>6 DEF Approval!Excuse

\* An answer is a vote, if its question is on the list and not of a peek; the
\* first dissent is kept in the slot until the last vote is in.
LEMMA AnswerVotes ==
  ASSUME Consultation, Consultation', NEW s \in Session, NEW id, NEW dissent \in BOOLEAN,
         QueueResponse(s, id, dissent)
  PROVE  \/ Approval!Excuse
         \/ \E d \in Disk, r \in Session \cup {None} : Approval!Vote(d, r)
<1> DEFINE R   == {r \in responses : r.id = id}
           counts(d) == /\ dissent
                        /\ \E r \in R : r.disk = d /\ r.cb.kind # "Peek"
                        /\ context[d].response = None
           ctx == [d \in Disk |-> IF counts(d) THEN [context[d] EXCEPT !.response = s]
                                  ELSE context[d]]
<1>1. Sweep(R, ctx, NobodyFlagged) /\ request' = Verdicts(R, ctx) /\ outcome' = outcome
  BY DEF QueueResponse
<1>2. BallotShape /\ IInv /\ TypeOK /\ context \in [Disk -> ContextType]
  BY ShapeOfBallots, ContextTyped DEF Consultation, IInv
<1>3. CASE \A r \in R : r.cb.kind = "Peek"
  <2>1. ctx = context
    BY <1>2, <1>3
  <2>2. Sweep(R, context, NobodyFlagged) /\ R \in SUBSET responses
    BY <1>1, <2>1
  <2>3. \A d \in Disk : SameBallot(request'[d], Verdicts(R, context)[d])
    BY <1>1, <2>1 DEF SameBallot
  <2> HIDE DEF R, ctx
  <2>4. QED
    BY <1>1, <2>2, <2>3, DroppingExcuses
<1>4. ASSUME NEW r \in R, r.cb.kind # "Peek"
      PROVE  \E d \in Disk, v \in Session \cup {None} : Approval!Vote(d, v)
  <2> DEFINE d == r.disk
             v == IF dissent THEN s ELSE None
  <2>1. R = {r} /\ r.id = id
    BY DEF Consultation, Numbers, AnswersOwnQuestion
  <2>2. d \in Disk /\ v \in Session \cup {None}
    BY <1>2 DEF TypeOK, Question
  <2>3. ctx \in [Disk -> ContextType] /\ \A e \in Disk : ctx[e].kind = context[e].kind
    BY <1>2 DEF ContextType, Dissenter
  <2>4. \A e \in Disk : IF e = d /\ context[d].response = None THEN ctx[e].response = v
                        ELSE ctx[e].response = context[e].response
    BY <1>2, <1>4, <2>1 DEF ContextType
  <2>5. \A e \in Disk : SameBallot(request'[e], Verdicts(R, ctx)[e])
    BY <1>1 DEF SameBallot
  <2>6. {q.id : q \in R} = {id}
    BY <2>1
  <2>7. R \in SUBSET responses
    OBVIOUS
  <2> HIDE DEF R, ctx
  <2>8. \A e \in Disk :
          /\ waitingBar'[e] = waitingBar[e] \ {id}
          /\ phaseBar'[e] = IF waitingBar[e] # {} /\ waitingBar'[e] = {}
                            THEN "decided" ELSE phaseBar[e]
          /\ reasonBar'[e] = IF phaseBar[e] = "voting" THEN ctx[e].response ELSE reasonBar[e]
    <3> SUFFICES ASSUME NEW e \in Disk
                 PROVE  /\ waitingBar'[e] = waitingBar[e] \ {id}
                        /\ phaseBar'[e] = IF waitingBar[e] # {} /\ waitingBar'[e] = {}
                                          THEN "decided" ELSE phaseBar[e]
                        /\ reasonBar'[e] = IF phaseBar[e] = "voting" THEN ctx[e].response
                                           ELSE reasonBar[e]
      OBVIOUS
    <3>1. /\ waitingBar'[e] = waitingBar[e] \ {q.id : q \in R}
          /\ phaseBar'[e] = IF waitingBar[e] # {} /\ waitingBar'[e] = {}
                            THEN "decided" ELSE phaseBar[e]
          /\ reasonBar'[e] = IF phaseBar[e] = "voting" THEN ctx[e].response
                             ELSE reasonBar[e]
      BY <1>1, <2>3, <2>5, <2>7, SweepCounts
    <3>2. QED
      BY <2>6, <3>1
  <2>9. r \in responses /\ request[d].approve
    BY <1>4, <2>7 DEF Consultation, Ballots, VotesAreOfRequest
  <2>10. id \in waitingBar[d] /\ phaseBar[d] = "voting"
    BY <1>2, <2>1, <2>2, <2>9 DEF BallotShape
  <2>11. \A e \in Disk : e # d => id \notin waitingBar[e]
    <3>1. \A q \in responses : q.id = id => q = r
      BY <2>1, <2>9 DEF Consultation, Numbers, AnswersOwnQuestion
    <3>2. QED
      BY <3>1 DEF waitingBar
  <2>12. \A e \in Disk : e # d => /\ waitingBar'[e] = waitingBar[e]
                                  /\ phaseBar'[e] = phaseBar[e]
                                  /\ reasonBar'[e] = reasonBar[e]
    <3> SUFFICES ASSUME NEW e \in Disk, e # d
                 PROVE  /\ waitingBar'[e] = waitingBar[e]
                        /\ phaseBar'[e] = phaseBar[e]
                        /\ reasonBar'[e] = reasonBar[e]
      OBVIOUS
    <3>1. waitingBar'[e] = waitingBar[e]
      BY <2>8, <2>11
    <3>2. ctx[e].response = context[e].response
      BY <2>4
    <3>3. /\ phaseBar'[e] = IF waitingBar[e] # {} /\ waitingBar'[e] = {}
                            THEN "decided" ELSE phaseBar[e]
          /\ reasonBar'[e] = IF phaseBar[e] = "voting" THEN ctx[e].response
                             ELSE reasonBar[e]
      BY <2>8
    <3>4. QED
      BY <1>2, <3>1, <3>2, <3>3 DEF BallotShape
  <2>13. waitingBar' = [waitingBar EXCEPT ![d] = @ \ {id}]
    BY <2>2, <2>8, <2>12, BarFunctions, PrimedFunctions
  <2>14. phaseBar' = [phaseBar EXCEPT ![d] = IF waitingBar[d] = {id} THEN "decided" ELSE @]
    <3>1. waitingBar'[d] = {} <=> waitingBar[d] = {id}
      BY <2>2, <2>8, <2>10
    <3>2. phaseBar'[d] = IF waitingBar[d] = {id} THEN "decided" ELSE phaseBar[d]
      BY <2>2, <2>8, <2>10, <3>1
    <3>3. QED
      BY <2>2, <2>12, <3>2, BarFunctions, PrimedFunctions
  <2>15. reasonBar' = [reasonBar EXCEPT ![d] = IF @ = None THEN v ELSE @]
    <3>1. reasonBar'[d] = IF reasonBar[d] = None THEN v ELSE reasonBar[d]
      BY <1>2, <2>2, <2>4, <2>8, <2>10 DEF BallotShape
    <3>2. QED
      BY <2>2, <2>12, <3>1, BarFunctions, PrimedFunctions
  <2>16. Approval!Vote(d, v)
    BY <1>1, <2>10, <2>13, <2>14, <2>15 DEF Approval!Vote
  <2>17. QED
    BY <2>2, <2>16
<1>5. QED
  BY <1>3, <1>4

\* A disk that goes away takes its ballot with it; a disk without a request has
\* none, and only its peek is disturbed.
LEMMA DisappearingAbandons ==
  ASSUME Consultation, Consultation', NEW d \in Disk, MediaDisappeared(d)
  PROVE  Approval!Abandon(d) \/ UNCHANGED Approval!vars
<1> DEFINE R == {r \in responses : r.disk = d}
<1>1. /\ Sweep(R, context, NobodyFlagged)
      /\ request' = [Verdicts(R, context) EXCEPT ![d] = NoRequest]
      /\ outcome' = IF request[d].kind = "None" THEN outcome
                    ELSE [outcome EXCEPT ![d] = "abandoned"]
  BY DEF MediaDisappeared
<1>2. /\ BallotShape /\ BallotShape' /\ context \in [Disk -> ContextType]
      /\ IInv /\ R \in SUBSET responses
  BY ShapeOfBallots, PrimedShape, ContextTyped DEF Consultation, IInv
<1>3. \A e \in Disk : e # d => request'[e] = Verdicts(R, context)[e]
  BY <1>1 DEF Verdicts
<1>4. ASSUME NEW e \in Disk, e # d
      PROVE  /\ waitingBar'[e] = waitingBar[e] /\ phaseBar'[e] = phaseBar[e]
             /\ reasonBar'[e] = reasonBar[e]
  <2>1. SameBallot(request'[e], Verdicts(R, context)[e])
    BY <1>3, <1>4 DEF SameBallot
  <2>2. waitingBar[e] \ {r.id : r \in R} = waitingBar[e]
    <3>1. \A r, q \in responses : r.id = q.id => r = q
      BY DEF Consultation, Numbers, AnswersOwnQuestion
    <3>2. QED
      BY <1>4, <3>1 DEF waitingBar
  <2> HIDE DEF R
  <2>3. /\ waitingBar'[e] = waitingBar[e] \ {r.id : r \in R}
        /\ phaseBar'[e] = IF waitingBar[e] # {} /\ waitingBar'[e] = {}
                          THEN "decided" ELSE phaseBar[e]
        /\ reasonBar'[e] = IF phaseBar[e] = "voting" THEN context[e].response
                           ELSE reasonBar[e]
    BY <1>1, <1>2, <2>1, SweepCounts
  <2>4. waitingBar'[e] = waitingBar[e]
    BY <2>2, <2>3
  <2>5. QED
    BY <1>2, <2>3, <2>4 DEF BallotShape
<1>5. ~request'[d].approve
  BY <1>1 DEF Verdicts, NoRequest
<1>6. phaseBar'[d] = "idle" /\ waitingBar'[d] = {} /\ reasonBar'[d] = None
  BY <1>2, <1>5 DEF BallotShape
<1>7. CASE request[d].kind = "None"
  <2>1. ~request[d].approve
    BY <1>7 DEF Consultation, Ballots, ApprovedIsUp
  <2>2. phaseBar[d] = "idle" /\ waitingBar[d] = {} /\ reasonBar[d] = None
    BY <1>2, <2>1 DEF BallotShape
  <2>3. phaseBar' = phaseBar /\ waitingBar' = waitingBar /\ reasonBar' = reasonBar
    BY <1>4, <1>6, <2>2, BarFunctions, PrimedFunctions
  <2>4. QED
    BY <1>1, <1>7, <2>3 DEF Approval!vars
<1>8. CASE request[d].kind # "None"
  <2>1. /\ phaseBar' = [phaseBar EXCEPT ![d] = "idle"]
        /\ waitingBar' = [waitingBar EXCEPT ![d] = {}]
        /\ reasonBar' = [reasonBar EXCEPT ![d] = None]
    BY <1>4, <1>6, BarFunctions, PrimedFunctions
  <2>2. QED
    BY <1>1, <1>8, <2>1 DEF Approval!Abandon
<1>9. QED
  BY <1>7, <1>8

-----------------------------------------------------------------------------
(* The other handlers                                                      *)

\* A request that is put to the vote, or decided at once, opens a ballot.
LEMMA ApproveOpens ==
  ASSUME Consultation, Consultation', NEW d \in Disk, ClaimApprove(d) \/ RequestApprove(d)
  PROVE  Approval!Open(d)
<1>1. /\ BallotShape /\ BallotShape' /\ IInv /\ TypeOK /\ TypeOK'
      /\ request \in [Disk -> RequestType]
  BY ShapeOfBallots, PrimedShape DEF Consultation, IInv, TypeOK, RequestType
<1>2. /\ ~request[d].approve /\ ~active[d]
      /\ Consults(d) \/ RefusesClaim(d)
  BY <1>1, ApproveAsks DEF CanDispatch
<1>3. /\ outcome' = outcome
      /\ \A e \in Disk : e # d => /\ request'[e] = request[e] /\ active'[e] = active[e]
                                  /\ context'[e] = context[e]
      /\ \A r \in responses' : r \in responses \/ r.disk = d
      /\ responses \subseteq responses'
      /\ request'[d].approve
  BY <1>1, <1>2 DEF Consults, Consult, RefusesClaim, TypeOK, RequestType
<1>4. \A e \in Disk : e # d => /\ phaseBar'[e] = phaseBar[e]
                               /\ reasonBar'[e] = reasonBar[e]
                               /\ waitingBar'[e] = waitingBar[e]
  BY <1>3 DEF phaseBar, reasonBar, waitingBar
<1>5. phaseBar[d] = "idle"
  BY <1>1, <1>2 DEF BallotShape
<1>6. phaseBar'[d] = IF waitingBar'[d] = {} THEN "decided" ELSE "voting"
  BY <1>1, <1>3 DEF BallotShape, Approval!Phase
<1>7. reasonBar'[d] \in Session \cup {"NotPermitted"} \cup {None}
  <2>1. /\ context'[d].response \in Dissenter /\ request'[d].dissenter \in Dissenter
    BY <1>1 DEF TypeOK
  <2>2. QED
    BY <2>1 DEF reasonBar, Dissenter
<1>8. reasonBar'[d] # None => waitingBar'[d] = {}
  <2>1. SUFFICES ASSUME waitingBar'[d] # {} PROVE reasonBar'[d] = None
    OBVIOUS
  <2>2. active'[d] /\ reasonBar'[d] = context'[d].response
    BY <1>1, <2>1 DEF BallotShape
  <2>3. CASE Consults(d)
    <3>1. PICK V : Consult(d, V)
      BY <2>3 DEF Consults
    <3>2. context'[d].response = None
      BY <1>1, <3>1 DEF Consult, NoContext, TypeOK
    <3>3. QED
      BY <2>2, <3>2
  <2>4. CASE RefusesClaim(d)
    BY <1>2, <2>2, <2>4 DEF RefusesClaim
  <2>5. QED
    BY <1>2, <2>3, <2>4
<1>9. waitingBar'[d] \in SUBSET Nat
  BY <1>1 DEF BallotShape
<1>10. /\ phaseBar' = [phaseBar EXCEPT ![d] = IF waitingBar'[d] = {} THEN "decided"
                                              ELSE "voting"]
       /\ waitingBar' = [waitingBar EXCEPT ![d] = waitingBar'[d]]
       /\ reasonBar' = [reasonBar EXCEPT ![d] = reasonBar'[d]]
  BY <1>4, <1>6, BarFunctions, PrimedFunctions
<1>11. QED
  BY <1>3, <1>5, <1>7, <1>8, <1>9, <1>10 DEF Approval!Open

\* A request that is carried out, or refused, settles its ballot.
LEMMA ReplySettles ==
  ASSUME Consultation, NEW d \in Disk,
         RequestRefused(d) \/ ClaimClaim(d) \/ RequestPerform(d)
  PROVE  Approval!Settle(d)
<1>1. /\ request[d].approve /\ ~active[d]
      /\ request' = [request EXCEPT ![d] = NoRequest]
      /\ outcome' = [outcome EXCEPT ![d] =
                       IF request[d].dissenter = None THEN "performed" ELSE "refused"]
      /\ UNCHANGED <<responses, active, context>>
  BY DEF RequestRefused, ClaimClaim, RequestPerform, Reply, CanDispatch
<1>2. TypeOK /\ BallotShape
  BY ShapeOfBallots DEF Consultation, IInv
<1>3. phaseBar[d] = "decided" /\ reasonBar[d] = request[d].dissenter
  BY <1>1 DEF phaseBar, reasonBar
<1>4. \A e \in Disk : IF e = d THEN request'[e] = NoRequest ELSE request'[e] = request[e]
  BY <1>1, <1>2 DEF TypeOK
<1>5. waitingBar' = waitingBar
  BY <1>1 DEF waitingBar
<1>6. /\ \A e \in Disk : e # d => phaseBar'[e] = phaseBar[e] /\ reasonBar'[e] = reasonBar[e]
      /\ phaseBar'[d] = "idle" /\ reasonBar'[d] = None
  BY <1>1, <1>4 DEF phaseBar, reasonBar, NoRequest
<1>7. /\ phaseBar' = [phaseBar EXCEPT ![d] = "idle"]
      /\ reasonBar' = [reasonBar EXCEPT ![d] = None]
  BY <1>6, BarFunctions, PrimedFunctions
<1>8. QED
  BY <1>1, <1>3, <1>5, <1>7 DEF Approval!Settle

\* The rest does not concern ballots.
LEMMA OthersStutter ==
  ASSUME Consultation, Consultation',
         \/ \E d \in Disk : StagePeek(d) \/ StageAppear(d)
         \/ \E s \in Session :
              \/ \E d \in Disk, kind \in RequestKind, release \in BOOLEAN :
                   QueueRequest(s, d, kind, release)
              \/ \E c \in Callback : RegisterCallback(s, c)
              \/ CopyCallbackQueue(s)
              \/ \E d \in Disk : Unclaim(s, d)
         \/ UNCHANGED vars
  PROVE  UNCHANGED Approval!vars
<1>1. TypeOK
  BY DEF Consultation, IInv
<1>2. ASSUME NEW d \in Disk, StagePeek(d) PROVE UNCHANGED Approval!vars
  <2>1. /\ stage[d] = "probed" /\ ~active[d] /\ UNCHANGED <<request, outcome>>
        /\ responses \subseteq responses'
        /\ \A e \in Disk : e # d => active'[e] = active[e] /\ context'[e] = context[e]
        /\ \A r \in responses' : r \in responses \/ r.disk = d
    <3>1. PICK cands :
            LET first == FirstReachable(cands, d, {})
                new   == [id |-> nextID, cb |-> cands[first], disk |-> d]
            IN IF first = 0
               THEN UNCHANGED <<responses, queue, nextID, context, candidates, active>>
               ELSE /\ responses' = responses \cup {new}
                    /\ context' = [context EXCEPT ![d] = [kind |-> "Peek", response |-> None]]
                    /\ active' = [active EXCEPT ![d] = TRUE]
      BY <1>2, Zenon DEF StagePeek
    <3>2. /\ responses \subseteq responses'
          /\ \A e \in Disk : e # d => active'[e] = active[e] /\ context'[e] = context[e]
          /\ \A r \in responses' : r \in responses \/ r.disk = d
      BY <1>1, <3>1 DEF TypeOK
    <3>3. stage[d] = "probed" /\ ~active[d] /\ UNCHANGED <<request, outcome>>
      BY <1>2 DEF StagePeek
    <3>4. QED
      BY <3>2, <3>3
  <2>2. ~request[d].approve
    BY <2>1 DEF Consultation, Ballots, ApprovedIsUp
  <2>3. /\ BallotShape /\ BallotShape'
    BY ShapeOfBallots, PrimedShape
  <2>4. \A e \in Disk : /\ phaseBar'[e] = phaseBar[e] /\ reasonBar'[e] = reasonBar[e]
    BY <2>1, <2>2 DEF phaseBar, reasonBar
  <2>5. \A e \in Disk : waitingBar'[e] = waitingBar[e]
    <3>1. waitingBar[d] = {} /\ waitingBar'[d] = {}
      BY <2>1, <2>2, <2>3 DEF BallotShape
    <3>2. \A e \in Disk : e # d => waitingBar'[e] = waitingBar[e]
      BY <2>1 DEF waitingBar
    <3>3. QED
      BY <3>1, <3>2
  <2>6. QED
    BY <2>1, <2>4, <2>5, BarFunctions, PrimedFunctions DEF Approval!vars
<1>3. ASSUME NEW s \in Session, NEW d \in Disk, NEW kind \in RequestKind,
             NEW release \in BOOLEAN, QueueRequest(s, d, kind, release)
      PROVE  UNCHANGED Approval!vars
  <2>1. /\ UNCHANGED <<responses, active, context, outcome>>
        /\ ~request[d].approve /\ ~request'[d].approve
        /\ \A e \in Disk : e # d => request'[e] = request[e]
    <3> DEFINE new == [NoRequest EXCEPT !.kind = kind, !.session = s, !.release = release]
    <3>1. /\ UNCHANGED <<responses, active, context, outcome>>
          /\ request[d] = NoRequest /\ request' = [request EXCEPT ![d] = new]
      BY <1>3 DEF QueueRequest
    <3>2. ~NoRequest.approve /\ ~new.approve
      BY DEF NoRequest
    <3> HIDE DEF new
    <3>3. QED
      BY <1>1, <3>1, <3>2 DEF TypeOK
  <2>2. \A e \in Disk : /\ phaseBar'[e] = phaseBar[e] /\ reasonBar'[e] = reasonBar[e]
    BY <2>1 DEF phaseBar, reasonBar
  <2>3. waitingBar' = waitingBar
    BY <2>1 DEF waitingBar
  <2>4. QED
    BY <2>1, <2>2, <2>3, BarFunctions, PrimedFunctions DEF Approval!vars
<1>4. ASSUME UNCHANGED <<responses, active, context, request, outcome>>
      PROVE  UNCHANGED Approval!vars
  BY <1>4 DEF Approval!vars, phaseBar, waitingBar, reasonBar
<1>5. ASSUME NEW d \in Disk, StageAppear(d) PROVE UNCHANGED Approval!vars
  BY <1>4, <1>5 DEF StageAppear
<1>6. ASSUME \/ \E s \in Session : \/ \E c \in Callback : RegisterCallback(s, c)
                                   \/ CopyCallbackQueue(s)
                                   \/ \E d \in Disk : Unclaim(s, d)
             \/ UNCHANGED vars
      PROVE  UNCHANGED Approval!vars
  BY <1>4, <1>6 DEF RegisterCallback, CopyCallbackQueue, Unclaim, vars, diskVars
<1>7. QED
  BY <1>2, <1>3, <1>5, <1>6

-----------------------------------------------------------------------------
(* The refinement                                                          *)

LEMMA NextImplements ==
  Consultation /\ Consultation' /\ [Next]_vars => [Approval!Next]_(Approval!vars)
<1> SUFFICES ASSUME Consultation, Consultation', [Next]_vars
             PROVE  Approval!Next \/ UNCHANGED Approval!vars
  OBVIOUS
<1>1. IInv
  BY DEF Consultation
<1>2. ASSUME NEW d \in Disk, DiskNext(d)
      PROVE  Approval!Next \/ UNCHANGED Approval!vars
  <2>1. \/ Approval!Open(d) \/ Approval!Settle(d) \/ UNCHANGED Approval!vars
    BY <1>2, ApproveOpens, ReplySettles, OthersStutter DEF DiskNext
  <2>2. QED
    BY <2>1 DEF Approval!Next
<1>3. ASSUME NEW d \in Disk, MediaDisappeared(d)
      PROVE  Approval!Next \/ UNCHANGED Approval!vars
  BY <1>3, DisappearingAbandons DEF Approval!Next
<1>4. ASSUME NEW R \in SUBSET responses, NEW flagged, Sweep(R, context, flagged),
             request' = Verdicts(R, context), outcome' = outcome
      PROVE  Approval!Next
  <2>1. \A d \in Disk : SameBallot(request'[d], Verdicts(R, context)[d])
    BY <1>4 DEF SameBallot
  <2>2. QED
    BY <1>4, <2>1, DroppingExcuses DEF Approval!Next
<1>5. ASSUME NEW s \in Session, NEW tag, UnregisterCallback(s, tag)
      PROVE  Approval!Next
  BY <1>4, <1>5 DEF UnregisterCallback
<1>6. ASSUME NEW k, ResponseTimer(k)
      PROVE  Approval!Next
  BY <1>4, <1>6 DEF ResponseTimer
<1>7. ASSUME NEW s \in Session, NEW id, NEW dissent \in BOOLEAN, QueueResponse(s, id, dissent)
      PROVE  Approval!Next
  <2>1. \/ Approval!Excuse
        \/ \E d \in Disk, r \in Session \cup {None} : Approval!Vote(d, r)
    BY <1>7, AnswerVotes
  <2>2. QED
    BY <2>1 DEF Approval!Next
<1>8. ASSUME NEW s \in Session, SessionRelease(s)
      PROVE  Approval!Next
  <2> DEFINE R == OwedBy(s)
             verdicts == Verdicts(R, context)
  <2>1. /\ R \in SUBSET responses /\ Sweep(R, context, NobodyFlagged)
        /\ request' = [d \in Disk |-> IF request[d].session = s
                                      THEN [verdicts[d] EXCEPT !.session = None]
                                      ELSE verdicts[d]]
        /\ outcome' = outcome
    BY <1>8 DEF SessionRelease, OwedBy, RequestsWithout
  <2>2. verdicts \in [Disk -> RequestType]
    BY <1>1, <2>1, SweepFacts, ContextTyped DEF IInv
  <2>3. \A d \in Disk : SameBallot(request'[d], verdicts[d])
    BY <2>1, <2>2 DEF SameBallot, RequestType
  <2>4. QED
    BY <2>1, <2>3, DroppingExcuses DEF Approval!Next
<1>9. ASSUME NEW s \in Session, ClientNext(s)
      PROVE  Approval!Next \/ UNCHANGED Approval!vars
  BY <1>5, <1>7, <1>8, <1>9, OthersStutter DEF ClientNext
<1>10. CASE UNCHANGED vars
  BY <1>10, OthersStutter
<1>11. QED
  BY <1>2, <1>3, <1>6, <1>9, <1>10 DEF Next

\* The consultations keep what DAApproval promises: every question is a vote that
\* counts once, answers that come too late count nothing, the first dissent is
\* the reason, and a request is performed exactly on a verdict without a reason.
THEOREM ConsultationsAreBallots == Spec => ImplementsApproval
<1>1. Init => Approval!Init
  BY InitImplements
<1>2. Consultation /\ Consultation' /\ [Next]_vars => [Approval!Next]_(Approval!vars)
  BY NextImplements
<1>3. QED
  BY <1>1, <1>2, ConsultationInvariance, PTL DEF Spec, Approval!Spec, ImplementsApproval
=============================================================================
