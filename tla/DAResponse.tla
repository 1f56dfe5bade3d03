------------------------------ MODULE DAResponse ------------------------------
(***************************************************************************)
(* How diskarbitrationd consults its clients: DAQueue.c, the peek stage of *)
(* DAStage.c, the approval phase of DARequest.c and the session calls of   *)
(* DAServer.c that reach them.                                             *)
(*                                                                         *)
(* The daemon keeps one list of outstanding questions (gDAResponseList).   *)
(* A question names the callback it was put to, the disk it is about and a *)
(* number; the client answers by quoting the number, possibly much later.  *)
(* What is to happen when the last question about a disk is answered is    *)
(* kept in a single slot of the disk (ContextRe).  Every handler runs to   *)
(* completion on the server's work loop, so an action here is one handler. *)
(***************************************************************************)
EXTENDS Integers, Sequences, FiniteSets

CONSTANTS Disk,      \* disk objects
          Session,   \* client sessions
          Callback,  \* the callbacks a client may register
          None,      \* no session
          RequestKind, \* the kinds of request clients make
          MaxID      \* no consultation starts once this many questions were put

ApprovalKind == {"Eject", "Mount", "Unmount"}
Kind         == ApprovalKind \cup {"Claim", "Peek"}

(* A registered callback: tag stands for its address and context, match for *)
(* the disks its match dictionary admits.                                  *)
CallbackType == [session : Session, tag : STRING, kind : ApprovalKind \cup {"Peek"},
                 order : Int, match : SUBSET Disk]

ASSUME ConstantAssumption ==
  /\ IsFiniteSet(Disk)
  /\ IsFiniteSet(Callback)
  /\ Callback \subseteq CallbackType
  /\ None \notin Session
  /\ RequestKind \subseteq ApprovalKind \cup {"Claim"}
  /\ "NotPermitted" \notin Session /\ None # "NotPermitted"
  /\ MaxID \in Nat

(* The release callback that a claim leaves on the disk.                   *)
ReleaseCallback(s) ==
  [session |-> s, tag |-> "release", kind |-> "Claim", order |-> 0, match |-> Disk]

AnyCallback == Callback \cup {ReleaseCallback(s) : s \in Session}
Question    == [id : Nat, cb : AnyCallback, disk : Disk]
Dissenter   == Session \cup {None, "NotPermitted"}

NoContext == [kind |-> "None", response |-> None]
NoRequest == [kind |-> "None", session |-> None, release |-> FALSE,
              approve |-> FALSE, dissenter |-> None]
NoClaim   == [session |-> None, release |-> FALSE]
NoConsent == [session |-> None, said |-> "nothing"]
ClaimType == [session : Session, release : BOOLEAN] \cup {NoClaim}

VARIABLES
  session,    \* session[s]: "open" or "zombie"
  timedOut,   \* timedOut[s]: kDASessionStateTimeout
  register,   \* register[s]: the callbacks s has registered
  queue,      \* queue[s]: questions in the callback queue of s
  held,       \* held[s]: numbers of the questions client s copied, unanswered
  responses,  \* gDAResponseList
  nextID,     \* the static responseID of DAQueueCallback
  context,    \* context[d]: the ContextRe slot of d
  candidates, \* candidates[d]: peek callbacks still to be asked about d
  active,     \* active[d]: kDADiskStateCommandActive
  stage,      \* stage[d]: how far d has come
  request,    \* request[d]: the request at the head of d's line
  claim,      \* claim[d]: the claim on d
  outcome,    \* outcome[d]: what became of the last request on d
  consent     \* consent[d]: history, which no guard reads: the session asked in
              \* the present consultation to release its claim, and what it said

clientVars == <<session, timedOut, register, queue, held>>
diskVars   == <<context, candidates, active, stage, request, claim, outcome,
                consent>>
vars       == <<clientVars, responses, nextID, diskVars>>

\* The holder of a claim has said nothing yet, yes or no, or it will not: it was
\* silent until the timer, could not be asked, or took its callback back.
Said  == {"nothing", "yes", "no", "late", "unreachable", "withdrawn"}
ConsentType == [session : Session \cup {None}, said : Said]
Stage == {"probed", "peeked", "appeared", "gone"}

TypeOK ==
  /\ session    \in [Session -> {"open", "zombie"}]
  /\ timedOut   \in [Session -> BOOLEAN]
  /\ register   \in [Session -> SUBSET Callback]
  /\ queue      \in [Session -> SUBSET Question]
  /\ held       \in [Session -> SUBSET Nat]
  /\ responses  \in SUBSET Question
  /\ nextID     \in Nat
  /\ context    \in [Disk -> [kind : Kind \cup {"None"}, response : Dissenter]]
  /\ candidates \in [Disk -> Seq(Callback)]
  /\ active     \in [Disk -> BOOLEAN]
  /\ stage      \in [Disk -> Stage]
  /\ request    \in [Disk -> [kind : RequestKind \cup {"None"},
                              session : Session \cup {None}, release : BOOLEAN,
                              approve : BOOLEAN, dissenter : Dissenter]]
  /\ claim      \in [Disk -> ClaimType]
  /\ outcome    \in [Disk -> {"none", "performed", "refused", "abandoned"}]
  /\ consent    \in [Disk -> ConsentType]

Init ==
  /\ session    = [s \in Session |-> "open"]
  /\ timedOut   = [s \in Session |-> FALSE]
  /\ register   = [s \in Session |-> {}]
  /\ queue      = [s \in Session |-> {}]
  /\ held       = [s \in Session |-> {}]
  /\ responses  = {}
  /\ nextID     = 0
  /\ context    = [d \in Disk |-> NoContext]
  /\ candidates = [d \in Disk |-> <<>>]
  /\ active     = [d \in Disk |-> FALSE]
  /\ stage      = [d \in Disk |-> "probed"]
  /\ request    = [d \in Disk |-> NoRequest]
  /\ claim      = [d \in Disk |-> NoClaim]
  /\ outcome    = [d \in Disk |-> "none"]
  /\ consent    = [d \in Disk |-> NoConsent]

-----------------------------------------------------------------------------
(* Putting questions                                                       *)

\* DAQueueCallback puts a question to a callback unless its session is gone,
\* its match dictionary excludes the disk, or the session is not responding.
\* Flagged are the sessions the running handler has found not responding.
Reachable(c, d, flagged) ==
  /\ session[c.session] = "open"
  /\ d \in c.match
  /\ ~timedOut[c.session]
  /\ c.session \notin flagged

\* The mutant gives the questions of one handler the same number.
NumberingOnce(S) == {[c \in S |-> nextID]}

\* The ways to number the questions one handler puts.  It numbers them in the
\* order of the session list and the registers, which the model leaves open.
Numbering(S) ==
  {f \in [S -> nextID .. nextID + Cardinality(S) - 1] :
     \A a, b \in S : f[a] = f[b] => a = b}

\* The questions the step puts.
Asked == responses' \ responses

\* Copies of the new questions are queued to their sessions.
Deliver(q, new) ==
  [s \in Session |-> q[s] \cup {r \in new : r.cb.session = s}]

\* The first candidate from which an answer about d is to be waited for; 0 if
\* all that are left are skipped.
FirstReachable(cands, d, flagged) ==
  LET first == {i \in 1 .. Len(cands) :
                  /\ Reachable(cands[i], d, flagged)
                  /\ \A j \in 1 .. i - 1 : ~Reachable(cands[j], d, flagged)}
  IN IF first = {} THEN 0 ELSE CHOOSE i \in first : TRUE

\* __DAStagePeek sorts the registered peek callbacks by their order; equal
\* ones may come out in any order.
PeekOrders(S) ==
  {q \in [1 .. Cardinality(S) -> S] :
     \A i, j \in 1 .. Cardinality(S) :
        i < j => q[i] # q[j] /\ q[i].order <= q[j].order}

Registered(kind) == {c \in UNION {register[s] : s \in Session} : c.kind = kind}

\* __DAResponsePrepare, a broadcast to the reachable callbacks in V, and
\* __DAResponseComplete, which finds at once that there is nobody to wait for
\* if V is empty.
Consult(d, V) ==
  LET kind == request[d].kind
  IN /\ request' = [request EXCEPT ![d].approve = TRUE]
     /\ active'  = [active EXCEPT ![d] = V # {}]
     /\ context' = [context EXCEPT ![d] = IF V = {} THEN NoContext
                                          ELSE [kind |-> kind, response |-> None]]
     /\ \E f \in Numbering(V) :
          responses' = responses \cup {[id |-> f[c], cb |-> c, disk |-> d] : c \in V}
     /\ queue' = Deliver(queue, Asked)
     /\ nextID' = nextID + Cardinality(V)
     /\ UNCHANGED <<session, timedOut, register, held, candidates, stage, claim, outcome>>

\* The holder of the claim on d is asked, or nobody is.
Ask(d, s, said) == consent' = [consent EXCEPT ![d] = [session |-> s, said |-> said]]

-----------------------------------------------------------------------------
(* Taking questions off the list                                           *)

\* The mutants do not look whether more questions are left, or think of requests
\* only.
CompletedEarly(R) == {d \in Disk : \E r \in R : r.disk = d}
CompletedRequest(R) ==
  {d \in Disk : /\ request[d].approve /\ \E r \in R : r.disk = d
                /\ \A r \in responses \ R : r.disk # d}

\* The disks about which no question is left once those in R are removed.
Completed(R) ==
  {d \in Disk : /\ \E r \in R : r.disk = d
                /\ \A r \in responses \ R : r.disk # d}

\* Removes R from the list and runs __DAResponseComplete: a disk without
\* questions is no longer busy, except that a peek goes on to its next
\* candidate.  flagged[d] are the sessions known not to respond by the time d
\* is completed.
Sweep(R, ctx, flagged) ==
  LET over   == Completed(R)
      pick   == [d \in Disk |-> FirstReachable(candidates[d], d, flagged[d])]
      asking == {d \in over : ctx[d].kind = "Peek" /\ pick[d] # 0}
      done   == over \ asking
  IN /\ \E f \in Numbering(asking) :
          responses' = (responses \ R) \cup
            {[id |-> f[d], cb |-> candidates[d][pick[d]], disk |-> d] : d \in asking}
     /\ nextID' = nextID + Cardinality(asking)
     /\ context' = [d \in Disk |-> IF d \in done THEN NoContext ELSE ctx[d]]
     /\ active'  = [d \in Disk |-> active[d] /\ d \notin done]
     /\ candidates' = [d \in Disk |->
          IF d \in asking
            THEN SubSeq(candidates[d], pick[d] + 1, Len(candidates[d]))
          ELSE IF d \in done THEN <<>> ELSE candidates[d]]

\* The mutant reads the slot before the last answer is entered.
VerdictsBefore(R, ctx) ==
  [d \in Disk |-> IF d \in Completed(R) /\ ctx[d].kind # "Peek"
                  THEN [request[d] EXCEPT !.dissenter = context[d].response]
                  ELSE request[d]]

\* The requests after a sweep: those whose last question was removed have
\* their verdict.
Verdicts(R, ctx) ==
  [d \in Disk |-> IF d \in Completed(R) /\ ctx[d].kind # "Peek"
                  THEN [request[d] EXCEPT !.dissenter = ctx[d].response]
                  ELSE request[d]]

\* Those who were asked for their claims by the questions R have said so.
Heard(R, said) ==
  consent' = [d \in Disk |-> IF \E r \in R : r.disk = d /\ r.cb.kind = "Claim"
                             THEN [consent[d] EXCEPT !.said = said] ELSE consent[d]]

NobodyFlagged == [d \in Disk |-> {}]

-----------------------------------------------------------------------------
(* The stages of a disk                                                    *)

\* The peek stage commences: the candidates are collected and the first one
\* that can be reached is asked.
StagePeek(d) ==
  /\ stage[d] = "probed" /\ ~active[d]
  /\ nextID < MaxID
  /\ stage' = [stage EXCEPT ![d] = "peeked"]
  /\ \E cands \in PeekOrders(Registered("Peek")) :
       LET first == FirstReachable(cands, d, {})
           new   == [id |-> nextID, cb |-> cands[first], disk |-> d]
       IN IF first = 0
          THEN UNCHANGED <<responses, queue, nextID, context, candidates, active>>
          ELSE /\ responses' = responses \cup {new}
               /\ queue'   = Deliver(queue, Asked)
               /\ nextID'  = nextID + 1
               /\ context' = [context EXCEPT ![d] = [kind |-> "Peek", response |-> None]]
               /\ candidates' = [candidates EXCEPT ![d] =
                                   SubSeq(cands, first + 1, Len(cands))]
               /\ active' = [active EXCEPT ![d] = TRUE]
  /\ UNCHANGED <<session, timedOut, register, held, request, claim, outcome, consent>>

\* The mutant does not wait for the peek.
StageAppearEarly(d) ==
  /\ stage[d] = "peeked"
  /\ stage' = [stage EXCEPT ![d] = "appeared"]
  /\ UNCHANGED <<clientVars, responses, nextID, context, candidates, active,
                 request, claim, outcome, consent>>

\* The disk is mounted, if at all, and announced (see DAStage).
StageAppear(d) ==
  /\ stage[d] = "peeked" /\ ~active[d]
  /\ stage' = [stage EXCEPT ![d] = "appeared"]
  /\ UNCHANGED <<clientVars, responses, nextID, context, candidates, active,
                 request, claim, outcome, consent>>

\* The medium goes away: its questions are dropped, its request is answered
\* "not found".  A peek goes on to its next candidate all the same.
MediaDisappeared(d) ==
  /\ stage[d] # "gone"
  /\ LET R == {r \in responses : r.disk = d}
     IN /\ Sweep(R, context, NobodyFlagged)
        /\ request' = [Verdicts(R, context) EXCEPT ![d] = NoRequest]
  /\ outcome' = IF request[d].kind = "None" THEN outcome
                ELSE [outcome EXCEPT ![d] = "abandoned"]
  /\ queue' = Deliver(queue, Asked)
  /\ stage' = [stage EXCEPT ![d] = "gone"]
  /\ UNCHANGED <<session, timedOut, register, held, claim, consent>>

-----------------------------------------------------------------------------
(* Requests: the approval phase of DARequest.c.  request[d] is the first of  *)
(* the requests queued on d, the only one that can be dispatched.            *)

QueueRequest(s, d, kind, release) ==
  /\ session[s] = "open"
  /\ stage[d] # "gone"
  /\ request[d] = NoRequest
  /\ release => kind = "Claim"
  /\ request' = [request EXCEPT ![d] = [NoRequest EXCEPT !.kind = kind,
                                          !.session = s, !.release = release]]
  /\ UNCHANGED <<clientVars, responses, nextID, context, candidates, active,
                 stage, claim, outcome, consent>>

CanDispatch(d) ==
  /\ request[d] # NoRequest
  /\ stage[d] = "appeared"
  /\ ~active[d]

\* The mutant asks no claimant that left a callback.
ClaimApproveUnasked(d) ==
  /\ CanDispatch(d)
  /\ request[d].kind = "Claim" /\ ~request[d].approve
  /\ nextID < MaxID
  /\ \/ /\ claim[d] = NoClaim \/ claim[d].release
        /\ Consult(d, {})
        /\ Ask(d, None, "nothing")
     \/ /\ claim[d] # NoClaim /\ ~claim[d].release
        /\ request' = [request EXCEPT ![d].approve = TRUE,
                                      ![d].dissenter = "NotPermitted"]
        /\ UNCHANGED <<clientVars, responses, nextID, context, candidates,
                       active, stage, claim, outcome, consent>>

\* The claimant is asked to release its claim.  One that left no callback
\* does not permit it.
ClaimApprove(d) ==
  /\ CanDispatch(d)
  /\ request[d].kind = "Claim" /\ ~request[d].approve
  /\ nextID < MaxID
  /\ LET c == ReleaseCallback(claim[d].session)
     IN \/ /\ claim[d] = NoClaim
           /\ Consult(d, {})
           /\ Ask(d, None, "nothing")
        \/ /\ claim[d] # NoClaim /\ claim[d].release
           /\ Consult(d, IF Reachable(c, d, {}) THEN {c} ELSE {})
           /\ Ask(d, c.session, IF Reachable(c, d, {}) THEN "nothing" ELSE "unreachable")
        \/ /\ claim[d] # NoClaim /\ ~claim[d].release
           /\ request' = [request EXCEPT ![d].approve = TRUE,
                                         ![d].dissenter = "NotPermitted"]
           /\ Ask(d, None, "nothing")
           /\ UNCHANGED <<clientVars, responses, nextID, context, candidates,
                          active, stage, claim, outcome>>

\* All approval callbacks of the kind are asked.
RequestApprove(d) ==
  /\ CanDispatch(d)
  /\ request[d].kind \in ApprovalKind /\ ~request[d].approve
  /\ nextID < MaxID
  /\ Consult(d, {c \in Registered(request[d].kind) : Reachable(c, d, {})})
  /\ UNCHANGED consent

Reply(d, result) ==
  /\ request' = [request EXCEPT ![d] = NoRequest]
  /\ outcome' = [outcome EXCEPT ![d] = result]

\* The mutant refuses claims only.
RequestRefusedClaim(d) ==
  /\ CanDispatch(d) /\ request[d].approve
  /\ request[d].kind = "Claim" /\ request[d].dissenter # None
  /\ Reply(d, "refused")
  /\ UNCHANGED <<clientVars, responses, nextID, context, candidates, active,
                 stage, claim, consent>>

RequestRefused(d) ==
  /\ CanDispatch(d) /\ request[d].approve
  /\ request[d].dissenter # None
  /\ Reply(d, "refused")
  /\ UNCHANGED <<clientVars, responses, nextID, context, candidates, active,
                 stage, claim, consent>>

\* The claim passes to the session that asked for it, if it is still there.
ClaimClaim(d) ==
  /\ CanDispatch(d) /\ request[d].approve
  /\ request[d].kind = "Claim" /\ request[d].dissenter = None
  /\ claim' = [claim EXCEPT ![d] =
       IF request[d].session = None THEN NoClaim
       ELSE [session |-> request[d].session, release |-> request[d].release]]
  /\ Reply(d, "performed")
  /\ UNCHANGED <<clientVars, responses, nextID, context, candidates, active, stage,
                 consent>>

\* The mutant does not look at the verdict.
RequestPerformAnyway(d) ==
  /\ CanDispatch(d) /\ request[d].approve
  /\ request[d].kind \in ApprovalKind
  /\ Reply(d, "performed")
  /\ UNCHANGED <<clientVars, responses, nextID, context, candidates, active,
                 stage, claim, consent>>

\* Eject, mount and unmount go on to their command (see DAStage).
RequestPerform(d) ==
  /\ CanDispatch(d) /\ request[d].approve
  /\ request[d].kind \in ApprovalKind /\ request[d].dissenter = None
  /\ Reply(d, "performed")
  /\ UNCHANGED <<clientVars, responses, nextID, context, candidates, active,
                 stage, claim, consent>>

-----------------------------------------------------------------------------
(* Clients                                                                 *)

RegisterCallback(s, c) ==
  /\ session[s] = "open"
  /\ c.session = s /\ c \notin register[s]
  /\ register' = [register EXCEPT ![s] = @ \cup {c}]
  /\ UNCHANGED <<session, timedOut, queue, held, responses, nextID, diskVars>>

\* All callbacks with the address and context are forgotten, first in the list
\* of questions, then in the register and in the callback queue.  The
\* candidates collected for a peek are not.
UnregisterCallback(s, tag) ==
  /\ session[s] = "open"
  /\ \E c \in register[s] : c.tag = tag
  /\ LET R == {r \in responses : r.cb.session = s /\ r.cb.tag = tag}
     IN /\ Sweep(R, context, NobodyFlagged)
        /\ request' = Verdicts(R, context)
        /\ Heard(R, "withdrawn")
  /\ register' = [register EXCEPT ![s] = {c \in @ : c.tag # tag}]
  /\ queue' = [Deliver(queue, Asked) EXCEPT ![s] = {r \in @ : r.cb.tag # tag}]
  /\ UNCHANGED <<session, timedOut, held, stage, claim, outcome>>

\* The client fetches its callback queue, which shows that it responds.
CopyCallbackQueue(s) ==
  /\ session[s] = "open"
  /\ queue[s] # {} \/ timedOut[s]
  /\ held' = [held EXCEPT ![s] = @ \cup {r.id : r \in queue[s]}]
  /\ queue' = [queue EXCEPT ![s] = {}]
  /\ timedOut' = [timedOut EXCEPT ![s] = FALSE]
  /\ UNCHANGED <<session, register, responses, nextID, diskVars>>

\* _DAResponseDispatch: the question with the number is removed, whoever
\* answers and whatever it was about; the first dissent is kept.  An answer to
\* a number no longer on the list is ignored.
QueueResponse(s, id, dissent) ==
  /\ session[s] = "open"
  /\ id \in held[s]
  /\ held' = [held EXCEPT ![s] = @ \ {id}]
  /\ LET R   == {r \in responses : r.id = id}
         ctx == [d \in Disk |->
                  IF /\ dissent
                     /\ \E r \in R : r.disk = d /\ r.cb.kind # "Peek"
                     /\ context[d].response = None
                  THEN [context[d] EXCEPT !.response = s] ELSE context[d]]
     IN /\ Sweep(R, ctx, NobodyFlagged)
        /\ request' = Verdicts(R, ctx)
        /\ Heard({r \in R : r.cb.session = s}, IF dissent THEN "no" ELSE "yes")
  /\ queue' = Deliver(queue, Asked)
  /\ UNCHANGED <<session, timedOut, register, stage, claim, outcome>>

Unclaim(s, d) ==
  /\ session[s] = "open"
  /\ stage[d] # "gone"
  /\ claim[d].session = s
  /\ claim' = [claim EXCEPT ![d] = NoClaim]
  /\ UNCHANGED <<clientVars, responses, nextID, context, candidates, active,
                 stage, request, outcome, consent>>

\* The mutant forgets the release callbacks, which are not in the register.
OwedByRegister(s) == {r \in responses : r.cb.session = s /\ r.cb.kind # "Claim"}

\* The questions that were put to the session.
OwedBy(s) == {r \in responses : r.cb.session = s}

\* The mutant leaves the session's requests as they are.
RequestsKept(q, s) == q

\* The requests of the session lose their callback, and with it the session.
RequestsWithout(q, s) ==
  [d \in Disk |-> IF request[d].session = s THEN [q[d] EXCEPT !.session = None] ELSE q[d]]

\* The session is released, by the client or because the client died.  It
\* becomes a zombie only after its questions have been dropped.
SessionRelease(s) ==
  /\ session[s] = "open"
  /\ Sweep(OwedBy(s), context, NobodyFlagged)
  /\ request' = RequestsWithout(Verdicts(OwedBy(s), context), s)
  /\ Heard(OwedBy(s), "withdrawn")
  /\ claim' = [d \in Disk |-> IF claim[d].session = s /\ stage[d] # "gone"
                              THEN NoClaim ELSE claim[d]]
  /\ register' = [register EXCEPT ![s] = {}]
  /\ queue' = Deliver([queue EXCEPT ![s] = {}], Asked)
  /\ held' = [held EXCEPT ![s] = {}]
  /\ session' = [session EXCEPT ![s] = "zombie"]
  /\ UNCHANGED <<timedOut, stage, outcome>>

-----------------------------------------------------------------------------
(* Time                                                                    *)

\* The response timer fires.  The questions put up to some moment, those
\* numbered up to k, have waited too long: their sessions are flagged and the
\* questions are dropped, the newest first.
ResponseTimer(k) ==
  LET R == {r \in responses : r.id <= k}
      late(d) == {q \in R : \E r \in R : r.disk = d /\ r.id <= q.id}
  IN /\ R # {}
     /\ timedOut' = [s \in Session |->
                       timedOut[s] \/ \E r \in R : r.cb.session = s]
     /\ Sweep(R, context, [d \in Disk |-> {q.cb.session : q \in late(d)}])
     /\ request' = Verdicts(R, context)
     /\ Heard(R, "late")
     /\ queue' = Deliver(queue, Asked)
     /\ UNCHANGED <<session, register, held, stage, claim, outcome>>

-----------------------------------------------------------------------------
DiskNext(d) ==
  \/ StagePeek(d)
  \/ StageAppear(d)
  \/ ClaimApprove(d)
  \/ RequestApprove(d)
  \/ RequestRefused(d)
  \/ ClaimClaim(d)
  \/ RequestPerform(d)

ClientNext(s) ==
  \/ \E d \in Disk, kind \in RequestKind, release \in BOOLEAN :
        QueueRequest(s, d, kind, release)
  \/ \E c \in Callback : RegisterCallback(s, c)
  \/ \E c \in Callback : UnregisterCallback(s, c.tag)
  \/ CopyCallbackQueue(s)
  \/ \E id \in held[s], dissent \in BOOLEAN : QueueResponse(s, id, dissent)
  \/ \E d \in Disk : Unclaim(s, d)
  \/ SessionRelease(s)

Next ==
  \/ \E d \in Disk : DiskNext(d) \/ MediaDisappeared(d)
  \/ \E s \in Session : ClientNext(s)
  \/ \E r \in responses : ResponseTimer(r.id)

(* The work loop serves what is ready and time passes; what clients and     *)
(* media do is up to them.                                                 *)
Fairness ==
  /\ \A d \in Disk : WF_vars(DiskNext(d))
  /\ WF_vars(\E r \in responses : ResponseTimer(r.id))

Spec     == Init /\ [][Next]_vars
FairSpec == Spec /\ Fairness
-----------------------------------------------------------------------------
(* Properties                                                              *)

\* A disk is busy with a consultation, and its ContextRe slot says what for,
\* exactly as long as a question about it is on the list.  Were it not so,
\* __DAResponseComplete would find an empty slot, or the disk stay busy for
\* good.  Every handler that takes questions off the list is involved.
BusyWhileAsked ==
  \A d \in Disk :
    LET asked == \E r \in responses : r.disk = d
    IN /\ active[d] <=> asked
       /\ context[d].kind # "None" <=> asked

\* All questions about a disk belong to the consultation in its slot, so no
\* answer is credited to another one.
OneTopicPerDisk ==
  \A r \in responses : r.cb.kind = context[r.disk].kind

\* Answers are matched by number alone (_DAResponseDispatch does not look at
\* the session).  Still a client can only take its own questions off the list.
AnswersOwnQuestion ==
  /\ \A r, q \in responses : r.id = q.id => r = q
  /\ \A s \in Session, r \in responses :
       r.id \in held[s] \cup {q.id : q \in queue[s]} => r.cb.session = s

\* A released session owes an answer to nothing but a peek (for which the
\* candidates were collected before it was released): an approval never waits
\* for a client that is gone.
ZombieOwesOnlyPeek ==
  \A r \in responses : session[r.cb.session] = "zombie" => r.cb.kind = "Peek"

\* A claim on a disk in the list is held by a live session.
ClaimantIsAlive ==
  \A d \in Disk : stage[d] # "gone" /\ claim[d].session # None
                  => session[claim[d].session] = "open"

\* A disk is announced only when every peek callback collected for it had its
\* say: none is waited for, none is left to ask.
PeeksPrecedeAppearance ==
  \A d \in Disk : stage[d] = "appeared" =>
    /\ candidates[d] = <<>>
    /\ \A r \in responses : r.disk = d => r.cb.kind # "Peek"

\* A claim passes from its holder to another session only if in this very
\* consultation its holder was asked for it and said yes, or had its time and
\* said nothing, could not be asked as it does not respond, or took its callback
\* back; never when it said no, was not asked at all, or left no way to be asked.
\* The question is put when the request is approved, the claim is set much later.
ClaimNotStolen ==
  [][\A d \in Disk : claim[d] # NoClaim /\ claim'[d] \notin {claim[d], NoClaim} =>
       /\ consent[d].session = claim[d].session
       /\ consent[d].said \in {"yes", "late", "unreachable", "withdrawn"}]_vars

\* Seen from the requests, each consultation is a ballot: how far it has come,
\* the numbers of the votes that are out, and the first reason to refuse.
phaseBar   == [d \in Disk |-> IF ~request[d].approve THEN "idle"
                              ELSE IF active[d] THEN "voting" ELSE "decided"]
waitingBar == [d \in Disk |-> {r.id : r \in {q \in responses :
                                          q.disk = d /\ q.cb.kind # "Peek"}}]
reasonBar  == [d \in Disk |-> IF ~request[d].approve THEN None
                              ELSE IF active[d] THEN context[d].response
                              ELSE request[d].dissenter]

Approval == INSTANCE DAApproval WITH
  Voter  <- Nat,
  Reason <- Session \cup {"NotPermitted"},
  phase <- phaseBar, waiting <- waitingBar, reason <- reasonBar

\* The consultations keep the promise of DAApproval: each question counts once,
\* late answers not at all, the first dissent decides, and a request is carried
\* out only on a verdict without a reason to refuse it.
ImplementsApproval == Approval!Spec

\* A dissent that comes in time counts: when the question is still on the list,
\* the request is going to be refused, be it the last answer or the first.
DissentCounts ==
  [][\A s \in Session : \A r \in responses :
       r.id \in held[s] /\ r.cb.kind # "Peek" /\ QueueResponse(s, r.id, TRUE) =>
         IF active'[r.disk] THEN context'[r.disk].response # None
                            ELSE request'[r.disk].dissenter # None]_vars

\* No disk stays busy with a consultation, whatever the clients do: they may
\* never answer, go away or unregister while they are asked.
ConsultationEnds == \A d \in Disk : active[d] ~> ~active[d]

\* Every request is answered.
RequestAnswered ==
  \A d \in Disk : request[d] # NoRequest ~> request[d] = NoRequest \/ nextID >= MaxID
=============================================================================
