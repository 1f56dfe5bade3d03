--------------------------- MODULE DAResponseProofs ---------------------------
(***************************************************************************)
(* Theorems about DAResponse, for any number of disks, sessions and        *)
(* callbacks.                                                              *)
(***************************************************************************)
EXTENDS DAResponse, FiniteSetTheorems, SequenceTheorems, TLAPS

ContextType == [kind : Kind \cup {"None"}, response : Dissenter]
RequestType == [kind : RequestKind \cup {"None"}, session : Session \cup {None},
                release : BOOLEAN, approve : BOOLEAN, dissenter : Dissenter]

\* A numbering gives each question a natural number that was not used before.
LEMMA NumberingType ==
  ASSUME nextID \in Nat, NEW S, IsFiniteSet(S), NEW f \in Numbering(S)
  PROVE  /\ nextID + Cardinality(S) \in Nat
         /\ \A a \in S : /\ f[a] \in Nat
                         /\ nextID <= f[a] /\ f[a] < nextID + Cardinality(S)
         /\ \A a, b \in S : f[a] = f[b] => a = b
<1>1. Cardinality(S) \in Nat
  BY FS_CardinalityType
<1>2. f \in [S -> nextID .. nextID + Cardinality(S) - 1]
  BY DEF Numbering
<1>3. \A a, b \in S : f[a] = f[b] => a = b
  BY DEF Numbering
<1>4. QED
  BY <1>1, <1>2, <1>3

\* The first reachable candidate is one of the candidates, and is reachable.
LEMMA FirstReachableType ==
  ASSUME NEW cands \in Seq(Callback), NEW d, NEW flagged
  PROVE  LET i == FirstReachable(cands, d, flagged)
         IN i # 0 => /\ i \in 1 .. Len(cands)
                     /\ cands[i] \in Callback
                     /\ Reachable(cands[i], d, flagged)
<1> DEFINE first == {i \in 1 .. Len(cands) :
                       /\ Reachable(cands[i], d, flagged)
                       /\ \A j \in 1 .. i - 1 : ~Reachable(cands[j], d, flagged)}
           i == FirstReachable(cands, d, flagged)
<1> SUFFICES ASSUME i # 0
             PROVE  /\ i \in 1 .. Len(cands)
                    /\ cands[i] \in Callback
                    /\ Reachable(cands[i], d, flagged)
  OBVIOUS
<1>1. i \in first
  BY DEF FirstReachable
<1>2. QED
  BY <1>1, ElementOfSeq

LEMMA DeliverType ==
  ASSUME NEW q \in [Session -> SUBSET Question], NEW new \in SUBSET Question
  PROVE  Deliver(q, new) \in [Session -> SUBSET Question]
BY DEF Deliver

LEMMA CallbackFields ==
  ASSUME NEW c \in AnyCallback
  PROVE  /\ c.session \in Session
         /\ c.kind \in Kind
         /\ c.order \in Int
BY ConstantAssumption DEF AnyCallback, CallbackType, ReleaseCallback, Kind, ApprovalKind

\* The candidates that are left when the first n of them are dropped.
LEMMA RestOfCandidates ==
  ASSUME NEW cands \in Seq(Callback), NEW n \in Nat
  PROVE  /\ SubSeq(cands, n + 1, Len(cands)) \in Seq(Callback)
         /\ \A j \in 1 .. Len(SubSeq(cands, n + 1, Len(cands))) :
              /\ n + j \in 1 .. Len(cands)
              /\ SubSeq(cands, n + 1, Len(cands))[j] = cands[n + j]
<1>1. Len(cands) \in Nat
  BY LenProperties
<1>2. \A i \in n + 1 .. Len(cands) : cands[i] \in Callback
  BY <1>1, ElementOfSeq
<1>3. n + 1 \in Int /\ Len(cands) \in Int
  BY <1>1
<1>4. /\ SubSeq(cands, n + 1, Len(cands)) \in Seq(Callback)
      /\ Len(SubSeq(cands, n + 1, Len(cands))) =
           IF n + 1 <= Len(cands) THEN Len(cands) - (n + 1) + 1 ELSE 0
      /\ \A i \in 1 .. Len(cands) - (n + 1) + 1 :
           SubSeq(cands, n + 1, Len(cands))[i] = cands[n + 1 + i - 1]
  BY <1>2, <1>3, SubSeqProperties
<1>5. QED
  BY <1>1, <1>4

-----------------------------------------------------------------------------
(* The inductive invariant                                                 *)

CandidatesArePeeks ==
  \A d \in Disk : \A i \in 1 .. Len(candidates[d]) : candidates[d][i].kind = "Peek"

\* Candidates are left only while the disk is being peeked at, which is before
\* it is announced.
PeekContext ==
  \A d \in Disk : /\ context[d].kind # "Peek" => candidates[d] = <<>>
                  /\ stage[d] = "appeared" => context[d].kind # "Peek"

IInv ==
  /\ TypeOK
  /\ BusyWhileAsked
  /\ OneTopicPerDisk
  /\ CandidatesArePeeks
  /\ PeekContext
  /\ ZombieOwesOnlyPeek

LEMMA InitIInv == Init => IInv
<1> SUFFICES ASSUME Init PROVE IInv
  OBVIOUS
<1>1. TypeOK
  BY ConstantAssumption, EmptySeq
     DEF Init, TypeOK, NoContext, NoRequest, NoClaim, ClaimType, Dissenter, Stage, NoConsent, ConsentType,
         Said
<1>2. QED
  BY <1>1 DEF Init, IInv, BusyWhileAsked, OneTopicPerDisk, CandidatesArePeeks,
              PeekContext, ZombieOwesOnlyPeek, NoContext

\* What a sweep does to the consultations, whatever handler it is part of.
LEMMA SweepFacts ==
  ASSUME IInv,
         NEW R \in SUBSET responses,
         NEW ctx \in [Disk -> ContextType],
         \A d \in Disk : ctx[d].kind = context[d].kind,
         NEW flagged,
         Sweep(R, ctx, flagged)
  PROVE  /\ responses' \in SUBSET Question
         /\ nextID' \in Nat
         /\ context' \in [Disk -> ContextType]
         /\ active' \in [Disk -> BOOLEAN]
         /\ candidates' \in [Disk -> Seq(Callback)]
         /\ Verdicts(R, ctx) \in [Disk -> RequestType]
         /\ BusyWhileAsked'
         /\ OneTopicPerDisk'
         /\ CandidatesArePeeks'
         /\ \A d \in Disk : /\ context'[d].kind \in {context[d].kind, "None"}
                            /\ context'[d].kind # "Peek" => candidates'[d] = <<>>
         /\ \A r \in responses' :
              r \in responses \ R \/ r.cb.kind = "Peek"
<1> DEFINE over   == Completed(R)
           pick   == [d \in Disk |-> FirstReachable(candidates[d], d, flagged[d])]
           asking == {d \in over : ctx[d].kind = "Peek" /\ pick[d] # 0}
           done   == over \ asking
<1>1. PICK f \in Numbering(asking) :
        responses' = (responses \ R) \cup
          {[id |-> f[d], cb |-> candidates[d][pick[d]], disk |-> d] : d \in asking}
  BY DEF Sweep
<1> DEFINE new(d) == [id |-> f[d], cb |-> candidates[d][pick[d]], disk |-> d]
<1>2. /\ nextID' = nextID + Cardinality(asking)
      /\ context' = [d \in Disk |-> IF d \in done THEN NoContext ELSE ctx[d]]
      /\ active'  = [d \in Disk |-> active[d] /\ d \notin done]
      /\ candidates' = [d \in Disk |->
           IF d \in asking THEN SubSeq(candidates[d], pick[d] + 1, Len(candidates[d]))
           ELSE IF d \in done THEN <<>> ELSE candidates[d]]
  BY DEF Sweep
<1>3. TypeOK /\ BusyWhileAsked /\ OneTopicPerDisk /\ CandidatesArePeeks /\ PeekContext
  BY DEF IInv
<1>4. over \subseteq Disk /\ asking \subseteq Disk /\ IsFiniteSet(asking)
  <2>1. over \subseteq Disk
    BY DEF Completed
  <2>2. QED
    BY <2>1, FS_Subset, ConstantAssumption
<1>5. /\ nextID \in Nat
      /\ nextID + Cardinality(asking) \in Nat
      /\ \A d \in asking : f[d] \in Nat
  BY <1>3, <1>4, NumberingType DEF TypeOK
<1>6. \A d \in asking : /\ pick[d] \in 1 .. Len(candidates[d])
                        /\ candidates[d][pick[d]] \in Callback
                        /\ candidates[d][pick[d]].kind = "Peek"
  <2> SUFFICES ASSUME NEW d \in asking
               PROVE  /\ pick[d] \in 1 .. Len(candidates[d])
                      /\ candidates[d][pick[d]] \in Callback
                      /\ candidates[d][pick[d]].kind = "Peek"
    OBVIOUS
  <2>1. d \in Disk /\ candidates[d] \in Seq(Callback)
    BY <1>3, <1>4 DEF TypeOK
  <2>2. pick[d] = FirstReachable(candidates[d], d, flagged[d]) /\ pick[d] # 0
    BY <2>1
  <2>3. pick[d] \in 1 .. Len(candidates[d]) /\ candidates[d][pick[d]] \in Callback
    BY <2>1, <2>2, FirstReachableType
  <2>4. QED
    BY <1>3, <2>1, <2>3 DEF CandidatesArePeeks
<1>7. \A d \in asking : new(d) \in Question
  BY <1>4, <1>5, <1>6 DEF Question, AnyCallback
<1>23. /\ done = over \ asking
       /\ \A d \in asking : d \in over /\ ctx[d].kind = "Peek" /\ d \in Disk
  BY <1>4
<1> HIDE DEF over, pick, asking, done
<1>14. \A r \in responses' : \/ r \in responses \ R
                            \/ \E d \in asking : r = new(d)
  BY <1>1
<1>8. responses' \in SUBSET Question
  <2>1. responses \subseteq Question
    BY <1>3 DEF TypeOK
  <2>2. QED
    BY <1>7, <1>14, <2>1
<1>9. context' \in [Disk -> ContextType] /\ active' \in [Disk -> BOOLEAN]
  BY <1>2, <1>3 DEF TypeOK, ContextType, NoContext, Dissenter
<1>10. \A d \in asking :
         LET rest == SubSeq(candidates[d], pick[d] + 1, Len(candidates[d]))
         IN /\ rest \in Seq(Callback)
            /\ \A i \in 1 .. Len(rest) : rest[i].kind = "Peek"
  <2> SUFFICES ASSUME NEW d \in asking
               PROVE  LET rest == SubSeq(candidates[d], pick[d] + 1, Len(candidates[d]))
                      IN /\ rest \in Seq(Callback)
                         /\ \A i \in 1 .. Len(rest) : rest[i].kind = "Peek"
    OBVIOUS
  <2>1. candidates[d] \in Seq(Callback) /\ d \in Disk
    BY <1>3, <1>4 DEF TypeOK
  <2>3. pick[d] \in Nat
    BY <1>6, <2>1, LenProperties
  <2>2. QED
    <3> DEFINE cands == candidates[d]
               n == pick[d]
               rest == SubSeq(cands, n + 1, Len(cands))
    <3>1. /\ rest \in Seq(Callback)
          /\ \A j \in 1 .. Len(rest) : n + j \in 1 .. Len(cands) /\ rest[j] = cands[n + j]
      BY <2>1, <2>3, RestOfCandidates
    <3>2. \A i \in 1 .. Len(cands) : cands[i].kind = "Peek"
      BY <1>3, <2>1 DEF CandidatesArePeeks
    <3>3. QED
      BY <3>1, <3>2
<1>11. candidates' \in [Disk -> Seq(Callback)]
  BY <1>2, <1>3, <1>10, EmptySeq DEF TypeOK
<1>12. CandidatesArePeeks'
  <2> SUFFICES ASSUME NEW d \in Disk, NEW i \in 1 .. Len(candidates'[d])
               PROVE  candidates'[d][i].kind = "Peek"
    BY DEF CandidatesArePeeks
  <2>1. CASE d \in asking
    BY <1>2, <1>10, <2>1
  <2>2. CASE d \in done
    <3>1. candidates'[d] = <<>>
      BY <1>2, <1>23, <2>2
    <3>2. QED
      BY <3>1, EmptySeq
  <2>3. CASE d \notin asking /\ d \notin done
    BY <1>2, <1>3, <2>3 DEF CandidatesArePeeks
  <2>4. QED
    BY <2>1, <2>2, <2>3
<1>13. Verdicts(R, ctx) \in [Disk -> RequestType]
  <2> SUFFICES ASSUME NEW d \in Disk
               PROVE  /\ request[d] \in RequestType
                      /\ [request[d] EXCEPT !.dissenter = ctx[d].response] \in RequestType
    BY DEF Verdicts
  <2>1. request[d] \in RequestType
    BY <1>3 DEF TypeOK, RequestType
  <2>2. ctx[d].response \in Dissenter
    BY DEF ContextType
  <2>3. QED
    BY <2>1, <2>2 DEF RequestType
<1>15. \A d \in over : \A r \in responses \ R : r.disk # d
  BY DEF Completed, over
<1>16. \A d \in over : active[d] /\ context[d].kind # "None"
  BY <1>3, <1>4 DEF Completed, BusyWhileAsked, over
<1>17. BusyWhileAsked'
  <2> SUFFICES ASSUME NEW d \in Disk
               PROVE  /\ active'[d] <=> \E r \in responses' : r.disk = d
                      /\ context'[d].kind # "None" <=> \E r \in responses' : r.disk = d
    BY DEF BusyWhileAsked
  <2>1. CASE d \in asking
    <3>1. new(d) \in responses' /\ new(d).disk = d
      BY <1>1, <2>1
    <3>2. active'[d] /\ context'[d].kind # "None"
      BY <1>2, <1>16, <1>23, <2>1
    <3>3. QED
      BY <3>1, <3>2
  <2>2. CASE d \in done
    <3>1. \A r \in responses' : r.disk # d
      <4>1. d \in over /\ d \notin asking
        BY <2>2 DEF done
      <4>2. \A e \in asking : new(e).disk = e
        OBVIOUS
      <4>3. QED
        BY <1>14, <1>15, <4>1, <4>2
    <3>2. ~active'[d] /\ context'[d].kind = "None"
      BY <1>2, <2>2 DEF NoContext
    <3>3. QED
      BY <3>1, <3>2
  <2>3. CASE d \notin over
    <3>1. (\E r \in responses' : r.disk = d) <=> (\E r \in responses : r.disk = d)
      <4>1. d \notin asking
        BY <2>3 DEF asking
      <4>2. \A e \in asking : new(e).disk = e
        OBVIOUS
      <4>3. responses \ R \subseteq responses'
        BY <1>1
      <4>4. (\E r \in R : r.disk = d) => \E r \in responses \ R : r.disk = d
        BY <2>3 DEF Completed, over
      <4>5. QED
        BY <1>14, <4>1, <4>2, <4>3, <4>4
    <3>2. active'[d] = active[d] /\ context'[d].kind = context[d].kind
      BY <1>2, <1>3, <2>3 DEF TypeOK, done
    <3>3. QED
      BY <1>3, <3>1, <3>2 DEF BusyWhileAsked
  <2>4. QED
    BY <1>23, <2>1, <2>2, <2>3
<1>18. OneTopicPerDisk'
  <2> SUFFICES ASSUME NEW r \in responses'
               PROVE  r.cb.kind = context'[r.disk].kind
    BY DEF OneTopicPerDisk
  <2>1. CASE r \in responses \ R
    <3>1. r.disk \in Disk /\ r.disk \notin over
      BY <1>3, <1>15, <2>1 DEF TypeOK, Question
    <3>2. QED
      BY <1>2, <1>3, <1>23, <2>1, <3>1 DEF OneTopicPerDisk
  <2>2. CASE \E d \in asking : r = new(d)
    <3>1. PICK d \in asking : r = new(d)
      BY <2>2
    <3>2. r.disk = d /\ r.cb.kind = "Peek" /\ d \in Disk
      BY <1>4, <1>6, <3>1
    <3>3. context'[d].kind = "Peek"
      BY <1>2, <1>23, <3>1, <3>2
    <3>4. QED
      BY <3>2, <3>3
  <2>3. QED
    BY <1>14, <2>1, <2>2
<1>19. \A d \in Disk : /\ context'[d].kind \in {context[d].kind, "None"}
                       /\ context'[d].kind # "Peek" => candidates'[d] = <<>>
  BY <1>2, <1>3, <1>16, <1>23 DEF PeekContext, NoContext
<1>20. \A r \in responses' : r \in responses \ R \/ r.cb.kind = "Peek"
  <2>1. \A d \in asking : new(d).cb.kind = "Peek"
    BY <1>6
  <2>2. QED
    BY <1>14, <2>1
<1>21. nextID' \in Nat
  BY <1>2, <1>5
<1>22. QED
  BY <1>8, <1>9, <1>11, <1>12, <1>13, <1>17, <1>18, <1>19, <1>20, <1>21

\* The start of a consultation about a request.
LEMMA ConsultPreserves ==
  ASSUME IInv, NEW d \in Disk, NEW V \in SUBSET AnyCallback, IsFiniteSet(V),
         ~active[d], request[d].kind \in RequestKind,
         \A c \in V : c.kind = request[d].kind /\ session[c.session] = "open",
         Consult(d, V), consent' \in [Disk -> ConsentType]
  PROVE  IInv'
<1> DEFINE kind == request[d].kind
<1>1. PICK f \in Numbering(V) :
        responses' = responses \cup {[id |-> f[c], cb |-> c, disk |-> d] : c \in V}
  BY DEF Consult
<1> DEFINE new(c) == [id |-> f[c], cb |-> c, disk |-> d]
<1>2. /\ request' = [request EXCEPT ![d].approve = TRUE]
      /\ active'  = [active EXCEPT ![d] = V # {}]
      /\ context' = [context EXCEPT ![d] = IF V = {} THEN NoContext
                                           ELSE [kind |-> kind, response |-> None]]
      /\ nextID' = nextID + Cardinality(V)
      /\ queue' = Deliver(queue, Asked)
      /\ UNCHANGED <<session, timedOut, register, held, candidates, stage, claim, outcome>>
  BY DEF Consult
<1>3. TypeOK /\ BusyWhileAsked /\ OneTopicPerDisk /\ CandidatesArePeeks /\ PeekContext
      /\ ZombieOwesOnlyPeek
  BY DEF IInv
<1>4. /\ nextID \in Nat
      /\ nextID' \in Nat
      /\ \A c \in V : f[c] \in Nat
  BY <1>2, <1>3, NumberingType DEF TypeOK
<1>5. \A c \in V : new(c) \in Question
  BY <1>4 DEF Question
<1>6. \A r \in responses' : r \in responses \/ \E c \in V : r = new(c)
  BY <1>1
<1>7. responses' \in SUBSET Question
  BY <1>3, <1>5, <1>6 DEF TypeOK
<1>8. queue' \in [Session -> SUBSET Question]
  BY <1>2, <1>3, <1>7, DeliverType DEF TypeOK, Asked
<1>9. kind \in Kind /\ kind # "Peek" /\ kind # "None"
  BY ConstantAssumption DEF Kind, ApprovalKind
<1>10. TypeOK'
  <2>1. request' \in [Disk -> RequestType]
    <3>1. request \in [Disk -> RequestType]
      BY <1>3 DEF TypeOK, RequestType
    <3>2. [request[d] EXCEPT !.approve = TRUE] \in RequestType
      BY <3>1 DEF RequestType
    <3>3. request' = [request EXCEPT ![d] = [request[d] EXCEPT !.approve = TRUE]]
      BY <1>2, <3>1
    <3>4. QED
      BY <3>1, <3>2, <3>3
  <2>2. context' \in [Disk -> ContextType]
    BY <1>2, <1>3, <1>9 DEF TypeOK, ContextType, NoContext, Dissenter
  <2>3. active' \in [Disk -> BOOLEAN]
    BY <1>2, <1>3 DEF TypeOK
  <2>4. QED
    BY <1>2, <1>3, <1>4, <1>7, <1>8, <2>1, <2>2, <2>3 DEF TypeOK, RequestType, ContextType
<1>11. \A r \in responses : r.disk # d /\ r.disk \in Disk
  BY <1>3 DEF BusyWhileAsked, TypeOK, Question
<1>12. context[d].kind = "None"
  BY <1>3, <1>11 DEF BusyWhileAsked
<1>13. BusyWhileAsked'
  <2> SUFFICES ASSUME NEW e \in Disk
               PROVE  /\ active'[e] <=> \E r \in responses' : r.disk = e
                      /\ context'[e].kind # "None" <=> \E r \in responses' : r.disk = e
    BY DEF BusyWhileAsked
  <2>1. CASE e = d
    <3>1. (\E r \in responses' : r.disk = d) <=> V # {}
      <4>1. \A c \in V : new(c) \in responses' /\ new(c).disk = d
        BY <1>1
      <4>2. QED
        BY <1>6, <1>11, <4>1
    <3>2. active'[d] <=> V # {}
      BY <1>2, <1>3 DEF TypeOK
    <3>3. context'[d].kind # "None" <=> V # {}
      BY <1>2, <1>3, <1>9 DEF TypeOK, NoContext
    <3>4. QED
      BY <2>1, <3>1, <3>2, <3>3
  <2>2. CASE e # d
    <3>1. \A c \in V : new(c).disk # e
      BY <2>2
    <3>2. responses \subseteq responses'
      BY <1>1
    <3>3. (\E r \in responses' : r.disk = e) <=> (\E r \in responses : r.disk = e)
      BY <1>6, <3>1, <3>2
    <3>4. QED
      BY <1>2, <1>3, <2>2, <3>3 DEF BusyWhileAsked, TypeOK
  <2>3. QED
    BY <2>1, <2>2
<1>14. OneTopicPerDisk'
  <2> SUFFICES ASSUME NEW r \in responses'
               PROVE  r.cb.kind = context'[r.disk].kind
    BY DEF OneTopicPerDisk
  <2>1. CASE r \in responses
    BY <1>2, <1>3, <1>11, <2>1 DEF OneTopicPerDisk, TypeOK
  <2>2. CASE \E c \in V : r = new(c)
    <3>1. V # {} /\ r.disk = d /\ r.cb.kind = kind
      BY <2>2
    <3>2. QED
      BY <1>2, <1>3, <3>1 DEF TypeOK
  <2>3. QED
    BY <1>6, <2>1, <2>2
<1>15. CandidatesArePeeks'
  BY <1>2, <1>3 DEF CandidatesArePeeks
<1>16. PeekContext'
  BY <1>2, <1>3, <1>9, <1>12 DEF PeekContext, TypeOK, NoContext
<1>17. ZombieOwesOnlyPeek'
  <2> SUFFICES ASSUME NEW r \in responses', session'[r.cb.session] = "zombie"
               PROVE  r.cb.kind = "Peek"
    BY DEF ZombieOwesOnlyPeek
  <2>1. CASE r \in responses
    BY <1>2, <1>3, <2>1 DEF ZombieOwesOnlyPeek
  <2>2. CASE \E c \in V : r = new(c)
    BY <1>2, <2>2
  <2>3. QED
    BY <1>6, <2>1, <2>2
<1>18. QED
  BY <1>10, <1>13, <1>14, <1>15, <1>16, <1>17 DEF IInv

\* The start of a peek.
LEMMA StagePeekPreserves ==
  ASSUME IInv, NEW d \in Disk, StagePeek(d)
  PROVE  IInv'
<1>1. PICK cands \in PeekOrders(Registered("Peek")) :
        LET first == FirstReachable(cands, d, {})
            new   == [id |-> nextID, cb |-> cands[first], disk |-> d]
        IN IF first = 0
           THEN UNCHANGED <<responses, queue, nextID, context, candidates, active>>
           ELSE /\ responses' = responses \cup {new}
                /\ queue'   = Deliver(queue, Asked)
                /\ nextID'  = nextID + 1
                /\ context' = [context EXCEPT ![d] = [kind |-> "Peek", response |-> None]]
                /\ candidates' = [candidates EXCEPT ![d] =
                                    SubSeq(cands, first + 1, Len(cands))]
                /\ active' = [active EXCEPT ![d] = TRUE]
  BY DEF StagePeek
<1> DEFINE first == FirstReachable(cands, d, {})
           new   == [id |-> nextID, cb |-> cands[first], disk |-> d]
           rest  == SubSeq(cands, first + 1, Len(cands))
<1>2. /\ stage[d] = "probed" /\ ~active[d]
      /\ stage' = [stage EXCEPT ![d] = "peeked"]
      /\ UNCHANGED <<session, timedOut, register, held, request, claim, outcome, consent>>
  BY DEF StagePeek
<1>3. TypeOK /\ BusyWhileAsked /\ OneTopicPerDisk /\ CandidatesArePeeks /\ PeekContext
      /\ ZombieOwesOnlyPeek
  BY DEF IInv
<1>4. cands \in Seq(Callback) /\ \A i \in 1 .. Len(cands) : cands[i].kind = "Peek"
  <2> DEFINE S == Registered("Peek")
             n == Cardinality(S)
  <2>1. S \subseteq Callback /\ \A c \in S : c.kind = "Peek"
    BY <1>3 DEF Registered, TypeOK
  <2>2. n \in Nat
    BY <2>1, FS_Subset, FS_CardinalityType, ConstantAssumption
  <2>3. cands \in [1 .. n -> S]
    BY DEF PeekOrders
  <2>4. cands \in Seq(S) /\ Len(cands) = n
    BY <2>2, <2>3, SeqDef
  <2>5. QED
    BY <2>1, <2>3, <2>4, SeqMonotonic
<1>5. \A r \in responses : r.disk # d /\ r.disk \in Disk
  BY <1>2, <1>3 DEF BusyWhileAsked, TypeOK, Question
<1>6. context[d].kind = "None" /\ candidates[d] = <<>>
  BY <1>3, <1>5 DEF BusyWhileAsked, PeekContext
<1>7. stage' \in [Disk -> Stage]
  BY <1>2, <1>3 DEF TypeOK, Stage
<1>8. CASE first = 0
  <2>1. UNCHANGED <<responses, queue, nextID, context, candidates, active>>
    BY <1>1, <1>8
  <2>2. TypeOK'
    BY <1>2, <1>3, <1>7, <2>1 DEF TypeOK
  <2>3. PeekContext'
    BY <1>2, <1>3, <1>6, <2>1 DEF PeekContext, TypeOK
  <2>4. QED
    BY <1>2, <1>3, <2>1, <2>2, <2>3
       DEF IInv, BusyWhileAsked, OneTopicPerDisk, CandidatesArePeeks, ZombieOwesOnlyPeek
<1>9. CASE first # 0
  <2>1. /\ responses' = responses \cup {new}
        /\ queue'   = Deliver(queue, Asked)
        /\ nextID'  = nextID + 1
        /\ context' = [context EXCEPT ![d] = [kind |-> "Peek", response |-> None]]
        /\ candidates' = [candidates EXCEPT ![d] = rest]
        /\ active' = [active EXCEPT ![d] = TRUE]
    BY <1>1, <1>9
  <2>2. /\ first \in 1 .. Len(cands)
        /\ cands[first] \in Callback
        /\ Reachable(cands[first], d, {})
    BY <1>4, <1>9, FirstReachableType
  <2>3. new \in Question /\ new.cb.kind = "Peek" /\ session[new.cb.session] = "open"
    BY <1>3, <1>4, <2>2 DEF TypeOK, Question, AnyCallback, Reachable
  <2>4. rest \in Seq(Callback) /\ \A i \in 1 .. Len(rest) : rest[i].kind = "Peek"
    <3>1. first \in Nat
      BY <1>4, <2>2, LenProperties
    <3>2. QED
      BY <1>4, <3>1, RestOfCandidates
  <2>5. responses' \in SUBSET Question
    BY <1>3, <2>1, <2>3 DEF TypeOK
  <2>6. queue' \in [Session -> SUBSET Question]
    BY <1>3, <2>1, <2>5, DeliverType DEF TypeOK, Asked
  <2>7. TypeOK'
    <3>1. context' \in [Disk -> ContextType]
      BY <1>3, <2>1 DEF TypeOK, ContextType, Kind, Dissenter
    <3>2. candidates' \in [Disk -> Seq(Callback)] /\ active' \in [Disk -> BOOLEAN]
      BY <1>3, <2>1, <2>4 DEF TypeOK
    <3>3. nextID' \in Nat
      BY <1>3, <2>1 DEF TypeOK
    <3>4. QED
      BY <1>2, <1>3, <1>7, <2>5, <2>6, <3>1, <3>2, <3>3 DEF TypeOK, ContextType
  <2>8. BusyWhileAsked'
    <3> SUFFICES ASSUME NEW e \in Disk
                 PROVE  /\ active'[e] <=> \E r \in responses' : r.disk = e
                        /\ context'[e].kind # "None" <=> \E r \in responses' : r.disk = e
      BY DEF BusyWhileAsked
    <3>1. new \in responses' /\ new.disk = d
      BY <2>1
    <3>2. CASE e = d
      BY <1>3, <2>1, <3>1, <3>2 DEF TypeOK
    <3>3. CASE e # d
      <4>1. (\E r \in responses' : r.disk = e) <=> (\E r \in responses : r.disk = e)
        BY <2>1, <3>1, <3>3
      <4>2. active'[e] = active[e] /\ context'[e] = context[e]
        BY <1>3, <2>1, <3>3 DEF TypeOK
      <4>3. QED
        BY <1>3, <4>1, <4>2 DEF BusyWhileAsked
    <3>4. QED
      BY <3>2, <3>3
  <2>9. OneTopicPerDisk'
    BY <1>3, <1>5, <2>1, <2>3 DEF OneTopicPerDisk, TypeOK
  <2>10. CandidatesArePeeks'
    BY <1>3, <2>1, <2>4 DEF CandidatesArePeeks, TypeOK
  <2>11. PeekContext'
    BY <1>2, <1>3, <2>1 DEF PeekContext, TypeOK
  <2>12. ZombieOwesOnlyPeek'
    BY <1>2, <1>3, <2>1, <2>3 DEF ZombieOwesOnlyPeek
  <2>13. QED
    BY <2>7, <2>8, <2>9, <2>10, <2>11, <2>12 DEF IInv
<1>10. QED
  BY <1>8, <1>9

\* A handler whose effect on the consultations is a sweep.
LEMMA SweepPreserves ==
  ASSUME IInv,
         NEW R \in SUBSET responses,
         NEW ctx \in [Disk -> ContextType],
         \A d \in Disk : ctx[d].kind = context[d].kind,
         NEW flagged,
         Sweep(R, ctx, flagged),
         /\ session' \in [Session -> {"open", "zombie"}]
         /\ timedOut' \in [Session -> BOOLEAN]
         /\ register' \in [Session -> SUBSET Callback]
         /\ held' \in [Session -> SUBSET Nat]
         /\ queue' \in [Session -> SUBSET Question]
         /\ stage' \in [Disk -> Stage]
         /\ request' \in [Disk -> RequestType]
         /\ claim' \in [Disk -> ClaimType]
         /\ outcome' \in [Disk -> {"none", "performed", "refused", "abandoned"}]
         /\ consent' \in [Disk -> ConsentType],
         \A d \in Disk : stage'[d] = "appeared" => stage[d] = "appeared",
         \A r \in responses \ R : session'[r.cb.session] = "zombie"
                                 => session[r.cb.session] = "zombie"
  PROVE  IInv'
<1>1. /\ responses' \in SUBSET Question
      /\ nextID' \in Nat
      /\ context' \in [Disk -> ContextType]
      /\ active' \in [Disk -> BOOLEAN]
      /\ candidates' \in [Disk -> Seq(Callback)]
      /\ BusyWhileAsked'
      /\ OneTopicPerDisk'
      /\ CandidatesArePeeks'
      /\ \A d \in Disk : /\ context'[d].kind \in {context[d].kind, "None"}
                         /\ context'[d].kind # "Peek" => candidates'[d] = <<>>
      /\ \A r \in responses' : r \in responses \ R \/ r.cb.kind = "Peek"
  BY SweepFacts
<1>2. TypeOK'
  BY <1>1 DEF TypeOK, RequestType, ContextType
<1>3. PeekContext'
  <2> SUFFICES ASSUME NEW d \in Disk
               PROVE  /\ context'[d].kind # "Peek" => candidates'[d] = <<>>
                      /\ stage'[d] = "appeared" => context'[d].kind # "Peek"
    BY DEF PeekContext
  <2>1. context'[d].kind # "Peek" => candidates'[d] = <<>>
    BY <1>1
  <2>2. stage[d] = "appeared" => context[d].kind # "Peek"
    BY DEF IInv, PeekContext
  <2>3. context'[d].kind = context[d].kind \/ context'[d].kind = "None"
    BY <1>1
  <2>4. QED
    BY <2>1, <2>2, <2>3
<1>4. ZombieOwesOnlyPeek'
  BY <1>1 DEF IInv, ZombieOwesOnlyPeek
<1>5. QED
  BY <1>1, <1>2, <1>3, <1>4 DEF IInv

\* The requests after a sweep are requests, and so are those of which some
\* have lost their session or gone.
LEMMA VerdictsType ==
  ASSUME TypeOK, NEW R, NEW ctx \in [Disk -> ContextType]
  PROVE  Verdicts(R, ctx) \in [Disk -> RequestType]
<1> SUFFICES ASSUME NEW d \in Disk
             PROVE  /\ request[d] \in RequestType
                    /\ [request[d] EXCEPT !.dissenter = ctx[d].response] \in RequestType
  BY DEF Verdicts
<1>1. request[d] \in RequestType
  BY DEF TypeOK, RequestType
<1>2. ctx[d].response \in Dissenter
  BY DEF ContextType
<1>3. QED
  BY <1>1, <1>2 DEF RequestType

LEMMA ContextTyped ==
  ASSUME TypeOK
  PROVE  context \in [Disk -> ContextType]
BY DEF TypeOK, ContextType

LEMMA HeardType ==
  ASSUME TypeOK, NEW R, NEW said \in Said, Heard(R, said)
  PROVE  consent' \in [Disk -> ConsentType]
BY DEF Heard, TypeOK, ConsentType

LEMMA MediaDisappearedPreserves ==
  ASSUME IInv, NEW d \in Disk, MediaDisappeared(d)
  PROVE  IInv'
<1> DEFINE R == {r \in responses : r.disk = d}
<1>1. /\ Sweep(R, context, NobodyFlagged)
      /\ request' = [Verdicts(R, context) EXCEPT ![d] = NoRequest]
      /\ outcome' = IF request[d].kind = "None" THEN outcome
                    ELSE [outcome EXCEPT ![d] = "abandoned"]
      /\ queue' = Deliver(queue, Asked)
      /\ stage' = [stage EXCEPT ![d] = "gone"]
      /\ UNCHANGED <<session, timedOut, register, held, claim, consent>>
  BY DEF MediaDisappeared
<1>2. TypeOK /\ context \in [Disk -> ContextType]
  BY ContextTyped DEF IInv
<1>3. responses' \in SUBSET Question
  BY <1>1, <1>2, SweepFacts
<1>4. queue' \in [Session -> SUBSET Question]
  BY <1>1, <1>2, <1>3, DeliverType DEF TypeOK, Asked
<1>5. request' \in [Disk -> RequestType]
  BY <1>1, <1>2, VerdictsType DEF RequestType, NoRequest, Dissenter
<1>6. /\ stage' \in [Disk -> Stage]
      /\ \A e \in Disk : stage'[e] = "appeared" => stage[e] = "appeared"
      /\ outcome' \in [Disk -> {"none", "performed", "refused", "abandoned"}]
  BY <1>1, <1>2 DEF TypeOK, Stage
<1>7. /\ session' \in [Session -> {"open", "zombie"}]
      /\ timedOut' \in [Session -> BOOLEAN]
      /\ register' \in [Session -> SUBSET Callback]
      /\ held' \in [Session -> SUBSET Nat]
      /\ claim' \in [Disk -> ClaimType]
      /\ consent' \in [Disk -> ConsentType]
  BY <1>1, <1>2 DEF TypeOK
<1>8. QED
  BY <1>1, <1>2, <1>4, <1>5, <1>6, <1>7, SweepPreserves

LEMMA UnregisterCallbackPreserves ==
  ASSUME IInv, NEW s \in Session, NEW tag, UnregisterCallback(s, tag)
  PROVE  IInv'
<1> DEFINE R == {r \in responses : r.cb.session = s /\ r.cb.tag = tag}
<1>1. /\ Sweep(R, context, NobodyFlagged)
      /\ request' = Verdicts(R, context)
      /\ register' = [register EXCEPT ![s] = {c \in @ : c.tag # tag}]
      /\ queue' = [Deliver(queue, Asked) EXCEPT ![s] = {r \in @ : r.cb.tag # tag}]
      /\ UNCHANGED <<session, timedOut, held, stage, claim, outcome>>
  BY DEF UnregisterCallback
<1>2. TypeOK /\ context \in [Disk -> ContextType]
  BY ContextTyped DEF IInv
<1>3. responses' \in SUBSET Question
  BY <1>1, <1>2, SweepFacts
<1>4. Deliver(queue, Asked) \in [Session -> SUBSET Question]
  BY <1>2, <1>3, DeliverType DEF TypeOK, Asked
<1>5. queue' \in [Session -> SUBSET Question]
  BY <1>1, <1>4
<1>6. request' \in [Disk -> RequestType]
  BY <1>1, <1>2, VerdictsType
<1>7. /\ session' \in [Session -> {"open", "zombie"}]
      /\ timedOut' \in [Session -> BOOLEAN]
      /\ register' \in [Session -> SUBSET Callback]
      /\ held' \in [Session -> SUBSET Nat]
      /\ stage' \in [Disk -> Stage]
      /\ claim' \in [Disk -> ClaimType]
      /\ outcome' \in [Disk -> {"none", "performed", "refused", "abandoned"}]
  BY <1>1, <1>2 DEF TypeOK
<1>9. consent' \in [Disk -> ConsentType]
  BY <1>2, HeardType DEF UnregisterCallback, Said
<1>10. QED
  BY <1>1, <1>2, <1>5, <1>6, <1>7, <1>9, SweepPreserves

LEMMA QueueResponsePreserves ==
  ASSUME IInv, NEW s \in Session, NEW id, NEW dissent, QueueResponse(s, id, dissent)
  PROVE  IInv'
<1> DEFINE R   == {r \in responses : r.id = id}
           counts(d) == /\ dissent
                        /\ \E r \in R : r.disk = d /\ r.cb.kind # "Peek"
                        /\ context[d].response = None
           ctx == [d \in Disk |-> IF counts(d) THEN [context[d] EXCEPT !.response = s]
                                  ELSE context[d]]
<1>1. /\ held' = [held EXCEPT ![s] = @ \ {id}]
      /\ Sweep(R, ctx, NobodyFlagged)
      /\ request' = Verdicts(R, ctx)
      /\ queue' = Deliver(queue, Asked)
      /\ UNCHANGED <<session, timedOut, register, stage, claim, outcome>>
  BY DEF QueueResponse
<1>2. TypeOK /\ context \in [Disk -> ContextType]
  BY ContextTyped DEF IInv
<1>3. ctx \in [Disk -> ContextType] /\ \A d \in Disk : ctx[d].kind = context[d].kind
  BY <1>2 DEF ContextType, Dissenter
<1> HIDE DEF ctx
<1>4. responses' \in SUBSET Question
  BY <1>1, <1>3, SweepFacts
<1>5. queue' \in [Session -> SUBSET Question]
  BY <1>1, <1>2, <1>4, DeliverType DEF TypeOK, Asked
<1>6. request' \in [Disk -> RequestType]
  BY <1>1, <1>2, <1>3, VerdictsType
<1>7. /\ session' \in [Session -> {"open", "zombie"}]
      /\ timedOut' \in [Session -> BOOLEAN]
      /\ register' \in [Session -> SUBSET Callback]
      /\ held' \in [Session -> SUBSET Nat]
      /\ stage' \in [Disk -> Stage]
      /\ claim' \in [Disk -> ClaimType]
      /\ outcome' \in [Disk -> {"none", "performed", "refused", "abandoned"}]
  BY <1>1, <1>2 DEF TypeOK
<1>9. consent' \in [Disk -> ConsentType]
  BY <1>2, HeardType DEF QueueResponse, Said
<1>10. QED
  BY <1>1, <1>3, <1>5, <1>6, <1>7, <1>9, SweepPreserves

LEMMA SessionReleasePreserves ==
  ASSUME IInv, NEW s \in Session, SessionRelease(s)
  PROVE  IInv'
<1> DEFINE R == {r \in responses : r.cb.session = s}
           verdicts == Verdicts(R, context)
<1>1. /\ Sweep(R, context, NobodyFlagged)
      /\ request' = [d \in Disk |-> IF request[d].session = s
                                    THEN [verdicts[d] EXCEPT !.session = None]
                                    ELSE verdicts[d]]
      /\ claim' = [d \in Disk |-> IF claim[d].session = s /\ stage[d] # "gone"
                                  THEN NoClaim ELSE claim[d]]
      /\ register' = [register EXCEPT ![s] = {}]
      /\ queue' = Deliver([queue EXCEPT ![s] = {}], Asked)
      /\ held' = [held EXCEPT ![s] = {}]
      /\ session' = [session EXCEPT ![s] = "zombie"]
      /\ UNCHANGED <<timedOut, stage, outcome>>
  BY DEF SessionRelease, OwedBy, RequestsWithout
<1>2. TypeOK /\ context \in [Disk -> ContextType]
  BY ContextTyped DEF IInv
<1>3. responses' \in SUBSET Question
  BY <1>1, <1>2, SweepFacts
<1>4. queue' \in [Session -> SUBSET Question]
  <2>1. [queue EXCEPT ![s] = {}] \in [Session -> SUBSET Question]
    BY <1>2 DEF TypeOK
  <2>2. QED
    BY <1>1, <1>3, <2>1, DeliverType DEF Asked
<1>5. request' \in [Disk -> RequestType]
  <2>1. verdicts \in [Disk -> RequestType]
    BY <1>2, VerdictsType
  <2>2. \A d \in Disk : [verdicts[d] EXCEPT !.session = None] \in RequestType
    BY <2>1 DEF RequestType
  <2>3. QED
    BY <1>1, <2>1, <2>2
<1>6. /\ session' \in [Session -> {"open", "zombie"}]
      /\ timedOut' \in [Session -> BOOLEAN]
      /\ register' \in [Session -> SUBSET Callback]
      /\ held' \in [Session -> SUBSET Nat]
      /\ stage' \in [Disk -> Stage]
      /\ claim' \in [Disk -> ClaimType]
      /\ outcome' \in [Disk -> {"none", "performed", "refused", "abandoned"}]
  BY <1>1, <1>2 DEF TypeOK, ClaimType
<1>7. \A r \in responses \ R : session'[r.cb.session] = "zombie"
                              => session[r.cb.session] = "zombie"
  <2> SUFFICES ASSUME NEW r \in responses \ R
               PROVE  session'[r.cb.session] = session[r.cb.session]
    OBVIOUS
  <2>1. r.cb.session \in Session /\ r.cb.session # s
    BY <1>2, CallbackFields DEF TypeOK, Question
  <2>2. QED
    BY <1>1, <1>2, <2>1 DEF TypeOK
<1>9. consent' \in [Disk -> ConsentType]
  BY <1>2, HeardType DEF SessionRelease, Said
<1>10. QED
  BY <1>1, <1>2, <1>4, <1>5, <1>6, <1>7, <1>9, SweepPreserves

LEMMA ResponseTimerPreserves ==
  ASSUME IInv, NEW k, ResponseTimer(k)
  PROVE  IInv'
<1> DEFINE R == {r \in responses : r.id <= k}
           late(d) == {q \in R : \E r \in R : r.disk = d /\ r.id <= q.id}
           flagged == [d \in Disk |-> {q.cb.session : q \in late(d)}]
<1>1. /\ timedOut' = [s \in Session |-> timedOut[s] \/ \E r \in R : r.cb.session = s]
      /\ Sweep(R, context, flagged)
      /\ request' = Verdicts(R, context)
      /\ queue' = Deliver(queue, Asked)
      /\ UNCHANGED <<session, register, held, stage, claim, outcome>>
  BY DEF ResponseTimer
<1> HIDE DEF flagged
<1>2. TypeOK /\ context \in [Disk -> ContextType]
  BY ContextTyped DEF IInv
<1>3. responses' \in SUBSET Question
  BY <1>1, <1>2, SweepFacts
<1>4. queue' \in [Session -> SUBSET Question]
  BY <1>1, <1>2, <1>3, DeliverType DEF TypeOK, Asked
<1>5. request' \in [Disk -> RequestType]
  BY <1>1, <1>2, VerdictsType
<1>6. timedOut' \in [Session -> BOOLEAN]
  BY <1>1, <1>2 DEF TypeOK
<1>7. /\ session' \in [Session -> {"open", "zombie"}]
      /\ register' \in [Session -> SUBSET Callback]
      /\ held' \in [Session -> SUBSET Nat]
      /\ stage' \in [Disk -> Stage]
      /\ claim' \in [Disk -> ClaimType]
      /\ outcome' \in [Disk -> {"none", "performed", "refused", "abandoned"}]
  BY <1>1, <1>2 DEF TypeOK
<1>9. consent' \in [Disk -> ConsentType]
  BY <1>2, HeardType DEF ResponseTimer, Said
<1>10. QED
  BY <1>1, <1>2, <1>4, <1>5, <1>6, <1>7, <1>9, SweepPreserves

\* The actions that leave the list of questions and the consultations alone.
Quiet == UNCHANGED <<responses, nextID, context, candidates, active>>

LEMMA QuietPreserves ==
  ASSUME IInv, Quiet, TypeOK', session' = session,
         \A d \in Disk : stage'[d] = "appeared" => context[d].kind # "Peek"
  PROVE  IInv'
BY DEF IInv, Quiet, BusyWhileAsked, OneTopicPerDisk, CandidatesArePeeks, PeekContext,
       ZombieOwesOnlyPeek
LEMMA StageAppearPreserves ==
  ASSUME IInv, NEW d \in Disk, StageAppear(d)
  PROVE  IInv'
<1>1. TypeOK' /\ Quiet /\ session' = session
  BY DEF StageAppear, IInv, TypeOK, Quiet, Stage, clientVars
<1>2. context[d].kind = "None"
  BY DEF StageAppear, IInv, BusyWhileAsked
<1>3. \A e \in Disk : stage'[e] = "appeared" => context[e].kind # "Peek"
  BY <1>2 DEF StageAppear, IInv, TypeOK, PeekContext
<1>4. QED
  BY <1>1, <1>3, QuietPreserves

\* What clients queue, register, copy and give up, and how requests end.
LEMMA QuietActionsPreserve ==
  ASSUME IInv,
         \/ \E s \in Session, d \in Disk, kind \in RequestKind, release \in BOOLEAN :
               QueueRequest(s, d, kind, release)
         \/ \E s \in Session, c \in Callback : RegisterCallback(s, c)
         \/ \E s \in Session : CopyCallbackQueue(s)
         \/ \E s \in Session, d \in Disk : Unclaim(s, d)
         \/ \E d \in Disk : RequestRefused(d) \/ ClaimClaim(d) \/ RequestPerform(d)
         \/ UNCHANGED vars
  PROVE  IInv'
<1> USE DEF IInv, Quiet, clientVars, diskVars
<1> DEFINE Good == TypeOK' /\ Quiet /\ session' = session /\ stage' = stage
<1>1. ASSUME NEW s \in Session, NEW d \in Disk, NEW kind \in RequestKind,
             NEW release \in BOOLEAN, QueueRequest(s, d, kind, release)
      PROVE  Good
  BY <1>1 DEF QueueRequest, TypeOK, NoRequest, Dissenter
<1>2. ASSUME NEW s \in Session, NEW c \in Callback, RegisterCallback(s, c)
      PROVE  Good
  BY <1>2 DEF RegisterCallback, TypeOK
<1>3. ASSUME NEW s \in Session, CopyCallbackQueue(s)
      PROVE  Good
  <2>1. {r.id : r \in queue[s]} \subseteq Nat
    BY DEF TypeOK, Question
  <2>2. QED
    BY <1>3, <2>1 DEF CopyCallbackQueue, TypeOK
<1>4. ASSUME NEW s \in Session, NEW d \in Disk, Unclaim(s, d)
      PROVE  Good
  BY <1>4 DEF Unclaim, TypeOK, ClaimType
<1>5. ASSUME NEW d \in Disk, RequestRefused(d) \/ ClaimClaim(d) \/ RequestPerform(d)
      PROVE  Good
  <2>1. NoRequest \in RequestType
    BY DEF NoRequest, RequestType, Dissenter
  <2>2. CASE RequestRefused(d)
    BY <2>1, <2>2 DEF RequestRefused, Reply, TypeOK, RequestType
  <2>3. CASE RequestPerform(d)
    BY <2>1, <2>3 DEF RequestPerform, Reply, TypeOK, RequestType
  <2>4. CASE ClaimClaim(d)
    <3>1. \/ request[d].session = None
          \/ [session |-> request[d].session, release |-> request[d].release] \in ClaimType
      BY DEF TypeOK, ClaimType
    <3>2. claim' \in [Disk -> ClaimType]
      BY <2>4, <3>1 DEF ClaimClaim, TypeOK, ClaimType
    <3>3. QED
      BY <2>1, <2>4, <3>2 DEF ClaimClaim, Reply, TypeOK, RequestType
  <2>5. QED
    BY <1>5, <2>2, <2>3, <2>4
<1>6. ASSUME UNCHANGED vars
      PROVE  Good
  BY <1>6 DEF vars, TypeOK
<1>7. Good
  BY <1>1, <1>2, <1>3, <1>4, <1>5, <1>6
<1>8. QED
  BY <1>7, QuietPreserves DEF PeekContext

LEMMA ApprovePreserves ==
  ASSUME IInv, NEW d \in Disk, ClaimApprove(d) \/ RequestApprove(d)
  PROVE  IInv'
<1>1. TypeOK /\ request[d].kind \in RequestKind \cup {"None"} /\ ~active[d]
  BY DEF IInv, TypeOK, ClaimApprove, RequestApprove, CanDispatch
<1>2. request[d].kind \in RequestKind
  BY <1>1 DEF ClaimApprove, RequestApprove, ApprovalKind
<1>3. CASE RequestApprove(d)
  <2> DEFINE V == {c \in Registered(request[d].kind) : Reachable(c, d, {})}
  <2>1. V \subseteq Callback
    BY <1>1 DEF Registered, TypeOK
  <2>2. IsFiniteSet(V) /\ V \subseteq AnyCallback
    BY <2>1, ConstantAssumption, FS_Subset DEF AnyCallback
  <2>3. \A c \in V : c.kind = request[d].kind /\ session[c.session] = "open"
    BY DEF Registered, Reachable
  <2>4. QED
    BY <1>1, <1>2, <1>3, <2>2, <2>3, ConsultPreserves DEF RequestApprove, TypeOK
<1>4. CASE ClaimApprove(d)
  <2> DEFINE c == ReleaseCallback(claim[d].session)
             V == IF Reachable(c, d, {}) THEN {c} ELSE {}
  <2>5. consent' \in [Disk -> ConsentType]
    <3>1. claim[d].session \in Session \cup {None} /\ c.session = claim[d].session
      BY <1>1 DEF TypeOK, ClaimType, NoClaim, ReleaseCallback
    <3>2. PICK t \in Session \cup {None}, said \in Said : Ask(d, t, said)
      BY <1>4, <3>1 DEF ClaimApprove, Said
    <3>3. QED
      BY <1>1, <3>2 DEF Ask, TypeOK, ConsentType
  <2>1. CASE claim[d] = NoClaim /\ Consult(d, {})
    BY <1>1, <1>2, <2>1, <2>5, ConsultPreserves, FS_EmptySet
  <2>2. CASE claim[d] # NoClaim /\ Consult(d, V) /\ claim[d].release
    <3>1. CASE ~Reachable(c, d, {})
      BY <1>1, <1>2, <2>2, <2>5, <3>1, ConsultPreserves, FS_EmptySet
    <3>2. CASE Reachable(c, d, {})
      <4>1. claim[d].session \in Session
        <5>1. claim[d] \in ClaimType
          BY <1>1 DEF TypeOK
        <5>2. QED
          BY <2>2, <5>1 DEF ClaimType
      <4>2. V = {c} /\ c \in AnyCallback /\ c.kind = "Claim"
            /\ session[c.session] = "open"
        BY <3>2, <4>1 DEF AnyCallback, ReleaseCallback, Reachable
      <4>3. request[d].kind = "Claim"
        BY <1>4 DEF ClaimApprove
      <4>4. QED
        BY <1>1, <1>2, <2>2, <2>5, <4>2, <4>3, ConsultPreserves, FS_Singleton
    <3>3. QED
      BY <3>1, <3>2
  <2>3. CASE /\ request' = [request EXCEPT ![d].approve = TRUE,
                                          ![d].dissenter = "NotPermitted"]
             /\ UNCHANGED <<clientVars, responses, nextID, context, candidates,
                            active, stage, claim, outcome>>
    <3> DEFINE refused == [request[d] EXCEPT !.approve = TRUE, !.dissenter = "NotPermitted"]
    <3>4. request[d] \in RequestType
      BY <1>1 DEF TypeOK, RequestType
    <3>5. refused \in RequestType
      BY <3>4 DEF RequestType, Dissenter
    <3>6. request' = [request EXCEPT ![d] = refused]
      BY <2>3, <3>4 DEF RequestType
    <3>1. request' \in [Disk -> RequestType]
      BY <1>1, <3>5, <3>6 DEF TypeOK, RequestType
    <3>2. TypeOK' /\ Quiet /\ session' = session /\ stage' = stage
      BY <1>1, <2>3, <2>5, <3>1 DEF TypeOK, Quiet, clientVars, RequestType
    <3>3. QED
      BY <3>2, QuietPreserves DEF IInv, PeekContext
  <2>4. QED
    BY <1>4, <2>1, <2>2, <2>3 DEF ClaimApprove
<1>5. QED
  BY <1>3, <1>4

LEMMA NextIInv == IInv /\ [Next]_vars => IInv'
<1> SUFFICES ASSUME IInv, [Next]_vars PROVE IInv'
  OBVIOUS
<1>1. ASSUME NEW d \in Disk, DiskNext(d) \/ MediaDisappeared(d)
      PROVE  IInv'
  BY <1>1, StagePeekPreserves, StageAppearPreserves, ApprovePreserves,
     QuietActionsPreserve, MediaDisappearedPreserves DEF DiskNext
<1>2. ASSUME NEW s \in Session, ClientNext(s)
      PROVE  IInv'
  BY <1>2, QuietActionsPreserve, UnregisterCallbackPreserves, QueueResponsePreserves,
     SessionReleasePreserves DEF ClientNext
<1>3. ASSUME NEW r \in responses, ResponseTimer(r.id)
      PROVE  IInv'
  BY <1>3, ResponseTimerPreserves
<1>4. CASE UNCHANGED vars
  BY <1>4, QuietActionsPreserve
<1>5. QED
  BY <1>1, <1>2, <1>3, <1>4 DEF Next

-----------------------------------------------------------------------------
(* The theorems                                                            *)

\* The strengthened invariant holds in every reachable state.
THEOREM Invariance == Spec => []IInv
<1>1. Init => IInv
  BY InitIInv
<1>2. IInv /\ [Next]_vars => IInv'
  BY NextIInv
<1>3. QED
  BY <1>1, <1>2, PTL DEF Spec

\* Every variable keeps its type, for any number of disks and clients.
THEOREM TypeCorrect == Spec => []TypeOK
BY Invariance, PTL DEF IInv

\* A disk is busy with a consultation exactly while a question about it is on
\* the list of outstanding questions, whichever handler took questions off it.
THEOREM BusyExactlyWhileAsked == Spec => []BusyWhileAsked
BY Invariance, PTL DEF IInv

\* The single context slot of a disk suffices: all questions about the disk
\* are of the consultation in the slot.
THEOREM ContextSlotSuffices == Spec => []OneTopicPerDisk
BY Invariance, PTL DEF IInv

\* No approval waits for a session that was released.
THEOREM NoApprovalOfZombie == Spec => []ZombieOwesOnlyPeek
BY Invariance, PTL DEF IInv

\* A disk is announced only after all its peek callbacks had their say.
THEOREM PeeksFirst == Spec => []PeeksPrecedeAppearance
<1>1. IInv => PeeksPrecedeAppearance
  BY DEF IInv, PeekContext, OneTopicPerDisk, PeeksPrecedeAppearance
<1>2. QED
  BY <1>1, Invariance, PTL
=============================================================================
