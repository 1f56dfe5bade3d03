----------------------------- MODULE DAStageProofs -----------------------------
(***************************************************************************)
(* What holds of the staging of disks and the serving of requests, for any *)
(* number of disks, units, volumes and requests:                           *)
(*   - disks, units and stacked units are never given two things to do at a*)
(*     time (Exclusive);                                                   *)
(*   - the variables have their types, requests are served in their order, *)
(*     their clients are answered once, and a whole unit after its parts   *)
(*     (Orderly);                                                          *)
(*   - a volume that a disk left mounted is being unmounted, and an idle   *)
(*     daemon has nothing left to do (Settling);                           *)
(*   - a client that is told of success, is told the truth (Telling).      *)
(* What an operation does to a variable is said once, by a lemma about a   *)
(* step (ListStep, PathStep, Summary, WorkStep, QueueStep ...), and the    *)
(* invariants are shown from those.                                        *)
(***************************************************************************)
EXTENDS DAStage, DAListsProofs, TLAPS

\* What is known of the shape of an operation.
WorkShape ==
  \A w \in work : w = [op |-> w.op, disk |-> w.disk, req |-> w.req, status |-> w.status]

\* The flags say what the operations are, and the guards that read the flags
\* keep the operations apart: neither half is inductive without the other.
Exclusive == WorkShape /\ OneOperationPerDisk /\ OneCommandPerUnit /\ OneCommandPerStack

-----------------------------------------------------------------------------
(* The initial states have no operation.                                   *)
LEMMA InitExclusive == Init => Exclusive
  BY DEF Init, Exclusive, WorkShape, OneOperationPerDisk, OneCommandPerUnit,
         OneCommandPerStack

(* A step that leaves the operations and the flags alone keeps them apart; *)
(* disks only ever become zombies.                                         *)
LEMMA BusyUnchanged ==
  ASSUME Exclusive, UNCHANGED busyVars, zombie \subseteq zombie'
  PROVE  Exclusive'
  BY DEF Exclusive, WorkShape, OneOperationPerDisk, OneCommandPerUnit,
         OneCommandPerStack, busyVars

(* Starting an operation on a disk that is not busy, and, if it is a       *)
(* command, on a unit that is neither busy nor stacked with a busy one.    *)
LEMMA BeginExclusive ==
  ASSUME Exclusive, zombie' = zombie,
         NEW op, NEW d, NEW r,
         d \notin active, op \in Command => ~UnitBusy(d),
         Begin(op, d, r)
  PROVE  Exclusive'
  <1> DEFINE n == [op |-> op, disk |-> d, req |-> r, status |-> "running"]
  <1>1. /\ work' = work \cup {n}
        /\ active' = active \cup {d}
        /\ unitActive' = IF op \in Command THEN unitActive \cup {unitOf[d]} ELSE unitActive
    BY DEF Begin
  <1>2. WorkShape'
    BY <1>1 DEF Exclusive, WorkShape
  <1>n. n.op = op /\ n.disk = d
    OBVIOUS
  <1> HIDE DEF n
  <1>3. OneOperationPerDisk'
    <2>1. \A w \in work : w.disk # n.disk
      BY <1>n DEF Exclusive, OneOperationPerDisk
    <2>2. \A w, v \in work' : w.disk = v.disk => w = v
      BY <1>1, <2>1 DEF Exclusive, OneOperationPerDisk
    <2>3. active' = {w.disk : w \in work'}
      BY <1>1, <1>n DEF Exclusive, OneOperationPerDisk
    <2> QED BY <2>2, <2>3 DEF OneOperationPerDisk
  <1>4. OneCommandPerUnit'
    <2>1. CASE op \in Command
      <3>1. \A w \in work : w.op \in Command => unitOf[w.disk] # unitOf[n.disk]
        BY <1>n, <2>1 DEF UnitBusy, Exclusive, OneCommandPerUnit
      <3>2. \A w, v \in work' :
               w.op \in Command /\ v.op \in Command /\ unitOf[w.disk] = unitOf[v.disk]
               => w = v
        BY <1>1, <3>1 DEF Exclusive, OneCommandPerUnit
      <3>3. {w \in work' : w.op \in Command} = {w \in work : w.op \in Command} \cup {n}
        BY <1>1, <1>n, <2>1
      <3>4. unitActive' = {unitOf[w.disk] : w \in {v \in work' : v.op \in Command}}
        BY <1>1, <1>n, <2>1, <3>3 DEF Exclusive, OneCommandPerUnit
      <3> QED BY <3>2, <3>4 DEF OneCommandPerUnit
    <2>2. CASE op \notin Command
      BY <1>1, <1>n, <2>2 DEF Exclusive, OneCommandPerUnit
    <2> QED BY <2>1, <2>2
  <1>5. OneCommandPerStack'
    <2> SUFFICES ASSUME NEW w \in work', NEW v \in work',
                        w.op \in Command, v.op \in Command,
                        <<unitOf[w.disk], unitOf[v.disk]>> \in Related,
                        unitOf[w.disk] # unitOf[v.disk]
                 PROVE  w.disk \in zombie \/ v.disk \in zombie
      BY DEF OneCommandPerStack
    <2>1. CASE w \in work /\ v \in work
      BY <2>1 DEF Exclusive, OneCommandPerStack
    <2>2. CASE w = n /\ v \in work
      BY <1>n, <2>2 DEF Exclusive, OneCommandPerUnit, UnitBusy
    <2>3. CASE w \in work /\ v = n
      <3>1. <<unitOf[v.disk], unitOf[w.disk]>> \in Related
        BY ConstantAssumption
      <3> QED BY <1>n, <2>3, <3>1 DEF Exclusive, OneCommandPerUnit, UnitBusy
    <2> QED BY <1>1, <2>1, <2>2, <2>3
  <1> QED BY <1>2, <1>3, <1>4, <1>5 DEF Exclusive

(* Ending one.                                                             *)
LEMMA EndExclusive ==
  ASSUME Exclusive, zombie' = zombie, NEW w \in work, End(w)
  PROVE  Exclusive'
  BY DEF Exclusive, WorkShape, OneOperationPerDisk, OneCommandPerUnit,
         OneCommandPerStack, End

(* Going on with one as another: of a command only a command is made.      *)
LEMMA BecomesExclusive ==
  ASSUME Exclusive, zombie' = zombie, UNCHANGED <<active, unitActive>>,
         NEW w \in work, NEW op, NEW status,
         w.op \in Command <=> op \in Command,
         work' = (work \ {w}) \cup
                  {[op |-> op, disk |-> w.disk, req |-> w.req, status |-> status]}
  PROVE  Exclusive'
  <1> DEFINE n == [op |-> op, disk |-> w.disk, req |-> w.req, status |-> status]
  <1>1. work' = (work \ {w}) \cup {n}
    OBVIOUS
  <1>2. n.disk = w.disk /\ (n.op \in Command <=> w.op \in Command)
    OBVIOUS
  <1>3. WorkShape'
    BY <1>1 DEF Exclusive, WorkShape
  <1> HIDE DEF n
  <1>4. OneOperationPerDisk'
    BY <1>1, <1>2 DEF Exclusive, OneOperationPerDisk
  <1>5. OneCommandPerUnit'
    BY <1>1, <1>2 DEF Exclusive, OneCommandPerUnit
  <1>6. OneCommandPerStack'
    BY <1>1, <1>2 DEF Exclusive, OneCommandPerStack
  <1> QED BY <1>3, <1>4, <1>5, <1>6 DEF Exclusive

-----------------------------------------------------------------------------
(* The walk starts an operation only on a disk that is not busy.           *)
LEMMA WalkExclusive == Exclusive /\ Walk => Exclusive'
  <1> SUFFICES ASSUME Exclusive, Walk PROVE Exclusive'
    OBVIOUS
  <1>1. CASE DispatchBegin \/ DispatchRequests \/ DispatchEnd
    BY <1>1, BusyUnchanged
       DEF DispatchBegin, DispatchRequests, DispatchEnd, stageVars
  <1>2. ASSUME NEW d \in Listed,
               StageNothing(d) \/ StageMountWaits(d) \/ StageAppear(d)
               \/ \E enabled \in AutoMount : StageMount(d, enabled)
        PROVE  Exclusive'
    BY <1>2, BusyUnchanged
       DEF StageNothing, StageMountWaits, StageAppear, StageMount, stageVars
  <1>3. ASSUME NEW d \in Listed, StageProbe(d) PROVE Exclusive'
    <2>1. d \notin active /\ zombie' = zombie
      BY <1>3 DEF StageProbe
    <2>2. CASE UnitBusy(d)
      BY <1>3, <2>1, <2>2, BusyUnchanged DEF StageProbe
    <2>3. CASE ~UnitBusy(d)
      BY <1>3, <2>1, <2>3, BeginExclusive DEF StageProbe
    <2> QED BY <2>2, <2>3
  <1>4. ASSUME NEW d \in Listed, NEW asked \in Asked, StagePeek(d, asked)
        PROVE  Exclusive'
    <2>1. d \notin active /\ zombie' = zombie /\ "peek" \notin Command
      BY <1>4 DEF StagePeek, Command
    <2>2. CASE asked
      BY <1>4, <2>1, <2>2, BeginExclusive DEF StagePeek
    <2>3. CASE ~asked
      BY <1>4, <2>1, <2>3, BusyUnchanged DEF StagePeek
    <2> QED BY <2>2, <2>3
  <1>5. ASSUME NEW r \in Queued,
               RequestWaits(r) \/ MountReprobe(r) \/ RequestRejected(r) \/ RequestRefused(r)
        PROVE  Exclusive'
    BY <1>5, BusyUnchanged
       DEF RequestWaits, MountReprobe, RequestRejected, RequestRefused, stageVars
  <1>6. ASSUME NEW r \in Queued, NEW asked \in Asked, RequestApprove(r, asked)
        PROVE  Exclusive'
    <2> DEFINE d == req[r].disk
    <2>1. /\ d \notin active /\ zombie' = zombie
          /\ "tickle" \notin Command /\ "approval" \notin Command
      BY <1>6 DEF RequestApprove, Ready, Command, stageVars
    <2>2. \/ Begin("tickle", d, r) \/ Begin("approval", d, r) \/ UNCHANGED busyVars
      BY <1>6 DEF RequestApprove
    <2> HIDE DEF d
    <2> QED BY <2>1, <2>2, BeginExclusive, BusyUnchanged
  <1>7. ASSUME NEW r \in Queued, MountAuthorize(r) PROVE Exclusive'
    <2> DEFINE d == req[r].disk
    <2>1. /\ d \notin active /\ zombie' = zombie /\ "authorize" \notin Command
          /\ Begin("authorize", d, r)
      BY <1>7 DEF MountAuthorize, Ready, Command, stageVars
    <2> HIDE DEF d
    <2> QED BY <2>1, BeginExclusive
  <1>8. ASSUME NEW r \in Queued, RequestStart(r) PROVE Exclusive'
    <2> DEFINE d == req[r].disk
    <2>1. d \notin active /\ zombie' = zombie
      BY <1>8 DEF RequestStart, Ready, stageVars
    <2>2. \/ UNCHANGED busyVars
          \/ ~UnitBusy(d) /\ Begin(CommandOf(r), d, r)
      BY <1>8 DEF RequestStart
    <2> HIDE DEF d
    <2> QED BY <2>1, <2>2, BeginExclusive, BusyUnchanged
  <1> QED BY <1>1, <1>2, <1>3, <1>4, <1>5, <1>6, <1>7, <1>8 DEF Walk

(* A callback ends its operation or goes on with another.                  *)
LEMMA CallbackExclusive ==
  ASSUME Exclusive, NEW w \in work, Callbacks(w)
  PROVE  Exclusive'
  <1>1. zombie' = zombie
    BY DEF Callbacks, ProbeDone, PeekDone, TickleDone, ApprovalDone, AuthorizeDone,
           EjectDone, MountDone, UnmountDone, stageVars
  <1>2. \/ End(w)
        \/ w.op = "tickle" /\ Becomes(w, "approval", "running")
        \/ w.op \in {"eject", "ejectPID"} /\ Becomes(w, "ejectPID", "failed")
        \/ w.op \in {"unmount", "unmountPID"} /\ Becomes(w, "unmountPID", "failed")
    BY DEF Callbacks, ProbeDone, PeekDone, TickleDone, ApprovalDone, AuthorizeDone,
           EjectDone, MountDone, UnmountDone, NotesFailure
  <1>3. ASSUME NEW op, NEW status, w.op \in Command <=> op \in Command,
               Becomes(w, op, status)
        PROVE  Exclusive'
    BY <1>1, <1>3, BecomesExclusive DEF Becomes
  <1> QED BY <1>1, <1>2, <1>3, EndExclusive DEF Command

(* A thread only notes what came out.                                      *)
LEMMA ThreadExclusive == Exclusive /\ Threads => Exclusive'
  <1> SUFFICES ASSUME Exclusive, NEW w \in work, NEW status \in {"done", "failed"},
                      ThreadRuns(w, status)
               PROVE  Exclusive'
    BY DEF Threads
  <1>1. /\ zombie' = zombie /\ UNCHANGED <<active, unitActive>>
        /\ work' = (work \ {w}) \cup {[w EXCEPT !.status = status]}
    BY DEF ThreadRuns, stageVars
  <1>2. [w EXCEPT !.status = status] =
          [op |-> w.op, disk |-> w.disk, req |-> w.req, status |-> status]
    BY DEF Exclusive, WorkShape
  <1> QED BY <1>1, <1>2, BecomesExclusive

(* A disk that leaves takes its consultation with it, and no command.      *)
LEMMA EnvironmentExclusive == Exclusive /\ Environment => Exclusive'
  <1> SUFFICES ASSUME Exclusive, Environment PROVE Exclusive'
    OBVIOUS
  <1>1. ASSUME NEW d \in Disk, NEW late \in BOOLEAN, DiskAppears(d, late)
        PROVE  Exclusive'
    BY <1>1, BusyUnchanged DEF DiskAppears
  <1>2. ASSUME NEW d \in Listed, NEW verdict \in Verdict, NEW peeks \in BOOLEAN,
               DiskDisappears(d, verdict, peeks)
        PROVE  Exclusive'
    <2> DEFINE ends == IF peeks THEN {"approval"} ELSE {"approval", "peek"}
               over == {w \in work : w.disk = d /\ w.op \in ends}
    <2>1. /\ work' = work \ over
          /\ active' = IF over = {} THEN active ELSE active \ {d}
          /\ unitActive' = unitActive
          /\ zombie' = zombie \cup {d}
      BY <1>2 DEF DiskDisappears
    <2>2. \A w \in over : w \in work /\ w.disk = d /\ w.op \notin Command
      BY DEF Command
    <2> HIDE DEF over
    <2>3. WorkShape'
      BY <2>1 DEF Exclusive, WorkShape
    <2>4. OneOperationPerDisk'
      BY <2>1, <2>2 DEF Exclusive, OneOperationPerDisk
    <2>5. OneCommandPerUnit'
      <3>1. {w \in work' : w.op \in Command} = {w \in work : w.op \in Command}
        BY <2>1, <2>2
      <3> QED BY <3>1, <2>1 DEF Exclusive, OneCommandPerUnit
    <2>6. OneCommandPerStack'
      BY <2>1 DEF Exclusive, OneCommandPerStack
    <2> QED BY <2>3, <2>4, <2>5, <2>6 DEF Exclusive
  <1>3. ASSUME NEW d \in Listed, NEW kind \in RequestKind, NEW whole \in BOOLEAN,
               NEW force \in BOOLEAN, QueueRequest(d, kind, whole, force)
        PROVE  Exclusive'
    BY <1>3, BusyUnchanged DEF QueueRequest, stageVars
  <1> QED BY <1>1, <1>2, <1>3 DEF Environment

-----------------------------------------------------------------------------
(* What a step of the system does to them.                                 *)
LEMMA ExclusiveStep == Exclusive /\ Next => Exclusive'
  BY WalkExclusive, CallbackExclusive, ThreadExclusive, EnvironmentExclusive DEF Next

(* The flags and the operations agree and are kept apart by every step     *)
(* (__DAStageDispatch, its requests and their callbacks).                  *)
THEOREM ExclusiveInvariance == Spec => []Exclusive
  <1>1. Init => Exclusive
    BY InitExclusive
  <1>2. Exclusive /\ [Next]_vars => Exclusive'
    BY ExclusiveStep, BusyUnchanged DEF vars, stageVars
  <1> QED BY <1>1, <1>2, PTL DEF Spec

(* A unit runs one command at a time and its flag outlives no command and  *)
(* is cleared under none (DAUnitSetState).                                 *)
THEOREM UnitsTakeTurns == Spec => []OneCommandPerUnit
  <1>1. Exclusive => OneCommandPerUnit
    BY DEF Exclusive
  <1> QED BY <1>1, ExclusiveInvariance, PTL

(* Units whose media are stacked take turns too while their disks stay     *)
(* (DAUnitGetStateRecursively).                                            *)
THEOREM StacksTakeTurns == Spec => []OneCommandPerStack
  <1>1. Exclusive => OneCommandPerStack
    BY DEF Exclusive
  <1> QED BY <1>1, ExclusiveInvariance, PTL

(* The busy flag of a disk is set exactly while one operation is going on, *)
(* also when the disk leaves in the middle of it.                          *)
THEOREM DisksAreBusyOnce == Spec => []OneOperationPerDisk
  <1>1. Exclusive => OneOperationPerDisk
    BY DEF Exclusive
  <1> QED BY <1>1, ExclusiveInvariance, PTL

(* All of it: no operation finds the flag of another, and no callback frees *)
(* what another still uses.                                                *)
THEOREM AllTakeTurns == Spec => []TakeTurns
  <1>1. Exclusive => TakeTurns
    BY DEF Exclusive, TakeTurns
  <1> QED BY <1>1, ExclusiveInvariance, PTL

-----------------------------------------------------------------------------
(* What a step does to the requests.                                       *)

\* Two states of one request.
Alike(a, b) ==
  /\ a.kind = b.kind /\ a.disk = b.disk /\ a.whole = b.whole /\ a.link = b.link
  /\ a.automatic = b.automatic

\* a is request b after a step that answers some, judges some, starts some.
Becoming(a, b, r, answered, judged, started) ==
  /\ Alike(a, b)
  /\ IF r \in answered THEN b.answers = <<>> => Len(a.answers) <= 1
                       ELSE a.answers = b.answers
  /\ r \in judged \/ a.dissenter = b.dissenter
  /\ r \in started \/ (a.approved = b.approved /\ a.probed = b.probed)

\* Table p comes of table q: some are answered, judged, started.
Comes(p, q, answered, judged, started) ==
  /\ p \in Seq(Request) /\ Len(p) = Len(q)
  /\ \A r \in 1 .. Len(q) : Becoming(p[r], q[r], r, answered, judged, started)

\* A request when it is made.
Fresh(q, r) ==
  /\ ~q[r].approved /\ ~q[r].probed /\ Len(q[r].answers) <= 1
  /\ q[r].whole => q[r].disk \in Whole
  /\ q[r].link \subseteq 1 .. r - 1
  /\ \A s \in q[r].link : /\ q[s].disk # q[r].disk
                          /\ unitOf[q[s].disk] = unitOf[q[r].disk]
                          /\ q[s].kind = q[r].kind /\ ~q[s].automatic
                          /\ s .. r - 1 \subseteq q[r].link
  /\ q[r].link # {} => q[r].whole

\* A step.
Changes(answered, judged, started) ==
  /\ req' \in Seq(Request) /\ Len(req) <= Len(req')
  /\ \A r \in 1 .. Len(req) :
        Becoming(req'[r], req[r], r, answered, judged, started)
  /\ \A r \in Len(req) + 1 .. Len(req') : Fresh(req', r)

LEMMA IsSequence ==
  ASSUME NEW n \in Nat, NEW S, NEW p, DOMAIN p = 1 .. n, p = [i \in DOMAIN p |-> p[i]],
         \A i \in 1 .. n : p[i] \in S
  PROVE  p \in Seq(S) /\ Len(p) = n
<1>1. p \in [1 .. n -> S]
  OBVIOUS
<1> QED BY <1>1

LEMMA RequestFields ==
  ASSUME NEW a \in Request
  PROVE  /\ a.disk \in Disk /\ a.link \in SUBSET Nat /\ a.answers \in Seq(BOOLEAN)
         /\ a.dissenter \in Dissent /\ a.kind \in Kind
         /\ a.approved \in BOOLEAN /\ a.whole \in BOOLEAN /\ a.probed \in BOOLEAN
  BY DEF Request

Told(a, x) == [a EXCEPT !.answers = Append(@, x)]

LEMMA AnswerOne ==
  ASSUME NEW a \in Request, NEW x \in BOOLEAN, NEW r, NEW A, NEW J, NEW S, r \in A
  PROVE  Told(a, x) \in Request /\ Becoming(Told(a, x), a, r, A, J, S)
<1> DEFINE p == Told(a, x)
<1>1. a.answers \in Seq(BOOLEAN)
  BY RequestFields
<1>2. Append(a.answers, x) \in Seq(BOOLEAN) /\ (a.answers = <<>> => Len(Append(a.answers, x)) <= 1)
  BY <1>1
<1>3. p \in Request
  BY <1>2 DEF Request, Told
<1>4. /\ p.kind = a.kind /\ p.disk = a.disk /\ p.whole = a.whole /\ p.link = a.link
      /\ p.answers = Append(a.answers, x) /\ p.dissenter = a.dissenter
      /\ p.approved = a.approved /\ p.probed = a.probed /\ p.automatic = a.automatic
  BY DEF Request, Told
<1> HIDE DEF p
<1>5. Becoming(p, a, r, A, J, S)
  BY <1>2, <1>4 DEF Becoming, Alike
<1> QED BY <1>3, <1>5 DEF p

\* What the callback of a request is told.
Said(q, r, success) ==
  IF q[r].whole THEN \A s \in q[r].link \cup {r} : q[s].dissenter = "none" ELSE success

LEMMA AnsweredComes ==
  ASSUME NEW q \in Seq(Request), NEW R, NEW success \in BOOLEAN
  PROVE  Comes(Answered(q, R, success), q, R, {}, {})
<1> DEFINE p == Answered(q, R, success)
<1>1. p = [r \in DOMAIN q |->
             IF r \in R /\ q[r].callback
             THEN Told(q[r], Said(q, r, success)) ELSE q[r]]
  BY DEF Answered, Said, Told
<1>2. \A r \in 1 .. Len(q) : Said(q, r, success) \in BOOLEAN /\ q[r] \in Request
  <2>1. ASSUME NEW r \in 1 .. Len(q) PROVE Said(q, r, success) \in BOOLEAN
    <3>1. CASE q[r].whole
      BY <3>1 DEF Said
    <3>2. CASE ~q[r].whole
      BY <3>2 DEF Said
    <3> QED BY <3>1, <3>2
  <2> QED BY <2>1
<1>5. DOMAIN q = 1 .. Len(q) /\ Len(q) \in Nat
  OBVIOUS
<1> HIDE DEF p
<1>3. ASSUME NEW r \in 1 .. Len(q)
      PROVE  p[r] \in Request /\ Becoming(p[r], q[r], r, R, {}, {})
  <2>1. p[r] = IF r \in R /\ q[r].callback
               THEN Told(q[r], Said(q, r, success)) ELSE q[r]
    BY <1>1, <1>5
  <2>2. CASE r \in R /\ q[r].callback
    BY <1>2, <2>1, <2>2, AnswerOne
  <2>3. CASE ~(r \in R /\ q[r].callback)
    BY <1>2, <2>1, <2>3 DEF Becoming, Alike
  <2> QED BY <2>2, <2>3
<1>6. DOMAIN p = 1 .. Len(q) /\ p = [r \in DOMAIN p |-> p[r]]
  BY <1>1, <1>5
<1>4. p \in Seq(Request) /\ Len(p) = Len(q)
  BY <1>3, <1>5, <1>6, IsSequence
<1>7. \A r \in 1 .. Len(q) : Becoming(p[r], q[r], r, R, {}, {})
  BY <1>3
<1> QED
  BY <1>4, <1>7 DEF Comes, p

LEMMA ComesSame ==
  ASSUME NEW q \in Seq(Request), NEW J, NEW S PROVE Comes(q, q, {}, J, S)
<1>1. \A r \in 1 .. Len(q) : Becoming(q[r], q[r], r, {}, J, S)
  BY DEF Becoming, Alike
<1> QED BY <1>1 DEF Comes

\* Judged or started first, then answered.
LEMMA ComesTwice ==
  ASSUME NEW p, NEW q, NEW o, NEW A, NEW J, NEW S,
         Comes(p, q, A, {}, {}), Comes(q, o, {}, J, S)
  PROVE  Comes(p, o, A, J, S)
<1>1. p \in Seq(Request) /\ Len(p) = Len(q) /\ Len(q) = Len(o)
  BY DEF Comes
<1>2. \A r \in 1 .. Len(o) : Becoming(p[r], o[r], r, A, J, S)
  BY <1>1 DEF Comes, Becoming, Alike
<1> QED BY <1>1, <1>2 DEF Comes

LEMMA DissentComes ==
  ASSUME NEW q \in Seq(Request), NEW r, NEW v \in Dissent
  PROVE  Comes([q EXCEPT ![r].dissenter = v], q, {}, {r}, {})
<1> DEFINE p == [q EXCEPT ![r].dissenter = v]
<1>1. p = [i \in DOMAIN q |-> IF i = r THEN [q[i] EXCEPT !.dissenter = v] ELSE q[i]]
  OBVIOUS
<1>4. DOMAIN q = 1 .. Len(q) /\ Len(q) \in Nat
  OBVIOUS
<1> HIDE DEF p
<1>2. ASSUME NEW i \in 1 .. Len(q)
      PROVE  p[i] \in Request /\ Becoming(p[i], q[i], i, {}, {r}, {})
  <2>1. q[i] \in Request
    OBVIOUS
  <2>2. p[i] = IF i = r THEN [q[i] EXCEPT !.dissenter = v] ELSE q[i]
    BY <1>1, <1>4
  <2>3. CASE i = r
    BY <2>1, <2>2, <2>3 DEF Request, Becoming, Alike
  <2>4. CASE i # r
    BY <2>1, <2>2, <2>4 DEF Becoming, Alike
  <2> QED BY <2>3, <2>4
<1>5. DOMAIN p = 1 .. Len(q) /\ p = [i \in DOMAIN p |-> p[i]]
  BY <1>1, <1>4
<1>3. p \in Seq(Request) /\ Len(p) = Len(q)
  BY <1>2, <1>4, <1>5, IsSequence
<1>6. \A i \in 1 .. Len(q) : Becoming(p[i], q[i], i, {}, {r}, {})
  BY <1>2
<1> QED BY <1>3, <1>6 DEF Comes, p

LEMMA JudgedComes ==
  ASSUME NEW q \in Seq(Request), NEW r, NEW v \in Dissent
  PROVE  Comes(Judged(q, r, v), q, {}, {r}, {})
  BY DissentComes, ComesSame DEF Judged

LEMMA ComesChanges ==
  ASSUME NEW A, NEW J, NEW S, req \in Seq(Request), Comes(req', req, A, J, S)
  PROVE  Changes(A, J, S)
  BY DEF Comes, Changes

LEMMA ChangesNone ==
  ASSUME req \in Seq(Request), req' = req
  PROVE  Changes({}, {}, {})
  BY ComesSame, ComesChanges

\* Where the disk of a queued request is: only the forced unmount of a disk that
\* left is queued without it.
Placed(r) ==
  \/ req[r].disk \in Listed
  \/ req[r].disk \in zombie /\ req[r].kind = "Unmount" /\ req[r].dissenter = "none"

Moves(answered, judged, started) ==
  /\ Changes(answered, judged, started)
  /\ requests' \in Seq(1 .. Len(req'))
  /\ Rising(requests) => Rising(requests')
  /\ \A r \in Queued' \ Queued :
        /\ r \in Len(req) + 1 .. Len(req') /\ req'[r].answers = <<>> /\ Placed(r)'
        /\ req'[r].link \subseteq Queued'

RequestTypes == req \in Seq(Request) /\ requests \in Seq(1 .. Len(req))

LEMMA QueuedEntries == Queued = Entries(requests) /\ Queued' = Entries(requests')
  BY DEF Queued, Entries

LEMMA MovesInPlace ==
  ASSUME RequestTypes, NEW A, NEW J, NEW S, Comes(req', req, A, J, S), requests' = requests
  PROVE  Moves(A, J, S) /\ Queued' = Queued
<1>1. Queued' = Queued
  BY DEF Queued
<1>2. Changes(A, J, S) /\ Len(req') = Len(req)
  BY ComesChanges DEF RequestTypes, Comes
<1>3. Rising(requests) => Rising(requests')
  OBVIOUS
<1> QED BY <1>1, <1>2, <1>3 DEF Moves, RequestTypes

LEMMA MovesNot ==
  ASSUME RequestTypes, UNCHANGED reqVars
  PROVE  Moves({}, {}, {}) /\ Queued' = Queued
<1>1. req' = req /\ requests' = requests
  BY DEF reqVars
<1>2. Comes(req', req, {}, {}, {})
  BY <1>1, ComesSame DEF RequestTypes
<1> QED BY <1>1, <1>2, MovesInPlace

(* Taking an entry off a list.                                             *)
Off(q, c) == SubSeq(q, 1, c - 1) \o SubSeq(q, c + 1, Len(q))
Past(c, k) == IF k < c THEN k ELSE k + 1

LEMMA TakenOff ==
  ASSUME NEW T, NEW q \in Seq(T), NEW c \in 1 .. Len(q), NEW p, p = Off(q, c)
  PROVE  /\ p \in Seq(T) /\ Len(p) = Len(q) - 1
         /\ \A k \in 1 .. Len(p) : p[k] = q[Past(c, k)]
<1> DEFINE a == SubSeq(q, 1, c - 1)
           b == SubSeq(q, c + 1, Len(q))
<1>0. Len(q) \in Nat /\ c \in Nat /\ 1 <= c /\ c <= Len(q)
  OBVIOUS
<1>1. a \in Seq(T) /\ Len(a) = c - 1 /\ \A k \in 1 .. c - 1 : a[k] = q[k]
  OBVIOUS
<1>2. /\ b \in Seq(T) /\ Len(b) = Len(q) - c
      /\ \A k \in 1 .. Len(q) - c : b[k] = q[c + k]
  OBVIOUS
<1> HIDE DEF a, b
<1>3. p = a \o b
  BY DEF a, b, Off
<1>4. p \in Seq(T)
  BY <1>1, <1>2, <1>3
<1>7. Len(p) = Len(a) + Len(b)
  <2>1. a \in Seq(T) /\ b \in Seq(T)
    BY <1>1, <1>2
  <2>2. Len(a \o b) = Len(a) + Len(b)
    BY <2>1
  <2> QED BY <1>3, <2>2
<1>8. Len(p) = Len(q) - 1
  BY <1>0, <1>1, <1>2, <1>7
<1>5. \A k \in 1 .. Len(p) : p[k] = IF k <= Len(a) THEN a[k] ELSE b[k - Len(a)]
  BY <1>1, <1>2, <1>3, <1>7
<1>6. ASSUME NEW k \in 1 .. Len(p) PROVE p[k] = q[Past(c, k)]
  <2>0. k \in Nat /\ 1 <= k /\ k <= Len(q) - 1
    BY <1>0, <1>8
  <2>1. CASE k < c
    <3>1. k \in 1 .. c - 1 /\ k <= Len(a)
      BY <1>0, <1>1, <2>0, <2>1
    <3> QED BY <1>1, <1>5, <2>1, <3>1 DEF Past
  <2>2. CASE ~(k < c)
    <3>1. k - Len(a) \in 1 .. Len(q) - c /\ c + (k - Len(a)) = k + 1 /\ ~(k <= Len(a))
      BY <1>0, <1>1, <2>0, <2>2
    <3>2. b[k - Len(a)] = q[k + 1]
      BY <1>2, <3>1
    <3> QED BY <1>5, <2>2, <3>1, <3>2 DEF Past
  <2> QED BY <2>1, <2>2
<1> QED BY <1>4, <1>6, <1>8

OneLess(p, q, c) ==
  Len(p) = Len(q) - 1 /\ \A k \in 1 .. Len(p) : p[k] = q[Past(c, k)]

LEMMA TakenRising ==
  ASSUME NEW n \in Nat, NEW q \in Seq(1 .. n), NEW c \in 1 .. Len(q), NEW p, p = Off(q, c)
  PROVE  /\ Rising(q) => Rising(p) /\ Entries(p) = Entries(q) \ {q[c]}
         /\ Entries(p) \subseteq Entries(q)
         /\ p \in Seq(1 .. n) /\ OneLess(p, q, c)
<1>1. p \in Seq(1 .. n) /\ Len(p) = Len(q) - 1 /\ \A k \in 1 .. Len(p) : p[k] = q[Past(c, k)]
  BY TakenOff
<1>2. /\ DOMAIN p = 1 .. Len(p) /\ DOMAIN q = 1 .. Len(q)
      /\ Len(q) \in Nat /\ c \in Nat /\ 1 <= c /\ c <= Len(q)
  <2>1. PICK T : T = 1 .. n
    OBVIOUS
  <2>2. p \in Seq(T) /\ q \in Seq(T)
    BY <1>1, <2>1
  <2>3. DOMAIN p = 1 .. Len(p) /\ DOMAIN q = 1 .. Len(q) /\ Len(q) \in Nat
    BY <2>2
  <2> QED BY <2>3
<1>3. /\ \A k \in DOMAIN p : Past(c, k) \in DOMAIN q /\ Past(c, k) # c /\ p[k] = q[Past(c, k)]
      /\ \A k, l \in DOMAIN p : k < l => Past(c, k) < Past(c, l)
  <2>0. Len(p) = Len(q) - 1
    BY <1>1
  <2>1. \A k \in DOMAIN p : k \in Nat /\ 1 <= k /\ k + 1 <= Len(q)
    BY <1>2, <2>0
  <2>2. \A k \in DOMAIN p : Past(c, k) \in DOMAIN q /\ Past(c, k) # c
    BY <1>2, <2>1 DEF Past
  <2>3. \A k, l \in DOMAIN p : k < l => Past(c, k) < Past(c, l)
    BY <1>2, <2>1 DEF Past
  <2> QED BY <1>1, <1>2, <2>2, <2>3
<1>4. \A m \in DOMAIN q : m # c => \E k \in DOMAIN p : Past(c, k) = m
  <2>1. ASSUME NEW m \in DOMAIN q, m # c PROVE \E k \in DOMAIN p : Past(c, k) = m
    <3>1. CASE m < c
      <4>1. m \in DOMAIN p /\ Past(c, m) = m
        BY <1>1, <1>2, <3>1 DEF Past
      <4> QED BY <4>1
    <3>2. CASE m > c
      <4>1. m - 1 \in DOMAIN p /\ ~(m - 1 < c) /\ (m - 1) + 1 = m
        <5>1. m \in Nat /\ 1 <= m /\ m <= Len(q) /\ Len(p) = Len(q) - 1 /\ DOMAIN p = 1 .. Len(p)
          BY <1>1, <1>2
        <5> HIDE <1>1
        <5> QED BY <1>2, <3>2, <5>1
      <4>2. Past(c, m - 1) = m
        BY <4>1 DEF Past
      <4> QED BY <4>1, <4>2
    <3> QED BY <1>2, <2>1, <3>1, <3>2
  <2> QED BY <2>1
<1>5. Entries(p) \subseteq Entries(q)
  BY <1>3 DEF Entries
<1>6. ASSUME Rising(q) PROVE Rising(p)
  BY <1>3, <1>6 DEF Rising
<1>7. ASSUME Rising(q) PROVE Entries(p) = Entries(q) \ {q[c]}
  <2>1. \A m \in DOMAIN q : q[m] \in Nat /\ (m # c => q[m] # q[c])
    <3>1. \A m \in DOMAIN q : q[m] \in Nat /\ m \in Nat
      BY <1>2
    <3>2. ASSUME NEW m \in DOMAIN q, m # c PROVE q[m] # q[c]
      <4>1. m < c \/ c < m
        BY <1>2, <3>2
      <4> QED BY <1>2, <1>7, <3>1, <4>1 DEF Rising
    <3> QED BY <3>1, <3>2
  <2>2. Entries(p) \subseteq Entries(q) \ {q[c]}
    BY <1>3, <2>1 DEF Entries
  <2>3. Entries(q) \ {q[c]} \subseteq Entries(p)
    BY <1>3, <1>4 DEF Entries
  <2> QED BY <2>2, <2>3
<1> QED BY <1>1, <1>5, <1>6, <1>7 DEF OneLess

LEMMA MovesTaken ==
  ASSUME RequestTypes, NEW A, NEW J, NEW S, Comes(req', req, A, J, S),
         NEW r, Dispatching(r), Take
  PROVE  /\ Moves(A, J, S)
         /\ Rising(requests) => Queued' = Queued \ {r}
         /\ \A k \in DOMAIN requests' :
              k < cursor.i => k \in DOMAIN requests /\ requests'[k] = requests[k]
<1>1. /\ cursor.i \in 1 .. Len(requests) /\ r = requests[cursor.i]
      /\ Len(req) \in Nat /\ requests \in Seq(1 .. Len(req))
  BY DEF Dispatching, RequestTypes
<1>2. requests' = Off(requests, cursor.i)
  BY DEF Take, Off
<1>3. requests' \in Seq(1 .. Len(req)) /\ OneLess(requests', requests, cursor.i)
  BY <1>1, <1>2, TakenRising
<1>4. /\ Rising(requests) => Rising(requests')
                             /\ Entries(requests') = Entries(requests) \ {requests[cursor.i]}
      /\ Entries(requests') \subseteq Entries(requests)
  BY <1>1, <1>2, TakenRising
<1>5. Changes(A, J, S) /\ Len(req') = Len(req)
  BY ComesChanges DEF RequestTypes, Comes
<1>6. Queued' \subseteq Queued
  BY <1>4, QueuedEntries
<1>7. Moves(A, J, S)
  BY <1>3, <1>4, <1>5, <1>6 DEF Moves
<1>8. Rising(requests) => Queued' = Queued \ {r}
  BY <1>1, <1>4, QueuedEntries
<1>9. \A k \in DOMAIN requests' :
        k < cursor.i => k \in DOMAIN requests /\ requests'[k] = requests[k]
  <2>1. \A k \in DOMAIN requests' : k < cursor.i => Past(cursor.i, k) = k /\ k \in DOMAIN requests
    BY <1>1, <1>3 DEF Past, OneLess
  <2>2. DOMAIN requests' = 1 .. Len(requests')
    BY <1>3
  <2> QED BY <1>3, <2>1, <2>2 DEF OneLess
<1> QED BY <1>7, <1>8, <1>9

\* A new request, which stands for itself.
Alone(n) ==
  /\ n \in Request /\ ~n.approved /\ ~n.probed /\ ~n.whole
  /\ n.link = {} /\ n.answers = <<>>

LEMMA NewAlone ==
  ASSUME NEW kind \in Kind, NEW d \in Disk, NEW force \in BOOLEAN
  PROVE  /\ Alone(NewRequest(kind, d)) /\ NewRequest(kind, d).disk = d
         /\ Alone([NewRequest(kind, d) EXCEPT !.automatic = TRUE])
         /\ [NewRequest(kind, d) EXCEPT !.automatic = TRUE].disk = d
         /\ LET n == [NewRequest(kind, d) EXCEPT !.force = force]
            IN Alone(n) /\ n.disk = d /\ n.kind = kind /\ n.dissenter = "none"
         /\ LET n == [NewRequest(kind, d) EXCEPT !.force = force, !.callback = TRUE]
            IN Alone(n) /\ n.disk = d /\ n.kind = kind
<1> DEFINE n == NewRequest(kind, d)
<1>1. /\ n \in Request /\ n.kind = kind /\ n.disk = d /\ n.whole = FALSE /\ n.link = {}
      /\ n.approved = FALSE /\ n.probed = FALSE /\ n.dissenter = "none" /\ n.answers = <<>>
  BY DEF NewRequest, Request, Dissent
<1> HIDE DEF n
<1>2. Alone(n)
  BY <1>1 DEF Alone
<1>3. Alone([n EXCEPT !.automatic = TRUE]) /\ [n EXCEPT !.automatic = TRUE].disk = d
  BY <1>1 DEF Alone, Request
<1>4. LET m == [n EXCEPT !.force = force]
      IN Alone(m) /\ m.disk = d /\ m.kind = kind /\ m.dissenter = "none"
  BY <1>1 DEF Alone, Request
<1>5. LET m == [n EXCEPT !.force = force, !.callback = TRUE]
      IN Alone(m) /\ m.disk = d /\ m.kind = kind
  BY <1>1 DEF Alone, Request
<1> QED BY <1>1, <1>2, <1>3, <1>4, <1>5 DEF n

LEMMA AppendEntry ==
  ASSUME NEW T, NEW q \in Seq(T), NEW n
  PROVE  /\ DOMAIN Append(q, n) = 1 .. Len(q) + 1 /\ Len(Append(q, n)) = Len(q) + 1
         /\ Append(q, n)[Len(q) + 1] = n /\ \A i \in 1 .. Len(q) : Append(q, n)[i] = q[i]
         /\ Entries(Append(q, n)) = Entries(q) \cup {n}
         /\ \A U : T \subseteq U /\ n \in U => Append(q, n) \in Seq(U)
<1>1. /\ DOMAIN Append(q, n) = 1 .. Len(q) + 1 /\ Len(Append(q, n)) = Len(q) + 1
      /\ Append(q, n)[Len(q) + 1] = n /\ \A i \in 1 .. Len(q) : Append(q, n)[i] = q[i]
      /\ DOMAIN q = 1 .. Len(q) /\ Len(q) \in Nat
  OBVIOUS
<1>2. ASSUME NEW U, T \subseteq U, n \in U PROVE Append(q, n) \in Seq(U)
  <2>1. q \in Seq(U)
    BY <1>2
  <2> QED BY <1>2, <2>1
<1>3. Entries(Append(q, n)) = Entries(q) \cup {n}
  BY <1>1 DEF Entries
<1> QED BY <1>1, <1>2, <1>3

LEMMA AppendRising ==
  ASSUME NEW n \in Nat, NEW q \in Seq(1 .. n), Rising(q), NEW m \in Nat, n < m
  PROVE  Rising(Append(q, m))
<1>1. /\ DOMAIN Append(q, m) = 1 .. Len(q) + 1
      /\ Append(q, m)[Len(q) + 1] = m /\ \A i \in 1 .. Len(q) : Append(q, m)[i] = q[i]
      /\ DOMAIN q = 1 .. Len(q) /\ Len(q) \in Nat
  BY AppendEntry
<1>2. \A i \in 1 .. Len(q) : q[i] < m
  BY <1>1
<1>3. \A i \in 1 .. Len(q) + 1 : i \in 1 .. Len(q) \/ i = Len(q) + 1
  BY <1>1
<1>4. \A i \in 1 .. Len(q) : i < Len(q) + 1 /\ ~(Len(q) + 1 < i)
  BY <1>1
<1>5. ASSUME NEW i \in 1 .. Len(q) + 1, NEW j \in 1 .. Len(q) + 1, i < j
      PROVE  Append(q, m)[i] < Append(q, m)[j]
  <2>1. i \in 1 .. Len(q)
    BY <1>1, <1>3, <1>5
  <2>2. CASE j \in 1 .. Len(q)
    BY <1>1, <1>5, <2>1, <2>2 DEF Rising
  <2>3. CASE j = Len(q) + 1
    BY <1>1, <1>2, <2>1, <2>3
  <2> QED BY <1>3, <2>2, <2>3
<1> QED BY <1>1, <1>5 DEF Rising

LEMMA AppendChanges ==
  ASSUME RequestTypes, NEW A, NEW J, NEW S, NEW q, Comes(q, req, A, J, S),
         NEW n, Alone(n), req' = Append(q, n)
  PROVE  /\ Changes(A, J, S)
         /\ Len(req') = Len(req) + 1 /\ req'[Len(req) + 1] = n
<1>1. /\ q \in Seq(Request) /\ Len(q) = Len(req) /\ n \in Request
      /\ Len(req) \in Nat
  BY DEF Comes, Alone, RequestTypes
<1>2. /\ req' \in Seq(Request) /\ Len(req') = Len(req) + 1 /\ req'[Len(req) + 1] = n
      /\ \A r \in 1 .. Len(req) : req'[r] = q[r]
  BY <1>1, AppendEntry
<1>3. \A r \in 1 .. Len(req) : Becoming(req'[r], req[r], r, A, J, S)
  BY <1>2 DEF Comes
<1>4. \A r \in Len(req) + 1 .. Len(req') : r = Len(req) + 1
  BY <1>1, <1>2
<1>5. Fresh(req', Len(req) + 1)
  BY <1>2 DEF Fresh, Alone
<1> QED BY <1>1, <1>2, <1>3, <1>4, <1>5 DEF Changes

LEMMA MovesAppended ==
  ASSUME RequestTypes, NEW A, NEW J, NEW S, NEW q, Comes(q, req, A, J, S),
         NEW n, Alone(n), req' = Append(q, n),
         NEW p \in Seq(1 .. Len(req)), Entries(p) \subseteq Queued,
         Rising(requests) => Rising(p),
         requests' = Append(p, Len(req')), NEW k, k = Len(req) + 1, Placed(k)'
  PROVE  /\ Moves(A, J, S)
         /\ Queued' = Entries(p) \cup {Len(req) + 1}
         /\ Len(req') = Len(req) + 1 /\ req'[Len(req) + 1] = n
<1>1. /\ Changes(A, J, S)
      /\ Len(req') = Len(req) + 1 /\ req'[Len(req) + 1] = n
  BY AppendChanges
<1>0. Len(req) \in Nat
  BY DEF RequestTypes
<1>2. 1 .. Len(req) \subseteq 1 .. Len(req') /\ Len(req') \in 1 .. Len(req')
  BY <1>0, <1>1
<1>3. requests' \in Seq(1 .. Len(req')) /\ Entries(requests') = Entries(p) \cup {Len(req')}
  <2>1. PICK m : m = Len(req')
    OBVIOUS
  <2>2. Entries(Append(p, m)) = Entries(p) \cup {m}
    BY AppendEntry
  <2>3. \A U : 1 .. Len(req) \subseteq U /\ m \in U => Append(p, m) \in Seq(U)
    BY AppendEntry
  <2> QED BY <1>2, <2>1, <2>2, <2>3
<1>4. Rising(requests) => Rising(requests')
  <2>1. Len(req') \in Nat /\ Len(req) < Len(req')
    BY <1>0, <1>1
  <2> QED BY <1>0, <2>1, AppendRising
<1>5. Queued' = Entries(p) \cup {Len(req) + 1}
  BY <1>1, <1>3, QueuedEntries
<1>6. /\ req'[Len(req) + 1].answers = <<>> /\ Len(req) + 1 \in Len(req) + 1 .. Len(req')
      /\ req'[Len(req) + 1].link = {}
  BY <1>0, <1>1 DEF Alone
<1>7. \A r \in Queued' \ Queued : r = Len(req) + 1
  BY <1>5
<1> QED BY <1>1, <1>3, <1>4, <1>5, <1>6, <1>7 DEF Moves

(* A client's request becomes one, or one for every disk of the unit, or is *)
(* answered at once.                                                       *)
Joined(q, p) == q \o p

IsJoined(T, w, q, p) ==
  /\ w \in Seq(T) /\ Len(w) = Len(q) + Len(p)
  /\ \A i \in 1 .. Len(q) : w[i] = q[i]
  /\ \A i \in 1 .. Len(p) : w[Len(q) + i] = p[i]

LEMMA JoinedEntries ==
  ASSUME NEW T, NEW q \in Seq(T), NEW p \in Seq(T)
  PROVE  IsJoined(T, Joined(q, p), q, p)
  BY DEF Joined, IsJoined

LEMMA JoinedRising ==
  ASSUME NEW n \in Nat, NEW q \in Seq(1 .. n), Rising(q), NEW k \in Nat, NEW p,
         p = [i \in 1 .. k |-> n + i]
  PROVE  Rising(Joined(q, p))
<1>1. p \in Seq(Nat) /\ Len(p) = k /\ q \in Seq(Nat) /\ Len(q) \in Nat
  <2>1. /\ DOMAIN p = 1 .. k /\ p = [i \in DOMAIN p |-> p[i]]
        /\ \A i \in 1 .. k : p[i] \in Nat
    OBVIOUS
  <2>2. p \in Seq(Nat) /\ Len(p) = k
    <3>1. PICK f : f = p
      OBVIOUS
    <3>2. /\ DOMAIN f = 1 .. k /\ f = [i \in DOMAIN f |-> f[i]]
          /\ \A i \in 1 .. k : f[i] \in Nat
      BY <2>1, <3>1
    <3>3. f \in Seq(Nat) /\ Len(f) = k
      BY <3>2, IsSequence
    <3> QED BY <3>1, <3>3
  <2>3. PICK T : T = 1 .. n
    OBVIOUS
  <2>4. q \in Seq(T) /\ \A t \in T : t \in Nat
    BY <2>3
  <2>5. /\ Len(q) \in Nat /\ DOMAIN q = 1 .. Len(q) /\ q = [i \in DOMAIN q |-> q[i]]
        /\ \A i \in 1 .. Len(q) : q[i] \in Nat
    BY <2>4
  <2>6. q \in Seq(Nat)
    BY <2>5, IsSequence
  <2> QED BY <2>2, <2>5, <2>6
<1>2. /\ Joined(q, p) \in Seq(Nat) /\ Len(Joined(q, p)) = Len(q) + k
      /\ \A i \in 1 .. Len(q) : Joined(q, p)[i] = q[i]
      /\ \A i \in 1 .. k : Joined(q, p)[Len(q) + i] = p[i]
  <2>1. IsJoined(Nat, Joined(q, p), q, p)
    BY <1>1, JoinedEntries
  <2> QED BY <1>1, <2>1 DEF IsJoined
<1> DEFINE o == Joined(q, p)
<1>3. /\ \A i \in 1 .. Len(q) : o[i] = q[i] /\ o[i] \in 1 .. n
      /\ \A i \in 1 .. k : o[Len(q) + i] = n + i
      /\ DOMAIN o = 1 .. Len(q) + k
  <2>1. \A i \in 1 .. Len(q) : q[i] \in 1 .. n
    OBVIOUS
  <2>2. \A i \in 1 .. k : p[i] = n + i
    OBVIOUS
  <2>3. DOMAIN o = 1 .. Len(o)
    BY <1>2
  <2> QED BY <1>2, <2>1, <2>2, <2>3
<1> HIDE DEF o
<1>4. ASSUME NEW i \in 1 .. Len(q) + k, i \notin 1 .. Len(q)
      PROVE  i - Len(q) \in 1 .. k /\ o[i] = n + (i - Len(q))
  <2>1. i - Len(q) \in 1 .. k /\ i = Len(q) + (i - Len(q))
    BY <1>1, <1>4
  <2> QED BY <1>3, <2>1
<1>5. ASSUME NEW i \in 1 .. Len(q) + k, NEW j \in 1 .. Len(q) + k, i < j PROVE o[i] < o[j]
  <2>1. CASE i \in 1 .. Len(q) /\ j \in 1 .. Len(q)
    <3>1. q[i] < q[j]
      <4>1. DOMAIN q = 1 .. Len(q)
        OBVIOUS
      <4> QED BY <1>5, <2>1, <4>1 DEF Rising
    <3> QED BY <1>3, <2>1, <3>1
  <2>2. CASE i \in 1 .. Len(q) /\ j \notin 1 .. Len(q)
    <3>1. PICK m \in 1 .. k : o[j] = n + m
      BY <1>4, <2>2
    <3>2. o[i] \in 1 .. n
      BY <1>3, <2>2
    <3>3. m \in Nat /\ 1 <= m /\ o[i] \in Nat /\ o[i] <= n
      BY <3>1, <3>2
    <3> QED BY <3>1, <3>3
  <2>3. CASE i \notin 1 .. Len(q) /\ j \notin 1 .. Len(q)
    <3>1. o[i] = n + (i - Len(q)) /\ o[j] = n + (j - Len(q))
      BY <1>4, <2>3
    <3> QED BY <1>1, <1>5, <3>1
  <2>4. CASE i \notin 1 .. Len(q) /\ j \in 1 .. Len(q)
    BY <1>1, <1>5, <2>4
  <2> QED BY <2>1, <2>2, <2>3, <2>4
<1>6. Rising(o)
  BY <1>3, <1>5 DEF Rising
<1> QED BY <1>6 DEF o

LEMMA FreshAlone ==
  ASSUME NEW q, NEW r, Alone(q[r])
  PROVE  Fresh(q, r)
<1>1. ~q[r].approved /\ ~q[r].probed /\ q[r].answers = <<>> /\ q[r].link = {} /\ ~q[r].whole
  BY DEF Alone
<1> QED BY <1>1 DEF Fresh

\* The parts of a whole unit's request, and the request itself.
Parts(q, d, subs, kind) ==
  /\ q \in Seq(Request) /\ Len(q) = Len(subs)
  /\ \A i \in 1 .. Len(subs) :
       Alone(q[i]) /\ q[i].disk = subs[i] /\ q[i].kind = kind /\ ~q[i].automatic
  /\ \A i \in 1 .. Len(subs) : subs[i] # d /\ unitOf[subs[i]] = unitOf[d] /\ subs[i] \in Listed
Leads(n, d, kind, link) ==
  /\ n \in Request /\ ~n.approved /\ ~n.probed /\ n.answers = <<>>
  /\ n.disk = d /\ n.kind = kind /\ n.whole /\ n.link = link /\ d \in Whole /\ d \in Listed

Linked == Len(req) + 1 .. Len(req') - 1

LEMMA WholeMoves ==
  ASSUME RequestTypes, NEW d, NEW subs, NEW kind, NEW parts, Parts(parts, d, subs, kind),
         NEW n, Leads(n, d, kind, Len(req) + 1 .. Len(req) + Len(subs)), Len(subs) \in Nat,
         req' = (req \o parts) \o <<n>>,
         requests' = requests \o [i \in 1 .. Len(subs) + 1 |-> Len(req) + i],
         list' = list
  PROVE  Moves({}, {}, {})
<1>l. PICK l : l = Len(req)
  OBVIOUS
<1>k. PICK k : k = Len(subs)
  OBVIOUS
<1>0. /\ l \in Nat /\ k \in Nat /\ req \in Seq(Request) /\ parts \in Seq(Request)
      /\ Len(parts) = k /\ requests \in Seq(1 .. l) /\ n \in Request
  BY <1>l, <1>k DEF RequestTypes, Parts, Leads
<1>j. /\ req' = Joined(Joined(req, parts), <<n>>)
      /\ requests' = Joined(requests, [i \in 1 .. k + 1 |-> l + i])
  BY <1>l, <1>k DEF Joined
<1>p. PICK p : p = [i \in 1 .. k + 1 |-> l + i]
  OBVIOUS
<1>q. requests' = Joined(requests, p)
  BY <1>j, <1>p
<1>1. /\ Joined(req, parts) \in Seq(Request) /\ Len(Joined(req, parts)) = l + k
      /\ \A i \in 1 .. l : Joined(req, parts)[i] = req[i]
      /\ \A i \in 1 .. k : Joined(req, parts)[l + i] = parts[i]
  <2>1. IsJoined(Request, Joined(req, parts), req, parts)
    BY <1>0, JoinedEntries
  <2> QED BY <1>0, <1>l, <2>1 DEF IsJoined
<1>2. <<n>> \in Seq(Request) /\ Len(<<n>>) = 1 /\ <<n>>[1] = n
  BY <1>0
<1>3. /\ req' \in Seq(Request) /\ Len(req') = l + k + 1
      /\ \A i \in 1 .. l + k : req'[i] = Joined(req, parts)[i]
      /\ req'[l + k + 1] = n
  <2> DEFINE o == Joined(req, parts)
  <2>1. o \in Seq(Request) /\ Len(o) = l + k /\ req' = Joined(o, <<n>>)
    BY <1>1, <1>j
  <2> HIDE DEF o
  <2>2. IsJoined(Request, Joined(o, <<n>>), o, <<n>>)
    BY <1>2, <2>1, JoinedEntries
  <2>3. /\ req' \in Seq(Request) /\ Len(req') = l + k + 1
        /\ \A i \in 1 .. l + k : req'[i] = o[i]
        /\ \A i \in 1 .. 1 : req'[l + k + i] = <<n>>[i]
    BY <1>2, <2>1, <2>2 DEF IsJoined
  <2>4. req'[l + k + 1] = n
    BY <1>2, <2>3
  <2> QED BY <2>3, <2>4 DEF o
<1>4. /\ \A i \in 1 .. l : req'[i] = req[i]
      /\ \A i \in 1 .. k : req'[l + i] = parts[i]
  <2>1. \A i \in 1 .. l : i \in 1 .. l + k
    BY <1>0
  <2>2. \A i \in 1 .. k : l + i \in 1 .. l + k
    BY <1>0
  <2> QED BY <1>1, <1>3, <2>1, <2>2
<1>5. ASSUME NEW r \in l + 1 .. l + k
      PROVE  /\ Fresh(req', r) /\ req'[r].answers = <<>> /\ req'[r].disk \in Listed
             /\ req'[r].disk # d /\ unitOf[req'[r].disk] = unitOf[d] /\ req'[r].kind = kind
             /\ req'[r].link = {} /\ ~req'[r].automatic
  <2>1. r - l \in 1 .. k /\ l + (r - l) = r
    BY <1>0, <1>5
  <2>2. req'[r] = parts[r - l]
    BY <1>4, <2>1
  <2>3. /\ Alone(parts[r - l]) /\ parts[r - l].disk = subs[r - l] /\ parts[r - l].kind = kind
        /\ ~parts[r - l].automatic
    BY <1>k, <2>1 DEF Parts
  <2>4. /\ Alone(req'[r]) /\ req'[r].disk = subs[r - l] /\ req'[r].kind = kind
        /\ ~req'[r].automatic
    BY <2>2, <2>3
  <2>5. Fresh(req', r) /\ req'[r].answers = <<>> /\ req'[r].link = {}
    BY <2>4, FreshAlone DEF Alone
  <2>6. /\ subs[r - l] # d /\ unitOf[subs[r - l]] = unitOf[d]
        /\ subs[r - l] \in Listed
    BY <1>k, <2>1 DEF Parts
  <2> QED BY <2>4, <2>5, <2>6
<1>6. /\ n.link = l + 1 .. l + k /\ ~n.approved /\ ~n.probed /\ n.answers = <<>>
      /\ n.disk = d /\ n.kind = kind /\ n.whole /\ d \in Whole /\ d \in Listed
  BY <1>l, <1>k DEF Leads
<1>7. Fresh(req', l + k + 1)
  <2>0. PICK x : x = l + k + 1
    OBVIOUS
  <2>1. l + 1 .. l + k \subseteq 1 .. x - 1
    BY <1>0, <2>0
  <2>2. n.link \subseteq 1 .. x - 1
    BY <1>6, <2>1
  <2>4. req'[x] = n
    BY <1>3, <2>0
  <2>3. \A s \in n.link : /\ req'[s].disk # d /\ unitOf[req'[s].disk] = unitOf[d]
                          /\ req'[s].kind = kind /\ ~req'[s].automatic
    BY <1>5, <1>6
  <2>9. \A s \in n.link : s .. x - 1 \subseteq n.link
    BY <1>0, <1>6, <2>0
  <2>6. \A s \in req'[x].link : /\ req'[s].disk # req'[x].disk
                               /\ unitOf[req'[s].disk] = unitOf[req'[x].disk]
                               /\ req'[s].kind = req'[x].kind /\ ~req'[s].automatic
                               /\ s .. x - 1 \subseteq req'[x].link
    <3>1. req'[x].disk = d /\ req'[x].kind = kind /\ req'[x].link = n.link
      BY <1>6, <2>4
    <3> QED BY <2>3, <2>9, <3>1
  <2>7. /\ ~req'[x].approved /\ ~req'[x].probed /\ req'[x].answers = <<>>
        /\ req'[x].disk \in Whole /\ req'[x].link \subseteq 1 .. x - 1 /\ req'[x].whole
    BY <1>6, <2>2, <2>4
  <2>8. Len(req'[x].answers) <= 1
    <3>1. Len(<<>>) <= 1
      OBVIOUS
    <3> QED BY <2>7, <3>1, Zenon
  <2>5. Fresh(req', x)
    BY <2>6, <2>7, <2>8 DEF Fresh
  <2> QED BY <2>0, <2>5
<1>8. \A r \in l + 1 .. l + k + 1 : r \in l + 1 .. l + k \/ r = l + k + 1
  BY <1>0
<1>9. Changes({}, {}, {})
  <2>1. \A r \in 1 .. l : Becoming(req'[r], req[r], r, {}, {}, {})
    BY <1>4 DEF Becoming, Alike
  <2>2. \A r \in l + 1 .. l + k + 1 : Fresh(req', r)
    BY <1>5, <1>7, <1>8
  <2>3. l <= Len(req')
    BY <1>0, <1>3
  <2> QED BY <1>3, <1>l, <2>1, <2>2, <2>3 DEF Changes
<1>10. /\ requests' \in Seq(1 .. l + k + 1)
       /\ Entries(requests') \subseteq Entries(requests) \cup (l + 1 .. l + k + 1)
       /\ l + 1 .. l + k \subseteq Entries(requests')
  <2>1. p \in Seq(1 .. l + k + 1) /\ Len(p) = k + 1 /\ \A i \in 1 .. k + 1 : p[i] = l + i
    <3>1. k + 1 \in Nat /\ DOMAIN p = 1 .. k + 1 /\ p = [i \in DOMAIN p |-> p[i]]
      BY <1>0, <1>p
    <3>2. \A i \in 1 .. k + 1 : p[i] = l + i /\ l + i \in 1 .. l + k + 1
      BY <1>0, <1>p
    <3>3. \A i \in 1 .. k + 1 : p[i] \in 1 .. l + k + 1
      BY <3>2
    <3>4. PICK m \in Nat : m = k + 1
      BY <3>1
    <3>6. DOMAIN p = 1 .. m /\ \A i \in 1 .. m : p[i] \in 1 .. l + k + 1
      BY <3>1, <3>3, <3>4
    <3>5. p \in Seq(1 .. l + k + 1) /\ Len(p) = m
      <4>1. PICK T : T = 1 .. l + k + 1
        OBVIOUS
      <4>2. p = [i \in DOMAIN p |-> p[i]]
        BY <3>1
      <4>3. \A i \in 1 .. m : p[i] \in T
        BY <3>6, <4>1
      <4>4. p \in Seq(T) /\ Len(p) = m
        BY <3>6, <4>2, <4>3, IsSequence
      <4> QED BY <4>1, <4>4
    <3> QED BY <3>2, <3>4, <3>5
  <2>2. requests \in Seq(1 .. l + k + 1)
    <3>1. 1 .. l \subseteq 1 .. l + k + 1
      BY <1>0
    <3> QED BY <1>0, <3>1
  <2>4. /\ requests' \in Seq(1 .. l + k + 1) /\ Len(requests') = Len(requests) + (k + 1)
        /\ \A i \in 1 .. Len(requests) : requests'[i] = requests[i]
        /\ \A i \in 1 .. Len(p) : requests'[Len(requests) + i] = p[i]
    <3>1. IsJoined(1 .. l + k + 1, Joined(requests, p), requests, p)
      BY <2>1, <2>2, JoinedEntries
    <3> QED BY <1>q, <2>1, <3>1 DEF IsJoined
  <2>5. ASSUME NEW i \in DOMAIN requests'
        PROVE  requests'[i] \in Entries(requests) \cup (l + 1 .. l + k + 1)
    <3>1. i \in Nat /\ 1 <= i /\ i <= Len(requests) + (k + 1) /\ Len(requests) \in Nat
      BY <1>0, <2>4
    <3>2. CASE i <= Len(requests)
      <4>1. i \in DOMAIN requests /\ requests'[i] = requests[i]
        BY <1>0, <2>4, <3>1, <3>2
      <4> QED BY <4>1 DEF Entries
    <3>3. CASE ~(i <= Len(requests))
      <4>1. i - Len(requests) \in 1 .. k + 1 /\ Len(requests) + (i - Len(requests)) = i
        BY <1>0, <3>1, <3>3
      <4>2. PICK m \in 1 .. k + 1 : i = Len(requests) + m
        BY <4>1
      <4>3. requests'[i] = l + m
        BY <2>1, <2>4, <4>2
      <4>4. l + m \in l + 1 .. l + k + 1
        BY <1>0, <4>2
      <4> QED BY <4>3, <4>4
    <3> QED BY <3>2, <3>3
  <2>6. ASSUME NEW s \in l + 1 .. l + k PROVE s \in Entries(requests')
    <3>1. s - l \in 1 .. k + 1 /\ l + (s - l) = s /\ Len(requests) \in Nat
      BY <1>0
    <3>2. PICK m \in 1 .. k + 1 : s = l + m
      BY <3>1
    <3>3. requests'[Len(requests) + m] = s
      BY <2>1, <2>4, <3>2
    <3>4. Len(requests) + m \in DOMAIN requests'
      <4>1. Len(requests) + m \in 1 .. Len(requests) + (k + 1)
        BY <1>0, <3>1
      <4> QED BY <2>4, <4>1
    <3> QED BY <3>3, <3>4 DEF Entries
  <2> QED BY <2>4, <2>5, <2>6 DEF Entries
<1>11. Rising(requests) => Rising(requests')
  <2>1. PICK m \in Nat : m = k + 1
    BY <1>0
  <2>2. p = [i \in 1 .. m |-> l + i]
    BY <1>p, <2>1
  <2> QED BY <1>0, <1>q, <2>2, JoinedRising
<1>12. ASSUME NEW r \in Queued' \ Queued
       PROVE  /\ r \in l + 1 .. Len(req') /\ req'[r].answers = <<>> /\ Placed(r)'
              /\ req'[r].link \subseteq Queued'
  <2>1. r \in l + 1 .. l + k + 1
    BY <1>10, <1>12, QueuedEntries
  <2>2. req'[r].answers = <<>> /\ req'[r].disk \in Listed
    <3>1. CASE r = l + k + 1
      <4>1. req'[r] = n
        BY <1>3, <3>1
      <4> QED BY <1>6, <4>1, Zenon
    <3>2. CASE r \in l + 1 .. l + k
      BY <1>5, <3>2, Zenon
    <3> QED BY <1>8, <2>1, <3>1, <3>2, Zenon
  <2>3. CASE r = l + k + 1
    <3>1. req'[r].link = l + 1 .. l + k
      BY <1>3, <1>6, <2>3
    <3>2. l + 1 .. l + k \subseteq Queued'
      BY <1>10, QueuedEntries
    <3> QED BY <1>3, <2>1, <2>2, <3>1, <3>2 DEF Placed, Listed
  <2>4. CASE r \in l + 1 .. l + k
    <3>1. req'[r].link = {}
      BY <1>5, <2>4
    <3> QED BY <1>3, <2>1, <2>2, <3>1 DEF Placed, Listed
  <2> QED BY <1>8, <2>1, <2>3, <2>4
<1> QED BY <1>3, <1>9, <1>10, <1>11, <1>12, <1>l DEF Moves

-----------------------------------------------------------------------------
(* What each step does to the requests.                                    *)
Put(q, r, n) == [q EXCEPT ![r] = n]

LEMMA OneComes ==
  ASSUME NEW q \in Seq(Request), NEW r, NEW n \in Request, NEW A, NEW J, NEW S,
         r \in DOMAIN q => Becoming(n, q[r], r, A, J, S),
         NEW p, p = Put(q, r, n)
  PROVE  Comes(p, q, A, J, S)
<1>1. p = [i \in DOMAIN q |-> IF i = r THEN n ELSE q[i]]
  BY DEF Put
<1>0. DOMAIN q = 1 .. Len(q) /\ Len(q) \in Nat
  OBVIOUS
<1>2. DOMAIN q = 1 .. Len(q) /\ Len(q) \in Nat /\ \A i \in 1 .. Len(q) : q[i] \in Request
  OBVIOUS
<1>3. ASSUME NEW i \in 1 .. Len(q)
      PROVE  p[i] \in Request /\ Becoming(p[i], q[i], i, A, J, S)
  <2>1. CASE i = r
    BY <1>1, <1>2, <2>1
  <2>2. CASE i # r
    <3>1. p[i] = q[i]
      BY <1>1, <1>2, <2>2
    <3>2. Becoming(q[i], q[i], i, A, J, S)
      BY <1>2, <3>1 DEF Becoming, Alike
    <3> QED BY <1>2, <3>1, <3>2
  <2> QED BY <2>1, <2>2
<1>4. DOMAIN p = 1 .. Len(q) /\ p = [i \in DOMAIN p |-> p[i]]
  BY <1>1, <1>2
<1>6. \A i \in 1 .. Len(q) : p[i] \in Request
  BY <1>3
<1>5. p \in Seq(Request) /\ Len(p) = Len(q)
  BY <1>0, <1>4, <1>6, IsSequence
<1>7. \A i \in 1 .. Len(q) : Becoming(p[i], q[i], i, A, J, S)
  BY <1>3
<1> QED BY <1>5, <1>7 DEF Comes

LEMMA AlikeBut ==
  ASSUME NEW a \in Request, NEW r
  PROVE  /\ [a EXCEPT !.probed = TRUE] \in Request
         /\ Becoming([a EXCEPT !.probed = TRUE], a, r, {}, {}, {r})
         /\ [a EXCEPT !.approved = TRUE] \in Request
         /\ Becoming([a EXCEPT !.approved = TRUE], a, r, {}, {}, {r})
         /\ \A m \in BOOLEAN :
              /\ [a EXCEPT !.approved = TRUE, !.probed = m] \in Request
              /\ Becoming([a EXCEPT !.approved = TRUE, !.probed = m], a, r, {}, {}, {r})
         /\ [a EXCEPT !.dissenter = "none", !.authorized = TRUE] \in Request
         /\ Becoming([a EXCEPT !.dissenter = "none", !.authorized = TRUE], a, r, {}, {r}, {})
<1>1. /\ [a EXCEPT !.probed = TRUE] \in Request
      /\ Becoming([a EXCEPT !.probed = TRUE], a, r, {}, {}, {r})
  <2> DEFINE n == [a EXCEPT !.probed = TRUE]
  <2>1. n \in Request
    BY DEF Request, Dissent
  <2>2. /\ n.kind = a.kind /\ n.disk = a.disk /\ n.whole = a.whole /\ n.link = a.link
          /\ n.automatic = a.automatic
          /\ n.answers = a.answers /\ n.dissenter = a.dissenter /\ n.approved = a.approved
    BY DEF Request
  <2> HIDE DEF n
  <2>3. Becoming(n, a, r, {}, {}, {r})
    BY <2>2 DEF Becoming, Alike
  <2> QED BY <2>1, <2>3 DEF n
<1>2. /\ [a EXCEPT !.approved = TRUE] \in Request
      /\ Becoming([a EXCEPT !.approved = TRUE], a, r, {}, {}, {r})
  <2> DEFINE n == [a EXCEPT !.approved = TRUE]
  <2>1. n \in Request
    BY DEF Request, Dissent
  <2>2. /\ n.kind = a.kind /\ n.disk = a.disk /\ n.whole = a.whole /\ n.link = a.link
          /\ n.automatic = a.automatic
          /\ n.answers = a.answers /\ n.dissenter = a.dissenter /\ n.probed = a.probed
    BY DEF Request
  <2> HIDE DEF n
  <2>3. Becoming(n, a, r, {}, {}, {r})
    BY <2>2 DEF Becoming, Alike
  <2> QED BY <2>1, <2>3 DEF n
<1>3. ASSUME NEW m \in BOOLEAN
      PROVE  /\ [a EXCEPT !.approved = TRUE, !.probed = m] \in Request
             /\ Becoming([a EXCEPT !.approved = TRUE, !.probed = m], a, r, {}, {}, {r})
  <2> DEFINE n == [a EXCEPT !.approved = TRUE, !.probed = m]
  <2>1. n \in Request
    BY DEF Request, Dissent
  <2>2. /\ n.kind = a.kind /\ n.disk = a.disk /\ n.whole = a.whole /\ n.link = a.link
          /\ n.automatic = a.automatic
          /\ n.answers = a.answers /\ n.dissenter = a.dissenter
    BY DEF Request
  <2> HIDE DEF n
  <2>3. Becoming(n, a, r, {}, {}, {r})
    BY <2>2 DEF Becoming, Alike
  <2> QED BY <2>1, <2>3 DEF n
<1>4. /\ [a EXCEPT !.dissenter = "none", !.authorized = TRUE] \in Request
      /\ Becoming([a EXCEPT !.dissenter = "none", !.authorized = TRUE], a, r, {}, {r}, {})
  <2> DEFINE n == [a EXCEPT !.dissenter = "none", !.authorized = TRUE]
  <2>1. n \in Request
    BY DEF Request, Dissent
  <2>2. /\ n.kind = a.kind /\ n.disk = a.disk /\ n.whole = a.whole /\ n.link = a.link
          /\ n.automatic = a.automatic
          /\ n.answers = a.answers /\ n.approved = a.approved /\ n.probed = a.probed
    BY DEF Request
  <2> HIDE DEF n
  <2>3. Becoming(n, a, r, {}, {r}, {})
    BY <2>2 DEF Becoming, Alike
  <2> QED BY <2>1, <2>3 DEF n
<1> QED BY <1>1, <1>2, <1>3, <1>4

LEMMA QueuedRequest ==
  ASSUME RequestTypes, NEW r \in Queued
  PROVE  r \in 1 .. Len(req) /\ r \in DOMAIN req /\ req[r] \in Request
  BY DEF RequestTypes, Queued

\* What marks a request as probed or approved.
LEMMA MarksComes ==
  ASSUME RequestTypes, NEW r \in Queued
  PROVE  /\ req' = [req EXCEPT ![r].probed = TRUE] =>
              /\ Comes(req', req, {}, {}, {r})
              /\ req'[r].approved = req[r].approved /\ req'[r].probed
         /\ req' = [req EXCEPT ![r].approved = TRUE] =>
              Comes(req', req, {}, {}, {r}) /\ req'[r].probed = req[r].probed
         /\ req' = [req EXCEPT ![r].approved = TRUE, ![r].probed = IsMount(r)] =>
              Comes(req', req, {}, {}, {r}) /\ (IsMount(r) => req'[r].probed)
         /\ req' = [req EXCEPT ![r].dissenter = "none", ![r].authorized = TRUE] =>
              Comes(req', req, {}, {r}, {}) /\ req'[r].dissenter = "none"
<1>1. /\ r \in DOMAIN req /\ req[r] \in Request /\ req \in Seq(Request)
      /\ IsMount(r) \in BOOLEAN
  BY QueuedRequest DEF RequestTypes, IsMount
<1>2. ASSUME req' = [req EXCEPT ![r].probed = TRUE]
      PROVE  /\ Comes(req', req, {}, {}, {r})
             /\ req'[r].approved = req[r].approved /\ req'[r].probed
  <2> DEFINE n == [req[r] EXCEPT !.probed = TRUE]
  <2>1. req' = Put(req, r, n)
    BY <1>1, <1>2 DEF Put
  <2>2. n.approved = req[r].approved /\ n.probed /\ req'[r] = n
    BY <1>1, <1>2 DEF Request
  <2>3. n \in Request /\ Becoming(n, req[r], r, {}, {}, {r})
    BY <1>1, AlikeBut
  <2> HIDE DEF n
  <2> QED BY <1>1, <2>1, <2>2, <2>3, OneComes
<1>3. ASSUME req' = [req EXCEPT ![r].approved = TRUE]
      PROVE  Comes(req', req, {}, {}, {r}) /\ req'[r].probed = req[r].probed
  <2> DEFINE n == [req[r] EXCEPT !.approved = TRUE]
  <2>1. req' = Put(req, r, n)
    BY <1>1, <1>3 DEF Put
  <2>2. n.probed = req[r].probed /\ req'[r] = n
    BY <1>1, <1>3 DEF Request
  <2>3. n \in Request /\ Becoming(n, req[r], r, {}, {}, {r})
    BY <1>1, AlikeBut
  <2> HIDE DEF n
  <2> QED BY <1>1, <2>1, <2>2, <2>3, OneComes
<1>4. ASSUME req' = [req EXCEPT ![r].approved = TRUE, ![r].probed = IsMount(r)]
      PROVE  Comes(req', req, {}, {}, {r}) /\ (IsMount(r) => req'[r].probed)
  <2>0. PICK m \in BOOLEAN : m = IsMount(r)
    BY <1>1
  <2> DEFINE n == [req[r] EXCEPT !.approved = TRUE, !.probed = m]
  <2>1. req' = Put(req, r, n)
    BY <1>1, <1>4, <2>0 DEF Put
  <2>2. n.probed = m /\ req'[r] = n
    BY <1>1, <1>4, <2>0 DEF Request
  <2>3. n \in Request /\ Becoming(n, req[r], r, {}, {}, {r})
    BY <1>1, AlikeBut
  <2> HIDE DEF n
  <2>4. Comes(req', req, {}, {}, {r})
    BY <1>1, <2>1, <2>3, OneComes
  <2> QED BY <2>0, <2>2, <2>4
<1>5. ASSUME req' = [req EXCEPT ![r].dissenter = "none", ![r].authorized = TRUE]
      PROVE  Comes(req', req, {}, {r}, {}) /\ req'[r].dissenter = "none"
  <2> DEFINE n == [req[r] EXCEPT !.dissenter = "none", !.authorized = TRUE]
  <2>1. req' = Put(req, r, n)
    BY <1>1, <1>5 DEF Put
  <2>2. n.dissenter = "none" /\ req'[r] = n
    BY <1>1, <1>5 DEF Request
  <2>3. n \in Request /\ Becoming(n, req[r], r, {}, {r}, {})
    BY <1>1, AlikeBut
  <2> HIDE DEF n
  <2> QED BY <1>1, <2>1, <2>2, <2>3, OneComes
<1> QED BY <1>2, <1>3, <1>4, <1>5

-----------------------------------------------------------------------------
(* The invariants of the requests.                                         *)

\* A command for a request.
Serving(w) == w.op \in {"eject", "ejectPID", "mount", "unmount", "unmountPID"}
\* What goes on for a request that is still queued.
Consulting(w) == w.op \in {"tickle", "approval", "authorize"}

\* Requests refer back to others; what is approved may be carried out.
Shaped(q, r) ==
  /\ q[r].link \subseteq 1 .. r - 1
  /\ \A s \in q[r].link : /\ q[s].disk # q[r].disk
                          /\ unitOf[q[s].disk] = unitOf[q[r].disk]
                          /\ q[s].kind = q[r].kind /\ ~q[s].automatic
                          /\ s .. r - 1 \subseteq q[r].link
  /\ q[r].link # {} => q[r].whole
  /\ q[r].whole => q[r].disk \in Whole
Sanctioned(q, r) ==
  q[r].approved => /\ q[r].kind = "Eject" => q[r].disk \in Whole
                   /\ q[r].kind = "Mount" => q[r].probed
RequestShape == \A r \in DOMAIN req : Shaped(req, r) /\ Sanctioned(req, r)

\* What goes on is for a request of the disk; a command is for an approved one
\* that has left the queue, as have those it is linked to, and is unanswered.
WorkOf ==
  \A w \in work :
    /\ IF w.op \in {"probe", "peek"} THEN w.req = 0
                                    ELSE w.req # 0 /\ req[w.req].disk = w.disk
    /\ Serving(w) => /\ w.req \notin Queued /\ req[w.req].answers = <<>>
                     /\ req[w.req].approved
                     /\ req[w.req].link \cap Queued = {}

Unanswered == \A r \in Queued : req[r].answers = <<>>

Serves == Rising(requests) /\ RequestShape /\ WorkOf /\ Unanswered /\ AnsweredOnce

\* Disks that something is known of or going on for have been seen.
Places ==
  /\ \A w \in work : w.disk \in Listed \cup zombie
  /\ path \subseteq Listed \cup zombie
  /\ Listed \cap zombie = {}
  /\ \A r \in Queued : Placed(r)
  /\ \A w \in work : Consulting(w) /\ w.disk \in zombie => w.req \notin Queued

\* A queued request is answered when it is rejected or refused, or its disk leaves.
Finishes(r) == RequestRejected(r) \/ RequestRefused(r) \/ req[r].disk \notin Listed'

\* The requests that a step answers are over, and were not answered before.
Settles(answered) ==
  \A r \in answered :
    /\ r \notin Queued'
    /\ \/ r \in Queued /\ Finishes(r)
       \/ \E w \in work : Serving(w) /\ w.req = r /\ work' = work \ {w}
\* Those it judges are over or of a disk that is there, and are queued or something
\* goes on for them.
Spoils(judged) ==
  \A r \in judged : /\ r \in Queued' => req[r].disk \in Listed'
                    /\ r \in Queued \/ \E w \in work : w.req = r
\* Those it starts come up in the walk.
Advances(started) ==
  \A r \in started : Dispatching(r) /\ Ready(r) /\ Sanctioned(req', r)

Summary == \E A, J, S : Moves(A, J, S) /\ Settles(A) /\ Spoils(J) /\ Advances(S)

WorkTypes == work \in SUBSET Work /\ \A w \in work : w.req \in 0 .. Len(req)
Known == RequestTypes /\ WorkTypes /\ list \in Seq(Disk) /\ Serves /\ Places

LEMMA SummaryOf ==
  ASSUME NEW A, NEW J, NEW S, Moves(A, J, S), Settles(A), Spoils(J), Advances(S)
  PROVE  Summary
  BY DEF Summary

LEMMA None == Settles({}) /\ Spoils({}) /\ Advances({})
  BY DEF Settles, Spoils, Advances

LEMMA SummaryNot ==
  ASSUME Known, UNCHANGED reqVars
  PROVE  Summary
  BY MovesNot, None, SummaryOf DEF Known

\* The disk of a request that is queued and not a forced unmount is there.
LEMMA MountsAreListed ==
  ASSUME Known, NEW r \in Queued, IsMount(r) \/ req[r].dissenter # "none"
  PROVE  req[r].disk \in Listed
  BY DEF Known, Places, Placed, IsMount

(* The walk over the requests.                                             *)
LEMMA WaitsSummary ==
  ASSUME Known, NEW r \in Queued, RequestWaits(r) PROVE Summary
  BY SummaryNot DEF RequestWaits, Leave, reqVars

LEMMA ReprobeSummary ==
  ASSUME Known, NEW r \in Queued, MountReprobe(r) PROVE Summary
<1>1. Comes(req', req, {}, {}, {r}) /\ req'[r].approved = req[r].approved /\ req'[r].probed
  BY MarksComes DEF MountReprobe, Known
<1>2. Moves({}, {}, {r})
  BY <1>1, MovesInPlace DEF MountReprobe, Leave, Known
<1>3. Becoming(req'[r], req[r], r, {}, {}, {r}) /\ r \in DOMAIN req
  BY <1>1, QueuedRequest DEF Comes, Known
<1>4. Sanctioned(req', r)
  BY <1>1, <1>3 DEF Sanctioned, Becoming, Alike, Known, Serves, RequestShape
<1>5. Advances({r})
  BY <1>4 DEF MountReprobe, Ready, Advances
<1> QED BY <1>2, <1>5, None, SummaryOf

LEMMA ApproveSummary ==
  ASSUME Known, NEW r \in Queued, NEW asked, RequestApprove(r, asked) PROVE Summary
<1>1. Comes(req', req, {}, {}, {r}) /\ (IsMount(r) => req'[r].probed)
  BY MarksComes DEF RequestApprove, Known
<1>2. Moves({}, {}, {r})
  BY <1>1, MovesInPlace DEF RequestApprove, Leave, Known
<1>3. Becoming(req'[r], req[r], r, {}, {}, {r})
  BY <1>1, QueuedRequest DEF Comes, Known
<1>4. req[r].kind = "Eject" => req[r].disk \in Whole
  BY DEF RequestApprove, Approved, Rejected
<1>6. Sanctioned(req', r)
  BY <1>1, <1>3, <1>4 DEF Sanctioned, Becoming, Alike, IsMount
<1>5. Advances({r})
  BY <1>6 DEF RequestApprove, Ready, Advances
<1> QED BY <1>2, <1>5, None, SummaryOf

LEMMA AuthorizeSummary ==
  ASSUME Known, NEW r \in Queued, MountAuthorize(r) PROVE Summary
<1>1. Comes(req', req, {}, {r}, {})
  BY MarksComes DEF MountAuthorize, Known
<1>2. Moves({}, {r}, {})
  BY <1>1, MovesInPlace DEF MountAuthorize, Leave, Known
<1>3. req[r].disk \in Listed /\ Listed' = Listed
  BY MountsAreListed DEF MountAuthorize, NeedsAuthorization, stageVars, Listed
<1>5. Spoils({r})
  BY <1>3 DEF Spoils
<1> QED BY <1>2, <1>5, None, SummaryOf

LEMMA RefusedSummary ==
  ASSUME Known, NEW r \in Queued, RequestRefused(r) PROVE Summary
<1>1. Comes(req', req, {r}, {}, {})
  BY AnsweredComes DEF RequestRefused, Known, RequestTypes
<1>2. Moves({r}, {}, {}) /\ Queued' = Queued \ {r}
  BY <1>1, MovesTaken DEF RequestRefused, Ready, Known, Serves
<1>3. Settles({r})
  BY <1>2 DEF Settles, Finishes
<1> QED BY <1>2, <1>3, None, SummaryOf

LEMMA RejectedSummary ==
  ASSUME Known, NEW r \in Queued, RequestRejected(r) PROVE Summary
<1> DEFINE system == req[r].kind = "Unmount" /\ req[r].disk \in Root \cap path
<1>0. PICK q : q = IF system THEN [req EXCEPT ![r].dissenter = "dissent"] ELSE req
  OBVIOUS
<1>1. req' = Answered(q, {r}, FALSE)
  BY <1>0 DEF RequestRejected
<1>2. Comes(q, req, {}, {r}, {})
  <2>1. req \in Seq(Request) /\ "dissent" \in Dissent
    BY DEF Known, RequestTypes, Dissent
  <2> QED BY <1>0, <2>1, DissentComes, ComesSame
<1>3. Comes(req', q, {r}, {}, {})
  <2>1. q \in Seq(Request)
    BY <1>2 DEF Comes
  <2> QED BY <1>1, <2>1, AnsweredComes
<1>4. Comes(req', req, {r}, {r}, {})
  BY <1>2, <1>3, ComesTwice
<1>5. Moves({r}, {r}, {}) /\ Queued' = Queued \ {r}
  BY <1>4, MovesTaken DEF RequestRejected, Ready, Known, Serves
<1>6. Settles({r}) /\ Spoils({r})
  BY <1>5 DEF Settles, Spoils, Finishes
<1> QED BY <1>5, <1>6, None, SummaryOf

LEMMA StartSummary ==
  ASSUME Known, NEW r \in Queued, RequestStart(r)
  PROVE  Summary /\ (Take => Queued' = Queued \ {r})
<1>1. Comes(req', req, {}, {}, {r}) /\ req'[r].probed = req[r].probed
  BY MarksComes DEF RequestStart, Known
<1>3. Moves({}, {}, {r}) /\ (Take => Queued' = Queued \ {r})
  <2>1. ASSUME Take PROVE Moves({}, {}, {r}) /\ Queued' = Queued \ {r}
    BY <1>1, <2>1, MovesTaken DEF RequestStart, Ready, Known, Serves
  <2>2. ASSUME requests' = requests PROVE Moves({}, {}, {r})
    BY <1>1, <2>2, MovesInPlace DEF Known
  <2> QED BY <2>1, <2>2 DEF RequestStart, Leave
<1>4. Becoming(req'[r], req[r], r, {}, {}, {r}) /\ r \in DOMAIN req
  BY <1>1, QueuedRequest DEF Comes, Known
<1>5. Sanctioned(req', r)
  <2>1. req[r].approved \/ req[r].kind = "Unmount"
    BY DEF RequestStart, Approved
  <2>2. Alike(req'[r], req[r])
    BY <1>4 DEF Becoming
  <2>3. CASE req[r].approved
    BY <1>1, <1>4, <2>2, <2>3 DEF Sanctioned, Alike, Known, Serves, RequestShape
  <2>4. CASE req[r].kind = "Unmount"
    BY <2>2, <2>4 DEF Sanctioned, Alike
  <2> QED BY <2>1, <2>3, <2>4
<1>6. Advances({r})
  BY <1>5 DEF RequestStart, Ready, Advances
<1> QED BY <1>3, <1>6, None, SummaryOf

(* The callbacks.                                                          *)
LEMMA WorkTyped ==
  ASSUME Known, NEW w \in work
  PROVE  /\ w.disk \in Disk /\ w.req \in 0 .. Len(req)
         /\ ~(w.op \in {"probe", "peek"}) => w.req \in DOMAIN req /\ req[w.req].disk = w.disk
<1>1. w \in Work /\ w.req \in 0 .. Len(req)
  BY DEF Known, WorkTypes
<1>2. w.disk \in Disk
  BY <1>1 DEF Work
<1>3. ~(w.op \in {"probe", "peek"}) => w.req # 0 /\ req[w.req].disk = w.disk
  BY DEF Known, Serves, WorkOf
<1>4. DOMAIN req = 1 .. Len(req) /\ Len(req) \in Nat
  BY DEF Known, RequestTypes
<1> QED BY <1>1, <1>2, <1>3, <1>4

LEMMA ConsultedIsListed ==
  ASSUME Known, NEW w \in work, Consulting(w), Queued' = Queued, Listed' = Listed
  PROVE  Spoils({w.req})
<1>1. w.disk \in Listed \/ w.req \notin Queued
  BY DEF Known, Places
<1>2. req[w.req].disk = w.disk
  BY WorkTyped DEF Consulting
<1> QED BY <1>1, <1>2 DEF Spoils

LEMMA ApprovalSummary ==
  ASSUME Known, NEW w \in work, NEW verdict \in Verdict, ApprovalDone(w, verdict)
  PROVE  Summary
<1>1. verdict \in Dissent /\ req \in Seq(Request)
  BY ConstantAssumption DEF Dissent, Known, RequestTypes
<1>2. Comes(req', req, {}, {w.req}, {})
  BY <1>1, JudgedComes DEF ApprovalDone
<1>3. Moves({}, {w.req}, {}) /\ Queued' = Queued
  BY <1>2, MovesInPlace DEF ApprovalDone, Known
<1>4. Listed' = Listed /\ Consulting(w)
  BY DEF ApprovalDone, stageVars, Listed, Consulting
<1>5. Spoils({w.req})
  BY <1>3, <1>4, ConsultedIsListed
<1> QED BY <1>3, <1>5, None, SummaryOf

LEMMA AuthorizedSummary ==
  ASSUME Known, NEW w \in work, NEW granted \in BOOLEAN, AuthorizeDone(w, granted)
  PROVE  Summary
<1>1. "dissent" \in Dissent /\ req \in Seq(Request)
  BY DEF Dissent, Known, RequestTypes
<1>2. Comes(req', req, {}, {w.req}, {})
  <2>1. Comes([req EXCEPT ![w.req].dissenter = "dissent"], req, {}, {w.req}, {})
    BY <1>1, DissentComes
  <2>2. Comes(req, req, {}, {w.req}, {})
    BY <1>1, ComesSame
  <2> QED BY <2>1, <2>2 DEF AuthorizeDone
<1>3. Moves({}, {w.req}, {}) /\ Queued' = Queued
  BY <1>2, MovesInPlace DEF AuthorizeDone, Known
<1>4. Listed' = Listed /\ Consulting(w)
  BY DEF AuthorizeDone, stageVars, Listed, Consulting
<1>5. Spoils({w.req})
  BY <1>3, <1>4, ConsultedIsListed
<1> QED BY <1>3, <1>5, None, SummaryOf

\* A command that failed, and one that is over.
LEMMA NotesSummary ==
  ASSUME Known, NEW w \in work, Serving(w), NEW op, NotesFailure(w, op), requests' = requests
  PROVE  Summary
<1>1. "dissent" \in Dissent /\ req \in Seq(Request)
  BY DEF Dissent, Known, RequestTypes
<1>2. Comes(req', req, {}, {w.req}, {})
  BY <1>1, DissentComes DEF NotesFailure
<1>3. Moves({}, {w.req}, {}) /\ Queued' = Queued
  BY <1>2, MovesInPlace DEF Known
<1>4. w.req \notin Queued
  BY DEF Known, Serves, WorkOf
<1>5. Spoils({w.req})
  BY <1>3, <1>4 DEF Spoils
<1> QED BY <1>3, <1>5, None, SummaryOf

LEMMA ServedSummary ==
  ASSUME Known, NEW w \in work, Serving(w), End(w), requests' = requests,
         NEW success \in BOOLEAN,
         \/ req' = Answered(req, {w.req}, success)
         \/ req' = Answered([req EXCEPT ![w.req].dissenter = "dissent"], {w.req}, success)
  PROVE  Summary
<1>1. "dissent" \in Dissent /\ req \in Seq(Request)
  BY DEF Dissent, Known, RequestTypes
<1>2. Comes(req', req, {w.req}, {w.req}, {})
  <2>1. CASE req' = Answered(req, {w.req}, success)
    <3>1. Comes(req', req, {w.req}, {}, {})
      BY <1>1, <2>1, AnsweredComes
    <3>2. Comes(req, req, {}, {w.req}, {})
      BY <1>1, ComesSame
    <3> QED BY <3>1, <3>2, ComesTwice
  <2>2. CASE req' = Answered([req EXCEPT ![w.req].dissenter = "dissent"], {w.req}, success)
    <3>1. PICK q : q = [req EXCEPT ![w.req].dissenter = "dissent"]
      OBVIOUS
    <3>2. Comes(q, req, {}, {w.req}, {})
      BY <1>1, <3>1, DissentComes
    <3>3. q \in Seq(Request)
      BY <3>2 DEF Comes
    <3>4. Comes(req', q, {w.req}, {}, {})
      BY <2>2, <3>1, <3>3, AnsweredComes
    <3> QED BY <3>2, <3>4, ComesTwice
  <2> QED BY <2>1, <2>2
<1>3. Moves({w.req}, {w.req}, {}) /\ Queued' = Queued
  BY <1>2, MovesInPlace DEF Known
<1>4. w.req \notin Queued
  BY DEF Known, Serves, WorkOf
<1>5. Spoils({w.req})
  BY <1>3, <1>4 DEF Spoils
<1>6. Settles({w.req})
  <2>1. work' = work \ {w}
    BY DEF End
  <2> QED BY <1>3, <1>4, <2>1 DEF Settles
<1> QED BY <1>3, <1>5, <1>6, None, SummaryOf

LEMMA CallbackSummary ==
  ASSUME Known, NEW w \in work, Callbacks(w)
  PROVE  Summary
<1>1. ASSUME NEW result \in ProbeResult, ProbeDone(w, result) PROVE Summary
  BY <1>1, SummaryNot DEF ProbeDone
<1>2. CASE PeekDone(w)
  BY <1>2, SummaryNot DEF PeekDone
<1>3. ASSUME NEW asked \in Asked, TickleDone(w, asked) PROVE Summary
  BY <1>3, SummaryNot DEF TickleDone
<1>4. CASE EjectDone(w)
  <2>1. Serving(w) /\ requests' = requests
    BY <1>4 DEF EjectDone, Serving
  <2>2. CASE NotesFailure(w, "ejectPID")
    BY <2>1, <2>2, NotesSummary
  <2>3. CASE req' = Answered(req, {w.req}, w.status = "done") /\ End(w)
    <3>1. PICK x \in BOOLEAN : x = (w.status = "done")
      OBVIOUS
    <3> QED BY <2>1, <2>3, <3>1, ServedSummary
  <2> QED BY <1>4, <2>2, <2>3 DEF EjectDone
<1>5. CASE MountDone(w)
  <2>1. Serving(w) /\ requests' = requests /\ End(w)
    BY <1>5 DEF MountDone, Serving
  <2>2. CASE req' = Answered(req, {w.req}, TRUE)
    BY <2>1, <2>2, ServedSummary
  <2>3. CASE req' = Answered([req EXCEPT ![w.req].dissenter = "dissent"], {w.req}, FALSE)
    BY <2>1, <2>3, ServedSummary
  <2> QED BY <1>5, <2>2, <2>3 DEF MountDone
<1>6. CASE UnmountDone(w)
  <2>1. Serving(w) /\ requests' = requests
    BY <1>6 DEF UnmountDone, Serving
  <2>2. CASE NotesFailure(w, "unmountPID")
    BY <2>1, <2>2, NotesSummary
  <2>3. CASE req' = Answered(req, {w.req}, w.status = "done" \/ w.disk \notin mounted) /\ End(w)
    <3>1. PICK x \in BOOLEAN : x = (w.status = "done" \/ w.disk \notin mounted)
      OBVIOUS
    <3> QED BY <2>1, <2>3, <3>1, ServedSummary
  <2> QED BY <1>6, <2>2, <2>3 DEF UnmountDone
<1> QED
  BY <1>1, <1>2, <1>3, <1>4, <1>5, <1>6, ApprovalSummary, AuthorizedSummary DEF Callbacks

(* Media and clients.                                                      *)
LEMMA MountSummary ==
  ASSUME Known, NEW d \in Listed, NEW enabled, StageMount(d, enabled)
  PROVE  Summary
<1>1. CASE UNCHANGED reqVars
  BY <1>1, SummaryNot
<1>2. CASE ~(UNCHANGED reqVars)
  <2>0. PICK n : n = [NewRequest("Mount", d) EXCEPT !.automatic = TRUE]
    OBVIOUS
  <2>1. req' = Append(req, n) /\ requests' = Append(requests, Len(req'))
    BY <1>2, <2>0 DEF StageMount
  <2>2. d \in Disk /\ "Mount" \in Kind
    BY DEF Known, Listed, Kind
  <2>3. Alone(n) /\ n.disk = d
    BY <2>0, <2>2, NewAlone
  <2>4. Comes(req, req, {}, {}, {}) /\ requests \in Seq(1 .. Len(req)) /\ RequestTypes
    BY ComesSame DEF Known, RequestTypes
  <2>5. Listed' = Listed
    BY DEF StageMount, Listed
  <2>6. PICK k : k = Len(req) + 1
    OBVIOUS
  <2>7. req'[k] = n
    BY <2>1, <2>3, <2>4, <2>6, AppendChanges
  <2>8. Placed(k)'
    BY <2>3, <2>5, <2>7 DEF Placed
  <2>9. Entries(requests) \subseteq Queued
    BY QueuedEntries
  <2>10. Moves({}, {}, {})
    BY <2>1, <2>3, <2>4, <2>6, <2>8, <2>9, MovesAppended
  <2> QED BY <2>10, None, SummaryOf
<1> QED BY <1>1, <1>2

Forced(d) == [NewRequest("Unmount", d) EXCEPT !.force = TRUE]

LEMMA NewForced ==
  ASSUME NEW d \in Disk
  PROVE  /\ Alone(Forced(d)) /\ Forced(d).disk = d /\ Forced(d).kind = "Unmount"
         /\ Forced(d).dissenter = "none"
<1>0. PICK n : n = Forced(d)
  OBVIOUS
<1>1. PICK m : m = NewRequest("Unmount", d)
  OBVIOUS
<1>2. /\ m \in Request /\ m.kind = "Unmount" /\ m.disk = d /\ m.whole = FALSE /\ m.link = {}
      /\ m.approved = FALSE /\ m.probed = FALSE /\ m.dissenter = "none" /\ m.answers = <<>>
  BY <1>1 DEF NewRequest, Request, Dissent, Kind
<1>3. n = [m EXCEPT !.force = TRUE]
  BY <1>0, <1>1 DEF Forced
<1>4. Alone(n) /\ n.disk = d /\ n.kind = "Unmount" /\ n.dissenter = "none"
  BY <1>2, <1>3 DEF Alone, Request
<1> QED BY <1>0, <1>4

IsThose(T, p, q, S) ==
  /\ p \in Seq(T) /\ Entries(p) = Entries(q) \cap S
  /\ T \subseteq Nat /\ Rising(q) => Rising(p)

LEMMA ThoseAre ==
  ASSUME NEW T, NEW q \in Seq(T), NEW S
  PROVE  IsThose(T, Those(q, S), q, S)
  BY ThoseFacts DEF IsThose

\* The disk that leaves: what is left of the queue.
LEMMA LeftQueue ==
  ASSUME Known, NEW S, NEW p, p = Those(requests, Queued \ S)
  PROVE  /\ p \in Seq(1 .. Len(req)) /\ Entries(p) = Queued \ S
         /\ Rising(requests) => Rising(p)
<1>1. requests \in Seq(1 .. Len(req)) /\ Len(req) \in Nat
  BY DEF Known, RequestTypes
<1>2. PICK T : T = 1 .. Len(req)
  OBVIOUS
<1>3. T \subseteq Nat /\ requests \in Seq(T)
  BY <1>1, <1>2
<1>4. PICK U : U = Queued \ S
  OBVIOUS
<1>5. p = Those(requests, U)
  BY <1>4
<1>6. p \in Seq(T) /\ Entries(p) = Entries(requests) \cap U /\ (Rising(requests) => Rising(p))
  <2>1. IsThose(T, p, requests, U)
    BY <1>3, <1>5, ThoseAre
  <2> QED BY <1>3, <2>1 DEF IsThose
<1>7. Entries(requests) = Queued
  BY QueuedEntries
<1> QED BY <1>2, <1>4, <1>6, <1>7

\* The list without the disk that leaves.
LEMMA Shorter ==
  ASSUME Known, NEW d, list' = Those(list, Listed \ {d})
  PROVE  list' \in Seq(Disk) /\ Listed' = Listed \ {d}
<1>1. PICK U : U = Listed \ {d}
  OBVIOUS
<1>2. list \in Seq(Disk) /\ list' = Those(list, U)
  BY <1>1 DEF Known
<1>3. IsThose(Disk, list', list, U)
  BY <1>2, ThoseAre
<1>4. list' \in Seq(Disk) /\ Entries(list') = Entries(list) \cap U
  BY <1>3 DEF IsThose
<1>5. Entries(list) = Listed /\ Entries(list') = Listed'
  BY DEF Entries, Listed
<1> QED BY <1>1, <1>4, <1>5

\* A disk that came to its mount stage is to be unmounted when it leaves.
Forces(d) ==
  "Mount" \in staged[d] => \E k \in Queued' : req'[k].kind = "Unmount" /\ req'[k].disk = d

LEMMA DisappearsSummary ==
  ASSUME Known, NEW d \in Listed, NEW verdict \in Verdict, NEW peeks \in BOOLEAN,
         DiskDisappears(d, verdict, peeks)
  PROVE  /\ Summary
         /\ \E gone : gone = {r \in Queued : req[r].disk = d}
                      /\ Queued' \cap (1 .. Len(req)) = Queued \ gone
         /\ Forces(d)
<1> DEFINE ends == IF peeks THEN {"approval"} ELSE {"approval", "peek"}
           over == {w \in work : w.disk = d /\ w.op \in ends}
<1>0. PICK gone : gone = {r \in Queued : req[r].disk = d}
  OBVIOUS
<1>1. PICK asked : asked = {w.req : w \in {v \in over : v.op = "approval"}}
  OBVIOUS
<1>2. PICK q : q = IF asked = {} THEN req ELSE Judged(req, CHOOSE r \in asked : TRUE, verdict)
  OBVIOUS
<1>3. PICK left : left = Those(requests, Queued \ gone)
  OBVIOUS
<1>4. PICK n : n = Forced(d)
  OBVIOUS
<1>5. /\ d \in Listed /\ zombie' = zombie \cup {d}
      /\ \/ /\ req' = Append(Answered(q, gone, FALSE), n)
            /\ requests' = Append(left, Len(req'))
         \/ /\ "Mount" \notin staged[d]
            /\ req' = Answered(q, gone, FALSE) /\ requests' = left
  BY <1>0, <1>1, <1>2, <1>3, <1>4 DEF DiskDisappears, Forced
<1>6. \A x \in asked : req[x].disk = d /\ x \in 1 .. Len(req) /\ \E w \in work : w.req = x
  <2>1. ASSUME NEW x \in asked
        PROVE  req[x].disk = d /\ x \in 1 .. Len(req) /\ \E w \in work : w.req = x
    <3>1. PICK w \in work : w.disk = d /\ w.op = "approval" /\ x = w.req
      BY <1>1
    <3>2. DOMAIN req = 1 .. Len(req)
      BY DEF Known, RequestTypes
    <3> QED BY <3>1, <3>2, WorkTyped
  <2> QED BY <2>1
<1> HIDE DEF over
<1>7. RequestTypes /\ req \in Seq(Request) /\ Len(req) \in Nat /\ Rising(requests)
  BY DEF Known, RequestTypes, Serves
<1>8. PICK J : J \subseteq asked /\ Comes(q, req, {}, J, {})
  <2>1. CASE asked = {}
    <3>1. Comes(q, req, {}, {}, {})
      BY <1>2, <1>7, <2>1, ComesSame
    <3> QED BY <3>1
  <2>2. CASE asked # {}
    <3>1. PICK x : x = CHOOSE r \in asked : TRUE
      OBVIOUS
    <3>2. x \in asked
      BY <2>2, <3>1
    <3>3. verdict \in Dissent
      BY ConstantAssumption DEF Dissent
    <3>4. q = Judged(req, x, verdict)
      BY <1>2, <2>2, <3>1
    <3>5. Comes(q, req, {}, {x}, {})
      BY <1>7, <3>3, <3>4, JudgedComes
    <3> QED BY <3>2, <3>5
  <2> QED BY <2>1, <2>2
<1>9. PICK p : p = Answered(q, gone, FALSE)
  OBVIOUS
<1>10. Comes(p, req, gone, J, {})
  <2>1. q \in Seq(Request)
    BY <1>8 DEF Comes
  <2>2. Comes(p, q, gone, {}, {})
    BY <1>9, <2>1, AnsweredComes
  <2> QED BY <1>8, <2>2, ComesTwice
<1>11. /\ left \in Seq(1 .. Len(req)) /\ Entries(left) = Queued \ gone
       /\ Rising(requests) => Rising(left)
  BY <1>3, LeftQueue
<1>12. /\ Moves(gone, J, {})
       /\ Queued' \subseteq (Queued \ gone) \cup {Len(req) + 1}
       /\ Queued \ gone \subseteq Queued'
      /\ Forces(d)
  <2>1. CASE req' = Append(p, n) /\ requests' = Append(left, Len(req'))
    <3>1. d \in Disk
      BY DEF Known, Listed
    <3>2. Alone(n) /\ n.disk = d /\ n.kind = "Unmount" /\ n.dissenter = "none"
      BY <1>4, <3>1, NewForced
    <3>3. PICK k : k = Len(req) + 1
      OBVIOUS
    <3>4. req'[k] = n
      BY <1>7, <1>10, <2>1, <3>2, <3>3, AppendChanges
    <3>5. Placed(k)'
      BY <1>5, <3>2, <3>4 DEF Placed
    <3>6. Entries(left) \subseteq Queued
      BY <1>11
    <3>7. Moves(gone, J, {}) /\ Queued' = Entries(left) \cup {Len(req) + 1}
      BY <1>7, <1>10, <1>11, <2>1, <3>2, <3>3, <3>5, <3>6, MovesAppended
    <3>8. Forces(d)
      BY <3>2, <3>3, <3>4, <3>7 DEF Forces
    <3> QED BY <1>11, <3>7, <3>8
  <2>2. CASE "Mount" \notin staged[d] /\ req' = p /\ requests' = left
    <3>1. Changes(gone, J, {}) /\ Len(req') = Len(req)
      <4>1. Comes(req', req, gone, J, {})
        BY <1>10, <2>2
      <4> QED BY <1>7, <4>1, ComesChanges DEF Comes
    <3>2. Queued' = Queued \ gone
      BY <1>11, <2>2, QueuedEntries
    <3>3. requests' \in Seq(1 .. Len(req')) /\ (Rising(requests) => Rising(requests'))
      BY <1>11, <2>2, <3>1
    <3>4. Forces(d)
      BY <2>2 DEF Forces
    <3> QED BY <3>1, <3>2, <3>3, <3>4 DEF Moves
  <2> QED BY <1>5, <1>9, <2>1, <2>2
<1>13. Queued' \cap (1 .. Len(req)) = Queued \ gone
  <2>1. Queued \subseteq 1 .. Len(req)
    BY <1>7, QueuedRequest
  <2>2. Len(req) + 1 \notin 1 .. Len(req)
    BY <1>7
  <2>3. \A r \in Queued' \cap (1 .. Len(req)) : r \in Queued \ gone
    BY <1>12, <2>2
  <2>4. \A r \in Queued \ gone : r \in Queued' \cap (1 .. Len(req))
    BY <1>12, <2>1
  <2> QED BY <2>3, <2>4
<1>14. Settles(gone)
  <2>1. gone \subseteq Queued /\ gone \subseteq 1 .. Len(req)
    BY <1>0, <1>7, QueuedRequest
  <2>2. list' = Those(list, Listed \ {d})
    BY DEF DiskDisappears
  <2>3. Listed' = Listed \ {d}
    BY <2>2, Shorter
  <2>4. \A r \in gone : Finishes(r)
    BY <1>0, <2>3 DEF Finishes
  <2> QED BY <1>13, <2>1, <2>4 DEF Settles
<1>15. Spoils(J)
  <2>1. ASSUME NEW x \in J, x \in Queued' PROVE FALSE
    <3>1. x \in Queued \ gone /\ req[x].disk = d
      BY <1>6, <1>8, <1>13, <2>1
    <3> QED BY <1>0, <3>1
  <2>2. \A x \in J : \E w \in work : w.req = x
    BY <1>6, <1>8
  <2> QED BY <2>1, <2>2 DEF Spoils
<1>16. Summary
  BY <1>12, <1>14, <1>15, None, SummaryOf
<1> QED BY <1>0, <1>12, <1>13, <1>16

\* What a client's request is at first, and what it is for a part of the unit.
Part(kind, d, force) == [NewRequest(kind, d) EXCEPT !.force = force]
Own(kind, d, force) == [NewRequest(kind, d) EXCEPT !.force = force, !.callback = TRUE]
AsHead(n, link) == [n EXCEPT !.whole = TRUE, !.link = link]

LEMMA NewParts ==
  ASSUME NEW kind \in Kind, NEW d \in Disk, NEW force \in BOOLEAN
  PROVE  /\ Alone(Part(kind, d, force))
         /\ Part(kind, d, force).disk = d /\ Part(kind, d, force).kind = kind
         /\ ~Part(kind, d, force).automatic
         /\ Alone(Own(kind, d, force))
         /\ Own(kind, d, force).disk = d /\ Own(kind, d, force).kind = kind
<1>1. PICK m : m = NewRequest(kind, d)
  OBVIOUS
<1>2. /\ m \in Request /\ m.kind = kind /\ m.disk = d /\ m.whole = FALSE /\ m.link = {}
      /\ m.approved = FALSE /\ m.probed = FALSE /\ m.answers = <<>> /\ m.automatic = FALSE
  BY <1>1 DEF NewRequest, Request, Dissent, Kind
<1>3. PICK n : n = Part(kind, d, force)
  OBVIOUS
<1>4. n = [m EXCEPT !.force = force]
  BY <1>1, <1>3 DEF Part
<1>5. Alone(n) /\ n.disk = d /\ n.kind = kind /\ ~n.automatic
  BY <1>2, <1>4 DEF Alone, Request
<1>6. PICK o : o = Own(kind, d, force)
  OBVIOUS
<1>7. o = [m EXCEPT !.force = force, !.callback = TRUE]
  BY <1>1, <1>6 DEF Own
<1>8. Alone(o) /\ o.disk = d /\ o.kind = kind
  BY <1>2, <1>7 DEF Alone, Request
<1> QED BY <1>3, <1>5, <1>6, <1>8

LEMMA NewHead ==
  ASSUME NEW n, Alone(n), NEW d, n.disk = d, NEW kind, n.kind = kind,
         d \in Whole, d \in Listed, NEW link \in SUBSET Nat
  PROVE  Leads(AsHead(n, link), d, kind, link)
<1>1. n \in Request /\ ~n.approved /\ ~n.probed /\ n.answers = <<>>
  BY DEF Alone
<1>2. PICK m : m = AsHead(n, link)
  OBVIOUS
<1>3. m \in Request
  BY <1>1, <1>2 DEF AsHead, Request
<1>4. /\ m.approved = n.approved /\ m.probed = n.probed /\ m.answers = n.answers
      /\ m.disk = n.disk /\ m.kind = n.kind /\ m.whole = TRUE /\ m.link = link
  BY <1>1, <1>2 DEF AsHead, Request
<1> QED BY <1>1, <1>2, <1>3, <1>4 DEF Leads

\* The other disks of the unit.
LEMMA OthersOnUnit ==
  ASSUME Known, NEW d \in Disk, NEW subs,
         subs = Those(list, {e \in Listed : e # d /\ unitOf[e] = unitOf[d]})
  PROVE  /\ subs \in Seq(Disk) /\ Len(subs) \in Nat
         /\ \A i \in 1 .. Len(subs) :
               subs[i] # d /\ unitOf[subs[i]] = unitOf[d] /\ subs[i] \in Listed
<1>1. PICK U : U = {e \in Listed : e # d /\ unitOf[e] = unitOf[d]}
  OBVIOUS
<1>2. list \in Seq(Disk) /\ subs = Those(list, U)
  BY <1>1 DEF Known
<1>3. IsThose(Disk, subs, list, U)
  BY <1>2, ThoseAre
<1>4. subs \in Seq(Disk) /\ Entries(subs) \subseteq U
  BY <1>3 DEF IsThose
<1>5. \A i \in 1 .. Len(subs) : subs[i] \in Entries(subs)
  <2>1. DOMAIN subs = 1 .. Len(subs)
    BY <1>4
  <2> QED BY <2>1 DEF Entries
<1> QED BY <1>1, <1>4, <1>5

LEMMA PartsMade ==
  ASSUME NEW d, NEW subs \in Seq(Disk), NEW kind \in Kind, NEW force \in BOOLEAN,
         \A i \in 1 .. Len(subs) :
           subs[i] # d /\ unitOf[subs[i]] = unitOf[d] /\ subs[i] \in Listed,
         NEW parts, parts = [i \in 1 .. Len(subs) |-> Part(kind, subs[i], force)]
  PROVE  Parts(parts, d, subs, kind)
<1>0. Len(subs) \in Nat /\ \A i \in 1 .. Len(subs) : subs[i] \in Disk
  OBVIOUS
<1>1. \A i \in 1 .. Len(subs) : parts[i] = Part(kind, subs[i], force)
  OBVIOUS
<1>2. \A i \in 1 .. Len(subs) :
        Alone(parts[i]) /\ parts[i].disk = subs[i] /\ parts[i].kind = kind /\ ~parts[i].automatic
  BY <1>0, <1>1, NewParts
<1>3. \A i \in 1 .. Len(subs) : parts[i] \in Request
  BY <1>2 DEF Alone
<1>4. DOMAIN parts = 1 .. Len(subs) /\ parts = [i \in DOMAIN parts |-> parts[i]]
  OBVIOUS
<1>6. Len(subs) \in Nat
  BY <1>0
<1>5. parts \in Seq(Request) /\ Len(parts) = Len(subs)
  <2>1. PICK o : o = parts
    OBVIOUS
  <2>2. DOMAIN o = 1 .. Len(subs) /\ o = [i \in DOMAIN o |-> o[i]]
        /\ \A i \in 1 .. Len(subs) : o[i] \in Request
    BY <1>3, <1>4, <2>1
  <2>3. o \in Seq(Request) /\ Len(o) = Len(subs)
    BY <1>6, <2>2, IsSequence
  <2> QED BY <2>1, <2>3
<1> QED BY <1>2, <1>5 DEF Parts

\* A request that is answered at once is never queued.
LEMMA AnsweredAtOnce ==
  ASSUME Known, NEW n, Alone(n), NEW first, first = Len(req) + 1,
         req' = Answered(Append(req, n), {first}, FALSE), requests' = requests
  PROVE  Moves({}, {}, {})
<1>0. Len(req) \in Nat /\ req \in Seq(Request) /\ requests \in Seq(1 .. Len(req)) /\ n \in Request
  BY DEF Known, RequestTypes, Alone
<1>1. PICK q : q = Append(req, n)
  OBVIOUS
<1>2. q \in Seq(Request) /\ Len(q) = first /\ q[first] = n /\ \A r \in 1 .. Len(req) : q[r] = req[r]
  BY <1>0, <1>1, AppendEntry
<1>3. Comes(req', q, {first}, {}, {})
  BY <1>1, <1>2, AnsweredComes
<1>4. ASSUME NEW r \in 1 .. Len(req) PROVE Becoming(req'[r], req[r], r, {}, {}, {})
  <2>1. r \in 1 .. Len(q) /\ r \notin {first}
    BY <1>0, <1>2
  <2>2. Becoming(req'[r], q[r], r, {first}, {}, {})
    BY <1>3, <2>1 DEF Comes
  <2>3. q[r] = req[r]
    BY <1>2
  <2> QED BY <2>1, <2>2, <2>3 DEF Becoming
<1>5. Fresh(req', first)
  <2>1. first \in 1 .. Len(q)
    BY <1>0, <1>2
  <2>2. Becoming(req'[first], n, first, {first}, {}, {})
    BY <1>2, <1>3, <2>1 DEF Comes
  <2>3. /\ ~n.approved /\ ~n.probed /\ ~n.whole /\ n.link = {} /\ n.answers = <<>>
    BY DEF Alone
  <2>4. /\ ~req'[first].approved /\ ~req'[first].probed /\ Len(req'[first].answers) <= 1
        /\ ~req'[first].whole /\ req'[first].link = {}
    BY <2>2, <2>3 DEF Becoming, Alike
  <2> QED BY <2>4 DEF Fresh
<1>6. req' \in Seq(Request) /\ Len(req') = first
  BY <1>2, <1>3 DEF Comes
<1>l. PICK l \in Nat : l = Len(req)
  BY <1>0
<1>m. PICK m : m = Len(req')
  OBVIOUS
<1>n. m = l + 1
  BY <1>6, <1>l, <1>m
<1>7. \A r \in l + 1 .. m : r = first
  BY <1>l, <1>n
<1>8. l <= m /\ 1 .. l \subseteq 1 .. m
  BY <1>l, <1>n
<1>9. Changes({}, {}, {})
  BY <1>4, <1>5, <1>6, <1>7, <1>8, <1>l, <1>m DEF Changes
<1>10. requests' \in Seq(1 .. Len(req'))
  <2>1. requests \in Seq(1 .. l)
    BY <1>0, <1>l
  <2>2. requests \in Seq(1 .. m)
    <3>1. PICK T : T = 1 .. l
      OBVIOUS
    <3>2. PICK U : U = 1 .. m
      OBVIOUS
    <3>3. T \subseteq U /\ requests \in Seq(T)
      BY <1>8, <2>1, <3>1, <3>2
    <3>4. requests \in Seq(U)
      BY <3>3
    <3> QED BY <3>2, <3>4
  <2> QED BY <1>m, <2>2
<1>11. Queued' = Queued
  BY DEF Queued
<1> QED BY <1>9, <1>10, <1>11 DEF Moves

LEMMA QueueSummary ==
  ASSUME Known, NEW d \in Listed, NEW kind \in RequestKind, NEW whole \in BOOLEAN,
         NEW force \in BOOLEAN, QueueRequest(d, kind, whole, force)
  PROVE  Summary
<1>1. PICK subs : subs = Those(list, {e \in Listed : e # d /\ unitOf[e] = unitOf[d]})
  OBVIOUS
<1>2. d \in Disk /\ kind \in Kind /\ list' = list
  <2>1. kind \in Kind
    BY ConstantAssumption DEF Kind
  <2>2. d \in Disk
    BY DEF Known, Listed
  <2>3. list' = list
    BY DEF QueueRequest, stageVars
  <2> QED BY <2>1, <2>2, <2>3
<1>3. /\ subs \in Seq(Disk) /\ Len(subs) \in Nat
      /\ \A i \in 1 .. Len(subs) :
            subs[i] # d /\ unitOf[subs[i]] = unitOf[d] /\ subs[i] \in Listed
  BY <1>1, <1>2, OthersOnUnit
<1>4. PICK n : n = Own(kind, d, force)
  OBVIOUS
<1>5. Alone(n) /\ n.disk = d /\ n.kind = kind
  BY <1>2, <1>4, NewParts
<1>6. PICK first : first = Len(req) + 1
  OBVIOUS
<1>z. PICK last : last = Len(req) + Len(subs) + 1
  OBVIOUS
<1>7. \/ req' = Append(req, n) /\ requests' = Append(requests, Len(req'))
      \/ /\ d \in Whole
         /\ req' = req \o [i \in 1 .. Len(subs) |-> Part(kind, subs[i], force)]
                       \o <<AsHead(n, first .. last - 1)>>
         /\ requests' = requests \o [i \in 1 .. Len(subs) + 1 |-> Len(req) + i]
      \/ req' = Answered(Append(req, n), {first}, FALSE) /\ requests' = requests
  <2>1. CASE ~whole
    BY <1>4, <2>1 DEF QueueRequest, Own
  <2>2. CASE whole /\ d \in Whole
    <3>1. requests' = requests \o [i \in 1 .. Len(subs) + 1 |-> Len(req) + i]
      BY <1>1, <2>2 DEF QueueRequest
    <3>3. req' = req \o [i \in 1 .. Len(subs) |-> Part(kind, subs[i], force)]
                     \o <<AsHead(n, first .. last - 1)>>
      BY <1>1, <1>4, <1>6, <1>z, <2>2 DEF QueueRequest, Own, Part, AsHead
    <3> QED BY <2>2, <3>1, <3>3
  <2>3. CASE whole /\ d \notin Whole
    BY <1>4, <1>6, <2>3 DEF QueueRequest, Own
  <2> QED BY <2>1, <2>2, <2>3
<1>8. RequestTypes /\ req \in Seq(Request) /\ Len(req) \in Nat
  BY DEF Known, RequestTypes
<1>9. CASE req' = Append(req, n) /\ requests' = Append(requests, Len(req'))
  <2>1. Comes(req, req, {}, {}, {}) /\ requests \in Seq(1 .. Len(req))
    BY <1>8, ComesSame DEF RequestTypes
  <2>2. req'[first] = n
    BY <1>5, <1>6, <1>8, <1>9, <2>1, AppendChanges
  <2>3. Placed(first)'
    BY <1>2, <1>5, <2>2 DEF Placed, Listed
  <2>4. Entries(requests) \subseteq Queued
    BY QueuedEntries
  <2>5. Moves({}, {}, {})
    BY <1>5, <1>6, <1>8, <1>9, <2>1, <2>3, <2>4, MovesAppended
  <2> QED BY <2>5, None, SummaryOf
<1>10. CASE /\ d \in Whole
            /\ req' = req \o [i \in 1 .. Len(subs) |-> Part(kind, subs[i], force)]
                          \o <<AsHead(n, first .. last - 1)>>
            /\ requests' = requests \o [i \in 1 .. Len(subs) + 1 |-> Len(req) + i]
  <2>1. PICK parts : parts = [i \in 1 .. Len(subs) |-> Part(kind, subs[i], force)]
    OBVIOUS
  <2>2. Parts(parts, d, subs, kind)
    BY <1>2, <1>3, <2>1, PartsMade
  <2>3. PICK m : m = AsHead(n, first .. last - 1)
    OBVIOUS
  <2>4. first .. last - 1 = Len(req) + 1 .. Len(req) + Len(subs)
    BY <1>3, <1>6, <1>8, <1>z
  <2>5. PICK link : link = Len(req) + 1 .. Len(req) + Len(subs)
    OBVIOUS
  <2>6. link \in SUBSET Nat
    BY <1>3, <1>8, <2>5
  <2>7. m = AsHead(n, link)
    BY <2>3, <2>4, <2>5
  <2>8. Leads(m, d, kind, link)
    BY <1>5, <1>10, <2>6, <2>7, NewHead
  <2>9. Leads(m, d, kind, Len(req) + 1 .. Len(req) + Len(subs))
    BY <2>5, <2>8
  <2>10. req' = (req \o parts) \o <<m>>
    BY <1>10, <2>1, <2>3
  <2>11. Moves({}, {}, {})
    BY <1>2, <1>3, <1>8, <1>10, <2>2, <2>9, <2>10, WholeMoves
  <2> QED BY <2>11, None, SummaryOf
<1>11. CASE req' = Answered(Append(req, n), {first}, FALSE) /\ requests' = requests
  <2>1. Moves({}, {}, {})
    BY <1>5, <1>6, <1>11, AnsweredAtOnce
  <2> QED BY <2>1, None, SummaryOf
<1> QED BY <1>7, <1>9, <1>10, <1>11

LEMMA StepSummary ==
  ASSUME Known, Next PROVE Summary
<1>1. CASE DispatchBegin \/ DispatchRequests \/ DispatchEnd
  BY <1>1, SummaryNot DEF DispatchBegin, DispatchRequests, DispatchEnd
<1>2. ASSUME NEW d \in Listed,
             StageNothing(d) \/ StageProbe(d) \/ StageMountWaits(d) \/ StageAppear(d)
             \/ \E asked \in Asked : StagePeek(d, asked)
      PROVE  Summary
  BY <1>2, SummaryNot DEF StageNothing, StageProbe, StageMountWaits, StageAppear, StagePeek
<1>3. ASSUME NEW w \in work, NEW status, ThreadRuns(w, status) PROVE Summary
  BY <1>3, SummaryNot DEF ThreadRuns
<1>4. ASSUME NEW d \in Disk, NEW late, DiskAppears(d, late) PROVE Summary
  BY <1>4, SummaryNot DEF DiskAppears
<1>5. CASE Walk
  BY <1>1, <1>2, <1>5, MountSummary, WaitsSummary, ReprobeSummary, ApproveSummary,
     AuthorizeSummary, RefusedSummary, RejectedSummary, StartSummary DEF Walk
<1>6. CASE Environment
  BY <1>4, <1>6, DisappearsSummary, QueueSummary DEF Environment
<1> QED BY <1>3, <1>5, <1>6, CallbackSummary DEF Next, Threads

-----------------------------------------------------------------------------
(* What each step does to what goes on.                                    *)
Unmounting(w) == w.op \in {"unmount", "unmountPID"}

\* w is v, or what v has become.
Continues(w, v) ==
  /\ w.disk = v.disk /\ w.req = v.req
  /\ \/ w.op = v.op
     \/ Consulting(w) /\ Consulting(v)
     \/ /\ Serving(w) /\ Serving(v) /\ w.op # "mount" /\ v.op # "mount"
        /\ Unmounting(v) <=> Unmounting(w)

\* w is begun.
Starts(w) ==
  \/ /\ w.op \in {"probe", "peek"} /\ w.req = 0 /\ w.disk \in Listed
     /\ w.op = "probe" => StageProbe(w.disk) /\ ~UnitBusy(w.disk)
  \/ /\ Consulting(w) /\ w.req \in Queued /\ w.req \in Queued'
     /\ req[w.req].disk = w.disk /\ w.disk \in Listed
  \/ /\ Serving(w) /\ w.req \in Queued /\ req[w.req].disk = w.disk
     /\ RequestStart(w.req) /\ w.op = CommandOf(w.req)
     /\ Queued' = Queued \ {w.req}
     /\ req'[w.req].answers = req[w.req].answers /\ req'[w.req].approved

WorkStep ==
  \A w \in work' : /\ w \in Work
                   /\ (\E v \in work : Continues(w, v)) \/ Starts(w)

LEMMA WorkKept ==
  ASSUME Known, NEW W \in SUBSET work, work' = W
  PROVE  WorkStep
<1>1. \A w \in work' : w \in work /\ w \in Work /\ Continues(w, w)
  BY DEF Known, WorkTypes, Continues
<1> QED BY <1>1 DEF WorkStep

LEMMA WorkAdded ==
  ASSUME Known, NEW n \in Work, work' \subseteq work \cup {n},
         (\E v \in work : Continues(n, v)) \/ Starts(n)
  PROVE  WorkStep
<1>1. \A w \in work' : w \in work \/ w = n
  OBVIOUS
<1>2. \A w \in work : w \in Work /\ Continues(w, w)
  BY DEF Known, WorkTypes, Continues
<1> QED BY <1>1, <1>2 DEF WorkStep

LEMMA BeginWork ==
  ASSUME Known, NEW op \in Op, NEW d \in Disk, NEW r \in Nat, Begin(op, d, r),
         NEW n, n = [op |-> op, disk |-> d, req |-> r, status |-> "running"],
         Starts(n)
  PROVE  WorkStep
<1>1. n \in Work
  BY DEF Work
<1>2. work' \subseteq work \cup {n}
  BY DEF Begin
<1> QED BY <1>1, <1>2, WorkAdded

LEMMA BecomesWork ==
  ASSUME Known, NEW w \in work, NEW op \in Op, NEW status \in {"running", "failed"},
         Becomes(w, op, status),
         \/ w.op = "tickle" /\ op = "approval"
         \/ w.op \in {"eject", "ejectPID"} /\ op = "ejectPID"
         \/ Unmounting(w) /\ op = "unmountPID"
  PROVE  WorkStep
<1>1. w \in Work
  BY DEF Known, WorkTypes
<1>2. PICK n : n = [op |-> op, disk |-> w.disk, req |-> w.req, status |-> status]
  OBVIOUS
<1>3. n \in Work
  BY <1>1, <1>2 DEF Work
<1>4. n.op = op /\ n.disk = w.disk /\ n.req = w.req
  BY <1>2
<1>5. Continues(n, w)
  BY <1>4 DEF Continues, Consulting, Serving, Unmounting
<1>6. work' \subseteq work \cup {n}
  BY <1>2 DEF Becomes
<1> QED BY <1>3, <1>5, <1>6, WorkAdded

LEMMA ThreadWork ==
  ASSUME Known, NEW w \in work, NEW status \in {"done", "failed"}, ThreadRuns(w, status)
  PROVE  WorkStep
<1>1. w \in Work
  BY DEF Known, WorkTypes
<1>2. PICK n : n = [w EXCEPT !.status = status]
  OBVIOUS
<1>3. n \in Work /\ n.op = w.op /\ n.disk = w.disk /\ n.req = w.req
  BY <1>1, <1>2 DEF Work
<1>5. Continues(n, w)
  BY <1>3 DEF Continues
<1>6. work' \subseteq work \cup {n}
  BY <1>2 DEF ThreadRuns
<1> QED BY <1>3, <1>5, <1>6, WorkAdded

LEMMA ProbeWork ==
  ASSUME Known, NEW d \in Listed, StageProbe(d) \/ \E asked : StagePeek(d, asked)
  PROVE  WorkStep
<1>1. d \in Disk /\ {"probe", "peek"} \subseteq Op /\ 0 \in Nat
  BY DEF Known, Listed, Op, Command
<1>2. CASE UNCHANGED busyVars
  BY <1>2, WorkKept DEF busyVars
<1>3. ASSUME NEW op \in {"probe", "peek"}, Begin(op, d, 0),
             op = "probe" => StageProbe(d) /\ ~UnitBusy(d)
      PROVE  WorkStep
  <2>2. PICK n : n = [op |-> op, disk |-> d, req |-> 0, status |-> "running"]
    OBVIOUS
  <2>3. n.op = op /\ n.req = 0 /\ n.disk = d
    BY <2>2
  <2>4. Starts(n)
    BY <1>3, <2>3 DEF Starts
  <2> QED BY <1>1, <1>3, <2>2, <2>4, BeginWork
<1>4. CASE StageProbe(d)
  BY <1>2, <1>3, <1>4 DEF StageProbe
<1>5. ASSUME NEW asked, StagePeek(d, asked) PROVE WorkStep
  BY <1>2, <1>3, <1>5 DEF StagePeek
<1> QED BY <1>4, <1>5

\* A disk that left is not asked about.
LEMMA AskedIsListed ==
  ASSUME Known, NEW r \in Queued, ~Approved(r) \/ NeedsAuthorization(r)
  PROVE  req[r].disk \in Listed
  BY DEF Known, Places, Placed, Approved, NeedsAuthorization, IsMount

LEMMA RequestWork ==
  ASSUME Known, NEW r \in Queued, NEW asked,
         RequestApprove(r, asked) \/ MountAuthorize(r) \/ RequestStart(r)
  PROVE  WorkStep
<1>1. r \in DOMAIN req /\ req[r] \in Request /\ r \in Nat
  BY QueuedRequest DEF Known, RequestTypes
<1>2. req[r].disk \in Disk /\ req[r].kind \in Kind
  BY <1>1, RequestFields
<1>3. CASE UNCHANGED busyVars
  BY <1>3, WorkKept DEF busyVars
<1>4. ASSUME NEW op \in {"tickle", "approval", "authorize"}, Begin(op, req[r].disk, r),
             RequestApprove(r, asked) \/ MountAuthorize(r)
      PROVE  WorkStep
  <2>1. req[r].disk \in Listed
    BY <1>4, AskedIsListed DEF RequestApprove, MountAuthorize
  <2>2. PICK n : n = [op |-> op, disk |-> req[r].disk, req |-> r, status |-> "running"]
    OBVIOUS
  <2>5. Queued' = Queued
    BY <1>4 DEF RequestApprove, MountAuthorize, Leave, Queued
  <2>3. Starts(n)
    BY <2>1, <2>2, <2>5 DEF Starts, Consulting
  <2>4. op \in Op
    BY DEF Op
  <2> QED BY <1>1, <1>2, <1>4, <2>2, <2>3, <2>4, BeginWork
<1>5. ASSUME RequestStart(r), Take, Begin(CommandOf(r), req[r].disk, r) PROVE WorkStep
  <2>1. PICK op : op = CommandOf(r)
    OBVIOUS
  <2>2. op \in {"eject", "mount", "unmount"}
    BY <1>2, <2>1 DEF CommandOf, Kind
  <2>3. PICK n : n = [op |-> op, disk |-> req[r].disk, req |-> r, status |-> "running"]
    OBVIOUS
  <2>4. Queued' = Queued \ {r}
    BY <1>5, StartSummary
  <2>5. req'[r].answers = req[r].answers /\ req'[r].approved
    <3>1. req' = [req EXCEPT ![r].approved = TRUE]
      BY <1>5 DEF RequestStart
    <3> QED BY <1>1, <3>1 DEF Request
  <2>6. Starts(n)
    BY <1>5, <2>1, <2>2, <2>3, <2>4, <2>5 DEF Starts, Serving
  <2>7. op \in Op
    BY <2>2 DEF Op, Command
  <2> QED BY <1>1, <1>2, <1>5, <2>1, <2>3, <2>6, <2>7, BeginWork
<1> QED BY <1>3, <1>4, <1>5 DEF RequestApprove, MountAuthorize, RequestStart

LEMMA CallbackWork ==
  ASSUME Known, NEW w \in work, Callbacks(w)
  PROVE  WorkStep
<1>1. \/ End(w)
      \/ w.op = "tickle" /\ Becomes(w, "approval", "running")
      \/ w.op \in {"eject", "ejectPID"} /\ Becomes(w, "ejectPID", "failed")
      \/ w.op \in {"unmount", "unmountPID"} /\ Becomes(w, "unmountPID", "failed")
  BY DEF Callbacks, ProbeDone, PeekDone, TickleDone, ApprovalDone, AuthorizeDone,
         EjectDone, MountDone, UnmountDone, NotesFailure
<1>2. {"approval", "ejectPID", "unmountPID"} \subseteq Op
  BY DEF Op, Command
<1>3. CASE End(w)
  BY <1>3, WorkKept DEF End
<1> QED BY <1>1, <1>2, <1>3, BecomesWork DEF Unmounting

(* What media and clients do is done on the work loop between walks, mounts *)
(* nothing and begins nothing.                                             *)
LEMMA Outside ==
  ASSUME Environment
  PROVE  Handler /\ path' = path /\ work' \subseteq work
<1>1. ASSUME NEW d, NEW late, DiskAppears(d, late)
      PROVE  Handler /\ path' = path /\ work' \subseteq work
  BY <1>1 DEF DiskAppears, busyVars
<1>2. ASSUME NEW d, NEW verdict, NEW peeks, DiskDisappears(d, verdict, peeks)
      PROVE  Handler /\ path' = path /\ work' \subseteq work
  <2>1. Handler /\ path' = path
    BY <1>2 DEF DiskDisappears
  <2>2. \E over : work' = work \ over
    BY <1>2 DEF DiskDisappears
  <2> QED BY <2>1, <2>2
<1>3. ASSUME NEW d, NEW kind, NEW whole, NEW force, QueueRequest(d, kind, whole, force)
      PROVE  Handler /\ path' = path /\ work' \subseteq work
  BY <1>3 DEF QueueRequest, stageVars, busyVars
<1> QED BY <1>1, <1>2, <1>3 DEF Environment

LEMMA StepWork ==
  ASSUME Known, Next PROVE WorkStep
<1>1. CASE DispatchBegin \/ DispatchRequests \/ DispatchEnd
  BY <1>1, WorkKept DEF DispatchBegin, DispatchRequests, DispatchEnd, busyVars
<1>2. ASSUME NEW d \in Listed,
             StageNothing(d) \/ StageMountWaits(d) \/ StageAppear(d)
             \/ \E enabled \in AutoMount : StageMount(d, enabled)
      PROVE  WorkStep
  BY <1>2, WorkKept DEF StageNothing, StageMountWaits, StageAppear, StageMount, busyVars
<1>3. ASSUME NEW r \in Queued,
             RequestWaits(r) \/ MountReprobe(r) \/ RequestRejected(r) \/ RequestRefused(r)
      PROVE  WorkStep
  BY <1>3, WorkKept DEF RequestWaits, MountReprobe, RequestRejected, RequestRefused, busyVars
<1>4. ASSUME NEW d \in Listed, StageProbe(d) \/ \E asked \in Asked : StagePeek(d, asked)
      PROVE  WorkStep
  BY <1>4, ProbeWork
<1>5. CASE Walk
  BY <1>1, <1>2, <1>3, <1>4, <1>5, RequestWork DEF Walk
<1>6. CASE Environment
  <2>1. work' \subseteq work
    BY <1>6, Outside
  <2>2. PICK W : W = work'
    OBVIOUS
  <2> QED BY <2>1, <2>2, WorkKept
<1> QED BY <1>5, <1>6, CallbackWork, ThreadWork DEF Next, Threads

-----------------------------------------------------------------------------
(* The order in which requests are served.                                 *)

\* Whatever involves a disk of a request that the walk left is left too.
Kept ==
  cursor.phase = "requests" =>
    \A k \in DOMAIN requests : k < cursor.i => Involved(requests[k]) \subseteq cursor.blocked

\* ServedInOrder, by the numbers of the requests.
Ordered ==
  \A r, s \in Queued :
    r < s /\ Involved(r) \cap Involved(s) # {} => ~req[s].probed /\ ~req[s].approved

LEMMA OrderedIs ==
  ASSUME RequestTypes, Rising(requests)
  PROVE  ServedInOrder <=> Ordered
<1>1. DOMAIN requests = 1 .. Len(requests) /\ \A i \in DOMAIN requests : requests[i] \in Nat
  BY DEF RequestTypes
<1>2. \A i, j \in DOMAIN requests : i < j <=> requests[i] < requests[j]
  <2>1. ASSUME NEW i \in DOMAIN requests, NEW j \in DOMAIN requests
        PROVE  i < j <=> requests[i] < requests[j]
    <3>1. i \in Nat /\ j \in Nat /\ requests[i] \in Nat /\ requests[j] \in Nat
      BY <1>1
    <3>2. CASE i < j
      BY <3>1, <3>2 DEF Rising
    <3>3. CASE i = j
      BY <3>1, <3>3
    <3>4. CASE j < i
      <4>1. requests[j] < requests[i]
        BY <3>4 DEF Rising
      <4> QED BY <3>1, <3>4, <4>1
    <3> QED BY <3>1, <3>2, <3>3, <3>4
  <2> QED BY <2>1
<1>3. ASSUME Ordered PROVE ServedInOrder
  BY <1>2, <1>3 DEF Ordered, ServedInOrder, Queued
<1>4. ASSUME ServedInOrder PROVE Ordered
  <2>1. ASSUME NEW r \in Queued, NEW s \in Queued,
               r < s, Involved(r) \cap Involved(s) # {}
        PROVE  ~req[s].probed /\ ~req[s].approved
    <3>1. PICK i \in DOMAIN requests : r = requests[i]
      BY DEF Queued
    <3>2. PICK j \in DOMAIN requests : s = requests[j]
      BY DEF Queued
    <3> QED BY <1>2, <1>4, <2>1, <3>1, <3>2 DEF ServedInOrder
  <2> QED BY <2>1 DEF Ordered
<1> QED BY <1>3, <1>4

LEMMA EarlierApart ==
  ASSUME Known, Kept, cursor.i \in Nat, NEW s \in Queued, Dispatching(s), Ready(s),
         NEW r \in Queued, r < s
  PROVE  Involved(r) \cap Involved(s) = {}
<1>1. cursor.phase = "requests" /\ cursor.i \in DOMAIN requests /\ s = requests[cursor.i]
  BY DEF Dispatching
<1>2. PICK k \in DOMAIN requests : r = requests[k]
  BY DEF Queued
<1>3. k \in Nat /\ r \in Nat /\ s \in Nat
  BY <1>1, <1>2 DEF Known, RequestTypes
<1>4. k < cursor.i
  <2>1. cursor.i < k => s < r
    BY <1>1, <1>2 DEF Known, Serves, Rising
  <2>2. cursor.i = k => s = r
    BY <1>1, <1>2
  <2> QED BY <1>3, <2>1, <2>2
<1>5. Involved(r) \subseteq cursor.blocked
  BY <1>1, <1>2, <1>4 DEF Kept
<1>6. Involved(s) \cap cursor.blocked = {}
  BY DEF Ready
<1> QED BY <1>5, <1>6

LEMMA StillAlike ==
  ASSUME Known, NEW A, NEW J, NEW S, Moves(A, J, S), NEW r \in 1 .. Len(req)
  PROVE  /\ Becoming(req'[r], req[r], r, A, J, S)
         /\ r \in DOMAIN req /\ r \in DOMAIN req' /\ r \in 1 .. Len(req')
         /\ req[r].link \subseteq 1 .. Len(req)
         /\ \A s \in req[r].link : Alike(req'[s], req[s])
<1>1. /\ req' \in Seq(Request) /\ Len(req) <= Len(req') /\ req \in Seq(Request)
      /\ \A s \in 1 .. Len(req) : Becoming(req'[s], req[s], s, A, J, S)
  BY DEF Moves, Changes, Known, RequestTypes
<1>2. r \in DOMAIN req /\ r \in DOMAIN req' /\ r \in 1 .. Len(req')
  BY <1>1
<1>3. req[r].link \subseteq 1 .. r - 1
  BY <1>2 DEF Known, Serves, RequestShape, Shaped
<1>4. 1 .. r - 1 \subseteq 1 .. Len(req)
  BY <1>1
<1> QED BY <1>1, <1>2, <1>3, <1>4 DEF Becoming

LEMMA InvolvedSame ==
  ASSUME Known, NEW A, NEW J, NEW S, Moves(A, J, S), NEW r \in 1 .. Len(req)
  PROVE  Involved(r)' = Involved(r)
<1>1. /\ Alike(req'[r], req[r])
      /\ \A s \in req[r].link : Alike(req'[s], req[s])
  BY StillAlike DEF Becoming
<1> QED BY <1>1 DEF Involved, Alike

LEMMA OrderedStays ==
  ASSUME Known, Kept, Ordered, cursor.i \in Nat, Summary
  PROVE  Ordered'
<1>1. PICK A, J, S : Moves(A, J, S) /\ Settles(A) /\ Spoils(J) /\ Advances(S)
  BY DEF Summary
<1>2. Len(req) \in Nat /\ Len(req') \in Nat /\ Len(req) <= Len(req')
  BY <1>1 DEF Known, RequestTypes, Moves, Changes
<1>3. \A r \in Queued' : r \in Queued \/ r \in Len(req) + 1 .. Len(req')
  BY <1>1 DEF Moves
<1>4. \A r \in Queued : r \in 1 .. Len(req)
  BY QueuedRequest DEF Known
<1>5. ASSUME NEW r \in Queued', NEW s \in Queued', r < s,
             Involved(r)' \cap Involved(s)' # {}
      PROVE  ~req'[s].probed /\ ~req'[s].approved
  <2>1. CASE s \in Len(req) + 1 .. Len(req')
    BY <1>1, <2>1 DEF Moves, Changes, Fresh
  <2>2. CASE s \in Queued
    <3>1. r \in Queued
      BY <1>2, <1>3, <1>4, <1>5, <2>2
    <3>2. Involved(r)' = Involved(r) /\ Involved(s)' = Involved(s)
      BY <1>1, <1>4, <2>2, <3>1, InvolvedSame
    <3>3. s \notin S
      BY <1>1, <1>5, <2>2, <3>1, <3>2, EarlierApart DEF Advances
    <3>4. ~req[s].probed /\ ~req[s].approved
      BY <1>5, <2>2, <3>1, <3>2 DEF Ordered
    <3>5. Becoming(req'[s], req[s], s, A, J, S)
      BY <1>1, <1>4, <2>2, StillAlike
    <3> QED BY <3>3, <3>4, <3>5 DEF Becoming
  <2> QED BY <1>3, <2>1, <2>2
<1> QED BY <1>5 DEF Ordered

\* What becomes of the walk over the requests.
CursorStep ==
  cursor'.phase = "requests" =>
    \/ cursor'.i = 1
    \/ /\ cursor.phase = "requests" /\ UNCHANGED cursor
       /\ \A k \in DOMAIN requests' :
            k < cursor.i => k \in DOMAIN requests /\ requests'[k] = requests[k]
    \/ \E r \in Queued : Dispatching(r) /\ Leave(r)

LEMMA KeptStays ==
  ASSUME Known, Kept, cursor.i \in Nat, cursor \in [phase : {"rest", "disks", "requests"}, i : Nat,
                     blocked : SUBSET Disk, quiet : BOOLEAN], Summary, CursorStep
  PROVE  Kept'
<1>1. PICK A, J, S : Moves(A, J, S)
  BY DEF Summary
<1>2. \A r \in Queued : Involved(r)' = Involved(r)
  BY <1>1, QueuedRequest, InvolvedSame DEF Known
<1>3. requests' \in Seq(1 .. Len(req')) /\ \A k \in DOMAIN requests' : k \in Nat /\ 1 <= k
  BY <1>1 DEF Moves
<1>5. \A k \in DOMAIN requests : requests[k] \in Queued
  BY DEF Queued
<1>4. ASSUME cursor'.phase = "requests", NEW k \in DOMAIN requests', k < cursor'.i,
             NEW s, s = requests'[k]
      PROVE  Involved(s)' \subseteq cursor'.blocked
  <2>1. CASE cursor'.i = 1
    BY <1>3, <1>4, <2>1
  <2>2. CASE /\ cursor.phase = "requests" /\ UNCHANGED cursor
             /\ \A l \in DOMAIN requests' :
                  l < cursor.i => l \in DOMAIN requests /\ requests'[l] = requests[l]
    <3>1. k \in DOMAIN requests /\ requests[k] = s /\ k < cursor.i /\ s \in Queued
      BY <1>4, <1>5, <2>2
    <3>3. Involved(s) \subseteq cursor.blocked
      BY <2>2, <3>1 DEF Kept
    <3>4. Involved(s)' = Involved(s) /\ cursor' = cursor
      BY <1>2, <2>2, <3>1
    <3> QED BY <3>3, <3>4
  <2>3. ASSUME NEW r \in Queued, Dispatching(r), Leave(r)
        PROVE  Involved(s)' \subseteq cursor'.blocked
    <3>1. /\ cursor.phase = "requests" /\ cursor.i \in DOMAIN requests /\ r = requests[cursor.i]
          /\ cursor'.i = cursor.i + 1 /\ cursor'.blocked = cursor.blocked \cup Involved(r)
          /\ requests' = requests
      BY <2>3 DEF Dispatching, Leave
    <3>2. k \in DOMAIN requests /\ requests[k] = s /\ s \in Queued
      BY <1>4, <1>5, <3>1
    <3>3. k < cursor.i \/ k = cursor.i
      <4>1. k \in Nat /\ k < cursor.i + 1
        BY <1>3, <1>4, <3>1
      <4> QED BY <4>1
    <3>4. Involved(s) \subseteq cursor.blocked \cup Involved(r)
      <4>1. CASE k < cursor.i
        BY <3>1, <3>2, <4>1 DEF Kept
      <4>2. CASE k = cursor.i
        BY <3>1, <3>2, <4>2
      <4> QED BY <3>3, <4>1, <4>2
    <3>5. Involved(s)' = Involved(s)
      BY <1>2, <3>2
    <3> QED BY <3>1, <3>4, <3>5
  <2> QED BY <1>4, <2>1, <2>2, <2>3 DEF CursorStep
<1> QED BY <1>4 DEF Kept, Involved

CursorTypes ==
  cursor \in [phase : {"rest", "disks", "requests"}, i : Nat,
              blocked : SUBSET Disk, quiet : BOOLEAN]

LEMMA TakenCursor ==
  ASSUME Known, NEW r, Dispatching(r), Take
  PROVE  CursorStep
<1>1. Comes(req, req, {}, {}, {}) /\ RequestTypes
  BY ComesSame DEF Known, RequestTypes
<1>2. /\ cursor.i \in 1 .. Len(requests) /\ cursor.phase = "requests"
      /\ requests \in Seq(1 .. Len(req)) /\ Len(req) \in Nat
  BY <1>1 DEF Dispatching, RequestTypes
<1>3. requests' = Off(requests, cursor.i) /\ UNCHANGED cursor
  BY DEF Take, Off
<1>4. OneLess(requests', requests, cursor.i) /\ requests' \in Seq(1 .. Len(req))
  BY <1>2, <1>3, TakenRising
<1>5. \A k \in DOMAIN requests' :
        k < cursor.i => k \in DOMAIN requests /\ requests'[k] = requests[k]
  <2>1. DOMAIN requests' = 1 .. Len(requests')
    BY <1>4
  <2>2. \A k \in DOMAIN requests' : k < cursor.i => Past(cursor.i, k) = k /\ k \in DOMAIN requests
    BY <1>2, <1>4, <2>1 DEF Past, OneLess
  <2> QED BY <1>4, <2>1, <2>2 DEF OneLess
<1> QED BY <1>2, <1>3, <1>5 DEF CursorStep

LEMMA StillCursor ==
  ASSUME UNCHANGED <<cursor, requests>> PROVE CursorStep
  BY DEF CursorStep

LEMMA StepCursor ==
  ASSUME Known, CursorTypes, Next PROVE CursorStep
<1>1. CASE DispatchBegin \/ DispatchRequests \/ DispatchEnd
  <2>1. ASSUME DispatchRequests PROVE cursor'.i = 1
    BY <2>1 DEF DispatchRequests, CursorTypes
  <2>2. ASSUME DispatchBegin PROVE cursor'.phase = "disks"
    BY <2>2 DEF DispatchBegin
  <2>3. ASSUME DispatchEnd PROVE cursor'.phase = "rest"
    BY <2>3 DEF DispatchEnd, AtRest
  <2> QED BY <1>1, <2>1, <2>2, <2>3 DEF CursorStep
<1>2. ASSUME NEW d \in Listed,
             \/ StageNothing(d) \/ StageProbe(d) \/ StageMountWaits(d) \/ StageAppear(d)
             \/ \E asked \in Asked : StagePeek(d, asked)
             \/ \E enabled \in AutoMount : StageMount(d, enabled)
      PROVE  CursorStep
  <2>1. cursor.phase = "disks" /\ \E quiet : NextDisk(quiet)
    BY <1>2 DEF StageNothing, StageProbe, StageMountWaits, StageAppear, StagePeek, StageMount,
                AtMount, Visiting
  <2>2. cursor'.phase = "disks"
    BY <2>1 DEF NextDisk, CursorTypes
  <2> QED BY <2>2 DEF CursorStep
<1>3. ASSUME NEW r \in Queued,
             \/ RequestWaits(r) \/ MountReprobe(r) \/ MountAuthorize(r)
             \/ \E asked \in Asked : RequestApprove(r, asked)
             \/ RequestRejected(r) \/ RequestRefused(r) \/ RequestStart(r)
      PROVE  CursorStep
  <2>1. Dispatching(r) /\ (Leave(r) \/ Take)
    BY <1>3 DEF RequestWaits, MountReprobe, MountAuthorize, RequestApprove, RequestRejected,
                RequestRefused, RequestStart, Ready
  <2> QED BY <2>1, TakenCursor DEF CursorStep
<1>4. CASE Walk
  BY <1>1, <1>2, <1>3, <1>4 DEF Walk
<1>5. CASE Threads
  BY <1>5, StillCursor DEF Threads, ThreadRuns, reqVars
<1>6. CASE Handler
  BY <1>6 DEF Handler, CursorStep
<1>7. Environment => Handler
  BY Outside
<1>8. ASSUME NEW w \in work, Callbacks(w) PROVE Handler
  BY <1>8 DEF Callbacks, ProbeDone, PeekDone, TickleDone, ApprovalDone, AuthorizeDone,
              EjectDone, MountDone, UnmountDone
<1> QED BY <1>4, <1>5, <1>6, <1>7, <1>8 DEF Next

-----------------------------------------------------------------------------
(* What is known of the requests stays known.                              *)
LEMMA RequestTypesStay ==
  ASSUME Known, Summary PROVE RequestTypes'
  BY DEF Summary, Moves, Changes, RequestTypes

LEMMA ShapeStays ==
  ASSUME Known, Summary PROVE RequestShape'
<1>1. PICK A, J, S : Moves(A, J, S) /\ Settles(A) /\ Spoils(J) /\ Advances(S)
  BY DEF Summary
<1>2. /\ Len(req) \in Nat /\ DOMAIN req = 1 .. Len(req)
      /\ Len(req') \in Nat /\ DOMAIN req' = 1 .. Len(req')
  BY <1>1 DEF Known, RequestTypes, Moves, Changes
<1>3. ASSUME NEW r \in DOMAIN req' PROVE Shaped(req', r) /\ Sanctioned(req', r)
  <2>1. CASE r \in 1 .. Len(req)
    <3>1. /\ Becoming(req'[r], req[r], r, A, J, S) /\ Alike(req'[r], req[r])
          /\ \A s \in req[r].link : Alike(req'[s], req[s])
      BY <1>1, <2>1, StillAlike DEF Becoming
    <3>2. Shaped(req, r) /\ Sanctioned(req, r)
      BY <1>2, <2>1 DEF Known, Serves, RequestShape
    <3>3. Shaped(req', r)
      BY <3>1, <3>2 DEF Shaped, Alike
    <3>4. CASE r \in S
      BY <1>1, <3>3, <3>4 DEF Advances
    <3>5. CASE r \notin S
      BY <3>1, <3>2, <3>3, <3>5 DEF Sanctioned, Becoming, Alike
    <3> QED BY <3>4, <3>5
  <2>2. CASE r \in Len(req) + 1 .. Len(req')
    <3>1. Fresh(req', r)
      BY <1>1, <2>2 DEF Moves, Changes
    <3> QED BY <3>1 DEF Fresh, Shaped, Sanctioned
  <2>3. r \in 1 .. Len(req) \/ r \in Len(req) + 1 .. Len(req')
    BY <1>2
  <2> QED BY <2>1, <2>2, <2>3
<1> QED BY <1>3 DEF RequestShape

LEMMA AnswersStay ==
  ASSUME Known, Summary PROVE Unanswered' /\ AnsweredOnce'
<1>1. PICK A, J, S : Moves(A, J, S) /\ Settles(A) /\ Spoils(J) /\ Advances(S)
  BY DEF Summary
<1>2. /\ Len(req) \in Nat /\ DOMAIN req = 1 .. Len(req)
      /\ Len(req') \in Nat /\ DOMAIN req' = 1 .. Len(req')
  BY <1>1 DEF Known, RequestTypes, Moves, Changes
<1>3. ASSUME NEW r \in DOMAIN req' PROVE Len(req'[r].answers) <= 1
  <2>1. CASE r \in 1 .. Len(req)
    <3>1. Becoming(req'[r], req[r], r, A, J, S)
      BY <1>1, <2>1, StillAlike
    <3>2. r \in A => req[r].answers = <<>>
      BY <1>1 DEF Settles, Known, Serves, Unanswered, WorkOf
    <3>3. Len(req[r].answers) <= 1
      BY <1>2, <2>1 DEF Known, Serves, AnsweredOnce
    <3> QED BY <3>1, <3>2, <3>3 DEF Becoming
  <2>2. CASE r \in Len(req) + 1 .. Len(req')
    BY <1>1, <2>2 DEF Moves, Changes, Fresh
  <2>3. r \in 1 .. Len(req) \/ r \in Len(req) + 1 .. Len(req')
    BY <1>2
  <2> QED BY <2>1, <2>2, <2>3
<1>4. ASSUME NEW r \in Queued' PROVE req'[r].answers = <<>>
  <2>1. CASE r \in Queued
    <3>1. r \in 1 .. Len(req) /\ r \notin A /\ req[r].answers = <<>>
      BY <1>1, <1>4, <2>1, QueuedRequest DEF Settles, Known, Serves, Unanswered
    <3>2. Becoming(req'[r], req[r], r, A, J, S)
      BY <1>1, <3>1, StillAlike
    <3> QED BY <3>1, <3>2 DEF Becoming
  <2>2. CASE r \notin Queued
    BY <1>1, <1>4, <2>2 DEF Moves
  <2> QED BY <2>1, <2>2
<1> QED BY <1>3, <1>4 DEF Unanswered, AnsweredOnce

(* So does what is known of the operations.                                *)
LEMMA WorkTypesStay ==
  ASSUME Known, Summary, WorkStep PROVE WorkTypes'
<1>1. PICK A, J, S : Moves(A, J, S)
  BY DEF Summary
<1>2. Len(req) \in Nat /\ Len(req') \in Nat /\ Len(req) <= Len(req')
  BY <1>1 DEF Known, RequestTypes, Moves, Changes
<1>3. ASSUME NEW w \in work' PROVE w \in Work /\ w.req \in 0 .. Len(req')
  <2>1. w \in Work
    BY DEF WorkStep
  <2>2. w.req \in 0 .. Len(req)
    <3>1. ASSUME NEW v \in work, Continues(w, v) PROVE w.req \in 0 .. Len(req)
      BY <3>1 DEF Continues, Known, WorkTypes
    <3>2. CASE Starts(w)
      <4>1. w.req = 0 \/ w.req \in 1 .. Len(req)
        BY <3>2, QueuedRequest DEF Starts, Known
      <4> QED BY <1>2, <4>1
    <3> QED BY <3>1, <3>2 DEF WorkStep
  <2> QED BY <1>2, <2>1, <2>2
<1> QED BY <1>3 DEF WorkTypes

LEMMA ServingStays ==
  ASSUME Known, Kept, cursor.i \in Nat, OneOperationPerDisk,
         NEW A, NEW J, NEW S, Moves(A, J, S), Settles(A), Advances(S),
         NEW w \in work', Serving(w),
         (\E v \in work : Continues(w, v)) \/ Starts(w)
  PROVE  /\ w.req \notin Queued' /\ req'[w.req].answers = <<>>
         /\ req'[w.req].approved
         /\ req'[w.req].link \cap Queued' = {}
<1>2. Len(req) \in Nat /\ Len(req') \in Nat /\ Len(req) <= Len(req') /\ DOMAIN req = 1 .. Len(req)
  BY DEF Known, RequestTypes, Moves, Changes
<1>3. \A r \in Queued' : r \in 1 .. Len(req) => r \in Queued
  BY <1>2 DEF Moves
<1>4. ASSUME NEW v \in work, Continues(w, v)
      PROVE  /\ w.req \notin Queued' /\ req'[w.req].answers = <<>>
             /\ req'[w.req].approved
             /\ req'[w.req].link \cap Queued' = {}
  <2>1. Serving(v) /\ w.req = v.req /\ w.disk = v.disk
    BY <1>4 DEF Continues, Serving, Consulting
  <2>2. /\ w.req \notin Queued /\ req[w.req].answers = <<>> /\ req[w.req].approved
        /\ req[w.req].link \cap Queued = {} /\ req[w.req].disk = w.disk
    BY <2>1 DEF Known, Serves, WorkOf, Serving
  <2>3. w.req \in 1 .. Len(req)
    BY <1>2, <2>1, WorkTyped DEF Serving
  <2>4. /\ Becoming(req'[w.req], req[w.req], w.req, A, J, S) /\ Alike(req'[w.req], req[w.req])
        /\ req[w.req].link \subseteq 1 .. Len(req)
    BY <2>3, StillAlike DEF Becoming
  <2>5. w.req \notin Queued'
    BY <1>3, <2>2, <2>3
  <2>6. req'[w.req].link \cap Queued' = {}
    BY <1>3, <2>2, <2>4 DEF Alike
  <2>7. w.req \notin A
    <3>1. ASSUME NEW u \in work, Serving(u), u.req = w.req, work' = work \ {u} PROVE FALSE
      <4>1. u.disk = w.disk
        BY <2>2, <3>1 DEF Known, Serves, WorkOf, Serving
      <4>2. w \in work /\ w # u
        BY <3>1
      <4> QED BY <3>1, <4>1, <4>2 DEF OneOperationPerDisk
    <3> QED BY <2>2, <3>1 DEF Settles
  <2>8. req'[w.req].approved
    <3>1. w.req \notin S
      BY <2>2 DEF Advances, Dispatching, Queued
    <3> QED BY <2>2, <2>4, <3>1 DEF Becoming
  <2>9. req'[w.req].answers = <<>>
    BY <2>2, <2>4, <2>7 DEF Becoming
  <2> QED BY <2>5, <2>6, <2>8, <2>9
<1>5. CASE Starts(w)
  <2>1. /\ w.req \in Queued /\ RequestStart(w.req) /\ Queued' = Queued \ {w.req}
        /\ req'[w.req].answers = req[w.req].answers /\ req'[w.req].approved
    BY <1>5 DEF Starts, Serving, Consulting
  <2>2. Dispatching(w.req) /\ Ready(w.req)
    BY <2>1 DEF RequestStart, Ready
  <2>3. req[w.req].answers = <<>>
    BY <2>1 DEF Known, Serves, Unanswered
  <2>4. w.req \in 1 .. Len(req)
    BY <2>1, QueuedRequest DEF Known
  <2>5. req'[w.req].link = req[w.req].link
    BY <2>4, StillAlike DEF Becoming, Alike
  <2>6. ASSUME NEW s \in req[w.req].link, s \in Queued PROVE FALSE
    <3>1. s \in 1 .. w.req - 1
      BY <1>2, <2>4, <2>6 DEF Known, Serves, RequestShape, Shaped
    <3>2. s < w.req
      BY <2>4, <3>1
    <3>3. Involved(s) \cap Involved(w.req) = {}
      BY <2>1, <2>2, <2>6, <3>2, EarlierApart
    <3>4. req[s].disk \in Involved(s) /\ req[s].disk \in Involved(w.req)
      BY <2>6 DEF Involved
    <3> QED BY <3>3, <3>4
  <2> QED BY <2>1, <2>3, <2>5, <2>6
<1> QED BY <1>4, <1>5

LEMMA WorkOfStays ==
  ASSUME Known, Kept, cursor.i \in Nat, OneOperationPerDisk, Summary, WorkStep
  PROVE  WorkOf'
<1>1. PICK A, J, S : Moves(A, J, S) /\ Settles(A) /\ Advances(S)
  BY DEF Summary
<1>2. ASSUME NEW w \in work', ~(w.op \in {"probe", "peek"})
      PROVE  w.req # 0 /\ req'[w.req].disk = w.disk
  <2>1. w.req \in 1 .. Len(req) /\ req[w.req].disk = w.disk
    <3>0. DOMAIN req = 1 .. Len(req)
      BY DEF Known, RequestTypes
    <3>1. ASSUME NEW v \in work, Continues(w, v)
          PROVE  w.req \in 1 .. Len(req) /\ req[w.req].disk = w.disk
      <4>1. ~(v.op \in {"probe", "peek"}) /\ w.req = v.req /\ w.disk = v.disk
        BY <1>2, <3>1 DEF Continues, Serving, Consulting
      <4> QED BY <3>0, <4>1, WorkTyped
    <3>2. CASE Starts(w)
      BY <1>2, <3>2, QueuedRequest DEF Starts, Known
    <3> QED BY <3>1, <3>2 DEF WorkStep
  <2>2. req'[w.req].disk = req[w.req].disk
    BY <1>1, <2>1, StillAlike DEF Becoming, Alike
  <2>3. w.req # 0
    BY <2>1 DEF Known, RequestTypes
  <2> QED BY <2>1, <2>2, <2>3
<1>3. ASSUME NEW w \in work', Serving(w)
      PROVE  /\ w.req \notin Queued' /\ req'[w.req].answers = <<>>
             /\ req'[w.req].approved
             /\ req'[w.req].link \cap Queued' = {}
  <2>1. (\E v \in work : Continues(w, v)) \/ Starts(w)
    BY DEF WorkStep
  <2> QED BY <1>1, <1>3, <2>1, ServingStays
<1>4. ASSUME NEW w \in work', w.op \in {"probe", "peek"} PROVE w.req = 0
  <2>1. ASSUME NEW v \in work, Continues(w, v) PROVE w.req = 0
    <3>1. v.op \in {"probe", "peek"} /\ w.req = v.req
      BY <1>4, <2>1 DEF Continues, Serving, Consulting
    <3> QED BY <3>1 DEF Known, Serves, WorkOf
  <2>2. CASE Starts(w)
    BY <1>4, <2>2 DEF Starts, Serving, Consulting
  <2> QED BY <2>1, <2>2 DEF WorkStep
<1> QED BY <1>2, <1>3, <1>4 DEF WorkOf

LEMMA ServesStays ==
  ASSUME Known, Kept, cursor.i \in Nat, OneOperationPerDisk, Summary, WorkStep
  PROVE  Serves'
<1>1. Rising(requests')
  BY DEF Summary, Moves, Known, Serves
<1> QED BY <1>1, ShapeStays, WorkOfStays, AnswersStay DEF Serves

-----------------------------------------------------------------------------
(* Where disks are.                                                        *)
Comers == {d \in Disk : d \notin Listed \cup zombie}

ListStep ==
  \/ list' = list /\ zombie' = zombie
  \/ \E d \in Comers : Listed' = Listed \cup {d} /\ zombie' = zombie
  \/ \E d \in Listed, verdict \in Verdict, peeks \in BOOLEAN :
       DiskDisappears(d, verdict, peeks) /\ Listed' = Listed \ {d}
       /\ zombie' = zombie \cup {d}

LEMMA Longer ==
  ASSUME Known, NEW d \in Disk, list' = <<d>> \o list
  PROVE  list' \in Seq(Disk) /\ Listed' = Listed \cup {d}
<1>0. list \in Seq(Disk) /\ Len(list) \in Nat /\ <<d>> \in Seq(Disk) /\ Len(<<d>>) = 1
      /\ <<d>>[1] = d /\ DOMAIN list = 1 .. Len(list)
  BY DEF Known
<1>1. PICK l : l = <<d>>
  OBVIOUS
<1>2. list' = Joined(l, list)
  BY <1>1 DEF Joined
<1>3. l \in Seq(Disk) /\ Len(l) = 1 /\ l[1] = d
  BY <1>0, <1>1
<1>4. IsJoined(Disk, Joined(l, list), l, list)
  BY <1>0, <1>3, JoinedEntries
<1>5. /\ list' \in Seq(Disk) /\ Len(list') = 1 + Len(list) /\ list'[1] = d
      /\ \A i \in 1 .. Len(list) : list'[1 + i] = list[i]
  <2>1. /\ list' \in Seq(Disk) /\ Len(list') = 1 + Len(list)
        /\ \A i \in 1 .. 1 : list'[i] = l[i]
        /\ \A i \in 1 .. Len(list) : list'[1 + i] = list[i]
    BY <1>2, <1>3, <1>4 DEF IsJoined
  <2>2. 1 \in 1 .. 1
    OBVIOUS
  <2> QED BY <1>3, <2>1, <2>2
<1>6. DOMAIN list' = 1 .. Len(list) + 1
  BY <1>0, <1>5
<1>7. ASSUME NEW i \in DOMAIN list' PROVE list'[i] \in Listed \cup {d}
  <2>1. CASE i = 1
    BY <1>5, <2>1
  <2>2. CASE i # 1
    <3>1. PICK k \in 1 .. Len(list) : i = 1 + k
      <4>1. i - 1 \in 1 .. Len(list) /\ i = 1 + (i - 1)
        BY <1>0, <1>6, <2>2
      <4> QED BY <4>1
    <3> QED BY <1>0, <1>5, <3>1 DEF Listed
  <2> QED BY <2>1, <2>2
<1>8. \A k \in DOMAIN list : 1 + k \in DOMAIN list' /\ list'[1 + k] = list[k]
  BY <1>0, <1>5, <1>6
<1>9. 1 \in DOMAIN list'
  BY <1>0, <1>6
<1>10. Listed \cup {d} \subseteq Listed'
  BY <1>5, <1>8, <1>9 DEF Listed
<1>11. Listed' \subseteq Listed \cup {d}
  BY <1>7 DEF Listed
<1> QED BY <1>5, <1>10, <1>11

LEMMA StepList ==
  ASSUME Known, Next PROVE ListStep /\ list' \in Seq(Disk)
<1>1. ASSUME NEW d \in Disk, NEW late \in BOOLEAN, DiskAppears(d, late)
      PROVE  ListStep /\ list' \in Seq(Disk)
  <2>1. d \in Comers /\ list' = <<d>> \o list /\ zombie' = zombie
    BY <1>1 DEF DiskAppears, Comers
  <2> QED BY <2>1, Longer DEF ListStep, Comers
<1>2. ASSUME NEW d \in Listed, NEW verdict \in Verdict, NEW peeks \in BOOLEAN,
             DiskDisappears(d, verdict, peeks)
      PROVE  ListStep /\ list' \in Seq(Disk)
  <2>1. list' = Those(list, Listed \ {d}) /\ zombie' = zombie \cup {d}
    BY <1>2 DEF DiskDisappears
  <2> QED BY <1>2, <2>1, Shorter DEF ListStep
<1>3. ASSUME list' = list, zombie' = zombie PROVE ListStep /\ list' \in Seq(Disk)
  BY <1>3 DEF ListStep, Known
<1>4. Walk => list' = list /\ zombie' = zombie
  BY DEF Walk, DispatchBegin, DispatchRequests, DispatchEnd, StageNothing, StageProbe,
         StageMountWaits, StageAppear, StagePeek, StageMount, RequestWaits, MountReprobe,
         RequestRejected, RequestApprove, MountAuthorize, RequestRefused, RequestStart,
         stageVars
<1>5. ASSUME NEW w \in work, Callbacks(w) PROVE list' = list /\ zombie' = zombie
  BY <1>5 DEF Callbacks, ProbeDone, PeekDone, TickleDone, ApprovalDone, AuthorizeDone,
         EjectDone, MountDone, UnmountDone, stageVars
<1>6. Threads => list' = list /\ zombie' = zombie
  BY DEF Threads, ThreadRuns, stageVars
<1>7. ASSUME NEW d \in Listed, NEW kind \in RequestKind, NEW whole \in BOOLEAN,
             NEW force \in BOOLEAN, QueueRequest(d, kind, whole, force)
      PROVE  list' = list /\ zombie' = zombie
  BY <1>7 DEF QueueRequest, stageVars
<1> QED BY <1>1, <1>2, <1>3, <1>4, <1>5, <1>6, <1>7 DEF Next, Environment

\* A mount point comes to be known when a probe or a mount ends.
PathStep ==
  \A d \in path' : \/ d \in path
                   \/ \E w \in work : /\ w.disk = d /\ w.op \in {"probe", "mount"}
                                      /\ w.op = "probe" => "Mount" \notin staged[d]
                                      /\ work' = work \ {w} /\ staged' = staged

LEMMA StepPath ==
  ASSUME Next PROVE PathStep
<1>4. Walk => path' = path
  BY DEF Walk, DispatchBegin, DispatchRequests, DispatchEnd, StageNothing, StageProbe,
         StageMountWaits, StageAppear, StagePeek, StageMount, RequestWaits, MountReprobe,
         RequestRejected, RequestApprove, MountAuthorize, RequestRefused, RequestStart,
         stageVars
<1>5. ASSUME NEW w \in work, Callbacks(w) PROVE PathStep
  <2>1. ASSUME NEW result \in ProbeResult, ProbeDone(w, result) PROVE PathStep
    BY <2>1 DEF ProbeDone, PathStep, End
  <2>2. CASE MountDone(w)
    BY <2>2 DEF MountDone, PathStep, End
  <2>3. CASE UnmountDone(w)
    BY <2>3 DEF UnmountDone, PathStep
  <2>4. CASE path' = path
    BY <2>4 DEF PathStep
  <2> QED BY <1>5, <2>1, <2>2, <2>3, <2>4
          DEF Callbacks, PeekDone, TickleDone, ApprovalDone, AuthorizeDone,
              EjectDone, stageVars
<1>6. Threads \/ Environment => path' = path
  BY Outside DEF Threads, ThreadRuns, stageVars
<1> QED BY <1>4, <1>5, <1>6 DEF Next, PathStep

LEMMA ComersStay ==
  ASSUME Known, ListStep
  PROVE  Listed \cup zombie \subseteq Listed' \cup zombie' /\ Listed' \cap zombie' = {}
         /\ zombie \subseteq zombie'
<1>1. Listed \cap zombie = {}
  BY DEF Known, Places
<1>2. list' = list => Listed' = Listed
  BY DEF Listed
<1> QED BY <1>1, <1>2 DEF ListStep, Comers

\* A disk that leaves takes its requests with it.
LEMMA LeaverNotQueued ==
  ASSUME Known, NEW d \in Listed, NEW verdict \in Verdict, NEW peeks \in BOOLEAN,
         DiskDisappears(d, verdict, peeks), NEW r \in 1 .. Len(req), req[r].disk = d
  PROVE  r \notin Queued'
<1>1. PICK gone : gone = {s \in Queued : req[s].disk = d}
                  /\ Queued' \cap (1 .. Len(req)) = Queued \ gone
  BY DisappearsSummary, ZenonT(30)
<1> QED BY <1>1

LEMMA PlacesStay ==
  ASSUME Known, Summary, WorkStep, ListStep, PathStep
  PROVE  Places'
<1>1. PICK A, J, S : Moves(A, J, S) /\ Spoils(J)
  BY DEF Summary
<1>2. /\ Listed \cup zombie \subseteq Listed' \cup zombie' /\ Listed' \cap zombie' = {}
      /\ zombie \subseteq zombie'
  BY ComersStay
<1>3. /\ \A w \in work : w.disk \in Listed \cup zombie /\ path \subseteq Listed \cup zombie
      /\ \A r \in Queued : Placed(r)
      /\ \A w \in work : Consulting(w) /\ w.disk \in zombie => w.req \notin Queued
  BY DEF Known, Places
<1>4. /\ Len(req) \in Nat /\ \A r \in Queued : r \in 1 .. Len(req)
      /\ \A r \in Queued' : r \in 1 .. Len(req) => r \in Queued
  <2>1. Len(req) \in Nat
    BY DEF Known, RequestTypes
  <2>2. \A r \in Queued : r \in 1 .. Len(req)
    BY QueuedRequest DEF Known
  <2>3. \A r \in Queued' : r \in 1 .. Len(req) => r \in Queued
    BY <1>1, <2>1 DEF Moves
  <2> QED BY <2>1, <2>2, <2>3
<1>5. ASSUME NEW w \in work' PROVE w.disk \in Listed' \cup zombie'
  <2>1. ASSUME NEW v \in work, Continues(w, v) PROVE w.disk \in Listed \cup zombie
    BY <1>3, <2>1 DEF Continues
  <2>2. ASSUME Starts(w) PROVE w.disk \in Listed \cup zombie
    <3>1. w.disk \in Listed \/ (w.req \in Queued /\ req[w.req].disk = w.disk)
      BY <2>2 DEF Starts
    <3> QED BY <1>3, <3>1 DEF Placed
  <2> QED BY <1>2, <2>1, <2>2 DEF WorkStep
<1>6. path' \subseteq Listed' \cup zombie'
  <2>1. {w.disk : w \in work} \subseteq Listed \cup zombie /\ path \subseteq Listed \cup zombie
    BY <1>3 DEF Known, Places
  <2> QED BY <1>2, <2>1 DEF PathStep
<1>7. ASSUME NEW d \in Disk, d \in Listed, d \notin Listed', NEW r \in 1 .. Len(req),
             req[r].disk = d
      PROVE  r \notin Queued'
  <2>1. list' = list => Listed' = Listed
    BY DEF Listed
  <2>2. PICK e \in Listed, verdict \in Verdict, peeks \in BOOLEAN :
          DiskDisappears(e, verdict, peeks) /\ Listed' = Listed \ {e}
    BY <1>7, <2>1 DEF ListStep
  <2>3. e = d
    BY <1>7, <2>2
  <2> QED BY <1>7, <2>2, <2>3, LeaverNotQueued
<1>8. ASSUME NEW r \in Queued' PROVE Placed(r)'
  <2>1. CASE r \notin Queued
    BY <1>1, <2>1 DEF Moves
  <2>2. CASE r \in Queued
    <3>1. /\ r \in 1 .. Len(req) /\ Placed(r) /\ Becoming(req'[r], req[r], r, A, J, S)
          /\ req[r].disk \in Disk
      BY <1>1, <1>3, <1>4, <2>2, StillAlike, QueuedRequest, RequestFields DEF Known
    <3>2. Alike(req'[r], req[r])
      BY <3>1 DEF Becoming
    <3>3. CASE req[r].disk \in Listed
      <4>1. req[r].disk \in Listed'
        BY <1>7, <1>8, <3>1, <3>3
      <4> QED BY <3>2, <4>1 DEF Placed, Alike
    <3>4. CASE req[r].disk \in zombie /\ req[r].kind = "Unmount" /\ req[r].dissenter = "none"
      <4>1. req[r].disk \in zombie'
        BY <1>2, <3>4
      <4>2. CASE r \in J
        <5>1. req[r].disk \in Listed'
          BY <1>1, <1>8, <4>2 DEF Spoils
        <5> QED BY <3>2, <5>1 DEF Placed, Alike
      <4>3. CASE r \notin J
        BY <3>1, <3>2, <3>4, <4>1, <4>3 DEF Placed, Alike, Becoming
      <4> QED BY <4>2, <4>3
    <3> QED BY <3>1, <3>3, <3>4 DEF Placed
  <2> QED BY <2>1, <2>2
<1>9. ASSUME NEW w \in work', Consulting(w), w.disk \in zombie' PROVE w.req \notin Queued'
  <2>1. w.req \in 1 .. Len(req) /\ req[w.req].disk = w.disk /\ w.disk \in Disk
        /\ (w.disk \in zombie => w.req \notin Queued) /\ w.disk \in Listed \cup zombie
    <3>0. DOMAIN req = 1 .. Len(req)
      BY DEF Known, RequestTypes
    <3>1. ASSUME NEW v \in work, Continues(w, v) PROVE <2>1
      <4>1. Consulting(v) /\ w.disk = v.disk /\ w.req = v.req
        BY <1>9, <3>1 DEF Continues, Consulting, Serving
      <4>2. ~(v.op \in {"probe", "peek"})
        BY <4>1 DEF Consulting
      <4> QED BY <1>3, <3>0, <4>1, <4>2, WorkTyped
    <3>2. CASE Starts(w)
      <4>1. w.req \in Queued /\ req[w.req].disk = w.disk /\ w.disk \in Listed
        BY <1>9, <3>2 DEF Starts, Consulting, Serving
      <4>2. w.disk \in Disk
        BY <4>1 DEF Listed, Known
      <4>3. w.disk \notin zombie
        BY <4>1 DEF Known, Places
      <4> QED BY <1>4, <4>1, <4>2, <4>3
    <3> QED BY <3>1, <3>2 DEF WorkStep
  <2>2. CASE w.disk \in zombie
    BY <1>4, <2>1, <2>2
  <2>3. CASE w.disk \in Listed
    <3>1. w.disk \notin Listed'
      BY <1>2, <1>9
    <3> QED BY <1>7, <2>1, <2>3, <3>1
  <2> QED BY <2>1, <2>2, <2>3
<1> QED BY <1>2, <1>5, <1>6, <1>8, <1>9 DEF Places

-----------------------------------------------------------------------------
(* The types of the rest.                                                  *)
DiskTypes ==
  /\ zombie     \in SUBSET Disk
  /\ staged     \in [Disk -> SUBSET Stage]
  /\ content    \in [Disk -> {"unknown", "volume", "none"}]
  /\ dirty      \in SUBSET Disk
  /\ path       \in SUBSET Disk
  /\ mounted    \in SUBSET Disk
  /\ dangling   \in SUBSET Volume
BusyTypes == active \in SUBSET Disk /\ unitActive \in SUBSET Unit
LoopTypes == signalled \in BOOLEAN /\ idle \in BOOLEAN
RestTypes == DiskTypes /\ BusyTypes /\ LoopTypes /\ CursorTypes

LEMMA TypesAre ==
  TypeOK <=> list \in Seq(Disk) /\ RequestTypes /\ WorkTypes /\ RestTypes
  BY DEF TypeOK, RequestTypes, WorkTypes, RestTypes, DiskTypes, BusyTypes, LoopTypes, CursorTypes

LEMMA DescribedVolumes ==
  ASSUME NEW d \in Disk PROVE Described(d) \subseteq Volume
  BY ConstantAssumption DEF Described

LEMMA StageTypes ==
  ASSUME DiskTypes, NEW d, NEW S \in SUBSET Stage, staged' = [staged EXCEPT ![d] = S],
         UNCHANGED <<zombie, content, dirty, path, dangling, mounted>>
  PROVE  DiskTypes'
  BY DEF DiskTypes

LEMMA SameDiskTypes ==
  ASSUME DiskTypes, UNCHANGED <<zombie, staged, content, dirty, path, dangling, mounted>>
  PROVE  DiskTypes'
  BY DEF DiskTypes

LEMMA WalkDiskTypes ==
  ASSUME DiskTypes, list \in Seq(Disk), RequestTypes, Walk PROVE DiskTypes'
<1>1. CASE DispatchBegin \/ DispatchRequests \/ DispatchEnd
  BY <1>1, SameDiskTypes DEF DispatchBegin, DispatchRequests, DispatchEnd, stageVars
<1>2. ASSUME NEW d \in Listed,
             \/ StageNothing(d) \/ StageProbe(d) \/ StageMountWaits(d) \/ StageAppear(d)
             \/ \E asked \in Asked : StagePeek(d, asked)
             \/ \E enabled \in AutoMount : StageMount(d, enabled)
      PROVE  DiskTypes'
  <2>1. d \in Disk
    BY DEF Listed
  <2>2. staged[d] \subseteq Stage
    BY <2>1 DEF DiskTypes
  <2>3. CASE StageNothing(d) \/ StageMountWaits(d)
    BY <2>3, SameDiskTypes DEF StageNothing, StageMountWaits, stageVars
  <2>4. CASE StageProbe(d)
    <3>1. staged' = staged \/ staged' = [staged EXCEPT ![d] = @ \cup {"Probe"}]
      BY <2>4 DEF StageProbe
    <3>2. staged[d] \cup {"Probe"} \in SUBSET Stage
      BY <2>2 DEF Stage
    <3>3. UNCHANGED <<zombie, content, dirty, path, dangling, mounted>>
      BY <2>4 DEF StageProbe
    <3> QED BY <3>1, <3>2, <3>3, StageTypes, SameDiskTypes
  <2>5. CASE StageAppear(d)
    <3>1. UNCHANGED <<zombie, content, dirty, path, dangling, mounted>>
          /\ staged' = [staged EXCEPT ![d] = Stage]
      BY <2>5 DEF StageAppear
    <3> QED BY <3>1, StageTypes
  <2>6. ASSUME NEW asked, StagePeek(d, asked) PROVE DiskTypes'
    <3>1. UNCHANGED <<zombie, content, dirty, path, dangling, mounted>>
          /\ staged' = [staged EXCEPT ![d] = @ \cup {"Peek"}]
      BY <2>6 DEF StagePeek
    <3>2. staged[d] \cup {"Peek"} \in SUBSET Stage
      BY <2>2 DEF Stage
    <3> QED BY <3>1, <3>2, StageTypes
  <2>7. ASSUME NEW enabled, StageMount(d, enabled) PROVE DiskTypes'
    <3>1. UNCHANGED <<zombie, content, dirty, path, dangling, mounted>>
          /\ staged' = [staged EXCEPT ![d] = @ \cup {"Mount"}]
      BY <2>7 DEF StageMount
    <3>2. staged[d] \cup {"Mount"} \in SUBSET Stage
      BY <2>2 DEF Stage
    <3> QED BY <3>1, <3>2, StageTypes
  <2> QED BY <1>2, <2>3, <2>4, <2>5, <2>6, <2>7
<1>3. ASSUME NEW r \in Queued, MountReprobe(r) PROVE DiskTypes'
  <2>1. UNCHANGED <<zombie, content, dirty, path, dangling, mounted>>
        /\ staged' = [staged EXCEPT ![req[r].disk] = @ \ {"Probe"}]
    BY <1>3 DEF MountReprobe
  <2>2. req[r].disk \in Disk
    BY QueuedRequest, RequestFields
  <2>3. staged[req[r].disk] \ {"Probe"} \in SUBSET Stage
    BY <2>2 DEF DiskTypes
  <2> QED BY <2>1, <2>3, StageTypes
<1>4. ASSUME NEW r \in Queued,
             \/ RequestWaits(r) \/ MountAuthorize(r) \/ \E asked \in Asked : RequestApprove(r, asked)
             \/ RequestRejected(r) \/ RequestRefused(r) \/ RequestStart(r)
      PROVE  DiskTypes'
  BY <1>4, SameDiskTypes
     DEF RequestWaits, MountAuthorize, RequestApprove, RequestRejected, RequestRefused,
         RequestStart, stageVars
<1> QED BY <1>1, <1>2, <1>3, <1>4 DEF Walk

LEMMA CallbackDiskTypes ==
  ASSUME DiskTypes, NEW w \in work, w.disk \in Disk, Callbacks(w) PROVE DiskTypes'
<1>1. ASSUME NEW result \in ProbeResult, ProbeDone(w, result) PROVE DiskTypes'
  BY <1>1 DEF ProbeDone, DiskTypes
<1>2. CASE MountDone(w)
  BY <1>2 DEF MountDone, DiskTypes
<1>3. CASE UnmountDone(w)
  BY <1>3 DEF UnmountDone, DiskTypes, NotDangling
<1>4. ASSUME UNCHANGED <<stageVars, mounted>> PROVE DiskTypes'
  BY <1>4, SameDiskTypes DEF stageVars
<1> QED BY <1>1, <1>2, <1>3, <1>4
        DEF Callbacks, PeekDone, TickleDone, ApprovalDone, AuthorizeDone, EjectDone

LEMMA OtherDiskTypes ==
  ASSUME DiskTypes, list \in Seq(Disk), \A w \in work : w.disk \in Disk, Threads \/ Environment
  PROVE  DiskTypes'
<1>1. ASSUME NEW w \in work, NEW status, ThreadRuns(w, status) PROVE DiskTypes'
  <2>1. /\ mounted' \subseteq mounted \cup {w.disk}
        /\ UNCHANGED <<zombie, staged, content, dirty, path, dangling>>
    BY <1>1 DEF ThreadRuns, stageVars
  <2> QED BY <2>1 DEF DiskTypes
<1>2. ASSUME NEW d \in Disk, NEW late \in BOOLEAN, DiskAppears(d, late) PROVE DiskTypes'
  <2>1. UNCHANGED <<zombie, content, dirty, path, dangling, mounted>>
        /\ staged' = [staged EXCEPT ![d] = IF late THEN {"Mount"} ELSE {}]
    BY <1>2 DEF DiskAppears
  <2>2. (IF late THEN {"Mount"} ELSE {}) \in SUBSET Stage
    BY DEF Stage
  <2> QED BY <2>1, <2>2, StageTypes
<1>3. ASSUME NEW d \in Listed, NEW verdict, NEW peeks, DiskDisappears(d, verdict, peeks)
      PROVE  DiskTypes'
  <2>1. d \in Disk
    BY DEF Listed
  <2>2. /\ dangling' = dangling \/ dangling' = dangling \cup Described(d)
        /\ zombie' = zombie \cup {d} /\ UNCHANGED <<content, dirty, path, mounted>>
        /\ staged' = staged \/ staged' = [staged EXCEPT ![d] = @ \cup {"Appear"}]
    BY <1>3 DEF DiskDisappears
  <2>3. dangling' \in SUBSET Volume
    BY <2>1, <2>2, DescribedVolumes DEF DiskTypes
  <2>4. staged' \in [Disk -> SUBSET Stage]
    BY <2>1, <2>2 DEF DiskTypes, Stage
  <2> QED BY <2>1, <2>2, <2>3, <2>4 DEF DiskTypes
<1>4. ASSUME NEW d \in Listed, NEW kind, NEW whole, NEW force,
             QueueRequest(d, kind, whole, force)
      PROVE  DiskTypes'
  BY <1>4, SameDiskTypes DEF QueueRequest, stageVars
<1> QED BY <1>1, <1>2, <1>3, <1>4 DEF Threads, Environment

LEMMA InvolvedDisks ==
  ASSUME Known, NEW r \in Queued PROVE Involved(r) \subseteq Disk
<1>1. r \in DOMAIN req /\ \A s \in DOMAIN req : req[s].disk \in Disk
  <2>1. \A s \in DOMAIN req : req[s] \in Request
    BY DEF Known, RequestTypes
  <2> QED BY <2>1, QueuedRequest, RequestFields DEF Known
<1>2. req[r].link \subseteq DOMAIN req
  <2>1. req[r].link \subseteq 1 .. r - 1 /\ DOMAIN req = 1 .. Len(req) /\ Len(req) \in Nat
    BY <1>1 DEF Known, Serves, RequestShape, Shaped, RequestTypes
  <2> QED BY <1>1, <2>1
<1> QED BY <1>1, <1>2 DEF Involved

LEMMA CursorTypesStay ==
  ASSUME Known, CursorTypes, Next PROVE CursorTypes'
<1>1. ASSUME DispatchBegin PROVE CursorTypes'
  BY <1>1 DEF DispatchBegin, CursorTypes
<1>2. ASSUME DispatchRequests PROVE CursorTypes'
  <2>1. PICK b \in BOOLEAN : b = (cursor.quiet /\ requests = <<>>)
    OBVIOUS
  <2>2. cursor' = [cursor EXCEPT !.phase = "requests", !.i = 1, !.quiet = b]
    BY <1>2, <2>1 DEF DispatchRequests
  <2> QED BY <2>2 DEF CursorTypes
<1>3. ASSUME DispatchEnd PROVE CursorTypes'
  BY <1>3 DEF DispatchEnd, CursorTypes, AtRest
<1>4. ASSUME NEW quiet, NextDisk(quiet), quiet \in BOOLEAN PROVE CursorTypes'
  <2>1. PICK b \in BOOLEAN : b = (cursor.quiet /\ quiet)
    OBVIOUS
  <2>2. PICK i \in Nat : i = cursor.i + 1
    BY DEF CursorTypes
  <2>3. cursor' = [cursor EXCEPT !.i = i, !.quiet = b]
    BY <1>4, <2>1, <2>2 DEF NextDisk
  <2> QED BY <2>3 DEF CursorTypes
<1>5. ASSUME NEW d \in Listed,
             \/ StageNothing(d) \/ StageProbe(d) \/ StageMountWaits(d) \/ StageAppear(d)
             \/ \E asked \in Asked : StagePeek(d, asked)
             \/ \E enabled \in AutoMount : StageMount(d, enabled)
      PROVE  CursorTypes'
  <2>1. NextDisk(FALSE) \/ NextDisk(d \notin active) \/ NextDisk(HeldBack(d))
    BY <1>5 DEF StageNothing, StageProbe, StageMountWaits, StageAppear, StagePeek, StageMount
  <2>2. (d \notin active) \in BOOLEAN /\ HeldBack(d) \in BOOLEAN
    BY DEF HeldBack
  <2> QED BY <1>4, <2>1, <2>2
<1>6. ASSUME NEW r \in Queued,
             \/ RequestWaits(r) \/ MountReprobe(r) \/ MountAuthorize(r)
             \/ \E asked \in Asked : RequestApprove(r, asked)
             \/ RequestRejected(r) \/ RequestRefused(r) \/ RequestStart(r)
      PROVE  CursorTypes'
  <2>1. Leave(r) \/ UNCHANGED cursor
    BY <1>6 DEF RequestWaits, MountReprobe, MountAuthorize, RequestApprove, RequestRejected,
                RequestRefused, RequestStart, Take
  <2>2. CASE Leave(r)
    <3>1. cursor' = [cursor EXCEPT !.i = @ + 1, !.blocked = @ \cup Involved(r)]
      BY <2>2 DEF Leave
    <3>2. Involved(r) \subseteq Disk
      BY InvolvedDisks
    <3>3. PICK b \in SUBSET Disk : b = cursor.blocked \cup Involved(r)
      BY <3>2 DEF CursorTypes
    <3>4. PICK i \in Nat : i = cursor.i + 1
      BY DEF CursorTypes
    <3>5. cursor' = [cursor EXCEPT !.i = i, !.blocked = b]
      BY <3>1, <3>3, <3>4
    <3> QED BY <3>5 DEF CursorTypes
  <2>3. CASE UNCHANGED cursor
    BY <2>3 DEF CursorTypes
  <2> QED BY <2>1, <2>2, <2>3
<1>7. Threads => UNCHANGED cursor
  BY DEF Threads, ThreadRuns
<1>8. Environment => UNCHANGED cursor
  BY Outside DEF Handler
<1>9. ASSUME NEW w \in work, Callbacks(w) PROVE UNCHANGED cursor
  BY <1>9 DEF Callbacks, ProbeDone, PeekDone, TickleDone, ApprovalDone, AuthorizeDone,
              EjectDone, MountDone, UnmountDone, Handler
<1>10. ASSUME UNCHANGED cursor PROVE CursorTypes'
  BY <1>10 DEF CursorTypes
<1> QED BY <1>1, <1>2, <1>3, <1>5, <1>6, <1>7, <1>8, <1>9, <1>10 DEF Next, Walk

-----------------------------------------------------------------------------
(* What is known is kept by every step.                                    *)
LEMMA BusyTypesAre ==
  ASSUME WorkTypes, Exclusive PROVE BusyTypes
<1>1. \A w \in work : w.disk \in Disk
  BY DEF WorkTypes, Work
<1>2. \A d \in Disk : unitOf[d] \in Unit
  BY ConstantAssumption
<1> QED BY <1>1, <1>2 DEF BusyTypes, Exclusive, OneOperationPerDisk, OneCommandPerUnit

LEMMA LoopTypesStay ==
  ASSUME LoopTypes, CursorTypes, Next PROVE LoopTypes'
<1>1. UNCHANGED loopVars \/ Signal \/ (signalled' = FALSE /\ idle' = idle)
      \/ (signalled' = signalled /\ idle' = (idle \/ cursor.quiet))
  <2>1. CASE Walk
    <3>1. CASE DispatchBegin \/ DispatchRequests \/ DispatchEnd
      BY <3>1 DEF DispatchBegin, DispatchRequests, DispatchEnd, loopVars
    <3>2. ASSUME NEW d \in Listed,
                 \/ StageNothing(d) \/ StageProbe(d) \/ StageMountWaits(d) \/ StageAppear(d)
                 \/ \E asked \in Asked : StagePeek(d, asked)
                 \/ \E enabled \in AutoMount : StageMount(d, enabled)
          PROVE  UNCHANGED loopVars \/ Signal
      BY <3>2 DEF StageNothing, StageProbe, StageMountWaits, StageAppear, StagePeek, StageMount
    <3>3. ASSUME NEW r \in Queued,
                 \/ RequestWaits(r) \/ MountReprobe(r) \/ MountAuthorize(r)
                 \/ \E asked \in Asked : RequestApprove(r, asked)
                 \/ RequestRejected(r) \/ RequestRefused(r) \/ RequestStart(r)
          PROVE  UNCHANGED loopVars \/ Signal
      BY <3>3 DEF RequestWaits, MountReprobe, MountAuthorize, RequestApprove, RequestRejected,
                  RequestRefused, RequestStart
    <3> QED BY <2>1, <3>1, <3>2, <3>3 DEF Walk
  <2>2. ASSUME NEW w \in work, Callbacks(w) PROVE UNCHANGED loopVars \/ Signal
    <3>1. ASSUME EjectDone(w) \/ MountDone(w) \/ UnmountDone(w)
          PROVE  UNCHANGED loopVars \/ Signal
      BY <3>1 DEF EjectDone, MountDone, UnmountDone, NotesFailure
    <3>2. ASSUME PeekDone(w) \/ (\E result \in ProbeResult : ProbeDone(w, result))
                 \/ (\E asked \in Asked : TickleDone(w, asked))
                 \/ (\E verdict \in Verdict : ApprovalDone(w, verdict))
                 \/ (\E granted \in BOOLEAN : AuthorizeDone(w, granted))
          PROVE  UNCHANGED loopVars \/ Signal
      BY <3>2 DEF PeekDone, ProbeDone, TickleDone, ApprovalDone, AuthorizeDone
    <3> QED BY <2>2, <3>1, <3>2 DEF Callbacks
  <2>3. CASE Threads
    BY <2>3 DEF Threads, ThreadRuns
  <2>4. CASE Environment
    <3>1. ASSUME NEW d \in Listed, NEW kind, NEW whole, NEW force,
                 QueueRequest(d, kind, whole, force)
          PROVE  UNCHANGED loopVars \/ Signal
      BY <3>1 DEF QueueRequest
    <3>2. ASSUME NEW d, NEW late, DiskAppears(d, late) PROVE Signal
      BY <3>2 DEF DiskAppears
    <3>3. ASSUME NEW d, NEW verdict, NEW peeks, DiskDisappears(d, verdict, peeks) PROVE Signal
      BY <3>3 DEF DiskDisappears
    <3> QED BY <2>4, <3>1, <3>2, <3>3 DEF Environment
  <2> QED BY <2>1, <2>2, <2>3, <2>4 DEF Next
<1> QED BY <1>1 DEF LoopTypes, CursorTypes, Signal, loopVars

\* What is known of the requests, of the walk over them and of the rest.
Orderly == Known /\ Kept /\ Ordered /\ RestTypes /\ Exclusive

LEMMA OrderlyStays ==
  ASSUME Orderly, Next PROVE Orderly'
<1>1. Known /\ Kept /\ Ordered /\ RestTypes /\ Exclusive /\ cursor.i \in Nat /\ CursorTypes
  BY DEF Orderly, RestTypes, CursorTypes
<1>2. Summary /\ WorkStep /\ ListStep /\ list' \in Seq(Disk)
  BY <1>1, StepSummary, StepWork, StepList
<1>3. OneOperationPerDisk
  BY <1>1 DEF Exclusive
<1>4. RequestTypes' /\ WorkTypes' /\ Serves' /\ Ordered'
  BY <1>1, <1>2, <1>3, RequestTypesStay, WorkTypesStay, ServesStays, OrderedStays
<1>5. Places'
  BY <1>1, <1>2, StepPath, PlacesStay
<1>6. Kept'
  BY <1>1, <1>2, StepCursor, KeptStays DEF CursorTypes
<1>7. Exclusive'
  BY <1>1, ExclusiveStep
<1>8. DiskTypes'
  <2>1. DiskTypes /\ list \in Seq(Disk) /\ RequestTypes /\ \A w \in work : w.disk \in Disk
    BY <1>1 DEF RestTypes, Known, WorkTypes, Work
  <2> QED BY <2>1, WalkDiskTypes, CallbackDiskTypes, OtherDiskTypes DEF Next
<1>9. BusyTypes'
  BY <1>4, <1>7, BusyTypesAre, PTL
<1>10. LoopTypes' /\ CursorTypes'
  BY <1>1, LoopTypesStay, CursorTypesStay DEF RestTypes
<1> QED BY <1>2, <1>4, <1>5, <1>6, <1>7, <1>8, <1>9, <1>10 DEF Orderly, Known, RestTypes

LEMMA InitOrderly == Init => Orderly
<1> SUFFICES ASSUME Init PROVE Orderly
  OBVIOUS
<1>1. /\ list = <<>> /\ requests = <<>> /\ req = <<>> /\ work = {} /\ cursor = AtRest
      /\ zombie = {} /\ path = {}
  BY DEF Init
<1>2. Listed = {} /\ Queued = {}
  BY <1>1 DEF Listed, Queued
<1>3. RequestTypes /\ WorkTypes /\ list \in Seq(Disk)
  BY <1>1 DEF RequestTypes, WorkTypes
<1>4. Serves
  BY <1>1, <1>2 DEF Serves, Rising, RequestShape, WorkOf, Unanswered, AnsweredOnce
<1>5. Places
  BY <1>1, <1>2 DEF Places
<1>6. Kept /\ Ordered
  BY <1>1, <1>2 DEF Kept, Ordered, AtRest
<1>7. DiskTypes /\ BusyTypes /\ LoopTypes
  BY ConstantAssumption DEF Init, DiskTypes, BusyTypes, LoopTypes
<1>8. CursorTypes
  BY <1>1 DEF CursorTypes, AtRest
<1> QED BY <1>3, <1>4, <1>5, <1>6, <1>7, <1>8, InitExclusive DEF Orderly, Known, RestTypes

\* Requests are known, in their order, and the walk over them goes by its cursor
\* (the request list of DAQueue.c and the walk of __DAStageDispatch).
THEOREM OrderlyInvariance == Spec => []Orderly
<1>1. Orderly /\ [Next]_vars => Orderly'
  <2> SUFFICES ASSUME Orderly, [Next]_vars PROVE Orderly'
    OBVIOUS
  <2>1. CASE Next
    BY <2>1, OrderlyStays
  <2>2. CASE UNCHANGED vars
    <3>1. UNCHANGED <<list, zombie, staged, content, dirty, path, dangling, active, unitActive,
                      work, mounted, requests, req, cursor, signalled, idle>>
      BY <2>2 DEF vars, stageVars, busyVars, reqVars, loopVars
    <3>2. Listed' = Listed /\ Queued' = Queued
      BY <3>1 DEF Listed, Queued
    <3>4. RequestTypes' /\ WorkTypes' /\ list' \in Seq(Disk)
      BY <3>1 DEF Orderly, Known, RequestTypes, WorkTypes
    <3>5. Serves'
      BY <3>1, <3>2 DEF Orderly, Known, Serves, Rising, RequestShape, Shaped, Sanctioned, WorkOf,
         Unanswered, AnsweredOnce
    <3>6. Places'
      BY <3>1, <3>2 DEF Orderly, Known, Places, Placed
    <3>7. Kept' /\ Ordered'
      <4>1. \A r : Involved(r)' = Involved(r)
        BY <3>1 DEF Involved
      <4>2. Kept'
        BY <3>1, <4>1 DEF Orderly, Kept
      <4>3. Ordered'
        BY <3>1, <3>2, <4>1 DEF Orderly, Ordered
      <4> QED BY <4>2, <4>3
    <3>8. RestTypes'
      BY <3>1 DEF Orderly, RestTypes, DiskTypes, BusyTypes, LoopTypes, CursorTypes
    <3>3. Exclusive'
      BY <2>2, BusyUnchanged DEF Orderly, vars, stageVars
    <3> QED BY <3>3, <3>4, <3>5, <3>6, <3>7, <3>8 DEF Orderly, Known
  <2> QED BY <2>1, <2>2
<1> QED BY <1>1, InitOrderly, PTL DEF Spec

-----------------------------------------------------------------------------
(* The results about the requests.                                         *)

\* The variables have their types.
THEOREM TypesHold == Spec => []TypeOK
<1>1. Orderly => TypeOK
  BY TypesAre DEF Orderly, Known
<1> QED BY <1>1, OrderlyInvariance, PTL

\* No client is answered twice (__DARequestDispatchCallback).
THEOREM ClientsAnsweredOnce == Spec => []AnsweredOnce
<1>1. Orderly => AnsweredOnce
  BY DEF Orderly, Known, Serves
<1> QED BY <1>1, OrderlyInvariance, PTL

\* Of two requests that involve a disk in common the one that was queued later
\* has not been started (the walk of __DAStageDispatch over gDARequestList).
THEOREM RequestsServedInOrder == Spec => []ServedInOrder
<1>1. Orderly => ServedInOrder
  BY OrderedIs DEF Orderly, Known, Serves
<1> QED BY <1>1, OrderlyInvariance, PTL

(* A request for a whole unit is answered after its parts.                 *)
LEMMA PartsOver ==
  ASSUME Orderly, NEW r \in DOMAIN req, req[r].whole, NEW s \in req[r].link,
         NEW w \in work, w.req = s, w.op \in Command,
         req[r].disk \in Disk
  PROVE  /\ Serving(w) /\ w.disk = req[s].disk /\ unitOf[w.disk] = unitOf[req[r].disk]
         /\ unitOf[req[r].disk] \in unitActive
         /\ req[r].kind = "Eject" => req[s].disk = req[r].disk
         /\ req[s].disk # req[r].disk /\ s # r
<1>1. /\ s \in DOMAIN req /\ s # 0 /\ s # r
      /\ req[s].disk # req[r].disk /\ unitOf[req[s].disk] = unitOf[req[r].disk]
      /\ req[s].kind = req[r].kind /\ req[r].disk \in Whole
      /\ Sanctioned(req, s)
  <2>1. DOMAIN req = 1 .. Len(req) /\ Len(req) \in Nat
    BY DEF Orderly, Known, RequestTypes
  <2>2. Shaped(req, r)
    BY DEF Orderly, Known, Serves, RequestShape
  <2>3. s \in DOMAIN req /\ s # 0 /\ s # r
    BY <2>1, <2>2 DEF Shaped
  <2> QED BY <2>2, <2>3 DEF Shaped, Orderly, Known, Serves, RequestShape
<1>2. ~(w.op \in {"probe", "peek"})
  BY <1>1 DEF Orderly, Known, Serves, WorkOf
<1>3. w.disk = req[s].disk
  BY <1>2 DEF Orderly, Known, Serves, WorkOf
<1>4. Serving(w)
  BY <1>2 DEF Command, Serving
<1>5. req[s].approved
  BY <1>4 DEF Orderly, Known, Serves, WorkOf
<1>6. unitOf[req[r].disk] \in unitActive
  BY <1>1, <1>3 DEF Orderly, Exclusive, OneCommandPerUnit
<1>7. req[r].kind = "Eject" => req[s].disk = req[r].disk
  BY <1>1, <1>5, ConstantAssumption DEF Sanctioned
<1> QED BY <1>1, <1>3, <1>4, <1>6, <1>7

LEMMA AnsweredAfterParts ==
  ASSUME Orderly, Next, NEW r \in DOMAIN req, req[r].whole,
         req'[r].answers # req[r].answers, req[r].disk \in Listed',
         NEW s \in req[r].link
  PROVE  s \notin Queued /\ \A w \in work : w.req = s => w.op \notin Command
<1>1. Known /\ Kept /\ cursor.i \in Nat
  BY DEF Orderly, RestTypes, CursorTypes
<1>2. PICK A, J, S : Moves(A, J, S) /\ Settles(A)
  BY <1>1, StepSummary DEF Summary
<1>3. DOMAIN req = 1 .. Len(req) /\ Len(req) \in Nat
  BY <1>1 DEF Known, RequestTypes
<1>4. r \in A
  BY <1>1, <1>2, <1>3, StillAlike DEF Becoming
<1>5. s < r /\ s \in DOMAIN req /\ s # r /\ req[r].disk \in Disk
  <2>1. Shaped(req, r) /\ req[r] \in Request
    BY <1>1 DEF Known, Serves, RequestShape, RequestTypes
  <2>2. s \in 1 .. r - 1 /\ r \in Nat /\ r <= Len(req)
    BY <1>3, <2>1 DEF Shaped
  <2> QED BY <1>3, <2>1, <2>2, RequestFields
<1>6. ASSUME NEW w \in work, Serving(w), w.req = r
      PROVE  s \notin Queued /\ \A v \in work : v.req = s => v.op \notin Command
  <2>1. s \notin Queued
    BY <1>1, <1>6 DEF Known, Serves, WorkOf
  <2>2. ASSUME NEW v \in work, v.req = s, v.op \in Command PROVE FALSE
    <3>1. unitOf[v.disk] = unitOf[req[r].disk]
      BY <1>5, <2>2, PartsOver
    <3>2. w.disk = req[r].disk /\ w.op \in Command
      BY <1>1, <1>6 DEF Known, Serves, WorkOf, Serving, Command
    <3>3. v = w
      BY <2>2, <3>1, <3>2 DEF Orderly, Exclusive, OneCommandPerUnit
    <3> QED BY <1>5, <1>6, <2>2, <3>3
  <2> QED BY <2>1, <2>2
<1>7. ASSUME r \in Queued, RequestRejected(r) \/ RequestRefused(r)
      PROVE  s \notin Queued /\ \A v \in work : v.req = s => v.op \notin Command
  <2>1. Ready(r) /\ Dispatching(r)
    BY <1>7 DEF RequestRejected, RequestRefused, Ready
  <2>2. s \notin Queued
    <3>1. s \in Queued => Involved(s) \cap Involved(r) = {}
      BY <1>1, <1>5, <1>7, <2>1, EarlierApart
    <3>2. req[s].disk \in Involved(s) /\ req[s].disk \in Involved(r)
      BY DEF Involved
    <3> QED BY <3>1, <3>2
  <2>3. ASSUME NEW v \in work, v.req = s, v.op \in Command PROVE FALSE
    <3>1. /\ unitOf[req[r].disk] \in unitActive
          /\ req[r].kind = "Eject" => req[s].disk = req[r].disk
          /\ req[s].disk # req[r].disk
      BY <1>5, <2>3, PartsOver
    <3>2. req[r].kind = "Eject"
      BY <2>1, <3>1 DEF Ready
    <3> QED BY <3>1, <3>2
  <2> QED BY <2>2, <2>3
<1> QED BY <1>2, <1>4, <1>6, <1>7 DEF Settles, Finishes

\* The answer about a whole unit is given when its parts are over (DAQueueRequest
\* queues them before it; DARequestDispatch waits for the unit).
THEOREM WholeUnitsLast == Spec => WholeAfterParts
<1> DEFINE After ==
      \A r \in DOMAIN req :
        req[r].whole /\ req'[r].answers # req[r].answers /\ req[r].disk \in Listed' =>
          \A s \in req[r].link :
            /\ s \notin Queued
            /\ \A w \in work : w.req = s => w.op \notin Command
<1>1. Orderly /\ [Next]_vars => [After]_vars
  BY AnsweredAfterParts
<1>2. Spec => [][After]_vars
  BY <1>1, OrderlyInvariance, PTL DEF Spec
<1> QED BY <1>2 DEF WholeAfterParts

-----------------------------------------------------------------------------
(* Where volumes are mounted, and which disks have been probed.            *)

\* A mount point is known only of a disk that has been probed, and is not being
\* probed anew.
Probed ==
  /\ \A d \in path : "Probe" \in staged[d]
  /\ \A w \in work : /\ w.op = "probe" => w.disk \notin path
                     /\ w.op \in {"probe", "mount"} => "Probe" \in staged[w.disk]

\* What a step does to the stages of a disk.
StagedStep ==
  \A d \in Disk :
    \/ staged[d] \subseteq staged'[d]
    \/ d \in Comers
    \/ \E r \in Queued : MountReprobe(r) /\ req[r].disk = d /\ staged'[d] = staged[d] \ {"Probe"}

LEMMA MoreStages ==
  ASSUME DiskTypes, NEW d \in Disk, NEW S, staged' = [staged EXCEPT ![d] = S],
         staged[d] \subseteq S
  PROVE  StagedStep
  BY DEF DiskTypes, StagedStep

LEMMA SameStages ==
  ASSUME staged' = staged PROVE StagedStep
  BY DEF StagedStep

LEMMA StepStaged ==
  ASSUME Orderly, Next PROVE StagedStep
<1>0. DiskTypes /\ list \in Seq(Disk) /\ RequestTypes /\ \A w \in work : w.disk \in Disk
  BY DEF Orderly, RestTypes, Known, WorkTypes, Work
<1>1. CASE DispatchBegin \/ DispatchRequests \/ DispatchEnd
  BY <1>1, SameStages DEF DispatchBegin, DispatchRequests, DispatchEnd, stageVars
<1>2. ASSUME NEW d \in Listed,
             \/ StageNothing(d) \/ StageProbe(d) \/ StageMountWaits(d) \/ StageAppear(d)
             \/ \E asked \in Asked : StagePeek(d, asked)
             \/ \E enabled \in AutoMount : StageMount(d, enabled)
      PROVE  StagedStep
  <2>1. d \in Disk
    BY <1>0 DEF Listed
  <2>2. staged[d] \subseteq Stage
    BY <1>0, <2>1 DEF DiskTypes
  <2>3. \/ staged' = staged
        \/ staged' = [staged EXCEPT ![d] = Stage]
        \/ \E s : staged' = [staged EXCEPT ![d] = @ \cup {s}]
    BY <1>2 DEF StageNothing, StageProbe, StageMountWaits, StageAppear, StagePeek, StageMount,
                stageVars
  <2>4. ASSUME NEW s, staged' = [staged EXCEPT ![d] = @ \cup {s}] PROVE StagedStep
    BY <1>0, <2>1, <2>4, MoreStages
  <2>5. ASSUME staged' = [staged EXCEPT ![d] = Stage] PROVE StagedStep
    BY <1>0, <2>1, <2>2, <2>5, MoreStages
  <2> QED BY <2>3, <2>4, <2>5, SameStages
<1>3. ASSUME NEW r \in Queued, MountReprobe(r) PROVE StagedStep
  <2>1. staged' = [staged EXCEPT ![req[r].disk] = @ \ {"Probe"}]
    BY <1>3 DEF MountReprobe
  <2>2. req[r].disk \in Disk
    BY <1>0, QueuedRequest, RequestFields
  <2> QED BY <1>0, <1>3, <2>1, <2>2 DEF DiskTypes, StagedStep
<1>4. ASSUME NEW r \in Queued,
             \/ RequestWaits(r) \/ MountAuthorize(r) \/ \E asked \in Asked : RequestApprove(r, asked)
             \/ RequestRejected(r) \/ RequestRefused(r) \/ RequestStart(r)
      PROVE  StagedStep
  BY <1>4, SameStages
     DEF RequestWaits, MountAuthorize, RequestApprove, RequestRejected, RequestRefused,
         RequestStart, stageVars
<1>5. ASSUME NEW w \in work, Callbacks(w) PROVE StagedStep
  BY <1>5, SameStages DEF Callbacks, ProbeDone, PeekDone, TickleDone, ApprovalDone,
     AuthorizeDone, EjectDone, MountDone, UnmountDone, stageVars
<1>6. CASE Threads
  BY <1>6, SameStages DEF Threads, ThreadRuns, stageVars
<1>7. ASSUME NEW d \in Disk, NEW late \in BOOLEAN, DiskAppears(d, late) PROVE StagedStep
  BY <1>0, <1>7 DEF DiskAppears, DiskTypes, StagedStep, Comers
<1>8. ASSUME NEW d \in Listed, NEW verdict, NEW peeks, DiskDisappears(d, verdict, peeks)
      PROVE  StagedStep
  <2>1. d \in Disk
    BY <1>0 DEF Listed
  <2>2. staged' = staged \/ staged' = [staged EXCEPT ![d] = @ \cup {"Appear"}]
    BY <1>8 DEF DiskDisappears
  <2>3. ASSUME staged' = [staged EXCEPT ![d] = @ \cup {"Appear"}] PROVE StagedStep
    BY <1>0, <2>1, <2>3, MoreStages
  <2> QED BY <2>2, <2>3, SameStages
<1>9. ASSUME NEW d \in Listed, NEW kind, NEW whole, NEW force,
             QueueRequest(d, kind, whole, force)
      PROVE  StagedStep
  BY <1>9, SameStages DEF QueueRequest, stageVars
<1> QED BY <1>1, <1>2, <1>3, <1>4, <1>5, <1>6, <1>7, <1>8, <1>9 DEF Next, Walk, Environment

\* Only a disk that is not mounted and not busy is to be probed anew.
LEMMA ProbeStays ==
  ASSUME Orderly, StagedStep, NEW d \in Disk, "Probe" \in staged[d],
         d \in Listed \cup zombie, d \in path \/ d \in active
  PROVE  "Probe" \in staged'[d]
<1>1. d \notin Comers
  BY DEF Comers
<1>2. ASSUME NEW r \in Queued, MountReprobe(r), req[r].disk = d PROVE FALSE
  BY <1>2 DEF MountReprobe, NeedsProbe, Ready
<1> QED BY <1>1, <1>2 DEF StagedStep

LEMMA ProbedStays ==
  ASSUME Orderly, Probed, Next PROVE Probed'
<1>1. Known /\ OneOperationPerDisk
  BY DEF Orderly, Exclusive
<1>2. WorkStep /\ PathStep /\ StagedStep
  BY <1>1, StepWork, StepPath, StepStaged
<1>3. /\ path \subseteq Listed \cup zombie /\ path \subseteq Disk
      /\ \A w \in work : w.disk \in Listed \cup zombie /\ w.disk \in Disk /\ w.disk \in active
  BY <1>1 DEF Orderly, RestTypes, DiskTypes, Known, Places, WorkTypes, Work, OneOperationPerDisk
<1>4. ASSUME NEW d \in path' PROVE "Probe" \in staged'[d]
  <2>1. CASE d \in path
    BY <1>2, <1>3, <2>1, ProbeStays DEF Probed
  <2>2. ASSUME NEW w \in work, w.disk = d, w.op \in {"probe", "mount"}, staged' = staged
        PROVE  "Probe" \in staged'[d]
    BY <2>2 DEF Probed
  <2> QED BY <1>2, <2>1, <2>2 DEF PathStep
<1>5. ASSUME NEW w \in work', w.op = "probe" PROVE w.disk \notin path'
  <2>1. ASSUME NEW v \in work, Continues(w, v) PROVE w.disk \notin path'
    <3>1. v.op = "probe" /\ w.disk = v.disk
      BY <1>5, <2>1 DEF Continues, Serving, Consulting
    <3>2. w.disk \notin path
      BY <3>1 DEF Probed
    <3>3. ASSUME NEW u \in work, u.disk = w.disk, work' = work \ {u} PROVE FALSE
      BY <1>1, <3>3 DEF OneOperationPerDisk
    <3> QED BY <1>2, <3>2, <3>3 DEF PathStep
  <2>2. CASE Starts(w)
    <3>1. StageProbe(w.disk) /\ w.disk \in Listed
      BY <1>5, <2>2 DEF Starts, Serving, Consulting
    <3>2. path' = path /\ "Probe" \notin staged[w.disk]
      BY <3>1 DEF StageProbe
    <3> QED BY <3>2 DEF Probed
  <2> QED BY <1>2, <2>1, <2>2 DEF WorkStep
<1>6. ASSUME NEW w \in work', w.op \in {"probe", "mount"} PROVE "Probe" \in staged'[w.disk]
  <2>1. ASSUME NEW v \in work, Continues(w, v) PROVE "Probe" \in staged'[w.disk]
    <3>1. v.op = w.op /\ w.disk = v.disk
      BY <1>6, <2>1 DEF Continues, Serving, Consulting
    <3>2. "Probe" \in staged[w.disk]
      BY <1>6, <3>1 DEF Probed
    <3> QED BY <1>2, <1>3, <3>1, <3>2, ProbeStays
  <2>2. CASE Starts(w) /\ w.op = "probe"
    <3>1. StageProbe(w.disk) /\ ~UnitBusy(w.disk) /\ w.disk \in Listed
      BY <2>2 DEF Starts, Serving, Consulting
    <3>2. staged' = [staged EXCEPT ![w.disk] = @ \cup {"Probe"}]
      BY <3>1 DEF StageProbe
    <3>3. w.disk \in Disk
      BY <1>1, <3>1 DEF Listed, Known
    <3> QED BY <3>2, <3>3 DEF Orderly, RestTypes, DiskTypes
  <2>3. CASE Starts(w) /\ w.op = "mount"
    <3>1. /\ w.req \in Queued /\ req[w.req].disk = w.disk
          /\ RequestStart(w.req) /\ CommandOf(w.req) = "mount"
      BY <2>3 DEF Starts, Serving, Consulting
    <3>2. w.req \in DOMAIN req /\ req[w.req].kind \in Kind
      BY <1>1, <3>1, QueuedRequest, RequestFields DEF Known
    <3>3. IsMount(w.req)
      BY <3>1, <3>2 DEF CommandOf, Kind, IsMount
    <3>4. req[w.req].approved
      BY <3>1, <3>3 DEF RequestStart, Approved, IsMount
    <3>5. req[w.req].probed
      BY <1>1, <3>2, <3>3, <3>4 DEF Known, Serves, RequestShape, Sanctioned, IsMount
    <3>6. "Probe" \in staged[w.disk]
      BY <3>1, <3>3, <3>5 DEF RequestStart, AwaitsProbe
    <3>7. staged' = staged
      BY <3>1 DEF RequestStart, stageVars
    <3> QED BY <3>6, <3>7
  <2> QED BY <1>2, <1>6, <2>1, <2>2, <2>3 DEF WorkStep
<1> QED BY <1>4, <1>5, <1>6 DEF Probed

-----------------------------------------------------------------------------
(* How requests leave the queue, and unmounts come to their end.           *)

\* A request is rejected or refused, or its command begins, or its disk leaves.
QueueStep ==
  \A r \in Queued \ Queued' :
    \/ RequestRejected(r) \/ RequestRefused(r)
    \/ RequestStart(r) /\ Begin(CommandOf(r), req[r].disk, r)
    \/ req[r].disk \in Listed /\ req[r].disk \notin Listed'

LEMMA QueueGrows ==
  ASSUME RequestTypes, NEW T, T = Nat, NEW p \in Seq(T), requests' = Joined(requests, p)
  PROVE  Queued \subseteq Queued'
<1>1. requests \in Seq(Nat) /\ Len(requests) \in Nat /\ DOMAIN requests = 1 .. Len(requests)
  BY DEF RequestTypes
<1>2. IsJoined(T, requests', requests, p)
  BY <1>1, JoinedEntries
<1>3. /\ \A i \in 1 .. Len(requests) : requests'[i] = requests[i]
      /\ DOMAIN requests' = 1 .. Len(requests) + Len(p) /\ Len(p) \in Nat
  BY <1>2 DEF IsJoined
<1>4. \A i \in DOMAIN requests : i \in DOMAIN requests' /\ requests'[i] = requests[i]
  BY <1>1, <1>3
<1> QED BY <1>4 DEF Queued

LEMMA QueueAppended ==
  ASSUME RequestTypes, NEW m, requests' = Append(requests, m)
  PROVE  Queued \subseteq Queued'
<1>1. requests \in Seq(1 .. Len(req))
  BY DEF RequestTypes
<1>2. Entries(requests') = Entries(requests) \cup {m}
  BY <1>1, AppendEntry
<1> QED BY <1>2, QueuedEntries

LEMMA TakenQueue ==
  ASSUME Known, NEW r, Dispatching(r), Take
  PROVE  Queued' = Queued \ {r}
<1>1. /\ cursor.i \in 1 .. Len(requests) /\ r = requests[cursor.i]
      /\ Len(req) \in Nat /\ requests \in Seq(1 .. Len(req)) /\ Rising(requests)
  BY DEF Dispatching, Known, RequestTypes, Serves
<1>2. requests' = Off(requests, cursor.i)
  BY DEF Take, Off
<1>3. Entries(requests') = Entries(requests) \ {requests[cursor.i]}
  BY <1>1, <1>2, TakenRising
<1> QED BY <1>1, <1>3, QueuedEntries

LEMMA AskedGrows ==
  ASSUME Known, NEW d \in Listed, NEW kind \in RequestKind, NEW whole \in BOOLEAN,
         NEW force \in BOOLEAN, QueueRequest(d, kind, whole, force)
  PROVE  Queued \subseteq Queued'
<1>1. PICK subs : subs = Those(list, {e \in Listed : e # d /\ unitOf[e] = unitOf[d]})
  OBVIOUS
<1>2. d \in Disk /\ RequestTypes
  BY DEF Listed, Known
<1>3. Len(subs) \in Nat
  BY <1>1, <1>2, OthersOnUnit
<1>4. PICK p : p = [i \in 1 .. Len(subs) + 1 |-> Len(req) + i]
  OBVIOUS
<1>5. \/ requests' = requests \/ requests' = Append(requests, Len(req'))
      \/ requests' = requests \o p
  <2>1. CASE ~whole
    BY <2>1 DEF QueueRequest
  <2>2. CASE whole /\ d \in Whole
    BY <1>1, <1>4, <2>2 DEF QueueRequest
  <2>3. CASE whole /\ d \notin Whole
    BY <2>3 DEF QueueRequest
  <2> QED BY <2>1, <2>2, <2>3
<1>6. PICK k \in Nat : k = Len(subs) + 1
  BY <1>3
<1>7. p \in Seq(Nat)
  <2>1. Len(req) \in Nat /\ p = [i \in 1 .. k |-> Len(req) + i]
    BY <1>2, <1>4, <1>6 DEF RequestTypes
  <2>2. DOMAIN p = 1 .. k /\ p = [i \in DOMAIN p |-> p[i]] /\ \A i \in 1 .. k : p[i] \in Nat
    BY <2>1
  <2> QED BY <2>2, IsSequence
<1>8. ASSUME requests' = requests \o p PROVE Queued \subseteq Queued'
  <2>1. requests' = Joined(requests, p)
    BY <1>8 DEF Joined
  <2> QED BY <1>2, <1>7, <2>1, QueueGrows
<1>9. ASSUME requests' = requests PROVE Queued \subseteq Queued'
  BY <1>9 DEF Queued
<1> QED BY <1>2, <1>5, <1>8, <1>9, QueueAppended

LEMMA SameQueue ==
  ASSUME Queued \subseteq Queued' \/ requests' = requests PROVE QueueStep
  BY DEF QueueStep, Queued

LEMMA StepQueue ==
  ASSUME Known, Next PROVE QueueStep
<1>0. RequestTypes
  BY DEF Known
<1>1. CASE DispatchBegin \/ DispatchRequests \/ DispatchEnd
  BY <1>1, SameQueue DEF DispatchBegin, DispatchRequests, DispatchEnd, reqVars
<1>2. ASSUME NEW d \in Listed,
             \/ StageNothing(d) \/ StageProbe(d) \/ StageMountWaits(d) \/ StageAppear(d)
             \/ \E asked \in Asked : StagePeek(d, asked)
      PROVE  QueueStep
  BY <1>2, SameQueue DEF StageNothing, StageProbe, StageMountWaits, StageAppear, StagePeek, reqVars
<1>3. ASSUME NEW d \in Listed, NEW enabled, StageMount(d, enabled) PROVE QueueStep
  <2>1. requests' = requests \/ requests' = Append(requests, Len(req'))
    BY <1>3 DEF StageMount, reqVars
  <2> QED BY <1>0, <2>1, QueueAppended, SameQueue
<1>4. ASSUME NEW r \in Queued,
             \/ RequestWaits(r) \/ MountReprobe(r) \/ MountAuthorize(r)
             \/ \E asked \in Asked : RequestApprove(r, asked)
      PROVE  QueueStep
  BY <1>4, SameQueue DEF RequestWaits, MountReprobe, MountAuthorize, RequestApprove, Leave
<1>5. ASSUME NEW r \in Queued, RequestRejected(r) \/ RequestRefused(r) PROVE QueueStep
  <2>1. Dispatching(r) /\ Take
    BY <1>5 DEF RequestRejected, RequestRefused, Ready
  <2>2. Queued' = Queued \ {r}
    BY <2>1, TakenQueue
  <2> QED BY <1>5, <2>2 DEF QueueStep
<1>6. ASSUME NEW r \in Queued, RequestStart(r) PROVE QueueStep
  <2>1. CASE Leave(r)
    BY <2>1, SameQueue DEF Leave
  <2>2. CASE Take /\ Begin(CommandOf(r), req[r].disk, r)
    <3>1. Dispatching(r)
      BY <1>6 DEF RequestStart, Ready
    <3>2. Queued' = Queued \ {r}
      BY <2>2, <3>1, TakenQueue
    <3> QED BY <1>6, <2>2, <3>2 DEF QueueStep
  <2> QED BY <1>6, <2>1, <2>2 DEF RequestStart
<1>7. ASSUME NEW w \in work, Callbacks(w) PROVE QueueStep
  BY <1>7, SameQueue DEF Callbacks, ProbeDone, PeekDone, TickleDone, ApprovalDone,
     AuthorizeDone, EjectDone, MountDone, UnmountDone, reqVars
<1>8. CASE Threads
  BY <1>8, SameQueue DEF Threads, ThreadRuns, reqVars
<1>9. ASSUME NEW d \in Disk, NEW late \in BOOLEAN, DiskAppears(d, late) PROVE QueueStep
  BY <1>9, SameQueue DEF DiskAppears, reqVars
<1>10. ASSUME NEW d \in Listed, NEW verdict \in Verdict, NEW peeks \in BOOLEAN,
              DiskDisappears(d, verdict, peeks)
       PROVE  QueueStep
  <2>1. PICK gone : gone = {r \in Queued : req[r].disk = d}
                    /\ Queued' \cap (1 .. Len(req)) = Queued \ gone
    BY <1>10, DisappearsSummary
  <2>2. Listed' = Listed \ {d}
    BY <1>10, Shorter DEF DiskDisappears
  <2> QED BY <2>1, <2>2 DEF QueueStep
<1>11. ASSUME NEW d \in Listed, NEW kind \in RequestKind, NEW whole \in BOOLEAN,
              NEW force \in BOOLEAN, QueueRequest(d, kind, whole, force)
       PROVE  QueueStep
  BY <1>11, AskedGrows, SameQueue
<1> QED BY <1>1, <1>2, <1>3, <1>4, <1>5, <1>6, <1>7, <1>8, <1>9, <1>10, <1>11
        DEF Next, Walk, Environment

\* A command goes on until its callback.
ServeStep ==
  \A w \in work :
    Serving(w) =>
      \/ \E v \in work' : /\ Serving(v) /\ v.disk = w.disk /\ v.req = w.req
                          /\ Unmounting(w) => Unmounting(v)
      \/ EjectDone(w) \/ MountDone(w) \/ UnmountDone(w)

LEMMA StepServe ==
  ASSUME Known, Next PROVE ServeStep
<1>1. ASSUME work \subseteq work' PROVE ServeStep
  BY <1>1 DEF ServeStep
<1>2. Walk => work \subseteq work'
  <2>1. DispatchBegin \/ DispatchRequests \/ DispatchEnd => work \subseteq work'
    BY DEF DispatchBegin, DispatchRequests, DispatchEnd, busyVars
  <2>2. ASSUME NEW d \in Listed,
               \/ StageNothing(d) \/ StageProbe(d) \/ StageMountWaits(d) \/ StageAppear(d)
               \/ \E asked \in Asked : StagePeek(d, asked)
               \/ \E enabled \in AutoMount : StageMount(d, enabled)
        PROVE  work \subseteq work'
    BY <2>2 DEF StageNothing, StageProbe, StageMountWaits, StageAppear, StagePeek, StageMount,
                busyVars, Begin
  <2>3. ASSUME NEW r \in Queued,
               \/ RequestWaits(r) \/ MountReprobe(r) \/ MountAuthorize(r)
               \/ \E asked \in Asked : RequestApprove(r, asked)
               \/ RequestRejected(r) \/ RequestRefused(r) \/ RequestStart(r)
        PROVE  work \subseteq work'
    BY <2>3 DEF RequestWaits, MountReprobe, RequestRejected, RequestApprove, MountAuthorize,
                RequestRefused, RequestStart, busyVars, Begin
  <2> QED BY <2>1, <2>2, <2>3 DEF Walk
<1>3. ASSUME NEW w \in work, Callbacks(w) PROVE ServeStep
  <2>1. work \ {w} \subseteq work'
    BY <1>3 DEF Callbacks, ProbeDone, PeekDone, TickleDone, ApprovalDone, AuthorizeDone,
       EjectDone, MountDone, UnmountDone, NotesFailure, End, Becomes
  <2>2. Serving(w) => EjectDone(w) \/ MountDone(w) \/ UnmountDone(w)
    BY <1>3 DEF Callbacks, ProbeDone, PeekDone, TickleDone, ApprovalDone, AuthorizeDone, Serving
  <2> QED BY <2>1, <2>2 DEF ServeStep
<1>4. ASSUME NEW w \in work, w \in Work, NEW status, ThreadRuns(w, status) PROVE ServeStep
  <2>1. PICK n : n = [w EXCEPT !.status = status]
    OBVIOUS
  <2>2. n.op = w.op /\ n.disk = w.disk /\ n.req = w.req
    BY <1>4, <2>1 DEF Work
  <2>3. work' = (work \ {w}) \cup {n}
    BY <1>4, <2>1 DEF ThreadRuns
  <2> QED BY <2>2, <2>3 DEF ServeStep, Serving, Unmounting
<1>5. CASE Environment
  <2>1. ASSUME NEW w \in work, Serving(w) PROVE w \in work'
    <3>1. ASSUME NEW d, NEW verdict, NEW peeks, DiskDisappears(d, verdict, peeks)
          PROVE  w \in work'
      BY <2>1, <3>1 DEF DiskDisappears, Serving
    <3>2. ASSUME NEW d, NEW kind, NEW whole, NEW force, QueueRequest(d, kind, whole, force)
          PROVE  w \in work'
      BY <3>2 DEF QueueRequest, busyVars
    <3> QED BY <1>5, <3>1, <3>2 DEF Environment, DiskAppears, busyVars
  <2> QED BY <2>1 DEF ServeStep
<1>6. \A w \in work : w \in Work
  BY DEF Known, WorkTypes
<1> QED BY <1>1, <1>2, <1>3, <1>4, <1>5, <1>6 DEF Next, Threads

\* An unmount goes on until its callback.
UnmountStep ==
  \A w \in work :
    Unmounting(w) => \/ \E v \in work' : Unmounting(v) /\ v.disk = w.disk
                     \/ UnmountDone(w)

LEMMA StepUnmount ==
  ASSUME ServeStep PROVE UnmountStep
  BY DEF ServeStep, UnmountStep, Serving, Unmounting, EjectDone, MountDone

-----------------------------------------------------------------------------
(* The volumes that are marked dangling.                                   *)

\* The disk that left has the volume and its mount point, and is to be unmounted.
Undone(d) ==
  /\ content[d] = "volume" /\ d \in path
  /\ \/ \E r \in Queued : req[r].kind = "Unmount" /\ req[r].disk = d
     \/ \E w \in work : Unmounting(w) /\ w.disk = d
     \/ "Mount" \notin staged[d]
     \/ d \in Root

Dangles == \A v \in dangling : \E d \in zombie : volumeOf[d] = v /\ Undone(d)

\* What a step does to what is known of a disk that left.
ZombieStep ==
  \A d \in zombie :
    /\ content'[d] = content[d] \/ \E w \in work : w.op = "probe" /\ w.disk = d
    /\ d \in path => d \in path' \/ \E w \in work : UnmountDone(w) /\ w.disk = d
    /\ "Mount" \in staged'[d] => "Mount" \in staged[d]

LEMMA StepZombie ==
  ASSUME Orderly, Next PROVE ZombieStep
<1>0. /\ DiskTypes /\ list \in Seq(Disk) /\ RequestTypes /\ \A w \in work : w.disk \in Disk
      /\ Listed \cap zombie = {}
  BY DEF Orderly, RestTypes, Known, WorkTypes, Work, Places
<1>1. ASSUME UNCHANGED <<content, path, staged>> PROVE ZombieStep
  BY <1>1 DEF ZombieStep
<1>2. ASSUME UNCHANGED <<content, path>>, NEW d \in Disk \ zombie, NEW S,
             staged' = [staged EXCEPT ![d] = S]
      PROVE  ZombieStep
  BY <1>0, <1>2 DEF ZombieStep, DiskTypes
<1>3. CASE DispatchBegin \/ DispatchRequests \/ DispatchEnd
  BY <1>1, <1>3 DEF DispatchBegin, DispatchRequests, DispatchEnd, stageVars
<1>4. ASSUME NEW d \in Listed,
             \/ StageNothing(d) \/ StageProbe(d) \/ StageMountWaits(d) \/ StageAppear(d)
             \/ \E asked \in Asked : StagePeek(d, asked)
             \/ \E enabled \in AutoMount : StageMount(d, enabled)
      PROVE  ZombieStep
  <2>1. d \in Disk \ zombie
    BY <1>0 DEF Listed
  <2>2. UNCHANGED <<content, path>>
    BY <1>4 DEF StageNothing, StageProbe, StageMountWaits, StageAppear, StagePeek, StageMount,
                stageVars
  <2>3. staged' = staged \/ \E S : staged' = [staged EXCEPT ![d] = S]
    BY <1>4 DEF StageNothing, StageProbe, StageMountWaits, StageAppear, StagePeek, StageMount,
                stageVars
  <2> QED BY <1>1, <1>2, <2>1, <2>2, <2>3
<1>5. ASSUME NEW r \in Queued, MountReprobe(r) PROVE ZombieStep
  <2>1. staged' = [staged EXCEPT ![req[r].disk] = @ \ {"Probe"}] /\ UNCHANGED <<content, path>>
    BY <1>5 DEF MountReprobe
  <2> QED BY <1>0, <2>1 DEF ZombieStep, DiskTypes
<1>6. ASSUME NEW r \in Queued,
             \/ RequestWaits(r) \/ MountAuthorize(r) \/ \E asked \in Asked : RequestApprove(r, asked)
             \/ RequestRejected(r) \/ RequestRefused(r) \/ RequestStart(r)
      PROVE  ZombieStep
  BY <1>1, <1>6
     DEF RequestWaits, MountAuthorize, RequestApprove, RequestRejected, RequestRefused,
         RequestStart, stageVars
<1>7. ASSUME NEW w \in work, Callbacks(w) PROVE ZombieStep
  <2>1. ASSUME NEW result \in ProbeResult, ProbeDone(w, result) PROVE ZombieStep
    BY <1>0, <2>1 DEF ProbeDone, ZombieStep, DiskTypes
  <2>2. CASE MountDone(w)
    BY <2>2 DEF MountDone, ZombieStep
  <2>3. CASE UnmountDone(w)
    BY <2>3 DEF UnmountDone, ZombieStep
  <2> QED BY <1>1, <1>7, <2>1, <2>2, <2>3
          DEF Callbacks, PeekDone, TickleDone, ApprovalDone, AuthorizeDone, EjectDone, stageVars
<1>8. CASE Threads
  BY <1>1, <1>8 DEF Threads, ThreadRuns, stageVars
<1>9. ASSUME NEW d \in Disk, NEW late \in BOOLEAN, DiskAppears(d, late) PROVE ZombieStep
  <2>1. d \in Disk \ zombie /\ UNCHANGED <<content, path>>
        /\ staged' = [staged EXCEPT ![d] = IF late THEN {"Mount"} ELSE {}]
    BY <1>9 DEF DiskAppears
  <2> QED BY <1>2, <2>1
<1>10. ASSUME NEW d \in Listed, NEW verdict, NEW peeks, DiskDisappears(d, verdict, peeks)
       PROVE  ZombieStep
  <2>1. d \in Disk \ zombie
    BY <1>0 DEF Listed
  <2>2. UNCHANGED <<content, path>>
        /\ (staged' = staged \/ \E S : staged' = [staged EXCEPT ![d] = S])
    BY <1>10 DEF DiskDisappears
  <2> QED BY <1>1, <1>2, <2>1, <2>2
<1>11. ASSUME NEW d \in Listed, NEW kind, NEW whole, NEW force,
              QueueRequest(d, kind, whole, force)
       PROVE  ZombieStep
  BY <1>1, <1>11 DEF QueueRequest, stageVars
<1> QED BY <1>3, <1>4, <1>5, <1>6, <1>7, <1>8, <1>9, <1>10, <1>11 DEF Next, Walk, Environment

\* A volume comes to dangle with a disk that leaves and ceases to with an unmount.
DangleStep ==
  \A v \in dangling' :
    /\ \/ v \in dangling
       \/ \E d \in Listed, verdict \in Verdict, peeks \in BOOLEAN :
            DiskDisappears(d, verdict, peeks) /\ d \in path /\ v \in Described(d)
    /\ \A w \in work : UnmountDone(w) => v \notin Described(w.disk)

LEMMA StepDangle ==
  ASSUME Next PROVE DangleStep
<1>1. \A v \in dangling', w \in work : UnmountDone(w) => v \notin Described(w.disk)
  BY DEF UnmountDone, NotDangling
<1>2. ASSUME dangling' \subseteq dangling PROVE DangleStep
  BY <1>1, <1>2 DEF DangleStep
<1>3. CASE Walk
  BY <1>2, <1>3 DEF Walk, DispatchBegin, DispatchRequests, DispatchEnd, StageNothing, StageProbe,
     StageMountWaits, StageAppear, StagePeek, StageMount, RequestWaits, MountReprobe,
     RequestRejected, RequestApprove, MountAuthorize, RequestRefused, RequestStart, stageVars
<1>4. ASSUME NEW w \in work, Callbacks(w) PROVE dangling' \subseteq dangling
  BY <1>4 DEF Callbacks, ProbeDone, PeekDone, TickleDone, ApprovalDone, AuthorizeDone,
     EjectDone, MountDone, UnmountDone, NotDangling, stageVars
<1>5. Threads => dangling' = dangling
  BY DEF Threads, ThreadRuns, stageVars
<1>6. ASSUME NEW d \in Listed, NEW verdict \in Verdict, NEW peeks \in BOOLEAN,
             DiskDisappears(d, verdict, peeks)
      PROVE  DangleStep
  <2>1. dangling' = IF d \in path THEN dangling \cup Described(d) ELSE dangling
    BY <1>6 DEF DiskDisappears
  <2> QED BY <1>1, <1>6, <2>1 DEF DangleStep
<1>7. ASSUME NEW d, NEW late, DiskAppears(d, late) PROVE dangling' = dangling
  BY <1>7 DEF DiskAppears
<1>8. ASSUME NEW d, NEW kind, NEW whole, NEW force, QueueRequest(d, kind, whole, force)
      PROVE  dangling' = dangling
  BY <1>8 DEF QueueRequest, stageVars
<1> QED BY <1>2, <1>3, <1>4, <1>5, <1>6, <1>7, <1>8 DEF Next, Environment

\* An unmount that was to come has begun, or is still to come.
LEMMA UnmountStays ==
  ASSUME Known, Summary, QueueStep, NEW d \in zombie, content[d] = "volume", d \in path,
         NEW r \in Queued, req[r].kind = "Unmount", req[r].disk = d
  PROVE  \/ \E s \in Queued' : req'[s].kind = "Unmount" /\ req'[s].disk = d
         \/ \E w \in work' : Unmounting(w) /\ w.disk = d
         \/ d \in Root
<1>1. d \notin Listed /\ req[r].dissenter = "none"
  BY DEF Known, Places, Placed
<1>2. CASE r \in Queued'
  <2>1. r \in 1 .. Len(req)
    BY QueuedRequest DEF Known
  <2>2. Alike(req'[r], req[r])
    BY <2>1, StillAlike DEF Summary, Becoming
  <2> QED BY <1>2, <2>2 DEF Alike
<1>3. CASE r \notin Queued'
  <2>1. CASE RequestRejected(r)
    BY <2>1 DEF RequestRejected, Rejected
  <2>2. CASE RequestRefused(r)
    BY <1>1, <2>2 DEF RequestRefused
  <2>3. CASE Begin(CommandOf(r), req[r].disk, r)
    <3>1. PICK n : n = [op |-> "unmount", disk |-> d, req |-> r, status |-> "running"]
      OBVIOUS
    <3>2. CommandOf(r) = "unmount"
      BY DEF CommandOf
    <3>3. n \in work'
      BY <2>3, <3>1, <3>2 DEF Begin
    <3>4. Unmounting(n) /\ n.disk = d
      BY <3>1 DEF Unmounting
    <3> QED BY <3>3, <3>4
  <2> QED BY <1>1, <1>3, <2>1, <2>2, <2>3 DEF QueueStep
<1> QED BY <1>2, <1>3

LEMMA LeaverDangles ==
  ASSUME Known, NEW d \in Listed, NEW verdict \in Verdict, NEW peeks \in BOOLEAN,
         DiskDisappears(d, verdict, peeks), d \in path, NEW v \in Described(d)
  PROVE  d \in zombie' /\ volumeOf[d] = v /\ Undone(d)'
<1>1. content[d] = "volume" /\ v = volumeOf[d]
  BY DEF Described
<1>2. d \in zombie' /\ content' = content /\ path' = path
      /\ ("Mount" \notin staged[d] => staged' = staged)
  BY DEF DiskDisappears
<1>3. "Mount" \in staged[d] => \E k \in Queued' : req'[k].kind = "Unmount" /\ req'[k].disk = d
  BY DisappearsSummary DEF Forces
<1> QED BY <1>1, <1>2, <1>3 DEF Undone

LEMMA DanglesStay ==
  ASSUME Orderly, Probed, Dangles, Next PROVE Dangles'
<1>1. Known
  BY DEF Orderly
<1>2. /\ Summary /\ QueueStep /\ UnmountStep /\ ZombieStep /\ DangleStep
      /\ zombie \subseteq zombie'
  BY <1>1, StepSummary, StepQueue, StepServe, StepUnmount, StepZombie, StepDangle, StepList, ComersStay
<1>3. ASSUME NEW v \in dangling' PROVE \E d \in zombie' : volumeOf[d] = v /\ Undone(d)'
  <2>1. CASE v \in dangling
    <3>1. PICK d \in zombie : volumeOf[d] = v /\ Undone(d)
      BY <2>1 DEF Dangles
    <3>2. ASSUME NEW w \in work, UnmountDone(w), w.disk = d PROVE FALSE
      <4>1. v \in Described(d)
        BY <3>1 DEF Undone, Described
      <4> QED BY <1>2, <3>2, <4>1 DEF DangleStep
    <3>3. content'[d] = "volume"
      BY <1>2, <3>1 DEF ZombieStep, Undone, Probed
    <3>4. d \in path'
      BY <1>2, <3>1, <3>2 DEF ZombieStep, Undone
    <3>5. \/ \E r \in Queued' : req'[r].kind = "Unmount" /\ req'[r].disk = d
          \/ \E w \in work' : Unmounting(w) /\ w.disk = d
          \/ "Mount" \notin staged'[d]
          \/ d \in Root
      <4>1. ASSUME NEW r \in Queued, req[r].kind = "Unmount", req[r].disk = d PROVE <3>5
        BY <1>1, <1>2, <3>1, <4>1, UnmountStays DEF Undone
      <4>2. ASSUME NEW w \in work, Unmounting(w), w.disk = d PROVE <3>5
        BY <1>2, <3>2, <4>2 DEF UnmountStep
      <4>3. CASE "Mount" \notin staged[d]
        BY <1>2, <4>3 DEF ZombieStep
      <4> QED BY <3>1, <4>1, <4>2, <4>3 DEF Undone
    <3>6. Undone(d)'
      BY <3>3, <3>4, <3>5 DEF Undone, Unmounting
    <3> QED BY <1>2, <3>1, <3>6
  <2>2. ASSUME NEW d \in Listed, NEW verdict \in Verdict, NEW peeks \in BOOLEAN,
               DiskDisappears(d, verdict, peeks), d \in path, v \in Described(d)
        PROVE  \E e \in zombie' : volumeOf[e] = v /\ Undone(e)'
    BY <1>1, <2>2, LeaverDangles
  <2> QED BY <1>2, <2>1, <2>2 DEF DangleStep
<1> QED BY <1>3 DEF Dangles

-----------------------------------------------------------------------------
(* What the daemon knows when it says it is idle.                          *)

\* Nothing is to be done for the disk.
Rests(d) == d \notin active /\ (staged[d] = Stage \/ Described(d) \cap dangling # {})

\* The disks that the walk has passed.
Passed ==
  {list[j] : j \in {k \in DOMAIN list : k < cursor.i \/ cursor.phase = "requests"}}

\* A walk that has found nothing to do so far, and was not asked to look again.
Quiet ==
  /\ signalled \/ cursor.phase # "rest" => ~idle
  /\ cursor.phase # "rest" /\ cursor.quiet =>
        /\ ~signalled
        /\ cursor.phase = "requests" => requests = <<>>
        /\ \A d \in Passed : Rests(d)
  /\ IdleMeansSettled

LEMMA QuietNot ==
  ASSUME ~idle', cursor'.phase = "rest" \/ ~cursor'.quiet
  PROVE  Quiet'
  BY DEF Quiet, IdleMeansSettled

LEMMA CursorMoves ==
  ASSUME CursorTypes, NEW quiet \in BOOLEAN, NextDisk(quiet)
  PROVE  /\ cursor'.phase = cursor.phase /\ cursor'.i = cursor.i + 1
         /\ cursor'.quiet => cursor.quiet /\ quiet
<1>1. PICK b \in BOOLEAN : b = (cursor.quiet /\ quiet)
  OBVIOUS
<1>2. cursor' = [cursor EXCEPT !.i = @ + 1, !.quiet = b]
  BY <1>1 DEF NextDisk
<1> QED BY <1>1, <1>2 DEF CursorTypes

\* The walk goes past a disk for which there is nothing to do.
LEMMA PastDisk ==
  ASSUME CursorTypes, Quiet, list \in Seq(Disk), NEW d, Visiting(d), NEW quiet \in BOOLEAN,
         NextDisk(quiet), quiet => Rests(d), UNCHANGED <<stageVars, busyVars, loopVars>>
  PROVE  Quiet'
<1>1. /\ cursor'.phase = "disks" /\ cursor.phase = "disks" /\ cursor'.i = cursor.i + 1
      /\ cursor'.quiet => cursor.quiet /\ quiet
      /\ cursor.i \in DOMAIN list /\ d = list[cursor.i]
  BY CursorMoves DEF Visiting
<1>2. UNCHANGED <<list, staged, active, content, dangling, signalled, idle>>
  BY DEF stageVars, busyVars, loopVars
<1>3. ~idle' /\ (cursor.quiet => ~signalled')
  BY <1>1, <1>2 DEF Quiet
<1>4. ASSUME cursor'.quiet, NEW e \in Passed' PROVE Rests(e)
  <2>1. PICK j \in DOMAIN list : j < cursor'.i /\ e = list[j]
    BY <1>1, <1>2 DEF Passed
  <2>2. j \in Nat /\ cursor.i \in Nat
    BY <1>1
  <2>3. j < cursor.i \/ j = cursor.i
    BY <1>1, <2>1, <2>2
  <2> QED BY <1>1, <1>4, <2>1, <2>3 DEF Quiet, Passed
<1>5. \A e : Rests(e) => Rests(e)'
  BY <1>2 DEF Rests, Described
<1>6. cursor'.quiet => \A e \in Passed' : Rests(e)'
  BY <1>4, <1>5
<1> QED BY <1>1, <1>3, <1>6 DEF Quiet, IdleMeansSettled

\* Work that goes on, unless the unmount for which others wait has ended, leaves
\* everything settled.
LEMMA SettledStays ==
  ASSUME IdleMeansSettled,
         UNCHANGED <<list, zombie, requests, active, staged, content, idle>>,
         \A w \in work : \E u \in work' : u.disk = w.disk,
         idle => \A v \in dangling \ dangling' :
                    \E u \in work' : u.disk \in zombie /\ volumeOf[u.disk] = v
  PROVE  IdleMeansSettled'
<1> SUFFICES ASSUME idle PROVE IdleMeansSettled'
  BY DEF IdleMeansSettled
<1>1. Listed' = Listed /\ \A d : Described(d)' = Described(d)
  BY DEF Listed, Described
<1>2. ASSUME NEW d \in Listed
      PROVE  /\ d \notin active'
             /\ \/ staged'[d] = Stage
                \/ Described(d)' \cap dangling' # {}
                \/ \E w \in work' : w.disk \in zombie' /\ volumeOf[w.disk] \in Described(d)'
  <2>1. /\ d \notin active
        /\ \/ staged[d] = Stage
           \/ Described(d) \cap dangling # {}
           \/ \E w \in work : w.disk \in zombie /\ volumeOf[w.disk] \in Described(d)
    BY <1>2 DEF IdleMeansSettled
  <2> QED BY <1>1, <2>1
<1> QED BY <1>1, <1>2 DEF IdleMeansSettled

\* A callback, a thread or a client that does not signal the walk.
LEMMA GoesOn ==
  ASSUME Orderly, Quiet,
         UNCHANGED <<list, zombie, requests, active, staged, content, cursor, loopVars>>,
         \A w \in work : \E u \in work' : u.disk = w.disk,
         \/ dangling' = dangling
         \/ /\ Handler
            /\ \E w \in work : dangling' = dangling \ Described(w.disk)
  PROVE  Quiet'
<1>0. UNCHANGED <<signalled, idle>>
  BY DEF loopVars
<1>1. ASSUME idle, NEW v \in dangling \ dangling'
      PROVE  \E u \in work' : u.disk \in zombie /\ volumeOf[u.disk] = v
  <2>1. PICK w \in work : v \in Described(w.disk)
    BY <1>1
  <2>2. volumeOf[w.disk] = v
    BY <2>1 DEF Described
  <2>3. w.disk \in active
    BY DEF Orderly, Exclusive, OneOperationPerDisk
  <2>4. w.disk \in zombie
    BY <1>1, <2>3 DEF Quiet, IdleMeansSettled, Orderly, Known, Places
  <2> QED BY <2>2, <2>4
<1>2. IdleMeansSettled'
  BY <1>0, <1>1, SettledStays DEF Quiet
<1>3. ASSUME dangling' = dangling
      PROVE  \A d : Rests(d) => Rests(d)'
  BY <1>3 DEF Rests, Described
<1>4. cursor.phase = "rest" \/ dangling' = dangling
  BY DEF Handler
<1>5. cursor'.phase # "rest" /\ cursor'.quiet => \A d \in Passed' : Rests(d)'
  <2>0. Passed' = Passed
    BY DEF Passed
  <2>1. CASE cursor.phase = "rest"
    BY <2>1
  <2>2. CASE dangling' = dangling
    BY <1>3, <2>0, <2>2 DEF Quiet
  <2> QED BY <1>4, <2>1, <2>2
<1> QED BY <1>0, <1>2, <1>5 DEF Quiet

LEMMA DiskQuiet ==
  ASSUME Orderly, Quiet, NEW d \in Listed,
         \/ StageNothing(d) \/ StageProbe(d) \/ StageMountWaits(d) \/ StageAppear(d)
         \/ \E asked \in Asked : StagePeek(d, asked)
         \/ \E enabled \in AutoMount : StageMount(d, enabled)
  PROVE  Quiet'
<1>1. CursorTypes /\ list \in Seq(Disk)
  BY DEF Orderly, RestTypes, Known
<1>2. CASE StageNothing(d)
  <2>1. PICK quiet \in BOOLEAN : quiet = (d \notin active)
    OBVIOUS
  <2>2. Visiting(d) /\ NextDisk(quiet) /\ UNCHANGED <<stageVars, busyVars, loopVars>>
    BY <1>2, <2>1 DEF StageNothing
  <2>3. quiet => Rests(d)
    BY <1>2, <2>1 DEF StageNothing, Rests
  <2> QED BY <1>1, <2>2, <2>3, PastDisk
<1>3. CASE StageMountWaits(d)
  <2>1. PICK quiet \in BOOLEAN : quiet = HeldBack(d)
    BY DEF HeldBack
  <2>2. Visiting(d) /\ NextDisk(quiet) /\ UNCHANGED <<stageVars, busyVars, loopVars>>
    BY <1>3, <2>1 DEF StageMountWaits, AtMount
  <2>3. quiet => Rests(d)
    BY <1>3, <2>1 DEF StageMountWaits, AtMount, HeldBack, Rests
  <2> QED BY <1>1, <2>2, <2>3, PastDisk
<1>4. ASSUME NextDisk(FALSE), Visiting(d), UNCHANGED loopVars \/ Signal PROVE Quiet'
  <2>1. cursor.phase = "disks" /\ ~cursor'.quiet
    BY <1>1, <1>4, CursorMoves DEF Visiting
  <2>2. ~idle'
    BY <1>4, <2>1 DEF Quiet, Signal, loopVars
  <2> QED BY <2>1, <2>2, QuietNot
<1>5. ASSUME ~(StageNothing(d) \/ StageMountWaits(d))
      PROVE  NextDisk(FALSE) /\ Visiting(d) /\ (UNCHANGED loopVars \/ Signal)
  BY <1>5 DEF StageProbe, StageAppear, StagePeek, StageMount, AtMount
<1> QED BY <1>2, <1>3, <1>4, <1>5

LEMMA RequestQuiet ==
  ASSUME Orderly, Quiet, NEW r \in Queued,
         \/ RequestWaits(r) \/ MountReprobe(r) \/ MountAuthorize(r)
         \/ \E asked \in Asked : RequestApprove(r, asked)
         \/ RequestRejected(r) \/ RequestRefused(r) \/ RequestStart(r)
  PROVE  Quiet'
<1>1. Dispatching(r) /\ (Leave(r) \/ Take) /\ (UNCHANGED loopVars \/ Signal)
  BY DEF RequestWaits, MountReprobe, MountAuthorize, RequestApprove, RequestRejected,
         RequestRefused, RequestStart, Ready
<1>2. cursor.phase = "requests" /\ cursor.i \in DOMAIN requests
  BY <1>1 DEF Dispatching
<1>3. ~idle' /\ ~cursor.quiet
  BY <1>1, <1>2 DEF Quiet, Signal, loopVars
<1>4. cursor'.quiet = cursor.quiet
  BY <1>1 DEF Leave, Take, Orderly, RestTypes, CursorTypes
<1> QED BY <1>3, <1>4, QuietNot

LEMMA LoopQuiet ==
  ASSUME Orderly, Quiet, DispatchBegin \/ DispatchRequests \/ DispatchEnd
  PROVE  Quiet'
<1>0. CursorTypes /\ list \in Seq(Disk) /\ Len(list) \in Nat
  BY DEF Orderly, RestTypes, Known
<1>1. CASE DispatchBegin
  <2>1. cursor'.phase = "disks" /\ cursor'.i = 1 /\ ~signalled' /\ ~idle' /\ list' = list
    BY <1>1 DEF DispatchBegin, stageVars, Quiet
  <2>2. Passed' = {}
    BY <1>0, <2>1 DEF Passed
  <2> QED BY <2>1, <2>2 DEF Quiet, IdleMeansSettled
<1>2. CASE DispatchRequests
  <2>1. PICK b \in BOOLEAN : b = (cursor.quiet /\ requests = <<>>)
    OBVIOUS
  <2>2. cursor' = [cursor EXCEPT !.phase = "requests", !.i = 1, !.quiet = b]
    BY <1>2, <2>1 DEF DispatchRequests
  <2>3. cursor'.phase = "requests" /\ cursor'.quiet = b
    BY <1>0, <2>2 DEF CursorTypes
  <2>4. /\ UNCHANGED <<list, staged, active, content, dangling, signalled, idle, requests>>
        /\ cursor.phase = "disks" /\ cursor.i > Len(list)
    BY <1>2 DEF DispatchRequests, stageVars, busyVars, reqVars, loopVars
  <2>5. Passed' = Passed
    <3>1. DOMAIN list = 1 .. Len(list) /\ cursor.i \in Nat
      BY <1>0 DEF CursorTypes
    <3>2. \A k \in DOMAIN list : k < cursor.i
      BY <1>0, <2>4, <3>1
    <3> QED BY <2>3, <2>4, <3>2 DEF Passed
  <2>6. ~idle' /\ (cursor'.quiet => ~signalled' /\ requests' = <<>> /\ \A d \in Passed' : Rests(d)')
    BY <2>1, <2>3, <2>4, <2>5 DEF Quiet, Rests, Described
  <2> QED BY <2>3, <2>6 DEF Quiet, IdleMeansSettled
<1>3. CASE DispatchEnd
  <2>1. /\ UNCHANGED <<list, staged, active, content, dangling, signalled, requests>>
        /\ cursor.phase = "requests" /\ cursor'.phase = "rest" /\ idle' = (idle \/ cursor.quiet)
    BY <1>3 DEF DispatchEnd, stageVars, busyVars, reqVars, AtRest
  <2>2. ~idle
    BY <2>1 DEF Quiet
  <2>3. CASE ~cursor.quiet
    <3>1. ~idle'
      BY <2>1, <2>2, <2>3
    <3> QED BY <2>1, <3>1, QuietNot
  <2>4. CASE cursor.quiet
    <3>1. ~signalled' /\ requests' = <<>> /\ Passed = Listed /\ \A d \in Passed : Rests(d)
      BY <2>1, <2>4 DEF Quiet, Passed, Listed
    <3>2. Listed' = Listed
      BY <2>1 DEF Listed
    <3>3. IdleMeansSettled'
      BY <2>1, <3>1, <3>2 DEF IdleMeansSettled, Rests, Described
    <3> QED BY <2>1, <3>1, <3>3 DEF Quiet
  <2> QED BY <2>3, <2>4
<1> QED BY <1>1, <1>2, <1>3

LEMMA SignalQuiet ==
  ASSUME Handler, Signal PROVE Quiet'
<1>1. ~idle' /\ cursor'.phase = "rest"
  BY DEF Handler, Signal
<1> QED BY <1>1, QuietNot

LEMMA BecomesQuiet ==
  ASSUME Orderly, Quiet, NEW w \in work, NEW op, NEW status, Becomes(w, op, status), Handler,
         UNCHANGED <<list, zombie, requests, staged, content, loopVars>>,
         dangling' = dangling \/ dangling' = dangling \ Described(w.disk)
  PROVE  Quiet'
<1>1. PICK n : n = [op |-> op, disk |-> w.disk, req |-> w.req, status |-> status]
  OBVIOUS
<1>2. work' = (work \ {w}) \cup {n} /\ n.disk = w.disk /\ active' = active
  BY <1>1 DEF Becomes
<1>3. \A v \in work : \E u \in work' : u.disk = v.disk
  BY <1>2
<1>4. cursor' = cursor
  BY DEF Handler
<1> QED BY <1>2, <1>3, <1>4, GoesOn

LEMMA CallbackQuiet ==
  ASSUME Orderly, Quiet, NEW w \in work, Callbacks(w)
  PROVE  Quiet'
<1>1. Handler
  BY DEF Callbacks, ProbeDone, PeekDone, TickleDone, ApprovalDone, AuthorizeDone,
         EjectDone, MountDone, UnmountDone
<1>2. \/ Signal
      \/ (\E asked \in Asked : TickleDone(w, asked)) /\ ~Signal
      \/ EjectDone(w) /\ ~Signal
      \/ UnmountDone(w) /\ ~Signal
  BY DEF Callbacks, ProbeDone, PeekDone, ApprovalDone, AuthorizeDone, MountDone
<1>3. ASSUME NEW asked \in Asked, TickleDone(w, asked), ~Signal PROVE Quiet'
  <2>1. Becomes(w, "approval", "running")
        /\ UNCHANGED <<list, zombie, requests, staged, content, loopVars, dangling>>
    BY <1>3 DEF TickleDone, stageVars, reqVars
  <2> QED BY <1>1, <2>1, BecomesQuiet
<1>4. CASE EjectDone(w) /\ ~Signal
  <2>1. Becomes(w, "ejectPID", "failed")
        /\ UNCHANGED <<list, zombie, requests, staged, content, loopVars, dangling>>
    BY <1>4 DEF EjectDone, NotesFailure, stageVars
  <2> QED BY <1>1, <2>1, BecomesQuiet
<1>5. CASE UnmountDone(w) /\ ~Signal
  <2>1. Becomes(w, "unmountPID", "failed")
        /\ UNCHANGED <<list, zombie, requests, staged, content, loopVars>>
        /\ dangling' = dangling \ Described(w.disk)
    BY <1>5 DEF UnmountDone, NotesFailure, NotDangling
  <2> QED BY <1>1, <2>1, BecomesQuiet
<1> QED BY <1>1, <1>2, <1>3, <1>4, <1>5, SignalQuiet

LEMMA ThreadQuiet ==
  ASSUME Orderly, Quiet, NEW w \in work, NEW status, ThreadRuns(w, status)
  PROVE  Quiet'
<1>1. PICK n : n = [w EXCEPT !.status = status]
  OBVIOUS
<1>2. w \in Work
  BY DEF Orderly, Known, WorkTypes
<1>3. n.disk = w.disk /\ work' = (work \ {w}) \cup {n}
  BY <1>1, <1>2 DEF ThreadRuns, Work
<1>4. UNCHANGED <<list, zombie, requests, active, staged, content, cursor, loopVars, dangling>>
  BY DEF ThreadRuns, stageVars, reqVars
<1>5. \A v \in work : \E u \in work' : u.disk = v.disk
  BY <1>3
<1> QED BY <1>4, <1>5, GoesOn

LEMMA EnvironmentQuiet ==
  ASSUME Orderly, Quiet, Environment
  PROVE  Quiet'
<1>1. ASSUME NEW d, NEW late, DiskAppears(d, late) PROVE Handler /\ Signal
  BY <1>1 DEF DiskAppears
<1>2. ASSUME NEW d, NEW verdict, NEW peeks, DiskDisappears(d, verdict, peeks)
      PROVE  Handler /\ Signal
  BY <1>2 DEF DiskDisappears
<1>3. ASSUME NEW d, NEW kind, NEW whole, NEW force, QueueRequest(d, kind, whole, force)
      PROVE  Quiet'
  <2>1. Handler /\ UNCHANGED <<stageVars, busyVars>>
        /\ (Signal \/ UNCHANGED <<requests, loopVars>>)
    BY <1>3 DEF QueueRequest
  <2>2. CASE Signal
    BY <2>1, <2>2, SignalQuiet
  <2>3. CASE UNCHANGED <<requests, loopVars>>
    <3>1. UNCHANGED <<list, zombie, requests, active, staged, content, cursor, loopVars, dangling,
                      work>>
      BY <2>1, <2>3 DEF Handler, stageVars, busyVars
    <3> QED BY <3>1, GoesOn
  <2> QED BY <2>1, <2>2, <2>3
<1> QED BY <1>1, <1>2, <1>3, SignalQuiet DEF Environment

LEMMA QuietStays ==
  ASSUME Orderly, Quiet, Next PROVE Quiet'
<1>1. CASE Walk
  BY <1>1, LoopQuiet, DiskQuiet, RequestQuiet DEF Walk
<1> QED BY <1>1, CallbackQuiet, ThreadQuiet, EnvironmentQuiet DEF Next, Threads

-----------------------------------------------------------------------------
(* The results about the disks and the end of the work.                    *)
Settling == Probed /\ Dangles /\ Quiet

LEMMA InitSettling == Init => Settling
<1> SUFFICES ASSUME Init PROVE Settling
  OBVIOUS
<1>1. /\ list = <<>> /\ requests = <<>> /\ work = {} /\ path = {} /\ dangling = {}
      /\ cursor.phase = "rest" /\ signalled = FALSE
  BY DEF Init, AtRest
<1>2. Listed = {}
  BY <1>1 DEF Listed
<1> QED BY <1>1, <1>2 DEF Settling, Probed, Dangles, Quiet, IdleMeansSettled

LEMMA StutterSettling ==
  ASSUME Settling, UNCHANGED vars PROVE Settling'
<1>1. UNCHANGED <<list, zombie, staged, content, path, dangling, active, work, requests, req,
                  cursor, signalled, idle>>
  BY DEF vars, stageVars, busyVars, reqVars, loopVars
<1>2. Listed' = Listed /\ Queued' = Queued /\ Passed' = Passed
  BY <1>1 DEF Listed, Queued, Passed
<1>3. Probed'
  BY <1>1 DEF Settling, Probed
<1>4. Dangles'
  <2>1. \A d : Undone(d)' = Undone(d)
    BY <1>1, <1>2 DEF Undone, Unmounting
  <2> QED BY <1>1, <2>1 DEF Settling, Dangles
<1>5. Quiet'
  <2>1. \A d : Described(d)' = Described(d)
    BY <1>1 DEF Described
  <2>2. \A d : Rests(d)' = Rests(d)
    BY <1>1, <2>1 DEF Rests
  <2>3. IdleMeansSettled'
    BY <1>1, <1>2, <2>1 DEF Settling, Quiet, IdleMeansSettled
  <2> QED BY <1>1, <1>2, <2>2, <2>3 DEF Settling, Quiet
<1> QED BY <1>3, <1>4, <1>5 DEF Settling

\* Which disks are probed, what is to become of volumes that are held back, and
\* what the walk has found, on top of what OrderlyInvariance says.
THEOREM SettlingInvariance == Spec => []Settling
<1>1. Orderly /\ Settling /\ [Next]_vars => Settling'
  <2> SUFFICES ASSUME Orderly, Settling, [Next]_vars PROVE Settling'
    OBVIOUS
  <2>1. CASE Next
    <3>1. Probed /\ Dangles /\ Quiet
      BY DEF Settling
    <3> QED BY <2>1, <3>1, ProbedStays, DanglesStay, QuietStays DEF Settling
  <2>2. CASE UNCHANGED vars
    BY <2>2, StutterSettling
  <2> QED BY <2>1, <2>2
<1> QED BY <1>1, InitSettling, OrderlyInvariance, PTL DEF Spec

\* A volume is marked dangling only while the unmount of a disk that had it is to
\* come (DADiskDisappearedCallback, __DARequestUnmountCallback).
THEOREM DanglingVolumesAreUndone == Spec => []DanglingIsUndone
<1>1. Dangles => DanglingIsUndone
  BY DEF Dangles, Undone, DanglingIsUndone, Unmounting
<1> QED BY <1>1, SettlingInvariance, PTL DEF Settling

\* When the daemon says that it is idle nothing is left to do (the end of
\* __DAStageDispatch).
THEOREM IdleDaemonIsSettled == Spec => []IdleMeansSettled
<1> QED BY SettlingInvariance, PTL DEF Settling, Quiet

-----------------------------------------------------------------------------
(* What clients are told.                                                  *)

\* A disk is up only if it came to its mount stage.
Upright == \A d \in Disk : "Appear" \in staged[d] => "Mount" \in staged[d]

LEMMA UprightBut ==
  ASSUME DiskTypes, Upright, NEW d \in Disk, NEW S, staged' = [staged EXCEPT ![d] = S],
         "Appear" \in S => "Mount" \in S
  PROVE  Upright'
  BY DEF DiskTypes, Upright

LEMMA UprightSame == ASSUME Upright, staged' = staged PROVE Upright'
  BY DEF Upright

LEMMA UprightStays ==
  ASSUME Orderly, Upright, Next PROVE Upright'
<1>0. DiskTypes /\ list \in Seq(Disk) /\ RequestTypes /\ \A w \in work : w.disk \in Disk
  BY DEF Orderly, RestTypes, Known, WorkTypes, Work
<1>1. CASE DispatchBegin \/ DispatchRequests \/ DispatchEnd
  BY <1>1, UprightSame DEF DispatchBegin, DispatchRequests, DispatchEnd, stageVars
<1>2. ASSUME NEW d \in Listed,
             \/ StageNothing(d) \/ StageProbe(d) \/ StageMountWaits(d) \/ StageAppear(d)
             \/ \E asked \in Asked : StagePeek(d, asked)
             \/ \E enabled \in AutoMount : StageMount(d, enabled)
      PROVE  Upright'
  <2>1. d \in Disk /\ ("Appear" \in staged[d] => "Mount" \in staged[d])
    BY <1>0 DEF Listed, Upright
  <2>3. \/ staged' = staged
        \/ staged' = [staged EXCEPT ![d] = Stage]
        \/ \E s \in {"Probe", "Peek", "Mount"} : staged' = [staged EXCEPT ![d] = @ \cup {s}]
    BY <1>2 DEF StageNothing, StageProbe, StageMountWaits, StageAppear, StagePeek, StageMount,
                stageVars
  <2>4. ASSUME NEW s \in {"Probe", "Peek", "Mount"}, staged' = [staged EXCEPT ![d] = @ \cup {s}]
        PROVE  Upright'
    BY <1>0, <2>1, <2>4, UprightBut
  <2>5. ASSUME staged' = [staged EXCEPT ![d] = Stage] PROVE Upright'
    BY <1>0, <2>1, <2>5, UprightBut DEF Stage
  <2> QED BY <2>3, <2>4, <2>5, UprightSame
<1>3. ASSUME NEW r \in Queued, MountReprobe(r) PROVE Upright'
  <2>1. staged' = [staged EXCEPT ![req[r].disk] = @ \ {"Probe"}]
    BY <1>3 DEF MountReprobe
  <2>2. req[r].disk \in Disk
    BY <1>0, QueuedRequest, RequestFields
  <2>3. "Appear" \in staged[req[r].disk] => "Mount" \in staged[req[r].disk]
    BY <2>2 DEF Upright
  <2> QED BY <1>0, <2>1, <2>2, <2>3, UprightBut
<1>4. ASSUME NEW r \in Queued,
             \/ RequestWaits(r) \/ MountAuthorize(r) \/ \E asked \in Asked : RequestApprove(r, asked)
             \/ RequestRejected(r) \/ RequestRefused(r) \/ RequestStart(r)
      PROVE  Upright'
  BY <1>4, UprightSame
     DEF RequestWaits, MountAuthorize, RequestApprove, RequestRejected, RequestRefused,
         RequestStart, stageVars
<1>5. ASSUME NEW w \in work, Callbacks(w) PROVE Upright'
  BY <1>5, UprightSame DEF Callbacks, ProbeDone, PeekDone, TickleDone, ApprovalDone,
     AuthorizeDone, EjectDone, MountDone, UnmountDone, stageVars
<1>6. CASE Threads
  BY <1>6, UprightSame DEF Threads, ThreadRuns, stageVars
<1>7. ASSUME NEW d \in Disk, NEW late \in BOOLEAN, DiskAppears(d, late) PROVE Upright'
  <2>1. staged' = [staged EXCEPT ![d] = IF late THEN {"Mount"} ELSE {}]
    BY <1>7 DEF DiskAppears
  <2> QED BY <1>0, <2>1, UprightBut
<1>8. ASSUME NEW d \in Listed, NEW verdict, NEW peeks, DiskDisappears(d, verdict, peeks)
      PROVE  Upright'
  <2>1. d \in Disk
    BY <1>0 DEF Listed
  <2>2. \/ staged' = staged
        \/ "Mount" \in staged[d] /\ staged' = [staged EXCEPT ![d] = @ \cup {"Appear"}]
    BY <1>8 DEF DiskDisappears
  <2>3. ASSUME "Mount" \in staged[d], staged' = [staged EXCEPT ![d] = @ \cup {"Appear"}]
        PROVE  Upright'
    BY <1>0, <2>1, <2>3, UprightBut
  <2> QED BY <2>2, <2>3, UprightSame
<1>9. ASSUME NEW d \in Listed, NEW kind, NEW whole, NEW force,
             QueueRequest(d, kind, whole, force)
      PROVE  Upright'
  BY <1>9, UprightSame DEF QueueRequest, stageVars
<1> QED BY <1>1, <1>2, <1>3, <1>4, <1>5, <1>6, <1>7, <1>8, <1>9 DEF Next, Walk, Environment

LEMMA MountStays ==
  ASSUME StagedStep, NEW d \in Disk, d \in Listed \cup zombie, "Mount" \in staged[d]
  PROVE  "Mount" \in staged'[d]
  BY DEF StagedStep, Comers

\* What is on a disk is found by probing it.
ContentStep ==
  \A d \in Disk : content'[d] = content[d] \/ \E w \in work : w.op = "probe" /\ w.disk = d

LEMMA StepContent ==
  ASSUME Orderly, Next PROVE ContentStep
<1>1. ASSUME content' = content PROVE ContentStep
  BY <1>1 DEF ContentStep
<1>2. CASE Walk
  BY <1>1, <1>2 DEF Walk, DispatchBegin, DispatchRequests, DispatchEnd, StageNothing, StageProbe,
     StageMountWaits, StageAppear, StagePeek, StageMount, RequestWaits, MountReprobe,
     RequestRejected, RequestApprove, MountAuthorize, RequestRefused, RequestStart, stageVars
<1>3. ASSUME NEW w \in work, Callbacks(w) PROVE ContentStep
  <2>1. ASSUME NEW result \in ProbeResult, ProbeDone(w, result) PROVE ContentStep
    BY <2>1 DEF ProbeDone, ContentStep, Orderly, RestTypes, DiskTypes
  <2>2. PeekDone(w) \/ EjectDone(w) \/ MountDone(w) \/ UnmountDone(w) => content' = content
    BY DEF PeekDone, EjectDone, MountDone, UnmountDone, stageVars
  <2>3. ASSUME NEW x, TickleDone(w, x) \/ ApprovalDone(w, x) \/ AuthorizeDone(w, x)
        PROVE  content' = content
    BY <2>3 DEF TickleDone, ApprovalDone, AuthorizeDone, stageVars
  <2> QED BY <1>1, <1>3, <2>1, <2>2, <2>3 DEF Callbacks
<1>4. CASE Threads
  BY <1>1, <1>4 DEF Threads, ThreadRuns, stageVars
<1>5. Environment => content' = content
  <2>1. ASSUME NEW d, NEW late, DiskAppears(d, late) PROVE content' = content
    BY <2>1 DEF DiskAppears
  <2>2. ASSUME NEW d, NEW verdict, NEW peeks, DiskDisappears(d, verdict, peeks)
        PROVE  content' = content
    BY <2>2 DEF DiskDisappears
  <2>3. ASSUME NEW d, NEW kind, NEW whole, NEW force, QueueRequest(d, kind, whole, force)
        PROVE  content' = content
    BY <2>3 DEF QueueRequest, stageVars
  <2> QED BY <2>1, <2>2, <2>3 DEF Environment
<1> QED BY <1>1, <1>2, <1>3, <1>4, <1>5 DEF Next

\* A process that is in the way is looked for only after a failure.
Failing == \A w \in work : w.op \in {"ejectPID", "unmountPID"} => w.status = "failed"

LEMMA FailingBut ==
  ASSUME Failing, NEW n, work' \subseteq work \cup {n},
         n.op \in {"ejectPID", "unmountPID"} => n.status = "failed"
  PROVE  Failing'
  BY DEF Failing

LEMMA FailingKept == ASSUME Failing, work' \subseteq work PROVE Failing'
  BY DEF Failing

LEMMA FailingBegin ==
  ASSUME Failing, NEW op, NEW d, NEW r, Begin(op, d, r), op \notin {"ejectPID", "unmountPID"}
  PROVE  Failing'
<1>1. PICK n : n = [op |-> op, disk |-> d, req |-> r, status |-> "running"]
  OBVIOUS
<1>2. n.op = op
  BY <1>1
<1>3. work' \subseteq work \cup {n}
  BY <1>1 DEF Begin
<1> QED BY <1>2, <1>3, FailingBut

LEMMA FailingBecomes ==
  ASSUME Failing, NEW w, NEW op, NEW status, Becomes(w, op, status),
         op \in {"ejectPID", "unmountPID"} => status = "failed"
  PROVE  Failing'
<1>1. PICK n : n = [op |-> op, disk |-> w.disk, req |-> w.req, status |-> status]
  OBVIOUS
<1>2. n.op = op /\ n.status = status
  BY <1>1
<1>3. work' \subseteq work \cup {n}
  BY <1>1 DEF Becomes
<1> QED BY <1>2, <1>3, FailingBut

LEMMA FailingStays ==
  ASSUME Known, Failing, Next PROVE Failing'
<1>1. CASE DispatchBegin \/ DispatchRequests \/ DispatchEnd
  BY <1>1, FailingKept DEF DispatchBegin, DispatchRequests, DispatchEnd, busyVars
<1>2. ASSUME NEW d \in Listed,
             \/ StageNothing(d) \/ StageProbe(d) \/ StageMountWaits(d) \/ StageAppear(d)
             \/ \E asked \in Asked : StagePeek(d, asked)
             \/ \E enabled \in AutoMount : StageMount(d, enabled)
      PROVE  Failing'
  <2>1. UNCHANGED busyVars \/ Begin("probe", d, 0) \/ Begin("peek", d, 0)
    BY <1>2 DEF StageNothing, StageProbe, StageMountWaits, StageAppear, StagePeek, StageMount,
                busyVars
  <2> QED BY <2>1, FailingKept, FailingBegin DEF busyVars
<1>3. ASSUME NEW r \in Queued,
             \/ RequestWaits(r) \/ MountReprobe(r) \/ MountAuthorize(r)
             \/ \E asked \in Asked : RequestApprove(r, asked)
             \/ RequestRejected(r) \/ RequestRefused(r) \/ RequestStart(r)
      PROVE  Failing'
  <2>1. \/ UNCHANGED busyVars
        \/ \E op \in {"tickle", "approval", "authorize", CommandOf(r)} :
             Begin(op, req[r].disk, r)
    BY <1>3 DEF RequestWaits, MountReprobe, RequestRejected, RequestApprove, MountAuthorize,
                RequestRefused, RequestStart, busyVars
  <2>2. req[r].kind \in Kind
    BY QueuedRequest, RequestFields DEF Known, RequestTypes
  <2>3. CommandOf(r) \in {"eject", "mount", "unmount"}
    BY <2>2 DEF CommandOf, Kind
  <2> QED BY <2>1, <2>3, FailingKept, FailingBegin DEF busyVars
<1>4. ASSUME NEW w \in work, Callbacks(w) PROVE Failing'
  <2>1. \/ work' = work \ {w}
        \/ Becomes(w, "approval", "running")
        \/ \E op : Becomes(w, op, "failed")
    BY <1>4 DEF Callbacks, ProbeDone, PeekDone, TickleDone, ApprovalDone, AuthorizeDone,
       EjectDone, MountDone, UnmountDone, NotesFailure, End
  <2> QED BY <2>1, FailingKept, FailingBecomes
<1>5. ASSUME NEW w \in work, NEW status, ThreadRuns(w, status) PROVE Failing'
  <2>1. PICK n : n = [w EXCEPT !.status = status]
    OBVIOUS
  <2>2. w \in Work
    BY DEF Known, WorkTypes
  <2>3. n.op = w.op /\ w.op \in {"eject", "mount", "unmount"}
    BY <1>5, <2>1, <2>2 DEF Work, ThreadRuns
  <2>4. work' \subseteq work \cup {n}
    BY <1>5, <2>1 DEF ThreadRuns
  <2> QED BY <2>3, <2>4, FailingBut
<1>6. CASE Environment
  BY <1>6, Outside, FailingKept
<1>7. Walk => Failing'
  BY <1>1, <1>2, <1>3 DEF Walk
<1> QED BY <1>4, <1>5, <1>6, <1>7 DEF Next, Threads

(* The daemon's descriptions and the kernel's mount table.                 *)

\* The system calls that have changed the mount table and not called back.
Over == {w \in work : w.op \in {"mount", "unmount"} /\ w.status = "done"}

\* What the daemon describes is mounted, and the reverse, but for such a call, and for
\* what was mounted before the daemon came.
Real ==
  /\ \A w \in Over : w.op = "mount" <=> w.disk \in mounted
  /\ \A d \in path \ mounted : \E w \in Over : w.disk = d /\ w.op = "unmount"
  /\ \A d \in mounted \ (path \cup PreMounted) : \E w \in Over : w.disk = d /\ w.op = "mount"

LEMMA RealKept ==
  ASSUME Real, UNCHANGED <<path, mounted>>, Over' = Over PROVE Real'
  BY DEF Real

LEMMA OverBegin ==
  ASSUME NEW op, NEW d, NEW r, Begin(op, d, r) PROVE Over' = Over
<1>1. PICK n : n = [op |-> op, disk |-> d, req |-> r, status |-> "running"]
  OBVIOUS
<1>2. work' = work \cup {n} /\ n.status = "running"
  BY <1>1 DEF Begin
<1> QED BY <1>2 DEF Over

LEMMA OverEnd ==
  ASSUME NEW w \in work, w \notin Over, End(w) PROVE Over' = Over
  BY DEF Over, End

LEMMA OverBecomes ==
  ASSUME NEW w \in work, w \notin Over, NEW op, NEW status \in {"running", "failed"},
         Becomes(w, op, status)
  PROVE  Over' = Over
<1>1. PICK n : n = [op |-> op, disk |-> w.disk, req |-> w.req, status |-> status]
  OBVIOUS
<1>2. work' = (work \ {w}) \cup {n} /\ n.status = status
  BY <1>1 DEF Becomes
<1> QED BY <1>2 DEF Over

\* The volume is mounted, or unmounted.
LEMMA ThreadReal ==
  ASSUME Known, OneOperationPerDisk, Real, NEW w \in work, NEW status \in {"done", "failed"},
         ThreadRuns(w, status)
  PROVE  Real'
<1>0. PICK d : d = w.disk
  OBVIOUS
<1>1. PICK n : n = [w EXCEPT !.status = status]
  OBVIOUS
<1>2. w \in Work
  BY DEF Known, WorkTypes
<1>3. n.op = w.op /\ n.disk = d /\ n.status = status
  BY <1>0, <1>1, <1>2 DEF Work
<1>4. /\ work' = (work \ {w}) \cup {n} /\ path' = path /\ w.status = "running"
      /\ w.op \in {"eject", "mount", "unmount"}
  BY <1>1 DEF ThreadRuns, stageVars
<1>5. \A v \in Over : v.disk # d
  BY <1>0, <1>4 DEF Over, OneOperationPerDisk
<1>6. CASE status = "failed" \/ w.op = "eject"
  <2>1. mounted' = mounted
    BY <1>6 DEF ThreadRuns
  <2>2. Over' = Over
    BY <1>3, <1>4, <1>6 DEF Over
  <2> QED BY <1>4, <2>1, <2>2, RealKept
<1>7. CASE status = "done" /\ w.op = "mount"
  <2>1. mounted' = mounted \cup {d}
    BY <1>0, <1>7 DEF ThreadRuns
  <2>2. Over' = Over \cup {n}
    BY <1>3, <1>4, <1>7 DEF Over
  <2> QED BY <1>3, <1>4, <1>5, <1>7, <2>1, <2>2 DEF Real
<1>8. CASE status = "done" /\ w.op = "unmount"
  <2>1. mounted' = mounted \ {d}
    BY <1>0, <1>8 DEF ThreadRuns
  <2>2. Over' = Over \cup {n}
    BY <1>3, <1>4, <1>8 DEF Over
  <2> QED BY <1>3, <1>4, <1>5, <1>8, <2>1, <2>2 DEF Real
<1> QED BY <1>4, <1>6, <1>7, <1>8

\* A command or a probe calls back.
LEMMA CallbackReal ==
  ASSUME Known, OneOperationPerDisk, Failing, Real, NEW w \in work, Callbacks(w)
  PROVE  Real'
<1>0. PICK d : d = w.disk
  OBVIOUS
<1>1. \A v \in Over : v.disk = d => v = w
  BY <1>0 DEF Over, OneOperationPerDisk
<1>2. w \in Over => w.op \in {"mount", "unmount"} /\ w.status = "done"
  BY DEF Over
<1>3. ASSUME NEW result \in ProbeResult, ProbeDone(w, result) PROVE Real'
  <2>1. /\ w.op = "probe" /\ mounted' = mounted /\ End(w)
        /\ path' = path \/ (path' = path \cup {d} /\ d \in mounted)
    BY <1>0, <1>3 DEF ProbeDone
  <2>2. Over' = Over
    BY <1>2, <2>1, OverEnd
  <2> QED BY <2>1, <2>2 DEF Real
<1>4. ASSUME PeekDone(w) \/ EjectDone(w) PROVE Real'
  <2>1. UNCHANGED <<path, mounted>> /\ w \notin Over
    BY <1>2, <1>4 DEF PeekDone, EjectDone, stageVars
  <2>2. End(w) \/ Becomes(w, "ejectPID", "failed")
    BY <1>4 DEF PeekDone, EjectDone, NotesFailure
  <2> QED BY <2>1, <2>2, OverEnd, OverBecomes, RealKept
<1>5. ASSUME NEW x, TickleDone(w, x) \/ ApprovalDone(w, x) \/ AuthorizeDone(w, x) PROVE Real'
  <2>1. UNCHANGED <<path, mounted>> /\ w \notin Over
    BY <1>2, <1>5 DEF TickleDone, ApprovalDone, AuthorizeDone, stageVars
  <2>2. End(w) \/ Becomes(w, "approval", "running")
    BY <1>5 DEF TickleDone, ApprovalDone, AuthorizeDone
  <2> QED BY <2>1, <2>2, OverEnd, OverBecomes, RealKept
<1>6. CASE MountDone(w)
  <2>1. mounted' = mounted /\ End(w) /\ w.op = "mount"
    BY <1>6 DEF MountDone
  <2>2. CASE w.status = "done"
    <3>1. path' = path \cup {d} /\ w \in Over
      BY <1>0, <1>6, <2>1, <2>2 DEF MountDone, Over
    <3>2. Over' = Over \ {w}
      BY <2>1 DEF Over, End
    <3>3. d \in mounted
      BY <1>0, <2>1, <3>1 DEF Real
    <3> QED BY <1>0, <2>1, <3>1, <3>2, <3>3 DEF Real
  <2>3. CASE w.status # "done"
    <3>1. path' = path /\ w \notin Over
      BY <1>2, <1>6, <2>3 DEF MountDone
    <3> QED BY <2>1, <3>1, OverEnd, RealKept
  <2> QED BY <2>2, <2>3
<1>7. CASE UnmountDone(w)
  <2>1. mounted' = mounted /\ w.op \in {"unmount", "unmountPID"}
    BY <1>7 DEF UnmountDone
  <2>2. PICK success \in BOOLEAN : success = (w.status = "done" \/ d \notin mounted)
    OBVIOUS
  <2>3. CASE success
    <3>1. path' = path \ {d} /\ End(w)
      BY <1>0, <1>7, <2>2, <2>3 DEF UnmountDone
    <3>2. d \notin mounted
      <4>1. w.status = "done" => w \in Over /\ w.op = "unmount"
        BY <2>1 DEF Failing, Over
      <4> QED BY <1>0, <2>2, <2>3, <4>1 DEF Real
    <3>3. Over' = Over \ {w}
      BY <3>1 DEF Over, End
    <3> QED BY <1>0, <2>1, <3>1, <3>2, <3>3 DEF Real
  <2>4. CASE ~success
    <3>1. path' = path /\ (End(w) \/ Becomes(w, "unmountPID", "failed"))
      BY <1>0, <1>7, <2>2, <2>4 DEF UnmountDone, NotesFailure
    <3>2. w \notin Over
      BY <1>2, <2>2, <2>4
    <3> QED BY <2>1, <3>1, <3>2, OverEnd, OverBecomes, RealKept
  <2> QED BY <2>3, <2>4
<1> QED BY <1>3, <1>4, <1>5, <1>6, <1>7 DEF Callbacks

LEMMA RealStays ==
  ASSUME Known, OneOperationPerDisk, Failing, Real, Next PROVE Real'
<1>1. CASE DispatchBegin \/ DispatchRequests \/ DispatchEnd
  BY <1>1, RealKept DEF DispatchBegin, DispatchRequests, DispatchEnd, stageVars, busyVars, Over
<1>2. ASSUME NEW d \in Listed,
             \/ StageNothing(d) \/ StageProbe(d) \/ StageMountWaits(d) \/ StageAppear(d)
             \/ \E asked \in Asked : StagePeek(d, asked)
             \/ \E enabled \in AutoMount : StageMount(d, enabled)
      PROVE  Real'
  <2>1. /\ UNCHANGED <<path, mounted>>
        /\ UNCHANGED busyVars \/ Begin("probe", d, 0) \/ Begin("peek", d, 0)
    BY <1>2 DEF StageNothing, StageProbe, StageMountWaits, StageAppear, StagePeek, StageMount,
                stageVars, busyVars
  <2>2. Over' = Over
    BY <2>1, OverBegin DEF busyVars, Over
  <2> QED BY <2>1, <2>2, RealKept
<1>3. ASSUME NEW r \in Queued,
             \/ RequestWaits(r) \/ MountReprobe(r) \/ MountAuthorize(r)
             \/ \E asked \in Asked : RequestApprove(r, asked)
             \/ RequestRejected(r) \/ RequestRefused(r) \/ RequestStart(r)
      PROVE  Real'
  <2>1. /\ UNCHANGED <<path, mounted>>
        /\ UNCHANGED busyVars \/ \E op : Begin(op, req[r].disk, r)
    BY <1>3 DEF RequestWaits, MountReprobe, RequestRejected, RequestApprove, MountAuthorize,
                RequestRefused, RequestStart, stageVars, busyVars
  <2>2. Over' = Over
    BY <2>1, OverBegin DEF busyVars, Over
  <2> QED BY <2>1, <2>2, RealKept
<1>4. CASE Environment
  <2>1. ASSUME NEW d, NEW verdict, NEW peeks, DiskDisappears(d, verdict, peeks)
        PROVE  Over' = Over /\ UNCHANGED <<path, mounted>>
    BY <2>1 DEF DiskDisappears, Over
  <2>2. ASSUME NEW d, NEW late, DiskAppears(d, late)
        PROVE  Over' = Over /\ UNCHANGED <<path, mounted>>
    BY <2>2 DEF DiskAppears, busyVars, Over
  <2>3. ASSUME NEW d, NEW kind, NEW whole, NEW force, QueueRequest(d, kind, whole, force)
        PROVE  Over' = Over /\ UNCHANGED <<path, mounted>>
    BY <2>3 DEF QueueRequest, stageVars, busyVars, Over
  <2> QED BY <1>4, <2>1, <2>2, <2>3, RealKept DEF Environment
<1>5. CASE Walk
  BY <1>1, <1>2, <1>3, <1>5 DEF Walk
<1> QED BY <1>4, <1>5, CallbackReal, ThreadReal DEF Next, Threads

\* What is mounted stays so unless a thread unmounts it.
KernelStep ==
  \A d \in mounted : d \in mounted' \/ \E w \in work : w.op = "unmount" /\ w.disk = d

LEMMA StepKernel ==
  ASSUME Next PROVE KernelStep
<1>1. ASSUME NEW w \in work, NEW status, ThreadRuns(w, status) PROVE KernelStep
  BY <1>1 DEF ThreadRuns, KernelStep
<1>2. Walk => mounted' = mounted
  BY DEF Walk, DispatchBegin, DispatchRequests, DispatchEnd, StageNothing, StageProbe,
         StageMountWaits, StageAppear, StagePeek, StageMount, RequestWaits, MountReprobe,
         RequestRejected, RequestApprove, MountAuthorize, RequestRefused, RequestStart
<1>3. ASSUME NEW w \in work, Callbacks(w) PROVE mounted' = mounted
  BY <1>3 DEF Callbacks, ProbeDone, PeekDone, TickleDone, ApprovalDone, AuthorizeDone,
         EjectDone, MountDone, UnmountDone
<1>4. Environment => mounted' = mounted
  BY DEF Environment, DiskAppears, DiskDisappears, QueueRequest
<1> QED BY <1>1, <1>2, <1>3, <1>4 DEF Next, Threads, KernelStep

\* A command is of the request's kind, for a disk that came to its mount stage.
Fitting(w) ==
  /\ Unmounting(w) <=> req[w.req].kind = "Unmount"
  /\ w.op = "mount" <=> req[w.req].kind = "Mount"
  /\ "Mount" \in staged[w.disk]

Fits == \A w \in work : Serving(w) => Fitting(w)

LEMMA FitsStays ==
  ASSUME Orderly, Upright, Fits, Summary, WorkStep, StagedStep
  PROVE  Fits'
<1>1. Known
  BY DEF Orderly
<1>2. PICK A, J, S : Moves(A, J, S)
  BY DEF Summary
<1>3. DOMAIN req = 1 .. Len(req)
  BY <1>1 DEF Known, RequestTypes
<1>4. \A r \in DOMAIN req : req'[r].kind = req[r].kind
  BY <1>1, <1>2, <1>3, StillAlike DEF Becoming, Alike
<1>5. ASSUME NEW w \in work', Serving(w)
      PROVE  Fitting(w)'
  <2>1. ASSUME NEW v \in work, Continues(w, v) PROVE Fitting(w)'
    <3>1. /\ Serving(v) /\ w.disk = v.disk /\ w.req = v.req
          /\ (Unmounting(v) <=> Unmounting(w)) /\ (v.op = "mount" <=> w.op = "mount")
      BY <1>5, <2>1 DEF Continues, Serving, Consulting, Unmounting
    <3>2. v.req \in DOMAIN req /\ v.disk \in Disk /\ v.disk \in Listed \cup zombie
      <4>1. ~(v.op \in {"probe", "peek"})
        BY <3>1 DEF Serving
      <4>2. v.disk \in Listed \cup zombie
        BY <1>1 DEF Known, Places
      <4> QED BY <1>1, <4>1, <4>2, WorkTyped
    <3>4. Fitting(v)
      BY <3>1 DEF Fits
    <3>5. "Mount" \in staged[v.disk]
      BY <3>4 DEF Fitting
    <3>3. "Mount" \in staged'[v.disk]
      BY <3>2, <3>5, MountStays
    <3> QED BY <1>4, <3>1, <3>2, <3>3, <3>4 DEF Fitting, Unmounting
  <2>2. ASSUME Starts(w) PROVE Fitting(w)'
    <3>1. w.req \in Queued /\ req[w.req].disk = w.disk /\ RequestStart(w.req)
          /\ w.op = CommandOf(w.req)
      BY <1>5, <2>2 DEF Starts, Serving, Consulting
    <3>2. w.req \in DOMAIN req /\ req[w.req] \in Request
      BY <1>1, <3>1, QueuedRequest DEF Known, RequestTypes
    <3>3. w.disk \in Disk /\ req[w.req].kind \in Kind
      BY <3>1, <3>2, RequestFields
    <3>4. "Mount" \in staged[w.disk]
      BY <3>1, <3>3 DEF RequestStart, Ready, Upright
    <3>5. w.disk \in Listed \cup zombie
      BY <1>1, <3>1 DEF Known, Places, Placed
    <3>6. "Mount" \in staged'[w.disk]
      BY <3>3, <3>4, <3>5, MountStays
    <3> QED BY <1>4, <3>1, <3>2, <3>3, <3>6 DEF Fitting, CommandOf, Kind, Unmounting
  <2> QED BY <2>1, <2>2 DEF WorkStep
<1> QED BY <1>5 DEF Fits, Serving

\* Clients are asked about a request that is queued, unless the disk has left.
Asks == \A w \in work : Consulting(w) => w.req \in Queued \/ w.disk \in zombie

LEMMA AsksStays ==
  ASSUME Orderly, Asks, WorkStep, QueueStep, ListStep
  PROVE  Asks'
<1>1. Known /\ OneOperationPerDisk
  BY DEF Orderly, Exclusive
<1>2. zombie \subseteq zombie' /\ Listed \cup zombie \subseteq Listed' \cup zombie'
  BY <1>1, ComersStay
<1>3. ASSUME NEW w \in work', Consulting(w) PROVE w.req \in Queued' \/ w.disk \in zombie'
  <2>1. ASSUME NEW v \in work, Continues(w, v), v.disk \notin zombie, v.req \notin Queued'
        PROVE  w.disk \in zombie'
    <3>1. Consulting(v) /\ w.disk = v.disk
      BY <1>3, <2>1 DEF Continues, Consulting, Serving
    <3>2. v.req \in Queued \ Queued'
      BY <2>1, <3>1 DEF Asks
    <3>3. req[v.req].disk = v.disk /\ v.disk \in active
      <4>1. ~(v.op \in {"probe", "peek"})
        BY <3>1 DEF Consulting
      <4>2. v.disk \in active
        BY <1>1 DEF OneOperationPerDisk
      <4> QED BY <1>1, <4>1, <4>2, WorkTyped
    <3>4. ~Ready(v.req)
      BY <3>3 DEF Ready
    <3>5. req[v.req].disk \in Listed /\ req[v.req].disk \notin Listed'
      BY <3>2, <3>4 DEF QueueStep, RequestRejected, RequestRefused, RequestStart
    <3> QED BY <1>2, <3>1, <3>3, <3>5
  <2>2. ASSUME NEW v \in work, Continues(w, v), v.disk \in zombie PROVE w.disk \in zombie'
    BY <1>2, <2>2 DEF Continues
  <2>3. ASSUME NEW v \in work, Continues(w, v), v.req \in Queued' PROVE w.req \in Queued'
    BY <2>3 DEF Continues
  <2>4. ASSUME Starts(w) PROVE w.req \in Queued'
    BY <1>3, <2>4 DEF Starts, Consulting, Serving
  <2> QED BY <2>1, <2>2, <2>3, <2>4 DEF WorkStep
<1> QED BY <1>3 DEF Asks, Consulting

(* The parts of the unmount of a unit are over before it.                  *)

\* A request that is waiting or being served.
Alive(r) == r \in Queued \/ \E w \in work : Serving(w) /\ w.req = r

LEMMA AliveKnown ==
  ASSUME Known, NEW r, Alive(r)
  PROVE  r \in DOMAIN req
<1>1. r \in Queued => r \in DOMAIN req
  BY QueuedRequest DEF Known
<1>2. ASSUME NEW w \in work, Serving(w), w.req = r PROVE r \in DOMAIN req
  <2>1. ~(w.op \in {"probe", "peek"})
    BY <1>2 DEF Serving
  <2> QED BY <1>2, <2>1, WorkTyped
<1> QED BY <1>1, <1>2 DEF Alive

LEMMA AliveBefore ==
  ASSUME Known, Summary, WorkStep, NEW r, Alive(r)', ~Alive(r)
  PROVE  /\ r \notin DOMAIN req /\ r \in Queued'
         /\ req'[r].link \subseteq Queued'
<1>1. PICK A, J, S : Moves(A, J, S)
  BY DEF Summary
<1>2. ASSUME NEW w \in work', Serving(w), w.req = r PROVE FALSE
  <2>1. ASSUME NEW v \in work, Continues(w, v) PROVE FALSE
    BY <1>2, <2>1 DEF Continues, Serving, Consulting, Alive
  <2>2. ~Starts(w)
    BY <1>2 DEF Starts, Serving, Consulting, Alive
  <2> QED BY <2>1, <2>2 DEF WorkStep
<1>3. r \in Queued' \ Queued
  BY <1>2 DEF Alive, Serving
<1>4. DOMAIN req = 1 .. Len(req) /\ Len(req) \in Nat
  BY DEF Known, RequestTypes
<1> QED BY <1>1, <1>3, <1>4 DEF Moves

\* What a request is for never changes.
LEMMA SameRequest ==
  ASSUME Known, Summary, NEW r \in DOMAIN req
  PROVE  Alike(req'[r], req[r])
<1>1. PICK A, J, S : Moves(A, J, S)
  BY DEF Summary
<1>2. DOMAIN req = 1 .. Len(req)
  BY DEF Known, RequestTypes
<1> QED BY <1>1, <1>2, StillAlike DEF Becoming

LEMMA LinkOf ==
  ASSUME Known, NEW r \in DOMAIN req, NEW s \in req[r].link
  PROVE  /\ r \in Nat /\ s \in Nat /\ s < r /\ s \in DOMAIN req
         /\ req[s].kind = req[r].kind /\ unitOf[req[s].disk] = unitOf[req[r].disk]
         /\ ~req[s].automatic /\ req[s].disk # req[r].disk
         /\ \A m \in Nat : s <= m /\ m < r => m \in req[r].link
         /\ req[r].whole /\ req[s].disk \in Disk /\ req[r].disk \in Disk
<1>1. DOMAIN req = 1 .. Len(req) /\ Len(req) \in Nat /\ req \in Seq(Request)
  BY DEF Known, RequestTypes
<1>2. Shaped(req, r)
  BY DEF Known, Serves, RequestShape
<1>3. s \in 1 .. r - 1 /\ s .. r - 1 \subseteq req[r].link /\ req[r].whole
  BY <1>2 DEF Shaped
<1>4. r \in Nat /\ s \in Nat /\ s < r /\ s \in DOMAIN req
  BY <1>1, <1>3
<1>5. \A m \in Nat : s <= m /\ m < r => m \in req[r].link
  BY <1>3, <1>4
<1>6. req[s] \in Request /\ req[r] \in Request
  BY <1>1, <1>4
<1>7. /\ req[s].kind = req[r].kind /\ unitOf[req[s].disk] = unitOf[req[r].disk]
      /\ ~req[s].automatic /\ req[s].disk # req[r].disk
  BY <1>2 DEF Shaped
<1> QED BY <1>3, <1>4, <1>5, <1>6, <1>7, RequestFields

\* Of what was queued before a request for a unit, for a disk whose part is over,
\* nothing is left but other parts.
Cleared(r) ==
  \A s \in req[r].link \ Queued :
    req[s].disk \notin zombie =>
      \A m \in Queued : m < r /\ req[m].disk = req[s].disk => m \in req[r].link

NoneBefore == \A r \in DOMAIN req : Alive(r) => Cleared(r)

LEMMA NoneBeforeStays ==
  ASSUME Orderly, NoneBefore, Summary, WorkStep, QueueStep, ListStep
  PROVE  NoneBefore'
<1>1. Known /\ Kept /\ cursor.i \in Nat
  BY DEF Orderly, RestTypes, CursorTypes
<1>2. PICK A, J, S : Moves(A, J, S)
  BY DEF Summary
<1>3. DOMAIN req = 1 .. Len(req) /\ Len(req) \in Nat /\ \A m \in Queued : m \in DOMAIN req
  BY <1>1, QueuedRequest DEF Known, RequestTypes
<1>4. zombie \subseteq zombie' /\ Listed \cup zombie \subseteq Listed' \cup zombie'
  BY <1>1, ComersStay
<1>5. \A m \in DOMAIN req : Alike(req'[m], req[m])
  BY <1>1, <1>2, <1>3, StillAlike DEF Becoming
<1>6. \A m \in Queued' : m \in Queued \/ \A k \in DOMAIN req : ~(m < k)
  <2>1. ASSUME NEW m \in Queued', m \notin Queued PROVE \A k \in DOMAIN req : ~(m < k)
    <3>1. m \in Len(req) + 1 .. Len(req')
      BY <1>2, <2>1 DEF Moves
    <3> QED BY <1>3, <3>1
  <2> QED BY <2>1
<1>7. ASSUME NEW r \in DOMAIN req, Alive(r)',
             NEW s \in req[r].link, s \notin Queued', req[s].disk \notin zombie',
             NEW m \in Queued, m < r, req[m].disk = req[s].disk, m \notin req[r].link
      PROVE  FALSE
  <2>1. Alive(r)
    BY <1>1, <1>7, AliveBefore
  <2>2. /\ r \in Nat /\ s \in Nat /\ s < r /\ s \in DOMAIN req
        /\ \A k \in Nat : s <= k /\ k < r => k \in req[r].link
    BY <1>1, <1>7, LinkOf
  <2>3. CASE s \notin Queued
    <3>1. req[s].disk \notin zombie
      BY <1>4, <1>7
    <3> QED BY <1>7, <2>1, <2>3, <3>1 DEF NoneBefore, Cleared
  <2>4. CASE s \in Queued
    <3>1. m \in Nat
      BY <1>3
    <3>2. m < s
      BY <1>7, <2>2, <3>1
    <3>3. CASE Ready(s)
      <4>1. Dispatching(s)
        BY <3>3 DEF Ready
      <4>2. Involved(m) \cap Involved(s) = {}
        BY <1>1, <2>4, <3>2, <3>3, <4>1, EarlierApart
      <4> QED BY <1>7, <4>2 DEF Involved
    <3>4. CASE req[s].disk \in Listed /\ req[s].disk \notin Listed'
      BY <1>4, <1>7, <3>4
    <3> QED BY <1>7, <2>4, <3>3, <3>4
            DEF QueueStep, RequestRejected, RequestRefused, RequestStart
  <2> QED BY <2>3, <2>4
<1>8. ASSUME NEW r \in DOMAIN req', Alive(r)' PROVE Cleared(r)'
  <2>1. CASE r \in DOMAIN req
    <3>1. Alike(req'[r], req[r]) /\ req'[r].link = req[r].link
      BY <1>5, <1>8, <2>1 DEF Alike
    <3>2. ASSUME NEW s \in req[r].link, s \notin Queued', req'[s].disk \notin zombie',
                 NEW m \in Queued', m < r, req'[m].disk = req'[s].disk, m \notin req[r].link
          PROVE  FALSE
      <4>1. s \in DOMAIN req /\ r \in Nat
        BY <1>1, <2>1, LinkOf
      <4>2. m \in Queued
        BY <1>6, <2>1, <3>2
      <4>3. Alike(req'[s], req[s]) /\ Alike(req'[m], req[m])
        BY <1>3, <1>5, <4>1, <4>2
      <4> QED BY <1>7, <1>8, <2>1, <3>1, <3>2, <4>2, <4>3 DEF Alike
    <3> QED BY <3>1, <3>2 DEF Cleared
  <2>2. CASE r \notin DOMAIN req
    <3>1. ~Alive(r)
      BY <1>1, <2>2, AliveKnown
    <3>2. req'[r].link \subseteq Queued'
      BY <1>1, <1>8, <3>1, AliveBefore
    <3> QED BY <3>2 DEF Cleared
  <2> QED BY <2>1, <2>2
<1> QED BY <1>8 DEF NoneBefore, Alive, Serving

\* The part of an unmount that is over was refused, or its disk has left, or has
\* no mount point (unless probing did not recognise it) and is not being mounted.
Free(d) ==
  /\ d \in Listed /\ "Mount" \in staged[d]
  /\ d \in path => content[d] = "none"
  /\ \A w \in work : w.disk = d => w.op # "mount"

Done(s) == req[s].dissenter # "none" \/ req[s].disk \in zombie \/ Free(req[s].disk)

PartsDone ==
  \A r \in DOMAIN req :
    req[r].kind = "Unmount" /\ Alive(r) => \A s \in req[r].link : ~Alive(s) => Done(s)

\* What is over stays refused.
LEMMA DissentStays ==
  ASSUME Orderly, Asks, Fits, Summary, NEW s \in DOMAIN req, ~Alive(s),
         req[s].dissenter # "none"
  PROVE  req'[s].dissenter # "none" \/ req[s].disk \in zombie
<1>1. Known
  BY DEF Orderly
<1>2. PICK A, J, S : Moves(A, J, S) /\ Spoils(J)
  BY DEF Summary
<1>3. DOMAIN req = 1 .. Len(req)
  BY <1>1 DEF Known, RequestTypes
<1>4. CASE s \notin J
  <2>1. Becoming(req'[s], req[s], s, A, J, S)
    BY <1>1, <1>2, <1>3, StillAlike
  <2> QED BY <1>4, <2>1 DEF Becoming
<1>5. CASE s \in J
  <2>1. s \notin Queued
    BY DEF Alive
  <2>2. PICK w \in work : w.req = s
    BY <1>2, <1>5, <2>1 DEF Spoils
  <2>3. ~Serving(w)
    BY <2>2 DEF Alive
  <2>4. ~(w.op \in {"probe", "peek"})
    <3>1. s # 0
      BY <1>3
    <3> QED BY <1>1, <2>2, <3>1 DEF Known, Serves, WorkOf
  <2>5. Consulting(w)
    <3>1. w.op \in Op
      BY <1>1 DEF Known, WorkTypes, Work
    <3> QED BY <2>3, <2>4, <3>1 DEF Op, Command, Serving, Consulting
  <2>6. w.disk \in zombie
    BY <2>1, <2>2, <2>5 DEF Asks
  <2>7. req[s].disk = w.disk
    BY <1>1, <2>2, <2>4, WorkTyped
  <2> QED BY <2>6, <2>7
<1> QED BY <1>4, <1>5

\* A disk of the unit that has no mount point gets none before the request is over.
LEMMA FreeStays ==
  ASSUME Orderly, Probed, Fits, NoneBefore, Summary, WorkStep, PathStep, StagedStep, ContentStep,
         ListStep, NEW r \in DOMAIN req, req[r].kind = "Unmount", Alive(r),
         NEW s \in req[r].link, s \notin Queued, Free(req[s].disk)
  PROVE  req[s].disk \in zombie' \/ Free(req[s].disk)'
<1>0. PICK d : d = req[s].disk
  OBVIOUS
<1>1. Known /\ Ordered /\ OneCommandPerUnit /\ Listed \cap zombie = {}
  BY DEF Orderly, Exclusive, Known, Places
<1>2. /\ r \in Nat /\ s < r /\ d \in Disk /\ unitOf[d] = unitOf[req[r].disk]
      /\ s \in DOMAIN req
  BY <1>0, <1>1, LinkOf
<1>3. Free(d) /\ d = req[s].disk
  BY <1>0
<1>4. d \in zombie' \/ d \in Listed'
  BY <1>1, <1>3, ComersStay DEF Free
<1>5. "Mount" \in staged'[d]
  BY <1>2, <1>3, MountStays DEF Free
<1>6. d \in path' => content'[d] = "none"
  <2>1. ASSUME d \in path' PROVE d \in path
    BY <1>3, <2>1 DEF PathStep, Free
  <2>2. d \in path => content'[d] = content[d]
    BY <1>2 DEF ContentStep, Probed
  <2> QED BY <1>3, <2>1, <2>2 DEF Free
<1>7. ASSUME NEW w \in work', w.disk = d, w.op = "mount" PROVE FALSE
  <2>1. ASSUME NEW v \in work, Continues(w, v) PROVE FALSE
    BY <1>3, <1>7, <2>1 DEF Continues, Serving, Consulting, Free
  <2>2. ASSUME Starts(w) PROVE FALSE
    <3>1. PICK m : m = w.req /\ m \in Queued
      BY <1>7, <2>2 DEF Starts, Serving, Consulting
    <3>2. /\ req[m].disk = d /\ RequestStart(m) /\ "mount" = CommandOf(m)
          /\ Queued' = Queued \ {m}
      BY <1>7, <2>2, <3>1 DEF Starts, Serving, Consulting
    <3>3. m \in DOMAIN req /\ req[m].kind \in Kind /\ m \in Nat
      BY <1>1, <3>1, QueuedRequest, RequestFields DEF Known, RequestTypes
    <3>4. req[m].kind = "Mount"
      BY <3>2, <3>3 DEF CommandOf, Kind
    <3>5. d \notin zombie
      BY <1>1, <1>3 DEF Free
    <3>6. CASE r \in Queued
      <4>1. r < m
        <5>1. r # m
          BY <3>4
        <5>2. ~(m < r)
          <6>1. m \in req[r].link => req[m].kind = "Unmount"
            BY <1>1, LinkOf
          <6> QED BY <1>3, <3>1, <3>2, <3>4, <3>5, <6>1 DEF NoneBefore, Cleared
        <5> QED BY <1>2, <3>3, <5>1, <5>2
      <4>2. d \in Involved(r) /\ d \in Involved(m)
        BY <1>3, <3>2 DEF Involved
      <4>3. ~req[m].approved
        BY <1>1, <3>1, <3>6, <4>1, <4>2 DEF Ordered
      <4> QED BY <3>2, <3>4, <4>3 DEF RequestStart, Approved
    <3>7. ASSUME NEW v \in work, Serving(v), v.req = r PROVE FALSE
      <4>1. v.disk = req[r].disk /\ v.op \in Command
        BY <1>1, <3>7 DEF Known, Serves, WorkOf, Serving, Command
      <4>2. UnitBusy(d)
        BY <1>1, <1>2, <4>1 DEF OneCommandPerUnit, UnitBusy
      <4>3. Leave(m)
        BY <3>2, <4>2 DEF RequestStart
      <4>4. Queued' = Queued
        BY <4>3 DEF Leave, Queued
      <4> QED BY <3>1, <3>2, <4>4
    <3> QED BY <3>6, <3>7 DEF Alive
  <2> QED BY <2>1, <2>2 DEF WorkStep
<1>8. d \in Listed' => Free(d)'
  BY <1>5, <1>6, <1>7 DEF Free
<1>9. req'[s].disk = d
  BY <1>0, <1>1, <1>2, SameRequest DEF Alike
<1> QED BY <1>3, <1>4, <1>8, <1>9

LEMMA AnsweredKeeps ==
  ASSUME NEW q \in Seq(Request), NEW R, NEW success \in BOOLEAN, NEW s \in 1 .. Len(q)
  PROVE  Answered(q, R, success)[s].dissenter = q[s].dissenter
<1>1. PICK p : p = Answered(q, R, success)
  OBVIOUS
<1>2. Comes(p, q, R, {}, {})
  BY <1>1, AnsweredComes
<1>3. Becoming(p[s], q[s], s, R, {}, {})
  BY <1>2 DEF Comes
<1> QED BY <1>1, <1>3 DEF Becoming

LEMMA RejectedDone ==
  ASSUME Orderly, Upright, NEW s \in Queued, RequestRejected(s), req[s].kind = "Unmount",
         Alike(req'[s], req[s])
  PROVE  Done(s)'
<1>0. PICK d : d = req[s].disk
  OBVIOUS
<1>1. Known /\ OneOperationPerDisk /\ req \in Seq(Request) /\ req'[s].disk = d
  BY <1>0 DEF Orderly, Exclusive, Known, RequestTypes, Alike
<1>2. s \in 1 .. Len(req) /\ s \in DOMAIN req /\ req[s] \in Request /\ d \in Disk
  BY <1>0, <1>1, QueuedRequest, RequestFields DEF Known
<1>3. d \in Listed \/ d \in zombie
  BY <1>0, <1>1 DEF Known, Places, Placed
<1>4. UNCHANGED <<list, zombie, staged, content, path, work>> /\ d \notin active
      /\ "Appear" \in staged[d]
  BY <1>0 DEF RequestRejected, Ready, stageVars, busyVars
<1>5. "Mount" \in staged[d] /\ \A w \in work : w.disk # d
  BY <1>1, <1>2, <1>4 DEF Upright, OneOperationPerDisk
<1>6. CASE d \in Root \cap path
  <2>1. PICK q : q = [req EXCEPT ![s].dissenter = "dissent"]
    OBVIOUS
  <2>2. req' = Answered(q, {s}, FALSE)
    BY <1>0, <1>6, <2>1 DEF RequestRejected
  <2>3. Comes(q, req, {}, {s}, {}) /\ q[s].dissenter = "dissent"
    <3>1. "dissent" \in Dissent
      BY DEF Dissent
    <3>2. Comes(q, req, {}, {s}, {})
      BY <1>1, <2>1, <3>1, DissentComes
    <3> QED BY <1>2, <2>1, <3>2 DEF Request
  <2>4. q \in Seq(Request) /\ s \in 1 .. Len(q)
    BY <1>2, <2>3 DEF Comes
  <2>5. req'[s].dissenter = "dissent"
    BY <2>2, <2>3, <2>4, AnsweredKeeps
  <2> QED BY <2>5 DEF Done
<1>7. CASE d \notin Root \cap path
  <2>1. d \in path => content[d] = "none"
    BY <1>0, <1>7 DEF RequestRejected, Rejected
  <2>2. d \in Listed => Free(d)'
    BY <1>4, <1>5, <2>1 DEF Free, Listed
  <2> QED BY <1>1, <1>3, <1>4, <2>2 DEF Done
<1> QED BY <1>6, <1>7

LEMMA RefusedDone ==
  ASSUME Orderly, NEW s \in Queued, RequestRefused(s)
  PROVE  Done(s)'
<1>1. req \in Seq(Request) /\ s \in 1 .. Len(req)
  BY QueuedRequest DEF Orderly, Known, RequestTypes
<1>2. req' = Answered(req, {s}, FALSE) /\ req[s].dissenter # "none"
  BY DEF RequestRefused
<1>3. req'[s].dissenter # "none"
  BY <1>1, <1>2, AnsweredKeeps
<1> QED BY <1>3 DEF Done

LEMMA UnmountedDone ==
  ASSUME Orderly, Fits, NEW w \in work, UnmountDone(w), NEW s, s = w.req, ~Alive(s)',
         Alike(req'[s], req[s])
  PROVE  Done(s)'
<1>0. PICK d : d = w.disk
  OBVIOUS
<1>1. Known /\ OneOperationPerDisk /\ req \in Seq(Request)
  BY DEF Orderly, Exclusive, Known, RequestTypes
<1>2. Serving(w) /\ s \in 1 .. Len(req) /\ req[s].disk = d /\ d \in Listed \cup zombie
  <2>1. Serving(w) /\ ~(w.op \in {"probe", "peek"})
    BY DEF UnmountDone, Serving
  <2>2. w.req \in DOMAIN req /\ req[w.req].disk = w.disk
    BY <1>1, <2>1, WorkTyped
  <2>3. d \in Listed \cup zombie
    BY <1>0, <1>1 DEF Known, Places
  <2> QED BY <1>0, <1>1, <2>1, <2>2, <2>3
<1>3. ~NotesFailure(w, "unmountPID")
  <2>1. PICK n : n = [op |-> "unmountPID", disk |-> w.disk, req |-> w.req, status |-> "failed"]
    OBVIOUS
  <2>2. n.op = "unmountPID" /\ n.req = s
    BY <2>1
  <2>3. NotesFailure(w, "unmountPID") => n \in work'
    BY <2>1 DEF NotesFailure, Becomes
  <2> QED BY <2>2, <2>3 DEF Alive, Serving
<1>4. PICK success \in BOOLEAN : success = (w.status = "done" \/ d \notin mounted)
  OBVIOUS
<1>5. /\ success \/ req[s].dissenter # "none"
      /\ path' = IF success THEN path \ {d} ELSE path
      /\ req' = Answered(req, {s}, success)
      /\ work' = work \ {w} /\ UNCHANGED <<list, zombie, staged>>
  BY <1>0, <1>3, <1>4 DEF UnmountDone, End
<1>6. CASE req[s].dissenter # "none"
  <2>1. req'[s].dissenter # "none"
    BY <1>1, <1>2, <1>5, <1>6, AnsweredKeeps
  <2> QED BY <2>1 DEF Done
<1>7. CASE success
  <2>1. \A v \in work' : v.disk # d
    BY <1>0, <1>1, <1>5 DEF OneOperationPerDisk
  <2>2. "Mount" \in staged'[d]
    <3>1. Fitting(w)
      BY <1>2 DEF Fits
    <3> QED BY <1>0, <1>5, <3>1 DEF Fitting
  <2>3. d \in Listed => Free(d)'
    BY <1>5, <1>7, <2>1, <2>2 DEF Free, Listed
  <2>4. req'[s].disk = d
    BY <1>2 DEF Alike
  <2> QED BY <1>2, <1>5, <2>3, <2>4 DEF Done
<1> QED BY <1>5, <1>6, <1>7

\* A part that comes to its end.
LEMMA PartEnds ==
  ASSUME Orderly, Upright, Fits, Summary, QueueStep, ListStep, ServeStep,
         NEW s \in DOMAIN req, req[s].kind = "Unmount", Alive(s), ~Alive(s)'
  PROVE  Done(s)'
<1>1. Known /\ Alike(req'[s], req[s])
  BY SameRequest DEF Orderly
<1>2. CASE s \in Queued
  <2>1. s \in Queued \ Queued'
    BY <1>2 DEF Alive
  <2>2. ASSUME Begin(CommandOf(s), req[s].disk, s) PROVE FALSE
    <3>1. PICK n : n = [op |-> CommandOf(s), disk |-> req[s].disk, req |-> s,
                        status |-> "running"]
      OBVIOUS
    <3>2. n \in work' /\ n.req = s /\ n.op = CommandOf(s)
      BY <2>2, <3>1 DEF Begin
    <3>3. CommandOf(s) = "unmount"
      BY DEF CommandOf
    <3> QED BY <3>2, <3>3 DEF Alive, Serving
  <2>3. CASE req[s].disk \in Listed /\ req[s].disk \notin Listed'
    <3>1. req[s].disk \in zombie'
      BY <1>1, <2>3, ComersStay
    <3> QED BY <1>1, <3>1 DEF Done, Alike
  <2> QED BY <1>1, <1>2, <2>1, <2>2, <2>3, RejectedDone, RefusedDone DEF QueueStep
<1>3. ASSUME NEW w \in work, Serving(w), w.req = s PROVE Done(s)'
  <2>1. ~ \E v \in work' : Serving(v) /\ v.req = s
    BY DEF Alive, Serving
  <2>2. Fitting(w)
    BY <1>3 DEF Fits
  <2>3. UnmountDone(w)
    BY <1>3, <2>1, <2>2 DEF ServeStep, Fitting, Unmounting, EjectDone, MountDone
  <2> QED BY <1>1, <1>3, <2>3, UnmountedDone
<1> QED BY <1>2, <1>3 DEF Alive

LEMMA PartsDoneStays ==
  ASSUME Orderly, Probed, Upright, Asks, Fits, NoneBefore, PartsDone, Next
  PROVE  PartsDone'
<1>1. Known
  BY DEF Orderly
<1>2. /\ Summary /\ WorkStep /\ QueueStep /\ ListStep /\ ServeStep /\ PathStep /\ StagedStep
      /\ ContentStep
  BY <1>1, StepSummary, StepWork, StepQueue, StepList, StepServe, StepPath, StepStaged, StepContent
<1>3. zombie \subseteq zombie'
  BY <1>1, <1>2, ComersStay
<1>4. ASSUME NEW r \in DOMAIN req, req[r].kind = "Unmount", Alive(r)',
             NEW s \in req[r].link, ~Alive(s)'
      PROVE  Done(s)'
  <2>1. s \in DOMAIN req /\ req[s].kind = "Unmount"
    BY <1>1, <1>4, LinkOf
  <2>2. Alike(req'[s], req[s])
    BY <1>1, <1>2, <2>1, SameRequest
  <2>3. Alive(r)
    BY <1>1, <1>2, <1>4, AliveBefore
  <2>4. CASE Alive(s)
    BY <1>2, <1>4, <2>1, <2>4, PartEnds
  <2>5. CASE ~Alive(s)
    <3>1. Done(s)
      BY <1>4, <2>3, <2>5 DEF PartsDone
    <3>2. CASE req[s].dissenter # "none"
      <4>1. req'[s].dissenter # "none" \/ req[s].disk \in zombie
        BY <1>2, <2>1, <2>5, <3>2, DissentStays
      <4> QED BY <1>3, <2>2, <4>1 DEF Done, Alike
    <3>3. CASE req[s].disk \in zombie
      BY <1>3, <2>2, <3>3 DEF Done, Alike
    <3>4. CASE Free(req[s].disk)
      <4>1. s \notin Queued
        BY <2>5 DEF Alive
      <4>2. req[s].disk \in zombie' \/ Free(req[s].disk)'
        BY <1>2, <1>4, <2>3, <3>4, <4>1, FreeStays
      <4> QED BY <2>2, <4>2 DEF Done, Alike
    <3> QED BY <3>1, <3>2, <3>3, <3>4 DEF Done
  <2> QED BY <2>4, <2>5
<1>5. ASSUME NEW r \in DOMAIN req', req'[r].kind = "Unmount", Alive(r)',
             NEW s \in req'[r].link, ~Alive(s)'
      PROVE  Done(s)'
  <2>1. CASE r \in DOMAIN req
    <3>1. Alike(req'[r], req[r])
      BY <1>1, <1>2, <2>1, SameRequest
    <3> QED BY <1>4, <1>5, <2>1, <3>1 DEF Alike
  <2>2. CASE r \notin DOMAIN req
    <3>1. ~Alive(r)
      BY <1>1, <2>2, AliveKnown
    <3>2. s \in Queued'
      BY <1>1, <1>2, <1>5, <3>1, AliveBefore
    <3> QED BY <1>5, <3>2 DEF Alive
  <2> QED BY <2>1, <2>2
<1> QED BY <1>5 DEF PartsDone

(* The parts of the mount of a unit are over before it.                    *)

\* The part of a mount that is over was refused, or its disk has left, or is mounted
\* and not being unmounted, or has no volume and is not being probed anew.
Held(d, r) ==
  /\ d \in Listed
  /\ \/ d \in mounted /\ \A w \in work : w.disk = d => ~Unmounting(w)
     \/ /\ content[d] = "none" /\ \A w \in work : w.disk = d => w.op # "probe"
        /\ r \in Queued => "Probe" \in staged[d]

\* A part for the disk that is not over, or was refused.
Open(r, d) ==
  \E t \in req[r].link : req[t].disk = d /\ (Alive(t) \/ req[t].dissenter # "none")

MountsDone ==
  \A r \in DOMAIN req :
    req[r].kind = "Mount" /\ Alive(r) =>
      \A s \in req[r].link : \/ Open(r, req[s].disk) \/ req[s].disk \in zombie
                             \/ Held(req[s].disk, r)

\* Nothing is started on a disk of a unit while the unit's request is being served.
LEMMA ServedApart ==
  ASSUME Known, OneCommandPerUnit, NEW r \in DOMAIN req, NEW v \in work, Serving(v), v.req = r,
         NEW d, unitOf[d] = unitOf[req[r].disk]
  PROVE  UnitBusy(d)
<1>1. v.disk = req[r].disk /\ v.op \in Command
  BY DEF Known, Serves, WorkOf, Serving, Command
<1> QED BY <1>1 DEF OneCommandPerUnit, UnitBusy

\* An unmount of a disk of the unit waits for the request.
LEMMA NoUnmountStarts ==
  ASSUME Orderly, NoneBefore, NEW r \in DOMAIN req, req[r].kind = "Mount", Alive(r),
         NEW s \in req[r].link, s \notin Queued, req[s].disk \in Listed,
         NEW w \in work', Starts(w), w.disk = req[s].disk
  PROVE  ~Unmounting(w)
<1>0. PICK d : d = req[s].disk
  OBVIOUS
<1>1. Known /\ Ordered /\ OneCommandPerUnit /\ d \in Listed /\ d \notin zombie
  BY <1>0 DEF Orderly, Exclusive, Known, Places
<1>2. r \in Nat /\ unitOf[d] = unitOf[req[r].disk]
  BY <1>0, <1>1, LinkOf
<1> SUFFICES ASSUME Unmounting(w) PROVE FALSE
  OBVIOUS
<1>3. PICK m : m = w.req /\ m \in Queued
  BY DEF Starts, Serving, Consulting, Unmounting
<1>4. /\ req[m].disk = d /\ RequestStart(m) /\ w.op = CommandOf(m) /\ Queued' = Queued \ {m}
  BY <1>0, <1>3 DEF Starts, Serving, Consulting, Unmounting
<1>5. m \in DOMAIN req /\ req[m].kind \in Kind /\ m \in Nat
  BY <1>1, <1>3, QueuedRequest, RequestFields DEF Known, RequestTypes
<1>6. req[m].kind = "Unmount"
  BY <1>4, <1>5 DEF CommandOf, Kind, Unmounting
<1>7. CASE r \in Queued
  <2>1. ~(m < r)
    <3>1. m \in req[r].link => req[m].kind = "Mount"
      BY <1>1, LinkOf
    <3> QED BY <1>0, <1>1, <1>3, <1>4, <1>6, <3>1 DEF NoneBefore, Cleared
  <2>2. r < m
    <3>1. r # m
      BY <1>6
    <3> QED BY <1>2, <1>5, <2>1, <3>1
  <2>3. d \in Involved(r) /\ d \in Involved(m)
    BY <1>0, <1>4 DEF Involved
  <2>4. ~req[m].approved
    BY <1>1, <1>3, <1>7, <2>2, <2>3 DEF Ordered
  <2> QED BY <1>1, <1>4, <2>4 DEF RequestStart, Approved
<1>8. ASSUME NEW v \in work, Serving(v), v.req = r PROVE FALSE
  <2>1. UnitBusy(d)
    BY <1>1, <1>2, <1>8, ServedApart
  <2>2. Leave(m)
    BY <1>4, <2>1 DEF RequestStart
  <2>3. Queued' = Queued
    BY <2>2 DEF Leave, Queued
  <2> QED BY <1>3, <1>4, <2>3
<1> QED BY <1>7, <1>8 DEF Alive

\* A disk of the unit that is mounted stays mounted until the request is over, and
\* what has no volume is not probed anew, unless for another part.
LEMMA HeldStays ==
  ASSUME Orderly, NoneBefore, Summary, WorkStep, StagedStep, ContentStep, ListStep, KernelStep,
         NEW r \in DOMAIN req, req[r].kind = "Mount", Alive(r),
         NEW s \in req[r].link, s \notin Queued, NEW d, d = req[s].disk, Held(d, r)
  PROVE  \/ d \in zombie' \/ Held(d, r)'
         \/ \E m \in req[r].link : m \in Queued /\ m \in Queued' /\ req[m].disk = d
<1>0. d = req[s].disk
  OBVIOUS
<1>1. /\ Known /\ Kept /\ cursor.i \in Nat /\ OneCommandPerUnit /\ d \in Listed
      /\ d \notin zombie /\ Held(d, r)
  BY <1>0 DEF Orderly, Exclusive, Known, Places, RestTypes, CursorTypes, Held
<1>2. r \in Nat /\ d \in Disk /\ unitOf[d] = unitOf[req[r].disk] /\ d # req[r].disk
  BY <1>0, <1>1, LinkOf
<1>3. d \in zombie' \/ d \in Listed'
  BY <1>1, ComersStay
<1>5. CASE d \in mounted /\ \A w \in work : w.disk = d => ~Unmounting(w)
  <2>1. d \in mounted'
    BY <1>5 DEF KernelStep, Unmounting
  <2>2. ASSUME NEW w \in work', w.disk = d PROVE ~Unmounting(w)
    <3>1. ASSUME NEW v \in work, Continues(w, v) PROVE ~Unmounting(w)
      BY <1>5, <2>2, <3>1 DEF Continues, Serving, Consulting, Unmounting
    <3>2. Starts(w) => ~Unmounting(w)
      BY <1>0, <1>1, <2>2, NoUnmountStarts
    <3> QED BY <3>1, <3>2 DEF WorkStep
  <2> QED BY <1>3, <2>1, <2>2 DEF Held, Unmounting
<1>6. CASE /\ content[d] = "none" /\ \A w \in work : w.disk = d => w.op # "probe"
           /\ r \in Queued => "Probe" \in staged[d]
  <2>1. content'[d] = "none"
    BY <1>2, <1>6 DEF ContentStep
  <2>2. ASSUME NEW w \in work', w.disk = d, w.op = "probe" PROVE FALSE
    <3>1. ASSUME NEW v \in work, Continues(w, v) PROVE FALSE
      BY <1>6, <2>2, <3>1 DEF Continues, Serving, Consulting
    <3>2. ASSUME Starts(w) PROVE FALSE
      <4>1. StageProbe(d) /\ ~UnitBusy(d)
        BY <2>2, <3>2 DEF Starts, Serving, Consulting
      <4>2. r \notin Queued
        BY <1>6, <4>1 DEF StageProbe
      <4> QED BY <1>1, <1>2, <4>1, <4>2, ServedApart DEF Alive
    <3> QED BY <3>1, <3>2 DEF WorkStep
  <2>3. r \in Queued' => r \in Queued
    <3>1. PICK A, J, S : Moves(A, J, S)
      BY DEF Summary
    <3>2. r \in 1 .. Len(req) /\ Len(req) \in Nat
      BY <1>1 DEF Known, RequestTypes
    <3> QED BY <3>1, <3>2 DEF Moves
  <2>4. CASE r \in Queued' => "Probe" \in staged'[d]
    BY <1>3, <2>1, <2>2, <2>4 DEF Held
  <2>5. CASE r \in Queued /\ "Probe" \notin staged'[d]
    <3>1. PICK m \in Queued : MountReprobe(m) /\ req[m].disk = d
      BY <1>1, <1>2, <1>6, <2>5 DEF StagedStep, Comers
    <3>2. m \in Nat /\ Ready(m) /\ Dispatching(m) /\ m \in Queued'
      <4>1. m \in Nat
        BY <1>1, <3>1, QueuedRequest DEF Known, RequestTypes
      <4>2. Ready(m) /\ Leave(m)
        BY <3>1 DEF MountReprobe
      <4> QED BY <3>1, <4>1, <4>2 DEF Ready, Leave, Queued
    <3>3. ~(r < m)
      <4>1. d \in Involved(r) /\ d \in Involved(m)
        BY <1>0, <3>1 DEF Involved
      <4> QED BY <1>1, <2>5, <3>2, <4>1, EarlierApart
    <3>4. m < r
      BY <1>2, <3>1, <3>2, <3>3
    <3>5. m \in req[r].link
      BY <1>0, <1>1, <3>1, <3>4 DEF NoneBefore, Cleared
    <3> QED BY <1>0, <3>1, <3>2, <3>5
  <2> QED BY <2>3, <2>4, <2>5
<1> QED BY <1>1, <1>5, <1>6 DEF Held

\* A part that is turned down for what the disk is: it is mounted, or has no volume.
LEMMA RejectedHeld ==
  ASSUME Orderly, Real, NEW t \in Queued, RequestRejected(t), req[t].kind = "Mount",
         ~req[t].automatic, NEW d, d = req[t].disk, NEW r
  PROVE  d \in zombie' \/ Held(d, r)'
<1>0. d = req[t].disk
  OBVIOUS
<1>1. Known /\ OneOperationPerDisk
  BY DEF Orderly, Exclusive
<1>2. d \in Listed \/ d \in zombie
  BY <1>0, <1>1 DEF Known, Places, Placed
<1>3. UNCHANGED <<list, zombie, staged, content, path, mounted, work>> /\ d \notin active
  BY <1>0 DEF RequestRejected, Ready, stageVars, busyVars
<1>4. \A w \in work : w.disk # d
  BY <1>1, <1>3 DEF OneOperationPerDisk
<1>5. d \in path => d \in mounted
  BY <1>4 DEF Real, Over
<1>6. d \in path \/ (content[d] = "none" /\ "Probe" \in staged[d])
  BY <1>0 DEF RequestRejected, Rejected, NeedsProbe, AwaitsProbe, IsMount
<1>7. d \in Listed => Held(d, r)'
  BY <1>3, <1>4, <1>5, <1>6 DEF Held, Listed
<1> QED BY <1>2, <1>3, <1>7

LEMMA MountedHeld ==
  ASSUME Orderly, Real, NEW w \in work, MountDone(w), NEW t, t = w.req,
         NEW d, d = req[t].disk, NEW r
  PROVE  req'[t].dissenter # "none" \/ d \in zombie' \/ Held(d, r)'
<1>1. Known /\ OneOperationPerDisk /\ req \in Seq(Request)
  BY DEF Orderly, Exclusive, Known, RequestTypes
<1>2. Serving(w) /\ t \in 1 .. Len(req) /\ w.disk = d /\ d \in Listed \cup zombie
  <2>1. Serving(w) /\ ~(w.op \in {"probe", "peek"})
    BY DEF MountDone, Serving
  <2>2. w.req \in DOMAIN req /\ req[w.req].disk = w.disk
    BY <1>1, <2>1, WorkTyped
  <2>3. w.disk \in Listed \cup zombie
    BY <1>1 DEF Known, Places
  <2> QED BY <1>1, <2>1, <2>2, <2>3
<1>3. /\ UNCHANGED <<list, zombie, mounted>> /\ work' = work \ {w}
  BY DEF MountDone, End
<1>4. CASE w.status = "done"
  <2>1. d \in mounted
    BY <1>2, <1>4 DEF MountDone, Real, Over
  <2>2. \A v \in work' : v.disk # d
    BY <1>1, <1>2, <1>3 DEF OneOperationPerDisk
  <2>3. d \in Listed => Held(d, r)'
    BY <1>3, <2>1, <2>2 DEF Held, Listed
  <2> QED BY <1>2, <1>3, <2>3
<1>5. CASE w.status # "done"
  <2>1. PICK q : q = [req EXCEPT ![t].dissenter = "dissent"]
    OBVIOUS
  <2>2. req' = Answered(q, {t}, FALSE)
    BY <1>5, <2>1 DEF MountDone
  <2>3. Comes(q, req, {}, {t}, {}) /\ q[t].dissenter = "dissent"
    <3>1. "dissent" \in Dissent
      BY DEF Dissent
    <3>2. Comes(q, req, {}, {t}, {})
      BY <1>1, <2>1, <3>1, DissentComes
    <3> QED BY <1>1, <1>2, <2>1, <3>2 DEF Request
  <2>4. q \in Seq(Request) /\ t \in 1 .. Len(q)
    BY <1>2, <2>3 DEF Comes
  <2>5. req'[t].dissenter = "dissent"
    BY <2>2, <2>3, <2>4, AnsweredKeeps
  <2> QED BY <2>5
<1> QED BY <1>4, <1>5

\* A part of a mount that comes to its end.
LEMMA MountEnds ==
  ASSUME Orderly, Real, Fits, Summary, QueueStep, ListStep, ServeStep,
         NEW t \in DOMAIN req, req[t].kind = "Mount", ~req[t].automatic, Alive(t), ~Alive(t)',
         NEW d, d = req[t].disk, NEW r
  PROVE  req'[t].dissenter # "none" \/ d \in zombie' \/ Held(d, r)'
<1>1. Known
  BY DEF Orderly
<1>2. CASE t \in Queued
  <2>1. t \in Queued \ Queued'
    BY <1>2 DEF Alive
  <2>2. ASSUME Begin(CommandOf(t), req[t].disk, t) PROVE FALSE
    <3>1. PICK n : n = [op |-> CommandOf(t), disk |-> req[t].disk, req |-> t,
                        status |-> "running"]
      OBVIOUS
    <3>2. n \in work' /\ n.req = t /\ n.op = CommandOf(t)
      BY <2>2, <3>1 DEF Begin
    <3>3. CommandOf(t) = "mount"
      BY DEF CommandOf
    <3> QED BY <3>2, <3>3 DEF Alive, Serving
  <2>3. CASE req[t].disk \in Listed /\ req[t].disk \notin Listed'
    BY <1>1, <2>3, ComersStay
  <2>4. CASE RequestRefused(t)
    <3>1. req \in Seq(Request) /\ t \in 1 .. Len(req)
      BY <1>1 DEF Known, RequestTypes
    <3>2. req' = Answered(req, {t}, FALSE) /\ req[t].dissenter # "none"
      BY <2>4 DEF RequestRefused
    <3> QED BY <3>1, <3>2, AnsweredKeeps
  <2>5. CASE RequestRejected(t)
    BY <1>1, <1>2, <2>5, RejectedHeld
  <2> QED BY <2>1, <2>2, <2>3, <2>4, <2>5 DEF QueueStep
<1>3. ASSUME NEW w \in work, Serving(w), w.req = t
      PROVE  req'[t].dissenter # "none" \/ d \in zombie' \/ Held(d, r)'
  <2>1. ~ \E v \in work' : Serving(v) /\ v.req = t
    BY DEF Alive, Serving
  <2>2. w.op = "mount"
    BY <1>3 DEF Fits, Fitting
  <2>3. MountDone(w)
    BY <1>3, <2>1, <2>2 DEF ServeStep, EjectDone, UnmountDone
  <2> QED BY <1>1, <1>3, <2>3, MountedHeld
<1> QED BY <1>2, <1>3 DEF Alive

LEMMA MountsDoneStays ==
  ASSUME Orderly, Asks, Fits, NoneBefore, Real, MountsDone, Next
  PROVE  MountsDone'
<1>1. Known
  BY DEF Orderly
<1>2. /\ Summary /\ WorkStep /\ QueueStep /\ ListStep /\ ServeStep /\ StagedStep
      /\ ContentStep /\ KernelStep
  BY <1>1, StepSummary, StepWork, StepQueue, StepList, StepServe, StepStaged, StepContent,
     StepKernel
<1>3. zombie \subseteq zombie'
  BY <1>1, <1>2, ComersStay
<1>4. ASSUME NEW r \in DOMAIN req, req[r].kind = "Mount", Alive(r)', NEW s \in req[r].link
      PROVE  (Open(r, req[s].disk) \/ req[s].disk \in zombie \/ Held(req[s].disk, r))'
  <2>0. PICK d : d = req[s].disk
    OBVIOUS
  <2>1. \A t \in req[r].link : /\ t \in DOMAIN req /\ req[t].kind = "Mount" /\ ~req[t].automatic
                               /\ Alike(req'[t], req[t])
    BY <1>1, <1>2, <1>4, LinkOf, SameRequest
  <2>2. Alive(r) /\ req'[r].link = req[r].link
    <3>1. Alive(r)
      BY <1>1, <1>2, <1>4, AliveBefore
    <3> QED BY <1>1, <1>2, <1>4, <3>1, SameRequest DEF Alike
  <2>3. req'[s].disk = d
    BY <2>0, <2>1 DEF Alike
  <2>4. ASSUME NEW t \in req[r].link, req[t].disk = d,
               Alive(t)' \/ req'[t].dissenter # "none"
        PROVE  Open(r, d)'
    BY <2>1, <2>2, <2>4 DEF Open, Alike, Alive, Serving
  <2>5. ASSUME NEW t \in req[r].link, req[t].disk = d, Alive(t)
        PROVE  Open(r, d)' \/ d \in zombie' \/ Held(d, r)'
    <3>1. CASE ~Alive(t)'
      <4>1. req'[t].dissenter # "none" \/ d \in zombie' \/ Held(d, r)'
        BY <1>2, <2>1, <2>5, <3>1, MountEnds
      <4> QED BY <2>4, <2>5, <4>1
    <3> QED BY <2>4, <2>5, <3>1
  <2>6. ASSUME NEW t \in req[r].link, req[t].disk = d, ~Alive(t), req[t].dissenter # "none"
        PROVE  Open(r, d)' \/ d \in zombie'
    <3>1. req'[t].dissenter # "none" \/ d \in zombie
      BY <1>2, <2>1, <2>6, DissentStays
    <3> QED BY <1>3, <2>4, <2>6, <3>1
  <2>7. ASSUME ~Alive(s), Held(d, r)
        PROVE  Open(r, d)' \/ d \in zombie' \/ Held(d, r)'
    <3>1. s \notin Queued
      BY <2>7 DEF Alive
    <3>2. \/ d \in zombie' \/ Held(d, r)'
          \/ \E m \in req[r].link : m \in Queued /\ m \in Queued' /\ req[m].disk = d
      BY <1>2, <1>4, <2>0, <2>2, <2>7, <3>1, HeldStays
    <3>3. ASSUME NEW m \in req[r].link, m \in Queued', req[m].disk = d PROVE Open(r, d)'
      BY <2>4, <3>3 DEF Alive
    <3> QED BY <3>2, <3>3
  <2>8. Open(r, d) \/ d \in zombie \/ Held(d, r)
    BY <1>4, <2>0, <2>2 DEF MountsDone
  <2>9. Open(r, d)' \/ d \in zombie' \/ Held(d, r)'
    <3>1. CASE Open(r, d)
      <4>1. PICK t \in req[r].link : req[t].disk = d /\ (Alive(t) \/ req[t].dissenter # "none")
        BY <3>1 DEF Open
      <4>2. CASE Alive(t)
        BY <2>5, <4>1, <4>2
      <4>3. CASE ~Alive(t)
        BY <2>6, <4>1, <4>3
      <4> QED BY <4>2, <4>3
    <3>2. CASE d \in zombie
      BY <1>3, <3>2
    <3>3. CASE Held(d, r)
      <4>1. CASE Alive(s)
        BY <1>4, <2>0, <2>5, <4>1
      <4> QED BY <2>7, <3>3, <4>1
    <3> QED BY <2>8, <3>1, <3>2, <3>3
  <2>10. Open(r, d)' => Open(r, req[s].disk)'
    BY <2>3 DEF Open
  <2>11. Held(d, r)' => Held(req[s].disk, r)'
    BY <2>3 DEF Held
  <2> QED BY <2>3, <2>9, <2>10, <2>11
<1>5. ASSUME NEW r \in DOMAIN req', req'[r].kind = "Mount", Alive(r)', NEW s \in req'[r].link
      PROVE  (Open(r, req[s].disk) \/ req[s].disk \in zombie \/ Held(req[s].disk, r))'
  <2>1. CASE r \in DOMAIN req
    <3>1. Alike(req'[r], req[r])
      BY <1>1, <1>2, <2>1, SameRequest
    <3> QED BY <1>4, <1>5, <2>1, <3>1 DEF Alike
  <2>2. CASE r \notin DOMAIN req
    <3>1. ~Alive(r)
      BY <1>1, <2>2, AliveKnown
    <3>2. s \in Queued'
      BY <1>1, <1>2, <1>5, <3>1, AliveBefore
    <3> QED BY <1>5, <3>2 DEF Alive, Open
  <2> QED BY <2>1, <2>2
<1> QED BY <1>5 DEF MountsDone

(* Success is real.                                                        *)

LEMMA AppendTrue ==
  ASSUME NEW a \in Seq(BOOLEAN), NEW x \in BOOLEAN
  PROVE  Append(a, TRUE) # a /\ (Append(a, x) = Append(a, TRUE) => x = TRUE)
<1>1. PICK k : k = Len(a) + 1
  OBVIOUS
<1>2. PICK p : p = Append(a, TRUE)
  OBVIOUS
<1>3. PICK q : q = Append(a, x)
  OBVIOUS
<1>4. p[k] = TRUE /\ q[k] = x
  BY <1>1, <1>2, <1>3
<1>5. p # a
  <2>1. Len(p) = Len(a) + 1 /\ Len(a) \in Nat
    BY <1>2
  <2> QED BY <2>1
<1>6. q = p => x = TRUE
  BY <1>4
<1> QED BY <1>2, <1>3, <1>5, <1>6

\* Who is told of success: one whose command succeeded, or for a whole unit one
\* with no dissenter.
LEMMA TrueAnswer ==
  ASSUME Known, NEW q, NEW x, NEW success \in BOOLEAN, Comes(q, req, {}, {x}, {}),
         req' = Answered(q, {x}, success),
         NEW r \in DOMAIN req, req'[r].answers = Append(req[r].answers, TRUE)
  PROVE  /\ r = x
         /\ req[r].whole => /\ q[r].dissenter = "none"
                            /\ \A s \in req[r].link : req[s].dissenter = "none"
         /\ ~req[r].whole => success
<1>1. /\ req \in Seq(Request) /\ q \in Seq(Request)
      /\ DOMAIN req = 1 .. Len(req) /\ DOMAIN q = 1 .. Len(req)
      /\ \A s \in 1 .. Len(req) : Becoming(q[s], req[s], s, {}, {x}, {})
  <2>1. /\ req \in Seq(Request) /\ q \in Seq(Request) /\ Len(q) = Len(req)
        /\ \A s \in 1 .. Len(req) : Becoming(q[s], req[s], s, {}, {x}, {})
    BY DEF Known, RequestTypes, Comes
  <2>2. DOMAIN req = 1 .. Len(req) /\ DOMAIN q = 1 .. Len(q)
    BY <2>1
  <2> QED BY <2>1, <2>2
<1>2. Becoming(q[r], req[r], r, {}, {x}, {}) /\ q[r] \in Request /\ q[r].answers \in Seq(BOOLEAN)
  <2>1. r \in 1 .. Len(req) /\ r \in DOMAIN q
    BY <1>1
  <2>2. q[r] \in Request
    BY <1>1, <2>1
  <2>3. Becoming(q[r], req[r], r, {}, {x}, {})
    BY <1>1, <2>1
  <2> QED BY <2>2, <2>3, RequestFields
<1>3. q[r].answers = req[r].answers /\ q[r].whole = req[r].whole /\ q[r].link = req[r].link
  BY <1>2 DEF Becoming, Alike
<1>4. req'[r] = IF r \in {x} /\ q[r].callback THEN Told(q[r], Said(q, r, success)) ELSE q[r]
  BY <1>1 DEF Answered, Told, Said
<1>5. r = x /\ req'[r] = Told(q[r], Said(q, r, success))
  <2>1. req'[r] # q[r]
    BY <1>2, <1>3, AppendTrue
  <2> QED BY <1>4, <2>1
<1>6. Said(q, r, success)
  <2>1. Said(q, r, success) \in BOOLEAN
    <3>1. CASE q[r].whole
      BY <3>1 DEF Said
    <3>2. CASE ~q[r].whole
      BY <3>2 DEF Said
    <3> QED BY <3>1, <3>2
  <2>2. PICK y \in BOOLEAN : y = Said(q, r, success)
    BY <2>1
  <2>3. req'[r].answers = Append(q[r].answers, y)
    BY <1>2, <1>5, <2>2 DEF Told, Request
  <2> QED BY <1>2, <1>3, <2>2, <2>3, AppendTrue
<1>7. ASSUME req[r].whole
      PROVE  /\ q[r].dissenter = "none"
             /\ \A s \in req[r].link : req[s].dissenter = "none"
  <2>1. \A s \in q[r].link \cup {r} : q[s].dissenter = "none"
    BY <1>3, <1>6, <1>7 DEF Said
  <2>2. ASSUME NEW s \in req[r].link PROVE req[s].dissenter = "none"
    <3>1. s \in DOMAIN req /\ s # x
      BY <1>5, LinkOf
    <3>2. Becoming(q[s], req[s], s, {}, {x}, {})
      BY <1>1, <3>1
    <3> QED BY <1>3, <2>1, <3>1, <3>2 DEF Becoming
  <2> QED BY <2>1, <2>2
<1>8. ~req[r].whole => success
  BY <1>3, <1>6 DEF Said
<1> QED BY <1>5, <1>7, <1>8

\* What is known whenever clients are told.
Telling ==
  /\ Orderly /\ Probed /\ Upright /\ Failing /\ Asks /\ Fits /\ NoneBefore
  /\ PartsDone /\ Real /\ MountsDone

\* No volume that a request for a whole unit was for is mounted.
Unmounted(d) ==
  d \in mounted' \cap Listed' => content'[d] = "none" \/ d \in PreMounted \ path'

\* Each is.
Mounted(d) == d \in Listed' \ mounted' => content'[d] = "none"

LEMMA PartsUnmounted ==
  ASSUME Telling, Next, Real', NEW r \in DOMAIN req, req[r].kind = "Unmount", Alive(r), req[r].whole,
         req'[r].answers = Append(req[r].answers, TRUE), req[r].disk \in Listed',
         NEW s \in req[r].link, req[s].dissenter = "none"
  PROVE  Unmounted(req[s].disk)
<1>0. PICK d : d = req[s].disk
  OBVIOUS
<1>1. /\ Orderly /\ Probed /\ Upright /\ Fits /\ NoneBefore /\ PartsDone
      /\ Known /\ req \in Seq(Request)
  BY DEF Telling, Orderly, Known, RequestTypes
<1>2. /\ Summary /\ WorkStep /\ ListStep /\ PathStep /\ StagedStep /\ ContentStep
  BY <1>1, StepSummary, StepWork, StepList, StepPath, StepStaged, StepContent
<1>3. zombie \subseteq zombie' /\ Listed' \cap zombie' = {}
  BY <1>1, <1>2, ComersStay
<1>4. req'[r].answers # req[r].answers
  <2>1. req[r] \in Request
    BY <1>1
  <2>2. req[r].answers \in Seq(BOOLEAN) /\ TRUE \in BOOLEAN
    BY <2>1, RequestFields
  <2> QED BY <2>2, AppendTrue
<1>5. s \notin Queued /\ ~Alive(s)
  <2>1. s \notin Queued /\ \A w \in work : w.req = s => w.op \notin Command
    BY <1>1, <1>4, AnsweredAfterParts
  <2> QED BY <2>1 DEF Alive, Serving, Command
<1>6. d \in zombie \/ Free(d)
  BY <1>0, <1>1, <1>5 DEF PartsDone, Done
<1>7. CASE d \in zombie
  BY <1>0, <1>3, <1>7 DEF Unmounted
<1>8. CASE Free(d)
  <2>1. Free(req[s].disk)
    BY <1>0, <1>8
  <2>2. req[s].disk \in zombie' \/ Free(req[s].disk)'
    BY <1>1, <1>2, <1>5, <2>1, FreeStays
  <2>3. s \in DOMAIN req
    BY <1>1, LinkOf
  <2>4. req'[s].disk = d
    BY <1>0, <1>1, <1>2, <2>3, SameRequest DEF Alike
  <2>5. d \in zombie' \/ Free(d)'
    BY <1>0, <2>2, <2>4
  <2>6. CASE d \in zombie'
    BY <1>0, <1>3, <2>6 DEF Unmounted
  <2>7. CASE Free(d)'
    <3>1. ASSUME d \in mounted', d \notin path', d \notin PreMounted PROVE FALSE
      BY <2>7, <3>1 DEF Real, Over, Free
    <3>2. d \in path' => content'[d] = "none"
      BY <2>7 DEF Free
    <3> QED BY <1>0, <3>1, <3>2 DEF Unmounted
  <2> QED BY <2>5, <2>6, <2>7
<1> QED BY <1>6, <1>7, <1>8

LEMMA PartsMounted ==
  ASSUME Telling, Next, NEW r \in DOMAIN req, req[r].kind = "Mount", Alive(r), req[r].whole,
         req'[r].answers = Append(req[r].answers, TRUE), req[r].disk \in Listed',
         \A t \in req[r].link : req[t].dissenter = "none", NEW s \in req[r].link
  PROVE  Mounted(req[s].disk)
<1>0. PICK d : d = req[s].disk
  OBVIOUS
<1>1. /\ Orderly /\ NoneBefore /\ MountsDone /\ Known /\ req \in Seq(Request)
  BY DEF Telling, Orderly, Known, RequestTypes
<1>2. /\ Summary /\ WorkStep /\ ListStep /\ StagedStep /\ ContentStep /\ KernelStep
  BY <1>1, StepSummary, StepWork, StepList, StepStaged, StepContent, StepKernel
<1>3. zombie \subseteq zombie' /\ Listed' \cap zombie' = {}
  BY <1>1, <1>2, ComersStay
<1>4. req'[r].answers # req[r].answers
  <2>1. req[r] \in Request
    BY <1>1
  <2>2. req[r].answers \in Seq(BOOLEAN) /\ TRUE \in BOOLEAN
    BY <2>1, RequestFields
  <2> QED BY <2>2, AppendTrue
<1>5. ASSUME NEW t \in req[r].link PROVE t \notin Queued /\ ~Alive(t)
  <2>1. t \notin Queued /\ \A w \in work : w.req = t => w.op \notin Command
    BY <1>1, <1>4, AnsweredAfterParts
  <2> QED BY <2>1 DEF Alive, Serving, Command
<1>6. d \in zombie \/ Held(d, r)
  BY <1>0, <1>1, <1>5 DEF MountsDone, Open
<1>7. CASE d \in zombie
  BY <1>0, <1>3, <1>7 DEF Mounted
<1>8. CASE Held(d, r)
  <2>1. \/ d \in zombie' \/ Held(d, r)'
        \/ \E m \in req[r].link : m \in Queued /\ m \in Queued' /\ req[m].disk = d
    BY <1>0, <1>1, <1>2, <1>5, <1>8, HeldStays
  <2>2. d \in zombie' \/ Held(d, r)'
    BY <1>5, <2>1
  <2> QED BY <1>0, <1>3, <2>2 DEF Held, Mounted
<1> QED BY <1>6, <1>7, <1>8

\* What a client was told of is true.
Truthful(r) ==
  CASE req[r].kind = "Eject" -> \E w \in work : w.req = r /\ w.op = "eject" /\ w.status = "done"
    [] req[r].kind = "Mount" ->
         \A d \in (Involved(r) \cap Listed') \ mounted' : req[r].whole /\ content'[d] = "none"
    [] req[r].kind = "Unmount" ->
         \A d \in Involved(r) \cap Listed' \cap mounted' :
           req[r].whole /\ (content'[d] = "none" \/ d \in PreMounted \ path')

LEMMA MountIsReal ==
  ASSUME Telling, Next, NEW r \in DOMAIN req, req[r].kind = "Mount", Alive(r),
         req'[r].answers = Append(req[r].answers, TRUE), req[r].disk \in Listed',
         req[r].whole => \A s \in req[r].link : req[s].dissenter = "none",
         Mounted(req[r].disk), ~req[r].whole => req[r].disk \in mounted'
  PROVE  Truthful(r)
<1>1. Known
  BY DEF Telling, Orderly
<1>2. ASSUME NEW s \in req[r].link PROVE Mounted(req[s].disk)
  <2>1. req[r].whole
    BY <1>1, LinkOf
  <2> QED BY <2>1, PartsMounted
<1>3. \A d \in Involved(r) : Mounted(d)
  BY <1>2 DEF Involved
<1>4. ASSUME ~req[r].whole PROVE \A d \in Involved(r) : d \in mounted'
  <2>1. req[r].link = {}
    BY <1>1, <1>4, LinkOf
  <2> QED BY <1>4, <2>1 DEF Involved
<1> QED BY <1>3, <1>4 DEF Truthful, Mounted

LEMMA UnmountIsReal ==
  ASSUME Telling, Next, Real', NEW r \in DOMAIN req, req[r].kind = "Unmount", Alive(r),
         req'[r].answers = Append(req[r].answers, TRUE), req[r].disk \in Listed',
         req[r].whole => \A s \in req[r].link : req[s].dissenter = "none",
         Unmounted(req[r].disk), ~req[r].whole => req[r].disk \notin mounted'
  PROVE  Truthful(r)
<1>1. Known
  BY DEF Telling, Orderly
<1>2. \A s \in req[r].link : Unmounted(req[s].disk)
  <2>1. ASSUME NEW s \in req[r].link PROVE Unmounted(req[s].disk)
    <3>1. req[r].whole
      BY <1>1, LinkOf
    <3> QED BY <3>1, PartsUnmounted
  <2> QED BY <2>1
<1>3. \A d \in Involved(r) : Unmounted(d)
  BY <1>2 DEF Involved
<1>4. ASSUME ~req[r].whole PROVE \A d \in Involved(r) : d \notin mounted'
  <2>1. req[r].link = {}
    BY <1>1, <1>4, LinkOf
  <2> QED BY <1>4, <2>1 DEF Involved
<1> QED BY <1>3, <1>4 DEF Truthful, Unmounted

LEMMA RejectedIsReal ==
  ASSUME Telling, Next, Real', NEW r \in Queued, RequestRejected(r),
         req'[r].answers = Append(req[r].answers, TRUE), req[r].disk \in Listed'
  PROVE  Truthful(r)
<1>0. PICK d : d = req[r].disk
  OBVIOUS
<1>1. Known /\ req \in Seq(Request) /\ r \in DOMAIN req /\ req[r] \in Request
      /\ r \in 1 .. Len(req) /\ Alive(r)
  BY QueuedRequest DEF Telling, Orderly, Known, RequestTypes, Alive
<1> DEFINE system == req[r].kind = "Unmount" /\ d \in Root \cap path
<1>2. PICK q : q = IF system THEN [req EXCEPT ![r].dissenter = "dissent"] ELSE req
  OBVIOUS
<1>3. req' = Answered(q, {r}, FALSE)
  BY <1>0, <1>2 DEF RequestRejected
<1>4. Comes(q, req, {}, {r}, {})
  <2>1. "dissent" \in Dissent
    BY DEF Dissent
  <2> QED BY <1>1, <1>2, <2>1, DissentComes, ComesSame
<1>5. /\ req[r].whole /\ q[r].dissenter = "none"
      /\ \A s \in req[r].link : req[s].dissenter = "none"
  BY <1>1, <1>3, <1>4, TrueAnswer
<1>6. ~system
  <2>1. system => q[r].dissenter = "dissent"
    BY <1>1, <1>2 DEF Request
  <2> QED BY <1>5, <2>1
<1>7. UNCHANGED <<content, path, mounted>>
  BY DEF RequestRejected, stageVars
<1>7a. /\ d \in path => d \in mounted
       /\ d \in mounted => d \in path \cup PreMounted
  <2>1. \A w \in work : w.disk # d
    BY <1>0 DEF Telling, Orderly, Exclusive, OneOperationPerDisk, RequestRejected, Ready
  <2> QED BY <2>1 DEF Telling, Real, Over
<1>8. CASE req[r].kind = "Eject"
  <2>1. req[r].disk \in Whole
    BY <1>1, <1>5 DEF Known, Serves, RequestShape, Shaped
  <2> QED BY <1>8, <2>1 DEF RequestRejected, Rejected
<1>9. CASE req[r].kind = "Mount"
  <2>1. content[d] = "none" \/ d \in path
    BY <1>0, <1>9 DEF RequestRejected, Rejected
  <2>2. Mounted(req[r].disk)
    BY <1>0, <1>7, <1>7a, <2>1 DEF Mounted
  <2> QED BY <1>1, <1>5, <1>9, <2>2, MountIsReal
<1>10. CASE req[r].kind = "Unmount"
  <2>1. content[d] = "none" \/ d \notin path
    BY <1>0, <1>6, <1>10 DEF RequestRejected, Rejected
  <2>2. Unmounted(req[r].disk)
    BY <1>0, <1>7, <1>7a, <2>1 DEF Unmounted
  <2> QED BY <1>1, <1>5, <1>10, <2>2, UnmountIsReal
<1> QED BY <1>1, <1>8, <1>9, <1>10, RequestFields DEF Kind

LEMMA RefusedIsReal ==
  ASSUME Telling, NEW r \in Queued, RequestRefused(r),
         req'[r].answers = Append(req[r].answers, TRUE)
  PROVE  FALSE
<1>1. Known /\ req \in Seq(Request) /\ r \in DOMAIN req
  BY QueuedRequest DEF Telling, Orderly, Known, RequestTypes
<1>2. Comes(req, req, {}, {r}, {}) /\ req' = Answered(req, {r}, FALSE)
  BY <1>1, ComesSame DEF RequestRefused
<1>3. req[r].dissenter = "none"
  BY <1>1, <1>2, TrueAnswer
<1> QED BY <1>3 DEF RequestRefused

\* A command that is over.
LEMMA NotesNothing ==
  ASSUME Known, NEW x, NEW r \in DOMAIN req,
         req' = [req EXCEPT ![x].dissenter = "dissent"]
  PROVE  req'[r].answers # Append(req[r].answers, TRUE)
<1>1. "dissent" \in Dissent /\ req \in Seq(Request) /\ r \in 1 .. Len(req)
      /\ req[r] \in Request
  BY DEF Dissent, Known, RequestTypes
<1>2. Comes(req', req, {}, {x}, {})
  BY <1>1, DissentComes
<1>3. req'[r].answers = req[r].answers
  BY <1>1, <1>2 DEF Comes, Becoming
<1>4. req[r].answers \in Seq(BOOLEAN) /\ TRUE \in BOOLEAN
  BY <1>1, RequestFields
<1> QED BY <1>3, <1>4, AppendTrue

LEMMA EjectedIsReal ==
  ASSUME Telling, NEW w \in work, EjectDone(w), NEW r \in DOMAIN req,
         req'[r].answers = Append(req[r].answers, TRUE)
  PROVE  Truthful(r)
<1>1. Known /\ req \in Seq(Request) /\ req[r] \in Request /\ Serving(w)
  BY DEF Telling, Orderly, Known, RequestTypes, EjectDone, Serving
<1>2. PICK success \in BOOLEAN : success = (w.status = "done")
  OBVIOUS
<1>3. /\ req' = Answered(req, {w.req}, success)
      /\ w.status # "failed" \/ req[w.req].dissenter # "none"
  BY <1>1, <1>2, NotesNothing DEF EjectDone, NotesFailure
<1>4. Comes(req, req, {}, {w.req}, {})
  BY <1>1, ComesSame
<1>5. /\ r = w.req
      /\ req[r].whole => req[r].dissenter = "none"
      /\ ~req[r].whole => success
  BY <1>1, <1>3, <1>4, TrueAnswer
<1>6. w.status = "done"
  <2>1. w.status \in {"running", "done", "failed"} /\ w.status # "running"
    BY <1>1 DEF Known, WorkTypes, Work, EjectDone
  <2> QED BY <1>2, <1>3, <1>5, <2>1
<1>7. w.op = "eject"
  BY <1>6 DEF Telling, Failing, EjectDone
<1>8. req[r].kind = "Eject"
  <2>1. Fitting(w)
    BY <1>1 DEF Telling, Fits
  <2>2. req[r].kind # "Mount" /\ req[r].kind # "Unmount"
    BY <1>5, <1>7, <2>1 DEF Fitting, Unmounting
  <2> QED BY <1>1, <2>2, RequestFields DEF Kind
<1> QED BY <1>5, <1>6, <1>7, <1>8 DEF Truthful

LEMMA MountedIsReal ==
  ASSUME Telling, Next, NEW w \in work, MountDone(w), NEW r \in DOMAIN req,
         req'[r].answers = Append(req[r].answers, TRUE), req[r].disk \in Listed'
  PROVE  Truthful(r)
<1>1. Known /\ req \in Seq(Request) /\ Serving(w)
  BY DEF Telling, Orderly, Known, RequestTypes, MountDone, Serving
<1>2. req[w.req].kind = "Mount" /\ req[w.req].disk = w.disk
  <2>1. Fitting(w)
    BY <1>1 DEF Telling, Fits
  <2>2. ~(w.op \in {"probe", "peek"})
    BY <1>1 DEF Serving
  <2> QED BY <1>1, <2>1, <2>2, WorkTyped DEF Fitting, MountDone
<1>3. CASE w.status = "done"
  <2>1. Comes(req, req, {}, {w.req}, {}) /\ req' = Answered(req, {w.req}, TRUE)
    BY <1>1, <1>3, ComesSame DEF MountDone
  <2>2. /\ r = w.req
        /\ req[r].whole => \A s \in req[r].link : req[s].dissenter = "none"
    BY <1>1, <2>1, TrueAnswer
  <2>3. w.disk \in mounted'
    BY <1>3 DEF MountDone, Telling, Real, Over
  <2>4. Mounted(req[r].disk) /\ req[r].disk \in mounted'
    BY <1>2, <2>2, <2>3 DEF Mounted
  <2>5. Alive(r)
    BY <1>1, <2>2 DEF Alive
  <2> QED BY <1>2, <2>2, <2>4, <2>5, MountIsReal
<1>4. CASE w.status # "done"
  <2>1. PICK q : q = [req EXCEPT ![w.req].dissenter = "dissent"]
    OBVIOUS
  <2>2. "dissent" \in Dissent
    BY DEF Dissent
  <2>3. Comes(q, req, {}, {w.req}, {})
    BY <1>1, <2>1, <2>2, DissentComes
  <2>4. req' = Answered(q, {w.req}, FALSE)
    BY <1>4, <2>1 DEF MountDone
  <2>5. r = w.req /\ q[r].dissenter = "none"
    BY <1>1, <2>3, <2>4, TrueAnswer
  <2>6. q[r].dissenter = "dissent"
    <3>1. r \in 1 .. Len(req) /\ req[r] \in Request
      BY <1>1
    <3>2. q = [req EXCEPT ![r].dissenter = "dissent"]
      BY <2>1, <2>5
    <3> QED BY <1>1, <3>1, <3>2 DEF Request
  <2> QED BY <2>5, <2>6
<1> QED BY <1>3, <1>4

LEMMA UnmountedIsReal ==
  ASSUME Telling, Next, Real', NEW w \in work, UnmountDone(w), NEW r \in DOMAIN req,
         req'[r].answers = Append(req[r].answers, TRUE), req[r].disk \in Listed'
  PROVE  Truthful(r)
<1>1. Known /\ req \in Seq(Request) /\ Serving(w)
  BY DEF Telling, Orderly, Known, RequestTypes, UnmountDone, Serving
<1>2. req[w.req].kind = "Unmount" /\ req[w.req].disk = w.disk
  <2>1. Fitting(w)
    BY <1>1 DEF Telling, Fits
  <2>2. ~(w.op \in {"probe", "peek"})
    BY <1>1 DEF Serving
  <2> QED BY <1>1, <2>1, <2>2, WorkTyped DEF Fitting, Unmounting, UnmountDone
<1>3. PICK success \in BOOLEAN : success = (w.status = "done" \/ w.disk \notin mounted)
  OBVIOUS
<1>4. /\ req' = Answered(req, {w.req}, success)
      /\ success \/ req[w.req].dissenter # "none"
      /\ mounted' = mounted
  BY <1>1, <1>3, NotesNothing DEF UnmountDone, NotesFailure
<1>5. Comes(req, req, {}, {w.req}, {})
  BY <1>1, ComesSame
<1>6. /\ r = w.req
      /\ req[r].whole => /\ req[r].dissenter = "none"
                         /\ \A s \in req[r].link : req[s].dissenter = "none"
      /\ ~req[r].whole => success
  BY <1>1, <1>4, <1>5, TrueAnswer
<1>6a. w.status = "done" => w.disk \notin mounted
  BY DEF UnmountDone, Telling, Failing, Real, Over
<1>7. Unmounted(req[r].disk) /\ req[r].disk \notin mounted'
  BY <1>2, <1>3, <1>4, <1>6, <1>6a DEF Unmounted
<1>8. Alive(r)
  BY <1>1, <1>6 DEF Alive
<1> QED BY <1>2, <1>6, <1>7, <1>8, UnmountIsReal

LEMMA SuccessStep ==
  ASSUME Telling, Next, NEW r \in DOMAIN req,
         req'[r].answers = Append(req[r].answers, TRUE), req[r].disk \in Listed'
  PROVE  Truthful(r)
<1>1. Known /\ OneOperationPerDisk /\ req \in Seq(Request) /\ Real'
  BY RealStays DEF Telling, Orderly, Exclusive, Known, RequestTypes
<1>2. PICK A, J, S : Moves(A, J, S) /\ Settles(A)
  BY <1>1, StepSummary DEF Summary
<1>3. r \in A
  <2>1. r \in 1 .. Len(req) /\ req[r] \in Request
    BY <1>1
  <2>2. req[r].answers \in Seq(BOOLEAN) /\ TRUE \in BOOLEAN
    BY <2>1, RequestFields
  <2>3. req'[r].answers # req[r].answers
    BY <2>2, AppendTrue
  <2>4. Becoming(req'[r], req[r], r, A, J, S)
    BY <1>1, <1>2, <2>1, StillAlike
  <2> QED BY <2>3, <2>4 DEF Becoming
<1>4. ASSUME NEW w \in work, Serving(w), work' = work \ {w} PROVE Truthful(r)
  <2>1. ~ \E v \in work' : v.disk = w.disk
    BY <1>1, <1>4 DEF OneOperationPerDisk
  <2>2. EjectDone(w) \/ MountDone(w) \/ UnmountDone(w)
    BY <1>1, <1>4, <2>1, StepServe DEF ServeStep
  <2> QED BY <1>1, <2>2, EjectedIsReal, MountedIsReal, UnmountedIsReal
<1>5. CASE r \in Queued /\ Finishes(r)
  BY <1>1, <1>5, RejectedIsReal, RefusedIsReal DEF Finishes
<1> QED BY <1>2, <1>3, <1>4, <1>5 DEF Settles

LEMMA InitTelling == Init => Telling
<1> SUFFICES ASSUME Init PROVE Telling
  OBVIOUS
<1>1. /\ requests = <<>> /\ req = <<>> /\ work = {} /\ path = {}
      /\ staged = [d \in Disk |-> {}]
  BY DEF Init
<1>2. Orderly /\ Probed
  BY InitOrderly, InitSettling DEF Settling
<1>3. Upright
  BY <1>1 DEF Upright
<1>4. Failing /\ Asks /\ Fits
  BY <1>1 DEF Failing, Asks, Fits
<1>5. DOMAIN req = {}
  BY <1>1
<1>6. NoneBefore /\ PartsDone /\ MountsDone
  BY <1>5 DEF NoneBefore, PartsDone, MountsDone
<1>7. Real
  <2>1. mounted \subseteq PreMounted
    BY DEF Init
  <2> QED BY <1>1, <2>1 DEF Real, Over
<1> QED BY <1>2, <1>3, <1>4, <1>6, <1>7 DEF Telling

LEMMA StutterTelling ==
  ASSUME Telling, Orderly', Probed', UNCHANGED vars PROVE Telling'
<1>1. UNCHANGED <<list, zombie, staged, content, path, mounted, work, requests, req>>
  BY DEF vars, stageVars, busyVars, reqVars
<1>2. Listed' = Listed /\ Queued' = Queued
  BY <1>1 DEF Listed, Queued
<1>3. \A r : Alive(r)' = Alive(r) /\ Cleared(r)' = Cleared(r) /\ Done(r)' = Done(r)
  BY <1>1, <1>2 DEF Alive, Cleared, Done, Free, Serving
<1>4. Upright' /\ Failing' /\ Asks'
  BY <1>1, <1>2 DEF Telling, Upright, Failing, Asks, Consulting
<1>5. Fits'
  BY <1>1 DEF Telling, Fits, Fitting, Serving, Unmounting
<1>6. NoneBefore' /\ PartsDone'
  BY <1>1, <1>2, <1>3 DEF Telling, NoneBefore, PartsDone
<1>7. Real'
  BY <1>1 DEF Telling, Real, Over
<1>8. MountsDone'
  BY <1>1, <1>2, <1>3 DEF Telling, MountsDone, Open, Held
<1> QED BY <1>4, <1>5, <1>6, <1>7, <1>8 DEF Telling

\* Commands fit their requests, the descriptions and the mount table differ only by
\* the calls that have not come back, and what a request for the mount or unmount of
\* a unit waits for has come about when it is over, on top of OrderlyInvariance.
THEOREM TellingInvariance == Spec => []Telling
<1>1. Orderly /\ Probed /\ Orderly' /\ Probed' /\ Telling /\ [Next]_vars => Telling'
  <2> SUFFICES ASSUME Orderly, Probed, Orderly', Probed', Telling, [Next]_vars PROVE Telling'
    OBVIOUS
  <2>1. CASE Next
    <3>1. /\ Known /\ Upright /\ Failing /\ Asks /\ Fits /\ NoneBefore /\ PartsDone
      BY DEF Telling, Orderly
    <3>2. Summary /\ WorkStep /\ QueueStep /\ ListStep /\ StagedStep
      BY <2>1, <3>1, StepSummary, StepWork, StepQueue, StepList, StepStaged
    <3>2a. Real' /\ MountsDone'
      BY <2>1, <3>1, RealStays, MountsDoneStays DEF Telling, Orderly, Exclusive
    <3>3. Upright' /\ Failing'
      BY <2>1, <3>1, UprightStays, FailingStays
    <3>4. Asks' /\ Fits'
      BY <3>1, <3>2, AsksStays, FitsStays
    <3>5. NoneBefore' /\ PartsDone'
      BY <2>1, <3>1, <3>2, NoneBeforeStays, PartsDoneStays
    <3> QED BY <3>3, <3>4, <3>5, <3>2a DEF Telling
  <2>2. CASE UNCHANGED vars
    BY <2>2, StutterTelling
  <2> QED BY <2>1, <2>2
<1> QED BY <1>1, InitTelling, OrderlyInvariance, SettlingInvariance, PTL DEF Spec, Settling

\* A client is told of success only if it is true (__DARequestDispatchCallback and
\* the callbacks of the commands).
THEOREM SuccessIsTold == Spec => SuccessIsReal
<1> DEFINE Success ==
      \A r \in DOMAIN req :
        req'[r].answers = Append(req[r].answers, TRUE) /\ req[r].disk \in Listed' =>
          CASE req[r].kind = "Eject" ->
                 \E w \in work : w.req = r /\ w.op = "eject" /\ w.status = "done"
            [] req[r].kind = "Mount" ->
                 \A d \in (Involved(r) \cap Listed') \ mounted' :
                   req[r].whole /\ content'[d] = "none"
            [] req[r].kind = "Unmount" ->
                 \A d \in Involved(r) \cap Listed' \cap mounted' :
                   req[r].whole /\ (content'[d] = "none" \/ d \in PreMounted \ path')
<1>1. Telling /\ [Next]_vars => [Success]_vars
  BY SuccessStep DEF Truthful
<1>2. Spec => [][Success]_vars
  BY <1>1, TellingInvariance, PTL DEF Spec
<1> QED BY <1>2 DEF SuccessIsReal
=============================================================================
