--------------------------- MODULE DAWorkerProofs ---------------------------
(***************************************************************************)
(* That a job handed to a thread or to a child process is run by its own   *)
(* thread, that its end is not missed, and that it is called back once and *)
(* after its end: for any number of disks, candidates, threads and         *)
(* processes, though their identifiers are used again.                     *)
(***************************************************************************)
EXTENDS DAProbe, DAListsProofs, SequenceTheorems, TLAPS

ThreadJob  == [job : Job, thread : Thread, exited : BOOLEAN]
CommandJob == [job : Job, pid : Pid, piped : BOOLEAN]

ThreadMap  == [Thread -> [at : {"none", "created", "running", "exited"},
                          job : Job \cup {NoJob}, runs : Job \cup {NoJob}]]
ProcessMap == [Pid -> [at : {"none", "running", "exited"}, job : Job \cup {NoJob}]]

JobsOf(s)   == {s[i].job : i \in DOMAIN s}
Distinct(s) == \A i, k \in DOMAIN s : s[i].job = s[k].job => i = k

\* A thread that has not called the function, or not returned from it, has its
\* job on the list, and jobs that have not exited have their thread.  Of the
\* jobs with one identifier only the first may be of a thread that lives: new
\* jobs are put in front.
ThreadsOK(TJ, th) ==
  /\ Distinct(TJ)
  /\ \A t \in Thread :
       /\ th[t].at = "none" => th[t] = NoThread
       /\ th[t].at # "none" =>
            th[t].job \in Job /\ th[t].runs = IF th[t].at = "created" THEN NoJob ELSE th[t].job
       /\ th[t].at \in {"created", "running"} =>
            \E i \in DOMAIN TJ : TJ[i].thread = t /\ ~TJ[i].exited
  /\ \A i \in DOMAIN TJ : ~TJ[i].exited =>
       th[TJ[i].thread].at \in {"created", "running"} /\ th[TJ[i].thread].job = TJ[i].job
  /\ \A i, k \in DOMAIN TJ : i < k /\ TJ[i].thread = TJ[k].thread => TJ[k].exited

\* A child is on the list until it has been waited for, and no longer.
CommandsOK(CJ, pr) ==
  /\ Distinct(CJ)
  /\ \A p \in Pid : /\ pr[p].at = "none" => pr[p] = NoProcess
                    /\ pr[p].at # "none" => \E i \in DOMAIN CJ : CJ[i].pid = p
  /\ \A i \in DOMAIN CJ : pr[CJ[i].pid].at # "none" /\ pr[CJ[i].pid].job = CJ[i].job

\* A job is in one place.
Apart(TJ, CJ, r, f) ==
  /\ JobsOf(TJ) \cap JobsOf(CJ) = {}
  /\ r \notin JobsOf(TJ) \cup JobsOf(CJ) /\ f \notin JobsOf(TJ) \cup JobsOf(CJ)
  /\ r # NoJob => f = NoJob

Workers ==
  /\ WorkerTypeOK
  /\ ThreadsOK(threadJobs, thread)
  /\ CommandsOK(commandJobs, process)
  /\ Apart(threadJobs, commandJobs, reaped, failed)
  /\ reaped # NoJob => loop = "commands"

-----------------------------------------------------------------------------
(* Lists.                                                                  *)

\* The place in s of what stands at k in s without i.
Skip(i, k) == IF k < i THEN k ELSE k + 1

LEMMA WithoutIs ==
  ASSUME NEW S, NEW s \in Seq(S), NEW i \in DOMAIN s
  PROVE  /\ Without(s, i) \in Seq(S)
         /\ \A k \in DOMAIN Without(s, i) :
              Skip(i, k) \in DOMAIN s \ {i} /\ Without(s, i)[k] = s[Skip(i, k)]
         /\ \A k, l \in DOMAIN Without(s, i) : k < l => Skip(i, k) < Skip(i, l)
         /\ \A m \in DOMAIN s \ {i} : \E k \in DOMAIN Without(s, i) : Skip(i, k) = m
  <1>1. i \in 1 .. Len(s) /\ Len(s) \in Nat
    OBVIOUS
  <1> DEFINE a == SubSeq(s, 1, i - 1)
             b == SubSeq(s, i + 1, Len(s))
  <1>2. /\ a \in Seq(S) /\ Len(a) = i - 1 /\ \A k \in 1 .. i - 1 : a[k] = s[k]
    BY <1>1
  <1>3. /\ b \in Seq(S) /\ Len(b) = Len(s) - i /\ \A k \in 1 .. Len(s) - i : b[k] = s[i + k]
    BY <1>1
  <1>4. Without(s, i) = a \o b
    BY DEF Without
  <1> HIDE DEF a, b
  <1>5. /\ a \o b \in Seq(S) /\ Len(a \o b) = Len(s) - 1
        /\ \A k \in 1 .. Len(s) - 1 :
             (a \o b)[k] = IF k < i THEN a[k] ELSE b[k - (i - 1)]
    <2>1. /\ a \o b \in Seq(S) /\ Len(a \o b) = Len(a) + Len(b)
          /\ \A k \in 1 .. Len(a) + Len(b) :
               (a \o b)[k] = IF k <= Len(a) THEN a[k] ELSE b[k - Len(a)]
      BY <1>2, <1>3, ConcatProperties
    <2>2. Len(a) + Len(b) = Len(s) - 1
      BY <1>1, <1>2, <1>3
    <2>3. \A k \in 1 .. Len(s) - 1 : k <= Len(a) <=> k < i
      BY <1>1, <1>2
    <2>4. ASSUME NEW k \in 1 .. Len(s) - 1
          PROVE  (a \o b)[k] = IF k < i THEN a[k] ELSE b[k - (i - 1)]
      BY <2>1, <2>2, <2>3, <1>2
    <2> QED BY <2>1, <2>2, <2>4
  <1>6. DOMAIN Without(s, i) = 1 .. Len(s) - 1 /\ DOMAIN s = 1 .. Len(s)
    BY <1>4, <1>5, <1>1
  <1>7. ASSUME NEW k \in DOMAIN Without(s, i)
        PROVE  Skip(i, k) \in DOMAIN s \ {i} /\ Without(s, i)[k] = s[Skip(i, k)]
    <2>1. CASE k < i
      BY <2>1, <1>1, <1>2, <1>4, <1>5, <1>6 DEF Skip
    <2>2. CASE ~(k < i)
      <3>1. k - (i - 1) \in 1 .. Len(s) - i /\ i + (k - (i - 1)) = k + 1
        BY <2>2, <1>1, <1>6
      <3>2. Without(s, i)[k] = b[k - (i - 1)]
        BY <2>2, <1>4, <1>5, <1>6
      <3>3. b[k - (i - 1)] = s[k + 1]
        BY <3>1, <1>3
      <3>4. Skip(i, k) = k + 1 /\ k + 1 \in 1 .. Len(s) /\ k + 1 # i
        BY <2>2, <1>1, <1>6 DEF Skip
      <3> QED BY <3>2, <3>3, <3>4, <1>6
    <2> QED BY <2>1, <2>2
  <1>8. \A k, l \in DOMAIN Without(s, i) : k < l => Skip(i, k) < Skip(i, l)
    BY <1>1, <1>6 DEF Skip
  <1>9. ASSUME NEW m \in DOMAIN s \ {i}
        PROVE  \E k \in DOMAIN Without(s, i) : Skip(i, k) = m
    <2>1. CASE m < i
      BY <2>1, <1>1, <1>6 DEF Skip
    <2>2. CASE m > i
      <3>1. m - 1 \in DOMAIN Without(s, i) /\ Skip(i, m - 1) = m
        BY <2>2, <1>1, <1>6 DEF Skip
      <3> QED BY <3>1
    <2> QED BY <2>1, <2>2, <1>1, <1>6
  <1> QED BY <1>4, <1>5, <1>7, <1>8, <1>9

LEMMA PrependIs ==
  ASSUME NEW S, NEW s \in Seq(S), NEW x \in S
  PROVE  /\ <<x>> \o s \in Seq(S)
         /\ 1 \in DOMAIN (<<x>> \o s) /\ (<<x>> \o s)[1] = x
         /\ \A k \in DOMAIN (<<x>> \o s) :
              k # 1 => k > 1 /\ k - 1 \in DOMAIN s /\ (<<x>> \o s)[k] = s[k - 1]
         /\ \A m \in DOMAIN s : m + 1 \in DOMAIN (<<x>> \o s) /\ (<<x>> \o s)[m + 1] = s[m]
  <1>1. <<x>> \in Seq(S) /\ Len(<<x>>) = 1 /\ <<x>>[1] = x
    OBVIOUS
  <1>2. Len(s) \in Nat /\ DOMAIN s = 1 .. Len(s)
    OBVIOUS
  <1>3. /\ <<x>> \o s \in Seq(S) /\ Len(<<x>> \o s) = Len(s) + 1
        /\ \A k \in 1 .. Len(s) + 1 : (<<x>> \o s)[k] = IF k <= 1 THEN <<x>>[k] ELSE s[k - 1]
    BY <1>1, <1>2
  <1>4. DOMAIN (<<x>> \o s) = 1 .. Len(s) + 1
    BY <1>3, <1>2
  <1> QED BY <1>1, <1>2, <1>3, <1>4

LEMMA ThreadFields ==
  ASSUME NEW TJ \in Seq(ThreadJob), NEW i \in DOMAIN TJ
  PROVE  TJ[i] \in ThreadJob /\ TJ[i].job \in Job /\ TJ[i].thread \in Thread /\ TJ[i].exited \in BOOLEAN
  <1>1. TJ[i] \in ThreadJob
    BY ElementOfSeq, LenProperties
  <1> QED BY <1>1 DEF ThreadJob

LEMMA CommandFields ==
  ASSUME NEW CJ \in Seq(CommandJob), NEW i \in DOMAIN CJ
  PROVE  CJ[i] \in CommandJob /\ CJ[i].job \in Job /\ CJ[i].pid \in Pid
  <1>1. CJ[i] \in CommandJob
    BY ElementOfSeq, LenProperties
  <1> QED BY <1>1 DEF CommandJob

\* What leaves a list of different jobs is no longer on it.
LEMMA WithoutJobs ==
  ASSUME NEW S, NEW s \in Seq(S), NEW i \in DOMAIN s, Distinct(s)
  PROVE  /\ Distinct(Without(s, i))
         /\ JobsOf(Without(s, i)) = JobsOf(s) \ {s[i].job}
  <1> DEFINE w == Without(s, i)
  <1>1. /\ \A k \in DOMAIN w : Skip(i, k) \in DOMAIN s \ {i} /\ w[k] = s[Skip(i, k)]
        /\ \A k, l \in DOMAIN w : k < l => Skip(i, k) < Skip(i, l)
        /\ \A m \in DOMAIN s \ {i} : \E k \in DOMAIN w : Skip(i, k) = m
        /\ w \in Seq(S)
    BY WithoutIs
  <1> HIDE DEF w
  <1>2. DOMAIN w \subseteq Nat /\ DOMAIN s \subseteq Nat
    BY <1>1
  <1>3. ASSUME NEW k \in DOMAIN w, NEW l \in DOMAIN w, w[k].job = w[l].job
        PROVE  k = l
    <2>1. Skip(i, k) = Skip(i, l)
      BY <1>1, <1>3 DEF Distinct
    <2>2. ~(k < l) /\ ~(l < k)
      BY <2>1, <1>1, <1>2
    <2> QED BY <2>2, <1>2
  <1>4. ASSUME NEW j
        PROVE  j \in JobsOf(w) <=> j \in JobsOf(s) /\ j # s[i].job
    <2>1. ASSUME j \in JobsOf(w) PROVE j \in JobsOf(s) /\ j # s[i].job
      <3>1. PICK k \in DOMAIN w : w[k].job = j
        BY <2>1 DEF JobsOf
      <3> QED BY <3>1, <1>1 DEF JobsOf, Distinct
    <2>2. ASSUME j \in JobsOf(s), j # s[i].job PROVE j \in JobsOf(w)
      <3>1. PICK m \in DOMAIN s : s[m].job = j
        BY <2>2 DEF JobsOf
      <3>2. PICK k \in DOMAIN w : Skip(i, k) = m
        BY <3>1, <2>2, <1>1
      <3> QED BY <3>1, <3>2, <1>1 DEF JobsOf
    <2> QED BY <2>1, <2>2
  <1> QED BY <1>3, <1>4 DEF Distinct, w

LEMMA PrependJobs ==
  ASSUME NEW S, NEW s \in Seq(S), NEW x \in S, Distinct(s), x.job \notin JobsOf(s)
  PROVE  /\ Distinct(<<x>> \o s)
         /\ JobsOf(<<x>> \o s) = JobsOf(s) \cup {x.job}
  <1> DEFINE w == <<x>> \o s
  <1>1. /\ 1 \in DOMAIN w /\ w[1] = x
        /\ \A k \in DOMAIN w : k # 1 => k > 1 /\ k - 1 \in DOMAIN s /\ w[k] = s[k - 1]
        /\ \A m \in DOMAIN s : m + 1 \in DOMAIN w /\ w[m + 1] = s[m]
        /\ w \in Seq(S)
    BY PrependIs
  <1> HIDE DEF w
  <1>2. DOMAIN w \subseteq Nat /\ DOMAIN s \subseteq Nat
    BY <1>1
  <1>3. ASSUME NEW k \in DOMAIN w, NEW l \in DOMAIN w, w[k].job = w[l].job
        PROVE  k = l
    <2>1. k = 1 \/ (k - 1 \in DOMAIN s /\ w[k].job = s[k - 1].job)
      BY <1>1
    <2>2. l = 1 \/ (l - 1 \in DOMAIN s /\ w[l].job = s[l - 1].job)
      BY <1>1
    <2>3. \A m \in DOMAIN s : s[m].job # x.job
      BY DEF JobsOf
    <2>4. CASE k = 1 \/ l = 1
      BY <2>1, <2>2, <2>3, <2>4, <1>3, <1>1
    <2>5. CASE k # 1 /\ l # 1
      <3>1. k - 1 = l - 1
        BY <2>1, <2>2, <2>5, <1>3 DEF Distinct
      <3> QED BY <3>1, <1>2
    <2> QED BY <2>4, <2>5
  <1>4. ASSUME NEW j PROVE j \in JobsOf(w) <=> j \in JobsOf(s) \/ j = x.job
    BY <1>1, <1>2 DEF JobsOf
  <1> QED BY <1>3, <1>4 DEF w, Distinct
-----------------------------------------------------------------------------
(* Handing a job over.                                                     *)

\* A job that has exited may leave the list.
LEMMA ThreadsWithout ==
  ASSUME NEW TJ \in Seq(ThreadJob), NEW th \in ThreadMap, ThreadsOK(TJ, th),
         NEW i \in DOMAIN TJ, TJ[i].exited
  PROVE  ThreadsOK(Without(TJ, i), th)
  <1> DEFINE w == Without(TJ, i)
  <1>1. /\ \A k \in DOMAIN w : Skip(i, k) \in DOMAIN TJ \ {i} /\ w[k] = TJ[Skip(i, k)]
        /\ \A k, l \in DOMAIN w : k < l => Skip(i, k) < Skip(i, l)
        /\ \A m \in DOMAIN TJ \ {i} : \E k \in DOMAIN w : Skip(i, k) = m
    BY WithoutIs
  <1>2. Distinct(w)
    BY WithoutJobs DEF ThreadsOK
  <1> HIDE DEF w
  <1>3. ASSUME NEW t \in Thread, th[t].at \in {"created", "running"}
        PROVE  \E k \in DOMAIN w : w[k].thread = t /\ ~w[k].exited
    <2>1. PICK m \in DOMAIN TJ : TJ[m].thread = t /\ ~TJ[m].exited
      BY <1>3 DEF ThreadsOK
    <2>2. PICK k \in DOMAIN w : Skip(i, k) = m
      BY <2>1, <1>1
    <2> QED BY <2>1, <2>2, <1>1
  <1>4. ASSUME NEW k \in DOMAIN w, ~w[k].exited
        PROVE  th[w[k].thread].at \in {"created", "running"} /\ th[w[k].thread].job = w[k].job
    BY <1>1, <1>4 DEF ThreadsOK
  <1>5. ASSUME NEW k \in DOMAIN w, NEW l \in DOMAIN w, k < l, w[k].thread = w[l].thread
        PROVE  w[l].exited
    <2>1. Skip(i, k) < Skip(i, l) /\ TJ[Skip(i, k)].thread = TJ[Skip(i, l)].thread
      BY <1>1, <1>5
    <2> QED BY <2>1, <1>1 DEF ThreadsOK
  <1>6. \A t \in Thread :
          /\ th[t].at = "none" => th[t] = NoThread
          /\ th[t].at # "none" =>
               th[t].job \in Job /\ th[t].runs = IF th[t].at = "created" THEN NoJob ELSE th[t].job
    BY DEF ThreadsOK
  <1> QED BY <1>2, <1>3, <1>4, <1>5, <1>6 DEF ThreadsOK, w

\* A new thread has its job in front, whatever is left of an older thread of
\* the same identifier.
LEMMA ThreadsPrepend ==
  ASSUME NEW TJ \in Seq(ThreadJob), NEW th \in ThreadMap, ThreadsOK(TJ, th),
         NEW t \in Thread, th[t] = NoThread, NEW j \in Job, j \notin JobsOf(TJ),
         NEW x, x = [job |-> j, thread |-> t, exited |-> FALSE],
         NEW to, to = [th EXCEPT ![t] = [at |-> "created", job |-> j, runs |-> NoJob]]
  PROVE  /\ to \in ThreadMap /\ <<x>> \o TJ \in Seq(ThreadJob)
         /\ ThreadsOK(<<x>> \o TJ, to)
  <1> DEFINE w == <<x>> \o TJ
  <1>1. x \in ThreadJob /\ x.job = j /\ x.thread = t /\ x.exited = FALSE
    BY DEF ThreadJob
  <1>2. /\ w \in Seq(ThreadJob)
        /\ 1 \in DOMAIN w /\ w[1] = x
        /\ \A k \in DOMAIN w : k # 1 => k > 1 /\ k - 1 \in DOMAIN TJ /\ w[k] = TJ[k - 1]
        /\ \A m \in DOMAIN TJ : m + 1 \in DOMAIN w /\ w[m + 1] = TJ[m]
    BY <1>1, PrependIs
  <1>3. Distinct(w)
    BY <1>1, PrependJobs DEF ThreadsOK
  <1> HIDE DEF w
  <1>4. /\ to \in ThreadMap
        /\ to[t].at = "created" /\ to[t].job = j /\ to[t].runs = NoJob
        /\ \A u \in Thread : u # t => to[u] = th[u]
    BY DEF ThreadMap
  <1>5. DOMAIN w \subseteq Nat /\ DOMAIN TJ \subseteq Nat
    BY <1>2
  <1>6. \A k \in DOMAIN TJ : TJ[k].thread \in Thread
    BY ThreadFields
  <1>7. \A k \in DOMAIN TJ : TJ[k].thread = t => TJ[k].exited
    BY DEF ThreadsOK, NoThread
  <1>8. ASSUME NEW u \in Thread
        PROVE  /\ to[u].at = "none" => to[u] = NoThread
               /\ to[u].at # "none" =>
                    to[u].job \in Job /\ to[u].runs = IF to[u].at = "created" THEN NoJob ELSE to[u].job
    <2>1. CASE u = t
      BY <2>1, <1>4
    <2>2. CASE u # t
      BY <2>2, <1>4 DEF ThreadsOK
    <2> QED BY <2>1, <2>2
  <1>9. ASSUME NEW u \in Thread, to[u].at \in {"created", "running"}
        PROVE  \E k \in DOMAIN w : w[k].thread = u /\ ~w[k].exited
    <2>1. CASE u = t
      BY <2>1, <1>1, <1>2
    <2>2. CASE u # t
      <3>1. PICK m \in DOMAIN TJ : TJ[m].thread = u /\ ~TJ[m].exited
        BY <2>2, <1>9, <1>4 DEF ThreadsOK
      <3> QED BY <3>1, <1>2
    <2> QED BY <2>1, <2>2
  <1>10. ASSUME NEW k \in DOMAIN w, ~w[k].exited
         PROVE  to[w[k].thread].at \in {"created", "running"} /\ to[w[k].thread].job = w[k].job
    <2>1. CASE k = 1
      BY <2>1, <1>1, <1>2, <1>4
    <2>2. CASE k # 1
      <3>1. k - 1 \in DOMAIN TJ /\ w[k] = TJ[k - 1]
        BY <2>2, <1>2
      <3>2. TJ[k - 1].thread \in Thread \ {t}
        BY <3>1, <1>6, <1>7, <1>10
      <3> QED BY <3>1, <3>2, <1>10, <1>4 DEF ThreadsOK
    <2> QED BY <2>1, <2>2
  <1>11. ASSUME NEW k \in DOMAIN w, NEW l \in DOMAIN w, k < l, w[k].thread = w[l].thread
         PROVE  w[l].exited
    <2>1. l - 1 \in DOMAIN TJ /\ w[l] = TJ[l - 1]
      <3>1. l # 1
        BY <1>2, <1>5, <1>11
      <3> QED BY <3>1, <1>2
    <2>2. CASE k = 1
      BY <2>1, <2>2, <1>1, <1>2, <1>7, <1>11
    <2>3. CASE k # 1
      <3>1. k - 1 \in DOMAIN TJ /\ w[k] = TJ[k - 1] /\ k - 1 < l - 1
        BY <2>3, <1>2, <1>5, <1>11
      <3> QED BY <3>1, <2>1, <1>11 DEF ThreadsOK
    <2> QED BY <2>2, <2>3
  <1>12. ThreadsOK(w, to)
    BY <1>3, <1>8, <1>9, <1>10, <1>11 DEF ThreadsOK
  <1> QED BY <1>2, <1>4, <1>12 DEF w

\* The child that was waited for is the one whose job leaves the list.
LEMMA CommandsWithout ==
  ASSUME NEW CJ \in Seq(CommandJob), NEW pr \in ProcessMap, CommandsOK(CJ, pr),
         NEW i \in DOMAIN CJ, NEW p \in Pid, CJ[i].pid = p,
         NEW to, to = [pr EXCEPT ![p] = NoProcess]
  PROVE  to \in ProcessMap /\ CommandsOK(Without(CJ, i), to)
  <1> DEFINE w == Without(CJ, i)
  <1>1. /\ w \in Seq(CommandJob)
        /\ \A k \in DOMAIN w : Skip(i, k) \in DOMAIN CJ \ {i} /\ w[k] = CJ[Skip(i, k)]
        /\ \A m \in DOMAIN CJ \ {i} : \E k \in DOMAIN w : Skip(i, k) = m
    BY WithoutIs
  <1>2. Distinct(w)
    BY WithoutJobs DEF CommandsOK
  <1> HIDE DEF w
  <1>3. NoProcess \in [at : {"none", "running", "exited"}, job : Job \cup {NoJob}]
    BY DEF NoProcess
  <1>4. to \in ProcessMap /\ to[p] = NoProcess /\ \A q \in Pid : q # p => to[q] = pr[q]
    BY <1>3 DEF ProcessMap
  <1>5. \A k \in DOMAIN CJ : CJ[k].pid \in Pid
    BY CommandFields
  <1>6. \A k \in DOMAIN CJ : CJ[k].pid = p => k = i
    BY DEF CommandsOK, Distinct
  <1>7. ASSUME NEW q \in Pid
        PROVE  /\ to[q].at = "none" => to[q] = NoProcess
               /\ to[q].at # "none" => \E k \in DOMAIN w : w[k].pid = q
    <2>1. CASE q = p
      BY <2>1, <1>4 DEF NoProcess
    <2>2. CASE q # p
      <3>1. pr[q].at = "none" => to[q] = NoProcess
        BY <2>2, <1>4 DEF CommandsOK
      <3>2. ASSUME pr[q].at # "none" PROVE \E k \in DOMAIN w : w[k].pid = q
        <4>1. PICK m \in DOMAIN CJ : CJ[m].pid = q
          BY <3>2 DEF CommandsOK
        <4>2. PICK k \in DOMAIN w : Skip(i, k) = m
          BY <4>1, <2>2, <1>1
        <4> QED BY <4>1, <4>2, <1>1
      <3> QED BY <3>1, <3>2, <2>2, <1>4
    <2> QED BY <2>1, <2>2
  <1>8. ASSUME NEW k \in DOMAIN w
        PROVE  to[w[k].pid].at # "none" /\ to[w[k].pid].job = w[k].job
    <2>1. Skip(i, k) \in DOMAIN CJ /\ w[k] = CJ[Skip(i, k)] /\ w[k].pid # p /\ w[k].pid \in Pid
      BY <1>1, <1>5, <1>6
    <2> QED BY <2>1, <1>4 DEF CommandsOK
  <1>9. CommandsOK(w, to)
    BY <1>2, <1>7, <1>8 DEF CommandsOK
  <1> QED BY <1>4, <1>9 DEF w

LEMMA CommandsPrepend ==
  ASSUME NEW CJ \in Seq(CommandJob), NEW pr \in ProcessMap, CommandsOK(CJ, pr),
         NEW p \in Pid, pr[p] = NoProcess, NEW j \in Job, j \notin JobsOf(CJ), NEW piped \in BOOLEAN,
         NEW x, x = [job |-> j, pid |-> p, piped |-> piped],
         NEW to, to = [pr EXCEPT ![p] = [at |-> "running", job |-> j]]
  PROVE  /\ to \in ProcessMap /\ <<x>> \o CJ \in Seq(CommandJob)
         /\ CommandsOK(<<x>> \o CJ, to)
  <1> DEFINE w == <<x>> \o CJ
  <1>1. x \in CommandJob /\ x.job = j /\ x.pid = p
    BY DEF CommandJob
  <1>2. /\ w \in Seq(CommandJob)
        /\ 1 \in DOMAIN w /\ w[1] = x
        /\ \A k \in DOMAIN w : k # 1 => k > 1 /\ k - 1 \in DOMAIN CJ /\ w[k] = CJ[k - 1]
        /\ \A m \in DOMAIN CJ : m + 1 \in DOMAIN w /\ w[m + 1] = CJ[m]
    BY <1>1, PrependIs
  <1>3. Distinct(w)
    BY <1>1, PrependJobs DEF CommandsOK
  <1> HIDE DEF w
  <1>4. /\ to \in ProcessMap
        /\ to[p].at = "running" /\ to[p].job = j
        /\ \A q \in Pid : q # p => to[q] = pr[q]
    BY DEF ProcessMap
  <1>5. \A k \in DOMAIN CJ : CJ[k].pid \in Pid \ {p}
    <2>1. pr[p].at = "none"
      BY DEF NoProcess
    <2> QED BY <2>1, CommandFields DEF CommandsOK
  <1>6. ASSUME NEW q \in Pid
        PROVE  /\ to[q].at = "none" => to[q] = NoProcess
               /\ to[q].at # "none" => \E k \in DOMAIN w : w[k].pid = q
    <2>1. CASE q = p
      BY <2>1, <1>1, <1>2, <1>4
    <2>2. CASE q # p
      BY <2>2, <1>2, <1>4 DEF CommandsOK
    <2> QED BY <2>1, <2>2
  <1>7. ASSUME NEW k \in DOMAIN w
        PROVE  to[w[k].pid].at # "none" /\ to[w[k].pid].job = w[k].job
    <2>1. CASE k = 1
      BY <2>1, <1>1, <1>2, <1>4
    <2>2. CASE k # 1
      <3>1. k - 1 \in DOMAIN CJ /\ w[k] = CJ[k - 1] /\ w[k].pid \in Pid \ {p}
        BY <2>2, <1>2, <1>5
      <3> QED BY <3>1, <1>4 DEF CommandsOK
    <2> QED BY <2>1, <2>2
  <1>8. CommandsOK(w, to)
    BY <1>3, <1>6, <1>7 DEF CommandsOK
  <1> QED BY <1>2, <1>4, <1>8 DEF w

\* The jobs that have ended and wait for their callback.
Exited(TJ)   == {j \in JobsOf(TJ) : \E i \in DOMAIN TJ : TJ[i].job = j /\ TJ[i].exited}
Children(pr) == {j \in Job : \E p \in Pid : pr[p].at = "exited" /\ pr[p].job = j}

\* The lists as a caller of DAThreadExecute or DACommandExecute leaves them,
\* which wants to hand j over.
Ready(j, TJ, CJ) ==
  /\ TJ \in Seq(ThreadJob) /\ thread \in ThreadMap /\ ThreadsOK(TJ, thread)
  /\ CJ \in Seq(CommandJob) /\ process \in ProcessMap /\ CommandsOK(CJ, process)
  /\ JobsOf(TJ) \cap JobsOf(CJ) = {}
  /\ j \in Job /\ j \notin JobsOf(TJ) /\ j \notin JobsOf(CJ)

\* What the caller finds after it.
HandedOver(j, how, TJ, CJ) ==
  /\ threadJobs' \in Seq(ThreadJob) /\ thread' \in ThreadMap /\ ThreadsOK(threadJobs', thread')
  /\ commandJobs' \in Seq(CommandJob) /\ process' \in ProcessMap /\ CommandsOK(commandJobs', process')
  /\ JobsOf(threadJobs') \cap JobsOf(commandJobs') = {}
  /\ failed' \in {j, NoJob}
  /\ failed' \notin JobsOf(threadJobs') /\ failed' \notin JobsOf(commandJobs')
  /\ \/ /\ how = "nothing" /\ failed' = NoJob
        /\ JobsOf(threadJobs') \cup JobsOf(commandJobs') = JobsOf(TJ) \cup JobsOf(CJ)
     \/ /\ how # "nothing" /\ failed' = NoJob
        /\ JobsOf(threadJobs') \cup JobsOf(commandJobs') = JobsOf(TJ) \cup JobsOf(CJ) \cup {j}
     \/ /\ how # "nothing" /\ failed' = j
        /\ JobsOf(threadJobs') \cup JobsOf(commandJobs') = JobsOf(TJ) \cup JobsOf(CJ)
  /\ Exited(threadJobs') = Exited(TJ) /\ Children(process') = Children(process)
  /\ \A t \in Thread : thread[t].at = "exited" => thread'[t].at = "exited"

LEMMA JobsAreJobs ==
  ASSUME NEW TJ \in Seq(ThreadJob), NEW CJ \in Seq(CommandJob)
  PROVE  JobsOf(TJ) \subseteq Job /\ JobsOf(CJ) \subseteq Job
         /\ NoJob \notin JobsOf(TJ) /\ NoJob \notin JobsOf(CJ)
  <1>1. JobsOf(TJ) \subseteq Job
    BY ThreadFields DEF JobsOf
  <1>2. JobsOf(CJ) \subseteq Job
    BY CommandFields DEF JobsOf
  <1> QED BY <1>1, <1>2, WorkerAssumption

LEMMA ThreadStarted ==
  ASSUME NEW j, NEW how, NEW TJ, NEW CJ, Ready(j, TJ, CJ), how # "nothing", ThreadExecute(j, TJ, CJ)
  PROVE  HandedOver(j, how, TJ, CJ)
  <1>1. PICK t \in Thread :
          /\ thread[t] = NoThread
          /\ thread' = [thread EXCEPT ![t] = [at |-> "created", job |-> j, runs |-> NoJob]]
          /\ threadJobs' = <<[job |-> j, thread |-> t, exited |-> FALSE]>> \o TJ
          /\ commandJobs' = CJ /\ failed' = NoJob /\ process' = process
    BY DEF ThreadExecute
  <1> DEFINE x == [job |-> j, thread |-> t, exited |-> FALSE]
  <1>2. x \in ThreadJob /\ x.job = j /\ x.exited = FALSE
    BY DEF Ready, ThreadJob
  <1>3. /\ thread' \in ThreadMap /\ threadJobs' \in Seq(ThreadJob)
        /\ ThreadsOK(threadJobs', thread')
    BY <1>1, ThreadsPrepend DEF Ready
  <1>4. JobsOf(threadJobs') = JobsOf(TJ) \cup {j}
    <2>1. Distinct(TJ) /\ TJ \in Seq(ThreadJob) /\ j \notin JobsOf(TJ)
      BY DEF Ready, ThreadsOK
    <2>2. threadJobs' = <<x>> \o TJ
      BY <1>1
    <2> HIDE DEF x
    <2> QED BY <2>1, <2>2, <1>2, PrependJobs
  <1>5. /\ 1 \in DOMAIN threadJobs' /\ threadJobs'[1] = x
        /\ \A k \in DOMAIN threadJobs' :
             k # 1 => k > 1 /\ k - 1 \in DOMAIN TJ /\ threadJobs'[k] = TJ[k - 1]
        /\ \A m \in DOMAIN TJ : m + 1 \in DOMAIN threadJobs' /\ threadJobs'[m + 1] = TJ[m]
    BY <1>1, <1>2, PrependIs DEF Ready
  <1> HIDE DEF x
  <1>6. Exited(threadJobs') = Exited(TJ)
    <2>1. ASSUME NEW k \in DOMAIN threadJobs', threadJobs'[k].exited
          PROVE  \E m \in DOMAIN TJ : TJ[m].exited /\ TJ[m].job = threadJobs'[k].job
      <3>1. k # 1
        BY <2>1, <1>2, <1>5
      <3> QED BY <3>1, <2>1, <1>5
    <2>2. \A m \in DOMAIN TJ : TJ[m].exited =>
            \E k \in DOMAIN threadJobs' : threadJobs'[k].exited /\ threadJobs'[k].job = TJ[m].job
      BY <1>5
    <2>3. ASSUME NEW i PROVE i \in Exited(threadJobs') <=> i \in Exited(TJ)
      BY <2>1, <2>2 DEF Exited, JobsOf
    <2> QED BY <2>3
  <1>7. \A u \in Thread : thread[u].at = "exited" => thread'[u].at = "exited"
    BY <1>1 DEF Ready, ThreadMap, NoThread
  <1>8. NoJob \notin JobsOf(threadJobs') /\ NoJob \notin JobsOf(commandJobs')
    BY <1>1, <1>3, JobsAreJobs DEF Ready
  <1>9. JobsOf(threadJobs') \cap JobsOf(commandJobs') = {}
    BY <1>1, <1>4 DEF Ready
  <1>10. JobsOf(threadJobs') \cup JobsOf(commandJobs') = JobsOf(TJ) \cup JobsOf(CJ) \cup {j}
    BY <1>1, <1>4
  <1> QED BY <1>1, <1>3, <1>6, <1>7, <1>8, <1>9, <1>10 DEF HandedOver, Ready

LEMMA CommandStarted ==
  ASSUME NEW j, NEW how, NEW TJ, NEW CJ, NEW piped \in BOOLEAN,
         Ready(j, TJ, CJ), how # "nothing", CommandExecute(j, piped, TJ, CJ)
  PROVE  HandedOver(j, how, TJ, CJ)
  <1>1. PICK p \in Pid :
          /\ process[p] = NoProcess
          /\ process' = [process EXCEPT ![p] = [at |-> "running", job |-> j]]
          /\ commandJobs' = <<[job |-> j, pid |-> p, piped |-> piped]>> \o CJ
          /\ threadJobs' = TJ /\ failed' = NoJob /\ thread' = thread
    BY DEF CommandExecute
  <1> DEFINE x == [job |-> j, pid |-> p, piped |-> piped]
  <1>2. x \in CommandJob /\ x.job = j
    BY DEF Ready, CommandJob
  <1>3. /\ process' \in ProcessMap /\ commandJobs' \in Seq(CommandJob)
        /\ CommandsOK(commandJobs', process')
    BY <1>1, CommandsPrepend DEF Ready
  <1>4. JobsOf(commandJobs') = JobsOf(CJ) \cup {j}
    BY <1>1, <1>2, PrependJobs DEF Ready, CommandsOK
  <1> HIDE DEF x
  <1>5. /\ process'[p].at = "running" /\ process[p].at = "none"
        /\ \A q \in Pid : q # p => process'[q] = process[q]
    BY <1>1 DEF Ready, ProcessMap, NoProcess
  <1>6. Children(process') = Children(process)
    <2>1. ASSUME NEW i PROVE i \in Children(process') <=> i \in Children(process)
      BY <1>5 DEF Children
    <2> QED BY <2>1
  <1>8. NoJob \notin JobsOf(threadJobs') /\ NoJob \notin JobsOf(commandJobs')
    BY <1>1, <1>3, JobsAreJobs DEF Ready
  <1>9. JobsOf(threadJobs') \cap JobsOf(commandJobs') = {}
    BY <1>1, <1>4 DEF Ready
  <1>10. JobsOf(threadJobs') \cup JobsOf(commandJobs') = JobsOf(TJ) \cup JobsOf(CJ) \cup {j}
    BY <1>1, <1>4
  <1> QED BY <1>1, <1>3, <1>6, <1>8, <1>9, <1>10 DEF HandedOver, Ready

LEMMA HandOverWorks ==
  ASSUME NEW j, NEW how, NEW TJ, NEW CJ, Ready(j, TJ, CJ), HandOver(j, how, TJ, CJ)
  PROVE  HandedOver(j, how, TJ, CJ)
  <1>1. CASE how = "thread" /\ ThreadExecute(j, TJ, CJ)
    BY <1>1, ThreadStarted
  <1>2. CASE how = "command" /\ CommandExecute(j, FALSE, TJ, CJ)
    BY <1>2, CommandStarted
  <1>3. CASE how = "pipe" /\ CommandExecute(j, TRUE, TJ, CJ)
    BY <1>3, CommandStarted
  <1>4. NoJob \notin JobsOf(TJ) /\ NoJob \notin JobsOf(CJ)
    BY JobsAreJobs DEF Ready
  <1>5. CASE how # "nothing" /\ Refused(j, TJ, CJ)
    BY <1>5 DEF Refused, HandedOver, Ready
  <1>6. CASE /\ how = "nothing"
             /\ failed' = NoJob /\ threadJobs' = TJ /\ commandJobs' = CJ
             /\ UNCHANGED <<thread, process>>
    BY <1>6, <1>4 DEF HandedOver, Ready
  <1> QED BY <1>1, <1>2, <1>3, <1>5, <1>6 DEF HandOver

-----------------------------------------------------------------------------
(* One step.                                                               *)

LEMMA TypeIs ==
  WorkerTypeOK <=>
    /\ threadJobs \in Seq(ThreadJob) /\ thread \in ThreadMap /\ threadMail \in Nat
    /\ commandJobs \in Seq(CommandJob) /\ process \in ProcessMap /\ commandMail \in Nat
    /\ lingering \in SUBSET Job /\ signal \in BOOLEAN
    /\ loop \in {"free", "threads", "commands"}
    /\ reaped \in Job \cup {NoJob} /\ failed \in Job \cup {NoJob}
  BY DEF WorkerTypeOK, ThreadJob, ThreadMap, CommandJob, ProcessMap

LEMMA TypeIsNext ==
  WorkerTypeOK' <=>
    /\ threadJobs' \in Seq(ThreadJob) /\ thread' \in ThreadMap /\ threadMail' \in Nat
    /\ commandJobs' \in Seq(CommandJob) /\ process' \in ProcessMap /\ commandMail' \in Nat
    /\ lingering' \in SUBSET Job /\ signal' \in BOOLEAN
    /\ loop' \in {"free", "threads", "commands"}
    /\ reaped' \in Job \cup {NoJob} /\ failed' \in Job \cup {NoJob}
  BY DEF WorkerTypeOK, ThreadJob, ThreadMap, CommandJob, ProcessMap

\* A child that has exited is on the list.
LEMMA ChildrenAreListed ==
  ASSUME NEW CJ \in Seq(CommandJob), NEW pr \in ProcessMap, CommandsOK(CJ, pr)
  PROVE  Children(pr) \subseteq JobsOf(CJ)
  <1>1. ASSUME NEW p \in Pid, pr[p].at = "exited"
        PROVE  pr[p].job \in JobsOf(CJ)
    BY <1>1 DEF CommandsOK, JobsOf
  <1> QED BY <1>1 DEF Children

At(r, f) == {r, f} \ {NoJob}

PendingIs ==
  /\ Pending = JobsOf(threadJobs) \cup JobsOf(commandJobs) \cup At(reaped, failed)
  /\ Ended = At(reaped, failed) \cup Exited(threadJobs) \cup Children(process)

LEMMA PendingJobs == Workers => PendingIs
  <1> SUFFICES ASSUME Workers PROVE PendingIs
    OBVIOUS
  <1>1. Pending = JobsOf(threadJobs) \cup JobsOf(commandJobs) \cup At(reaped, failed)
    BY DEF Pending, InList, JobsOf, At
  <1>2. /\ threadJobs \in Seq(ThreadJob) /\ commandJobs \in Seq(CommandJob)
        /\ process \in ProcessMap /\ CommandsOK(commandJobs, process)
        /\ reaped \in Job \cup {NoJob} /\ failed \in Job \cup {NoJob}
    BY TypeIs DEF Workers
  <1>3. JobsOf(threadJobs) \subseteq Job /\ JobsOf(commandJobs) \subseteq Job
        /\ NoJob \notin Job /\ Children(process) \subseteq JobsOf(commandJobs)
    BY <1>2, JobsAreJobs, ChildrenAreListed, WorkerAssumption
  <1>4. ASSUME NEW j
        PROVE  j \in Ended <=>
                 \/ j \in At(reaped, failed)
                 \/ j \in Exited(threadJobs) \/ j \in Children(process)
    <2>1. j \in Ended <=>
            /\ j \in Pending
            /\ \/ j \in {reaped, failed}
               \/ \E i \in DOMAIN threadJobs : threadJobs[i].job = j /\ threadJobs[i].exited
               \/ \E p \in Pid : process[p].at = "exited" /\ process[p].job = j
      BY DEF Ended
    <2>2. j \in Exited(threadJobs) <=>
            j \in JobsOf(threadJobs) /\ \E i \in DOMAIN threadJobs : threadJobs[i].job = j /\ threadJobs[i].exited
      BY DEF Exited
    <2>3. j \in Children(process) <=>
            j \in Job /\ \E p \in Pid : process[p].at = "exited" /\ process[p].job = j
      BY DEF Children
    <2>4. (\E i \in DOMAIN threadJobs : threadJobs[i].job = j /\ threadJobs[i].exited)
            => j \in JobsOf(threadJobs)
      BY DEF JobsOf
    <2>5. j \in At(reaped, failed) <=> j \in {reaped, failed} /\ j # NoJob
      BY DEF At
    <2>6. j \in Pending => j \in Job
      BY <1>1, <1>2, <1>3, <2>5
    <2> QED BY <1>1, <1>3, <2>1, <2>2, <2>3, <2>4, <2>5, <2>6
  <1> QED BY <1>1, <1>4 DEF PendingIs

LEMMA PendingJobsNext == Workers' => PendingIs'
  BY PendingJobs, PTL

\* The end of what is on a list is noticed, in terms of the jobs.
Noticed ==
  /\ Exited(threadJobs) # {} =>
       loop = "threads" \/ threadMail > 0 \/ \E t \in Thread : thread[t].at = "exited"
  /\ Children(process) # {} => loop = "commands" \/ commandMail > 0 \/ signal

LEMMA NoticedIs == Workers => (NoEndMissed <=> Noticed)
  <1> SUFFICES ASSUME Workers PROVE NoEndMissed <=> Noticed
    OBVIOUS
  <1>1. (\E i \in DOMAIN threadJobs : threadJobs[i].exited) <=> Exited(threadJobs) # {}
    BY DEF Exited, JobsOf
  <1>2. /\ process \in ProcessMap /\ commandJobs \in Seq(CommandJob) /\ CommandsOK(commandJobs, process)
    BY TypeIs DEF Workers
  <1>3. ASSUME NEW p \in Pid, process[p].at = "exited" PROVE process[p].job \in Job
    <2>1. PICK i \in DOMAIN commandJobs : commandJobs[i].pid = p
      BY <1>2, <1>3 DEF CommandsOK
    <2>2. commandJobs[i].job \in Job
      BY <1>2, CommandFields
    <2> QED BY <1>2, <2>1, <2>2 DEF CommandsOK
  <1>4. (\E p \in Pid : process[p].at = "exited") <=> Children(process) # {}
    BY <1>3 DEF Children
  <1> QED BY <1>1, <1>4 DEF NoEndMissed, Noticed

LEMMA NoticedIsNext == Workers' => (NoEndMissed' <=> Noticed')
  BY NoticedIs, PTL

\* What every step comes to: the invariant, no end missed, and a step of DAWork.
WorkStep == [Work!Next]_<<Pending, Ended>>
StepWorks == Workers' /\ Noticed' /\ WorkStep

\* The other variables while a job is handed over.
Aside == UNCHANGED <<threadMail, lingering, signal, commandMail, loop>> /\ reaped' = NoJob

LEMMA HandOverKeeps ==
  ASSUME Workers, Noticed, NEW j, NEW how, NEW TJ, NEW CJ,
         Ready(j, TJ, CJ), HandOver(j, how, TJ, CJ), Aside, Exited(TJ) \subseteq Exited(threadJobs)
  PROVE  Workers' /\ Noticed' /\ HandedOver(j, how, TJ, CJ)
  <1>1. HandedOver(j, how, TJ, CJ)
    BY HandOverWorks
  <1>2. j \in Job
    BY DEF Ready
  <1>3. WorkerTypeOK'
    BY <1>1, <1>2, TypeIs, TypeIsNext DEF Workers, Aside, HandedOver
  <1>4. NoJob \notin JobsOf(threadJobs') /\ NoJob \notin JobsOf(commandJobs')
    BY <1>1, JobsAreJobs DEF HandedOver
  <1>5. Apart(threadJobs', commandJobs', reaped', failed')
    BY <1>1, <1>4 DEF Apart, HandedOver, Aside
  <1>6. Workers'
    BY <1>1, <1>3, <1>5 DEF Workers, HandedOver, Aside
  <1>7. Exited(threadJobs') \subseteq Exited(threadJobs) /\ Children(process') = Children(process)
        /\ \A t \in Thread : thread[t].at = "exited" => thread'[t].at = "exited"
    BY <1>1 DEF HandedOver
  <1>8. Noticed'
    BY <1>7 DEF Noticed, Aside
  <1> QED BY <1>1, <1>6, <1>8

LEMMA StartWorks ==
  ASSUME Workers, Noticed, NEW j \in Job, NEW how, j \notin Pending, Start(j, how)
  PROVE  StepWorks /\ Pending' = IF how = "nothing" THEN Pending ELSE Pending \cup {j}
  <1>1. /\ loop = "free" /\ failed = NoJob /\ reaped = NoJob
        /\ HandOver(j, how, threadJobs, commandJobs) /\ Aside
    BY DEF Start, Free, Workers, Aside
  <1>2. PendingIs
    BY PendingJobs
  <1>3. j \notin JobsOf(threadJobs) /\ j \notin JobsOf(commandJobs)
    BY <1>2 DEF PendingIs
  <1>4. Ready(j, threadJobs, commandJobs)
    BY <1>3, TypeIs DEF Ready, Workers, Apart
  <1>5. Workers' /\ Noticed' /\ HandedOver(j, how, threadJobs, commandJobs)
    BY <1>1, <1>4, HandOverKeeps
  <1>6. PendingIs'
    BY <1>5, PendingJobsNext
  <1>7. At(reaped, failed) = {} /\ At(reaped', failed') = {failed'} \ {NoJob}
    BY <1>1 DEF At, Aside
  <1>8. NoJob # j
    BY WorkerAssumption
  <1> DEFINE P == JobsOf(threadJobs) \cup JobsOf(commandJobs)
             E == Exited(threadJobs) \cup Children(process)
             Q == JobsOf(threadJobs') \cup JobsOf(commandJobs')
             F == Exited(threadJobs') \cup Children(process')
  <1>9. Pending = P /\ Ended = E
    BY <1>2, <1>7 DEF PendingIs
  <1>10. Pending' = Q \cup ({failed'} \ {NoJob}) /\ Ended' = F \cup ({failed'} \ {NoJob})
    BY <1>6, <1>7 DEF PendingIs
  <1>11. /\ F = E
         /\ \/ how = "nothing" /\ failed' = NoJob /\ Q = P
            \/ how # "nothing" /\ failed' = NoJob /\ Q = P \cup {j}
            \/ how # "nothing" /\ failed' = j /\ Q = P
    BY <1>5 DEF HandedOver
  <1> HIDE DEF P, Q, E, F
  <1>12. \/ how = "nothing" /\ Pending' = Pending /\ Ended' = Ended
         \/ how # "nothing" /\ Pending' = Pending \cup {j} /\ Ended' = Ended
         \/ how # "nothing" /\ Pending' = Pending \cup {j} /\ Ended' = Ended \cup {j}
    BY <1>8, <1>9, <1>10, <1>11
  <1>13. WorkStep
    BY <1>12 DEF WorkStep, Work!Next, Work!Start
  <1> QED BY <1>5, <1>12, <1>13 DEF StepWorks

LEMMA CallBackWorks ==
  ASSUME Workers, Noticed, NEW j \in Job, NEW how, NEW TJ, NEW CJ,
         Ready(j, TJ, CJ), HandOver(j, how, TJ, CJ), Aside, Exited(TJ) \subseteq Exited(threadJobs),
         j \in Ended,
         Pending \ {j} = JobsOf(TJ) \cup JobsOf(CJ), Ended \ {j} = Exited(TJ) \cup Children(process)
  PROVE  StepWorks /\ j \in Pending /\ Pending' = IF how = "nothing" THEN Pending \ {j} ELSE Pending
  <1>5. Workers' /\ Noticed' /\ HandedOver(j, how, TJ, CJ)
    BY HandOverKeeps
  <1>6. PendingIs'
    BY <1>5, PendingJobsNext
  <1>7. At(reaped', failed') = {failed'} \ {NoJob}
    BY DEF At, Aside
  <1>8. NoJob # j /\ j \in Pending
    BY WorkerAssumption DEF Ended
  <1> DEFINE P == JobsOf(TJ) \cup JobsOf(CJ)
             E == Exited(TJ) \cup Children(process)
             Q == JobsOf(threadJobs') \cup JobsOf(commandJobs')
             F == Exited(threadJobs') \cup Children(process')
  <1>10. Pending' = Q \cup ({failed'} \ {NoJob}) /\ Ended' = F \cup ({failed'} \ {NoJob})
    BY <1>6, <1>7 DEF PendingIs
  <1>11. /\ F = E
         /\ \/ how = "nothing" /\ failed' = NoJob /\ Q = P
            \/ how # "nothing" /\ failed' = NoJob /\ Q = P \cup {j}
            \/ how # "nothing" /\ failed' = j /\ Q = P
    BY <1>5 DEF HandedOver
  <1>12. Pending \ {j} = P /\ Ended \ {j} = E
    OBVIOUS
  <1> HIDE DEF P, Q, E, F
  <1>13. \/ how = "nothing" /\ Pending' = Pending \ {j} /\ Ended' = Ended \ {j}
         \/ how # "nothing" /\ Pending' = Pending /\ Ended' = Ended \ {j}
         \/ how # "nothing" /\ Pending' = Pending /\ Ended' = Ended
    BY <1>8, <1>10, <1>11, <1>12
  <1>14. WorkStep
    BY <1>13 DEF WorkStep, Work!Next, Work!CallBack
  <1> QED BY <1>5, <1>8, <1>13, <1>14 DEF StepWorks

LEMMA ThreadCallsBackWorks ==
  ASSUME Workers, Noticed, NEW j \in Job, NEW how, ThreadCallsBack(j, how)
  PROVE  StepWorks /\ j \in Pending /\ Pending' = IF how = "nothing" THEN Pending \ {j} ELSE Pending
  <1>1. PICK i \in DOMAIN threadJobs :
          /\ threadJobs[i].exited /\ threadJobs[i].job = j
          /\ HandOver(j, how, Without(threadJobs, i), commandJobs)
    BY DEF ThreadCallsBack
  <1>2. loop = "threads" /\ failed = NoJob /\ reaped = NoJob /\ Aside
    BY DEF ThreadCallsBack, Workers, Aside
  <1> DEFINE TJ == Without(threadJobs, i)
  <1>3. threadJobs \in Seq(ThreadJob) /\ thread \in ThreadMap /\ ThreadsOK(threadJobs, thread)
        /\ Distinct(threadJobs)
    BY TypeIs DEF Workers, ThreadsOK
  <1>4. ThreadsOK(TJ, thread) /\ TJ \in Seq(ThreadJob)
    BY <1>1, <1>3, ThreadsWithout, WithoutIs
  <1>5. JobsOf(TJ) = JobsOf(threadJobs) \ {j}
    BY <1>1, <1>3, WithoutJobs
  <1>6. /\ \A k \in DOMAIN TJ : Skip(i, k) \in DOMAIN threadJobs \ {i} /\ TJ[k] = threadJobs[Skip(i, k)]
        /\ \A m \in DOMAIN threadJobs \ {i} : \E k \in DOMAIN TJ : Skip(i, k) = m
    BY <1>3, WithoutIs
  <1> HIDE DEF TJ
  <1>7. Exited(TJ) = Exited(threadJobs) \ {j}
    <2>1. ASSUME NEW e \in Exited(TJ) PROVE e \in Exited(threadJobs) \ {j}
      BY <2>1, <1>5, <1>6 DEF Exited
    <2>2. ASSUME NEW e \in Exited(threadJobs), e # j PROVE e \in Exited(TJ)
      <3>1. PICK m \in DOMAIN threadJobs : threadJobs[m].job = e /\ threadJobs[m].exited
        BY DEF Exited
      <3>2. PICK k \in DOMAIN TJ : Skip(i, k) = m
        BY <3>1, <2>2, <1>1, <1>6
      <3> QED BY <3>1, <3>2, <1>5, <1>6, <2>2 DEF Exited
    <2> QED BY <2>1, <2>2
  <1>8. j \in JobsOf(threadJobs) /\ j \in Exited(threadJobs)
    BY <1>1 DEF JobsOf, Exited
  <1>9. JobsOf(threadJobs) \cap JobsOf(commandJobs) = {}
    BY DEF Workers, Apart
  <1>10. Ready(j, TJ, commandJobs)
    BY <1>3, <1>4, <1>5, <1>8, <1>9, TypeIs DEF Ready, Workers
  <1>11. At(reaped, failed) = {} /\ PendingIs
    BY <1>2, PendingJobs DEF At
  <1>12. Children(process) \subseteq JobsOf(commandJobs)
    BY TypeIs, ChildrenAreListed DEF Workers
  <1>13. /\ j \in Ended /\ Pending \ {j} = JobsOf(TJ) \cup JobsOf(commandJobs)
         /\ Ended \ {j} = Exited(TJ) \cup Children(process)
    BY <1>5, <1>7, <1>8, <1>9, <1>11, <1>12 DEF PendingIs
  <1>14. HandOver(j, how, TJ, commandJobs) /\ Exited(TJ) \subseteq Exited(threadJobs)
    BY <1>1, <1>7 DEF TJ
  <1> QED BY <1>2, <1>10, <1>13, <1>14, CallBackWorks

LEMMA CommandCallsBackWorks ==
  ASSUME Workers, Noticed, NEW j \in Job, NEW how, CommandCallsBack(j, how) \/ FailureCallsBack(j, how)
  PROVE  StepWorks /\ j \in Pending /\ Pending' = IF how = "nothing" THEN Pending \ {j} ELSE Pending
  <1>1. /\ \/ reaped = j /\ failed = NoJob
           \/ failed = j /\ reaped = NoJob
        /\ HandOver(j, how, threadJobs, commandJobs)
        /\ Aside
    BY WorkerAssumption DEF CommandCallsBack, FailureCallsBack, Aside, Workers, Apart
  <1>2. PendingIs /\ At(reaped, failed) = {j}
    BY <1>1, PendingJobs, WorkerAssumption DEF At
  <1>3. /\ JobsOf(threadJobs) \cap JobsOf(commandJobs) = {}
        /\ j \notin JobsOf(threadJobs) /\ j \notin JobsOf(commandJobs)
    BY <1>1 DEF Workers, Apart
  <1>4. Ready(j, threadJobs, commandJobs)
    BY <1>3, TypeIs DEF Ready, Workers
  <1>5. Children(process) \subseteq JobsOf(commandJobs) /\ Exited(threadJobs) \subseteq JobsOf(threadJobs)
    BY TypeIs, ChildrenAreListed DEF Workers, Exited
  <1>6. /\ j \in Ended /\ Pending \ {j} = JobsOf(threadJobs) \cup JobsOf(commandJobs)
        /\ Ended \ {j} = Exited(threadJobs) \cup Children(process)
    BY <1>2, <1>3, <1>5 DEF PendingIs
  <1> QED BY <1>1, <1>4, <1>6, CallBackWorks

\* A thread finds its own job: those with its identifier behind it are older.
LEMMA FoundIsOwn ==
  ASSUME Workers, NEW t \in Thread, thread[t].at = "created",
         NEW i \in DOMAIN threadJobs, threadJobs[i].thread = t,
         \A k \in 1 .. i - 1 : threadJobs[k].thread # t
  PROVE  ~threadJobs[i].exited /\ threadJobs[i].job = thread[t].job
  <1>1. threadJobs \in Seq(ThreadJob) /\ ThreadsOK(threadJobs, thread)
    BY TypeIs DEF Workers
  <1>2. PICK k \in DOMAIN threadJobs : threadJobs[k].thread = t /\ ~threadJobs[k].exited
    BY <1>1 DEF ThreadsOK
  <1>3. i \in Nat \ {0} /\ k \in Nat \ {0}
    BY <1>1, LenProperties
  <1>4. ~(k < i)
    BY <1>2, <1>3
  <1>5. ~(i < k)
    BY <1>1, <1>2 DEF ThreadsOK
  <1>6. i = k
    BY <1>3, <1>4, <1>5
  <1> QED BY <1>1, <1>2, <1>6 DEF ThreadsOK

LEMMA ThreadRunsWorks ==
  ASSUME Workers, Noticed, NEW t \in Thread, ThreadRuns(t)
  PROVE  StepWorks /\ Pending' = Pending
  <1>1. PICK i \in DOMAIN threadJobs :
          /\ threadJobs[i].thread = t
          /\ \A k \in 1 .. i - 1 : threadJobs[k].thread # t
          /\ thread' = [thread EXCEPT ![t].at = "running", ![t].runs = threadJobs[i].job]
    BY DEF ThreadRuns
  <1>2. /\ thread[t].at = "created"
        /\ UNCHANGED <<threadJobs, threadMail, commandVars, loop, failed>>
    BY DEF ThreadRuns
  <1>3. threadJobs[i].job = thread[t].job
    BY <1>1, <1>2, FoundIsOwn
  <1>4. threadJobs \in Seq(ThreadJob) /\ thread \in ThreadMap /\ ThreadsOK(threadJobs, thread)
    BY TypeIs DEF Workers
  <1>5. thread[t].job \in Job
    BY <1>2, <1>4 DEF ThreadsOK
  <1>6. /\ thread' \in ThreadMap
        /\ thread'[t].at = "running" /\ thread'[t].job = thread[t].job
        /\ thread'[t].runs = thread[t].job
        /\ \A u \in Thread : u # t => thread'[u] = thread[u]
    BY <1>1, <1>3, <1>4, <1>5 DEF ThreadMap
  <1>7. \A k \in DOMAIN threadJobs : threadJobs[k].thread \in Thread
    BY <1>4, ThreadFields
  <1>8. ThreadsOK(threadJobs, thread')
    <2>1. ASSUME NEW u \in Thread
          PROVE  /\ thread'[u].at = "none" => thread'[u] = NoThread
                 /\ thread'[u].at # "none" =>
                      /\ thread'[u].job \in Job
                      /\ thread'[u].runs = IF thread'[u].at = "created" THEN NoJob ELSE thread'[u].job
                 /\ thread'[u].at \in {"created", "running"} =>
                      \E k \in DOMAIN threadJobs : threadJobs[k].thread = u /\ ~threadJobs[k].exited
      <3>1. CASE u = t
        BY <3>1, <1>2, <1>4, <1>5, <1>6 DEF ThreadsOK
      <3>2. CASE u # t
        BY <3>2, <1>4, <1>6 DEF ThreadsOK
      <3> QED BY <3>1, <3>2
    <2>2. ASSUME NEW k \in DOMAIN threadJobs, ~threadJobs[k].exited
          PROVE  /\ thread'[threadJobs[k].thread].at \in {"created", "running"}
                 /\ thread'[threadJobs[k].thread].job = threadJobs[k].job
      <3>1. CASE threadJobs[k].thread = t
        BY <3>1, <2>2, <1>4, <1>6 DEF ThreadsOK
      <3>2. CASE threadJobs[k].thread # t
        BY <3>2, <2>2, <1>4, <1>6, <1>7 DEF ThreadsOK
      <3> QED BY <3>1, <3>2
    <2> QED BY <2>1, <2>2, <1>4 DEF ThreadsOK
  <1>9. Workers'
    <2>1. WorkerTypeOK'
      BY <1>2, <1>6, TypeIs, TypeIsNext DEF Workers, commandVars
    <2> QED BY <2>1, <1>2, <1>8 DEF Workers, commandVars
  <1>10. \A u \in Thread : thread[u].at = "exited" => thread'[u].at = "exited"
    BY <1>2, <1>6
  <1>11. Noticed'
    BY <1>2, <1>10 DEF Noticed, commandVars
  <1>12. PendingIs /\ PendingIs'
    BY <1>9, PendingJobs, PendingJobsNext
  <1>13. Pending' = Pending /\ Ended' = Ended
    BY <1>2, <1>12 DEF PendingIs, commandVars
  <1> QED BY <1>9, <1>11, <1>13 DEF StepWorks, WorkStep

\* The job is marked, and no other.
LEMMA ThreadReturnsWorks ==
  ASSUME Workers, Noticed, NEW t \in Thread, thread[t].at = "running",
         threadJobs' = [i \in DOMAIN threadJobs |->
           IF threadJobs[i].job = thread[t].runs THEN [threadJobs[i] EXCEPT !.exited = TRUE]
                                                 ELSE threadJobs[i]],
         thread' = [thread EXCEPT ![t].at = "exited"],
         UNCHANGED <<threadMail, commandVars, loop, failed>>
  PROVE  StepWorks /\ Pending' = Pending
  <1> DEFINE j == thread[t].job
  <1>1. threadJobs \in Seq(ThreadJob) /\ thread \in ThreadMap /\ ThreadsOK(threadJobs, thread)
    BY TypeIs DEF Workers
  <1>2. thread[t].runs = j /\ j \in Job
    BY <1>1 DEF ThreadsOK
  <1>3. PICK m \in DOMAIN threadJobs : threadJobs[m].thread = t /\ ~threadJobs[m].exited
    BY <1>1 DEF ThreadsOK
  <1>4. threadJobs[m].job = j
    BY <1>1, <1>3 DEF ThreadsOK
  <1> HIDE DEF j
  <1>5. ASSUME NEW k \in DOMAIN threadJobs
        PROVE  /\ threadJobs[k] \in ThreadJob
               /\ [threadJobs[k] EXCEPT !.exited = TRUE] \in ThreadJob
               /\ [threadJobs[k] EXCEPT !.exited = TRUE].job = threadJobs[k].job
               /\ [threadJobs[k] EXCEPT !.exited = TRUE].thread = threadJobs[k].thread
               /\ [threadJobs[k] EXCEPT !.exited = TRUE].exited = TRUE
    <2>1. threadJobs[k] \in ThreadJob
      BY <1>1, ThreadFields
    <2> QED BY <2>1 DEF ThreadJob
  <1>6. /\ DOMAIN threadJobs' = DOMAIN threadJobs
        /\ \A k \in DOMAIN threadJobs :
             /\ threadJobs'[k] \in ThreadJob
             /\ threadJobs'[k].job = threadJobs[k].job
             /\ threadJobs'[k].thread = threadJobs[k].thread
             /\ threadJobs'[k].exited = (threadJobs[k].exited \/ threadJobs[k].job = j)
    BY <1>2, <1>5 DEF ThreadJob
  <1>7. threadJobs' \in Seq(ThreadJob)
    <2>1. Len(threadJobs) \in Nat /\ DOMAIN threadJobs = 1 .. Len(threadJobs)
      BY <1>1, LenProperties
    <2>2. threadJobs' = [k \in 1 .. Len(threadJobs) |-> threadJobs'[k]]
      BY <2>1, <1>6
    <2>3. \A k \in 1 .. Len(threadJobs) : threadJobs'[k] \in ThreadJob
      BY <2>1, <1>6
    <2> DEFINE s == threadJobs'
               n == Len(threadJobs)
    <2> HIDE DEF s, n
    <2>4. n \in Nat /\ s = [k \in 1 .. n |-> s[k]] /\ \A k \in 1 .. n : s[k] \in ThreadJob
      BY <2>1, <2>2, <2>3 DEF s, n
    <2>5. s \in Seq(ThreadJob)
      BY <2>4
    <2> QED BY <2>5 DEF s
  <1>8. /\ thread' \in ThreadMap
        /\ thread'[t].at = "exited" /\ thread'[t].job = j /\ thread'[t].runs = j
        /\ \A u \in Thread : u # t => thread'[u] = thread[u]
    BY <1>1, <1>2 DEF ThreadMap, j
  <1>9. \A k \in DOMAIN threadJobs : threadJobs[k].thread \in Thread
    BY <1>1, ThreadFields
  <1>10. \A k \in DOMAIN threadJobs : threadJobs[k].job = j => k = m
    BY <1>1, <1>4 DEF ThreadsOK, Distinct
  <1>11. ThreadsOK(threadJobs', thread')
    <2>1. Distinct(threadJobs')
      BY <1>1, <1>6 DEF ThreadsOK, Distinct
    <2>2. ASSUME NEW u \in Thread
          PROVE  /\ thread'[u].at = "none" => thread'[u] = NoThread
                 /\ thread'[u].at # "none" =>
                      /\ thread'[u].job \in Job
                      /\ thread'[u].runs = IF thread'[u].at = "created" THEN NoJob ELSE thread'[u].job
      <3>1. CASE u = t
        BY <3>1, <1>2, <1>8
      <3>2. CASE u # t
        BY <3>2, <1>1, <1>8 DEF ThreadsOK
      <3> QED BY <3>1, <3>2
    <2>3. ASSUME NEW u \in Thread, thread'[u].at \in {"created", "running"}
          PROVE  \E k \in DOMAIN threadJobs' : threadJobs'[k].thread = u /\ ~threadJobs'[k].exited
      <3>1. u # t
        BY <2>3, <1>8
      <3>2. PICK k \in DOMAIN threadJobs : threadJobs[k].thread = u /\ ~threadJobs[k].exited
        BY <3>1, <2>3, <1>1, <1>8 DEF ThreadsOK
      <3>3. k # m
        BY <3>1, <3>2, <1>3
      <3> QED BY <3>2, <3>3, <1>6, <1>10
    <2>4. ASSUME NEW k \in DOMAIN threadJobs', ~threadJobs'[k].exited
          PROVE  /\ thread'[threadJobs'[k].thread].at \in {"created", "running"}
                 /\ thread'[threadJobs'[k].thread].job = threadJobs'[k].job
      <3>1. k \in DOMAIN threadJobs /\ ~threadJobs[k].exited /\ threadJobs[k].job # j
        BY <2>4, <1>6
      <3>2. threadJobs[k].thread # t
        BY <3>1, <1>1 DEF ThreadsOK, j
      <3> QED BY <3>1, <3>2, <1>1, <1>6, <1>8, <1>9 DEF ThreadsOK
    <2>5. \A k, l \in DOMAIN threadJobs' :
            k < l /\ threadJobs'[k].thread = threadJobs'[l].thread => threadJobs'[l].exited
      BY <1>1, <1>6 DEF ThreadsOK
    <2> QED BY <2>1, <2>2, <2>3, <2>4, <2>5 DEF ThreadsOK
  <1>12. JobsOf(threadJobs') = JobsOf(threadJobs)
    <2>1. ASSUME NEW i PROVE i \in JobsOf(threadJobs') <=> i \in JobsOf(threadJobs)
      BY <1>6 DEF JobsOf
    <2> QED BY <2>1
  <1>13. Exited(threadJobs') = Exited(threadJobs) \cup {j}
    <2>1. ASSUME NEW i PROVE i \in Exited(threadJobs') <=> i \in Exited(threadJobs) \/ i = j
      <3>1. i \in Exited(threadJobs) <=>
              \E k \in DOMAIN threadJobs : threadJobs[k].job = i /\ threadJobs[k].exited
        BY DEF Exited, JobsOf
      <3>2. i \in Exited(threadJobs') <=>
              \E k \in DOMAIN threadJobs' : threadJobs'[k].job = i /\ threadJobs'[k].exited
        BY DEF Exited, JobsOf
      <3>3. (\E k \in DOMAIN threadJobs' : threadJobs'[k].job = i /\ threadJobs'[k].exited) <=>
              \E k \in DOMAIN threadJobs :
                threadJobs[k].job = i /\ (threadJobs[k].exited \/ threadJobs[k].job = j)
        BY <1>6
      <3> QED BY <3>1, <3>2, <3>3, <1>4
    <2> QED BY <2>1
  <1>14. Workers'
    <2>1. WorkerTypeOK'
      BY <1>7, <1>8, TypeIs, TypeIsNext DEF Workers, commandVars
    <2> QED BY <2>1, <1>11, <1>12 DEF Workers, commandVars, Apart
  <1>15. Noticed'
    BY <1>8 DEF Noticed, commandVars
  <1>16. PendingIs /\ PendingIs'
    BY <1>14, PendingJobs, PendingJobsNext
  <1>17. Pending' = Pending /\ Ended' = Ended \cup {j}
    BY <1>12, <1>13, <1>16 DEF PendingIs, commandVars
  <1>18. j \in Pending
    BY <1>4, <1>16 DEF PendingIs, JobsOf
  <1>19. CASE j \in Ended
    <2>1. Pending' = Pending /\ Ended' = Ended
      BY <1>17, <1>19
    <2> QED BY <2>1, <1>14, <1>15 DEF StepWorks, WorkStep
  <1>20. CASE j \notin Ended
    <2>1. WorkStep
      BY <1>2, <1>17, <1>18, <1>20 DEF WorkStep, Work!Next, Work!End
    <2> QED BY <2>1, <1>14, <1>15, <1>17 DEF StepWorks
  <1> QED BY <1>19, <1>20

LEMMA ThreadExitsWorks ==
  ASSUME Workers, Noticed, NEW t \in Thread, ThreadExits(t)
  PROVE  StepWorks /\ Pending' = Pending
  <1>1. CASE thread[t].at = "running"
    BY <1>1, ThreadReturnsWorks DEF ThreadExits
  <1>2. CASE thread[t].at = "exited"
    <2>1. /\ threadMail' = threadMail + 1
          /\ thread' = [thread EXCEPT ![t] = NoThread]
          /\ UNCHANGED <<threadJobs, commandVars, loop, failed>>
      BY <1>2 DEF ThreadExits
    <2>2. threadJobs \in Seq(ThreadJob) /\ thread \in ThreadMap /\ ThreadsOK(threadJobs, thread)
          /\ threadMail \in Nat
      BY TypeIs DEF Workers
    <2>3. NoThread \in [at : {"none", "created", "running", "exited"},
                        job : Job \cup {NoJob}, runs : Job \cup {NoJob}]
      BY DEF NoThread
    <2>4. thread' \in ThreadMap /\ thread'[t] = NoThread
          /\ \A u \in Thread : u # t => thread'[u] = thread[u]
      BY <2>1, <2>2, <2>3 DEF ThreadMap
    <2>5. \A k \in DOMAIN threadJobs :
            ~threadJobs[k].exited => threadJobs[k].thread \in Thread \ {t}
      BY <2>2, <1>2, ThreadFields DEF ThreadsOK
    <2>6. ThreadsOK(threadJobs, thread')
      <3>1. ASSUME NEW u \in Thread
            PROVE  /\ thread'[u].at = "none" => thread'[u] = NoThread
                   /\ thread'[u].at # "none" =>
                        /\ thread'[u].job \in Job
                        /\ thread'[u].runs = IF thread'[u].at = "created" THEN NoJob ELSE thread'[u].job
                   /\ thread'[u].at \in {"created", "running"} =>
                        \E k \in DOMAIN threadJobs : threadJobs[k].thread = u /\ ~threadJobs[k].exited
        <4>1. CASE u = t
          BY <4>1, <2>4 DEF NoThread
        <4>2. CASE u # t
          BY <4>2, <2>2, <2>4 DEF ThreadsOK
        <4> QED BY <4>1, <4>2
      <3>2. ASSUME NEW k \in DOMAIN threadJobs, ~threadJobs[k].exited
            PROVE  /\ thread'[threadJobs[k].thread].at \in {"created", "running"}
                   /\ thread'[threadJobs[k].thread].job = threadJobs[k].job
        BY <3>2, <2>2, <2>4, <2>5 DEF ThreadsOK
      <3> QED BY <3>1, <3>2, <2>2 DEF ThreadsOK
    <2>7. Workers'
      <3>1. WorkerTypeOK'
        BY <2>1, <2>2, <2>4, TypeIs, TypeIsNext DEF Workers, commandVars
      <3> QED BY <3>1, <2>1, <2>6 DEF Workers, commandVars
    <2>8. Noticed'
      BY <2>1, <2>2 DEF Noticed, commandVars
    <2>9. PendingIs /\ PendingIs'
      BY <2>7, PendingJobs, PendingJobsNext
    <2>10. Pending' = Pending /\ Ended' = Ended
      BY <2>1, <2>9 DEF PendingIs, commandVars
    <2> QED BY <2>7, <2>8, <2>10 DEF StepWorks, WorkStep
  <1> QED BY <1>1, <1>2 DEF ThreadExits

LEMMA ChildExitsWorks ==
  ASSUME Workers, Noticed, NEW p \in Pid, NEW lingers \in BOOLEAN, ChildExits(p, lingers)
  PROVE  StepWorks /\ Pending' = Pending
  <1> DEFINE j == process[p].job
  <1>1. /\ process[p].at = "running" /\ process' = [process EXCEPT ![p].at = "exited"]
        /\ lingering' \in {lingering, lingering \cup {j}} /\ signal' = TRUE
        /\ UNCHANGED <<threadVars, commandJobs, commandMail, reaped, loop, failed>>
    BY DEF ChildExits
  <1>2. /\ commandJobs \in Seq(CommandJob) /\ process \in ProcessMap
        /\ CommandsOK(commandJobs, process)
    BY TypeIs DEF Workers
  <1>3. PICK i \in DOMAIN commandJobs : commandJobs[i].pid = p /\ commandJobs[i].job = j
    BY <1>1, <1>2 DEF CommandsOK
  <1>4. j \in Job /\ j \in JobsOf(commandJobs)
    BY <1>2, <1>3, CommandFields DEF JobsOf
  <1>5. /\ process' \in ProcessMap /\ process'[p].at = "exited" /\ process'[p].job = j
        /\ \A q \in Pid : q # p => process'[q] = process[q]
    BY <1>1, <1>2 DEF ProcessMap
  <1> HIDE DEF j
  <1>6. CommandsOK(commandJobs, process')
    <2>1. ASSUME NEW q \in Pid
          PROVE  /\ process'[q].at = "none" => process'[q] = NoProcess
                 /\ process'[q].at # "none" => \E k \in DOMAIN commandJobs : commandJobs[k].pid = q
      <3>1. CASE q = p
        BY <3>1, <1>3, <1>5
      <3>2. CASE q # p
        BY <3>2, <1>2, <1>5 DEF CommandsOK
      <3> QED BY <3>1, <3>2
    <2>2. ASSUME NEW k \in DOMAIN commandJobs
          PROVE  /\ process'[commandJobs[k].pid].at # "none"
                 /\ process'[commandJobs[k].pid].job = commandJobs[k].job
      <3>1. CASE commandJobs[k].pid = p
        BY <3>1, <1>2, <1>5 DEF CommandsOK, j
      <3>2. CASE commandJobs[k].pid # p
        <4>1. commandJobs[k].pid \in Pid
          BY <1>2, CommandFields
        <4> QED BY <4>1, <3>2, <1>2, <1>5 DEF CommandsOK
      <3> QED BY <3>1, <3>2
    <2> QED BY <2>1, <2>2, <1>2 DEF CommandsOK
  <1>7. Workers'
    <2>1. WorkerTypeOK'
      BY <1>1, <1>4, <1>5, TypeIs, TypeIsNext DEF Workers, threadVars
    <2> QED BY <2>1, <1>1, <1>6 DEF Workers, threadVars
  <1>8. Noticed'
    BY <1>1 DEF Noticed, threadVars
  <1>9. Children(process') = Children(process) \cup {j}
    <2>1. ASSUME NEW n PROVE n \in Children(process') <=> n \in Children(process) \/ n = j
      <3>1. n \in Children(process') <=>
              n \in Job /\ \E q \in Pid : process'[q].at = "exited" /\ process'[q].job = n
        BY DEF Children
      <3>2. n \in Children(process) <=>
              n \in Job /\ \E q \in Pid : process[q].at = "exited" /\ process[q].job = n
        BY DEF Children
      <3> QED BY <3>1, <3>2, <1>1, <1>4, <1>5
    <2> QED BY <2>1
  <1>10. PendingIs /\ PendingIs'
    BY <1>7, PendingJobs, PendingJobsNext
  <1>11. Pending' = Pending /\ Ended' = Ended \cup {j} /\ j \in Pending
    BY <1>1, <1>4, <1>9, <1>10 DEF PendingIs, threadVars
  <1>12. CASE j \in Ended
    <2>1. Pending' = Pending /\ Ended' = Ended
      BY <1>11, <1>12
    <2> QED BY <2>1, <1>7, <1>8 DEF StepWorks, WorkStep
  <1>13. CASE j \notin Ended
    <2>1. WorkStep
      BY <1>4, <1>11, <1>13 DEF WorkStep, Work!Next, Work!End
    <2> QED BY <2>1, <1>7, <1>8, <1>11 DEF StepWorks
  <1> QED BY <1>12, <1>13

\* Pending and Ended depend on the lists, the processes and the job at hand.
LEMMA QuietWorks ==
  ASSUME Workers, Workers', Noticed',
         UNCHANGED <<threadJobs, commandJobs, process, reaped, failed>>
  PROVE  StepWorks /\ Pending' = Pending
  <1>1. PendingIs /\ PendingIs'
    BY PendingJobs, PendingJobsNext
  <1>2. Pending' = Pending /\ Ended' = Ended
    BY <1>1 DEF PendingIs
  <1> QED BY <1>2 DEF StepWorks, WorkStep

LEMMA QuietHelpersWork ==
  ASSUME Workers, Noticed,
         \/ \E j \in Job : DescendantExits(j)
         \/ ThreadHandlerBegins \/ SignalIsServed \/ CommandHandlerBegins
         \/ UNCHANGED workerVars
  PROVE  StepWorks /\ Pending' = Pending
  <1>1. /\ UNCHANGED <<threadJobs, thread, commandJobs, process, reaped, failed>>
        /\ lingering' \subseteq lingering
        /\ threadMail' \in Nat /\ commandMail' \in Nat /\ signal' \in BOOLEAN
        /\ loop' \in {"free", "threads", "commands"} /\ (reaped # NoJob => loop' = "commands")
        /\ Noticed'
    <2>1. threadMail \in Nat /\ commandMail \in Nat /\ signal \in BOOLEAN
          /\ loop \in {"free", "threads", "commands"} /\ (reaped # NoJob => loop = "commands")
      BY TypeIs DEF Workers
    <2>2. CASE \E j \in Job : DescendantExits(j)
      <3>1. UNCHANGED <<threadJobs, thread, threadMail, commandJobs, process, signal,
                        commandMail, reaped, loop, failed>> /\ lingering' \subseteq lingering
        BY <2>2 DEF DescendantExits, threadVars
      <3> QED BY <2>1, <3>1 DEF Noticed
    <2>3. CASE ThreadHandlerBegins
      BY <2>1, <2>3 DEF ThreadHandlerBegins, Free, commandVars, Noticed
    <2>4. CASE SignalIsServed
      <3>1. /\ UNCHANGED <<threadJobs, thread, threadMail, commandJobs, process, lingering,
                           reaped, loop, failed>>
            /\ signal' = FALSE /\ commandMail' = commandMail + 1
        BY <2>4 DEF SignalIsServed, threadVars
      <3>2. commandMail' \in Nat /\ commandMail' > 0
        <4>1. commandMail \in Nat /\ commandMail' = commandMail + 1
          BY <2>1, <2>4 DEF SignalIsServed
        <4> QED BY <4>1
      <3>3. Noticed'
        BY <3>1, <3>2 DEF Noticed
      <3>4. signal' \in BOOLEAN
        BY <3>1
      <3> QED BY <2>1, <3>1, <3>2, <3>3, <3>4
    <2>5. CASE CommandHandlerBegins
      BY <2>1, <2>5 DEF CommandHandlerBegins, Free, threadVars, Noticed
    <2>6. CASE UNCHANGED workerVars
      <3>1. UNCHANGED <<threadJobs, thread, threadMail, commandJobs, process, lingering, signal,
                        commandMail, reaped, loop, failed>>
        BY <2>6 DEF workerVars, threadVars, commandVars
      <3> QED BY <2>1, <3>1 DEF Noticed
    <2> QED BY <2>2, <2>3, <2>4, <2>5, <2>6
  <1>2. WorkerTypeOK'
    BY <1>1, TypeIs, TypeIsNext DEF Workers
  <1>3. Workers'
    BY <1>1, <1>2 DEF Workers
  <1> QED BY <1>1, <1>3, QuietWorks

\* A handler leaves nothing behind.
LEMMA HandlerEndsWorks ==
  ASSUME Workers, Noticed, ThreadHandlerEnds \/ CommandHandlerEnds
  PROVE  StepWorks /\ Pending' = Pending
  <1>1. /\ loop' = "free" /\ reaped = NoJob
        /\ UNCHANGED <<threadVars, commandVars, failed>>
    BY DEF ThreadHandlerEnds, CommandHandlerEnds, Workers
  <1>2. WorkerTypeOK'
    BY <1>1, TypeIs, TypeIsNext DEF Workers, threadVars, commandVars
  <1>3. Workers'
    BY <1>1, <1>2 DEF Workers, threadVars, commandVars
  <1>4. CASE ThreadHandlerEnds
    <2>1. Exited(threadJobs) = {} /\ loop = "threads"
      BY <1>4 DEF ThreadHandlerEnds, Exited
    <2> QED BY <2>1, <1>1, <1>3, QuietWorks DEF Noticed, threadVars, commandVars
  <1>5. CASE CommandHandlerEnds
    <2>1. Children(process) = {} /\ loop = "commands"
      BY <1>5 DEF CommandHandlerEnds, Children
    <2> QED BY <2>1, <1>1, <1>3, QuietWorks DEF Noticed, threadVars, commandVars
  <1> QED BY <1>4, <1>5

LEMMA WaitPidWorks ==
  ASSUME Workers, Noticed, NEW p \in Pid, WaitPid(p)
  PROVE  StepWorks /\ Pending' = Pending
  <1>1. PICK i \in DOMAIN commandJobs :
          /\ commandJobs[i].pid = p
          /\ commandJobs' = Without(commandJobs, i)
          /\ reaped' = commandJobs[i].job
    BY DEF WaitPid
  <1>2. /\ loop = "commands" /\ reaped = NoJob /\ failed = NoJob
        /\ process[p].at = "exited" /\ process' = [process EXCEPT ![p] = NoProcess]
        /\ UNCHANGED <<threadVars, lingering, signal, commandMail, loop, failed>>
    BY DEF WaitPid
  <1> DEFINE j == commandJobs[i].job
  <1>3. /\ commandJobs \in Seq(CommandJob) /\ process \in ProcessMap
        /\ CommandsOK(commandJobs, process)
    BY TypeIs DEF Workers
  <1>4. /\ j \in Job /\ j \in JobsOf(commandJobs) /\ j # NoJob
        /\ \A k \in DOMAIN commandJobs : commandJobs[k].pid \in Pid
    BY <1>3, CommandFields, WorkerAssumption DEF JobsOf
  <1>5. process[p].job = j
    BY <1>1, <1>3 DEF CommandsOK
  <1>6. process' \in ProcessMap /\ CommandsOK(commandJobs', process')
    BY <1>1, <1>2, <1>3, CommandsWithout
  <1>7. commandJobs' \in Seq(CommandJob) /\ JobsOf(commandJobs') = JobsOf(commandJobs) \ {j}
    BY <1>1, <1>3, WithoutIs, WithoutJobs DEF CommandsOK
  <1>8. process'[p] = NoProcess /\ \A q \in Pid : q # p => process'[q] = process[q]
    BY <1>2, <1>3 DEF ProcessMap
  <1>9. \A q \in Pid : process[q].at # "none" /\ process[q].job = j => q = p
    <2>1. ASSUME NEW q \in Pid, process[q].at # "none", process[q].job = j
          PROVE  q = p
      <3>1. PICK k \in DOMAIN commandJobs : commandJobs[k].pid = q
        BY <2>1, <1>3 DEF CommandsOK
      <3>2. k = i
        BY <2>1, <3>1, <1>3 DEF CommandsOK, Distinct
      <3> QED BY <3>1, <3>2, <1>1
    <2> QED BY <2>1
  <1>10. reaped' = j
    BY <1>1
  <1> HIDE DEF j
  <1>11. Children(process') = Children(process) \ {j}
    <2>1. ASSUME NEW e PROVE e \in Children(process') <=> e \in Children(process) /\ e # j
      <3>1. e \in Children(process') <=>
              e \in Job /\ \E q \in Pid : process'[q].at = "exited" /\ process'[q].job = e
        BY DEF Children
      <3>2. e \in Children(process) <=>
              e \in Job /\ \E q \in Pid : process[q].at = "exited" /\ process[q].job = e
        BY DEF Children
      <3>3. NoProcess.at # "exited"
        BY DEF NoProcess
      <3> QED BY <3>1, <3>2, <3>3, <1>2, <1>5, <1>8, <1>9
    <2> QED BY <2>1
  <1>12. j \in Children(process)
    BY <1>2, <1>4, <1>5 DEF Children
  <1>13. Workers'
    <2>1. WorkerTypeOK'
      BY <1>2, <1>4, <1>6, <1>7, <1>10, TypeIs, TypeIsNext DEF Workers, threadVars
    <2>2. Apart(threadJobs', commandJobs', reaped', failed')
      BY <1>2, <1>4, <1>7, <1>10 DEF Workers, Apart, threadVars
    <2> QED BY <2>1, <2>2, <1>2, <1>6 DEF Workers, threadVars
  <1>14. Noticed'
    BY <1>2 DEF Noticed, threadVars
  <1>15. PendingIs /\ PendingIs'
    BY <1>13, PendingJobs, PendingJobsNext
  <1>16. At(reaped, failed) = {} /\ At(reaped', failed') = {j}
    BY <1>2, <1>4, <1>10 DEF At
  <1>17. Pending' = Pending /\ Ended' = Ended
    BY <1>2, <1>4, <1>7, <1>11, <1>12, <1>15, <1>16 DEF PendingIs, threadVars
  <1> QED BY <1>13, <1>14, <1>17 DEF StepWorks, WorkStep

\* What helpers and handlers do by themselves leaves no callback out.
LEMMA HelpersWork ==
  ASSUME Workers, Noticed, Helpers \/ Handlers \/ UNCHANGED workerVars
  PROVE  StepWorks /\ Pending' = Pending
  <1>1. CASE \E t \in Thread : ThreadRuns(t) \/ ThreadExits(t)
    BY <1>1, ThreadRunsWorks, ThreadExitsWorks
  <1>2. CASE \E p \in Pid, lingers \in BOOLEAN : ChildExits(p, lingers)
    BY <1>2, ChildExitsWorks
  <1>3. CASE \E p \in Pid : WaitPid(p)
    BY <1>3, WaitPidWorks
  <1>4. CASE ThreadHandlerEnds \/ CommandHandlerEnds
    BY <1>4, HandlerEndsWorks
  <1>5. CASE \/ \E j \in Job : DescendantExits(j)
             \/ ThreadHandlerBegins \/ SignalIsServed \/ CommandHandlerBegins
             \/ UNCHANGED workerVars
    BY <1>5, QuietHelpersWork
  <1> QED BY <1>1, <1>2, <1>3, <1>4, <1>5 DEF Helpers, Handlers

LEMMA CallsBackWorks ==
  ASSUME Workers, Noticed, NEW j \in Job, NEW how, CallsBack(j, how)
  PROVE  StepWorks /\ j \in Pending /\ Pending' = IF how = "nothing" THEN Pending \ {j} ELSE Pending
  BY ThreadCallsBackWorks, CommandCallsBackWorks DEF CallsBack

-----------------------------------------------------------------------------
(* The probes.                                                             *)

\* A context has a place where the probe is.
Contexts == probe = [d \in Job |-> probe[d]] /\ \A d \in Job : "at" \in DOMAIN probe[d]

\* A disk that is being probed has a callback coming, and no other disk has:
\* no probe is left without, and a new one finds its name free.
Owed == Pending = {d \in Job : probe[d].at # "idle"}

Probing == Workers /\ Noticed /\ Contexts /\ Owed

\* The probe of d goes on, or ends when nothing more is run for it.
Moves(d, how) ==
  \E r : /\ probe' = [probe EXCEPT ![d] = r]
         /\ "at" \in DOMAIN r /\ (r.at = "idle" <=> how = "nothing")

LEMMA MovesKeep ==
  ASSUME Contexts, NEW d \in Job, NEW how, Moves(d, how)
  PROVE  /\ Contexts'
         /\ probe'[d].at = "idle" <=> how = "nothing"
         /\ \A e \in Job : e # d => probe'[e] = probe[e]
  <1>1. PICK r : /\ probe' = [probe EXCEPT ![d] = r]
                 /\ "at" \in DOMAIN r /\ (r.at = "idle" <=> how = "nothing")
    BY DEF Moves
  <1> QED BY <1>1 DEF Contexts

LEMMA Idles ==
  ASSUME NEW d, probe' = [probe EXCEPT ![d] = NoContext]
  PROVE  Moves(d, "nothing")
  <1>1. "at" \in DOMAIN NoContext /\ NoContext.at = "idle"
    BY DEF NoContext
  <1> QED BY <1>1 DEF Moves

LEMMA GoesOn ==
  ASSUME NEW d, NEW r, NEW how, "at" \in DOMAIN r, r.at # "idle", how # "nothing",
         probe' = [probe EXCEPT ![d] = r]
  PROVE  Moves(d, how)
  BY DEF Moves

LEMMA HowIsSomething == \A c : How(c) # "nothing"
  BY DEF How

LEMMA ProceedMoves ==
  ASSUME NEW d, NEW context, "at" \in DOMAIN context, NEW how, Proceed(d, context, how)
  PROVE  Moves(d, how)
  <1> DEFINE n      == Next1(d, context)
             passed == Passed(d, context)
             left(s)     == SubSeq(s, Len(passed) + 1, Len(s))
             deferred(s) == s \o Those(passed, PutOff(d, context))
             rest   == [context EXCEPT !.candidates = left(@), !.deferred = deferred(@),
                                       !.filesystem = NoCandidate]
  <1>1. \/ /\ how = How(context.candidates[n])
           /\ Goes(d, [rest EXCEPT !.at = IF how = "thread" THEN "fskit" ELSE "recognize",
                                   !.filesystem = context.candidates[n],
                                   !.tried = Append(@, context.candidates[n])])
        \/ how = "thread" /\ Goes(d, [rest EXCEPT !.at = "modules"])
        \/ how = "nothing" /\ Answers(d, rest, FALSE)
    BY DEF Proceed
  <1>2. "at" \in DOMAIN rest
    OBVIOUS
  <1> HIDE DEF rest
  <1>3. ASSUME how = How(context.candidates[n]),
               Goes(d, [rest EXCEPT !.at = IF how = "thread" THEN "fskit" ELSE "recognize",
                                    !.filesystem = context.candidates[n],
                                    !.tried = Append(@, context.candidates[n])])
        PROVE  Moves(d, how)
    <2> DEFINE at == IF how = "thread" THEN "fskit" ELSE "recognize"
               r  == [rest EXCEPT !.at = at, !.filesystem = context.candidates[n],
                                  !.tried = Append(@, context.candidates[n])]
    <2>1. at # "idle"
      OBVIOUS
    <2>2. probe' = [probe EXCEPT ![d] = r]
      BY <1>3 DEF Goes
    <2>3. "at" \in DOMAIN r /\ r.at = at
      BY <1>2
    <2>4. how # "nothing"
      BY <1>3, HowIsSomething
    <2> HIDE DEF at, r
    <2> QED BY <2>1, <2>2, <2>3, <2>4, GoesOn
  <1>4. ASSUME how = "thread", Goes(d, [rest EXCEPT !.at = "modules"])
        PROVE  Moves(d, how)
    <2> DEFINE r == [rest EXCEPT !.at = "modules"]
    <2>1. "at" \in DOMAIN r /\ r.at = "modules"
      BY <1>2
    <2>2. probe' = [probe EXCEPT ![d] = r]
      BY <1>4 DEF Goes
    <2> HIDE DEF r
    <2> QED BY <2>1, <2>2, <1>4, GoesOn
  <1>5. ASSUME how = "nothing", Answers(d, rest, FALSE)
        PROVE  Moves(d, how)
    BY <1>5, Idles DEF Answers
  <1> QED BY <1>1, <1>3, <1>4, <1>5

LEMMA ContinuesMoves ==
  ASSUME Contexts, NEW d \in Job, NEW ok, NEW how, Continues(d, ok, how)
  PROVE  Moves(d, how)
  <1>1. "at" \in DOMAIN probe[d]
    BY DEF Contexts
  <1>2. ASSUME NEW clean, Ends(d, clean, how) PROVE Moves(d, how)
    BY <1>2, Idles DEF Ends, Answers
  <1>3. ASSUME NEW at, at # "idle", NEW command, command # "nothing", Run(d, at, command, how)
        PROVE  Moves(d, how)
    <2> DEFINE r == [probe[d] EXCEPT !.at = at]
    <2>1. "at" \in DOMAIN r /\ r.at = at
      BY <1>1
    <2>2. probe' = [probe EXCEPT ![d] = r] /\ how # "nothing"
      BY <1>3 DEF Run, Goes
    <2> HIDE DEF r
    <2> QED BY <2>1, <2>2, <1>3, GoesOn
  <1>4. ASSUME Proceed(d, probe[d], how) PROVE Moves(d, how)
    BY <1>1, <1>4, ProceedMoves
  <1>5. ASSUME ModulesListed(d, ok, how) PROVE Moves(d, how)
    <2>1. "at" \in DOMAIN ListModules(probe[d], ok)
      BY <1>1 DEF ListModules
    <2> QED BY <2>1, <1>5, ProceedMoves DEF ModulesListed
  <1>6. CASE RecognizeDone(d, ok, how)
    BY <1>6, <1>2, <1>3, <1>4 DEF RecognizeDone
  <1>7. CASE UUIDDone(d, how)
    BY <1>7, <1>2, <1>3 DEF UUIDDone
  <1>8. CASE CleanDone(d, ok, how)
    BY <1>8, <1>2 DEF CleanDone
  <1>9. CASE ModuleDone(d, ok, how)
    BY <1>9, <1>2, <1>4 DEF ModuleDone
  <1> QED BY <1>5, <1>6, <1>7, <1>8, <1>9 DEF Continues

LEMMA ProbeInit == Init => Probing /\ Work!Init
  <1> SUFFICES ASSUME Init PROVE Probing /\ Work!Init
    OBVIOUS
  <1>1. /\ threadJobs = <<>> /\ thread = [t \in Thread |-> NoThread] /\ threadMail = 0
        /\ commandJobs = <<>> /\ process = [p \in Pid |-> NoProcess]
        /\ lingering = {} /\ signal = FALSE /\ commandMail = 0 /\ reaped = NoJob
        /\ loop = "free" /\ failed = NoJob
        /\ probe = [d \in Job |-> NoContext]
    BY DEF Init, WorkerInit, ThreadInit, CommandInit
  <1>2. /\ threadJobs \in Seq(ThreadJob) /\ commandJobs \in Seq(CommandJob)
        /\ DOMAIN threadJobs = {} /\ DOMAIN commandJobs = {}
    BY <1>1
  <1>3. WorkerTypeOK
    <2>1. thread \in ThreadMap /\ process \in ProcessMap
      BY <1>1 DEF ThreadMap, ProcessMap, NoThread, NoProcess
    <2> QED BY <2>1, <1>1, <1>2, TypeIs
  <1>4. ThreadsOK(threadJobs, thread) /\ CommandsOK(commandJobs, process)
    BY <1>1, <1>2 DEF ThreadsOK, CommandsOK, Distinct, NoThread, NoProcess
  <1>5. JobsOf(threadJobs) = {} /\ JobsOf(commandJobs) = {}
    BY <1>2 DEF JobsOf
  <1>6. Workers
    BY <1>1, <1>3, <1>4, <1>5 DEF Workers, Apart
  <1>7. Exited(threadJobs) = {} /\ Children(process) = {} /\ At(reaped, failed) = {}
    BY <1>1, <1>5 DEF Exited, Children, At, NoProcess
  <1>8. Pending = {} /\ Ended = {}
    BY <1>5, <1>6, <1>7, PendingJobs DEF PendingIs
  <1>9. Contexts /\ Owed
    BY <1>1, <1>8 DEF Contexts, Owed, NoContext
  <1> QED BY <1>6, <1>7, <1>8, <1>9 DEF Probing, Noticed, Work!Init

LEMMA ProbeNext == Probing /\ [Next]_vars => Probing' /\ WorkStep
  <1> SUFFICES ASSUME Probing, [Next]_vars PROVE Probing' /\ WorkStep
    OBVIOUS
  <1> USE DEF Probing
  <1>1. ASSUME NEW d \in Job, NEW blank, NEW how, DAProbe(d, blank, how)
        PROVE  Probing' /\ WorkStep
    <2>1. probe[d].at = "idle" /\ Start(d, how)
      BY <1>1 DEF DAProbe
    <2>2. StepWorks /\ Pending' = IF how = "nothing" THEN Pending ELSE Pending \cup {d}
      BY <2>1, StartWorks DEF Owed
    <2>3. Moves(d, how)
      <3> DEFINE context == [NoContext EXCEPT !.candidates = IF blank THEN <<>> ELSE ProbeList,
                                              !.blank = blank]
      <3>1. "at" \in DOMAIN context
        BY DEF NoContext
      <3>2. Proceed(d, context, how)
        BY <1>1 DEF DAProbe
      <3> HIDE DEF context
      <3> QED BY <3>1, <3>2, ProceedMoves
    <2>4. /\ Contexts' /\ (probe'[d].at = "idle" <=> how = "nothing")
          /\ \A e \in Job : e # d => probe'[e] = probe[e]
      BY <2>3, MovesKeep
    <2>5. Owed'
      BY <2>1, <2>2, <2>4 DEF Owed
    <2> QED BY <2>2, <2>4, <2>5 DEF StepWorks
  <1>2. ASSUME NEW d \in Job, NEW ok, NEW how, CallbackOf(d, ok, how)
        PROVE  Probing' /\ WorkStep
    <2>1. Continues(d, ok, how) /\ CallsBack(d, how)
      BY <1>2 DEF CallbackOf
    <2>2. StepWorks /\ d \in Pending /\ Pending' = IF how = "nothing" THEN Pending \ {d} ELSE Pending
      BY <2>1, CallsBackWorks
    <2>3. /\ Contexts' /\ (probe'[d].at = "idle" <=> how = "nothing")
          /\ \A e \in Job : e # d => probe'[e] = probe[e]
      BY <2>1, ContinuesMoves, MovesKeep
    <2>4. Owed'
      BY <2>2, <2>3 DEF Owed
    <2> QED BY <2>2, <2>3, <2>4 DEF StepWorks
  <1>3. ASSUME Helpers \/ Handlers \/ UNCHANGED workerVars, probe' = probe
        PROVE  Probing' /\ WorkStep
    <2>1. StepWorks /\ Pending' = Pending
      BY <1>3, HelpersWork
    <2> QED BY <2>1, <1>3 DEF StepWorks, Contexts, Owed
  <1>4. CASE UNCHANGED vars
    BY <1>3, <1>4 DEF vars, probeVars
  <1> QED BY <1>1, <1>2, <1>3, <1>4 DEF Next, Callbacks, probeVars

LEMMA ProbingInvariant == Spec => []Probing
  BY ProbeInit, ProbeNext, PTL DEF Spec

-----------------------------------------------------------------------------
(* The candidates of a probe.  What was asked and what is still in turn make up *)
(* the order in which candidates are to be asked, and so do those that are put  *)
(* off.                                                                         *)

Chain(d, x) ==
  /\ x.tried \o Those(x.candidates, InTurn(d, x)) = Order(d, x)
  /\ x.deferred \o Those(x.candidates, PutOff(d, x)) =
       IF x.modules = "not yet" THEN Those(Bundles(d, x), Ntfs) ELSE <<>>

\* Who is being asked is the last that was put to a question; the modules are
\* asked for when no bundle is left.
Located(x) ==
  /\ x.at = "modules" => x.candidates = <<>> /\ x.modules = "not yet"
  /\ x.at \in {"recognize", "uuid", "clean", "fskit"} =>
       /\ Len(x.tried) > 0 /\ x.filesystem = x.tried[Len(x.tried)]
       /\ x.filesystem \in Candidate

\* NothingSkipped of one answer.
Right(d, a) ==
  /\ IF a.found = NoCandidate
     THEN a.context.tried = Order(d, a.context)
     ELSE IsPrefix(a.context.tried, Order(d, a.context)) /\ Last(a.context.tried) = a.found
  /\ a.found = NoCandidate => a.context.modules # "not yet" \/ fskitMissing

OnItsWay(d) == IF probe[d].at = "idle" THEN probe[d] = NoContext
                                       ELSE Chain(d, probe[d]) /\ Located(probe[d])

Chained ==
  /\ probe \in [Job -> Context] /\ calls \in [Job -> Nat] /\ answer = [d \in Job |-> answer[d]]
  /\ \A d \in Job : OnItsWay(d) /\ (calls[d] > 0 => Right(d, answer[d]))

LEMMA ListFacts ==
  /\ ProbeList \in Seq(Candidate) /\ Modules \in Seq(Candidate)
  /\ \A d \in Job : Matches[d] \subseteq Candidate
  /\ NoCandidate \notin Candidate
  BY ProbeAssumption

LEMMA ContextFields ==
  ASSUME NEW x \in Context
  PROVE  /\ x.candidates \in Seq(Candidate) /\ x.deferred \in Seq(Candidate)
         /\ x.tried \in Seq(Candidate) /\ x.blank \in BOOLEAN
         /\ x.modules \in {"not yet", "none", "listed"}
         /\ x.filesystem \in Candidate \cup {NoCandidate}
         /\ x.at \in {"idle", "recognize", "uuid", "clean", "fskit", "modules"}
  BY DEF Context

LEMMA OrderTyped ==
  ASSUME NEW d, NEW x
  PROVE  Bundles(d, x) \in Seq(Candidate) /\ Order(d, x) \in Seq(Candidate)
<1>1. PICK e \in Seq(Candidate) : e = <<>>
  BY EmptySeq
<1>2. Those(ProbeList, Matches[d]) \in Seq(Candidate)
  BY ListFacts, ThoseFacts
<1>3. PICK b \in Seq(Candidate) : b = Bundles(d, x)
  BY <1>1, <1>2 DEF Bundles
<1>4. PICK p \in Seq(Candidate) : p = Those(b, Candidate \ Ntfs)
  BY ThoseFacts
<1>5. PICK q \in Seq(Candidate) :
        q = IF x.modules = "listed" THEN Those(Modules, Matches[d]) ELSE <<>>
  BY <1>1, ListFacts, ThoseFacts
<1>6. PICK r \in Seq(Candidate) :
        r = IF x.modules # "not yet" THEN Those(b, Ntfs) ELSE <<>>
  BY <1>1, ThoseFacts
<1>7. Order(d, x) = p \o q \o r
  BY <1>3, <1>4, <1>5, <1>6 DEF Order
<1>8. p \o q \o r \in Seq(Candidate)
  BY ConcatProperties
<1> QED BY <1>3, <1>7, <1>8

LEMMA PrefixOfJoined ==
  ASSUME NEW T, NEW p \in Seq(T), NEW q \in Seq(T)
  PROVE  IsPrefix(p, p \o q)
<1>1. PICK r : r = p \o q
  OBVIOUS
<1>2. /\ r \in Seq(T) /\ Len(p) \in Nat /\ Len(p) <= Len(r)
      /\ \A i \in 1 .. Len(p) : r[i] = p[i]
  BY <1>1
<1>3. SubSeq(p, 1, Len(p)) = SubSeq(r, 1, Len(p))
  BY <1>2
<1> QED BY <1>1, <1>2, <1>3 DEF IsPrefix

\* The least of a set of numbers.
LEMMA LeastIs ==
  ASSUME NEW S \in SUBSET Nat, S # {}
  PROVE  Min(S) \in S /\ \A i \in S : Min(S) <= i
<1> DEFINE R == OpToRel(<, Nat)
<1>1. IsWellFoundedOn(R, Nat)
  BY NatLessThanWellFounded
<1>2. \A m, n \in Nat : m < n => <<m, n>> \in R
  BY DEF OpToRel
<1> HIDE DEF R
<1>3. PICK x \in S : \A y \in S : <<y, x>> \notin R
  BY <1>1, WFMin
<1>4. \A y \in S : x \in Nat /\ y \in Nat /\ ~(y < x)
  BY <1>2, <1>3
<1>5. \A y \in S : x <= y
  BY <1>4
<1> QED BY <1>3, <1>5 DEF Min

LEMMA NextIs ==
  ASSUME NEW d, NEW x \in Context, NEW n, n = Next1(d, x)
  PROVE  \/ n = 0 /\ Entries(x.candidates) \cap InTurn(d, x) = {}
         \/ /\ n \in 1 .. Len(x.candidates) /\ x.candidates[n] \in InTurn(d, x)
            /\ \A i \in 1 .. Len(x.candidates) : i < n => x.candidates[i] \notin InTurn(d, x)
<1>1. PICK c \in Seq(Candidate) : c = x.candidates
  BY ContextFields
<1>2. PICK E : E = InTurn(d, x)
  OBVIOUS
<1>3. PICK I : I = {i \in 1 .. Len(c) : c[i] \in E}
  OBVIOUS
<1>4. n = IF I # {} THEN Min(I) ELSE 0
  BY <1>1, <1>2, <1>3 DEF Next1, SelectInSeq
<1>5. CASE I = {}
  <2>1. DOMAIN c = 1 .. Len(c)
    OBVIOUS
  <2>2. Entries(c) \cap E = {}
    BY <1>3, <1>5, <2>1 DEF Entries
  <2> QED BY <1>1, <1>2, <1>4, <1>5, <2>2
<1>6. CASE I # {}
  <2>1. I \in SUBSET Nat
    BY <1>3
  <2>2. n \in I /\ \A i \in I : n <= i
    BY <1>4, <1>6, <2>1, LeastIs
  <2>3. n \in 1 .. Len(c) /\ c[n] \in E /\ n \in Nat
    BY <1>3, <2>2
  <2>4. ASSUME NEW i \in 1 .. Len(c), i < n PROVE c[i] \notin E
    BY <1>3, <2>2, <2>3, <2>4
  <2> QED BY <1>1, <1>2, <2>3, <2>4
<1> QED BY <1>5, <1>6

\* What is gone through, p, and what is left, r.
Parts(d, x, n, p, r) ==
  /\ p \in Seq(Candidate) /\ r \in Seq(Candidate) /\ x.candidates = p \o r
  /\ n = 0 => r = <<>> /\ Those(p, InTurn(d, x)) = <<>>
  /\ n # 0 => /\ x.candidates[n] \in Candidate
              /\ Those(p, InTurn(d, x)) = <<x.candidates[n]>>

LEMMA PassedParts ==
  ASSUME NEW d, NEW x \in Context, NEW n, n = Next1(d, x), NEW p, p = Passed(d, x),
         NEW r, r = SubSeq(x.candidates, Len(p) + 1, Len(x.candidates))
  PROVE  Parts(d, x, n, p, r)
<1>1. PICK c \in Seq(Candidate) : c = x.candidates
  BY ContextFields
<1>2. PICK E : E = InTurn(d, x)
  OBVIOUS
<1>3. PICK k : k = IF n = 0 THEN Len(c) ELSE n
  OBVIOUS
<1>4. p = SubSeq(c, 1, k)
  BY <1>1, <1>3 DEF Passed
<1>5. \/ n = 0 /\ Entries(c) \cap E = {}
      \/ /\ n \in 1 .. Len(c) /\ c[n] \in E
         /\ \A i \in 1 .. Len(c) : i < n => c[i] \notin E
  BY <1>1, <1>2, NextIs
<1>6. k \in 0 .. Len(c) /\ Len(c) \in Nat
  BY <1>3, <1>5
<1>7. p \in Seq(Candidate) /\ Len(p) = k /\ \A i \in 1 .. k : p[i] = c[i]
  BY <1>4, <1>6
<1>8. r = SubSeq(c, k + 1, Len(c))
  BY <1>1, <1>7
<1>9. r \in Seq(Candidate) /\ c = p \o r
  <2>1. PICK l \in Nat : l = Len(c)
    BY <1>6
  <2>5. PICK m \in Int : m = k + 1
    BY <1>6
  <2>6. \A i \in m .. l : c[i] \in Candidate
    BY <1>6, <2>1, <2>5, ElementOfSeq
  <2>7. l \in Int
    BY <2>1
  <2>8. SubSeq(c, m, l) \in Seq(Candidate)
    BY <2>5, <2>6, <2>7, SubSeqProperties
  <2>2. r \in Seq(Candidate)
    BY <1>8, <2>1, <2>5, <2>8
  <2>3. 1 \in 1 .. Len(c) + 1 /\ k \in 1 - 1 .. Len(c) /\ Len(c) \in k .. Len(c)
    BY <1>6
  <2>4. SubSeq(c, 1, k) \o SubSeq(c, k + 1, Len(c)) = SubSeq(c, 1, Len(c))
    BY <2>3, ConcatAdjacentSubSeq
  <2> QED BY <1>4, <1>8, <2>2, <2>4, SubSeqFull
<1>10. CASE n = 0
  <2>1. r = <<>>
    BY <1>3, <1>6, <1>8, <1>10
  <2>2. DOMAIN c = 1 .. Len(c) /\ DOMAIN p = 1 .. Len(c)
    BY <1>3, <1>7, <1>10
  <2>3. Entries(p) \cap E = {}
    BY <1>3, <1>5, <1>7, <1>10, <2>2 DEF Entries
  <2>4. Those(p, E) = <<>>
    BY <1>7, <2>3, ThoseNone
  <2> QED BY <1>1, <1>2, <1>7, <1>9, <1>10, <2>1, <2>4 DEF Parts
<1>11. CASE n # 0
  <2>1. k = n /\ n \in 1 .. Len(c) /\ c[n] \in E /\ \A i \in 1 .. Len(c) : i < n => c[i] \notin E
    BY <1>3, <1>5, <1>11
  <2>2. PICK e \in Candidate : e = c[n]
    BY <2>1
  <2>3. PICK q : q = SubSeq(c, 1, n - 1)
    OBVIOUS
  <2>4. q \in Seq(Candidate) /\ Len(q) = n - 1 /\ \A i \in 1 .. n - 1 : q[i] = c[i]
    BY <1>6, <2>1, <2>3
  <2>5. p = Append(q, e)
    <3>1. /\ Append(q, e) \in Seq(Candidate) /\ Len(Append(q, e)) = n
          /\ \A i \in 1 .. n - 1 : Append(q, e)[i] = q[i]
          /\ Append(q, e)[n] = e
      BY <2>1, <2>2, <2>4, AppendProperties
    <3>2. PICK a \in Seq(Candidate) : a = Append(q, e)
      BY <3>1
    <3>4. Len(a) = n /\ a[n] = e /\ \A i \in 1 .. n - 1 : a[i] = c[i]
      BY <2>4, <3>1, <3>2
    <3>5. Len(p) = n /\ \A i \in 1 .. n : p[i] = c[i]
      BY <1>7, <2>1
    <3>6. \A i \in 1 .. n : i = n \/ i \in 1 .. n - 1
      BY <2>1
    <3>3. Len(a) = Len(p) /\ \A i \in 1 .. Len(p) : a[i] = p[i]
      BY <2>2, <3>4, <3>5, <3>6
    <3> QED BY <1>7, <3>2, <3>3, SeqEqual
  <2>6. Entries(q) \cap E = {}
    <3>1. \A i \in 1 .. n - 1 : i \in 1 .. Len(c) /\ i < n
      BY <1>6, <2>1
    <3>2. DOMAIN q = 1 .. n - 1
      BY <2>4
    <3> QED BY <2>1, <2>4, <3>1, <3>2 DEF Entries
  <2>7. Those(q, E) = <<>>
    BY <2>4, <2>6, ThoseNone
  <2>8. Those(p, E) = Append(<<>>, e)
    <3>1. e \in E
      BY <2>1, <2>2
    <3>2. Those(Append(q, e), E) = IF e \in E THEN Append(Those(q, E), e) ELSE Those(q, E)
      BY <2>4, ThoseNext
    <3> QED BY <2>5, <2>7, <3>1, <3>2, Zenon
  <2>9. Append(<<>>, e) = <<e>>
    OBVIOUS
  <2> QED BY <1>1, <1>2, <1>7, <1>9, <1>11, <2>2, <2>8, <2>9 DEF Parts
<1> QED BY <1>10, <1>11

\* A chain goes on when what was gone through is taken off.
LEMMA ChainGoesOn ==
  ASSUME NEW d, NEW x \in Context, Chain(d, x),
         NEW p \in Seq(Candidate), NEW r \in Seq(Candidate), x.candidates = p \o r,
         NEW y \in Context, y.candidates = r,
         y.tried = x.tried \o Those(p, InTurn(d, x)),
         y.deferred = x.deferred \o Those(p, PutOff(d, x)),
         y.modules = x.modules, y.blank = x.blank
  PROVE  Chain(d, y)
<1>1. PICK E : E = InTurn(d, x)
  OBVIOUS
<1>2. PICK P : P = PutOff(d, x)
  OBVIOUS
<1>3. Bundles(d, y) = Bundles(d, x)
  BY DEF Bundles
<1>4. Order(d, y) = Order(d, x)
  BY <1>3 DEF Order
<1>5. PutOff(d, y) = P /\ InTurn(d, y) = E
  BY <1>1, <1>2 DEF PutOff, InTurn
<1>6. PICK a \in Seq(Candidate) : a = x.tried
  BY ContextFields
<1>7. PICK b \in Seq(Candidate) : b = x.deferred
  BY ContextFields
<1>8. Follows(a, p, r, E) /\ Follows(b, p, r, P)
  BY ThoseFollow
<1>9. y.tried \o Those(r, E) = x.tried \o Those(p \o r, E)
  BY <1>1, <1>6, <1>8, Zenon DEF Follows
<1>10. y.deferred \o Those(r, P) = x.deferred \o Those(p \o r, P)
  BY <1>2, <1>7, <1>8, Zenon DEF Follows
<1> QED BY <1>1, <1>2, <1>3, <1>4, <1>5, <1>9, <1>10 DEF Chain

\* What Proceed makes of a context when there is a next candidate, and when there
\* is none.
LEMMA NextIsAsked ==
  ASSUME NEW d, NEW x \in Context, Chain(d, x), NEW n, NEW p, NEW r, Parts(d, x, n, p, r),
         n # 0, NEW at \in {"fskit", "recognize"},
         NEW y, y = [x EXCEPT !.candidates = r, !.deferred = @ \o Those(p, PutOff(d, x)),
                              !.filesystem = x.candidates[n], !.at = at,
                              !.tried = Append(@, x.candidates[n])]
  PROVE  y \in Context /\ Chain(d, y) /\ Located(y) /\ y.at # "idle"
<1>1. PICK e \in Candidate : e = x.candidates[n]
  BY DEF Parts
<1>2. /\ p \in Seq(Candidate) /\ r \in Seq(Candidate) /\ x.candidates = p \o r
      /\ Those(p, InTurn(d, x)) = <<e>>
  BY <1>1 DEF Parts
<1>3. PICK w \in Seq(Candidate) : w = Those(p, PutOff(d, x))
  BY <1>2, ThoseFacts
<1>4. x.tried \in Seq(Candidate) /\ x.deferred \in Seq(Candidate)
  BY ContextFields
<1>5. PICK f \in Seq(Candidate) : f = x.deferred \o w
  BY <1>4, ConcatProperties
<1>6. PICK t \in Seq(Candidate) : t = Append(x.tried, e) /\ Len(t) > 0 /\ t[Len(t)] = e
  <2>1. PICK s \in Seq(Candidate) : s = x.tried
    BY <1>4
  <2>2. Append(s, e) \in Seq(Candidate) /\ Len(Append(s, e)) > 0 /\ Append(s, e)[Len(Append(s, e))] = e
    OBVIOUS
  <2> QED BY <2>1, <2>2
<1>7. t = x.tried \o <<e>>
  BY <1>4, <1>6, AppendIsConcat
<1>8. y = [x EXCEPT !.candidates = r, !.deferred = f, !.filesystem = e, !.at = at, !.tried = t]
  BY <1>1, <1>3, <1>5, <1>6
<1>9. /\ y \in Context
      /\ y.candidates = r /\ y.deferred = f /\ y.filesystem = e /\ y.at = at /\ y.tried = t
      /\ y.modules = x.modules /\ y.blank = x.blank
  BY <1>2, <1>8 DEF Context
<1>10. y.tried = x.tried \o Those(p, InTurn(d, x)) /\ y.deferred = x.deferred \o Those(p, PutOff(d, x))
  BY <1>2, <1>3, <1>5, <1>7, <1>9, Zenon
<1>11. Chain(d, y)
  BY <1>2, <1>9, <1>10, ChainGoesOn
<1>12. Located(y)
  BY <1>6, <1>9 DEF Located
<1> QED BY <1>9, <1>11, <1>12

Remainder(d, x, p, r) ==
  [x EXCEPT !.candidates = r, !.deferred = @ \o Those(p, PutOff(d, x)),
            !.filesystem = NoCandidate]

LEMMA NoneIsLeft ==
  ASSUME NEW d, NEW x \in Context, Chain(d, x),
         NEW p \in Seq(Candidate), NEW r, x.candidates = p \o r,
         r = <<>>, Those(p, InTurn(d, x)) = <<>>,
         NEW y, y = Remainder(d, x, p, r)
  PROVE  /\ y \in Context /\ Chain(d, y) /\ y.candidates = <<>> /\ y.tried = Order(d, y)
         /\ y.filesystem = NoCandidate /\ y.modules = x.modules
<1>1. r \in Seq(Candidate) /\ r = <<>> /\ Those(p, InTurn(d, x)) = <<>>
  BY EmptySeq
<1>2. PICK w \in Seq(Candidate) : w = Those(p, PutOff(d, x))
  BY <1>1, ThoseFacts
<1>3. PICK t \in Seq(Candidate) : t = x.tried
  BY ContextFields
<1>4. PICK f \in Seq(Candidate) : f = x.deferred \o w
  BY ContextFields, ConcatProperties
<1>5. t \o <<>> = t
  BY ConcatEmptySeq
<1>6. y = [x EXCEPT !.candidates = r, !.deferred = f, !.filesystem = NoCandidate]
  BY <1>2, <1>4 DEF Remainder
<1>7. /\ y \in Context
      /\ y.candidates = r /\ y.deferred = f /\ y.filesystem = NoCandidate /\ y.tried = t
      /\ y.modules = x.modules /\ y.blank = x.blank
  BY <1>1, <1>3, <1>6 DEF Context
<1>8. y.tried = x.tried \o Those(p, InTurn(d, x)) /\ y.deferred = x.deferred \o Those(p, PutOff(d, x))
  BY <1>1, <1>2, <1>3, <1>4, <1>5, <1>7, Zenon
<1>9. Chain(d, y)
  BY <1>1, <1>7, <1>8, ChainGoesOn
<1>10. Those(y.candidates, InTurn(d, y)) = <<>>
  BY <1>1, <1>7, ThoseEmpty, Zenon
<1>11. y.tried = Order(d, y)
  BY <1>5, <1>7, <1>9, <1>10 DEF Chain
<1> QED BY <1>1, <1>7, <1>9, <1>11

LEMMA GoesChains ==
  ASSUME Chained, NEW d \in Job, NEW y \in Context, Chain(d, y), Located(y), y.at # "idle",
         Goes(d, y), UNCHANGED fskitMissing
  PROVE  Chained'
<1>1. /\ probe' = [probe EXCEPT ![d] = y] /\ probe \in [Job -> Context]
      /\ answer' = answer /\ calls' = calls
  BY DEF Goes, Chained
<1>2. probe' \in [Job -> Context] /\ probe'[d] = y /\ \A e \in Job : e # d => probe'[e] = probe[e]
  BY <1>1
<1>3. ASSUME NEW e \in Job PROVE OnItsWay(e)'
  <2>1. CASE e = d
    BY <1>2, <2>1 DEF OnItsWay
  <2>2. CASE e # d
    BY <1>2, <2>2 DEF OnItsWay, Chained
  <2> QED BY <2>1, <2>2
<1>4. ASSUME NEW e \in Job, (calls[e] > 0)' PROVE Right(e, answer[e])'
  <2>1. calls[e] > 0 /\ answer'[e] = answer[e]
    BY <1>1, <1>4
  <2>2. Right(e, answer[e])
    BY <2>1 DEF Chained
  <2> QED BY <1>1, <2>1, <2>2 DEF Right
<1>5. (calls \in [Job -> Nat])' /\ (answer = [e \in Job |-> answer[e]])'
  BY <1>1 DEF Chained
<1> QED BY <1>2, <1>3, <1>4, <1>5 DEF Chained

LEMMA AnswersChains ==
  ASSUME Chained, NEW d \in Job, NEW y, NEW clean, Answers(d, y, clean), UNCHANGED fskitMissing,
         Right(d, [found |-> y.filesystem, clean |-> clean, context |-> y])
  PROVE  Chained'
<1>1. PICK b : b = [found |-> y.filesystem, clean |-> clean, context |-> y]
  OBVIOUS
<1>2. /\ probe' = [probe EXCEPT ![d] = NoContext] /\ answer' = [answer EXCEPT ![d] = b]
      /\ calls' = [calls EXCEPT ![d] = @ + 1]
  BY <1>1 DEF Answers
<1>3. NoContext \in Context /\ NoContext.at = "idle"
  <2>1. PICK s \in Seq(Candidate) : s = <<>>
    BY EmptySeq
  <2>2. NoContext = [at |-> "idle", candidates |-> s, deferred |-> s, filesystem |-> NoCandidate,
                     tried |-> s, modules |-> "not yet", blank |-> FALSE]
    BY <2>1 DEF NoContext
  <2> QED BY <2>2 DEF Context
<1>4. /\ probe' \in [Job -> Context] /\ probe'[d] = NoContext
      /\ \A e \in Job : e # d => probe'[e] = probe[e]
  BY <1>2, <1>3 DEF Chained
<1>5. ASSUME NEW e \in Job PROVE OnItsWay(e)'
  <2>1. CASE e = d
    BY <1>3, <1>4, <2>1 DEF OnItsWay
  <2>2. CASE e # d
    BY <1>4, <2>2 DEF OnItsWay, Chained
  <2> QED BY <2>1, <2>2
<1>6. ASSUME NEW e \in Job, (calls[e] > 0)' PROVE Right(e, answer[e])'
  <2>1. CASE e = d
    <3>1. answer'[e] = b
      BY <1>2, <2>1 DEF Chained
    <3>2. Right(e, b)
      BY <1>1, <2>1
    <3> QED BY <3>1, <3>2 DEF Right
  <2>2. CASE e # d
    <3>1. calls'[e] = calls[e] /\ answer'[e] = answer[e]
      BY <1>2, <2>2 DEF Chained
    <3>2. Right(e, answer[e])
      BY <1>6, <3>1 DEF Chained
    <3> QED BY <3>1, <3>2 DEF Right
  <2> QED BY <2>1, <2>2
<1>7. (calls \in [Job -> Nat])' /\ (answer = [e \in Job |-> answer[e]])'
  BY <1>2 DEF Chained
<1> QED BY <1>4, <1>5, <1>6, <1>7 DEF Chained

LEMMA ProceedChains ==
  ASSUME Chained, NEW d \in Job, NEW x \in Context, Chain(d, x), NEW how, Proceed(d, x, how),
         UNCHANGED fskitMissing
  PROVE  Chained'
<1>1. PICK n : n = Next1(d, x)
  OBVIOUS
<1>2. PICK p : p = Passed(d, x)
  OBVIOUS
<1>3. PICK r : r = SubSeq(x.candidates, Len(p) + 1, Len(x.candidates))
  OBVIOUS
<1>4. Parts(d, x, n, p, r)
  BY <1>1, <1>2, <1>3, PassedParts
<1> DEFINE rest == [x EXCEPT !.candidates = r, !.deferred = @ \o Those(p, PutOff(d, x)),
                             !.filesystem = NoCandidate]
<1>5. \/ /\ n # 0 /\ Goes(d, [rest EXCEPT !.at = IF how = "thread" THEN "fskit" ELSE "recognize",
                                          !.filesystem = x.candidates[n],
                                          !.tried = Append(@, x.candidates[n])])
      \/ n = 0 /\ x.modules = "not yet" /\ Goes(d, [rest EXCEPT !.at = "modules"])
      \/ n = 0 /\ (x.modules # "not yet" \/ fskitMissing) /\ Answers(d, rest, FALSE)
  BY <1>1, <1>2, <1>3 DEF Proceed
<1>6. CASE n # 0
  <2>1. PICK at \in {"fskit", "recognize"} : at = IF how = "thread" THEN "fskit" ELSE "recognize"
    OBVIOUS
  <2>2. PICK y : y = [x EXCEPT !.candidates = r, !.deferred = @ \o Those(p, PutOff(d, x)),
                               !.filesystem = x.candidates[n], !.at = at,
                               !.tried = Append(@, x.candidates[n])]
    OBVIOUS
  <2>3. y = [rest EXCEPT !.at = at, !.filesystem = x.candidates[n],
                         !.tried = Append(@, x.candidates[n])]
    BY <2>2 DEF Context
  <2>4. Goes(d, y)
    BY <1>5, <1>6, <2>1, <2>3
  <2>5. y \in Context /\ Chain(d, y) /\ Located(y) /\ y.at # "idle"
    BY <1>4, <1>6, <2>2, NextIsAsked
  <2> QED BY <2>4, <2>5, GoesChains
<1>7. CASE n = 0
  <2>1. PICK z : z = rest
    OBVIOUS
  <2>2. /\ z \in Context /\ Chain(d, z) /\ z.candidates = <<>> /\ z.tried = Order(d, z)
        /\ z.filesystem = NoCandidate /\ z.modules = x.modules
    <3>1. z = Remainder(d, x, p, r)
      BY <2>1 DEF Remainder
    <3> HIDE DEF rest
    <3>2. /\ p \in Seq(Candidate) /\ x.candidates = p \o r
          /\ r = <<>> /\ Those(p, InTurn(d, x)) = <<>>
      BY <1>4, <1>7 DEF Parts
    <3> QED BY <3>1, <3>2, NoneIsLeft
  <2>3. CASE x.modules = "not yet" /\ Goes(d, [rest EXCEPT !.at = "modules"])
    <3>1. PICK y : y = [z EXCEPT !.at = "modules"]
      OBVIOUS
    <3>2. /\ y \in Context /\ y.at = "modules" /\ y.candidates = z.candidates
          /\ y.deferred = z.deferred /\ y.tried = z.tried /\ y.modules = z.modules
          /\ y.blank = z.blank
      BY <2>2, <3>1 DEF Context
    <3>3. Bundles(d, y) = Bundles(d, z) /\ PutOff(d, y) = PutOff(d, z) /\ InTurn(d, y) = InTurn(d, z)
      BY <3>2 DEF Bundles, PutOff, InTurn
    <3>4. Chain(d, y)
      BY <2>2, <3>2, <3>3 DEF Chain, Order
    <3>5. Located(y)
      BY <2>2, <2>3, <3>2 DEF Located
    <3> QED BY <2>1, <2>3, <3>1, <3>2, <3>4, <3>5, GoesChains
  <2>4. CASE (x.modules # "not yet" \/ fskitMissing) /\ Answers(d, rest, FALSE)
    <3>1. Right(d, [found |-> z.filesystem, clean |-> FALSE, context |-> z])
      BY <2>2, <2>4 DEF Right
    <3>2. Answers(d, z, FALSE)
      BY <2>1, <2>4
    <3> QED BY <3>1, <3>2, AnswersChains
  <2> QED BY <1>5, <1>7, <2>3, <2>4
<1> QED BY <1>6, <1>7

\* A probe begins with a chain: the bundles that fit and are not put off are those
\* in turn.
LEMMA FirstChain ==
  ASSUME NEW d \in Job, NEW blank \in BOOLEAN,
         NEW x, x = [NoContext EXCEPT !.candidates = IF blank THEN <<>> ELSE ProbeList,
                                      !.blank = blank]
  PROVE  x \in Context /\ Chain(d, x)
<1>1. PICK s \in Seq(Candidate) : s = <<>>
  BY EmptySeq
<1>2. PICK c \in Seq(Candidate) : c = IF blank THEN <<>> ELSE ProbeList
  BY <1>1, ListFacts
<1>3. /\ x.candidates = c /\ x.tried = <<>> /\ x.deferred = <<>>
      /\ x.modules = "not yet" /\ x.blank = blank
  BY <1>2 DEF NoContext
<1>4. x \in Context
  <2>1. NoContext = [at |-> "idle", candidates |-> s, deferred |-> s, filesystem |-> NoCandidate,
                     tried |-> s, modules |-> "not yet", blank |-> FALSE]
    BY <1>1 DEF NoContext
  <2>2. NoContext \in Context
    BY <2>1 DEF Context
  <2>3. x = [NoContext EXCEPT !.candidates = c, !.blank = blank]
    BY <1>2
  <2> HIDE <2>1
  <2> QED BY <2>2, <2>3 DEF Context
<1>5. PICK M \in SUBSET Candidate : M = Matches[d]
  BY ListFacts
<1>6. PutOff(d, x) = M \cap Ntfs /\ InTurn(d, x) = M \cap (Candidate \ Ntfs)
  BY <1>3, <1>5 DEF PutOff, InTurn
<1>7. Bundles(d, x) = Those(c, M)
  <2>1. Those(<<>>, M) = <<>>
    BY ThoseEmpty
  <2> QED BY <1>2, <1>3, <1>5, <2>1 DEF Bundles
<1>8. \A S : Those(Those(c, M), S) = Those(c, M \cap S)
  BY ThoseOfThose
<1>9. PICK t \in Seq(Candidate) : t = Those(c, M \cap (Candidate \ Ntfs))
  BY ThoseFacts
<1>10. PICK f \in Seq(Candidate) : f = Those(c, M \cap Ntfs)
  BY ThoseFacts
<1>11. /\ t \o <<>> = t /\ <<>> \o t = t /\ <<>> \o f = f
  BY ConcatEmptySeq
<1>12. Those(Bundles(d, x), Candidate \ Ntfs) = t /\ Those(Bundles(d, x), Ntfs) = f
  BY <1>7, <1>8, <1>9, <1>10
<1>13. Order(d, x) = t
  BY <1>3, <1>11, <1>12 DEF Order
<1>14. x.tried \o Those(x.candidates, InTurn(d, x)) = t
  BY <1>3, <1>6, <1>9, <1>11
<1>15. x.deferred \o Those(x.candidates, PutOff(d, x)) = f
  BY <1>3, <1>6, <1>10, <1>11
<1> QED BY <1>3, <1>4, <1>12, <1>13, <1>14, <1>15 DEF Chain

\* The modules join the chain, and what was put off at the end of it.
LEMMA ModulesChain ==
  ASSUME NEW d \in Job, NEW x \in Context, Chain(d, x), x.candidates = <<>>,
         x.modules = "not yet", NEW listed \in BOOLEAN, NEW y, y = ListModules(x, listed)
  PROVE  y \in Context /\ Chain(d, y)
<1>1. PICK M \in SUBSET Candidate : M = Matches[d]
  BY ListFacts
<1>2. PICK t \in Seq(Candidate) : t = x.tried
  BY ContextFields
<1>3. PICK f \in Seq(Candidate) : f = x.deferred
  BY ContextFields
<1>4. PICK m \in Seq(Candidate) : m = IF listed THEN Modules ELSE <<>>
  BY EmptySeq, ListFacts
<1>5. Follows(t, m, f, M)
  BY ThoseFollow
<1>6. PICK c \in Seq(Candidate) : c = m \o f
  BY ConcatProperties
<1>7. PICK s \in Seq(Candidate) : s = <<>>
  BY EmptySeq
<1>8. y = [x EXCEPT !.candidates = c, !.deferred = s,
                    !.modules = IF listed THEN "listed" ELSE "none"]
  BY <1>3, <1>4, <1>6, <1>7 DEF ListModules
<1>9. /\ y \in Context
      /\ y.candidates = c /\ y.deferred = <<>> /\ y.tried = t /\ y.blank = x.blank
      /\ y.modules = IF listed THEN "listed" ELSE "none"
  BY <1>2, <1>7, <1>8 DEF Context
<1>10. Bundles(d, y) = Bundles(d, x)
  BY <1>9 DEF Bundles
<1>11. PICK b \in Seq(Candidate) : b = Bundles(d, x)
  BY OrderTyped
<1>12. f = Those(b, Ntfs)
  <2>1. x.deferred \o Those(x.candidates, PutOff(d, x)) = Those(Bundles(d, x), Ntfs)
    BY DEF Chain
  <2>2. Those(x.candidates, PutOff(d, x)) = <<>>
    BY ThoseEmpty
  <2>3. f \o <<>> = f
    BY ConcatEmptySeq
  <2> QED BY <1>3, <1>11, <2>1, <2>2, <2>3
<1>13. t = Those(b, Candidate \ Ntfs)
  <2>1. x.tried \o Those(x.candidates, InTurn(d, x)) = Order(d, x)
    BY DEF Chain
  <2>2. Those(x.candidates, InTurn(d, x)) = <<>>
    BY ThoseEmpty
  <2>3. t \o <<>> = t
    BY ConcatEmptySeq
  <2>4. PICK u \in Seq(Candidate) : u = Those(b, Candidate \ Ntfs)
    BY ThoseFacts
  <2>5. Order(d, x) = u
    <3>1. (u \o <<>>) \o <<>> = u
      BY ConcatEmptySeq
    <3> QED BY <1>11, <2>4, <3>1 DEF Order
  <2> QED BY <1>2, <2>1, <2>2, <2>3, <2>4, <2>5
<1>14. PutOff(d, y) = {} /\ InTurn(d, y) = M
  BY <1>1, <1>9 DEF PutOff, InTurn
<1>15. Those(f, M) = f
  <2>1. b = IF x.blank THEN <<>> ELSE Those(ProbeList, M)
    BY <1>1, <1>11 DEF Bundles
  <2>2. Entries(b) \subseteq M
    <3>1. PICK l \in Seq(Candidate) : l = ProbeList
      BY ListFacts
    <3>2. Entries(Those(l, M)) = Entries(l) \cap M
      BY ThoseFacts
    <3> QED BY <2>1, <3>1, <3>2, NoEntries
  <2>3. Entries(f) \subseteq Entries(b)
    <3>1. Entries(Those(b, Ntfs)) = Entries(b) \cap Ntfs
      BY ThoseFacts
    <3> QED BY <1>12, <3>1
  <2> QED BY <2>2, <2>3, ThoseAll
<1>16. PICK w \in Seq(Candidate) : w = Those(m, M)
  BY ThoseFacts
<1>17. w = IF y.modules = "listed" THEN Those(Modules, Matches[d]) ELSE <<>>
  <2>1. Those(<<>>, M) = <<>>
    BY ThoseEmpty
  <2> QED BY <1>1, <1>4, <1>9, <1>16, <2>1
<1>18. Order(d, y) = (t \o w) \o f
  BY <1>9, <1>10, <1>11, <1>12, <1>13, <1>17 DEF Order
<1>19. (t \o w) \o f = t \o Those(c, M)
  BY <1>6, <1>15, <1>16, <1>5, Zenon DEF Follows
<1>20. y.tried \o Those(y.candidates, InTurn(d, y)) = Order(d, y)
  BY <1>9, <1>14, <1>18, <1>19
<1>21. y.deferred \o Those(y.candidates, PutOff(d, y)) = <<>>
  <2>1. Those(c, {}) = <<>>
    BY ThoseNone
  <2>2. <<>> \o <<>> = <<>>
    BY <1>7, ConcatEmptySeq
  <2> QED BY <1>9, <1>14, <2>1, <2>2
<1> QED BY <1>9, <1>20, <1>21 DEF Chain

\* What is on its way answers rightly when the one that is asked has recognized the
\* volume.
LEMMA EndsChains ==
  ASSUME Chained, NEW d \in Job, probe[d].at \in {"recognize", "uuid", "clean", "fskit"},
         NEW clean, NEW how, Ends(d, clean, how), UNCHANGED fskitMissing
  PROVE  Chained'
<1>1. PICK y \in Context : y = probe[d]
  BY DEF Chained
<1>2. Chain(d, y) /\ Located(y)
  BY <1>1 DEF Chained, OnItsWay
<1>3. /\ y.filesystem = y.tried[Len(y.tried)] /\ y.filesystem # NoCandidate
  BY <1>1, <1>2, ListFacts DEF Located
<1>4. PICK t \in Seq(Candidate) : t = y.tried
  BY ContextFields
<1>5. PICK w \in Seq(Candidate) : w = Those(y.candidates, InTurn(d, y))
  BY ContextFields, ThoseFacts
<1>6. IsPrefix(y.tried, Order(d, y))
  <2>1. t \o w = Order(d, y)
    BY <1>2, <1>4, <1>5 DEF Chain
  <2>2. IsPrefix(t, t \o w)
    BY PrefixOfJoined
  <2> QED BY <1>4, <2>1, <2>2
<1>7. Right(d, [found |-> y.filesystem, clean |-> clean, context |-> y])
  BY <1>3, <1>6 DEF Right, Last
<1>8. Answers(d, y, clean)
  BY <1>1 DEF Ends
<1> QED BY <1>7, <1>8, AnswersChains

LEMMA RunChains ==
  ASSUME Chained, NEW d \in Job, probe[d].at \in {"recognize", "uuid", "clean", "fskit"},
         NEW at \in {"uuid", "clean"}, NEW command, NEW how, Run(d, at, command, how),
         UNCHANGED fskitMissing
  PROVE  Chained'
<1>1. PICK x \in Context : x = probe[d]
  BY DEF Chained
<1>2. Chain(d, x) /\ Located(x)
  BY <1>1 DEF Chained, OnItsWay
<1>3. PICK y : y = [x EXCEPT !.at = at]
  OBVIOUS
<1>4. /\ y \in Context /\ y.at = at /\ y.candidates = x.candidates
      /\ y.deferred = x.deferred /\ y.tried = x.tried /\ y.modules = x.modules
      /\ y.blank = x.blank /\ y.filesystem = x.filesystem
  BY <1>3 DEF Context
<1>5. Bundles(d, y) = Bundles(d, x) /\ PutOff(d, y) = PutOff(d, x) /\ InTurn(d, y) = InTurn(d, x)
  BY <1>4 DEF Bundles, PutOff, InTurn
<1>6. Chain(d, y)
  BY <1>2, <1>4, <1>5 DEF Chain, Order
<1>7. Located(y) /\ y.at # "idle"
  BY <1>1, <1>2, <1>4 DEF Located
<1>8. Goes(d, y)
  BY <1>1, <1>3 DEF Run
<1> QED BY <1>4, <1>6, <1>7, <1>8, GoesChains

LEMMA ContinuesChains ==
  ASSUME Chained, NEW d \in Job, NEW ok \in BOOLEAN, NEW how, Continues(d, ok, how),
         UNCHANGED fskitMissing
  PROVE  Chained'
<1>1. PICK x \in Context : x = probe[d]
  BY DEF Chained
<1>2. ASSUME probe[d].at # "idle" PROVE Chain(d, x) /\ Located(x)
  BY <1>1, <1>2 DEF Chained, OnItsWay
<1>3. ASSUME probe[d].at # "idle", Proceed(d, probe[d], how) PROVE Chained'
  BY <1>1, <1>2, <1>3, ProceedChains
<1>4. CASE RecognizeDone(d, ok, how)
  BY <1>3, <1>4, RunChains, EndsChains DEF RecognizeDone
<1>5. CASE UUIDDone(d, how)
  BY <1>5, RunChains, EndsChains DEF UUIDDone
<1>6. CASE CleanDone(d, ok, how)
  BY <1>6, EndsChains DEF CleanDone
<1>7. CASE ModuleDone(d, ok, how)
  BY <1>3, <1>7, EndsChains DEF ModuleDone
<1>8. CASE ModulesListed(d, ok, how)
  <2>1. PICK y : y = ListModules(x, ok)
    OBVIOUS
  <2>2. x.at = "modules" /\ Proceed(d, y, how)
    BY <1>1, <1>8, <2>1 DEF ModulesListed
  <2>3. Chain(d, x) /\ x.candidates = <<>> /\ x.modules = "not yet"
    BY <1>1, <1>2, <2>2 DEF Located
  <2>4. y \in Context /\ Chain(d, y)
    BY <2>1, <2>3, ModulesChain
  <2> QED BY <2>2, <2>4, ProceedChains
<1> QED BY <1>4, <1>5, <1>6, <1>7, <1>8 DEF Continues

LEMMA ChainedAtFirst == Init => Chained
<1> SUFFICES ASSUME Init PROVE Chained
  OBVIOUS
<1>1. PICK s \in Seq(Candidate) : s = <<>>
  BY EmptySeq
<1>2. NoContext = [at |-> "idle", candidates |-> s, deferred |-> s, filesystem |-> NoCandidate,
                   tried |-> s, modules |-> "not yet", blank |-> FALSE]
  BY <1>1 DEF NoContext
<1>3. NoContext \in Context /\ NoContext.at = "idle"
  BY <1>2 DEF Context
<1>4. /\ probe = [d \in Job |-> NoContext] /\ answer = [d \in Job |-> NoAnswer]
      /\ calls = [d \in Job |-> 0]
  BY DEF Init
<1>5. probe \in [Job -> Context] /\ calls \in [Job -> Nat] /\ answer = [d \in Job |-> answer[d]]
  BY <1>3, <1>4
<1>6. ASSUME NEW d \in Job PROVE OnItsWay(d) /\ ~(calls[d] > 0)
  <2>1. probe[d] = NoContext /\ calls[d] = 0
    BY <1>4
  <2> QED BY <1>3, <2>1 DEF OnItsWay
<1> QED BY <1>5, <1>6 DEF Chained

LEMMA ChainedGoesOn == Chained /\ [Next]_vars => Chained'
<1> SUFFICES ASSUME Chained, [Next]_vars PROVE Chained'
  OBVIOUS
<1>1. ASSUME NEW d \in Job, NEW blank \in BOOLEAN, NEW how, DAProbe(d, blank, how)
      PROVE  Chained'
  <2>1. PICK x : x = [NoContext EXCEPT !.candidates = IF blank THEN <<>> ELSE ProbeList,
                                       !.blank = blank]
    OBVIOUS
  <2>2. Proceed(d, x, how) /\ UNCHANGED fskitMissing
    BY <1>1, <2>1 DEF DAProbe
  <2>3. x \in Context /\ Chain(d, x)
    BY <2>1, FirstChain
  <2> QED BY <2>2, <2>3, ProceedChains
<1>2. ASSUME NEW d \in Job, NEW ok \in BOOLEAN, NEW how, CallbackOf(d, ok, how)
      PROVE  Chained'
  BY <1>2, ContinuesChains DEF CallbackOf
<1>3. ASSUME UNCHANGED <<fskitMissing, probeVars>> PROVE Chained'
  BY <1>3 DEF probeVars, Chained, OnItsWay, Right
<1>4. CASE UNCHANGED vars
  BY <1>3, <1>4 DEF vars
<1> QED BY <1>1, <1>2, <1>3, <1>4 DEF Next, Callbacks

-----------------------------------------------------------------------------
(* The theorems.                                                           *)

\* A thread runs the function it was created for, no function runs on two
\* threads, and the job found by a child's identifier is that child's, though
\* both kinds of identifiers are used again while old jobs are on the lists
\* (__DAThreadFunction, __DACommandMachChannelHandler).
THEOREM HelpersRunTheirJobs == Spec => []RunsOwnJob
  <1>1. Workers => RunsOwnJob
    <2> SUFFICES ASSUME Workers PROVE RunsOwnJob
      OBVIOUS
    <2>1. /\ threadJobs \in Seq(ThreadJob) /\ thread \in ThreadMap
          /\ ThreadsOK(threadJobs, thread) /\ CommandsOK(commandJobs, process)
      BY TypeIs DEF Workers
    <2>2. \A t \in Thread : thread[t].runs \in {NoJob, thread[t].job}
      BY <2>1 DEF ThreadsOK, NoThread
    <2>3. ASSUME NEW t \in Thread, NEW u \in Thread, thread[t].at = "running",
                 thread[u].at = "running", thread[t].runs = thread[u].runs
          PROVE  t = u
      <3>1. thread[t].job = thread[u].job
        BY <2>1, <2>3 DEF ThreadsOK
      <3>2. PICK i \in DOMAIN threadJobs : threadJobs[i].thread = t /\ ~threadJobs[i].exited
        BY <2>1, <2>3 DEF ThreadsOK
      <3>3. PICK k \in DOMAIN threadJobs : threadJobs[k].thread = u /\ ~threadJobs[k].exited
        BY <2>1, <2>3 DEF ThreadsOK
      <3>4. threadJobs[i].job = thread[t].job /\ threadJobs[k].job = thread[u].job
        BY <2>1, <3>2, <3>3 DEF ThreadsOK
      <3>5. i = k
        BY <2>1, <3>1, <3>4 DEF ThreadsOK, Distinct
      <3> QED BY <3>2, <3>3, <3>5
    <2>4. \A i \in DOMAIN commandJobs : process[commandJobs[i].pid].job = commandJobs[i].job
      BY <2>1 DEF CommandsOK
    <2> QED BY <2>2, <2>3, <2>4 DEF RunsOwnJob
  <1> QED BY <1>1, ProbingInvariant, PTL DEF Probing

\* While a job that has ended is on a list its handler is at work, or a message
\* or a signal will start it, though messages say nothing and signals that come
\* together are one (__DAThreadMachChannelHandler, __DACommandSignal).
THEOREM NoEndIsMissed == Spec => []NoEndMissed
  <1>1. Probing => NoEndMissed
    BY NoticedIs DEF Probing
  <1> QED BY <1>1, ProbingInvariant, PTL

\* Threads and child processes do what DAWork asks: a job is called back after
\* it has ended, and once (DAThreadExecute, DACommandExecute).
THEOREM HelpersDoTheirWork == Spec => KeepsPromise
  <1>1. Init => Work!Init
    BY ProbeInit
  <1>2. Probing /\ [Next]_vars => [Work!Next]_<<Pending, Ended>>
    BY ProbeNext DEF WorkStep
  <1> QED BY <1>1, <1>2, ProbingInvariant, PTL DEF Spec, KeepsPromise, Work!Spec

\* A disk that is being probed has exactly one callback to wait for, and one
\* that is not has none: a helper is never asked to work for a disk twice.
THEOREM ProbesAreOwed == Spec => []Owed
  BY ProbingInvariant, PTL DEF Probing

\* A volume is given to the first candidate that recognizes it, and no candidate that
\* fits is passed over, however often the list is taken up again and the modules of
\* FSKit are put before what was deferred (__DAProbeCallback, DAProbe.c).
THEOREM NoCandidateIsSkipped == Spec => []NothingSkipped
<1>1. Chained => NothingSkipped
  <2> SUFFICES ASSUME Chained PROVE NothingSkipped
    OBVIOUS
  <2>1. ASSUME NEW d \in Job PROVE IsPrefix(probe[d].tried, Order(d, probe[d]))
    <3>1. PICK x \in Context : x = probe[d]
      BY DEF Chained
    <3>2. PICK t \in Seq(Candidate) : t = x.tried
      BY ContextFields
    <3>3. PICK o \in Seq(Candidate) : o = Order(d, x)
      BY OrderTyped
    <3>4. CASE x.at = "idle"
      <4>1. t = <<>>
        <5>1. x = NoContext
          BY <3>1, <3>4 DEF Chained, OnItsWay
        <5>2. NoContext.tried = <<>>
          BY DEF NoContext
        <5> QED BY <3>2, <5>1, <5>2, Zenon
      <4>2. <<>> \o o = o
        BY ConcatEmptySeq
      <4>3. IsPrefix(t, t \o o)
        BY PrefixOfJoined
      <4> QED BY <3>1, <3>2, <3>3, <4>1, <4>2, <4>3
    <3>5. CASE x.at # "idle"
      <4>1. Chain(d, x)
        BY <3>1, <3>5 DEF Chained, OnItsWay
      <4>2. PICK w \in Seq(Candidate) : w = Those(x.candidates, InTurn(d, x))
        BY ContextFields, ThoseFacts
      <4>3. t \o w = o
        BY <3>2, <3>3, <4>1, <4>2 DEF Chain
      <4>4. IsPrefix(t, t \o w)
        BY PrefixOfJoined
      <4> QED BY <3>1, <3>2, <3>3, <4>3, <4>4
    <3> QED BY <3>4, <3>5
  <2>2. ASSUME NEW d \in Job, calls[d] > 0 PROVE Right(d, answer[d])
    BY <2>2 DEF Chained
  <2> QED BY <2>1, <2>2 DEF NothingSkipped, Right
<1> QED BY <1>1, ChainedAtFirst, ChainedGoesOn, PTL DEF Spec
=============================================================================
