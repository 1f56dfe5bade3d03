-------------------------- MODULE DAConsoleProofs --------------------------
(***************************************************************************)
(* Theorems about DAConsole, and so about DAMedia.                         *)
(*                                                                         *)
(* The daemon does not stop before its work is done.  What makes the       *)
(* daemon busy signals it, and only the end of a pass takes the signal     *)
(* away: it then leaves work that is not done, a timer, or the daemon      *)
(* idle.                                                                   *)
(*                                                                         *)
(* The list of disks is true, and what was early comes up.  A callback     *)
(* takes its media one by one; Appears and Outcome say what it has done to *)
(* the list when it has taken some of them, by induction over their        *)
(* number.  The invariant is about names (NamesInv: the order of news, and *)
(* which media have none under way) and about units (UnitInv: a unit is    *)
(* quiesced by its whole disk, after which no early medium of it is        *)
(* without a disk).                                                        *)
(*                                                                         *)
(* Volumes follow the users, and a logout unmounts.  For these the         *)
(* invariants are about each volume (DeferInv: which requests there must   *)
(* be if it is not as the users want it, and which there may be; OwedInv:  *)
(* a volume that is owed is asked for, or the daemon is yet to hear of the *)
(* logout).  What the callbacks do to the list is all they need of DAMedia.*)
(***************************************************************************)
EXTENDS DAConsole, DAListsProofs, SequenceTheorems, TLAPS

Queues == todo \in [Medium -> Seq(Request)] /\ command \in [Medium -> Request \cup {"none"}]

\* What a step leaves alone when it does nothing for a disk.
AtWork == <<todo, command, list, staged, probed>>

-----------------------------------------------------------------------------
(* Requests                                                                *)

\* If() is a sequence of at most one request.
LEMMA IfIsSeq ==
  ASSUME NEW b, NEW r \in Request
  PROVE  If(b, r) \in Seq(Request)
<1>1. CASE b
  BY <1>1 DEF If
<1>2. CASE ~b
  BY <1>2 DEF If
<1> QED
  BY <1>1, <1>2

\* What follows a request is a sequence of requests.
LEMMA TailIsSeq ==
  ASSUME NEW q \in Seq(Request), q # <<>>
  PROVE  Tail(q) \in Seq(Request) /\ Head(q) \in Request
OBVIOUS

\* The disks that a callback made, dropped or found again get requests.
LEMMA FollowQueues ==
  ASSUME NEW s, Queues, Follow(s)
  PROVE  Queues'
<1> DEFINE Probes(m) == If(m \in (s.again \cap probed) \ Leaf, "probe")
           Forces(m) == If(m \in s.dropped \cap staged, "force")
<1>1. \A m \in Medium : Probes(m) \in Seq(Request) /\ Forces(m) \in Seq(Request)
  <2>1. "probe" \in Request /\ "force" \in Request
    BY DEF Request
  <2> QED
    BY <2>1, IfIsSeq
<1>2. todo' = [m \in Medium |-> todo[m] \o Probes(m) \o Forces(m)] /\ command' = command
  BY DEF Follow
<1> HIDE DEF Probes, Forces
<1>3. \A m \in Medium : todo[m] \in Seq(Request)
  BY DEF Queues
<1>4. \A m \in Medium : todo[m] \o Probes(m) \in Seq(Request)
  BY <1>1, <1>3, ConcatProperties
<1>5. \A m \in Medium : (todo[m] \o Probes(m)) \o Forces(m) \in Seq(Request)
  BY <1>1, <1>4, ConcatProperties
<1> QED
  BY <1>2, <1>5 DEF Queues

LEMMA ConfigurationQueues ==
  ASSUME NEW cookie \in BOOLEAN, Queues, Configuration(cookie)
  PROVE  Queues'
<1> DEFINE A(m) == If(m \in ToLeave, "leave")
           B(m) == If(m \in ToEject, "eject")
           C(m) == If(m \in ToMount, "mount")
           D(m) == If(m \in ToUnmount(cookie), "unmount")
<1>1. \A m \in Medium : /\ A(m) \in Seq(Request) /\ B(m) \in Seq(Request)
                        /\ C(m) \in Seq(Request) /\ D(m) \in Seq(Request)
  <2>1. {"leave", "eject", "mount", "unmount"} \subseteq Request
    BY DEF Request
  <2> QED
    BY <2>1, IfIsSeq
<1>2. /\ todo' = [m \in Medium |-> todo[m] \o A(m) \o B(m) \o C(m) \o D(m)]
      /\ command' = command
  BY DEF Configuration
<1> HIDE DEF A, B, C, D
<1>3. \A m \in Medium : todo[m] \in Seq(Request)
  BY DEF Queues
<1>4. \A m \in Medium : todo[m] \o A(m) \in Seq(Request)
  BY <1>1, <1>3, ConcatProperties
<1>5. \A m \in Medium : (todo[m] \o A(m)) \o B(m) \in Seq(Request)
  BY <1>1, <1>4, ConcatProperties
<1>6. \A m \in Medium : ((todo[m] \o A(m)) \o B(m)) \o C(m) \in Seq(Request)
  BY <1>1, <1>5, ConcatProperties
<1>7. \A m \in Medium : (((todo[m] \o A(m)) \o B(m)) \o C(m)) \o D(m) \in Seq(Request)
  BY <1>1, <1>6, ConcatProperties
<1> QED
  BY <1>2, <1>7 DEF Queues

LEMMA QueuesStep ==
  ASSUME Queues, [Next]_vars
  PROVE  Queues'
<1> USE DEF Request
<1>1. ASSUME NEW s, Follow(s) PROVE Queues'
  BY <1>1, FollowQueues
<1>2. ASSUME NEW cookie \in BOOLEAN, Configuration(cookie) PROVE Queues'
  BY <1>2, ConfigurationQueues
<1>3. CASE _DAConfigurationCallback
  <2>1. CASE Waits
    BY <1>3, <2>1 DEF _DAConfigurationCallback, volumeVars, Queues
  <2> QED
    BY <1>2, <1>3, <2>1 DEF _DAConfigurationCallback
<1>4. ASSUME NEW u \in User, SystemUIServer(u) PROVE Queues'
  BY <1>2, <1>4 DEF SystemUIServer
<1>5. ASSUME NEW m \in Volume, Probe(m) PROVE Queues'
  BY <1>5 DEF Probe, Queues
<1>6. ASSUME NEW m \in Volume, StageMount(m) PROVE Queues'
  <2>1. m \in Medium /\ todo[m] \in Seq(Request)
    BY DEF Volume, Queues
  <2>2. Append(todo[m], "mount") \in Seq(Request)
    BY <2>1
  <2> QED
    BY <1>6, <2>1, <2>2 DEF StageMount, Queues
<1>7. ASSUME NEW m \in Medium, Begin(m) PROVE Queues'
  <2>1. todo[m] \in Seq(Request) /\ todo[m] # <<>>
    BY <1>7 DEF Begin, Queues
  <2>2. Tail(todo[m]) \in Seq(Request) /\ Head(todo[m]) \in Request
    BY <2>1, TailIsSeq
  <2>3. /\ todo' = [todo EXCEPT ![m] = Tail(@)]
        /\ command' = command \/ command' = [command EXCEPT ![m] = Head(todo[m])]
    BY <1>7 DEF Begin
  <2> QED
    BY <2>2, <2>3 DEF Queues
<1>8. ASSUME NEW m \in Medium, Done(m) PROVE Queues'
  BY <1>8 DEF Done, Queues
<1>9. CASE UNCHANGED volumeVars
  BY <1>9 DEF volumeVars, Queues
<1>10. CASE Work
  BY <1>1, <1>3, <1>4, <1>5, <1>6, <1>7, <1>8, <1>9, <1>10 DEF Work, Pass
<1> QED
  BY <1>9, <1>10 DEF Next, TimePasses, TimersFire, Undisturbed, Console, vars

-----------------------------------------------------------------------------
(* The work that is left                                                   *)

\* What changes none of this leaves the work as it is.
LEMMA SameWork ==
  ASSUME UNCHANGED AtWork
  PROVE  AtRest' <=> AtRest
BY DEF AtWork, AtRest

\* The news that a medium is busy makes no requests, and no disks.
LEMMA BusyNewsIsNoWork ==
  ASSUME Queues, NEW m \in Medium, busyNews[m] # <<>>, Head(busyNews[m]),
         Leaves(Heard(m)), Follow(Heard(m))
  PROVE  UNCHANGED AtWork
<1> DEFINE s == [[Found EXCEPT !.news[m] = Tail(@)] EXCEPT !.busy[m] = "busy"]
<1>1. Heard(m) = s
  BY DEF Heard
<1>2. s.made = {} /\ s.dropped = {} /\ s.again = {} /\ s.list = list
  BY DEF Found
<1> HIDE DEF s
<1>3. list' = list
  BY <1>1, <1>2 DEF Leaves
<1>4. probed' = probed /\ staged' = staged /\ command' = command
  BY <1>1, <1>2 DEF Follow
<1>5. todo' = [n \in Medium |-> todo[n] \o <<>> \o <<>>]
  BY <1>1, <1>2 DEF Follow, If
<1>6. \A n \in Medium : todo[n] \o <<>> = todo[n]
  BY ConcatEmptySeq DEF Queues
<1>7. todo' = todo
  BY <1>5, <1>6 DEF Queues
<1> QED
  BY <1>3, <1>4, <1>7 DEF AtWork

\* A pass takes the signal away when nothing is left to do, and then the daemon is
\* idle or waits for a timer.
LEMMA PassLooksAgain ==
  ASSUME Pass
  PROVE  LooksAgain'
<1>1. UNCHANGED AtWork
  BY DEF Pass, Dispatch, volumeVars, AtWork
<1>2. CASE Waiting = {}
  BY <1>1, <1>2, SameWork DEF Pass, Dispatch, LooksAgain
<1>3. CASE Waiting # {}
  BY <1>3 DEF Pass, Dispatch, Armed, LooksAgain
<1> QED
  BY <1>2, <1>3

\* A request that takes a while keeps the daemon from rest.
LEMMA BeginLooksAgain ==
  ASSUME Queues, NEW m \in Medium, Begin(m)
  PROVE  LooksAgain'
<1>1. CASE Idle(m, Head(todo[m]))
  BY <1>1 DEF Begin, Signals, LooksAgain
<1>2. CASE ~Idle(m, Head(todo[m]))
  <2>1. Head(todo[m]) \in Request
    BY TailIsSeq DEF Begin, Queues
  <2>2. command'[m] # "none"
    BY <1>2, <2>1 DEF Begin, Queues, Request
  <2> QED
    BY <2>2 DEF LooksAgain, AtRest
<1> QED
  BY <1>1, <1>2

LEMMA LooksAgainStep ==
  ASSUME Queues, LooksAgain, [Next]_vars
  PROVE  LooksAgain'
<1>1. CASE Signals \/ signal' = TRUE
  BY <1>1 DEF Signals, LooksAgain
<1>2. CASE UNCHANGED stageVars /\ UNCHANGED AtWork
  BY <1>2, SameWork DEF stageVars, LooksAgain
<1>3. CASE Pass
  BY <1>3, PassLooksAgain
<1>4. ASSUME NEW m \in Medium, HearsBusy(m), Follow(Heard(m)) PROVE LooksAgain'
  <2>1. CASE Head(busyNews[m])
    BY <1>2, <1>4, <2>1, BusyNewsIsNoWork DEF HearsBusy
  <2>2. CASE ~Head(busyNews[m])
    BY <1>1, <1>4, <2>2 DEF HearsBusy
  <2> QED
    BY <2>1, <2>2
<1>5. CASE _DAConfigurationCallback
  <2>1. CASE Waits
    BY <1>2, <1>5, <2>1 DEF _DAConfigurationCallback, mediaVars, diskVars, volumeVars, AtWork
  <2> QED
    BY <1>1, <1>5, <2>1 DEF _DAConfigurationCallback, Configuration
<1>6. ASSUME NEW u \in User, SystemUIServer(u) PROVE LooksAgain'
  BY <1>1, <1>6 DEF SystemUIServer, Configuration
<1>7. ASSUME NEW m \in Medium, Begin(m) PROVE LooksAgain'
  BY <1>7, BeginLooksAgain
<1>8. ASSUME NEW m \in Medium, Probe(m) \/ StageMount(m) \/ Done(m) PROVE LooksAgain'
  BY <1>1, <1>8 DEF Probe, StageMount, Done
<1>9. CASE MediaAppeared \/ MediaDisappeared
  BY <1>1, <1>9 DEF MediaAppeared, MediaDisappeared
<1>10. CASE Work
  BY <1>3, <1>4, <1>5, <1>6, <1>7, <1>8, <1>9, <1>10 DEF Work, Volume
<1>11. CASE TimePasses
  BY <1>2, <1>11 DEF TimePasses, Undisturbed, Overdue, volumeVars, AtWork
<1>12. CASE TimersFire
  BY <1>1, <1>12 DEF TimersFire, TimerFires
<1>13. CASE Kernel /\ Undisturbed
  BY <1>2, <1>13 DEF Kernel, Undisturbed, diskVars, volumeVars, AtWork
<1>14. CASE Console
  BY <1>2, <1>14 DEF Console, diskVars, volumeVars, AtWork
<1>15. CASE UNCHANGED vars
  BY <1>2, <1>15 DEF vars, mediaVars, diskVars, volumeVars, AtWork
<1> QED
  BY <1>10, <1>11, <1>12, <1>13, <1>14, <1>15 DEF Next

-----------------------------------------------------------------------------
(* While the daemon is not idle it has something to do, or a timer is set:  *)
(* __DAStageDispatch never leaves it waiting for I/O Kit alone.             *)
THEOREM TheDaemonLooksAgain == Spec => []LooksAgain
<1>1. Init => Queues /\ LooksAgain
  BY DEF Init, MediaInit, Queues, LooksAgain
<1>2. (Queues /\ LooksAgain) /\ [Next]_vars => (Queues /\ LooksAgain)'
  BY QueuesStep, LooksAgainStep
<1> QED
  BY <1>1, <1>2, PTL DEF Spec

-----------------------------------------------------------------------------
(* A disk is made, and another dropped                                     *)

\* The medium is there.
In(m) == registry[m] = "in"

\* What a callback finds and leaves.
Fields == {"matched", "news", "list", "busy", "quiesced", "skipped", "late", "made", "dropped",
           "again"}
Finding(s) ==
  /\ DOMAIN s = Fields
  /\ s.matched \in Seq(Medium) /\ s.news \in [Medium -> Seq(BOOLEAN)]
  /\ s.busy \in [Medium -> {"no", "busy", "overdue"}] /\ s.quiesced \subseteq Unit
  /\ s.list \subseteq Medium /\ s.skipped \subseteq Medium /\ s.late \subseteq Medium
  /\ s.made \subseteq Medium /\ s.dropped \subseteq Medium /\ s.again \subseteq Medium

\* No two disks have a name in common.
Named(S) == \A m, n \in S : idOf[m] = idOf[n] => m = n

\* r is what dropping the disk of m leaves of s.
Drops(s, m, r) ==
  /\ r.matched = s.matched /\ r.late = s.late
  /\ r.list = s.list \ {m} /\ r.dropped = s.dropped \cup {m}
  /\ r.made = s.made \ {m} /\ r.again = s.again \ {m} /\ r.skipped = s.skipped \ {m}
  /\ r.quiesced = IF m \in Whole THEN s.quiesced \ {unitOf[m]} ELSE s.quiesced
  /\ \A n \in Medium : /\ r.news[n] = IF n = m THEN <<>> ELSE s.news[n]
                       /\ r.busy[n] = IF n = m THEN "no" ELSE s.busy[n]

\* r is what is left of s when a disk is made for m, and those of its name dropped.
Replaces(s, m, r) ==
  /\ r.matched = s.matched /\ r.late = s.late
  /\ r.list = (s.list \ Twins(s, m)) \cup {m} /\ r.dropped = s.dropped \cup Twins(s, m)
  /\ r.made = (s.made \ Twins(s, m)) \cup {m} /\ r.again = s.again \ Twins(s, m)
  /\ r.quiesced = s.quiesced \ {unitOf[n] : n \in Twins(s, m) \cap Whole}
  /\ r.skipped = (s.skipped \ Twins(s, m)) \cup {n \in {m} : unitOf[n] \in Apfs \cap r.quiesced}
  /\ r.busy[m] = IF m \in ioBusy THEN "busy" ELSE "no"
  /\ \A n \in Medium : /\ r.news[n] = IF n \in Twins(s, m) THEN <<>> ELSE s.news[n]
                       /\ n \notin Twins(s, m) \cup {m} => r.busy[n] = s.busy[n]

\* What taking the news that m appeared leaves of s.
Takes(s, m, r) ==
  \/ m \in s.list /\ r = [s EXCEPT !.again = @ \cup {m}]
  \/ m \notin s.list /\ registry[m] = "gone" /\ r = s
  \/ m \notin s.list /\ registry[m] # "gone" /\ Replaces(s, m, r)

\* Dropping a disk is what Drops says.
LEMMA DroppedDrops ==
  ASSUME NEW s, Finding(s), NEW m \in Medium
  PROVE  Finding(Dropped(s, m)) /\ Drops(s, m, Dropped(s, m))
<1> DEFINE r == Dropped(s, m)
<1>1. /\ DOMAIN r = Fields
      /\ r.matched = s.matched /\ r.late = s.late
      /\ r.list = s.list \ {m} /\ r.dropped = s.dropped \cup {m}
      /\ r.made = s.made \ {m} /\ r.again = s.again \ {m} /\ r.skipped = s.skipped \ {m}
      /\ r.quiesced = IF m \in Whole THEN s.quiesced \ {unitOf[m]} ELSE s.quiesced
      /\ r.news = [s.news EXCEPT ![m] = <<>>]
      /\ r.busy = [s.busy EXCEPT ![m] = "no"]
  BY DEF Dropped, Finding, Fields
<1> HIDE DEF r
<1>2. Finding(r)
  BY <1>1 DEF Finding
<1>3. Drops(s, m, r)
  BY <1>1 DEF Drops, Finding
<1> QED
  BY <1>2, <1>3 DEF r

\* r is what making a disk for m leaves of s.
Makes(s, m, r) ==
  /\ r.matched = s.matched /\ r.late = s.late /\ r.list = s.list \cup {m}
  /\ r.dropped = s.dropped /\ r.made = s.made \cup {m} /\ r.again = s.again
  /\ r.quiesced = s.quiesced /\ r.news = s.news
  /\ r.skipped = IF unitOf[m] \in Apfs \cap s.quiesced THEN s.skipped \cup {m} ELSE s.skipped
  /\ r.busy = [s.busy EXCEPT ![m] = IF m \in ioBusy THEN "busy" ELSE "no"]

\* Making a disk is what Makes says.
LEMMA MadeMakes ==
  ASSUME NEW s, Finding(s), NEW m \in Medium
  PROVE  Finding(Made(s, m)) /\ Makes(s, m, Made(s, m))
<1> DEFINE r == Made(s, m)
<1>1. DOMAIN r = Fields /\ Makes(s, m, r)
  BY DEF Made, Makes, Finding, Fields
<1> HIDE DEF r
<1>2. Finding(r)
  BY <1>1 DEF Finding, Makes
<1> QED
  BY <1>1, <1>2 DEF r

\* The body of _DAMediaAppearedCallback is what Takes says.
LEMMA AppearedTakes ==
  ASSUME NEW s, Finding(s), Named(s.list), NEW m \in Medium
  PROVE  Finding(Appeared(s, m)) /\ Takes(s, m, Appeared(s, m))
<1> DEFINE r == Appeared(s, m)
<1>1. CASE m \in s.list
  <2>1. r = [s EXCEPT !.again = @ \cup {m}]
    BY <1>1 DEF Appeared
  <2>2. Finding([s EXCEPT !.again = @ \cup {m}])
    BY DEF Finding, Fields
  <2> QED
    BY <1>1, <2>1, <2>2 DEF Takes
<1>2. CASE m \notin s.list /\ registry[m] = "gone"
  BY <1>2 DEF Appeared, Takes
<1>3. CASE m \notin s.list /\ registry[m] # "gone" /\ Twins(s, m) = {}
  <2>1. r = Made(s, m)
    BY <1>3 DEF Appeared
  <2> HIDE DEF r
  <2>2. Finding(r) /\ Makes(s, m, r)
    BY <2>1, MadeMakes
  <2>3. Replaces(s, m, r)
    BY <1>3, <2>2 DEF Replaces, Makes, Finding
  <2> QED
    BY <1>3, <2>2, <2>3 DEF Takes, r
<1>4. CASE m \notin s.list /\ registry[m] # "gone" /\ Twins(s, m) # {}
  <2>1. PICK n : n \in Twins(s, m) /\ r = Made(Dropped(s, n), m)
    BY <1>4 DEF Appeared
  <2>2. Twins(s, m) = {n} /\ n \in Medium /\ n \in s.list /\ n # m
    BY <1>4, <2>1 DEF Twins, Named, Finding
  <2> HIDE DEF r
  <2> DEFINE t == Dropped(s, n)
  <2>3. Finding(t) /\ Drops(s, n, t)
    BY <2>2, DroppedDrops
  <2>4. r = Made(t, m)
    BY <2>1
  <2> HIDE DEF t
  <2>5. Finding(r) /\ Makes(t, m, r)
    BY <2>3, <2>4, MadeMakes
  <2>6. Replaces(s, m, r)
    <3>1. t.busy \in [Medium -> {"no", "busy", "overdue"}]
      BY <2>3 DEF Finding
    <3>2. r.busy[m] = IF m \in ioBusy THEN "busy" ELSE "no"
      BY <2>5, <3>1 DEF Makes
    <3>3. \A k \in Medium : k \notin Twins(s, m) \cup {m} => r.busy[k] = s.busy[k]
      BY <2>2, <2>3, <2>5, <3>1 DEF Drops, Makes
    <3>4. \A k \in Medium : r.news[k] = IF k \in Twins(s, m) THEN <<>> ELSE s.news[k]
      BY <2>2, <2>3, <2>5 DEF Drops, Makes
    <3>5. r.quiesced = s.quiesced \ {unitOf[k] : k \in Twins(s, m) \cap Whole}
      BY <2>2, <2>3, <2>5 DEF Drops, Makes
    <3>6. r.skipped = (s.skipped \ Twins(s, m)) \cup {k \in {m} : unitOf[k] \in Apfs \cap r.quiesced}
      BY <2>2, <2>3, <2>5 DEF Drops, Makes
    <3>7. /\ r.matched = s.matched /\ r.late = s.late /\ r.list = (s.list \ {n}) \cup {m}
          /\ r.dropped = s.dropped \cup {n} /\ r.made = (s.made \ {n}) \cup {m}
          /\ r.again = s.again \ {n}
      BY <2>2, <2>3, <2>5 DEF Drops, Makes
    <3> QED
      BY <2>2, <3>2, <3>3, <3>4, <3>5, <3>6, <3>7 DEF Replaces
  <2> QED
    BY <1>4, <2>5, <2>6 DEF Takes, r
<1> QED
  BY <1>1, <1>2, <1>3, <1>4

-----------------------------------------------------------------------------
\* F is the first n steps of taking the media of q.
AreTaken(F, s, q, n) ==
  F = [k \in 0 .. n |-> IF k = 0 THEN s ELSE Appeared(F[k - 1], q[k])]
HasTaken(s, q, n) == \E F : AreTaken(F, s, q, n)

\* There are such steps for every n: the recursive function is defined.
LEMMA TakenExist ==
  ASSUME NEW s, NEW q, NEW l \in Nat
  PROVE  HasTaken(s, q, l)
<1> DEFINE T == {n \in Nat : HasTaken(s, q, n)}
<1>1. 0 \in T
  <2> DEFINE F == [m \in 0 .. 0 |-> s]
  <2>1. AreTaken(F, s, q, 0)
    BY DEF AreTaken
  <2> QED BY <2>1 DEF HasTaken
<1>2. ASSUME NEW n \in Nat, n \in T PROVE n + 1 \in T
  <2>1. PICK F : AreTaken(F, s, q, n)
    BY <1>2 DEF HasTaken
  <2> DEFINE G == [m \in 0 .. n + 1 |-> IF m = n + 1 THEN Appeared(F[m - 1], q[m]) ELSE F[m]]
  <2>2. \A m \in 0 .. n : G[m] = F[m]
    OBVIOUS
  <2>3. G[n + 1] = Appeared(F[n], q[n + 1])
    OBVIOUS
  <2>4. \A m \in 0 .. n : F[m] = IF m = 0 THEN s ELSE Appeared(F[m - 1], q[m])
    BY <2>1 DEF AreTaken
  <2>5. ASSUME NEW m \in 0 .. n + 1
        PROVE  G[m] = IF m = 0 THEN s ELSE Appeared(G[m - 1], q[m])
    <3>1. CASE m = 0
      BY <2>2, <2>4, <3>1
    <3>2. CASE m \in 1 .. n
      BY <2>2, <2>4, <3>2
    <3>3. CASE m = n + 1
      BY <2>2, <2>3, <3>3
    <3> QED BY <3>1, <3>2, <3>3
  <2>6. G = [m \in 0 .. n + 1 |-> G[m]]
    OBVIOUS
  <2> HIDE DEF G
  <2>7. AreTaken(G, s, q, n + 1)
    BY <2>5, <2>6 DEF AreTaken
  <2> QED BY <2>7 DEF HasTaken
<1> HIDE DEF T
<1>3. Nat \subseteq T
  BY <1>1, <1>2, NatSetInduction
<1> QED BY <1>3 DEF T

\* F[n] is what is left of s when the first n media of its iterator are taken.
TakesAll(F, s) ==
  /\ F[0] = s
  /\ \A n \in Nat : n < Len(s.matched) => F[n + 1] = Appeared(F[n], s.matched[n + 1])
  /\ _DAMediaAppearedCallback(s) = [F[Len(s.matched)] EXCEPT !.matched = <<>>]

\* _DAMediaAppearedCallback takes all of them.
LEMMA AppearancesTaken ==
  ASSUME NEW s, Finding(s)
  PROVE  \E F : TakesAll(F, s)
<1> DEFINE F == CHOOSE G : AreTaken(G, s, s.matched, Len(s.matched))
<1>1. Len(s.matched) \in Nat
  BY DEF Finding
<1>2. AreTaken(F, s, s.matched, Len(s.matched))
  BY <1>1, TakenExist DEF HasTaken
<1>3. _DAMediaAppearedCallback(s) = [F[Len(s.matched)] EXCEPT !.matched = <<>>]
  BY DEF _DAMediaAppearedCallback, AreTaken
<1> HIDE DEF F
<1>4. \A m \in 0 .. Len(s.matched) : F[m] = IF m = 0 THEN s ELSE Appeared(F[m - 1], s.matched[m])
  BY <1>2 DEF AreTaken
<1>5. F[0] = s
  BY <1>1, <1>4
<1>6. ASSUME NEW n \in Nat, n < Len(s.matched) PROVE F[n + 1] = Appeared(F[n], s.matched[n + 1])
  <2>1. n + 1 \in 0 .. Len(s.matched) /\ n + 1 # 0 /\ (n + 1) - 1 = n
    BY <1>1, <1>6
  <2> QED BY <1>4, <2>1
<1> QED BY <1>3, <1>5, <1>6 DEF TakesAll

-----------------------------------------------------------------------------
(* The media that appeared are taken one by one                            *)

\* Two media with one name, and the first n of a list.
Twin(m, n) == m # n /\ idOf[m] = idOf[n]
Upto(q, n) == {q[i] : i \in 1 .. n}

\* A medium that is there has not been followed by another of its name; and the
\* news of one is not split by news of another.
Ordered(S, q) ==
  \A m, n \in Medium : Twin(m, n) =>
    /\ In(n) /\ n \in S => \A i \in DOMAIN q : q[i] # m
    /\ In(n) => \A i, j \in DOMAIN q : i < j => ~(q[i] = n /\ q[j] = m)
    /\ n \in S => \A i, j \in DOMAIN q : i < j => ~(q[i] = m /\ q[j] = n)
    /\ \A h, i, j \in DOMAIN q : h < i /\ i < j => ~(q[h] = n /\ q[i] = m /\ q[j] = n)

\* One more is taken.
LEMMA UptoNext ==
  ASSUME NEW q \in Seq(Medium), NEW n \in Nat, n < Len(q)
  PROVE  /\ Upto(q, n + 1) = Upto(q, n) \cup {q[n + 1]} /\ q[n + 1] \in Medium
         /\ n + 1 \in DOMAIN q /\ \A i \in 1 .. n : i \in DOMAIN q /\ i < n + 1
BY DEF Upto

\* All are taken.
LEMMA UptoAll ==
  ASSUME NEW q \in Seq(Medium)
  PROVE  Upto(q, 0) = {} /\ Upto(q, Len(q)) = Range(q)
BY DEF Upto, Range

\* What is on the list when n media of the iterator of s are taken.
ListsTaken(s, t, n) ==
  /\ Finding(t) /\ t.matched = s.matched /\ t.late = s.late
  /\ Named(t.list)
  /\ t.list \subseteq s.list \cup Upto(s.matched, n)
  /\ \A m \in s.list \cup Upto(s.matched, n) : In(m) => m \in t.list

\* Taking one more keeps the list in order.
LEMMA ListsTakenNext ==
  ASSUME NEW s, Finding(s), Ordered(s.list, s.matched),
         NEW n \in Nat, n < Len(s.matched),
         NEW t, ListsTaken(s, t, n), NEW r, Finding(r), Takes(t, s.matched[n + 1], r)
  PROVE  ListsTaken(s, r, n + 1)
<1> DEFINE x == s.matched[n + 1]
<1>1. s.matched \in Seq(Medium) /\ s.list \subseteq Medium /\ t.list \subseteq Medium
  BY DEF Finding, ListsTaken
<1>2. /\ Upto(s.matched, n + 1) = Upto(s.matched, n) \cup {x} /\ x \in Medium
      /\ n + 1 \in DOMAIN s.matched /\ \A i \in 1 .. n : i \in DOMAIN s.matched /\ i < n + 1
  BY <1>1, UptoNext
<1> HIDE DEF x
<1>3. CASE x \in t.list /\ r = [t EXCEPT !.again = @ \cup {x}]
  <2>1. r.matched = t.matched /\ r.late = t.late /\ r.list = t.list
    BY <1>3 DEF ListsTaken, Finding, Fields
  <2> QED
    BY <1>2, <1>3, <2>1 DEF ListsTaken
<1>4. CASE registry[x] = "gone" /\ r = t
  BY <1>2, <1>4 DEF ListsTaken, In
<1>5. CASE x \notin t.list /\ Replaces(t, x, r)
  <2>1. r.matched = t.matched /\ r.late = t.late /\ r.list = (t.list \ Twins(t, x)) \cup {x}
    BY <1>5 DEF Replaces
  <2>2. Named(r.list)
    <3> SUFFICES ASSUME NEW k \in r.list, NEW m \in r.list, idOf[k] = idOf[m] PROVE k = m
      BY DEF Named
    <3>1. (k \in t.list /\ idOf[k] # idOf[x]) \/ k = x
      BY <2>1 DEF Twins
    <3>2. (m \in t.list /\ idOf[m] # idOf[x]) \/ m = x
      BY <2>1 DEF Twins
    <3> QED
      BY <3>1, <3>2 DEF ListsTaken, Named
  <2>3. ASSUME NEW m \in t.list, In(m) PROVE m \in r.list
    <3> SUFFICES ASSUME idOf[m] = idOf[x], m # x PROVE FALSE
      BY <2>1 DEF Twins
    <3>1. m \in Medium /\ Twin(x, m)
      BY <1>1 DEF Twin
    <3>2. m \in s.list \/ \E i \in 1 .. n : s.matched[i] = m
      BY DEF ListsTaken, Upto
    <3> QED
      BY <1>2, <2>3, <3>1, <3>2 DEF Ordered, x
  <2> QED
    BY <1>2, <2>1, <2>2, <2>3 DEF ListsTaken
<1> QED
  BY <1>3, <1>4, <1>5 DEF Takes, x

\* The disk of m was dropped for another of its name among the first n.
Since(s, m, n) ==
  \E i \in 1 .. n : /\ Twin(s.matched[i], m)
                    /\ (m \in s.list \/ \E h \in 1 .. i - 1 : s.matched[h] = m)

\* Which disks were made and dropped by then.
MadeTaken(s, t, n) ==
  /\ t.list \subseteq s.list \cup t.made /\ t.made \subseteq t.list \cap Upto(s.matched, n)
  /\ s.list \subseteq t.list \cup t.dropped /\ s.list \cap t.made \subseteq t.dropped
  /\ s.dropped \subseteq t.dropped
  /\ t.again \subseteq t.list
  /\ \A m \in t.dropped \ s.dropped :
       m \notin t.list /\ m \in s.list \cup Upto(s.matched, n) /\ Since(s, m, n)

\* Taking one more keeps account of the disks.
LEMMA MadeTakenNext ==
  ASSUME NEW s, Finding(s), Ordered(s.list, s.matched),
         NEW n \in Nat, n < Len(s.matched),
         NEW t, ListsTaken(s, t, n), MadeTaken(s, t, n),
         NEW r, Finding(r), Takes(t, s.matched[n + 1], r)
  PROVE  MadeTaken(s, r, n + 1)
<1> DEFINE x == s.matched[n + 1]
<1>1. s.matched \in Seq(Medium) /\ s.list \subseteq Medium /\ t.list \subseteq Medium
      /\ t.dropped \subseteq Medium
  BY DEF Finding, ListsTaken
<1>2. /\ Upto(s.matched, n + 1) = Upto(s.matched, n) \cup {x} /\ x \in Medium
      /\ n + 1 \in DOMAIN s.matched /\ \A i \in 1 .. n : i \in DOMAIN s.matched /\ i < n + 1
  BY <1>1, UptoNext
<1>3. \A m : Since(s, m, n) => Since(s, m, n + 1)
  BY DEF Since
<1>x. s.matched[n + 1] = x
  OBVIOUS
<1> HIDE DEF x
<1>4. ASSUME x \notin t.list PROVE x \notin t.dropped \ s.dropped
  <2> SUFFICES ASSUME x \in t.dropped \ s.dropped PROVE FALSE
    OBVIOUS
  <2>1. PICK i \in 1 .. n : /\ Twin(s.matched[i], x)
                            /\ (x \in s.list \/ \E h \in 1 .. i - 1 : s.matched[h] = x)
    BY DEF MadeTaken, Since
  <2>2. i \in DOMAIN s.matched /\ i < n + 1 /\ s.matched[i] \in Medium
    BY <1>1, <1>2
  <2>3. Twin(s.matched[i], x) /\ n + 1 \in DOMAIN s.matched
    BY <1>2, <2>1
  <2>4. CASE x \in s.list
    BY <1>2, <1>x, <2>2, <2>3, <2>4 DEF Ordered
  <2>5. ASSUME NEW h \in 1 .. i - 1, s.matched[h] = x PROVE FALSE
    <3>1. h \in DOMAIN s.matched /\ h < i
      BY <2>2, <1>1
    <3> QED
      BY <1>2, <1>x, <2>2, <2>3, <2>5, <3>1 DEF Ordered
  <2> QED
    BY <2>1, <2>4, <2>5
<1>5. CASE x \in t.list /\ r = [t EXCEPT !.again = @ \cup {x}]
  <2>1. /\ r.list = t.list /\ r.made = t.made /\ r.dropped = t.dropped
        /\ r.again = t.again \cup {x}
    BY <1>5 DEF ListsTaken, Finding, Fields
  <2>2. \A m \in t.dropped \ s.dropped : m \notin t.list /\ m \in s.list \cup Upto(s.matched, n) /\ Since(s, m, n)
    BY DEF MadeTaken
  <2>3. \A m \in r.dropped \ s.dropped : m \notin r.list /\ m \in s.list \cup Upto(s.matched, n + 1) /\ Since(s, m, n + 1)
    BY <1>2, <1>3, <2>1, <2>2
  <2> QED
    BY <1>2, <1>5, <2>1, <2>3 DEF MadeTaken
<1>6. CASE r = t
  <2>2. \A m \in t.dropped \ s.dropped : m \notin t.list /\ m \in s.list \cup Upto(s.matched, n) /\ Since(s, m, n)
    BY DEF MadeTaken
  <2>3. \A m \in r.dropped \ s.dropped : m \notin r.list /\ m \in s.list \cup Upto(s.matched, n + 1) /\ Since(s, m, n + 1)
    BY <1>2, <1>3, <1>6, <2>2
  <2> QED
    BY <1>2, <1>6, <2>3 DEF MadeTaken
<1>7. CASE x \notin t.list /\ Replaces(t, x, r)
  <2>1. /\ r.list = (t.list \ Twins(t, x)) \cup {x} /\ r.made = (t.made \ Twins(t, x)) \cup {x}
        /\ r.dropped = t.dropped \cup Twins(t, x) /\ r.again = t.again \ Twins(t, x)
    BY <1>7 DEF Replaces
  <2>2. Twins(t, x) \subseteq t.list /\ x \notin Twins(t, x)
    BY <1>7 DEF Twins
  <2>3. ASSUME NEW m \in Twins(t, x) PROVE Since(s, m, n + 1)
    <3>1. Twin(x, m)
      BY <2>2 DEF Twins, Twin
    <3>2. m \in s.list \/ \E h \in 1 .. n : s.matched[h] = m
      BY <2>2 DEF ListsTaken, Upto
    <3>3. n + 1 \in 1 .. n + 1 /\ 1 .. (n + 1) - 1 = 1 .. n
      OBVIOUS
    <3> QED
      BY <1>x, <3>1, <3>2, <3>3 DEF Since
  <2>4. \A m \in t.dropped \ s.dropped : m \notin t.list /\ m \in s.list \cup Upto(s.matched, n) /\ Since(s, m, n)
    BY DEF MadeTaken
  <2>5. \A m \in r.dropped \ s.dropped : m \notin r.list /\ m \in s.list \cup Upto(s.matched, n + 1) /\ Since(s, m, n + 1)
    <3> SUFFICES ASSUME NEW m \in r.dropped \ s.dropped
                 PROVE  m \notin r.list /\ m \in s.list \cup Upto(s.matched, n + 1) /\ Since(s, m, n + 1)
      OBVIOUS
    <3>1. CASE m \in Twins(t, x)
      <4>1. m \in s.list \cup Upto(s.matched, n)
        BY <2>2, <3>1 DEF ListsTaken
      <4> QED
        BY <1>2, <2>1, <2>2, <2>3, <3>1, <4>1
    <3>2. CASE m \in t.dropped
      BY <1>2, <1>3, <1>4, <1>7, <2>1, <2>4, <3>2
    <3> QED
      BY <2>1, <3>1, <3>2
  <2>6. /\ r.list \subseteq s.list \cup r.made /\ r.made \subseteq r.list \cap Upto(s.matched, n + 1)
        /\ s.list \subseteq r.list \cup r.dropped /\ s.dropped \subseteq r.dropped /\ r.again \subseteq r.list
    BY <1>2, <2>1, <2>2 DEF MadeTaken
  <2>7. s.list \cap r.made \subseteq r.dropped
    BY <1>7, <2>1, <2>2 DEF MadeTaken
  <2> QED
    BY <2>5, <2>6, <2>7 DEF MadeTaken
<1> QED
  BY <1>5, <1>6, <1>7 DEF Takes, x

-----------------------------------------------------------------------------
(* Units, and what is early                                                *)

\* Early media are on a whole device, which is busy as long as it is early.
EarlyOn ==
  /\ early \subseteq Medium
  /\ \A w \in Whole \cap early : In(w) => w \in ioBusy
  /\ \A m \in early \ Whole : In(m) => \E w \in Whole : unitOf[w] = unitOf[m] /\ In(w)

\* A unit is quiesced by its whole disk, and not while that is early.
UnitsHold(s) ==
  /\ \A u \in s.quiesced : \E w \in Whole \cap s.list : unitOf[w] = u
  /\ s.skipped \subseteq s.list
  /\ \A m \in s.skipped \cap early : ~In(m)
  /\ \A w \in Whole \cap s.list :
       In(w) /\ (s.busy[w] = "no" \/ unitOf[w] \in s.quiesced) => w \notin early

\* Early media are on the list before their device is known to be calm.
EarlyListed(s) ==
  \A w \in Whole \cap s.list : In(w) /\ (s.busy[w] = "no" \/ unitOf[w] \in s.quiesced) =>
    \A m \in early \ Whole : unitOf[m] = unitOf[w] /\ In(m) => m \in s.list

\* News of early media comes after news of their device.
EarlyAfter(s) ==
  \/ s.list = {} /\ s.quiesced = {}
  \/ \A w \in Whole \ s.list : \A m \in early \ Whole : In(w) /\ In(m) /\ unitOf[m] = unitOf[w] =>
       \A i \in DOMAIN s.matched : s.matched[i] = m => \E h \in 1 .. i - 1 : s.matched[h] = w

\* Nothing is in an empty list.
LEMMA EmptyRange == Range(<<>>) = {}
BY DEF Range

\* What holds of the units, on the way.
UnitsTaken(s, t) ==
  /\ UnitsHold(t)
  /\ t.quiesced \subseteq s.quiesced
  /\ \A w \in Whole \cap t.list : In(w) /\ unitOf[w] \in t.quiesced => w \in s.list
  /\ \A m \in Medium : Range(t.news[m]) \subseteq Range(s.news[m])

\* Taking one more keeps what holds of the units.
LEMMA UnitsTakenNext ==
  ASSUME EarlyOn, NEW s, Finding(s), EarlyListed(s), EarlyAfter(s),
         NEW n \in Nat, n < Len(s.matched),
         NEW t, ListsTaken(s, t, n), UnitsTaken(s, t),
         NEW r, Finding(r), Takes(t, s.matched[n + 1], r)
  PROVE  UnitsTaken(s, r)
<1> DEFINE x == s.matched[n + 1]
<1>1. s.matched \in Seq(Medium) /\ s.list \subseteq Medium /\ t.list \subseteq Medium
      /\ Finding(t) /\ t.skipped \subseteq Medium /\ Whole \subseteq Medium
  BY MediaAssumption DEF Finding, ListsTaken
<1>2. x \in Medium /\ n + 1 \in DOMAIN s.matched
  BY <1>1, UptoNext
<1>3. s.matched[n + 1] = x
  OBVIOUS
<1>4. \A m, k \in Whole : unitOf[m] = unitOf[k] => idOf[m] = idOf[k]
  BY MediaAssumption
<1> HIDE DEF x
<1>5. CASE x \in t.list /\ r = [t EXCEPT !.again = @ \cup {x}]
  <2>1. /\ r.list = t.list /\ r.quiesced = t.quiesced /\ r.skipped = t.skipped
        /\ r.busy = t.busy /\ r.news = t.news
    BY <1>5 DEF ListsTaken, Finding, Fields
  <2> QED
    BY <2>1 DEF UnitsTaken, UnitsHold
<1>6. CASE r = t
  BY <1>6
<1>7. CASE x \notin t.list /\ Replaces(t, x, r)
  <2>1. /\ r.list = (t.list \ Twins(t, x)) \cup {x}
        /\ r.quiesced = t.quiesced \ {unitOf[k] : k \in Twins(t, x) \cap Whole}
        /\ r.skipped = (t.skipped \ Twins(t, x)) \cup {k \in {x} : unitOf[k] \in Apfs \cap r.quiesced}
        /\ r.busy[x] = IF x \in ioBusy THEN "busy" ELSE "no"
        /\ \A k \in Medium : /\ r.news[k] = IF k \in Twins(t, x) THEN <<>> ELSE t.news[k]
                             /\ k \notin Twins(t, x) \cup {x} => r.busy[k] = t.busy[k]
    BY <1>7 DEF Replaces
  <2>2. r.quiesced \subseteq t.quiesced /\ r.quiesced \subseteq s.quiesced
    BY <2>1 DEF UnitsTaken
  <2>3. ASSUME x \in Whole PROVE unitOf[x] \notin r.quiesced
    <3> SUFFICES ASSUME unitOf[x] \in r.quiesced PROVE FALSE
      OBVIOUS
    <3>1. PICK w \in Whole \cap t.list : unitOf[w] = unitOf[x]
      BY <2>2 DEF UnitsTaken, UnitsHold
    <3>2. w \in Twins(t, x) \cap Whole
      BY <1>4, <2>3, <3>1 DEF Twins
    <3> QED
      BY <2>1, <3>1, <3>2
  <2>4. \A u \in r.quiesced : \E w \in Whole \cap r.list : unitOf[w] = u
    <3> SUFFICES ASSUME NEW u \in r.quiesced PROVE \E w \in Whole \cap r.list : unitOf[w] = u
      OBVIOUS
    <3>1. PICK w \in Whole \cap t.list : unitOf[w] = u
      BY <2>2 DEF UnitsTaken, UnitsHold
    <3>2. w \notin Twins(t, x)
      BY <2>1, <3>1
    <3> QED
      BY <2>1, <3>1, <3>2
  <2>5. ASSUME unitOf[x] \in r.quiesced, x \in early, In(x) PROVE FALSE
    <3>1. x \notin Whole
      BY <2>3, <2>5
    <3>2. PICK w \in Whole : unitOf[w] = unitOf[x] /\ In(w)
      BY <2>5, <3>1 DEF EarlyOn
    <3>3. CASE w \in s.list
      <4>1. unitOf[w] \in s.quiesced
        BY <2>2, <2>5, <3>2
      <4>2. x \in s.list
        BY <2>5, <3>1, <3>2, <3>3, <4>1 DEF EarlyListed
      <4> QED
        BY <1>7, <2>5, <4>2 DEF ListsTaken
    <3>4. CASE w \notin s.list
      <4>1. s.quiesced # {}
        BY <2>2, <2>5
      <4>2. PICK h \in 1 .. (n + 1) - 1 : s.matched[h] = w
        BY <1>2, <1>3, <2>5, <3>1, <3>2, <3>4, <4>1 DEF EarlyAfter
      <4>3. w \in Upto(s.matched, n)
        BY <4>2 DEF Upto
      <4>4. w \in t.list
        BY <3>2, <4>3 DEF ListsTaken
      <4> QED
        BY <2>2, <2>5, <3>2, <3>4, <4>4 DEF UnitsTaken
    <3> QED
      BY <3>3, <3>4
  <2>6. r.skipped \subseteq r.list /\ \A m \in r.skipped \cap early : ~In(m)
    BY <2>1, <2>5 DEF UnitsTaken, UnitsHold
  <2>7. ASSUME NEW w \in Whole \cap r.list, In(w), r.busy[w] = "no" \/ unitOf[w] \in r.quiesced
        PROVE  w \notin early
    <3>1. CASE w = x
      BY <2>1, <2>3, <2>7, <3>1 DEF EarlyOn
    <3>2. CASE w # x
      <4>1. w \in Whole \cap t.list /\ w \notin Twins(t, x) /\ w \in Medium
        BY <1>1, <2>1, <3>2
      <4>2. r.busy[w] = t.busy[w]
        BY <2>1, <3>2, <4>1
      <4> QED
        BY <2>2, <2>7, <4>1, <4>2 DEF UnitsTaken, UnitsHold
    <3> QED
      BY <3>1, <3>2
  <2>8. ASSUME NEW w \in Whole \cap r.list, In(w), unitOf[w] \in r.quiesced PROVE w \in s.list
    <3>1. w # x
      BY <2>3, <2>8
    <3> QED
      BY <2>1, <2>2, <2>8, <3>1 DEF UnitsTaken
  <2>9. \A m \in Medium : Range(r.news[m]) \subseteq Range(s.news[m])
    <3>1. \A m \in Medium : r.news[m] = t.news[m] \/ r.news[m] = <<>>
      BY <2>1
    <3> QED
      BY <3>1, EmptyRange DEF UnitsTaken
  <2> QED
    BY <2>2, <2>4, <2>6, <2>7, <2>8, <2>9 DEF UnitsTaken, UnitsHold
<1> QED
  BY <1>5, <1>6, <1>7 DEF Takes, x

-----------------------------------------------------------------------------
\* What _DAMediaAppearedCallback leaves of s.
Appears(s, r) ==
  /\ Finding(r) /\ r.matched = <<>> /\ r.late = s.late
  /\ Named(r.list)
  /\ r.list \subseteq s.list \cup Range(s.matched)
  /\ \A m \in s.list \cup Range(s.matched) : In(m) => m \in r.list
  /\ r.list \subseteq s.list \cup r.made /\ r.made \subseteq r.list \cap Range(s.matched)
  /\ s.list \subseteq r.list \cup r.dropped /\ s.list \cap r.made \subseteq r.dropped
  /\ s.dropped \subseteq r.dropped
  /\ r.again \subseteq r.list
  /\ \A m \in r.dropped \ s.dropped : m \notin r.list /\ m \in s.list \cup Range(s.matched)
  /\ UnitsHold(r) /\ r.quiesced \subseteq s.quiesced
  /\ \A m \in Medium : Range(r.news[m]) \subseteq Range(s.news[m])

\* By induction over the media that are taken.
LEMMA AppearancesAppear ==
  ASSUME EarlyOn, NEW s, Finding(s), Named(s.list), Ordered(s.list, s.matched),
         s.made = {}, s.again = {}, UnitsHold(s), EarlyListed(s), EarlyAfter(s)
  PROVE  Appears(s, _DAMediaAppearedCallback(s))
<1>1. PICK F : TakesAll(F, s)
  BY AppearancesTaken
<1> DEFINE l == Len(s.matched)
           T == {n \in Nat : n <= l => ListsTaken(s, F[n], n) /\ MadeTaken(s, F[n], n)
                                       /\ UnitsTaken(s, F[n])}
<1>2. s.matched \in Seq(Medium) /\ l \in Nat
  BY DEF Finding
<1>3. 0 \in T
  <2>1. F[0] = s /\ Upto(s.matched, 0) = {}
    BY <1>1, <1>2, UptoAll DEF TakesAll
  <2>2. ListsTaken(s, s, 0)
    BY <2>1 DEF ListsTaken
  <2>3. MadeTaken(s, s, 0)
    BY DEF MadeTaken
  <2>4. UnitsTaken(s, s)
    BY DEF UnitsTaken
  <2> QED
    BY <2>1, <2>2, <2>3, <2>4
<1>4. ASSUME NEW n \in Nat, n \in T PROVE n + 1 \in T
  <2> SUFFICES ASSUME n + 1 <= l
               PROVE  ListsTaken(s, F[n + 1], n + 1) /\ MadeTaken(s, F[n + 1], n + 1)
                      /\ UnitsTaken(s, F[n + 1])
    OBVIOUS
  <2>1. n <= l /\ n < Len(s.matched)
    BY <1>2
  <2>2. ListsTaken(s, F[n], n) /\ MadeTaken(s, F[n], n) /\ UnitsTaken(s, F[n])
    BY <1>4, <2>1
  <2>3. F[n + 1] = Appeared(F[n], s.matched[n + 1]) /\ s.matched[n + 1] \in Medium
    BY <1>1, <1>2, <2>1, UptoNext DEF TakesAll
  <2>4. Finding(F[n + 1]) /\ Takes(F[n], s.matched[n + 1], F[n + 1])
    BY <2>2, <2>3, AppearedTakes DEF ListsTaken
  <2> HIDE DEF l, T
  <2> QED
    BY <2>1, <2>2, <2>4, ListsTakenNext, MadeTakenNext, UnitsTakenNext
<1> HIDE DEF T
<1>5. l \in T
  BY <1>2, <1>3, <1>4, NatSetInduction
<1> DEFINE t == F[l]
           r == _DAMediaAppearedCallback(s)
<1>6. ListsTaken(s, t, l) /\ MadeTaken(s, t, l) /\ UnitsTaken(s, t)
  BY <1>2, <1>5 DEF T
<1>7. r = [t EXCEPT !.matched = <<>>] /\ Upto(s.matched, l) = Range(s.matched)
  BY <1>1, <1>2, UptoAll DEF TakesAll
<1> HIDE DEF t, r, l
<1>8. DOMAIN t = Fields
  BY <1>6 DEF ListsTaken, Finding
<1>9. /\ DOMAIN r = Fields /\ r.matched = <<>> /\ r.news = t.news /\ r.list = t.list
      /\ r.busy = t.busy /\ r.quiesced = t.quiesced /\ r.skipped = t.skipped
      /\ r.late = t.late /\ r.made = t.made /\ r.dropped = t.dropped /\ r.again = t.again
  BY <1>7, <1>8 DEF Fields
<1>10. Finding(r)
  BY <1>6, <1>9 DEF ListsTaken, Finding
<1>11. UnitsHold(r) /\ r.quiesced \subseteq s.quiesced
       /\ \A m \in Medium : Range(r.news[m]) \subseteq Range(s.news[m])
  BY <1>6, <1>9 DEF UnitsTaken, UnitsHold
<1>12. Appears(s, r)
  BY <1>6, <1>7, <1>9, <1>10, <1>11 DEF ListsTaken, MadeTaken, Appears
<1> QED
  BY <1>12 DEF r

-----------------------------------------------------------------------------
(* The media that disappeared are taken one by one                         *)

\* The callback has taken the first n media that disappeared, and has come from s
\* to t: it has taken the media that appeared, or has made nothing yet.
Outcome(s, t, n) ==
  /\ Finding(t) /\ Named(t.list) /\ t.matched \in {s.matched, <<>>}
  /\ s.late \subseteq t.late /\ t.late \subseteq s.late \cup Upto(ended, n)
  /\ t.list \subseteq s.list \cup Range(s.matched)
  /\ \A m \in s.list \cup Range(s.matched) : In(m) => m \in t.list \cup Range(t.matched)
  /\ t.list \subseteq s.list \cup t.made /\ t.made \subseteq t.list \cap Range(s.matched)
  /\ s.list \subseteq t.list \cup t.dropped /\ s.list \cap t.made \subseteq t.dropped
  /\ t.dropped \subseteq s.list \cup Range(s.matched)
  /\ t.again \subseteq t.list
  /\ t.dropped \cap t.list \subseteq t.late
  /\ t.dropped \cap Range(t.matched) \subseteq t.late
  /\ t.matched # <<>> => t.made = {} /\ t.again = {}
  /\ \A i \in 1 .. n : ended[i] \in t.late \/ ended[i] \notin t.list \cup Range(t.matched)
  /\ \A m \in Medium : Range(t.news[m]) \subseteq Range(s.news[m])

\* The same of the units.
Units(s, t) ==
  UnitsHold(t) /\ EarlyListed(t) /\ EarlyAfter(t) /\ t.quiesced \subseteq s.quiesced

\* Where a callback starts.
Starts(s) ==
  /\ Finding(s) /\ Named(s.list) /\ Ordered(s.list, s.matched)
  /\ \A m \in Medium : In(m) => m \in s.list \cup Range(s.matched)
  /\ s.made = {} /\ s.dropped = {} /\ s.again = {}
  /\ UnitsHold(s) /\ EarlyListed(s) /\ EarlyAfter(s)

\* None of the media that disappeared is there.
EndedOut == ended \in Seq(Medium) /\ \A m \in Range(ended) : ~In(m)

\* Fewer disks are in order if more are.
LEMMA OrderedSome ==
  ASSUME NEW S, NEW R, R \subseteq S, NEW q, Ordered(S, q)
  PROVE  Ordered(R, q)
BY DEF Ordered

\* Taking the media that appeared, first or on the way.
LEMMA OutcomeAppears ==
  ASSUME EarlyOn, NEW s, Starts(s), NEW n \in Nat, NEW t, Outcome(s, t, n), Units(s, t)
  PROVE  LET r == _DAMediaAppearedCallback(t)
         IN Outcome(s, r, n) /\ Units(s, r) /\ r.matched = <<>>
<1> DEFINE r == _DAMediaAppearedCallback(t)
<1>1. Finding(t)
  BY DEF Outcome
<1>2. CASE t.matched = <<>>
  <2>1. PICK F : TakesAll(F, t)
    BY <1>1, AppearancesTaken
  <2>2. r = [t EXCEPT !.matched = <<>>]
    BY <1>2, <2>1 DEF TakesAll
  <2> HIDE DEF r
  <2>3. DOMAIN t = Fields
    BY <1>1 DEF Finding
  <2>4. /\ DOMAIN r = Fields /\ r.matched = t.matched /\ r.news = t.news /\ r.list = t.list
        /\ r.busy = t.busy /\ r.quiesced = t.quiesced /\ r.skipped = t.skipped
        /\ r.late = t.late /\ r.made = t.made /\ r.dropped = t.dropped /\ r.again = t.again
    BY <1>2, <2>2, <2>3 DEF Fields
  <2>5. Finding(r)
    BY <1>1, <2>4 DEF Finding
  <2>6. Units(s, r)
    BY <2>4 DEF Units, UnitsHold, EarlyListed, EarlyAfter
  <2>7. Outcome(s, r, n)
    BY <2>4, <2>5 DEF Outcome
  <2> QED
    BY <1>2, <2>4, <2>6, <2>7 DEF r
<1>3. CASE t.matched # <<>>
  <2>1. t.matched = s.matched /\ t.made = {} /\ t.again = {} /\ t.list \subseteq s.list
    BY <1>3 DEF Outcome
  <2>2. Ordered(t.list, t.matched)
    BY <2>1, OrderedSome DEF Starts
  <2>3. Appears(t, r)
    BY <1>1, <2>1, <2>2, AppearancesAppear DEF Units, Outcome
  <2> HIDE DEF r
  <2>4. Finding(r) /\ s.matched \in Seq(Medium) /\ r.matched = <<>> /\ Range(r.matched) = {}
    BY <2>3, EmptyRange DEF Appears, Starts, Finding
  <2>5. \A m \in Medium : In(m) => m \in r.list
    <3>1. \A m \in Medium : In(m) => m \in t.list \cup Range(t.matched)
      BY DEF Starts, Outcome
    <3> QED
      BY <3>1, <2>3 DEF Appears
  <2>6. Units(s, r)
    <3>1. EarlyListed(r)
      BY <2>5 DEF EarlyListed, EarlyOn
    <3>2. EarlyAfter(r)
      BY <2>4 DEF EarlyAfter
    <3> QED
      BY <2>3, <3>1, <3>2 DEF Appears, Units
  <2>7. r.dropped \cap r.list \subseteq r.late
    BY <2>1, <2>3 DEF Appears, Outcome
  <2>8. s.list \subseteq r.list \cup r.dropped /\ s.list \cap r.made \subseteq r.dropped
        /\ r.dropped \subseteq s.list \cup Range(s.matched)
    BY <2>1, <2>3 DEF Appears, Outcome
  <2>9. \A i \in 1 .. n : ended[i] \in r.late \/ ended[i] \notin r.list
    BY <2>1, <2>3 DEF Appears, Outcome
  <2>10. /\ r.list \subseteq s.list \cup Range(s.matched)
         /\ r.list \subseteq s.list \cup r.made /\ r.made \subseteq r.list \cap Range(s.matched)
         /\ s.late \subseteq r.late /\ r.late \subseteq s.late \cup Upto(ended, n)
         /\ \A m \in Medium : Range(r.news[m]) \subseteq Range(s.news[m])
    BY <2>1, <2>3 DEF Appears, Outcome
  <2>11. \A m \in s.list \cup Range(s.matched) : In(m) => m \in r.list
    BY <2>1, <2>3 DEF Appears, Outcome
  <2>12. Outcome(s, r, n)
    BY <2>3, <2>4, <2>7, <2>8, <2>9, <2>10, <2>11 DEF Appears, Outcome
  <2> QED
    BY <2>4, <2>6, <2>12 DEF r
<1> QED
  BY <1>2, <1>3

\* Dropping the disk of the next medium that disappeared.
LEMMA OutcomeDrops ==
  ASSUME EndedOut, NEW s, Starts(s), NEW n \in Nat, n < Len(ended),
         NEW t, Outcome(s, t, n), Units(s, t), ended[n + 1] \in t.list,
         NEW r, r = [Dropped(t, ended[n + 1]) EXCEPT
                       !.late = IF ended[n + 1] \in Range(t.matched) THEN @ \cup {ended[n + 1]} ELSE @]
  PROVE  Outcome(s, r, n + 1) /\ Units(s, r)
<1> DEFINE x == ended[n + 1]
           d == Dropped(t, x)
<1>1. /\ Upto(ended, n + 1) = Upto(ended, n) \cup {x} /\ x \in Medium /\ ~In(x)
      /\ \A i \in 1 .. n + 1 : i \in 1 .. n \/ ended[i] = x
  <2>1. Upto(ended, n + 1) = Upto(ended, n) \cup {x} /\ x \in Medium /\ n + 1 \in DOMAIN ended
    BY UptoNext DEF EndedOut
  <2>2. x \in Range(ended)
    BY <2>1 DEF Range
  <2> QED
    BY <2>1, <2>2 DEF EndedOut
<1>2. Finding(t) /\ Finding(d) /\ Drops(t, x, d)
  BY <1>1, DroppedDrops DEF Outcome
<1>3. x \in t.list
  OBVIOUS
<1>4. r = [d EXCEPT !.late = IF x \in Range(t.matched) THEN @ \cup {x} ELSE @]
  OBVIOUS
<1> HIDE DEF d, x
<1>5. /\ DOMAIN r = Fields /\ r.matched = d.matched /\ r.news = d.news /\ r.list = d.list
      /\ r.busy = d.busy /\ r.quiesced = d.quiesced /\ r.skipped = d.skipped
      /\ r.made = d.made /\ r.dropped = d.dropped /\ r.again = d.again
      /\ r.late = IF x \in Range(t.matched) THEN d.late \cup {x} ELSE d.late
  BY <1>2, <1>4 DEF Finding, Fields
<1>6. Finding(r)
  <2>1. r.late = d.late \/ r.late = d.late \cup {x}
    BY <1>5, Zenon
  <2>2. r.late \subseteq Medium
    BY <1>1, <1>2, <2>1 DEF Finding
  <2> QED
    BY <1>2, <1>5, <2>2 DEF Finding
<1>7. /\ r.matched = t.matched /\ r.list = t.list \ {x} /\ r.dropped = t.dropped \cup {x}
      /\ r.made = t.made \ {x} /\ r.again = t.again \ {x} /\ r.skipped = t.skipped \ {x}
      /\ r.quiesced = (IF x \in Whole THEN t.quiesced \ {unitOf[x]} ELSE t.quiesced)
      /\ r.late = (IF x \in Range(t.matched) THEN t.late \cup {x} ELSE t.late)
      /\ \A k \in Medium : /\ r.news[k] = IF k = x THEN <<>> ELSE t.news[k]
                           /\ r.busy[k] = IF k = x THEN "no" ELSE t.busy[k]
  BY <1>2, <1>5 DEF Drops
<1>8. Units(s, r)
  <2>0. Whole \subseteq Medium
    BY MediaAssumption
  <2>1. \A u \in r.quiesced : \E w \in Whole \cap r.list : unitOf[w] = u
    <3> SUFFICES ASSUME NEW u \in r.quiesced PROVE \E w \in Whole \cap r.list : unitOf[w] = u
      OBVIOUS
    <3>1. PICK w \in Whole \cap t.list : unitOf[w] = u
      BY <1>7 DEF Units, UnitsHold
    <3>2. w # x
      BY <1>7, <3>1
    <3> QED
      BY <1>7, <3>1, <3>2
  <2>2. r.skipped \subseteq r.list /\ \A m \in r.skipped \cap early : ~In(m)
    BY <1>7 DEF Units, UnitsHold
  <2>3. r.quiesced \subseteq t.quiesced /\ r.quiesced \subseteq s.quiesced
    BY <1>7 DEF Units
  <2>4. \A w \in Whole \cap r.list : w \in t.list /\ r.busy[w] = t.busy[w]
    BY <1>7, <2>0
  <2>5. \A w \in Whole \cap r.list : In(w) /\ (r.busy[w] = "no" \/ unitOf[w] \in r.quiesced) => w \notin early
    BY <2>3, <2>4 DEF Units, UnitsHold
  <2>6. EarlyListed(r)
    BY <1>1, <1>7, <2>3, <2>4 DEF Units, EarlyListed
  <2>7. EarlyAfter(r)
    <3>1. \A w \in Whole \ r.list : In(w) => w \in Whole \ t.list
      BY <1>1, <1>7
    <3>2. t.list # {}
      BY <1>3
    <3>3. r.matched = t.matched
      BY <1>7
    <3> QED
      BY <3>1, <3>2, <3>3 DEF Units, EarlyAfter
  <2> QED
    BY <2>1, <2>2, <2>3, <2>5, <2>6, <2>7 DEF Units, UnitsHold
<1>9. Named(r.list)
  BY <1>7 DEF Outcome, Named
<1>10. /\ s.late \subseteq r.late /\ r.late \subseteq s.late \cup Upto(ended, n + 1)
       /\ r.list \subseteq s.list \cup Range(s.matched) /\ r.matched \in {s.matched, <<>>}
  <2>1. r.late = t.late \/ r.late = t.late \cup {x}
    BY <1>7, Zenon
  <2>2. /\ s.late \subseteq t.late /\ t.late \subseteq s.late \cup Upto(ended, n)
        /\ t.list \subseteq s.list \cup Range(s.matched) /\ t.matched \in {s.matched, <<>>}
    BY DEF Outcome
  <2>3. r.matched = t.matched /\ r.list \subseteq t.list
    BY <1>7
  <2> QED
    BY <1>1, <2>1, <2>2, <2>3
<1>11. \A m \in s.list \cup Range(s.matched) : In(m) => m \in r.list \cup Range(r.matched)
  BY <1>1, <1>7 DEF Outcome
<1>12. /\ r.list \subseteq s.list \cup r.made /\ r.made \subseteq r.list \cap Range(s.matched)
       /\ s.list \subseteq r.list \cup r.dropped /\ s.list \cap r.made \subseteq r.dropped
       /\ r.dropped \subseteq s.list \cup Range(s.matched) /\ r.again \subseteq r.list
  BY <1>3, <1>7 DEF Outcome
<1>13. /\ r.dropped \cap r.list \subseteq r.late /\ r.dropped \cap Range(r.matched) \subseteq r.late
       /\ (r.matched # <<>> => r.made = {} /\ r.again = {})
  <2>1. /\ t.dropped \cap t.list \subseteq t.late /\ t.dropped \cap Range(t.matched) \subseteq t.late
        /\ (t.matched # <<>> => t.made = {} /\ t.again = {})
    BY DEF Outcome
  <2>2. r.dropped \cap r.list \subseteq r.late
    BY <1>7, <2>1
  <2>3. r.dropped \cap Range(r.matched) \subseteq r.late
    BY <1>7, <2>1
  <2>4. r.matched # <<>> => r.made = {} /\ r.again = {}
    BY <1>7, <2>1
  <2> QED
    BY <2>2, <2>3, <2>4
<1>14. ASSUME NEW i \in 1 .. n + 1
       PROVE  ended[i] \in r.late \/ ended[i] \notin r.list \cup Range(r.matched)
  <2>1. CASE ended[i] = x
    BY <1>7, <2>1
  <2>2. CASE i \in 1 .. n
    BY <1>7, <2>2 DEF Outcome
  <2> QED
    BY <1>1, <2>1, <2>2
<1>15. \A m \in Medium : Range(r.news[m]) \subseteq Range(s.news[m])
  <2>1. \A m \in Medium : r.news[m] = t.news[m] \/ r.news[m] = <<>>
    BY <1>7
  <2> QED
    BY <2>1, EmptyRange DEF Outcome
<1>16. Outcome(s, r, n + 1)
  BY <1>6, <1>9, <1>10, <1>11, <1>12, <1>13, <1>14, <1>15 DEF Outcome
<1> QED
  BY <1>8, <1>16

\* Nothing is left to do for the next medium that disappeared.
LEMMA OutcomeNothing ==
  ASSUME EndedOut, NEW s, NEW n \in Nat, n < Len(ended),
         NEW t, Outcome(s, t, n), t.matched = <<>>, ended[n + 1] \notin t.list
  PROVE  Outcome(s, t, n + 1)
<1>1. Upto(ended, n + 1) = Upto(ended, n) \cup {ended[n + 1]}
  BY UptoNext DEF EndedOut
<1>2. \A i \in 1 .. n + 1 : i \in 1 .. n \/ i = n + 1
  OBVIOUS
<1>3. \A i \in 1 .. n + 1 : ended[i] \in t.late \/ ended[i] \notin t.list \cup Range(t.matched)
  BY <1>2, EmptyRange DEF Outcome
<1>4. t.late \subseteq s.late \cup Upto(ended, n + 1)
  BY <1>1 DEF Outcome
<1> QED
  BY <1>3, <1>4 DEF Outcome

\* The next medium that disappeared is taken, in either way.
LEMMA OutcomeDisappears ==
  ASSUME EarlyOn, EndedOut, NEW s, Starts(s), NEW n \in Nat, n < Len(ended),
         NEW t, Outcome(s, t, n), Units(s, t)
  PROVE  LET r == Disappeared(t, ended[n + 1]) IN Outcome(s, r, n + 1) /\ Units(s, r)
<1> DEFINE x == ended[n + 1]
           r == Disappeared(t, x)
<1>1. CASE x \in t.list
  <2>1. r = [Dropped(t, x) EXCEPT !.late = IF x \in Range(t.matched) THEN @ \cup {x} ELSE @]
    BY <1>1 DEF Disappeared
  <2> HIDE DEF r
  <2> QED
    BY <1>1, <2>1, OutcomeDrops DEF r
<1>2. CASE x \notin t.list
  <2> DEFINE u == _DAMediaAppearedCallback(t)
  <2>1. Outcome(s, u, n) /\ Units(s, u) /\ u.matched = <<>>
    BY OutcomeAppears
  <2>2. r = IF x \notin u.list THEN u
            ELSE [Dropped(u, x) EXCEPT !.late = IF x \in Range(u.matched) THEN @ \cup {x} ELSE @]
    BY <1>2 DEF Disappeared
  <2> HIDE DEF r, u
  <2>3. CASE x \notin u.list
    BY <2>1, <2>2, <2>3, OutcomeNothing DEF r
  <2>4. CASE x \in u.list
    BY <2>1, <2>2, <2>4, OutcomeDrops DEF r
  <2> QED
    BY <2>3, <2>4
<1> QED
  BY <1>1, <1>2

\* F is the first n steps of taking the media of q that disappeared.
AreGone(F, s, q, n) ==
  F = [k \in 0 .. n |-> IF k = 0 THEN s ELSE Disappeared(F[k - 1], q[k])]
HasGone(s, q, n) == \E F : AreGone(F, s, q, n)

\* There are such steps for every n.
LEMMA GoneExist ==
  ASSUME NEW s, NEW q, NEW l \in Nat
  PROVE  HasGone(s, q, l)
<1> DEFINE T == {n \in Nat : HasGone(s, q, n)}
<1>1. 0 \in T
  <2> DEFINE F == [m \in 0 .. 0 |-> s]
  <2>1. AreGone(F, s, q, 0)
    BY DEF AreGone
  <2> QED BY <2>1 DEF HasGone
<1>2. ASSUME NEW n \in Nat, n \in T PROVE n + 1 \in T
  <2>1. PICK F : AreGone(F, s, q, n)
    BY <1>2 DEF HasGone
  <2> DEFINE G == [m \in 0 .. n + 1 |-> IF m = n + 1 THEN Disappeared(F[m - 1], q[m]) ELSE F[m]]
  <2>2. \A m \in 0 .. n : G[m] = F[m]
    OBVIOUS
  <2>3. G[n + 1] = Disappeared(F[n], q[n + 1])
    OBVIOUS
  <2>4. \A m \in 0 .. n : F[m] = IF m = 0 THEN s ELSE Disappeared(F[m - 1], q[m])
    BY <2>1 DEF AreGone
  <2>5. ASSUME NEW m \in 0 .. n + 1
        PROVE  G[m] = IF m = 0 THEN s ELSE Disappeared(G[m - 1], q[m])
    <3>1. CASE m = 0
      BY <2>2, <2>4, <3>1
    <3>2. CASE m \in 1 .. n
      BY <2>2, <2>4, <3>2
    <3>3. CASE m = n + 1
      BY <2>2, <2>3, <3>3
    <3> QED BY <3>1, <3>2, <3>3
  <2>6. G = [m \in 0 .. n + 1 |-> G[m]]
    OBVIOUS
  <2> HIDE DEF G
  <2>7. AreGone(G, s, q, n + 1)
    BY <2>5, <2>6 DEF AreGone
  <2> QED BY <2>7 DEF HasGone
<1> HIDE DEF T
<1>3. Nat \subseteq T
  BY <1>1, <1>2, NatSetInduction
<1> QED BY <1>3 DEF T

\* F[n] is what is left of s when the first n media that disappeared are taken.
TakesEnded(F, s) ==
  /\ F[0] = s
  /\ \A n \in Nat : n < Len(ended) => F[n + 1] = Disappeared(F[n], ended[n + 1])
  /\ _DAMediaDisappearedCallback(s) = F[Len(ended)]

\* _DAMediaDisappearedCallback takes all of them.
LEMMA DisappearancesTaken ==
  ASSUME NEW s, Len(ended) \in Nat
  PROVE  \E F : TakesEnded(F, s)
<1> DEFINE F == CHOOSE G : AreGone(G, s, ended, Len(ended))
<1>1. AreGone(F, s, ended, Len(ended))
  BY GoneExist DEF HasGone
<1>2. _DAMediaDisappearedCallback(s) = F[Len(ended)]
  BY DEF _DAMediaDisappearedCallback, AreGone
<1> HIDE DEF F
<1>3. \A m \in 0 .. Len(ended) : F[m] = IF m = 0 THEN s ELSE Disappeared(F[m - 1], ended[m])
  BY <1>1 DEF AreGone
<1>4. F[0] = s
  BY <1>3
<1>5. ASSUME NEW n \in Nat, n < Len(ended) PROVE F[n + 1] = Disappeared(F[n], ended[n + 1])
  <2>1. n + 1 \in 0 .. Len(ended) /\ n + 1 # 0 /\ (n + 1) - 1 = n
    BY <1>5
  <2> QED BY <1>3, <2>1
<1> QED BY <1>2, <1>4, <1>5 DEF TakesEnded

\* At first nothing has been done.
LEMMA OutcomeStarts ==
  ASSUME NEW s, Starts(s)
  PROVE  Outcome(s, s, 0) /\ Units(s, s)
<1>1. Range(s.matched) \subseteq Medium
  BY DEF Starts, Finding, Range
<1> QED
  BY <1>1 DEF Starts, Outcome, Units, Finding

\* By induction over the media that disappeared.
LEMMA OutcomeEnded ==
  ASSUME EarlyOn, EndedOut, NEW s, Starts(s)
  PROVE  LET r == _DAMediaDisappearedCallback(s) IN Outcome(s, r, Len(ended)) /\ Units(s, r)
<1>1. Len(ended) \in Nat
  BY DEF EndedOut
<1>2. PICK F : TakesEnded(F, s)
  BY <1>1, DisappearancesTaken
<1> DEFINE T == {n \in Nat : n <= Len(ended) => Outcome(s, F[n], n) /\ Units(s, F[n])}
<1>3. 0 \in T
  BY <1>2, OutcomeStarts DEF TakesEnded
<1>4. ASSUME NEW n \in Nat, n \in T PROVE n + 1 \in T
  <2> SUFFICES ASSUME n + 1 <= Len(ended) PROVE Outcome(s, F[n + 1], n + 1) /\ Units(s, F[n + 1])
    OBVIOUS
  <2>1. n <= Len(ended) /\ n < Len(ended)
    BY <1>1
  <2>2. Outcome(s, F[n], n) /\ Units(s, F[n])
    BY <1>4, <2>1
  <2>3. F[n + 1] = Disappeared(F[n], ended[n + 1])
    BY <1>2, <2>1 DEF TakesEnded
  <2> HIDE DEF T
  <2> QED
    BY <2>1, <2>2, <2>3, OutcomeDisappears
<1> HIDE DEF T
<1>5. Len(ended) \in T
  BY <1>1, <1>3, <1>4, NatSetInduction
<1> QED
  BY <1>1, <1>2, <1>5 DEF T, TakesEnded

-----------------------------------------------------------------------------
(* The invariant of the lists                                              *)

\* There is news that the medium appeared.
Queued(m) == m \in Range(matched)

\* The lists agree with the registry: what is there has a disk or is told of; what
\* is neither there nor told to have disappeared has no disk; names differ.
NamesInv ==
  /\ Named(list) /\ Ordered(list, matched)
  /\ \A m, n \in Medium : In(m) /\ In(n) => ~Twin(m, n)
  /\ \A m \in Medium : In(m) => m \in list \/ Queued(m)
  /\ \A m \in Medium : registry[m] = "out" =>
       /\ m \notin list /\ ~Queued(m) /\ m \notin Range(ended) /\ m \notin early
       /\ Range(busyNews[m]) = {}
  /\ \A m \in Range(ended) \cup late : registry[m] \in {"leaving", "gone"}
  /\ \A m \in Medium \ late : (m \in list \/ Queued(m)) /\ ~In(m) => m \in Range(ended)

\* With the types, all of the invariant that is about media.
MediaInv == MediaTypeOK /\ NamesInv

\* The units, as the callbacks find them.
UnitInv ==
  /\ EarlyOn /\ UnitsHold(Found) /\ EarlyListed(Found) /\ EarlyAfter(Found)
  /\ \A w \in Whole : In(w) /\ FALSE \in Range(busyNews[w]) => w \notin early

\* r is what a callback leaves that has taken the first n media that disappeared.
Result(r, n) == Outcome(Found, r, n) /\ Units(Found, r)

\* s is what a callback finds, apart from the news that a medium is busy.
FoundIs(s) ==
  /\ DOMAIN s = Fields
  /\ s.matched = matched /\ s.list = list /\ s.quiesced = quiesced
  /\ s.skipped = skipped /\ s.late = late /\ s.made = {} /\ s.dropped = {} /\ s.again = {}

\* Found is what it says.
LEMMA FoundIsFound == FoundIs(Found) /\ Found.busy = busy /\ Found.news = busyNews
BY DEF Found, FoundIs, Fields

\* A callback may start there.
LEMMA FoundStarts ==
  ASSUME MediaInv, UnitInv, NEW s, FoundIs(s), s.busy = busy, s.news \in [Medium -> Seq(BOOLEAN)]
  PROVE  Starts(s)
<1>1. Finding(s)
  BY DEF FoundIs, MediaInv, MediaTypeOK, Finding
<1>2. \A m \in Medium : In(m) => m \in s.list \cup Range(s.matched)
  BY DEF FoundIs, MediaInv, NamesInv, Queued
<1>3. UnitsHold(s) /\ EarlyListed(s) /\ EarlyAfter(s)
  BY FoundIsFound DEF FoundIs, UnitInv, UnitsHold, EarlyListed, EarlyAfter
<1> QED
  BY <1>1, <1>2, <1>3 DEF FoundIs, Starts, MediaInv, NamesInv

\* What disappeared is not there.
LEMMA MediaInvEnded ==
  ASSUME MediaInv
  PROVE  EndedOut
BY DEF MediaInv, NamesInv, MediaTypeOK, EndedOut, In

\* A callback may start with Found.
LEMMA FoundBegins ==
  ASSUME MediaInv, UnitInv
  PROVE  Starts(Found)
BY FoundStarts, FoundIsFound DEF MediaInv, MediaTypeOK

\* What the three callbacks leave.
LEMMA AppearancesResult ==
  ASSUME MediaInv, UnitInv
  PROVE  Result(Appearances, 0) /\ Appearances.matched = <<>>
<1>1. Starts(Found) /\ Outcome(Found, Found, 0) /\ Units(Found, Found)
  BY FoundBegins, OutcomeStarts
<1> QED
  BY <1>1, OutcomeAppears DEF UnitInv, Result, Appearances

\* The media that disappeared are taken.
LEMMA DisappearancesResult ==
  ASSUME MediaInv, UnitInv
  PROVE  Result(Disappearances, Len(ended))
BY FoundBegins, MediaInvEnded, OutcomeEnded DEF UnitInv, Result, Disappearances

\* A medium is busy, or calm: then the media that appeared are taken.
LEMMA HeardResult ==
  ASSUME MediaInv, UnitInv, NEW m \in Medium, busyNews[m] # <<>>
  PROVE  Result(Heard(m), 0)
<1> DEFINE s == [Found EXCEPT !.news[m] = Tail(@)]
<1>1. FoundIs(s) /\ s.busy = busy /\ s.news = [busyNews EXCEPT ![m] = Tail(@)]
  BY FoundIsFound DEF FoundIs, Fields
<1> HIDE DEF s
<1>2. busyNews \in [Medium -> Seq(BOOLEAN)] /\ busyNews[m] \in Seq(BOOLEAN)
  BY DEF MediaInv, MediaTypeOK
<1>3. Tail(busyNews[m]) \in Seq(BOOLEAN) /\ Range(Tail(busyNews[m])) \subseteq Range(busyNews[m])
      /\ Head(busyNews[m]) \in Range(busyNews[m])
  BY <1>2 DEF Range
<1>4. s.news \in [Medium -> Seq(BOOLEAN)] /\ \A k \in Medium : Range(s.news[k]) \subseteq Range(busyNews[k])
  BY <1>1, <1>2, <1>3
<1>5. Starts(s)
  BY <1>1, <1>4, FoundStarts
<1>6. Outcome(s, s, 0) /\ Units(s, s)
  BY <1>5, OutcomeStarts
<1>7. ASSUME NEW r, Outcome(s, r, 0), Units(s, r) PROVE Result(r, 0)
  <2>1. Units(Found, r)
    BY <1>1, <1>7, FoundIsFound DEF FoundIs, Units
  <2>2. \A k \in Medium : Range(r.news[k]) \subseteq Range(Found.news[k])
    BY <1>4, <1>7, FoundIsFound DEF Outcome
  <2>3. Outcome(Found, r, 0)
    BY <1>1, <1>7, <2>2, FoundIsFound DEF FoundIs, Outcome
  <2> QED
    BY <2>1, <2>3 DEF Result
<1>8. CASE Head(busyNews[m])
  <2> DEFINE r == [s EXCEPT !.busy[m] = "busy"]
  <2>1. Heard(m) = r
    BY <1>8 DEF Heard, s
  <2>2. FoundIs(r) /\ r.news = s.news /\ r.busy = [busy EXCEPT ![m] = "busy"]
    BY <1>1 DEF FoundIs, Fields
  <2> HIDE DEF r
  <2>3. Finding(r)
    BY <1>4, <2>2 DEF FoundIs, MediaInv, MediaTypeOK, Finding
  <2>4. \A w \in Whole : r.busy[w] = "no" => busy[w] = "no"
    BY <2>2, MediaAssumption DEF MediaInv, MediaTypeOK
  <2>5. Units(Found, r)
    BY <2>2, <2>4, FoundIsFound DEF UnitInv, FoundIs, Units, UnitsHold, EarlyListed, EarlyAfter
  <2>6. Outcome(s, r, 0)
    BY <1>1, <1>6, <2>2, <2>3 DEF FoundIs, Outcome
  <2>7. Units(s, r)
    BY <1>1, <2>5, FoundIsFound DEF FoundIs, Units
  <2> QED
    BY <1>7, <2>1, <2>6, <2>7
<1>9. CASE ~Head(busyNews[m])
  <2> DEFINE u == _DAMediaAppearedCallback(s)
             r == [u EXCEPT !.busy[m] = "no"]
  <2>1. Heard(m) = r
    BY <1>9 DEF Heard, Calmed, s
  <2>2. Outcome(s, u, 0) /\ Units(s, u) /\ u.matched = <<>>
    BY <1>5, <1>6, OutcomeAppears DEF UnitInv
  <2> HIDE DEF u
  <2>3. Finding(u) /\ DOMAIN u = Fields
    BY <2>2 DEF Outcome, Finding
  <2>4. /\ DOMAIN r = Fields /\ r.matched = u.matched /\ r.list = u.list /\ r.quiesced = u.quiesced
        /\ r.skipped = u.skipped /\ r.late = u.late /\ r.made = u.made /\ r.dropped = u.dropped
        /\ r.again = u.again /\ r.news = u.news /\ r.busy = [u.busy EXCEPT ![m] = "no"]
    BY <2>3 DEF Fields
  <2> HIDE DEF r
  <2>5. Finding(r)
    BY <2>3, <2>4 DEF Finding
  <2>6. Outcome(s, r, 0)
    BY <2>2, <2>4, <2>5 DEF Outcome
  <2>7. \A k \in Medium : k # m => r.busy[k] = u.busy[k]
    BY <2>3, <2>4 DEF Finding
  <2>8. m \in Whole /\ In(m) => m \notin early
    <3>1. FALSE \in Range(busyNews[m])
      <4>1. Head(busyNews[m]) \in BOOLEAN
        BY <1>2
      <4>2. Head(busyNews[m]) = FALSE
        BY <1>9, <4>1
      <4> QED
        BY <1>3, <4>2
    <3> QED
      BY <3>1 DEF UnitInv
  <2>9. UnitsHold(r)
    BY <2>2, <2>4, <2>7, <2>8, MediaAssumption DEF Units, UnitsHold
  <2>10. \A k \in Medium : In(k) => k \in r.list
    BY <1>5, <2>2, <2>4, EmptyRange DEF Starts, Outcome
  <2>11. EarlyListed(r)
    BY <2>10 DEF EarlyListed, UnitInv, EarlyOn
  <2>12. EarlyAfter(r)
    BY <2>2, <2>4 DEF EarlyAfter
  <2>13. Units(s, r)
    BY <2>2, <2>4, <2>9, <2>11, <2>12 DEF Units
  <2> QED
    BY <1>7, <2>1, <2>6, <2>13
<1> QED
  BY <1>8, <1>9

\* What the next callback finds is what this one left.
LEMMA FoundNext ==
  /\ Found'.list = list' /\ Found'.matched = matched' /\ Found'.quiesced = quiesced'
  /\ Found'.skipped = skipped' /\ Found'.busy = busy'
BY DEF Found

\* A callback keeps NamesInv.
LEMMA ResultNames ==
  ASSUME MediaInv, UnitInv, NEW r, NEW n, Result(r, n), Leaves(r),
         (n = 0 /\ ended' = ended) \/ (n = Len(ended) /\ ended' = <<>>)
  PROVE  NamesInv'
<1>1. /\ matched' = r.matched /\ list' = r.list /\ late' = r.late /\ busyNews' = r.news
      /\ registry' = registry /\ early' = early
  BY DEF Leaves
<1>2. Outcome(Found, r, n) /\ Found.matched = matched /\ Found.list = list /\ Found.late = late
      /\ Found.news = busyNews
  BY FoundIsFound DEF Result, FoundIs
<1>3. \A m \in Medium : In(m)' <=> In(m)
  BY <1>1 DEF In
<1>4. Range(matched') \subseteq Range(matched) /\ Range(ended') \subseteq Range(ended)
      /\ late \subseteq late' /\ late' \subseteq late \cup Range(ended)
  <2>1. ended \in Seq(Medium)
    BY DEF MediaInv, MediaTypeOK
  <2>2. Upto(ended, 0) = {} /\ Upto(ended, Len(ended)) = Range(ended)
    BY <2>1, UptoAll
  <2> QED
    BY <1>1, <1>2, <2>2, EmptyRange DEF Outcome
<1>5. list' \subseteq list \cup Range(matched)
  BY <1>1, <1>2 DEF Outcome
<1>6. Named(list')
  BY <1>1, <1>2 DEF Outcome
<1>7. Ordered(list, matched)'
  <2>1. CASE matched' = <<>>
    BY <2>1 DEF Ordered
  <2>2. CASE matched' # <<>>
    <3>1. matched' = matched /\ list' \subseteq list
      BY <1>1, <1>2, <2>2 DEF Outcome
    <3> QED
      BY <1>3, <3>1 DEF MediaInv, NamesInv, Ordered
  <2> QED
    BY <2>1, <2>2
<1>8. \A m \in Medium : In(m) => m \in list' \/ m \in Range(matched')
  BY <1>1, <1>2 DEF MediaInv, NamesInv, Queued, Outcome
<1>9. \A m \in Medium : registry[m] = "out" =>
       /\ m \notin list' /\ m \notin Range(matched') /\ m \notin Range(ended') /\ m \notin early'
       /\ Range(busyNews'[m]) = {}
  <2>1. \A m \in Medium : Range(busyNews'[m]) \subseteq Range(busyNews[m])
    BY <1>1, <1>2 DEF Outcome
  <2> QED
    BY <1>1, <1>4, <1>5, <2>1 DEF MediaInv, NamesInv, Queued
<1>10. \A m \in Range(ended') \cup late' : registry[m] \in {"leaving", "gone"}
  BY <1>4 DEF MediaInv, NamesInv
<1>11. ASSUME NEW m \in Medium \ late', m \in list' \/ m \in Range(matched'), ~In(m)
       PROVE  m \in Range(ended')
  <2>1. m \in Range(ended)
    BY <1>4, <1>5, <1>11 DEF MediaInv, NamesInv, Queued
  <2>2. CASE ended' = ended
    BY <2>1, <2>2
  <2>3. CASE n = Len(ended)
    <3>1. PICK i \in 1 .. n : ended[i] = m
      BY <2>1, <2>3 DEF Range, MediaInv, MediaTypeOK
    <3> QED
      BY <1>1, <1>2, <1>11, <3>1 DEF Outcome
  <2> QED
    BY <2>2, <2>3
<1> QED
  BY <1>1, <1>3, <1>6, <1>7, <1>8, <1>9, <1>10, <1>11 DEF NamesInv, MediaInv, Queued

\* A callback keeps UnitInv.
LEMMA ResultUnits ==
  ASSUME MediaInv, UnitInv, NEW r, NEW n, Result(r, n), Leaves(r)
  PROVE  UnitInv'
<1>1. /\ matched' = r.matched /\ list' = r.list /\ busyNews' = r.news /\ busy' = r.busy
      /\ quiesced' = r.quiesced /\ skipped' = r.skipped
      /\ registry' = registry /\ early' = early /\ ioBusy' = ioBusy
  BY DEF Leaves
<1>2. Outcome(Found, r, n) /\ Units(Found, r) /\ Found.news = busyNews
  BY FoundIsFound DEF Result
<1>3. \A m : In(m)' <=> In(m)
  BY <1>1 DEF In
<1>4. EarlyOn'
  BY <1>1, <1>3 DEF UnitInv, EarlyOn
<1>5. UnitsHold(Found)'
  BY <1>1, <1>2, <1>3, FoundNext DEF Units, UnitsHold
<1>6. EarlyListed(Found)'
  BY <1>1, <1>2, <1>3, FoundNext DEF Units, EarlyListed
<1>7. EarlyAfter(Found)'
  BY <1>1, <1>2, <1>3, FoundNext DEF Units, EarlyAfter
<1>8. \A w \in Whole : In(w) /\ FALSE \in Range(busyNews'[w]) => w \notin early
  <2>1. \A w \in Whole : Range(busyNews'[w]) \subseteq Range(busyNews[w])
    BY <1>1, <1>2, MediaAssumption DEF Outcome
  <2> QED
    BY <2>1 DEF UnitInv
<1> QED
  BY <1>1, <1>3, <1>4, <1>5, <1>6, <1>7, <1>8 DEF UnitInv

\* A callback keeps the types.
LEMMA ResultTypes ==
  ASSUME MediaInv, NEW r, NEW n, Result(r, n), Leaves(r), ended' \in Seq(Medium),
         timers' \subseteq Medium, signal' \in BOOLEAN, idle' \in BOOLEAN
  PROVE  MediaTypeOK'
<1>1. Finding(r)
  BY DEF Result, Outcome
<1> QED
  BY <1>1 DEF MediaInv, MediaTypeOK, Finding, Leaves

-----------------------------------------------------------------------------
(* I/O Kit                                                                 *)

\* One more at the end of a list.
LEMMA AppendFacts ==
  ASSUME NEW T, NEW q \in Seq(T), NEW x \in T
  PROVE  /\ Append(q, x) \in Seq(T) /\ Range(Append(q, x)) = Range(q) \cup {x}
         /\ DOMAIN q = 1 .. Len(q) /\ DOMAIN Append(q, x) = 1 .. Len(q) + 1 /\ Len(q) \in Nat
         /\ Append(q, x)[Len(q) + 1] = x /\ \A i \in 1 .. Len(q) : Append(q, x)[i] = q[i]
<1>1. /\ Append(q, x) \in Seq(T)
      /\ DOMAIN q = 1 .. Len(q) /\ DOMAIN Append(q, x) = 1 .. Len(q) + 1 /\ Len(q) \in Nat
      /\ Append(q, x)[Len(q) + 1] = x /\ \A i \in 1 .. Len(q) : Append(q, x)[i] = q[i]
  OBVIOUS
<1> DEFINE p == Append(q, x)
<1>2. \A i : i \in DOMAIN p <=> (i \in DOMAIN q \/ i = Len(q) + 1)
  BY <1>1
<1>3. \A i \in DOMAIN q : p[i] = q[i]
  BY <1>1
<1>4. p[Len(q) + 1] = x
  BY <1>1
<1>5. Range(p) = Range(q) \cup {x}
  <2> HIDE DEF p
  <2> QED
    BY <1>2, <1>3, <1>4 DEF Range
<1> QED
  BY <1>1, <1>5

\* News of a medium that is there.
LEMMA OrderedAppend ==
  ASSUME NEW x \in Medium, matched \in Seq(Medium), Ordered(list, matched),
         matched' = Append(matched, x), list' = list,
         \A k \in Medium : In(k)' => ~Twin(k, x),
         \A k \in Medium : In(k)' => In(k) \/ k = x,
         In(x) \/ (x \notin list /\ x \notin Range(matched))
  PROVE  Ordered(list, matched)'
<1> DEFINE l == Len(matched)
<1>1. /\ DOMAIN matched = 1 .. l /\ DOMAIN matched' = 1 .. l + 1 /\ l \in Nat
      /\ matched'[l + 1] = x /\ \A i \in 1 .. l : matched'[i] = matched[i]
  BY AppendFacts
<1>2. \A i \in DOMAIN matched' : (i \in DOMAIN matched /\ matched'[i] = matched[i]) \/ (i = l + 1 /\ matched'[i] = x)
  BY <1>1
<1>3. \A i, j \in DOMAIN matched' : i < j => i \in DOMAIN matched
  BY <1>1
<1>4. \A i \in DOMAIN matched : i \in Nat /\ matched[i] \in Range(matched)
  BY <1>1 DEF Range
<1>5. \A i, j \in DOMAIN matched' : i \in Int /\ j \in Int
  BY <1>1
<1> HIDE DEF l
<1> SUFFICES ASSUME NEW m \in Medium, NEW n \in Medium, Twin(m, n)
             PROVE  /\ In(n)' /\ n \in list => \A i \in DOMAIN matched' : matched'[i] # m
                    /\ In(n)' => \A i, j \in DOMAIN matched' : i < j => ~(matched'[i] = n /\ matched'[j] = m)
                    /\ n \in list => \A i, j \in DOMAIN matched' : i < j => ~(matched'[i] = m /\ matched'[j] = n)
                    /\ \A h, i, j \in DOMAIN matched' : h < i /\ i < j =>
                         ~(matched'[h] = n /\ matched'[i] = m /\ matched'[j] = n)
  BY DEF Ordered
<1>6. Twin(n, m) /\ (In(n)' => m # x)
  BY DEF Twin
<1>7. ASSUME In(n)', n \in list, NEW i \in DOMAIN matched', matched'[i] = m PROVE FALSE
  <2>1. i \in DOMAIN matched /\ matched[i] = m
    BY <1>2, <1>6, <1>7
  <2>2. In(n)
    BY <1>7
  <2> QED
    BY <1>7, <2>1, <2>2 DEF Ordered
<1>8. ASSUME In(n)', NEW i \in DOMAIN matched', NEW j \in DOMAIN matched', i < j,
             matched'[i] = n, matched'[j] = m
      PROVE  FALSE
  <2>1. j \in DOMAIN matched /\ matched[j] = m
    BY <1>2, <1>6, <1>8
  <2>2. i \in DOMAIN matched /\ matched[i] = n
    BY <1>1, <1>3, <1>8
  <2>3. In(n)
    BY <1>4, <1>8, <2>2
  <2> QED
    BY <1>8, <2>1, <2>2, <2>3 DEF Ordered
<1>9. ASSUME n \in list, NEW i \in DOMAIN matched', NEW j \in DOMAIN matched', i < j,
             matched'[i] = m, matched'[j] = n
      PROVE  FALSE
  <2>1. i \in DOMAIN matched /\ matched[i] = m
    BY <1>1, <1>3, <1>9
  <2>2. CASE j \in DOMAIN matched /\ matched[j] = n
    BY <1>9, <2>1, <2>2 DEF Ordered
  <2>3. CASE n = x
    BY <1>9, <2>1, <2>3 DEF Ordered
  <2> QED
    BY <1>2, <1>9, <2>2, <2>3
<1>10. ASSUME NEW h \in DOMAIN matched', NEW i \in DOMAIN matched', NEW j \in DOMAIN matched',
              h < i, i < j, matched'[h] = n, matched'[i] = m, matched'[j] = n
       PROVE  FALSE
  <2>1. i \in DOMAIN matched /\ matched[i] = m /\ h \in DOMAIN matched /\ matched[h] = n
    BY <1>1, <1>3, <1>10
  <2>2. CASE j \in DOMAIN matched /\ matched[j] = n
    BY <1>10, <2>1, <2>2 DEF Ordered
  <2>3. CASE n = x
    <3>1. In(n)
      BY <1>4, <2>1, <2>3
    <3> QED
      BY <1>10, <2>1, <3>1 DEF Ordered
  <2> QED
    BY <1>2, <1>10, <2>2, <2>3
<1> QED
  BY <1>7, <1>8, <1>9, <1>10

\* Nothing happens to the lists, and no medium comes.
LEMMA OrderedLess ==
  ASSUME Ordered(list, matched), UNCHANGED <<list, matched>>, \A k \in Medium : In(k)' => In(k)
  PROVE  Ordered(list, matched)'
BY DEF Ordered

\* Less that is early, and no more that is calm.
LEMMA UnitsLess ==
  ASSUME UnitInv, UNCHANGED <<list, matched, quiesced, skipped>>,
         \A k \in Medium : In(k)' => In(k), early' \subseteq early,
         \A k \in Medium : busy'[k] = "no" => busy[k] = "no"
  PROVE  (UnitsHold(Found) /\ EarlyListed(Found) /\ EarlyAfter(Found))'
<1>1. Found.list = list /\ Found.matched = matched /\ Found.quiesced = quiesced
      /\ Found.skipped = skipped /\ Found.busy = busy
  BY FoundIsFound DEF FoundIs
<1>2. early' \subseteq Medium /\ early \subseteq Medium /\ Whole \subseteq Medium
  BY MediaAssumption DEF UnitInv, EarlyOn
<1>3. UnitsHold(Found)'
  BY <1>1, <1>2, FoundNext DEF UnitInv, UnitsHold
<1>4. EarlyListed(Found)'
  BY <1>1, <1>2, FoundNext DEF UnitInv, EarlyListed
<1>5. EarlyAfter(Found)'
  <2>1. CASE list = {} /\ quiesced = {}
    BY <2>1, FoundNext DEF EarlyAfter
  <2>2. CASE \A w \in Whole \ list : \A m \in early \ Whole : In(w) /\ In(m) /\ unitOf[m] = unitOf[w] =>
               \A i \in DOMAIN matched : matched[i] = m => \E h \in 1 .. i - 1 : matched[h] = w
    BY <1>2, <2>2, FoundNext DEF EarlyAfter
  <2> QED
    BY <1>1, <2>1, <2>2 DEF UnitInv, EarlyAfter
<1> QED
  BY <1>3, <1>4, <1>5

\* A unit has one whole device at a time, by its name.
LEMMA WholesNamed ==
  ASSUME NEW v \in Whole, NEW w \in Whole, unitOf[v] = unitOf[w]
  PROVE  idOf[v] = idOf[w] /\ v \in Medium /\ w \in Medium
BY MediaAssumption

\* A medium is published under a name that no other has.
LEMMA PublishKeeps ==
  ASSUME MediaInv, UnitInv, NEW m \in Medium, Publish(m), UNCHANGED <<diskVars, stageVars>>
  PROVE  MediaInv' /\ UnitInv'
<1>1. /\ registry[m] = "out" /\ \A n \in Medium : idOf[n] = idOf[m] => registry[n] # "in"
      /\ m \notin Whole => \E w \in Whole : unitOf[w] = unitOf[m] /\ registry[w] = "in"
      /\ registry' = [registry EXCEPT ![m] = "in"]
      /\ matched' = Append(matched, m)
      /\ early' = (IF (m \in Whole /\ m \in Restless) \/ Starting(m) THEN early \cup {m} ELSE early)
      /\ ioBusy' = (IF m \in Restless THEN ioBusy \cup {m} ELSE ioBusy)
      /\ UNCHANGED <<ended, busyNews, list, busy, quiesced, skipped, late>>
  BY DEF Publish, diskVars
<1>2. registry \in [Medium -> {"out", "in", "leaving", "gone"}] /\ matched \in Seq(Medium)
  BY DEF MediaInv, MediaTypeOK
<1>3. \A k \in Medium : (In(k)' <=> In(k) \/ k = m) /\ (k # m => registry'[k] = registry[k])
  BY <1>1, <1>2 DEF In
<1>4. ~In(m) /\ m \notin list /\ ~Queued(m) /\ m \notin early /\ m \notin Range(ended)
      /\ Range(busyNews[m]) = {} /\ m \notin late
  BY <1>1 DEF MediaInv, NamesInv, In
<1>5. \A k \in Medium : In(k) => ~Twin(k, m) /\ ~Twin(m, k)
  BY <1>1 DEF In, Twin
<1>6. Range(matched') = Range(matched) \cup {m}
  BY <1>1, <1>2, AppendFacts
<1>7. MediaTypeOK'
  <2>1. matched' \in Seq(Medium) /\ registry' \in [Medium -> {"out", "in", "leaving", "gone"}]
    BY <1>1, <1>2, AppendFacts
  <2>2. events' \in 0 .. MaxEvent
    BY MediaAssumption DEF Publish, Happens, MediaInv, MediaTypeOK
  <2>3. ioBusy' \subseteq Medium /\ early' \subseteq Medium
    BY <1>1 DEF MediaInv, MediaTypeOK
  <2> QED
    BY <1>1, <2>1, <2>2, <2>3 DEF Publish, MediaInv, MediaTypeOK, stageVars
<1>8. NamesInv'
  <2>1. Named(list)'
    BY <1>1 DEF MediaInv, NamesInv
  <2>2. Ordered(list, matched)'
    <3>1. \A k \in Medium : In(k)' => ~Twin(k, m)
      BY <1>3, <1>5 DEF Twin
    <3> QED
      BY <1>1, <1>2, <1>3, <1>4, <3>1, OrderedAppend DEF MediaInv, NamesInv, Queued
  <2>3. \A k, n \in Medium : In(k)' /\ In(n)' => ~Twin(k, n)
    BY <1>3, <1>5 DEF MediaInv, NamesInv, Twin
  <2>4. \A k \in Medium : In(k)' => k \in list' \/ Queued(k)'
    BY <1>1, <1>3, <1>6 DEF MediaInv, NamesInv, Queued
  <2>5. \A k \in Medium : registry'[k] = "out" => k # m
    BY <1>1, <1>2
  <2>6. \A k \in Medium : registry'[k] = "out" =>
       /\ k \notin list' /\ ~Queued(k)' /\ k \notin Range(ended') /\ k \notin early'
       /\ Range(busyNews'[k]) = {}
    BY <1>1, <1>3, <1>6, <2>5 DEF MediaInv, NamesInv, Queued
  <2>7. \A k \in Range(ended') \cup late' : registry'[k] \in {"leaving", "gone"}
    <3>1. \A k \in Range(ended) \cup late : k \in Medium
      BY DEF MediaInv, MediaTypeOK, Range
    <3> QED
      BY <1>1, <1>3, <1>4, <3>1 DEF MediaInv, NamesInv
  <2>8. \A k \in Medium \ late' : (k \in list' \/ Queued(k)') /\ ~In(k)' => k \in Range(ended')
    BY <1>1, <1>3, <1>6 DEF MediaInv, NamesInv, Queued
  <2> QED
    BY <2>1, <2>2, <2>3, <2>4, <2>6, <2>7, <2>8 DEF NamesInv
<1>9. Found.list = list /\ Found.matched = matched /\ Found.quiesced = quiesced
      /\ Found.skipped = skipped /\ Found.busy = busy
  BY FoundIsFound DEF FoundIs
<1>10. early \subseteq Medium /\ early' \subseteq Medium /\ early \subseteq early' /\ early' \subseteq early \cup {m}
       /\ ioBusy \subseteq ioBusy'
  BY <1>1 DEF UnitInv, EarlyOn
<1>11. \A w \in Whole : unitOf[w] = unitOf[m] /\ m \in Whole => ~In(w)
  BY <1>1, WholesNamed DEF In
<1>12. EarlyOn'
  <2>1. \A w \in Whole \cap early' : In(w)' => w \in ioBusy'
    <3> SUFFICES ASSUME NEW w \in Whole \cap early', In(w)' PROVE w \in ioBusy'
      OBVIOUS
    <3>1. CASE w = m
      <4>1. ~Starting(m)
        BY <1>11, <3>1 DEF Starting, In
      <4> QED
        BY <1>1, <1>4, <3>1, <4>1
    <3>2. CASE w # m
      BY <1>3, <1>10, <3>2 DEF UnitInv, EarlyOn
    <3> QED
      BY <3>1, <3>2
  <2>2. \A k \in early' \ Whole : In(k)' => \E w \in Whole : unitOf[w] = unitOf[k] /\ In(w)'
    <3> SUFFICES ASSUME NEW k \in early' \ Whole, In(k)'
                 PROVE  \E w \in Whole : unitOf[w] = unitOf[k] /\ In(w)
      BY <1>3, MediaAssumption
    <3>1. CASE k = m
      BY <1>1, <3>1 DEF In
    <3>2. CASE k # m
      BY <1>3, <1>10, <3>2 DEF UnitInv, EarlyOn
    <3> QED
      BY <3>1, <3>2
  <2> QED
    BY <1>10, <2>1, <2>2 DEF EarlyOn
<1>13. \A w \in Whole \cap list : w \in Medium /\ w # m /\ (In(w)' <=> In(w)) /\ (w \in early' <=> w \in early)
  BY <1>3, <1>4, <1>10, MediaAssumption
<1>14. UnitsHold(Found)'
  <2>1. \A k \in skipped \cap early' : ~In(k)'
    <3>1. skipped \subseteq list /\ \A k \in skipped \cap early : ~In(k)
      BY <1>9 DEF UnitInv, UnitsHold
    <3> QED
      BY <1>3, <1>4, <1>10, <3>1
  <2>2. \A w \in Whole \cap list : In(w)' /\ (busy[w] = "no" \/ unitOf[w] \in quiesced) => w \notin early'
    BY <1>9, <1>13 DEF UnitInv, UnitsHold
  <2> QED
    BY <1>1, <1>9, <2>1, <2>2, FoundNext DEF UnitInv, UnitsHold
<1>15. EarlyListed(Found)'
  <2> SUFFICES ASSUME NEW w \in Whole \cap list, In(w)', busy[w] = "no" \/ unitOf[w] \in quiesced,
                      NEW k \in early' \ Whole, unitOf[k] = unitOf[w], In(k)'
               PROVE  k \in list
    BY <1>1, FoundNext DEF EarlyListed
  <2>1. In(w) /\ w \notin early
    BY <1>9, <1>13 DEF UnitInv, UnitsHold
  <2>2. CASE k = m
    <3>1. PICK v \in Whole : unitOf[v] = unitOf[m] /\ In(v) /\ v \in early
      BY <1>1, <1>4, <2>2 DEF Starting, In
    <3>2. v = w
      BY <2>1, <2>2, <3>1, WholesNamed DEF MediaInv, NamesInv, Twin
    <3> QED
      BY <2>1, <3>1, <3>2
  <2>3. CASE k # m
    BY <1>3, <1>9, <1>10, <2>1, <2>3 DEF UnitInv, EarlyListed
  <2> QED
    BY <2>2, <2>3
<1>16. EarlyAfter(Found)'
  <2>1. CASE list = {} /\ quiesced = {}
    BY <1>1, <2>1, FoundNext DEF EarlyAfter
  <2>2. CASE \A w \in Whole \ list : \A k \in early \ Whole : In(w) /\ In(k) /\ unitOf[k] = unitOf[w] =>
               \A i \in DOMAIN matched : matched[i] = k => \E h \in 1 .. i - 1 : matched[h] = w
    <3> SUFFICES ASSUME NEW w \in Whole \ list, NEW k \in early' \ Whole, In(w)', In(k)',
                        unitOf[k] = unitOf[w], NEW i \in DOMAIN matched', matched'[i] = k
                 PROVE  \E h \in 1 .. i - 1 : matched'[h] = w
      BY <1>1, FoundNext DEF EarlyAfter
    <3> DEFINE l == Len(matched)
    <3>1. /\ DOMAIN matched = 1 .. l /\ DOMAIN matched' = 1 .. l + 1 /\ l \in Nat
          /\ matched'[l + 1] = m /\ \A j \in 1 .. l : matched'[j] = matched[j]
      BY <1>1, <1>2, AppendFacts
    <3>2. w \in Medium /\ k \in Medium
      BY <1>10, MediaAssumption
    <3>3. w # m
      <4> SUFFICES ASSUME w = m PROVE FALSE
        OBVIOUS
      <4>1. k # m /\ k \in early /\ In(k)
        BY <1>3, <1>10, <3>2
      <4>2. \E v \in Whole : unitOf[v] = unitOf[k] /\ In(v)
        BY <4>1 DEF UnitInv, EarlyOn
      <4> QED
        BY <1>11, <4>2
    <3>4. In(w)
      BY <1>3, <3>2, <3>3
    <3>5. PICK h \in 1 .. l : matched[h] = w
      BY <3>1, <3>2, <3>4 DEF MediaInv, NamesInv, Queued, Range
    <3>6. CASE i = l + 1
      <4>1. h \in 1 .. i - 1 /\ matched'[h] = w
        BY <3>1, <3>5, <3>6
      <4> QED
        BY <4>1
    <3>7. CASE i \in 1 .. l
      <4>1. matched[i] = k
        BY <3>1, <3>7
      <4>2. k # m
        BY <1>4, <3>1, <3>7, <4>1 DEF Queued, Range
      <4>3. PICK g \in 1 .. i - 1 : matched[g] = w
        BY <1>3, <1>10, <2>2, <3>1, <3>2, <3>4, <3>7, <4>1, <4>2
      <4>4. matched'[g] = w
        BY <3>1, <3>7, <4>3
      <4> QED
        BY <4>3, <4>4
    <3> QED
      BY <3>1, <3>6, <3>7
  <2> QED
    BY <1>9, <2>1, <2>2 DEF UnitInv, EarlyAfter
<1>17. \A w \in Whole : In(w)' /\ FALSE \in Range(busyNews'[w]) => w \notin early'
  <2> SUFFICES ASSUME NEW w \in Whole, In(w)', FALSE \in Range(busyNews[w]) PROVE w \notin early'
    BY <1>1
  <2>1. w # m /\ w \in Medium
    BY <1>4, MediaAssumption
  <2> QED
    BY <1>3, <1>10, <2>1 DEF UnitInv
<1> QED
  BY <1>7, <1>8, <1>12, <1>14, <1>15, <1>16, <1>17 DEF MediaInv, UnitInv

\* A medium that is there is told of again.
LEMMA ReregisterKeeps ==
  ASSUME MediaInv, UnitInv, NEW m \in Medium, Reregister(m), UNCHANGED <<diskVars, stageVars>>
  PROVE  MediaInv' /\ UnitInv'
<1>1. /\ In(m) /\ matched' = Append(matched, m)
      /\ UNCHANGED <<registry, ioBusy, early, ended, busyNews, list, busy, quiesced, skipped, late>>
  BY DEF Reregister, diskVars, In
<1>2. registry \in [Medium -> {"out", "in", "leaving", "gone"}] /\ matched \in Seq(Medium)
  BY DEF MediaInv, MediaTypeOK
<1>3. \A k \in Medium : In(k)' <=> In(k)
  BY <1>1 DEF In
<1>4. Range(matched') = Range(matched) \cup {m}
  BY <1>1, <1>2, AppendFacts
<1>5. MediaTypeOK'
  <2>1. matched' \in Seq(Medium)
    BY <1>1, <1>2, AppendFacts
  <2>2. events' \in 0 .. MaxEvent
    BY MediaAssumption DEF Reregister, Happens, MediaInv, MediaTypeOK
  <2> QED
    BY <1>1, <2>1, <2>2 DEF MediaInv, MediaTypeOK, stageVars
<1>6. NamesInv'
  <2>1. Ordered(list, matched)'
    <3>1. \A k \in Medium : In(k)' => ~Twin(k, m)
      BY <1>1, <1>3 DEF MediaInv, NamesInv
    <3> QED
      BY <1>1, <1>2, <1>3, <3>1, OrderedAppend DEF MediaInv, NamesInv
  <2>2. \A k \in Medium : In(k) => k \in list' \/ Queued(k)'
    BY <1>1, <1>4 DEF MediaInv, NamesInv, Queued
  <2>3. \A k \in Medium : registry[k] = "out" =>
       /\ k \notin list' /\ ~Queued(k)' /\ k \notin Range(ended') /\ k \notin early'
       /\ Range(busyNews'[k]) = {}
    BY <1>1, <1>4 DEF MediaInv, NamesInv, Queued, In
  <2>4. \A k \in Medium \ late : (k \in list' \/ Queued(k)') /\ ~In(k) => k \in Range(ended)
    BY <1>1, <1>4 DEF MediaInv, NamesInv, Queued
  <2> QED
    BY <1>1, <1>3, <2>1, <2>2, <2>3, <2>4 DEF MediaInv, NamesInv
<1>7. Found.list = list /\ Found.matched = matched /\ Found.quiesced = quiesced
      /\ Found.skipped = skipped /\ Found.busy = busy
  BY FoundIsFound DEF FoundIs
<1>8. EarlyOn' /\ UnitsHold(Found)' /\ EarlyListed(Found)'
  <2>1. early \subseteq Medium /\ Whole \subseteq Medium
    BY MediaAssumption DEF UnitInv, EarlyOn
  <2>2. EarlyOn'
    BY <1>1, <1>3, <2>1 DEF UnitInv, EarlyOn
  <2>3. UnitsHold(Found)'
    BY <1>1, <1>3, <1>7, <2>1, FoundNext DEF UnitInv, UnitsHold
  <2>4. EarlyListed(Found)'
    BY <1>1, <1>3, <1>7, <2>1, FoundNext DEF UnitInv, EarlyListed
  <2> QED
    BY <2>2, <2>3, <2>4
<1>9. EarlyAfter(Found)'
  <2>1. CASE list = {} /\ quiesced = {}
    BY <1>1, <2>1, FoundNext DEF EarlyAfter
  <2>2. CASE \A w \in Whole \ list : \A k \in early \ Whole : In(w) /\ In(k) /\ unitOf[k] = unitOf[w] =>
               \A i \in DOMAIN matched : matched[i] = k => \E h \in 1 .. i - 1 : matched[h] = w
    <3> SUFFICES ASSUME NEW w \in Whole \ list, NEW k \in early \ Whole, In(w), In(k),
                        unitOf[k] = unitOf[w], NEW i \in DOMAIN matched', matched'[i] = k
                 PROVE  \E h \in 1 .. i - 1 : matched'[h] = w
      BY <1>1, FoundNext DEF EarlyAfter, In
    <3> DEFINE l == Len(matched)
    <3>1. /\ DOMAIN matched = 1 .. l /\ DOMAIN matched' = 1 .. l + 1 /\ l \in Nat
          /\ matched'[l + 1] = m /\ \A j \in 1 .. l : matched'[j] = matched[j]
      BY <1>1, <1>2, AppendFacts
    <3>2. w \in Medium
      BY MediaAssumption
    <3>3. PICK h \in 1 .. l : matched[h] = w
      BY <3>1, <3>2 DEF MediaInv, NamesInv, Queued, Range
    <3>4. CASE i = l + 1
      <4>1. h \in 1 .. i - 1 /\ matched'[h] = w
        BY <3>1, <3>3, <3>4
      <4> QED
        BY <4>1
    <3>5. CASE i \in 1 .. l
      <4>1. matched[i] = k
        BY <3>1, <3>5
      <4>2. PICK g \in 1 .. i - 1 : matched[g] = w
        BY <2>2, <3>1, <3>5, <4>1
      <4>3. matched'[g] = w
        BY <3>1, <3>5, <4>2
      <4> QED
        BY <4>2, <4>3
    <3> QED
      BY <3>1, <3>4, <3>5
  <2> QED
    BY <1>7, <2>1, <2>2 DEF UnitInv, EarlyAfter
<1>10. \A w \in Whole : In(w)' /\ FALSE \in Range(busyNews'[w]) => w \notin early'
  BY <1>1, <1>3, MediaAssumption DEF UnitInv
<1> QED
  BY <1>5, <1>6, <1>8, <1>9, <1>10 DEF MediaInv, UnitInv

\* The lists stay, and the registry too but for media that are detached.
LEMMA NamesLess ==
  ASSUME MediaInv, UNCHANGED <<list, matched, ended, late>>, early' \subseteq early,
         \A k \in Medium : registry'[k] = registry[k] \/ (registry[k] = "leaving" /\ registry'[k] = "gone"),
         \A k \in Medium : registry[k] = "out" => Range(busyNews'[k]) = {}
  PROVE  NamesInv'
<1>1. \A k \in Medium : (In(k)' <=> In(k)) /\ (registry'[k] = "out" <=> registry[k] = "out")
                        /\ (registry[k] \in {"leaving", "gone"} => registry'[k] \in {"leaving", "gone"})
  BY DEF In
<1>2. Ordered(list, matched)'
  BY <1>1, OrderedLess DEF MediaInv, NamesInv
<1>3. \A k \in Range(ended) \cup late : k \in Medium
  BY DEF MediaInv, MediaTypeOK, Range
<1> QED
  BY <1>1, <1>2, <1>3 DEF MediaInv, NamesInv, Queued

\* A message is told only of a medium with a disk.
LEMMA TellFacts ==
  ASSUME MediaInv, NEW m \in Medium, NEW b \in BOOLEAN, Tell(m, b)
  PROVE  /\ busyNews' \in [Medium -> Seq(BOOLEAN)]
         /\ \A k \in Medium : Range(busyNews'[k]) \subseteq
              Range(busyNews[k]) \cup {c \in {b} : k = m /\ m \in list}
<1>1. busyNews \in [Medium -> Seq(BOOLEAN)] /\ busyNews[m] \in Seq(BOOLEAN)
  BY DEF MediaInv, MediaTypeOK
<1>2. CASE m \notin list
  BY <1>1, <1>2 DEF Tell
<1>3. CASE m \in list
  <2>1. busyNews' = [busyNews EXCEPT ![m] = Append(busyNews[m], b)]
    BY <1>3 DEF Tell
  <2>2. Append(busyNews[m], b) \in Seq(BOOLEAN) /\ Range(Append(busyNews[m], b)) = Range(busyNews[m]) \cup {b}
    BY <1>1, AppendFacts
  <2> QED
    BY <1>1, <1>3, <2>1, <2>2
<1> QED
  BY <1>2, <1>3

\* A device is calm: what is early on it has been published before.
LEMMA CalmKeeps ==
  ASSUME MediaInv, UnitInv, NEW m \in Medium, Calm(m), UNCHANGED <<diskVars, stageVars>>
  PROVE  MediaInv' /\ UnitInv'
<1>1. /\ m \in ioBusy /\ ioBusy' = ioBusy \ {m} /\ Tell(m, FALSE) /\ early' = early \ (Whole \cap {m})
      /\ UNCHANGED <<registry, matched, ended, events, list, busy, quiesced, skipped, late>>
      /\ UNCHANGED stageVars
  BY DEF Calm, diskVars
<1>2. /\ busyNews' \in [Medium -> Seq(BOOLEAN)]
      /\ \A k \in Medium : Range(busyNews'[k]) \subseteq
           Range(busyNews[k]) \cup {c \in {FALSE} : k = m /\ m \in list}
  BY <1>1, TellFacts
<1>3. MediaTypeOK'
  BY <1>1, <1>2 DEF MediaInv, MediaTypeOK, stageVars
<1>4. \A k \in Medium : registry[k] = "out" => Range(busyNews'[k]) = {}
  BY <1>2 DEF MediaInv, NamesInv
<1>5. NamesInv'
  BY <1>1, <1>4, NamesLess
<1>6. \A k : In(k)' <=> In(k)
  BY <1>1 DEF In
<1>7. (UnitsHold(Found) /\ EarlyListed(Found) /\ EarlyAfter(Found))'
  BY <1>1, <1>6, UnitsLess
<1>8. EarlyOn'
  BY <1>1, <1>6 DEF UnitInv, EarlyOn
<1>9. \A w \in Whole : In(w)' /\ FALSE \in Range(busyNews'[w]) => w \notin early'
  BY <1>1, <1>2, <1>6, MediaAssumption DEF UnitInv
<1> QED
  BY <1>3, <1>5, <1>7, <1>8, <1>9 DEF MediaInv, UnitInv

\* A medium is busy again.
LEMMA StirKeeps ==
  ASSUME MediaInv, UnitInv, NEW m \in Medium, Stir(m), UNCHANGED <<diskVars, stageVars>>
  PROVE  MediaInv' /\ UnitInv'
<1>1. /\ In(m) /\ ioBusy' = ioBusy \cup {m} /\ Tell(m, TRUE)
      /\ UNCHANGED <<registry, matched, ended, early, list, busy, quiesced, skipped, late>>
      /\ UNCHANGED stageVars
  BY DEF Stir, diskVars, In
<1>2. /\ busyNews' \in [Medium -> Seq(BOOLEAN)]
      /\ \A k \in Medium : Range(busyNews'[k]) \subseteq
           Range(busyNews[k]) \cup {c \in {TRUE} : k = m /\ m \in list}
  BY <1>1, TellFacts
<1>3. MediaTypeOK'
  <2>1. events' \in 0 .. MaxEvent
    BY MediaAssumption DEF Stir, Happens, MediaInv, MediaTypeOK
  <2> QED
    BY <1>1, <1>2, <2>1 DEF MediaInv, MediaTypeOK, stageVars
<1>4. \A k \in Medium : registry[k] = "out" => Range(busyNews'[k]) = {}
  BY <1>1, <1>2 DEF MediaInv, NamesInv, In
<1>5. NamesInv'
  BY <1>1, <1>4, NamesLess
<1>6. \A k : In(k)' <=> In(k)
  BY <1>1 DEF In
<1>7. (UnitsHold(Found) /\ EarlyListed(Found) /\ EarlyAfter(Found))'
  BY <1>1, <1>6, UnitsLess
<1>8. EarlyOn'
  BY <1>1, <1>6 DEF UnitInv, EarlyOn
<1>9. \A w \in Whole : In(w)' /\ FALSE \in Range(busyNews'[w]) => w \notin early'
  BY <1>1, <1>2, <1>6, MediaAssumption DEF UnitInv
<1> QED
  BY <1>3, <1>5, <1>7, <1>8, <1>9 DEF MediaInv, UnitInv

\* A medium is terminated, and its name is free.
LEMMA TerminateKeeps ==
  ASSUME MediaInv, UnitInv, NEW m \in Medium, Terminate(m), UNCHANGED <<diskVars, stageVars>>
  PROVE  MediaInv' /\ UnitInv'
<1>1. /\ registry[m] = "in" /\ registry' = [registry EXCEPT ![m] = "leaving"]
      /\ m \in Whole => \A n \in Medium \ Whole : unitOf[n] = unitOf[m] => registry[n] # "in"
      /\ ended' = Append(ended, m)
      /\ UNCHANGED <<ioBusy, matched, busyNews, early, list, busy, quiesced, skipped, late>>
      /\ UNCHANGED stageVars
  BY DEF Terminate, diskVars
<1>2. registry \in [Medium -> {"out", "in", "leaving", "gone"}] /\ ended \in Seq(Medium)
  BY DEF MediaInv, MediaTypeOK
<1>3. ended' \in Seq(Medium) /\ Range(ended') = Range(ended) \cup {m}
  BY <1>1, <1>2, AppendFacts
<1>4. MediaTypeOK'
  <2>1. events' \in 0 .. MaxEvent
    BY MediaAssumption DEF Terminate, Happens, MediaInv, MediaTypeOK
  <2> QED
    BY <1>1, <1>2, <1>3, <2>1 DEF MediaInv, MediaTypeOK, stageVars
<1>5. \A k \in Medium : (In(k)' <=> In(k) /\ k # m) /\ (registry'[k] = "out" <=> registry[k] = "out")
                        /\ (k # m => registry'[k] = registry[k]) /\ registry'[m] = "leaving"
  BY <1>1, <1>2 DEF In
<1>6. NamesInv'
  <2>1. Ordered(list, matched)'
    BY <1>1, <1>5, OrderedLess DEF MediaInv, NamesInv
  <2>2. \A k \in Range(ended') \cup late' : registry'[k] \in {"leaving", "gone"}
    <3>1. \A k \in Range(ended) \cup late : k \in Medium
      BY DEF MediaInv, MediaTypeOK, Range
    <3> QED
      BY <1>1, <1>3, <1>5, <3>1 DEF MediaInv, NamesInv
  <2>3. \A k \in Medium : registry'[k] = "out" =>
       /\ k \notin list' /\ ~Queued(k)' /\ k \notin Range(ended') /\ k \notin early'
       /\ Range(busyNews'[k]) = {}
    BY <1>1, <1>3, <1>5 DEF MediaInv, NamesInv, Queued
  <2>4. \A k \in Medium \ late : (k \in list' \/ Queued(k)') /\ ~In(k)' => k \in Range(ended')
    BY <1>1, <1>3, <1>5 DEF MediaInv, NamesInv, Queued
  <2>5. /\ Named(list') /\ \A k, n \in Medium : In(k)' /\ In(n)' => ~Twin(k, n)
        /\ \A k \in Medium : In(k)' => k \in list' \/ Queued(k)'
    BY <1>1, <1>5 DEF MediaInv, NamesInv, Queued
  <2> QED
    BY <1>1, <2>1, <2>2, <2>3, <2>4, <2>5 DEF NamesInv
<1>7. (UnitsHold(Found) /\ EarlyListed(Found) /\ EarlyAfter(Found))'
  BY <1>1, <1>5, UnitsLess
<1>8. EarlyOn'
  <2>1. early \subseteq Medium /\ Whole \subseteq Medium
    BY MediaAssumption DEF UnitInv, EarlyOn
  <2>2. ASSUME NEW k \in early \ Whole, In(k)' PROVE \E w \in Whole : unitOf[w] = unitOf[k] /\ In(w)'
    <3>1. In(k) /\ k \in Medium \ Whole
      BY <1>5, <2>1, <2>2
    <3>2. PICK w \in Whole : unitOf[w] = unitOf[k] /\ In(w)
      BY <3>1 DEF UnitInv, EarlyOn
    <3>3. w # m
      BY <1>1, <3>1, <3>2 DEF In
    <3> QED
      BY <1>5, <2>1, <3>2, <3>3
  <2>3. \A w \in Whole \cap early : In(w)' => w \in ioBusy
    BY <1>5, <2>1 DEF UnitInv, EarlyOn
  <2> QED
    BY <1>1, <2>1, <2>2, <2>3 DEF EarlyOn
<1>9. \A w \in Whole : In(w)' /\ FALSE \in Range(busyNews'[w]) => w \notin early'
  BY <1>1, <1>5, MediaAssumption DEF UnitInv
<1> QED
  BY <1>4, <1>6, <1>7, <1>8, <1>9 DEF MediaInv, UnitInv

\* A medium is detached.
LEMMA DetachKeeps ==
  ASSUME MediaInv, UnitInv, NEW m \in Medium, Detach(m), UNCHANGED <<diskVars, stageVars>>
  PROVE  MediaInv' /\ UnitInv'
<1>1. /\ registry[m] = "leaving" /\ registry' = [registry EXCEPT ![m] = "gone"] /\ ioBusy' = ioBusy \ {m}
      /\ UNCHANGED <<matched, ended, busyNews, events, early, list, busy, quiesced, skipped, late>>
      /\ UNCHANGED stageVars
  BY DEF Detach, diskVars
<1>2. registry \in [Medium -> {"out", "in", "leaving", "gone"}]
  BY DEF MediaInv, MediaTypeOK
<1>3. MediaTypeOK'
  BY <1>1, <1>2 DEF MediaInv, MediaTypeOK, stageVars
<1>4. \A k \in Medium : registry'[k] = registry[k] \/ (registry[k] = "leaving" /\ registry'[k] = "gone")
  BY <1>1, <1>2
<1>5. NamesInv'
  BY <1>1, <1>4, NamesLess DEF MediaInv, NamesInv
<1>6. (\A k \in Medium : In(k)' <=> In(k)) /\ ~In(m)
  BY <1>1, <1>4 DEF In
<1>7. (UnitsHold(Found) /\ EarlyListed(Found) /\ EarlyAfter(Found))'
  BY <1>1, <1>6, UnitsLess
<1>8. EarlyOn'
  BY <1>1, <1>6, MediaAssumption DEF UnitInv, EarlyOn
<1>9. \A w \in Whole : In(w)' /\ FALSE \in Range(busyNews'[w]) => w \notin early'
  BY <1>1, <1>6, MediaAssumption DEF UnitInv
<1> QED
  BY <1>3, <1>5, <1>7, <1>8, <1>9 DEF MediaInv, UnitInv

-----------------------------------------------------------------------------
(* Every step keeps the lists                                              *)

\* What is left alone by what is no news of media.
mediaLists == <<registry, ioBusy, matched, ended, busyNews, early, diskVars>>

\* No news of media.
LEMMA MediaSame ==
  ASSUME MediaInv, UnitInv, UNCHANGED mediaLists,
         timers' \subseteq Medium, signal' \in BOOLEAN, idle' \in BOOLEAN, events' \in 0 .. MaxEvent
  PROVE  MediaInv' /\ UnitInv'
<1>1. UNCHANGED <<registry, ioBusy, matched, ended, busyNews, early, list, busy, quiesced, skipped, late>>
  BY DEF mediaLists, diskVars
<1>2. MediaTypeOK'
  BY <1>1 DEF MediaInv, MediaTypeOK
<1>3. NamesInv'
  BY <1>1, NamesLess DEF MediaInv, NamesInv
<1>4. \A k : In(k)' <=> In(k)
  BY <1>1 DEF In
<1>5. (UnitsHold(Found) /\ EarlyListed(Found) /\ EarlyAfter(Found))'
  BY <1>1, <1>4, UnitsLess
<1>6. EarlyOn'
  BY <1>1, <1>4 DEF UnitInv, EarlyOn
<1> QED
  BY <1>1, <1>2, <1>3, <1>4, <1>5, <1>6 DEF MediaInv, UnitInv

\* A disk is busy for too long.
LEMMA OverdueKeeps ==
  ASSUME MediaInv, UnitInv, NEW m \in Medium, Overdue(m)
  PROVE  MediaInv' /\ UnitInv'
<1>1. /\ busy' = [busy EXCEPT ![m] = "overdue"]
      /\ UNCHANGED <<registry, ioBusy, matched, ended, busyNews, early, list, quiesced, skipped, late,
                     events, timers, signal, idle>>
  BY DEF Overdue, kernelVars, stageVars
<1>2. busy \in [Medium -> {"no", "busy", "overdue"}]
  BY DEF MediaInv, MediaTypeOK
<1>3. MediaTypeOK'
  BY <1>1, <1>2 DEF MediaInv, MediaTypeOK
<1>4. NamesInv'
  BY <1>1, NamesLess DEF MediaInv, NamesInv
<1>5. \A k : In(k)' <=> In(k)
  BY <1>1 DEF In
<1>6. (UnitsHold(Found) /\ EarlyListed(Found) /\ EarlyAfter(Found))'
  BY <1>1, <1>2, <1>5, UnitsLess
<1>7. EarlyOn'
  BY <1>1, <1>5 DEF UnitInv, EarlyOn
<1> QED
  BY <1>1, <1>3, <1>4, <1>5, <1>6, <1>7 DEF MediaInv, UnitInv

\* The end of a pass: a unit is quiesced whose whole disk is not busy.
LEMMA DispatchKeeps ==
  ASSUME MediaInv, UnitInv, NEW q \in BOOLEAN, Dispatch(q)
  PROVE  MediaInv' /\ UnitInv'
<1> DEFINE Quiet == {unitOf[m] : m \in {n \in list \cap Whole : busy[n] = "no"}}
<1>1. /\ quiesced' = quiesced \cup Quiet
      /\ UNCHANGED <<registry, ioBusy, matched, ended, busyNews, early, list, busy, skipped, late, events>>
      /\ signal' = FALSE /\ idle' \in BOOLEAN
      /\ timers' = timers \/ \E m \in Waiting : timers' = timers \cup {m}
  BY DEF Dispatch, kernelVars, Armed, MediaInv, MediaTypeOK
<1>2. list \subseteq Medium /\ Whole \subseteq Medium /\ Waiting \subseteq Medium
  BY MediaAssumption DEF MediaInv, MediaTypeOK, Waiting
<1>3. MediaTypeOK'
  <2>1. Quiet \subseteq Unit
    BY <1>2 DEF Unit
  <2>2. timers' \subseteq Medium
    BY <1>1, <1>2 DEF MediaInv, MediaTypeOK
  <2> QED
    BY <1>1, <2>1, <2>2 DEF MediaInv, MediaTypeOK
<1>4. NamesInv'
  BY <1>1, NamesLess DEF MediaInv, NamesInv
<1>5. \A k : In(k)' <=> In(k)
  BY <1>1 DEF In
<1>6. \A w \in Whole \cap list : unitOf[w] \in quiesced' => unitOf[w] \in quiesced \/ busy[w] = "no"
  <2> SUFFICES ASSUME NEW w \in Whole \cap list, NEW v \in list \cap Whole, busy[v] = "no", unitOf[w] = unitOf[v]
               PROVE  busy[w] = "no"
    BY <1>1
  <2>1. w = v
    BY WholesNamed DEF MediaInv, NamesInv, Named
  <2> QED
    BY <2>1
<1>7. Found.list = list /\ Found.matched = matched /\ Found.quiesced = quiesced
      /\ Found.skipped = skipped /\ Found.busy = busy
  BY FoundIsFound DEF FoundIs
<1>8. UnitsHold(Found)'
  <2>1. \A u \in quiesced' : \E w \in Whole \cap list : unitOf[w] = u
    BY <1>1, <1>7 DEF UnitInv, UnitsHold
  <2> QED
    BY <1>1, <1>5, <1>6, <1>7, <2>1, FoundNext DEF UnitInv, UnitsHold
<1>9. EarlyListed(Found)'
  BY <1>1, <1>5, <1>6, <1>7, FoundNext DEF UnitInv, EarlyListed
<1>10. EarlyAfter(Found)'
  <2>1. list = {} => Quiet = {}
    OBVIOUS
  <2> QED
    BY <1>1, <1>5, <1>7, <2>1, FoundNext DEF UnitInv, EarlyAfter
<1>11. EarlyOn'
  BY <1>1, <1>5 DEF UnitInv, EarlyOn
<1> QED
  BY <1>1, <1>3, <1>4, <1>5, <1>8, <1>9, <1>10, <1>11 DEF MediaInv, UnitInv

\* The three callbacks.
LEMMA CallbacksKeep ==
  ASSUME MediaInv, UnitInv, MediaAppeared \/ MediaDisappeared \/ \E m \in Medium : HearsBusy(m)
  PROVE  MediaInv' /\ UnitInv'
<1>1. ended \in Seq(Medium) /\ timers \subseteq Medium /\ signal \in BOOLEAN /\ idle \in BOOLEAN
  BY DEF MediaInv, MediaTypeOK
<1>2. CASE MediaAppeared
  <2>1. Leaves(Appearances) /\ ended' = ended /\ Result(Appearances, 0)
    BY <1>2, AppearancesResult DEF MediaAppeared
  <2> QED
    BY <1>1, <1>2, <2>1, ResultNames, ResultUnits, ResultTypes DEF MediaInv, MediaAppeared, Signals
<1>3. CASE MediaDisappeared
  <2>1. Leaves(Disappearances) /\ ended' = <<>> /\ Result(Disappearances, Len(ended))
    BY <1>3, DisappearancesResult DEF MediaDisappeared
  <2>2. NamesInv' /\ UnitInv'
    BY <2>1, ResultNames, ResultUnits
  <2>3. timers' \subseteq Medium /\ signal' \in BOOLEAN /\ idle' \in BOOLEAN /\ ended' \in Seq(Medium)
    <3>1. ended' = <<>> /\ timers' = timers /\ signal' = TRUE /\ idle' = FALSE
      BY <1>3 DEF MediaDisappeared, Signals
    <3>2. <<>> \in Seq(Medium)
      OBVIOUS
    <3>3. ended' \in Seq(Medium)
      BY <3>1, <3>2, Zenon
    <3> QED
      BY <1>1, <3>1, <3>3
  <2> QED
    BY <2>1, <2>2, <2>3, ResultTypes DEF MediaInv
<1>4. ASSUME NEW m \in Medium, HearsBusy(m) PROVE MediaInv' /\ UnitInv'
  <2>1. Leaves(Heard(m)) /\ ended' = ended /\ Result(Heard(m), 0)
    BY <1>4, HeardResult DEF HearsBusy
  <2>2. timers' \subseteq Medium /\ signal' \in BOOLEAN /\ idle' \in BOOLEAN
    BY <1>1, <1>4 DEF HearsBusy, Signals, stageVars
  <2> QED
    BY <1>1, <2>1, <2>2, ResultNames, ResultUnits, ResultTypes DEF MediaInv
<1> QED
  BY <1>2, <1>3, <1>4

\* What is there when the daemon starts.
LEMMA MediaInvInit ==
  ASSUME Init
  PROVE  MediaInv /\ UnitInv
<1>1. /\ registry = [m \in Medium |-> IF m \in Range(Present) THEN "in" ELSE "out"]
      /\ ioBusy = Restless \cap Range(Present)
      /\ matched = Present /\ ended = <<>> /\ busyNews = [m \in Medium |-> <<>>]
      /\ list = {} /\ busy = [m \in Medium |-> "no"]
      /\ quiesced = {} /\ skipped = {} /\ timers = {}
      /\ signal = FALSE /\ idle = TRUE
      /\ events = 0 /\ late = {}
      /\ early = {m \in Range(Present) : \E w \in Whole \cap ioBusy : unitOf[w] = unitOf[m]}
  BY DEF Init, MediaInit
<1>2. /\ Present \in Seq(Medium) /\ \A m, n \in Range(Present) : idOf[m] = idOf[n] => m = n
      /\ \A i, j \in DOMAIN Present : Present[i] = Present[j] => i = j
      /\ Whole \subseteq Medium /\ MaxEvent \in Nat
  BY MediaAssumption DEF IsInjective
<1>3. Range(Present) \subseteq Medium /\ \A i \in DOMAIN Present : i \in Int
  BY <1>2 DEF Range
<1>4. MediaTypeOK
  <2>1. registry \in [Medium -> {"out", "in", "leaving", "gone"}]
    BY <1>1
  <2>2. busyNews \in [Medium -> Seq(BOOLEAN)] /\ busy \in [Medium -> {"no", "busy", "overdue"}]
    BY <1>1
  <2>3. matched \in Seq(Medium) /\ ended \in Seq(Medium) /\ ioBusy \subseteq Medium /\ early \subseteq Medium
    BY <1>1, <1>2, <1>3
  <2>4. events \in 0 .. MaxEvent
    BY <1>1, <1>2
  <2> QED
    BY <1>1, <2>1, <2>2, <2>3, <2>4 DEF MediaTypeOK
<1>5. \A m \in Medium : In(m) <=> m \in Range(Present)
  BY <1>1 DEF In
<1>6. \A m, n \in Range(Present) : ~Twin(m, n)
  BY <1>2 DEF Twin
<1>7. \A i \in DOMAIN matched : matched[i] \in Range(Present)
  BY <1>1 DEF Range
<1>8. Ordered(list, matched)
  BY <1>1, <1>5, <1>6, <1>7 DEF Ordered
<1>9. NamesInv
  BY <1>1, <1>3, <1>5, <1>6, <1>8, EmptyRange DEF NamesInv, Named, Queued
<1>10. Found.list = {} /\ Found.matched = matched /\ Found.quiesced = {}
      /\ Found.skipped = {} /\ Found.busy = busy
  BY <1>1, FoundIsFound DEF FoundIs
<1>11. UnitsHold(Found) /\ EarlyListed(Found) /\ EarlyAfter(Found)
  BY <1>10 DEF UnitsHold, EarlyListed, EarlyAfter
<1>12. EarlyOn
  <2>1. early \subseteq Medium /\ Whole \cap ioBusy \subseteq Range(Present) /\ ioBusy \subseteq Medium
    BY <1>1, <1>3
  <2>2. ASSUME NEW w \in Whole \cap early PROVE w \in ioBusy
    <3>1. w \in Range(Present)
      BY <1>1
    <3>2. PICK v \in Whole \cap ioBusy : unitOf[v] = unitOf[w]
      BY <1>1
    <3>3. idOf[v] = idOf[w]
      BY <3>2, WholesNamed
    <3>4. v = w
      BY <1>2, <2>1, <3>1, <3>3
    <3> QED
      BY <3>2, <3>4
  <2>3. ASSUME NEW m \in early \ Whole PROVE \E w \in Whole : unitOf[w] = unitOf[m] /\ In(w)
    <3>1. PICK v \in Whole \cap ioBusy : unitOf[v] = unitOf[m]
      BY <1>1
    <3>2. In(v)
      BY <1>2, <1>5, <2>1
    <3> QED
      BY <3>1, <3>2
  <2> QED
    BY <2>1, <2>2, <2>3 DEF EarlyOn
<1>13. \A w \in Whole : FALSE \notin Range(busyNews[w])
  BY <1>1, <1>2, EmptyRange
<1> QED
  BY <1>4, <1>9, <1>11, <1>12, <1>13 DEF MediaInv, UnitInv

\* One step for each action.
LEMMA MediaInvNext ==
  ASSUME MediaInv, UnitInv, [Next]_vars
  PROVE  MediaInv' /\ UnitInv'
<1>1. timers \subseteq Medium /\ signal \in BOOLEAN /\ idle \in BOOLEAN /\ events \in 0 .. MaxEvent
  BY DEF MediaInv, MediaTypeOK
<1>2. CASE Happens /\ UNCHANGED mediaLists /\ UNCHANGED stageVars
  <2>1. events' \in 0 .. MaxEvent
    BY <1>1, <1>2, MediaAssumption DEF Happens
  <2> QED
    BY <1>1, <1>2, <2>1, MediaSame DEF stageVars
<1>3. CASE UNCHANGED mediaLists /\ events' = events /\ (UNCHANGED stageVars \/ Signals)
  BY <1>1, <1>3, MediaSame DEF stageVars, Signals
<1>4. ASSUME UNCHANGED kernelVars, UNCHANGED diskVars PROVE UNCHANGED mediaLists /\ events' = events
  BY <1>4 DEF kernelVars, mediaLists
<1>5. CASE _DAConfigurationCallback \/ \E u \in User : SystemUIServer(u)
  <2>1. ASSUME NEW c \in BOOLEAN, Configuration(c) PROVE MediaInv' /\ UnitInv'
    BY <1>3, <1>4, <2>1 DEF Configuration
  <2>2. CASE UNCHANGED mediaVars
    BY <1>3, <1>4, <2>2 DEF mediaVars
  <2> QED
    BY <1>5, <2>1, <2>2 DEF _DAConfigurationCallback, SystemUIServer
<1>6. CASE \E m \in Volume : Probe(m) \/ StageMount(m)
  BY <1>3, <1>4, <1>6 DEF Probe, StageMount
<1>7. CASE \E m \in Medium : Begin(m) \/ Done(m)
  BY <1>3, <1>4, <1>7 DEF Begin, Done
<1>8. CASE Pass
  <2>1. AtRest \in BOOLEAN
    BY DEF AtRest
  <2> QED
    BY <1>8, <2>1, DispatchKeeps DEF Pass
<1>9. CASE Work
  BY <1>5, <1>6, <1>7, <1>8, <1>9, CallbacksKeep DEF Work
<1>10. CASE TimePasses
  BY <1>10, OverdueKeeps DEF TimePasses
<1>11. CASE TimersFire
  <2>1. PICK m \in Medium : TimerFires(m)
    BY <1>11 DEF TimersFire
  <2>2. UNCHANGED mediaLists /\ events' = events
    BY <1>4, <2>1 DEF TimerFires
  <2> QED
    BY <1>1, <2>1, <2>2, MediaSame DEF TimerFires
<1>12. CASE Kernel
  BY <1>12, PublishKeeps, ReregisterKeeps, CalmKeeps, StirKeeps, TerminateKeeps, DetachKeeps DEF Kernel
<1>13. CASE Console
  <2>1. UNCHANGED mediaLists /\ UNCHANGED stageVars
    BY <1>13 DEF Console, mediaLists
  <2>2. Happens \/ events' = events
    BY <1>13 DEF Console, Login, LoginDone, SwitchOut, SwitchTo, Leave, Left, Changes
  <2> QED
    BY <1>2, <1>3, <2>1, <2>2
<1>14. CASE UNCHANGED vars
  BY <1>3, <1>4, <1>14 DEF vars, mediaVars
<1> QED
  BY <1>9, <1>10, <1>11, <1>12, <1>13, <1>14 DEF Next

\* The invariant of the lists and of the units.
LEMMA MediaInvariant == Spec => [](MediaInv /\ UnitInv)
<1>1. Init => MediaInv /\ UnitInv
  BY MediaInvInit
<1>2. (MediaInv /\ UnitInv) /\ [Next]_vars => (MediaInv /\ UnitInv)'
  BY MediaInvNext
<1> QED
  BY <1>1, <1>2, PTL DEF Spec

\* When _DAMediaAppearedCallback and _DAMediaDisappearedCallback have taken all news,
\* gDADiskList has the media that are there; and no two disks a name in common.
THEOREM TheListIsTrue == Spec => []ListTrue
<1>1. MediaInv => ListTrue
  <2> SUFFICES ASSUME MediaInv PROVE ListTrue
    OBVIOUS
  <2>1. \A m, n \in list : idOf[m] = idOf[n] => m = n
    BY DEF MediaInv, NamesInv, Named
  <2>2. ASSUME matched = <<>>, ended = <<>>
        PROVE  list \ late = {m \in Medium \ late : registry[m] = "in"}
    <3>1. \A m : ~Queued(m) /\ m \notin Range(ended)
      BY <2>2, EmptyRange DEF Queued
    <3> QED
      BY <3>1 DEF MediaInv, NamesInv, MediaTypeOK, In
  <2> QED
    BY <2>1, <2>2 DEF ListTrue
<1> QED
  BY <1>1, MediaInvariant, PTL

\* What was published before its device was calm for the first time is not taken for
\* a volume that was added later: __DAMediaBusyStateChangedCallback takes the media
\* that appeared before the unit can be quiesced (DAServer.c).
THEOREM WhatIsEarlyComesUp == Spec => []EarlyComesUp
<1>1. UnitInv => EarlyComesUp
  BY FoundIsFound DEF FoundIs, UnitInv, UnitsHold, EarlyComesUp, In
<1> QED
  BY <1>1, MediaInvariant, PTL

-----------------------------------------------------------------------------
(* The requests for a volume                                               *)

\* A request is at the end of the queue if there is reason for it.
LEMMA IfAppends ==
  ASSUME NEW b, NEW r \in Request, NEW q \in Seq(Request)
  PROVE  /\ q \o If(b, r) = IF b THEN Append(q, r) ELSE q
         /\ q \o If(b, r) \in Seq(Request)
<1>1. CASE b
  <2>1. q \o <<r>> = Append(q, r) /\ Append(q, r) \in Seq(Request)
    BY AppendProperties, ConcatProperties
  <2> QED
    BY <1>1, <2>1 DEF If
<1>2. CASE ~b
  <2>1. q \o <<>> = q
    BY ConcatEmptySeq
  <2> QED
    BY <1>2, <2>1 DEF If
<1> QED
  BY <1>1, <1>2

\* The volume is to be unmounted, and not to be mounted again.
ToGoDown(q) ==
  \E i \in DOMAIN q : q[i] = "unmount" /\ \A j \in DOMAIN q : i < j => q[j] # "mount"

LEMMA ToGoDownIf ==
  ASSUME NEW b, NEW r \in Request, NEW q \in Seq(Request), ToGoDown(q \o If(b, r))
  PROVE  (b /\ r = "unmount") \/ (ToGoDown(q) /\ ~(b /\ r = "mount"))
<1>1. CASE b
  <2> DEFINE p == Append(q, r)
             l == Len(q)
  <2>1. p = q \o If(b, r)
    BY <1>1, IfAppends
  <2>2. /\ DOMAIN q = 1 .. l /\ DOMAIN p = 1 .. l + 1 /\ l \in Nat
        /\ p[l + 1] = r /\ \A i \in 1 .. l : p[i] = q[i]
    BY AppendFacts
  <2>3. ToGoDown(p)
    BY <2>1
  <2> HIDE DEF p, l
  <2>4. PICK i \in DOMAIN p : p[i] = "unmount" /\ \A j \in DOMAIN p : i < j => p[j] # "mount"
    BY <2>3 DEF ToGoDown
  <2>5. CASE i = l + 1
    BY <1>1, <2>2, <2>4, <2>5
  <2>6. CASE i \in 1 .. l
    <3>1. r # "mount"
      <4>1. l + 1 \in DOMAIN p /\ i < l + 1
        BY <2>2, <2>6
      <4> QED
        BY <2>2, <2>4, <4>1
    <3>2. \A j \in DOMAIN q : j \in DOMAIN p /\ p[j] = q[j]
      BY <2>2
    <3>3. i \in DOMAIN q
      BY <2>2, <2>6
    <3>4. ToGoDown(q)
      BY <2>4, <3>2, <3>3 DEF ToGoDown
    <3> QED
      BY <3>1, <3>4
  <2> QED
    BY <2>2, <2>5, <2>6
<1>2. CASE ~b
  BY <1>2, IfAppends
<1> QED
  BY <1>1, <1>2

\* The queue q, with r at its end if there is reason for it, is p.
Asks(q, b, r, p) ==
  /\ p \in Seq(Request) /\ (\A x : x \in Range(p) <=> (x \in Range(q) \/ (b /\ x = r)))
  /\ ToGoDown(p) => ((b /\ r = "unmount") \/ (ToGoDown(q) /\ ~(b /\ r = "mount")))
  /\ ~b => p = q

\* A request that there is reason for is asked for.
LEMMA IfAsks ==
  ASSUME NEW b, NEW r \in Request, NEW q \in Seq(Request), NEW p, p = q \o If(b, r)
  PROVE  Asks(q, b, r, p)
<1>1. ToGoDown(p) => ((b /\ r = "unmount") \/ (ToGoDown(q) /\ ~(b /\ r = "mount")))
  BY ToGoDownIf
<1>2. CASE b
  <2>1. p = Append(q, r)
    BY <1>2, IfAppends
  <2>2. p \in Seq(Request) /\ Range(p) = Range(q) \cup {r}
    BY <2>1, AppendFacts
  <2>3. \A x : x \in Range(p) <=> (x \in Range(q) \/ (b /\ x = r))
    BY <1>2, <2>2
  <2> QED
    BY <1>1, <1>2, <2>2, <2>3 DEF Asks
<1>3. CASE ~b
  <2>1. p = q
    BY <1>3, IfAppends
  <2> QED
    BY <1>1, <1>3, <2>1 DEF Asks
<1> QED
  BY <1>2, <1>3

\* The first of a queue is taken.
LEMMA TailFacts ==
  ASSUME NEW T, NEW q \in Seq(T), q # <<>>
  PROVE  /\ Tail(q) \in Seq(T) /\ Head(q) \in T /\ Range(q) = Range(Tail(q)) \cup {Head(q)}
         /\ DOMAIN q = 1 .. Len(q) /\ DOMAIN Tail(q) = 1 .. Len(q) - 1 /\ Len(q) \in Nat
         /\ \A i \in DOMAIN Tail(q) : Tail(q)[i] = q[i + 1] /\ i + 1 \in DOMAIN q
         /\ 1 \in DOMAIN q /\ q[1] = Head(q)
<1>1. /\ Tail(q) \in Seq(T) /\ Head(q) \in T
      /\ DOMAIN q = 1 .. Len(q) /\ DOMAIN Tail(q) = 1 .. Len(q) - 1 /\ Len(q) \in Nat
      /\ \A i \in DOMAIN Tail(q) : Tail(q)[i] = q[i + 1] /\ i + 1 \in DOMAIN q
      /\ 1 \in DOMAIN q /\ q[1] = Head(q)
  OBVIOUS
<1> DEFINE p == Tail(q)
           h == Head(q)
<1>2. /\ DOMAIN q = 1 .. Len(q) /\ DOMAIN p = 1 .. Len(q) - 1 /\ Len(q) \in Nat
      /\ \A i \in DOMAIN p : p[i] = q[i + 1] /\ i + 1 \in DOMAIN q
      /\ 1 \in DOMAIN q /\ q[1] = h
  BY <1>1
<1>3. Range(q) = Range(p) \cup {h}
  <2> HIDE DEF p, h
  <2>1. ASSUME NEW i \in DOMAIN q PROVE q[i] \in Range(p) \cup {h}
    <3>1. CASE i = 1
      BY <1>2, <3>1
    <3>2. CASE i # 1
      <4>1. i - 1 \in DOMAIN p /\ (i - 1) + 1 = i
        BY <1>2, <3>2
      <4>2. p[i - 1] = q[i]
        BY <1>2, <4>1
      <4> QED
        BY <4>1, <4>2 DEF Range
    <3> QED
      BY <3>1, <3>2
  <2>2. \A i \in DOMAIN p : p[i] \in Range(q)
    BY <1>2 DEF Range
  <2>3. h \in Range(q)
    BY <1>2 DEF Range
  <2> QED
    BY <2>1, <2>2, <2>3 DEF Range
<1> QED
  BY <1>1, <1>3

\* What is to go down when the first request is taken was to go down before.
LEMMA ToGoDownTail ==
  ASSUME NEW q \in Seq(Request), q # <<>>
  PROVE  /\ ToGoDown(Tail(q)) => ToGoDown(q)
         /\ Head(q) = "unmount" /\ "mount" \notin Range(Tail(q)) => ToGoDown(q)
<1> DEFINE p == Tail(q)
           h == Head(q)
<1>1. /\ DOMAIN q = 1 .. Len(q) /\ DOMAIN p = 1 .. Len(q) - 1 /\ Len(q) \in Nat
      /\ \A i \in DOMAIN p : p[i] = q[i + 1] /\ i + 1 \in DOMAIN q
      /\ 1 \in DOMAIN q /\ q[1] = h
  BY TailFacts
<1> HIDE DEF p, h
<1>2. \A j \in DOMAIN q : 1 < j => j - 1 \in DOMAIN p /\ p[j - 1] = q[j]
  BY <1>1
<1>3. ASSUME ToGoDown(p) PROVE ToGoDown(q)
  <2>1. PICK i \in DOMAIN p : p[i] = "unmount" /\ \A j \in DOMAIN p : i < j => p[j] # "mount"
    BY <1>3 DEF ToGoDown
  <2>2. i + 1 \in DOMAIN q /\ q[i + 1] = "unmount"
    BY <1>1, <2>1
  <2>3. ASSUME NEW j \in DOMAIN q, i + 1 < j PROVE q[j] # "mount"
    <3>1. 1 < j /\ i < j - 1
      BY <1>1, <2>3
    <3> QED
      BY <1>2, <2>1, <3>1
  <2> QED
    BY <2>2, <2>3 DEF ToGoDown
<1>4. ASSUME h = "unmount", "mount" \notin Range(p) PROVE ToGoDown(q)
  <2>1. \A j \in DOMAIN q : 1 < j => q[j] # "mount"
    BY <1>2, <1>4 DEF Range
  <2> QED
    BY <1>1, <1>4, <2>1 DEF ToGoDown
<1> QED
  BY <1>3, <1>4 DEF p, h

\* The requests that a change of the console makes.
LEMMA ConfigurationAsks ==
  ASSUME Queues, NEW cookie \in BOOLEAN, Configuration(cookie), NEW m \in Medium
  PROVE  /\ todo'[m] \in Seq(Request)
         /\ \A r : r \in Range(todo'[m]) <=>
              \/ r \in Range(todo[m])
              \/ m \in ToLeave /\ r = "leave"
              \/ m \in ToEject /\ r = "eject"
              \/ m \in ToMount /\ r = "mount"
              \/ m \in ToUnmount(cookie) /\ r = "unmount"
         /\ ToGoDown(todo'[m]) => m \in ToUnmount(cookie) \/ (ToGoDown(todo[m]) /\ m \notin ToMount)
         /\ m \notin ToLeave \cup ToEject \cup ToMount \cup ToUnmount(cookie) => todo'[m] = todo[m]
<1> DEFINE b1 == m \in ToLeave
           b2 == m \in ToEject
           b3 == m \in ToMount
           b4 == m \in ToUnmount(cookie)
           q0 == todo[m]
           q1 == q0 \o If(b1, "leave")
           q2 == q1 \o If(b2, "eject")
           q3 == q2 \o If(b3, "mount")
           q4 == q3 \o If(b4, "unmount")
<1>1. todo'[m] = q4
  BY DEF Configuration
<1>2. q0 \in Seq(Request)
  BY DEF Queues
<1>3. "leave" \in Request /\ "eject" \in Request /\ "mount" \in Request /\ "unmount" \in Request
  BY DEF Request
<1>4. q1 = q0 \o If(b1, "leave") /\ q2 = q1 \o If(b2, "eject") /\ q3 = q2 \o If(b3, "mount")
      /\ q4 = q3 \o If(b4, "unmount")
  OBVIOUS
<1> HIDE DEF q0, q1, q2, q3, q4, b1, b2, b3, b4
<1>5. Asks(q0, b1, "leave", q1)
  BY <1>2, <1>3, <1>4, IfAsks, Zenon
<1>6. Asks(q1, b2, "eject", q2)
  <2>1. q1 \in Seq(Request)
    BY <1>5 DEF Asks
  <2> QED
    BY <1>3, <1>4, <2>1, IfAsks, Zenon
<1>7. Asks(q2, b3, "mount", q3)
  <2>1. q2 \in Seq(Request)
    BY <1>6 DEF Asks
  <2> QED
    BY <1>3, <1>4, <2>1, IfAsks, Zenon
<1>8. Asks(q3, b4, "unmount", q4)
  <2>1. q3 \in Seq(Request)
    BY <1>7 DEF Asks
  <2> QED
    BY <1>3, <1>4, <2>1, IfAsks, Zenon
<1> USE DEF b1, b2, b3, b4
<1>9. \A r : r \in Range(q4) <=>
              \/ r \in Range(q0)
              \/ m \in ToLeave /\ r = "leave"
              \/ m \in ToEject /\ r = "eject"
              \/ m \in ToMount /\ r = "mount"
              \/ m \in ToUnmount(cookie) /\ r = "unmount"
  BY <1>5, <1>6, <1>7, <1>8 DEF Asks
<1>10. /\ q4 \in Seq(Request)
       /\ ToGoDown(q4) => m \in ToUnmount(cookie) \/ (ToGoDown(q0) /\ m \notin ToMount)
       /\ m \notin ToLeave \cup ToEject \cup ToMount \cup ToUnmount(cookie) => q4 = q0
  BY <1>5, <1>6, <1>7, <1>8 DEF Asks
<1> QED
  BY <1>1, <1>9, <1>10 DEF q0

\* The requests that the disks that were made, dropped and found again make.
LEMMA FollowAsks ==
  ASSUME Queues, NEW s, Follow(s), NEW m \in Medium
  PROVE  /\ todo'[m] \in Seq(Request)
         /\ \A r : r \in Range(todo'[m]) <=>
              \/ r \in Range(todo[m])
              \/ m \in (s.again \cap probed) \ Leaf /\ r = "probe"
              \/ m \in s.dropped \cap staged /\ r = "force"
         /\ ToGoDown(todo'[m]) => ToGoDown(todo[m])
         /\ m \notin (s.again \cap probed) \cup (s.dropped \cap staged) => todo'[m] = todo[m]
<1> DEFINE b1 == m \in (s.again \cap probed) \ Leaf
           b2 == m \in s.dropped \cap staged
           q0 == todo[m]
           q1 == q0 \o If(b1, "probe")
           q2 == q1 \o If(b2, "force")
<1>1. todo'[m] = q2
  BY DEF Follow
<1>2. q0 \in Seq(Request)
  BY DEF Queues
<1>3. "probe" \in Request /\ "force" \in Request
  BY DEF Request
<1>4. q1 = q0 \o If(b1, "probe") /\ q2 = q1 \o If(b2, "force")
  OBVIOUS
<1> HIDE DEF q0, q1, q2, b1, b2
<1>5. Asks(q0, b1, "probe", q1)
  BY <1>2, <1>3, <1>4, IfAsks, Zenon
<1>6. Asks(q1, b2, "force", q2)
  <2>1. q1 \in Seq(Request)
    BY <1>5 DEF Asks
  <2> QED
    BY <1>3, <1>4, <2>1, IfAsks, Zenon
<1> USE DEF b1, b2
<1>7. /\ q2 \in Seq(Request)
      /\ \A r : r \in Range(q2) <=>
           \/ r \in Range(q0)
           \/ m \in (s.again \cap probed) \ Leaf /\ r = "probe"
           \/ m \in s.dropped \cap staged /\ r = "force"
      /\ ToGoDown(q2) => ToGoDown(q0)
      /\ m \notin (s.again \cap probed) \cup (s.dropped \cap staged) => q2 = q0
  BY <1>5, <1>6 DEF Asks
<1> QED
  BY <1>1, <1>7 DEF q0

-----------------------------------------------------------------------------
(* Types                                                                   *)

\* The types of what is about users, and about volumes.
UserTypes ==
  /\ console \in User \cup {NoUser}
  /\ session \in [User -> {"out", "login", "in", "leaving"}]
  /\ agents \subseteq User /\ configNews \in BOOLEAN
  /\ user \in User \cup {NoUser} /\ users \subseteq User

VolumeTypes ==
  /\ probed \subseteq Volume /\ staged \subseteq Volume /\ mounted \subseteq Volume
  /\ mountedBy \in [Medium -> User \cup {NoUser}]
  /\ excused \subseteq Volume /\ owed \subseteq Volume

\* Whole disks have no volume: they are ejected only.
OnlyEjects == \A m \in Whole : Range(todo[m]) \subseteq {"eject"} /\ command[m] = "none"

ConsoleTypes == Queues /\ UserTypes /\ VolumeTypes /\ OnlyEjects

\* A callback that disks were made, dropped or found by, whichever it was.
Callback == \E s, n : Result(s, n) /\ Leaves(s) /\ Follow(s)

LEMMA CallbackIs ==
  ASSUME MediaInv, UnitInv,
         \/ MediaAppeared /\ Follow(Appearances)
         \/ MediaDisappeared /\ Follow(Disappearances)
         \/ \E m \in Medium : HearsBusy(m) /\ Follow(Heard(m))
  PROVE  Callback
<1>1. CASE MediaAppeared /\ Follow(Appearances)
  BY <1>1, AppearancesResult DEF MediaAppeared, Callback
<1>2. CASE MediaDisappeared /\ Follow(Disappearances)
  BY <1>2, DisappearancesResult DEF MediaDisappeared, Callback
<1>3. CASE \E m \in Medium : HearsBusy(m) /\ Follow(Heard(m))
  BY <1>3, HeardResult DEF HearsBusy, Callback
<1> QED
  BY <1>1, <1>2, <1>3

\* What a step can be for users and volumes.
LEMMA StepKinds ==
  ASSUME MediaInv, UnitInv, [Next]_vars
  PROVE  \/ Callback
         \/ \E cookie \in BOOLEAN : (cookie => Information = {}) /\ Configuration(cookie)
                                    /\ agents' \subseteq agents /\ configNews' \in {configNews, FALSE}
         \/ Waits /\ configNews' = FALSE /\ UNCHANGED <<mediaVars, console, session, agents, userVars,
                                                         volumeVars, ghosts>>
         \/ \E m \in Volume : Probe(m) \/ StageMount(m)
         \/ \E m \in Medium : Begin(m) \/ Done(m)
         \/ Console
         \/ Kernel /\ Undisturbed
         \/ Undisturbed /\ UNCHANGED <<registry, matched, list, late>>
<1>1. CASE Work
  <2>1. CASE _DAConfigurationCallback
    BY <2>1 DEF _DAConfigurationCallback
  <2>2. CASE \E u \in User : SystemUIServer(u)
    BY <2>2 DEF SystemUIServer
  <2>3. CASE Pass
    BY <2>3 DEF Pass, Dispatch, Undisturbed, kernelVars
  <2> QED
    BY <1>1, <2>1, <2>2, <2>3, CallbackIs DEF Work
<1>2. CASE TimePasses
  BY <1>2 DEF TimePasses, Overdue, kernelVars
<1>3. CASE TimersFire
  BY <1>3 DEF TimersFire, TimerFires, kernelVars, diskVars
<1>4. CASE UNCHANGED vars
  BY <1>4 DEF vars, Undisturbed, mediaVars, kernelVars, diskVars
<1> QED
  BY <1>1, <1>2, <1>3, <1>4 DEF Next

\* Every step keeps the types of what is about users.
LEMMA UserTypesStep ==
  ASSUME MediaInv, UnitInv, UserTypes, [Next]_vars
  PROVE  UserTypes'
<1>1. CASE UNCHANGED <<consoleVars, userVars>>
  BY <1>1 DEF consoleVars, userVars, UserTypes
<1>2. CASE Callback
  BY <1>2, <1>1 DEF Callback, Follow, Leaves, userVars, UserTypes
<1>3. ASSUME NEW cookie \in BOOLEAN, Configuration(cookie),
             agents' \subseteq agents, configNews' \in {configNews, FALSE}
      PROVE  UserTypes'
  <2>1. Information \subseteq User
    BY DEF Information
  <2> QED
    BY <1>3, <2>1 DEF Configuration, UserTypes
<1>4. CASE Waits /\ configNews' = FALSE /\ UNCHANGED <<console, session, agents, userVars>>
  BY <1>4 DEF userVars, UserTypes
<1>5. CASE \E m \in Volume : Probe(m) \/ StageMount(m)
  BY <1>1, <1>5 DEF Probe, StageMount
<1>6. CASE \E m \in Medium : Begin(m) \/ Done(m)
  BY <1>1, <1>6 DEF Begin, Done
<1>7. CASE Console
  <2>1. PICK u \in User : \/ Login(u) \/ LoginDone(u) \/ SwitchOut(u)
                          \/ SwitchTo(u) \/ Leave(u) \/ Left(u)
    BY <1>7 DEF Console
  <2>2. console' \in {console, u, NoUser} /\ configNews' = TRUE /\ agents' \subseteq agents \cup {u}
        /\ UNCHANGED userVars
    BY <1>7, <2>1 DEF Console, Login, LoginDone, SwitchOut, SwitchTo, Leave, Left, Changes
  <2>3. session' = session \/ \E x \in {"out", "login", "in", "leaving"} : session' = [session EXCEPT ![u] = x]
    BY <2>1 DEF Login, LoginDone, SwitchOut, SwitchTo, Leave, Left
  <2>4. session' \in [User -> {"out", "login", "in", "leaving"}]
    BY <2>3 DEF UserTypes
  <2> QED
    BY <2>2, <2>4 DEF userVars, UserTypes
<1>8. CASE Undisturbed
  BY <1>1, <1>8 DEF Undisturbed
<1> QED
  BY <1>2, <1>3, <1>4, <1>5, <1>6, <1>7, <1>8, StepKinds

\* Callbacks, the console, and the commands keep those of volumes.
LEMMA FollowTypes ==
  ASSUME Queues, VolumeTypes, OnlyEjects, NEW s, Follow(s)
  PROVE  VolumeTypes' /\ OnlyEjects'
<1>1. VolumeTypes'
  BY DEF Follow, VolumeTypes
<1>2. Volume \cap Whole = {} /\ Whole \subseteq Medium
  BY MediaAssumption DEF Volume
<1>3. ASSUME NEW m \in Whole PROVE Range(todo'[m]) \subseteq {"eject"} /\ command'[m] = "none"
  <2>1. m \in Medium /\ m \notin probed /\ m \notin staged
    BY <1>2 DEF VolumeTypes
  <2>2. \A r : r \in Range(todo'[m]) <=> r \in Range(todo[m])
    BY <2>1, FollowAsks
  <2> QED
    BY <2>2 DEF OnlyEjects, Follow
<1> QED
  BY <1>1, <1>3 DEF OnlyEjects

LEMMA ConfigurationTypes ==
  ASSUME Queues, VolumeTypes, OnlyEjects, NEW cookie \in BOOLEAN, Configuration(cookie)
  PROVE  VolumeTypes' /\ OnlyEjects'
<1>1. Volume \cap Whole = {} /\ Whole \subseteq Medium /\ Deferred \ Whole \subseteq Volume
  BY MediaAssumption, ConsoleAssumption DEF Volume
<1>2. VolumeTypes'
  BY <1>1 DEF Configuration, VolumeTypes
<1>3. ASSUME NEW m \in Whole PROVE Range(todo'[m]) \subseteq {"eject"} /\ command'[m] = "none"
  <2>1. m \in Medium /\ m \notin probed
    BY <1>1 DEF VolumeTypes
  <2>2. m \notin ToLeave /\ m \notin ToMount /\ m \notin ToUnmount(cookie)
    BY <2>1 DEF ToLeave, ToMount, ToUnmount
  <2>3. \A r : r \in Range(todo'[m]) => r \in Range(todo[m]) \/ r = "eject"
    BY <2>1, <2>2, ConfigurationAsks
  <2> QED
    BY <2>3 DEF OnlyEjects, Configuration
<1> QED
  BY <1>2, <1>3 DEF OnlyEjects

\* What is begun and done, and for whom.
LEMMA BeginTypes ==
  ASSUME Queues, VolumeTypes, OnlyEjects, NEW m \in Medium, Begin(m)
  PROVE  VolumeTypes' /\ OnlyEjects'
<1>1. todo[m] \in Seq(Request) /\ todo[m] # <<>>
  BY DEF Begin, Queues
<1>2. Tail(todo[m]) \in Seq(Request) /\ Head(todo[m]) \in Request
      /\ Range(todo[m]) = Range(Tail(todo[m])) \cup {Head(todo[m])}
  BY <1>1, TailFacts
<1>3. \A n \in Medium : /\ todo'[n] = IF n = m THEN Tail(todo[m]) ELSE todo[n]
                        /\ command'[n] = command[n]
                             \/ (n = m /\ command'[n] = Head(todo[m]) /\ ~Idle(m, Head(todo[m])))
  BY DEF Begin, Queues
<1>4. VolumeTypes'
  BY DEF Begin, VolumeTypes
<1>5. ASSUME NEW n \in Whole PROVE Range(todo'[n]) \subseteq {"eject"} /\ command'[n] = "none"
  <2>1. n \in Medium /\ Range(todo[n]) \subseteq {"eject"} /\ command[n] = "none"
    BY MediaAssumption DEF OnlyEjects
  <2>2. CASE n = m
    <3>1. Head(todo[m]) = "eject"
      BY <1>2, <2>1, <2>2
    <3>2. Idle(m, Head(todo[m]))
      BY <3>1 DEF Idle
    <3> QED
      BY <1>2, <1>3, <2>1, <2>2, <3>2
  <2>3. CASE n # m
    BY <1>3, <2>1, <2>3
  <2> QED
    BY <2>2, <2>3
<1> QED
  BY <1>4, <1>5 DEF OnlyEjects

\* Only volumes are mounted.
LEMMA DoneTypes ==
  ASSUME Queues, UserTypes, VolumeTypes, OnlyEjects, NEW m \in Medium, Done(m)
  PROVE  VolumeTypes' /\ OnlyEjects'
<1>1. PICK ok \in BOOLEAN : MountDone(m, ok) \/ UnmountDone(m, ok)
  BY DEF Done
<1>2. command[m] # "none"
  BY <1>1 DEF MountDone, UnmountDone
<1>3. m \in Volume
  BY <1>2 DEF OnlyEjects, Volume
<1>4. /\ mounted' \subseteq mounted \cup {m} /\ excused' \subseteq excused \cup {m} /\ owed' \subseteq owed
      /\ mountedBy' = mountedBy \/ mountedBy' = [mountedBy EXCEPT ![m] = user]
  BY <1>1 DEF MountDone, UnmountDone
<1>5. probed' = probed /\ staged' = staged /\ todo' = todo /\ command' = [command EXCEPT ![m] = "none"]
  BY DEF Done
<1>6. mountedBy' \in [Medium -> User \cup {NoUser}]
  BY <1>4 DEF VolumeTypes, UserTypes
<1>7. VolumeTypes'
  BY <1>3, <1>4, <1>5, <1>6 DEF VolumeTypes
<1>8. OnlyEjects'
  <2>1. \A n \in Whole : todo'[n] = todo[n] /\ command'[n] \in {command[n], "none"}
    BY <1>5, MediaAssumption DEF Queues
  <2> QED
    BY <2>1 DEF OnlyEjects
<1> QED
  BY <1>7, <1>8

\* Every step keeps the types of what is about volumes.
LEMMA VolumeTypesStep ==
  ASSUME MediaInv, UnitInv, ConsoleTypes, [Next]_vars
  PROVE  VolumeTypes' /\ OnlyEjects'
<1> USE DEF ConsoleTypes
<1>1. CASE UNCHANGED <<volumeVars, ghosts>>
  BY <1>1 DEF volumeVars, ghosts, VolumeTypes, OnlyEjects
<1>2. CASE \E m \in Volume : Probe(m) \/ StageMount(m)
  <2>1. PICK m \in Volume : Probe(m) \/ StageMount(m)
    BY <1>2
  <2>2. m \in Medium /\ m \notin Whole
    BY DEF Volume
  <2>3. \A n \in Whole : todo'[n] = todo[n] /\ command'[n] = command[n]
    BY <2>1, <2>2, MediaAssumption DEF Probe, StageMount, Queues
  <2>4. VolumeTypes'
    BY <2>1, <2>2 DEF Probe, StageMount, ghosts, VolumeTypes
  <2> QED
    BY <2>3, <2>4 DEF OnlyEjects
<1>3. CASE Console
  <2>1. volumeVars' = volumeVars
    BY <1>3 DEF Console
  <2>2. excused' = excused /\ (owed' \subseteq owed \cup (list \cap probed))
    BY <1>3 DEF Console, Login, LoginDone, SwitchOut, SwitchTo, Leave, Left, Unheard, ghosts
  <2> QED
    BY <2>1, <2>2 DEF volumeVars, VolumeTypes, OnlyEjects
<1>4. CASE Callback
  BY <1>4, FollowTypes DEF Callback
<1> QED
  BY <1>1, <1>2, <1>3, <1>4, StepKinds, ConfigurationTypes, BeginTypes, DoneTypes DEF Undisturbed

\* All of the types, at first and after every step.
LEMMA ConsoleTypesInit ==
  ASSUME Init
  PROVE  ConsoleTypes
<1>1. UserTypes
  <2>1. session \in [User -> {"out", "login", "in", "leaving"}]
    BY DEF Init
  <2> QED
    BY <2>1 DEF Init, UserTypes, Information
<1>2. VolumeTypes
  BY DEF Init, VolumeTypes
<1>3. Queues
  BY DEF Init, Queues
<1>4. OnlyEjects
  BY EmptyRange, MediaAssumption DEF Init, OnlyEjects
<1> QED
  BY <1>1, <1>2, <1>3, <1>4 DEF ConsoleTypes

LEMMA ConsoleTypesStep ==
  ASSUME MediaInv, UnitInv, ConsoleTypes, [Next]_vars
  PROVE  ConsoleTypes'
BY QueuesStep, UserTypesStep, VolumeTypesStep DEF ConsoleTypes

\* The variables have their types (DAMedia and DAConsole): whole disks are only
\* ejected, only volumes are mounted, and the requests of a disk stay a queue.
THEOREM ConsoleIsTyped == Spec => []TypeOK
<1>1. Init => ConsoleTypes
  BY ConsoleTypesInit
<1>2. MediaInv /\ UnitInv /\ ConsoleTypes /\ [Next]_vars => ConsoleTypes'
  BY ConsoleTypesStep
<1>3. MediaInv /\ ConsoleTypes => TypeOK
  BY DEF MediaInv, ConsoleTypes, Queues, UserTypes, VolumeTypes, TypeOK
<1> QED
  BY <1>1, <1>2, <1>3, MediaInvariant, PTL DEF Spec

-----------------------------------------------------------------------------
(* Volumes follow the users                                                *)

\* The volume of m should be mounted.
Wanted(m) == users # {} \/ m \notin Deferred \/ m \in NoDefer

\* The request is waiting, or is being served.
Asked(m, r) == r \in Range(todo[m]) \/ command[m] = r

\* The volume is to be unmounted, or is being unmounted, and is not to be mounted
\* again.
GoesDown(m) ==
  ToGoDown(todo[m]) \/ (command[m] = "unmount" /\ "mount" \notin Range(todo[m]))

\* The unmounting of the volume is under way.
Unmounting(m) == "unmount" \in Range(todo[m]) \/ command[m] \in {"leave", "unmount", "force"}

\* What holds of a disk on the list, apart from the exceptions.
FollowsUsers(m) ==
  /\ GoesDown(m) => ~Wanted(m)
  /\ m \in mounted \/ Asked(m, "mount") \/ Asked(m, "unmount") => m \in probed
  /\ m \notin excused /\ m \in staged => m \in probed
  /\ m \notin excused /\ ~Wanted(m) /\ (m \in mounted \/ command[m] = "mount") => Unmounting(m)
  /\ m \notin excused /\ Wanted(m) /\ m \in staged /\ m \notin mounted => Asked(m, "mount")

\* Nothing has been done for the disk.
Untouched(m) ==
  /\ m \notin mounted /\ m \notin staged /\ m \notin probed
  /\ todo[m] = <<>> /\ command[m] = "none"

\* The disk is on the list, and its medium was not lost from the news.
Here(m) == m \in list /\ m \notin late

\* The medium has no disk yet.
Unseen(m) == m \notin list /\ m \notin late /\ (Queued(m) \/ registry[m] = "out")

\* The invariant: of disks, and of media that have none yet.
DeferInv == \A m \in Volume : (Here(m) => FollowsUsers(m)) /\ (Unseen(m) => Untouched(m))

\* The volume is as it was.
SameVolume(m) ==
  /\ todo'[m] = todo[m] /\ command'[m] = command[m]
  /\ m \in mounted' <=> m \in mounted
  /\ m \in probed' <=> m \in probed
  /\ m \in staged' <=> m \in staged
  /\ m \in excused' <=> m \in excused

\* What is as it was holds as it did.
LEMMA SameVolumeFollows ==
  ASSUME NEW m, SameVolume(m), users' = users
  PROVE  (FollowsUsers(m)' <=> FollowsUsers(m)) /\ (Untouched(m)' <=> Untouched(m))
BY DEF SameVolume, FollowsUsers, Untouched, GoesDown, ToGoDown, Unmounting, Asked, Wanted

\* So it is if nothing changes for any volume.
LEMMA UndisturbedFollows ==
  ASSUME UNCHANGED <<users, todo, command, mounted, probed, staged, excused>>, NEW m
  PROVE  (FollowsUsers(m)' <=> FollowsUsers(m)) /\ (Untouched(m)' <=> Untouched(m))
BY SameVolumeFollows DEF SameVolume

\* A callback makes disks of media that had none; others it leaves as they are.
LEMMA CallbackFollows ==
  ASSUME MediaInv, ConsoleTypes, DeferInv, Callback, NEW m \in Volume
  PROVE  (Here(m)' => FollowsUsers(m)') /\ (Unseen(m)' => Untouched(m)')
<1>1. PICK s, n : Result(s, n) /\ Leaves(s) /\ Follow(s)
  BY DEF Callback
<1>2. m \in Medium
  BY DEF Volume
<1>3. /\ matched' \in {matched, <<>>} /\ late \subseteq late' /\ list' \subseteq list \cup s.made
      /\ s.made \subseteq list' \cap Range(matched)
      /\ list \subseteq list' \cup s.dropped /\ list \cap s.made \subseteq s.dropped
      /\ s.dropped \subseteq list \cup Range(matched) /\ s.again \subseteq list'
      /\ s.dropped \cap list' \subseteq late' /\ s.dropped \cap Range(matched') \subseteq late'
      /\ registry' = registry
  BY <1>1, FoundIsFound DEF Result, Outcome, FoundIs, Leaves
<1>4. /\ probed' = probed \ (s.made \cup s.dropped)
      /\ staged' = (staged \ s.dropped) \cup (s.made \cap s.skipped \cap Volume)
      /\ excused' = (excused \ s.made) \cup (s.made \cap s.skipped \cap Volume)
      /\ users' = users /\ command' = command /\ mounted' = mounted
  BY <1>1 DEF Follow, consoleVars, userVars
<1>5. /\ \A r : r \in Range(todo'[m]) <=>
           \/ r \in Range(todo[m])
           \/ m \in (s.again \cap probed) \ Leaf /\ r = "probe"
           \/ m \in s.dropped \cap staged /\ r = "force"
      /\ ToGoDown(todo'[m]) => ToGoDown(todo[m])
      /\ m \notin (s.again \cap probed) \cup (s.dropped \cap staged) => todo'[m] = todo[m]
  BY <1>1, <1>2, FollowAsks DEF ConsoleTypes
<1>6. ASSUME Here(m)' PROVE FollowsUsers(m)'
  <2>1. m \in list' /\ m \notin late' /\ m \notin late /\ m \notin s.dropped
    BY <1>3, <1>6 DEF Here
  <2>2. CASE m \in s.made
    <3>1. Unseen(m)
      BY <1>3, <2>1, <2>2 DEF Unseen, Queued
    <3>2. Untouched(m)
      BY <3>1 DEF DeferInv
    <3>3. /\ todo'[m] = <<>> /\ command'[m] = "none" /\ m \notin mounted' /\ m \notin probed'
          /\ m \in staged' => m \in excused'
      BY <1>4, <1>5, <2>2, <3>2 DEF Untouched
    <3>4. "mount" \notin Range(todo'[m]) /\ "unmount" \notin Range(todo'[m]) /\ ~ToGoDown(todo'[m])
      BY <3>3, EmptyRange DEF ToGoDown
    <3> QED
      BY <3>3, <3>4 DEF FollowsUsers, GoesDown, Asked
  <2>3. CASE m \notin s.made
    <3>1. Here(m) /\ FollowsUsers(m)
      BY <1>3, <2>1, <2>3 DEF Here, DeferInv
    <3>2. /\ m \in probed' <=> m \in probed
          /\ m \in staged' <=> m \in staged
          /\ m \in excused' <=> m \in excused
      BY <1>4, <2>1, <2>3
    <3>3. /\ ("mount" \in Range(todo'[m])) <=> ("mount" \in Range(todo[m]))
          /\ ("unmount" \in Range(todo'[m])) <=> ("unmount" \in Range(todo[m]))
      BY <1>5
    <3>4. Wanted(m)' <=> Wanted(m)
      BY <1>4 DEF Wanted
    <3>5. GoesDown(m)' => GoesDown(m)
      BY <1>4, <1>5, <3>3 DEF GoesDown
    <3> QED
      BY <1>4, <3>1, <3>2, <3>3, <3>4, <3>5 DEF FollowsUsers, Asked, Unmounting
  <2> QED
    BY <2>2, <2>3
<1>7. ASSUME Unseen(m)' PROVE Untouched(m)'
  <2>1. m \notin list' /\ m \notin late' /\ (m \in Range(matched') \/ registry[m] = "out")
    BY <1>3, <1>7 DEF Unseen, Queued
  <2>2. m \notin s.dropped /\ m \notin s.made /\ m \notin s.again /\ m \notin list /\ m \notin late
    <3>1. CASE m \in Range(matched')
      BY <1>3, <2>1, <3>1
    <3>2. CASE registry[m] = "out"
      <4>1. m \notin list /\ m \notin Range(matched)
        BY <1>2, <3>2 DEF MediaInv, NamesInv, Queued
      <4> QED
        BY <1>3, <2>1, <4>1
    <3> QED
      BY <2>1, <3>1, <3>2
  <2>3. Range(matched') \subseteq Range(matched)
    BY <1>3, EmptyRange
  <2>4. Untouched(m)
    BY <2>1, <2>2, <2>3 DEF Unseen, Queued, DeferInv
  <2> QED
    BY <1>4, <1>5, <2>2, <2>4 DEF Untouched
<1> QED
  BY <1>6, <1>7

\* A change of the console asks for what the new users want.
LEMMA ConfigurationFollows ==
  ASSUME ConsoleTypes, DeferInv, NEW cookie \in BOOLEAN, cookie => Information = {},
         Configuration(cookie), NEW m \in Volume
  PROVE  (Here(m)' => FollowsUsers(m)') /\ (Unseen(m)' => Untouched(m)')
<1>1. m \in Medium /\ m \notin Whole
  BY DEF Volume
<1>2. /\ users' = Information /\ UNCHANGED <<registry, matched, list, late, command, mounted, probed, staged>>
      /\ excused' = IF cookie THEN excused \cup (Deferred \ Whole)
                    ELSE excused \ (ToMount \cup ToUnmount(cookie))
  BY DEF Configuration, kernelVars, diskVars
<1>3. /\ \A r : r \in Range(todo'[m]) <=>
              \/ r \in Range(todo[m])
              \/ m \in ToLeave /\ r = "leave"
              \/ m \in ToEject /\ r = "eject"
              \/ m \in ToMount /\ r = "mount"
              \/ m \in ToUnmount(cookie) /\ r = "unmount"
      /\ ToGoDown(todo'[m]) => m \in ToUnmount(cookie) \/ (ToGoDown(todo[m]) /\ m \notin ToMount)
      /\ m \notin ToLeave \cup ToEject \cup ToMount \cup ToUnmount(cookie) => todo'[m] = todo[m]
  BY <1>1, ConfigurationAsks DEF ConsoleTypes
<1>4. ASSUME Unseen(m)' PROVE Untouched(m)'
  <2>1. m \notin list /\ Untouched(m)
    BY <1>2, <1>4 DEF Unseen, Queued, DeferInv
  <2>2. todo'[m] = todo[m]
    BY <1>3, <2>1 DEF ToLeave, ToEject, ToMount, ToUnmount
  <2> QED
    BY <1>2, <2>1, <2>2 DEF Untouched
<1>5. ASSUME Here(m)' PROVE FollowsUsers(m)'
  <2>1. m \in list /\ FollowsUsers(m)
    BY <1>2, <1>5 DEF Here, DeferInv
  <2>2. m \in ToUnmount(cookie) <=>
          Information = {} /\ ~cookie /\ m \in probed /\ m \in Deferred /\ m \notin NoDefer
    BY <2>1 DEF ToUnmount
  <2>3. m \in ToMount <=> users = {} /\ Information # {} /\ m \in probed /\ m \in Deferred
    BY <2>1 DEF ToMount, First
  <2>4. Wanted(m)' <=> Information # {} \/ m \notin Deferred \/ m \in NoDefer
    BY <1>2 DEF Wanted
  <2>5. Wanted(m)' => Wanted(m) \/ m \in ToMount \/ m \notin probed
    BY <2>3, <2>4 DEF Wanted
  <2>6. m \in mounted \/ Asked(m, "mount") \/ Asked(m, "unmount") => m \in probed
    BY <2>1 DEF FollowsUsers
  <2>7. "unmount" \in Range(todo'[m]) <=> "unmount" \in Range(todo[m]) \/ m \in ToUnmount(cookie)
    BY <1>3
  <2>8. "mount" \in Range(todo'[m]) <=> "mount" \in Range(todo[m]) \/ m \in ToMount
    BY <1>3
  <2>9. GoesDown(m)' => ~Wanted(m)'
    <3>1. ToGoDown(todo[m]) => "unmount" \in Range(todo[m])
      BY DEF ToGoDown, Range
    <3>2. GoesDown(m)' => m \in ToUnmount(cookie) \/ (GoesDown(m) /\ m \notin ToMount /\ Asked(m, "unmount"))
      BY <1>2, <1>3, <2>8, <3>1 DEF GoesDown, Asked
    <3>3. GoesDown(m) => ~Wanted(m)
      BY <2>1 DEF FollowsUsers
    <3> QED
      BY <2>2, <2>4, <2>5, <2>6, <3>2, <3>3
  <2>10. (m \in mounted \/ Asked(m, "mount") \/ Asked(m, "unmount") => m \in probed)'
    BY <1>2, <2>2, <2>3, <2>6, <2>7, <2>8 DEF Asked
  <2>11. m \notin excused' => m \notin excused \/ m \in ToMount \/ m \in ToUnmount(cookie)
    BY <1>2
  <2>12. (m \notin excused /\ m \in staged => m \in probed)'
    BY <1>2, <2>1, <2>2, <2>3, <2>11 DEF FollowsUsers
  <2>13. ASSUME m \notin excused', ~Wanted(m)', m \in mounted \/ command[m] = "mount"
         PROVE  Unmounting(m)'
    <3>1. m \in probed
      BY <2>6, <2>13 DEF Asked
    <3>2. ~cookie
      BY <1>1, <1>2, <2>4, <2>13
    <3>3. m \in ToUnmount(cookie)
      BY <2>2, <2>4, <2>13, <3>1, <3>2
    <3> QED
      BY <2>7, <3>3 DEF Unmounting
  <2>14. ASSUME m \notin excused', Wanted(m)', m \in staged, m \notin mounted
         PROVE  "mount" \in Range(todo'[m]) \/ command[m] = "mount"
    <3>1. CASE m \in ToMount
      BY <2>8, <3>1
    <3>2. CASE m \notin ToMount
      <4>1. m \notin excused
        BY <2>2, <2>4, <2>11, <2>14, <3>2
      <4>2. Asked(m, "mount")
        BY <2>1, <2>5, <2>14, <3>2, <4>1 DEF FollowsUsers
      <4> QED
        BY <2>8, <4>2 DEF Asked
    <3> QED
      BY <3>1, <3>2
  <2> QED
    BY <1>2, <2>9, <2>10, <2>12, <2>13, <2>14 DEF FollowsUsers, Asked
<1> QED
  BY <1>4, <1>5

\* Probing, and the stage of mounting.
LEMMA StagesFollow ==
  ASSUME ConsoleTypes, DeferInv, NEW n \in Volume, Probe(n) \/ StageMount(n), NEW m \in Volume
  PROVE  (Here(m)' => FollowsUsers(m)') /\ (Unseen(m)' => Untouched(m)')
<1>1. n \in Medium /\ m \in Medium
  BY DEF Volume
<1>2. n \in list /\ command[n] = "none"
      /\ UNCHANGED <<registry, matched, list, late, users, command, mounted, excused>>
  BY DEF Probe, StageMount, kernelVars, diskVars, userVars, ghosts
<1>3. Here(m)' => FollowsUsers(m)
  BY <1>2 DEF Here, DeferInv
<1>4. Unseen(m)' => Untouched(m) /\ m # n
  BY <1>2 DEF Unseen, Queued, DeferInv
<1>5. CASE m # n
  <2>1. SameVolume(m)
    BY <1>1, <1>2, <1>5 DEF Probe, StageMount, ConsoleTypes, Queues, SameVolume
  <2> QED
    BY <1>2, <1>3, <1>4, <2>1, SameVolumeFollows
<1>6. CASE m = n /\ Probe(n)
  <2>1. todo' = todo /\ staged' = staged /\ probed' = probed \cup {m}
    BY <1>6 DEF Probe
  <2>2. FollowsUsers(m) => FollowsUsers(m)'
    BY <1>2, <2>1 DEF FollowsUsers, GoesDown, ToGoDown, Unmounting, Asked, Wanted
  <2> QED
    BY <1>3, <1>4, <1>6, <2>2
<1>7. CASE m = n /\ StageMount(n)
  <2>1. /\ todo'[m] = Append(todo[m], "mount") /\ staged' = staged \cup {m}
        /\ probed' = probed /\ m \in probed
    BY <1>1, <1>7 DEF StageMount, ConsoleTypes, Queues
  <2>2. Asks(todo[m], TRUE, "mount", todo'[m])
    <3>1. todo[m] \in Seq(Request) /\ "mount" \in Request
      BY <1>1 DEF ConsoleTypes, Queues, Request
    <3>2. todo[m] \o If(TRUE, "mount") = Append(todo[m], "mount")
      BY <3>1, IfAppends
    <3> QED
      BY <2>1, <3>1, <3>2, IfAsks
  <2>3. /\ "mount" \in Range(todo'[m]) /\ ~ToGoDown(todo'[m])
        /\ "unmount" \in Range(todo'[m]) <=> "unmount" \in Range(todo[m])
    BY <2>2 DEF Asks
  <2>4. FollowsUsers(m) => FollowsUsers(m)'
    BY <1>2, <1>7, <2>1, <2>3 DEF FollowsUsers, GoesDown, Unmounting, Asked, Wanted
  <2> QED
    BY <1>3, <1>4, <1>7, <2>4
<1> QED
  BY <1>5, <1>6, <1>7

\* A request that ends at once has nothing to do; another one becomes the command.
LEMMA BeginFollows ==
  ASSUME ConsoleTypes, DeferInv, NEW n \in Medium, Begin(n), NEW m \in Volume
  PROVE  (Here(m)' => FollowsUsers(m)') /\ (Unseen(m)' => Untouched(m)')
<1>1. m \in Medium
  BY DEF Volume
<1>2. todo[n] \in Seq(Request) /\ todo[n] # <<>> /\ command[n] = "none"
      /\ UNCHANGED <<registry, matched, list, late, users, probed, staged, mounted, excused>>
  BY DEF Begin, kernelVars, diskVars, userVars, ConsoleTypes, Queues
<1>3. Here(m)' => FollowsUsers(m)
  BY <1>2 DEF Here, DeferInv
<1>4. Unseen(m)' => Untouched(m) /\ m # n
  BY <1>2 DEF Unseen, Queued, DeferInv, Untouched
<1>5. CASE m # n
  <2>1. SameVolume(m)
    BY <1>1, <1>2, <1>5 DEF Begin, ConsoleTypes, Queues, SameVolume
  <2> QED
    BY <1>2, <1>3, <1>4, <2>1, SameVolumeFollows
<1>6. ASSUME m = n, FollowsUsers(m) PROVE FollowsUsers(m)'
  <2> DEFINE h == Head(todo[m])
  <2>1. /\ todo'[m] = Tail(todo[m])
        /\ \/ Idle(m, h) /\ command'[m] = "none"
           \/ ~Idle(m, h) /\ command'[m] = h
    BY <1>1, <1>2, <1>6 DEF Begin, ConsoleTypes, Queues
  <2>2. /\ Range(todo[m]) = Range(todo'[m]) \cup {h} /\ h \in Request
        /\ ToGoDown(todo'[m]) => ToGoDown(todo[m])
        /\ h = "unmount" /\ "mount" \notin Range(todo'[m]) => ToGoDown(todo[m])
    BY <1>2, <1>6, <2>1, TailFacts, ToGoDownTail
  <2>3. command[m] = "none"
    BY <1>2, <1>6
  <2> HIDE DEF h
  <2>4. Wanted(m)' <=> Wanted(m)
    BY <1>2 DEF Wanted
  <2>5. GoesDown(m)' => GoesDown(m)
    BY <2>1, <2>2 DEF GoesDown
  <2>6. Asked(m, "mount")' \/ Asked(m, "unmount")' => Asked(m, "mount") \/ Asked(m, "unmount")
    BY <2>1, <2>2 DEF Asked
  <2>7. Delayed(m) => ~Wanted(m)
    BY DEF Delayed, Wanted
  <2>8. ~Idle(m, "mount") => Wanted(m)
    BY <1>1, ConsoleAssumption DEF Idle, Delayed, Wanted
  <2>9. ASSUME m \notin excused, ~Wanted(m), m \in mounted \/ command'[m] = "mount"
        PROVE  Unmounting(m)'
    <3>1. command'[m] # "mount"
      BY <2>1, <2>8, <2>9
    <3>2. "unmount" \in Range(todo[m])
      BY <1>6, <2>3, <2>9, <3>1 DEF FollowsUsers, Unmounting
    <3>3. CASE h = "unmount"
      BY <2>1, <2>9, <3>1, <3>3 DEF Idle, Unmounting
    <3>4. CASE h # "unmount"
      BY <2>2, <3>2, <3>4 DEF Unmounting
    <3> QED
      BY <3>3, <3>4
  <2>10. ASSUME m \notin excused, Wanted(m), m \in staged, m \notin mounted
         PROVE  Asked(m, "mount")'
    <3>1. "mount" \in Range(todo[m])
      BY <1>6, <2>3, <2>10 DEF FollowsUsers, Asked
    <3>2. CASE h = "mount"
      BY <2>1, <2>7, <2>10, <3>2 DEF Idle, Asked
    <3>3. CASE h # "mount"
      BY <2>2, <3>1, <3>3 DEF Asked
    <3> QED
      BY <3>2, <3>3
  <2> QED
    BY <1>2, <1>6, <2>4, <2>5, <2>6, <2>9, <2>10 DEF FollowsUsers
<1> QED
  BY <1>3, <1>4, <1>5, <1>6

\* What is mounted or unmounted is as the users want it, or will be, or is excused.
LEMMA DoneFollows ==
  ASSUME ConsoleTypes, DeferInv, NEW n \in Medium, Done(n), NEW m \in Volume
  PROVE  (Here(m)' => FollowsUsers(m)') /\ (Unseen(m)' => Untouched(m)')
<1>1. m \in Medium
  BY DEF Volume
<1>2. PICK ok \in BOOLEAN : MountDone(n, ok) \/ UnmountDone(n, ok)
  BY DEF Done
<1>3. UNCHANGED <<registry, matched, list, late, users, probed, staged, todo>>
      /\ command' = [command EXCEPT ![n] = "none"]
  BY DEF Done, kernelVars, diskVars, userVars
<1>4. command[n] # "none"
  BY <1>2 DEF MountDone, UnmountDone
<1>5. Here(m)' => FollowsUsers(m)
  BY <1>3 DEF Here, DeferInv
<1>6. Unseen(m)' => Untouched(m) /\ m # n
  BY <1>3, <1>4 DEF Unseen, Queued, DeferInv, Untouched
<1>7. CASE m # n
  <2>1. command'[m] = command[m]
    BY <1>1, <1>3, <1>7 DEF ConsoleTypes, Queues
  <2>2. (m \in mounted' <=> m \in mounted) /\ (m \in excused' <=> m \in excused)
    BY <1>2, <1>7 DEF MountDone, UnmountDone
  <2>3. SameVolume(m)
    BY <1>3, <2>1, <2>2 DEF SameVolume
  <2> QED
    BY <1>3, <1>5, <1>6, <2>3, SameVolumeFollows
<1>8. ASSUME m = n, FollowsUsers(m) PROVE FollowsUsers(m)'
  <2>1. command'[m] = "none"
    BY <1>1, <1>3, <1>8 DEF ConsoleTypes, Queues
  <2>2. Wanted(m)' <=> Wanted(m)
    BY <1>3 DEF Wanted
  <2>3. /\ ~ToGoDown(todo[m]) => ~GoesDown(m)'
        /\ "mount" \in Range(todo[m]) => Asked(m, "mount")'
        /\ "unmount" \in Range(todo[m]) => Unmounting(m)'
        /\ Asked(m, "mount")' => Asked(m, "mount")
        /\ Asked(m, "unmount")' => Asked(m, "unmount")
    BY <1>3, <2>1 DEF GoesDown, Asked, Unmounting
  <2>4. GoesDown(m)' => ~Wanted(m)
    BY <1>8, <2>3 DEF FollowsUsers, GoesDown
  <2>5. CASE MountDone(n, ok)
    <3>1. command[m] = "mount" /\ mounted' \subseteq mounted \cup {m} /\ m \in probed
      BY <1>8, <2>5 DEF MountDone, FollowsUsers, Asked
    <3>2. CASE ~ok
      <4>1. m \in excused'
        BY <1>8, <2>5, <3>2 DEF MountDone
      <4> QED
        BY <1>3, <2>1, <2>2, <2>4, <3>1, <4>1 DEF FollowsUsers
    <3>3. CASE ok
      <4>1. m \in mounted' /\ excused' = IF users = {} THEN excused ELSE excused \ {m}
        BY <1>8, <2>5, <3>3 DEF MountDone
      <4>2. m \notin excused' /\ ~Wanted(m) => m \notin excused
        BY <4>1 DEF Wanted
      <4>3. m \notin excused' /\ ~Wanted(m) => "unmount" \in Range(todo[m])
        BY <1>8, <3>1, <4>2 DEF FollowsUsers, Unmounting
      <4> QED
        BY <1>3, <2>1, <2>2, <2>3, <2>4, <3>1, <4>1, <4>3 DEF FollowsUsers
    <3> QED
      BY <3>2, <3>3
  <2>6. CASE UnmountDone(n, ok)
    <3>1. mounted' \subseteq mounted
      BY <2>6 DEF UnmountDone
    <3>2. m \in mounted' \/ Asked(m, "mount")' \/ Asked(m, "unmount")' => m \in probed
      BY <1>8, <2>3, <3>1 DEF FollowsUsers
    <3>3. CASE m \in excused'
      BY <1>3, <2>2, <2>4, <3>2, <3>3 DEF FollowsUsers
    <3>4. CASE m \notin excused'
      <4>1. ok /\ command[m] = "unmount" /\ m \notin mounted'
        BY <1>8, <2>6, <3>4 DEF UnmountDone
      <4>2. m \in probed
        BY <1>8, <4>1 DEF FollowsUsers, Asked
      <4>3. Wanted(m) => "mount" \in Range(todo[m])
        BY <1>8, <4>1 DEF FollowsUsers, GoesDown
      <4> QED
        BY <1>3, <2>1, <2>2, <2>3, <2>4, <4>1, <4>2, <4>3 DEF FollowsUsers
    <3> QED
      BY <3>3, <3>4
  <2> QED
    BY <1>2, <2>5, <2>6
<1> QED
  BY <1>5, <1>6, <1>7, <1>8

\* A medium that is published has no disk; nor has one that was told of again,
\* before the first news was taken.
LEMMA KernelFollows ==
  ASSUME MediaInv, DeferInv, Kernel, Undisturbed, NEW m \in Volume
  PROVE  (Here(m)' => FollowsUsers(m)') /\ (Unseen(m)' => Untouched(m)')
<1>1. m \in Medium
  BY DEF Volume
<1>2. UNCHANGED <<list, late, users, todo, command, mounted, probed, staged, excused>>
  BY DEF Kernel, Undisturbed, diskVars, userVars, volumeVars, ghosts
<1>3. PICK n \in Medium : \/ Publish(n) \/ Reregister(n) \/ Calm(n) \/ Stir(n)
                          \/ Terminate(n) \/ Detach(n)
  BY DEF Kernel
<1>4. registry \in [Medium -> {"out", "in", "leaving", "gone"}] /\ matched \in Seq(Medium)
  BY DEF MediaInv, MediaTypeOK
<1>5. registry'[m] = "out" => registry[m] = "out"
  BY <1>1, <1>3, <1>4 DEF Publish, Reregister, Calm, Stir, Terminate, Detach
<1>6. matched' = matched \/ (matched' = Append(matched, n) /\ registry[n] \in {"out", "in"})
  BY <1>3 DEF Publish, Reregister, Calm, Stir, Terminate, Detach
<1>7. m \in Range(matched') => m \in Range(matched) \/ (m = n /\ registry[n] \in {"out", "in"})
  <2>1. Range(Append(matched, n)) = Range(matched) \cup {n}
    BY <1>4, AppendFacts
  <2> QED
    BY <1>6, <2>1
<1>8. Unseen(m)' => Unseen(m)
  BY <1>1, <1>2, <1>5, <1>7 DEF Unseen, Queued, MediaInv, NamesInv, In
<1>9. (FollowsUsers(m)' <=> FollowsUsers(m)) /\ (Untouched(m)' <=> Untouched(m))
  BY <1>2, UndisturbedFollows
<1>10. Here(m)' <=> Here(m)
  BY <1>2 DEF Here
<1> QED
  BY <1>8, <1>9, <1>10 DEF DeferInv

\* Every step keeps the invariant of volumes.
LEMMA DeferInvStep ==
  ASSUME MediaInv, UnitInv, ConsoleTypes, DeferInv, [Next]_vars
  PROVE  DeferInv'
<1> SUFFICES ASSUME NEW m \in Volume
             PROVE  (Here(m)' => FollowsUsers(m)') /\ (Unseen(m)' => Untouched(m)')
  BY DEF DeferInv
<1>1. CASE UNCHANGED <<registry, matched, list, late, users, todo, command, mounted, probed, staged, excused>>
  <2>1. (FollowsUsers(m)' <=> FollowsUsers(m)) /\ (Untouched(m)' <=> Untouched(m))
    BY <1>1, UndisturbedFollows
  <2>2. (Here(m)' <=> Here(m)) /\ (Unseen(m)' <=> Unseen(m))
    BY <1>1 DEF Here, Unseen, Queued
  <2> QED
    BY <2>1, <2>2 DEF DeferInv
<1>2. CASE UNCHANGED <<mediaVars, userVars, volumeVars, ghosts>>
  BY <1>1, <1>2 DEF mediaVars, kernelVars, diskVars, userVars, volumeVars, ghosts
<1>3. CASE Undisturbed /\ UNCHANGED <<registry, matched, list, late>>
  BY <1>1, <1>3 DEF Undisturbed, userVars, volumeVars, ghosts
<1>4. CASE Console
  <2>1. excused' = excused /\ matched' = matched
    BY <1>4 DEF Console, Login, LoginDone, SwitchOut, SwitchTo, Leave, Left, ghosts
  <2> QED
    BY <1>1, <1>4, <2>1 DEF Console, diskVars, userVars, volumeVars
<1> QED
  BY <1>2, <1>3, <1>4, StepKinds, CallbackFollows, ConfigurationFollows, StagesFollow, BeginFollows,
     DoneFollows, KernelFollows

\* At first there are no disks.
LEMMA DeferInvInit ==
  ASSUME Init
  PROVE  DeferInv
BY DEF Init, MediaInit, DeferInv, Here, Untouched, Volume

\* When its work is done, the daemon has the volumes as the users want them, which
\* _DAConfigurationCallback asks for and DAMountWithArguments defers.
THEOREM VolumesFollowTheUsers == Spec => []DeferredFollowsUsers
<1>1. Init => ConsoleTypes /\ DeferInv
  BY ConsoleTypesInit, DeferInvInit
<1>2. MediaInv /\ UnitInv /\ ConsoleTypes /\ DeferInv /\ [Next]_vars => (ConsoleTypes /\ DeferInv)'
  BY ConsoleTypesStep, DeferInvStep
<1>3. DeferInv => DeferredFollowsUsers
  <2> SUFFICES ASSUME DeferInv, AtRest, NEW m \in (list \cap Volume) \ (excused \cup late)
               PROVE  m \in mounted <=> (users # {} \/ m \notin Deferred \/ m \in NoDefer)
    BY DEF DeferredFollowsUsers
  <2>1. FollowsUsers(m)
    BY DEF DeferInv, Here
  <2>2. m \in staged /\ todo[m] = <<>> /\ command[m] = "none"
    BY DEF AtRest, Volume
  <2>3. ~Unmounting(m) /\ ~Asked(m, "mount")
    BY <2>2, EmptyRange DEF Unmounting, Asked
  <2> QED
    BY <2>1, <2>2, <2>3 DEF FollowsUsers, Wanted
<1> QED
  BY <1>1, <1>2, <1>3, MediaInvariant, PTL DEF Spec

-----------------------------------------------------------------------------
(* A logout                                                                *)

\* The daemon is yet to hear that the user at the console has left.
Unheeded == configNews /\ console = NoUser /\ user # NoUser /\ session[user] \in {"leaving", "out"}

\* A volume that is owed is on the list; it is asked for, or will be.
OwedInv ==
  /\ owed \subseteq list \cap probed
  /\ \A u \in User : session[u] = "login" => console = u
  /\ \A m \in Medium : mountedBy[m] \in User => m \in Encrypted \cap Deferred
  /\ \A m \in owed : Asked(m, "leave") \/ (Unheeded /\ Owned(m))

\* What changes none of this keeps it.
LEMMA OwedSame ==
  ASSUME OwedInv, UNCHANGED <<consoleVars, user, todo, command, mountedBy, owed>>,
         owed \subseteq list' \cap probed'
  PROVE  OwedInv'
BY DEF OwedInv, consoleVars, Asked, Unheeded, Owned

\* A disk that is dropped is owed no more; others keep their requests.
LEMMA CallbackOwes ==
  ASSUME ConsoleTypes, OwedInv, Callback
  PROVE  OwedInv'
<1>1. PICK s, n : Result(s, n) /\ Leaves(s) /\ Follow(s)
  BY DEF Callback
<1>2. /\ list \subseteq list' \cup s.dropped /\ list \cap s.made \subseteq s.dropped
      /\ probed' = probed \ (s.made \cup s.dropped) /\ owed' = owed \ s.dropped
  BY <1>1, FoundIsFound DEF Result, Outcome, FoundIs, Leaves, Follow
<1>3. UNCHANGED <<console, session, configNews, user, command, mountedBy>>
  BY <1>1 DEF Follow, consoleVars, userVars
<1>4. owed' \subseteq list' \cap probed'
  BY <1>2 DEF OwedInv
<1>5. owed \subseteq Medium
  BY DEF ConsoleTypes, VolumeTypes, Volume
<1>6. ASSUME NEW m \in owed' PROVE Asked(m, "leave")' \/ (Unheeded' /\ Owned(m)')
  <2>1. m \in owed /\ m \in Medium
    BY <1>2, <1>5
  <2>2. "leave" \in Range(todo[m]) => "leave" \in Range(todo'[m])
    BY <1>1, <2>1, FollowAsks DEF ConsoleTypes
  <2> QED
    BY <1>3, <2>1, <2>2 DEF OwedInv, Asked, Unheeded, Owned
<1> QED
  BY <1>3, <1>4, <1>6 DEF OwedInv

\* What the daemon hears of, it asks for.
LEMMA ConfigurationOwes ==
  ASSUME ConsoleTypes, OwedInv, NEW cookie \in BOOLEAN, Configuration(cookie)
  PROVE  OwedInv'
<1>1. UNCHANGED <<console, session, list, probed, command, mountedBy, owed>>
  BY DEF Configuration, diskVars
<1>2. owed \subseteq Medium
  BY DEF ConsoleTypes, VolumeTypes, Volume
<1>3. ASSUME NEW m \in owed PROVE Asked(m, "leave")'
  <2>1. /\ m \in ToLeave => "leave" \in Range(todo'[m])
        /\ "leave" \in Range(todo[m]) => "leave" \in Range(todo'[m])
    BY <1>2, ConfigurationAsks DEF ConsoleTypes
  <2>2. CASE Asked(m, "leave")
    BY <1>1, <2>1, <2>2 DEF Asked
  <2>3. CASE Unheeded /\ Owned(m)
    <3>1. LoggedOut /\ user # NoUser
      BY <2>3 DEF Unheeded, LoggedOut, Stays, Information
    <3>2. m \in ToLeave
      BY <2>3, <3>1 DEF OwedInv, ToLeave
    <3> QED
      BY <2>1, <3>2 DEF Asked
  <2> QED
    BY <2>2, <2>3 DEF OwedInv
<1> QED
  BY <1>1, <1>3 DEF OwedInv

\* Stages, requests and commands: what is owed is asked for until it is tried.
LEMMA StagesOwe ==
  ASSUME ConsoleTypes, OwedInv, NEW n \in Volume, Probe(n) \/ StageMount(n)
  PROVE  OwedInv'
<1>1. /\ UNCHANGED <<consoleVars, user, command, mountedBy, owed, list>>
      /\ probed \subseteq probed'
  BY DEF Probe, StageMount, ghosts, userVars, diskVars
<1>2. n \in Medium /\ owed \subseteq Medium
  BY DEF ConsoleTypes, VolumeTypes, Volume
<1>3. ASSUME NEW m \in owed PROVE "leave" \in Range(todo[m]) => "leave" \in Range(todo'[m])
  <2>1. todo'[m] = todo[m] \/ todo'[m] = Append(todo[m], "mount")
    BY <1>2 DEF Probe, StageMount, ConsoleTypes, Queues
  <2>2. todo[m] \in Seq(Request) /\ "mount" \in Request
    BY <1>2 DEF ConsoleTypes, Queues, Request
  <2>3. Range(Append(todo[m], "mount")) = Range(todo[m]) \cup {"mount"}
    BY <2>2, AppendFacts
  <2> QED
    BY <2>1, <2>3
<1> QED
  BY <1>1, <1>3 DEF OwedInv, consoleVars, Asked, Unheeded, Owned

\* The request becomes the command, or finds the volume not mounted.
LEMMA BeginOwes ==
  ASSUME ConsoleTypes, OwedInv, NEW n \in Medium, Begin(n)
  PROVE  OwedInv'
<1> DEFINE h == Head(todo[n])
<1>1. todo[n] \in Seq(Request) /\ todo[n] # <<>> /\ command[n] = "none"
      /\ UNCHANGED <<consoleVars, user, mountedBy, list, probed>>
  BY DEF Begin, diskVars, userVars, ConsoleTypes, Queues
<1>2. owed \subseteq Medium
  BY DEF ConsoleTypes, VolumeTypes, Volume
<1>3. /\ \A m \in Medium : m # n => todo'[m] = todo[m] /\ command'[m] = command[m]
      /\ todo'[n] = Tail(todo[n])
      /\ \/ command'[n] = "none" /\ owed' = IF h = "leave" THEN owed \ {n} ELSE owed
         \/ command'[n] = h /\ owed' = owed
  BY <1>1 DEF Begin, ConsoleTypes, Queues
<1>4. Range(todo[n]) = Range(todo'[n]) \cup {h}
  BY <1>1, <1>3, TailFacts
<1> HIDE DEF h
<1>5. ASSUME NEW m \in owed' PROVE Asked(m, "leave")' \/ (Unheeded' /\ Owned(m)')
  <2>1. m \in owed /\ m \in Medium
    BY <1>2, <1>3
  <2>2. CASE Asked(m, "leave")
    <3>1. CASE m = n
      BY <1>1, <1>3, <1>4, <2>2, <3>1 DEF Asked
    <3>2. CASE m # n
      BY <1>3, <2>1, <2>2, <3>2 DEF Asked
    <3> QED
      BY <3>1, <3>2
  <2>3. CASE Unheeded /\ Owned(m)
    BY <1>1, <2>3 DEF Unheeded, Owned, consoleVars
  <2> QED
    BY <2>1, <2>2, <2>3 DEF OwedInv
<1> QED
  BY <1>1, <1>3, <1>5 DEF OwedInv, consoleVars

\* Unmounting was tried; or the volume has been mounted for the user.
LEMMA DoneOwes ==
  ASSUME ConsoleTypes, OwedInv, NEW n \in Medium, Done(n)
  PROVE  OwedInv'
<1>1. PICK ok \in BOOLEAN : MountDone(n, ok) \/ UnmountDone(n, ok)
  BY DEF Done
<1>2. UNCHANGED <<consoleVars, user, todo, list, probed>>
      /\ command' = [command EXCEPT ![n] = "none"]
  BY DEF Done, diskVars, userVars
<1>3. owed \subseteq Medium
  BY DEF ConsoleTypes, VolumeTypes, Volume
<1>4. /\ owed' \subseteq owed
      /\ command[n] = "mount" \/ n \notin owed'
  BY <1>1 DEF MountDone, UnmountDone
<1>5. mountedBy' = mountedBy \/ (n \in Encrypted \cap Deferred /\ mountedBy' = [mountedBy EXCEPT ![n] = user])
  BY <1>1 DEF MountDone, UnmountDone
<1>6. \A m \in Medium : mountedBy'[m] = mountedBy[m] \/ (m \in Encrypted \cap Deferred /\ mountedBy'[m] = user)
  BY <1>5 DEF ConsoleTypes, VolumeTypes
<1>7. ASSUME NEW m \in owed' PROVE Asked(m, "leave")' \/ (Unheeded' /\ Owned(m)')
  <2>1. m \in owed /\ m \in Medium
    BY <1>3, <1>4
  <2>2. CASE Asked(m, "leave")
    <3>1. command[m] = "leave" => m # n
      BY <1>4
    <3>2. command'[m] = IF m = n THEN "none" ELSE command[m]
      BY <1>2, <2>1 DEF ConsoleTypes, Queues
    <3> QED
      BY <1>2, <2>2, <3>1, <3>2 DEF Asked
  <2>3. CASE Unheeded /\ Owned(m)
    BY <1>2, <1>6, <2>1, <2>3 DEF Unheeded, Owned, consoleVars
  <2> QED
    BY <2>1, <2>2, <2>3 DEF OwedInv
<1> QED
  BY <1>2, <1>4, <1>6, <1>7 DEF OwedInv, consoleVars

\* What a user leaves behind is owed, until the daemon hears of it.
LEMMA ConsoleOwes ==
  ASSUME ConsoleTypes, OwedInv, Console
  PROVE  OwedInv'
<1>1. UNCHANGED <<list, probed, user, todo, command, mountedBy>>
  BY DEF Console, diskVars, userVars, volumeVars
<1>2. PICK u \in User : \/ Login(u) \/ LoginDone(u) \/ SwitchOut(u)
                        \/ SwitchTo(u) \/ Leave(u) \/ Left(u)
  BY DEF Console
<1>3. /\ u # NoUser /\ session \in [User -> {"out", "login", "in", "leaving"}]
      /\ configNews \in BOOLEAN
  BY ConsoleAssumption DEF ConsoleTypes, UserTypes
<1>4. \A v \in User : session'[v] = "login" => console' = v
  <2> SUFFICES ASSUME NEW v \in User, session'[v] = "login" PROVE console' = v
    OBVIOUS
  <2>1. session[v] = "login" => console = v /\ console \in User
    BY DEF OwedInv
  <2>2. console # NoUser \/ session[v] # "login"
    BY <2>1, ConsoleAssumption
  <2>3. CASE Login(u)
    BY <1>3, <2>2, <2>3 DEF Login
  <2>4. CASE LoginDone(u)
    BY <1>3, <2>1, <2>4 DEF LoginDone
  <2>5. CASE SwitchOut(u)
    BY <2>1, <2>5 DEF SwitchOut
  <2>6. CASE SwitchTo(u)
    BY <2>2, <2>6 DEF SwitchTo
  <2>7. CASE Leave(u)
    BY <1>3, <2>1, <2>7 DEF Leave
  <2>8. CASE Left(u)
    BY <1>3, <2>1, <2>8 DEF Left
  <2> QED
    BY <1>2, <2>3, <2>4, <2>5, <2>6, <2>7, <2>8
<1>5. \A m : (Asked(m, "leave")' <=> Asked(m, "leave")) /\ (Owned(m)' <=> Owned(m))
  BY <1>1 DEF Asked, Owned
<1>6. owed' \subseteq list \cap probed /\ \A m \in owed' : Asked(m, "leave") \/ (Unheeded' /\ Owned(m))
  <2>1. CASE Login(u) \/ SwitchTo(u)
    <3>1. owed' = IF configNews THEN {} ELSE owed
      BY <2>1 DEF Login, SwitchTo, Unheard
    <3> QED
      BY <3>1 DEF OwedInv, Unheeded
  <2>2. CASE LoginDone(u)
    <3>1. owed' = owed /\ console = u
      BY <2>2 DEF LoginDone, ghosts, OwedInv
    <3> QED
      BY <1>3, <3>1 DEF OwedInv, Unheeded
  <2>3. CASE SwitchOut(u)
    <3>1. owed' = owed /\ console = u
      BY <2>3 DEF SwitchOut, ghosts
    <3> QED
      BY <1>3, <3>1 DEF OwedInv, Unheeded
  <2>4. CASE Leave(u)
    <3>1. /\ console = u /\ console' = NoUser /\ configNews' = TRUE /\ session'[u] = "leaving"
          /\ owed' = IF user # u THEN owed ELSE owed \cup
               {m \in list \cap probed : Owner[m] = u \/ (mountedBy[m] = u /\ m \in mounted)}
      BY <1>3, <2>4 DEF Leave, Changes
    <3>2. \A m \in owed : Asked(m, "leave") /\ m \in list \cap probed
      BY <1>3, <3>1 DEF OwedInv, Unheeded
    <3>3. user = u => Unheeded'
      BY <1>1, <1>3, <3>1 DEF Unheeded
    <3>4. \A m \in probed : user = u /\ (Owner[m] = u \/ mountedBy[m] = u) => Owned(m)
      BY DEF OwedInv, Owned, ConsoleTypes, VolumeTypes, Volume
    <3> QED
      BY <3>1, <3>2, <3>3, <3>4
  <2>5. CASE Left(u)
    <3>1. owed' = owed /\ Unheeded => Unheeded'
      BY <1>1, <1>3, <2>5 DEF Left, Unheeded
    <3> QED
      BY <2>5, <3>1 DEF OwedInv, Left, ghosts
  <2> QED
    BY <1>2, <2>1, <2>2, <2>3, <2>4, <2>5
<1> QED
  BY <1>1, <1>4, <1>5, <1>6 DEF OwedInv

\* Every step keeps it.
LEMMA OwedInvStep ==
  ASSUME MediaInv, UnitInv, ConsoleTypes, OwedInv, [Next]_vars
  PROVE  OwedInv'
<1>1. CASE Undisturbed /\ list' = list
  <2>1. UNCHANGED <<consoleVars, user, todo, command, mountedBy, owed>> /\ owed \subseteq list' \cap probed'
    BY <1>1 DEF Undisturbed, userVars, volumeVars, ghosts, OwedInv
  <2> QED
    BY <2>1, OwedSame
<1>2. CASE Waits /\ configNews' = FALSE
           /\ UNCHANGED <<mediaVars, console, session, agents, userVars, volumeVars, ghosts>>
  <2>1. console # NoUser
    BY <1>2 DEF Waits
  <2> QED
    BY <1>2, <2>1 DEF mediaVars, diskVars, userVars, volumeVars, ghosts, OwedInv, Asked, Unheeded, Owned
<1>3. CASE Kernel /\ Undisturbed
  BY <1>1, <1>3 DEF Kernel, diskVars
<1> QED
  BY <1>1, <1>2, <1>3, StepKinds, CallbackOwes, ConfigurationOwes, StagesOwe, BeginOwes, DoneOwes, ConsoleOwes

\* At first nothing is owed.
LEMMA OwedInvInit ==
  ASSUME Init
  PROVE  OwedInv
BY ConsoleAssumption DEF Init, OwedInv

\* When its work is done after a logout, the daemon has unmounted what the user had,
\* or has tried: _DAConfigurationCallback asks for all of it, whatever was under way.
THEOREM ALogoutUnmounts == Spec => []LogoutUnmounts
<1>1. Init => ConsoleTypes /\ OwedInv
  BY ConsoleTypesInit, OwedInvInit
<1>2. MediaInv /\ UnitInv /\ ConsoleTypes /\ OwedInv /\ [Next]_vars => (ConsoleTypes /\ OwedInv)'
  BY ConsoleTypesStep, OwedInvStep
<1>3. ConsoleTypes /\ OwedInv => LogoutUnmounts
  <2> SUFFICES ASSUME ConsoleTypes, OwedInv, AtRest, ~configNews PROVE owed = {}
    BY DEF LogoutUnmounts
  <2>1. \A m \in owed : todo[m] = <<>> /\ command[m] = "none"
    BY DEF AtRest, ConsoleTypes, VolumeTypes, Volume
  <2> QED
    BY <2>1, EmptyRange DEF OwedInv, Asked, Unheeded
<1> QED
  BY <1>1, <1>2, <1>3, MediaInvariant, PTL DEF Spec
=============================================================================
