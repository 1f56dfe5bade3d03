------------------------------ MODULE DAMedia ------------------------------
(***************************************************************************)
(* The list of disks and the media of I/O Kit: the callbacks of DAServer.c *)
(* for media that appear, disappear, and become busy or calm, and the part *)
(* of DAStage.c that waits for a unit to quiesce and for the daemon to be  *)
(* idle.                                                                   *)
(*                                                                         *)
(* Media that appeared and media that disappeared are told of through two  *)
(* iterators, which keep each their order but say nothing of the order     *)
(* between them; each callback empties its iterator, and may have to look  *)
(* into the other.  That a medium is busy is told by messages of its own.  *)
(*                                                                         *)
(* DAConsole adds what becomes of the volumes, and the specification.      *)
(***************************************************************************)
EXTENDS Naturals, Sequences, Functions, FiniteSets

CONSTANTS
  Medium,   \* IOMedia objects
  idOf,     \* idOf[m]: the BSD name of m, which later media use again
  unitOf,   \* unitOf[m]: its number
  Whole,    \* the media that are a whole device
  Apfs,     \* the units with APFS
  Restless, \* the media that are busy for a while when they are published
  Present,  \* the media that are there when the daemon starts, in their order
  MaxEvent  \* what happens to media: publications, terminations, and so on

\* The BSD name of a whole device is "disk" and its unit; no two media that are
\* there have one name.
ASSUME MediaAssumption ==
  /\ DOMAIN idOf = Medium /\ DOMAIN unitOf = Medium
  /\ Whole \subseteq Medium /\ Restless \subseteq Medium
  /\ \A m, n \in Medium : idOf[m] = idOf[n] => unitOf[m] = unitOf[n] /\ (m \in Whole <=> n \in Whole)
  /\ \A m, n \in Whole : unitOf[m] = unitOf[n] => idOf[m] = idOf[n]
  /\ Present \in Seq(Medium) /\ IsInjective(Present)
  /\ \A m, n \in Range(Present) : idOf[m] = idOf[n] => m = n
  /\ MaxEvent \in Nat

Unit == {unitOf[m] : m \in Medium}

VARIABLES
  registry, \* registry[m]: "out", "in", "leaving" (terminated, but still there), "gone"
  ioBusy,   \* the media that are busy
  matched,  \* gDAMediaAppearedNotification
  ended,    \* gDAMediaDisappearedNotification
  busyNews, \* busyNews[m]: messages that m is busy, or not
  list,     \* gDADiskList: the media with a disk
  busy,     \* busy[m]: kDADiskStateBusy: "no", "busy", "overdue" (for too long)
  quiesced, \* the units with kDAUnitStateHasQuiescedNoTimeout
  skipped,  \* the disks that were created with kDADiskStateStagedMount
  timers,   \* the disks a busy timer was set for
  signal,   \* a dispatch is under way to the work loop
  idle,     \* gDAIdle
  events,   \* how much has happened to media
  early,    \* media published before their unit was calm for the first time
  late      \* media that disappeared with news of them in gDAMediaAppearedNotification

kernelVars == <<registry, ioBusy, matched, ended, busyNews, events, early>>
diskVars   == <<list, busy, quiesced, skipped, late>>
stageVars  == <<timers, signal, idle>>
mediaVars  == <<kernelVars, diskVars, stageVars>>

MediaTypeOK ==
  /\ registry \in [Medium -> {"out", "in", "leaving", "gone"}]
  /\ ioBusy \subseteq Medium /\ list \subseteq Medium /\ timers \subseteq Medium
  /\ skipped \subseteq Medium /\ early \subseteq Medium /\ late \subseteq Medium
  /\ matched \in Seq(Medium) /\ ended \in Seq(Medium)
  /\ busyNews \in [Medium -> Seq(BOOLEAN)]
  /\ busy \in [Medium -> {"no", "busy", "overdue"}]
  /\ quiesced \subseteq Unit
  /\ signal \in BOOLEAN /\ idle \in BOOLEAN
  /\ events \in 0 .. MaxEvent

MediaInit ==
  /\ registry = [m \in Medium |-> IF m \in Range(Present) THEN "in" ELSE "out"]
  /\ ioBusy = Restless \cap Range(Present)
  /\ matched = Present /\ ended = <<>> /\ busyNews = [m \in Medium |-> <<>>]
  /\ list = {} /\ busy = [m \in Medium |-> "no"]
  /\ quiesced = {} /\ skipped = {} /\ timers = {}
  /\ signal = FALSE /\ idle = TRUE
  /\ events = 0 /\ late = {}
  /\ early = {m \in Range(Present) : \E w \in Whole \cap ioBusy : unitOf[w] = unitOf[m]}

-----------------------------------------------------------------------------
(* I/O Kit                                                                 *)

Happens == events < MaxEvent /\ events' = events + 1

\* The unit of m has not been calm since the whole device was published.
Starting(m) == \E w \in Whole : unitOf[w] = unitOf[m] /\ registry[w] = "in" /\ w \in early

\* A name is given out again when its medium is terminated.
Publish(m) ==
  /\ Happens
  /\ registry[m] = "out" /\ \A n \in Medium : idOf[n] = idOf[m] => registry[n] # "in"
  /\ m \notin Whole => \E w \in Whole : unitOf[w] = unitOf[m] /\ registry[w] = "in"
  /\ registry' = [registry EXCEPT ![m] = "in"]
  /\ matched' = Append(matched, m)
  /\ ioBusy' = IF m \in Restless THEN ioBusy \cup {m} ELSE ioBusy
  /\ early' = IF (m \in Whole /\ m \in Restless) \/ Starting(m) THEN early \cup {m} ELSE early
  /\ UNCHANGED <<ended, busyNews>>

Reregister(m) ==
  /\ Happens
  /\ registry[m] = "in"
  /\ matched' = Append(matched, m)
  /\ UNCHANGED <<registry, ioBusy, ended, busyNews, early>>

Tell(m, b) == busyNews' = IF m \in list THEN [busyNews EXCEPT ![m] = Append(@, b)] ELSE busyNews

\* Media are published while the medium they are on is busy.
Calm(m) ==
  /\ m \in ioBusy
  /\ ioBusy' = ioBusy \ {m} /\ Tell(m, FALSE)
  /\ early' = early \ (Whole \cap {m})
  /\ UNCHANGED <<registry, matched, ended, events>>

Stir(m) ==
  /\ Happens
  /\ registry[m] = "in" /\ m \in Restless \ ioBusy
  /\ ioBusy' = ioBusy \cup {m} /\ Tell(m, TRUE)
  /\ UNCHANGED <<registry, matched, ended, early>>

\* What is on a device goes before it.
Terminate(m) ==
  /\ Happens
  /\ registry[m] = "in"
  /\ m \in Whole => \A n \in Medium \ Whole : unitOf[n] = unitOf[m] => registry[n] # "in"
  /\ registry' = [registry EXCEPT ![m] = "leaving"]
  /\ ended' = Append(ended, m)
  /\ UNCHANGED <<ioBusy, matched, busyNews, early>>

\* A medium that is terminated can be read until it is detached.
Detach(m) ==
  /\ registry[m] = "leaving"
  /\ registry' = [registry EXCEPT ![m] = "gone"]
  /\ ioBusy' = ioBusy \ {m}
  /\ UNCHANGED <<matched, ended, busyNews, events, early>>

Kernel ==
  /\ \E m \in Medium : \/ Publish(m) \/ Reregister(m) \/ Calm(m) \/ Stir(m)
                       \/ Terminate(m) \/ Detach(m)
  /\ UNCHANGED <<diskVars, stageVars>>

-----------------------------------------------------------------------------
(* Disks come and go.  A callback is a function from what it finds to what   *)
(* it leaves, and tells which disks it made, dropped, and found there.       *)

Found == [matched |-> matched, news |-> busyNews, list |-> list, busy |-> busy,
          quiesced |-> quiesced, skipped |-> skipped, late |-> late,
          made |-> {}, dropped |-> {}, again |-> {}]

Leaves(s) ==
  /\ matched' = s.matched /\ busyNews' = s.news /\ list' = s.list /\ busy' = s.busy
  /\ quiesced' = s.quiesced /\ skipped' = s.skipped /\ late' = s.late
  /\ UNCHANGED <<registry, ioBusy, events, early>>

\* DAStageSignal.
Signals == signal' = TRUE /\ idle' = FALSE /\ UNCHANGED timers

\* The body of _DAMediaDisappearedCallback, for the disk of m.
Dropped(s, m) ==
  [s EXCEPT !.list = @ \ {m}, !.dropped = @ \cup {m}, !.made = @ \ {m}, !.again = @ \ {m},
            !.skipped = @ \ {m}, !.busy[m] = "no", !.news[m] = <<>>,
            !.quiesced = IF m \in Whole THEN @ \ {unitOf[m]} ELSE @]

\* A disk is busy if its medium is; and is not to be mounted, on a unit with
\* APFS that was calm.
Made(s, m) ==
  [s EXCEPT !.list = @ \cup {m}, !.made = @ \cup {m},
            !.busy[m] = IF m \in ioBusy THEN "busy" ELSE "no",
            !.skipped = IF unitOf[m] \in Apfs \cap s.quiesced THEN @ \cup {m} ELSE @]

Twins(s, m) == {n \in s.list : idOf[n] = idOf[m]}

\* The body of _DAMediaAppearedCallback, for m.  No disk can be made for a
\* medium that is gone.  A disk of the same name has disappeared, which is taken
\* first; the mutant leaves it for later.
AppearedTwice(s, m) ==
  IF m \in s.list THEN [s EXCEPT !.again = @ \cup {m}]
  ELSE IF registry[m] = "gone" THEN s ELSE Made(s, m)
Appeared(s, m) ==
  IF m \in s.list THEN [s EXCEPT !.again = @ \cup {m}]
  ELSE IF registry[m] = "gone" THEN s
  ELSE IF Twins(s, m) = {} THEN Made(s, m)
  ELSE Made(Dropped(s, CHOOSE n \in Twins(s, m) : TRUE), m)

_DAMediaAppearedCallback(s) ==
  LET taken[n \in 0 .. Len(s.matched)] ==
        IF n = 0 THEN s ELSE Appeared(taken[n - 1], s.matched[n])
  IN [taken[Len(s.matched)] EXCEPT !.matched = <<>>]

\* A medium that is not on the list has appeared, or had: that is taken first.
\* The mutant does nothing for it.
DisappearedOnly(s, m) ==
  IF m \notin s.list THEN s
  ELSE [Dropped(s, m) EXCEPT !.late = IF m \in Range(s.matched) THEN @ \cup {m} ELSE @]
Disappeared(s, m) ==
  LET t == IF m \in s.list THEN s ELSE _DAMediaAppearedCallback(s)
  IN IF m \notin t.list THEN t
     ELSE [Dropped(t, m) EXCEPT !.late = IF m \in Range(t.matched) THEN @ \cup {m} ELSE @]

_DAMediaDisappearedCallback(s) ==
  LET taken[n \in 0 .. Len(ended)] ==
        IF n = 0 THEN s ELSE Disappeared(taken[n - 1], ended[n])
  IN taken[Len(ended)]

Appearances    == _DAMediaAppearedCallback(Found)
Disappearances == _DAMediaDisappearedCallback(Found)

MediaAppeared ==
  /\ matched # <<>>
  /\ Leaves(Appearances) /\ Signals
  /\ UNCHANGED ended

MediaDisappeared ==
  /\ ended # <<>>
  /\ Leaves(Disappearances) /\ Signals
  /\ ended' = <<>>

\* __DAMediaBusyStateChangedCallback: the media that were published while m was
\* busy are taken before m is calm.  The mutant leaves them for later.
CalmOnly(s, m) == [s EXCEPT !.busy[m] = "no"]
Calmed(s, m) == [_DAMediaAppearedCallback(s) EXCEPT !.busy[m] = "no"]

Heard(m) ==
  LET s == [Found EXCEPT !.news[m] = Tail(@)]
  IN IF Head(busyNews[m]) THEN [s EXCEPT !.busy[m] = "busy"] ELSE Calmed(s, m)

HearsBusy(m) ==
  /\ busyNews[m] # <<>>
  /\ Leaves(Heard(m))
  /\ IF Head(busyNews[m]) THEN UNCHANGED stageVars ELSE Signals
  /\ UNCHANGED ended

-----------------------------------------------------------------------------
(* Time, and the end of a pass of DAStage.                                 *)

\* __kDABusyTimerLimit is over.
Overdue(m) ==
  /\ m \in list /\ busy[m] = "busy"
  /\ busy' = [busy EXCEPT ![m] = "overdue"]
  /\ UNCHANGED <<kernelVars, stageVars, list, quiesced, skipped, late>>

Waiting == {m \in list : busy[m] = "busy"}

\* __DABusyTimerRefresh: for the disk that has waited longest.  The mutant leaves
\* it to the next news.
NotArmed(m) == timers
Armed(m) == timers \cup {m}

\* __DABusyTimerCallback.
TimerFires(m) ==
  /\ m \in timers
  /\ timers' = timers \ {m}
  /\ signal' = TRUE /\ idle' = FALSE
  /\ UNCHANGED <<kernelVars, diskVars>>

\* __DAStageDispatch, first and last; quiet: nothing is left to do for a disk.
\* What it does for disks between is in DAStage.
Dispatch(quiet) ==
  /\ signal
  /\ signal' = FALSE
  /\ quiesced' = quiesced \cup {unitOf[m] : m \in {n \in list \cap Whole : busy[n] = "no"}}
  /\ IF Waiting = {} THEN UNCHANGED timers ELSE \E m \in Waiting : timers' = Armed(m)
  /\ idle' = (idle \/ (quiet /\ Waiting = {}))
  /\ UNCHANGED <<kernelVars, list, busy, skipped, late>>
=============================================================================
