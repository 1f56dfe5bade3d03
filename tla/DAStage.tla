------------------------------- MODULE DAStage -------------------------------
(***************************************************************************)
(* How diskarbitrationd brings disks up and serves requests: DAStage.c,    *)
(* the eject, mount and unmount requests of DARequest.c, DAQueueRequest    *)
(* and the media callbacks of DAServer.c.                                  *)
(*                                                                         *)
(* One routine, __DAStageDispatch, walks the disk list and starts the next *)
(* stage of each idle disk, then walks the request list and dispatches     *)
(* what can be dispatched.  Everything slow (probing, asking clients,      *)
(* system calls on threads) is started by it and ends in a callback on the *)
(* work loop, which clears the busy flags and signals the routine to run   *)
(* again.  The walk is a loop here, one entry of a list per step; callbacks*)
(* run only between walks, threads at any time.                            *)
(***************************************************************************)
EXTENDS Integers, Sequences, FiniteSets, DALists

CONSTANTS Disk, Unit, Volume,
          unitOf,     \* unitOf[d]: the unit (device) d is on
          volumeOf,   \* volumeOf[d]: the volume on d, if there is one
          Related,    \* units whose media are stacked upon one another
          Whole,      \* the disks that stand for a whole unit
          Writable,   \* the disks with writable media
          Root,       \* the disks mounted as a system volume
          PreMounted, \* the disks that may be mounted before the daemon sees them
          Leaving,    \* the disks that may leave
          Late,       \* the disks that may join an APFS unit that has quiesced
          ProbeResult,\* what probing may find: "volume", "dirty" or "none"
          AutoMount,  \* whether automatic mounts are enabled
          Asked,      \* whether there is a callback to ask
          Verdict,    \* what clients may answer
          RequestKind,\* the kinds of request clients make
          MaxRequest  \* the number of requests clients make

ASSUME ConstantAssumption ==
  /\ unitOf \in [Disk -> Unit]
  /\ volumeOf \in [Disk -> Volume]
  /\ Related \subseteq Unit \X Unit
  /\ \A p \in Related : <<p[2], p[1]>> \in Related
  /\ RequestKind \subseteq {"Eject", "Mount", "Unmount"}
  /\ ProbeResult \subseteq {"volume", "dirty", "none"}
  /\ AutoMount \subseteq BOOLEAN /\ Asked \subseteq BOOLEAN
  /\ Verdict \subseteq {"none", "dissent", "privilege"}
  /\ Leaving \subseteq Disk /\ Late \subseteq Disk /\ PreMounted \subseteq Disk
  /\ \A d, e \in Whole : unitOf[d] = unitOf[e] => d = e

VARIABLES
  list,       \* gDADiskList
  zombie,     \* kDADiskStateZombie: the disks that left the list
  staged,     \* staged[d]: the kDADiskStateStaged... states of d
  active,     \* kDADiskStateCommandActive
  unitActive, \* kDAUnitStateCommandActive
  content,    \* content[d]: what probing d found
  dirty,      \* kDADiskStateRequireRepair
  path,       \* the disks with a kDADiskDescriptionVolumePathKey
  mounted,    \* the disks in the kernel's mount table
  dangling,   \* gDADanglingVolumeList
  requests,   \* gDARequestList, as indices into req
  req,        \* all requests made so far
  work,       \* what was started and has not called back
  cursor,     \* where the walk is
  signalled,  \* a walk is due
  idle        \* gDAIdle

stageVars == <<list, zombie, staged, content, dirty, path, dangling>>
busyVars  == <<active, unitActive, work>>
reqVars   == <<requests, req>>
loopVars  == <<signalled, idle>>
vars == <<stageVars, busyVars, mounted, reqVars, cursor, loopVars>>

Kind    == {"Eject", "Mount", "Unmount"}
Stage   == {"Probe", "Peek", "Mount", "Appear"}
Dissent == {"none", "dissent", "privilege"}
Command == {"probe", "eject", "ejectPID", "mount", "unmount", "unmountPID"}
Op      == Command \cup {"peek", "approval", "tickle", "authorize"}

Request ==
  [kind : Kind, disk : Disk, whole : BOOLEAN, link : SUBSET Nat, force : BOOLEAN,
   automatic : BOOLEAN, callback : BOOLEAN, probed : BOOLEAN, approved : BOOLEAN,
   authorized : BOOLEAN, dissenter : Dissent, answers : Seq(BOOLEAN)]

NewRequest(kind, d) ==
  [kind |-> kind, disk |-> d, whole |-> FALSE, link |-> {}, force |-> FALSE,
   automatic |-> FALSE, callback |-> FALSE, probed |-> FALSE, approved |-> FALSE,
   authorized |-> FALSE, dissenter |-> "none", answers |-> <<>>]

Work == [op : Op, disk : Disk, req : Nat, status : {"running", "done", "failed"}]

AtRest == [phase |-> "rest", i |-> 0, blocked |-> {}, quiet |-> FALSE]

TypeOK ==
  /\ list       \in Seq(Disk)
  /\ zombie     \in SUBSET Disk
  /\ staged     \in [Disk -> SUBSET Stage]
  /\ active     \in SUBSET Disk
  /\ unitActive \in SUBSET Unit
  /\ content    \in [Disk -> {"unknown", "volume", "none"}]
  /\ dirty      \in SUBSET Disk
  /\ path       \in SUBSET Disk
  /\ mounted    \in SUBSET Disk
  /\ dangling   \in SUBSET Volume
  /\ req        \in Seq(Request)
  /\ requests   \in Seq(1 .. Len(req))
  /\ work       \in SUBSET Work
  /\ \A w \in work : w.req \in 0 .. Len(req)
  /\ cursor     \in [phase : {"rest", "disks", "requests"}, i : Nat,
                     blocked : SUBSET Disk, quiet : BOOLEAN]
  /\ signalled  \in BOOLEAN
  /\ idle       \in BOOLEAN

Init ==
  /\ list = <<>> /\ zombie = {}
  /\ staged = [d \in Disk |-> {}]
  /\ active = {} /\ unitActive = {}
  /\ content = [d \in Disk |-> "unknown"]
  /\ dirty = {} /\ path = {} /\ dangling = {}
  /\ mounted \in SUBSET PreMounted
  /\ requests = <<>> /\ req = <<>> /\ work = {}
  /\ cursor = AtRest
  /\ signalled = FALSE /\ idle = TRUE

-----------------------------------------------------------------------------
Listed == {list[i] : i \in DOMAIN list}
Queued == {requests[i] : i \in DOMAIN requests}

\* DAStageSignal
Signal == signalled' = TRUE /\ idle' = FALSE

\* The mutant does not look at relatives.
UnitBusyAlone(d) == unitOf[d] \in unitActive

\* DAUnitGetStateRecursively.  The registry no longer connects the medium of a
\* disk that has left to others.
UnitBusy(d) ==
  \/ unitOf[d] \in unitActive
  \/ /\ d \notin zombie
     /\ \E u \in unitActive : <<unitOf[d], u>> \in Related

\* Starts an operation on d; a command occupies the unit too.
Begin(op, d, r) ==
  /\ active' = active \cup {d}
  /\ unitActive' = IF op \in Command THEN unitActive \cup {unitOf[d]} ELSE unitActive
  /\ work' = work \cup {[op |-> op, disk |-> d, req |-> r, status |-> "running"]}

\* The mutant leaves the disk's flag set after what is not a command.
EndCommand(w) ==
  /\ work' = work \ {w}
  /\ IF w.op \in Command THEN /\ active' = active \ {w.disk}
                             /\ unitActive' = unitActive \ {unitOf[w.disk]}
                        ELSE UNCHANGED <<active, unitActive>>

End(w) ==
  /\ active' = active \ {w.disk}
  /\ unitActive' = IF w.op \in Command THEN unitActive \ {unitOf[w.disk]} ELSE unitActive
  /\ work' = work \ {w}

\* A callback that starts another thread instead of ending the operation.
Becomes(w, op, status) ==
  /\ work' = (work \ {w}) \cup
               {[op |-> op, disk |-> w.disk, req |-> w.req, status |-> status]}
  /\ UNCHANGED <<active, unitActive>>

\* __DARequestDispatchCallback, for the requests R of the request table q: what
\* is passed to the clients' callbacks.  A request that stands for a whole unit
\* reports its own dissenter or that of a request linked to it, and nothing
\* else.
Answered(q, R, success) ==
  [r \in DOMAIN q |->
     IF r \in R /\ q[r].callback
     THEN [q[r] EXCEPT !.answers = Append(@,
             IF q[r].whole THEN \A s \in q[r].link \cup {r} : q[s].dissenter = "none"
                           ELSE success)]
     ELSE q[r]]

\* The volume's UUID is described once probing found a volume.
Described(d) == IF content[d] = "volume" THEN {volumeOf[d]} ELSE {}

-----------------------------------------------------------------------------
(* The walk over the disks                                                 *)

DispatchBegin ==
  /\ cursor.phase = "rest" /\ signalled
  /\ signalled' = FALSE
  /\ cursor' = [phase |-> "disks", i |-> 1, blocked |-> {}, quiet |-> TRUE]
  /\ UNCHANGED <<stageVars, busyVars, mounted, reqVars, idle>>

Visiting(d) ==
  /\ cursor.phase = "disks"
  /\ cursor.i \in DOMAIN list
  /\ d = list[cursor.i]

\* The mutant forgets that it found something to do.
NextDiskQuietly(quiet) == cursor' = [cursor EXCEPT !.i = @ + 1]

NextDisk(quiet) == cursor' = [cursor EXCEPT !.i = @ + 1, !.quiet = @ /\ quiet]

\* Nothing to do for a disk that is busy, or up.
StageNothing(d) ==
  /\ Visiting(d)
  /\ d \in active \/ staged[d] = Stage
  /\ NextDisk(d \notin active)
  /\ UNCHANGED <<stageVars, busyVars, mounted, reqVars, loopVars>>

StageProbe(d) ==
  /\ Visiting(d) /\ d \notin active
  /\ "Probe" \notin staged[d]
  /\ NextDisk(FALSE)
  /\ IF UnitBusy(d) THEN UNCHANGED <<staged, busyVars>>
     ELSE /\ staged' = [staged EXCEPT ![d] = @ \cup {"Probe"}]
          /\ Begin("probe", d, 0)
  /\ UNCHANGED <<list, zombie, content, dirty, path, dangling, mounted, reqVars, loopVars>>

\* With no callback to ask (asked = FALSE) the peek is over at once (for the
\* consultation itself see DAResponse).
StagePeek(d, asked) ==
  /\ Visiting(d) /\ d \notin active
  /\ "Probe" \in staged[d] /\ "Peek" \notin staged[d]
  /\ NextDisk(FALSE)
  /\ staged' = [staged EXCEPT ![d] = @ \cup {"Peek"}]
  /\ IF asked THEN Begin("peek", d, 0) /\ UNCHANGED loopVars
              ELSE Signal /\ UNCHANGED busyVars
  /\ UNCHANGED <<list, zombie, content, dirty, path, dangling, mounted, reqVars>>

AtMount(d) ==
  /\ Visiting(d) /\ d \notin active
  /\ {"Probe", "Peek"} \subseteq staged[d] /\ "Mount" \notin staged[d]

\* The volume's mount on a disk that has left is still there.
HeldBack(d) ==
  Described(d) \cap dangling \cap {volumeOf[e] : e \in mounted \cap zombie} # {}

\* The mutant lets dirty disks wait for each other.
StalledByAny(d) ==
  /\ d \in dirty
  /\ \E e \in Listed \ {d} : unitOf[e] = unitOf[d] /\ "Mount" \notin staged[e]

\* A dirty disk comes last on its unit.
Stalled(d) ==
  /\ d \in dirty
  /\ \E e \in Listed : /\ unitOf[e] = unitOf[d]
                       /\ \/ "Probe" \notin staged[e]
                          \/ "Mount" \notin staged[e] /\ e \notin dirty

StageMountWaits(d) ==
  /\ AtMount(d)
  /\ HeldBack(d) \/ Stalled(d)
  /\ NextDisk(HeldBack(d))
  /\ UNCHANGED <<stageVars, busyVars, mounted, reqVars, loopVars>>

\* The automatic mount is queued unless the preferences disable it.
StageMount(d, enabled) ==
  /\ AtMount(d) /\ ~HeldBack(d) /\ ~Stalled(d)
  /\ NextDisk(FALSE)
  /\ staged' = [staged EXCEPT ![d] = @ \cup {"Mount"}]
  /\ IF enabled
     THEN /\ req' = Append(req, [NewRequest("Mount", d) EXCEPT !.automatic = TRUE])
          /\ requests' = Append(requests, Len(req'))
     ELSE UNCHANGED reqVars
  /\ Signal
  /\ UNCHANGED <<list, zombie, content, dirty, path, dangling, busyVars, mounted>>

StageAppear(d) ==
  /\ Visiting(d) /\ d \notin active
  /\ staged[d] = Stage \ {"Appear"}
  /\ NextDisk(FALSE)
  /\ staged' = [staged EXCEPT ![d] = Stage]
  /\ Signal
  /\ UNCHANGED <<list, zombie, content, dirty, path, dangling, busyVars, mounted, reqVars>>

-----------------------------------------------------------------------------
(* The walk over the requests                                              *)

DispatchRequests ==
  /\ cursor.phase = "disks" /\ cursor.i > Len(list)
  /\ cursor' = [cursor EXCEPT !.phase = "requests", !.i = 1,
                              !.quiet = @ /\ requests = <<>>]
  /\ UNCHANGED <<stageVars, busyVars, mounted, reqVars, loopVars>>

\* When nothing is going on the daemon is idle.
DispatchEnd ==
  /\ cursor.phase = "requests" /\ cursor.i > Len(requests)
  /\ cursor' = AtRest
  /\ idle' = (idle \/ cursor.quiet)
  /\ UNCHANGED <<stageVars, busyVars, mounted, reqVars, signalled>>

\* The mutant forgets the links.
InvolvedAlone(r) == {req[r].disk}

Involved(r) == {req[r].disk} \cup {req[s].disk : s \in req[r].link}

Dispatching(r) ==
  /\ cursor.phase = "requests"
  /\ cursor.i \in DOMAIN requests
  /\ r = requests[cursor.i]

\* DARequestDispatch goes on to the request's own routine.
Ready(r) ==
  LET d == req[r].disk
  IN /\ Dispatching(r)
     /\ Involved(r) \cap cursor.blocked = {}
     /\ d \notin active
     /\ "Appear" \in staged[d]
     /\ req[r].whole /\ req[r].kind # "Eject" => unitOf[d] \notin unitActive

\* The mutant keeps nothing back.
LeaveOpen(r) == cursor' = [cursor EXCEPT !.i = @ + 1] /\ UNCHANGED requests

\* The routine returns FALSE: the request stays, and nothing that involves one
\* of its disks is dispatched in this walk.
Leave(r) ==
  /\ cursor' = [cursor EXCEPT !.i = @ + 1, !.blocked = @ \cup Involved(r)]
  /\ UNCHANGED requests

\* It returns TRUE: the request, which the cursor is at, is taken off the list.
Take ==
  /\ requests' = SubSeq(requests, 1, cursor.i - 1)
                   \o SubSeq(requests, cursor.i + 1, Len(requests))
  /\ UNCHANGED cursor

IsMount(r) == req[r].kind = "Mount"

\* The mutant does not remember that it did.
NeedsProbeAgain(r) ==
  IsMount(r) /\ ~req[r].automatic /\ req[r].disk \notin path

\* A mount probes the disk anew unless it is automatic, and waits for the probe.
NeedsProbe(r) ==
  /\ IsMount(r) /\ ~req[r].probed
  /\ ~req[r].automatic /\ req[r].disk \notin path

AwaitsProbe(r) ==
  IsMount(r) /\ req[r].probed /\ "Probe" \notin staged[req[r].disk]

\* A forced unmount of a disk that has left needs no approval.
Approved(r) ==
  req[r].approved \/ (req[r].kind = "Unmount" /\ req[r].disk \in zombie)

\* What is refused without asking anybody.
Rejected(r) ==
  LET d == req[r].disk
  IN /\ ~req[r].approved
     /\ CASE req[r].kind = "Eject"   -> d \notin Whole
          [] req[r].kind = "Mount"   -> \/ ~req[r].probed /\ d \in path
                                        \/ content[d] = "none" /\ ~NeedsProbe(r)
                                                               /\ ~AwaitsProbe(r)
          [] req[r].kind = "Unmount" -> content[d] = "none" \/ d \notin path \/ d \in Root

RequestWaits(r) ==
  /\ Dispatching(r)
  /\ ~Ready(r) \/ AwaitsProbe(r)
  /\ Leave(r)
  /\ UNCHANGED <<stageVars, busyVars, mounted, req, loopVars>>

MountReprobe(r) ==
  /\ Ready(r) /\ NeedsProbe(r)
  /\ req' = [req EXCEPT ![r].probed = TRUE]
  /\ staged' = [staged EXCEPT ![req[r].disk] = @ \ {"Probe"}]
  /\ Leave(r) /\ Signal
  /\ UNCHANGED <<list, zombie, content, dirty, path, dangling, busyVars, mounted>>

\* Only an unmount of a system volume leaves a dissenter.
RequestRejected(r) ==
  /\ Ready(r) /\ Rejected(r)
  /\ LET system == req[r].kind = "Unmount" /\ req[r].disk \in Root \cap path
         q == IF system THEN [req EXCEPT ![r].dissenter = "dissent"] ELSE req
     IN req' = Answered(q, {r}, FALSE)
  /\ Take /\ Signal
  /\ UNCHANGED <<stageVars, busyVars, mounted>>

\* The approval commences.  An unmount touches the medium first, to see whether
\* it is still there.
RequestApprove(r, asked) ==
  LET d == req[r].disk
  IN /\ Ready(r)
     /\ ~Approved(r) /\ ~Rejected(r) /\ ~NeedsProbe(r) /\ ~AwaitsProbe(r)
     /\ req' = [req EXCEPT ![r].approved = TRUE, ![r].probed = IsMount(r)]
     /\ IF req[r].kind = "Unmount" /\ d \in Writable
        THEN Begin("tickle", d, r) /\ UNCHANGED loopVars
        ELSE IF asked THEN Begin("approval", d, r) /\ UNCHANGED loopVars
                      ELSE Signal /\ UNCHANGED busyVars
     /\ Leave(r)
     /\ UNCHANGED <<stageVars, mounted>>

\* A dissenter may leave it to the user's authorization.
NeedsAuthorization(r) ==
  IsMount(r) /\ ~req[r].authorized /\ req[r].dissenter = "privilege"

MountAuthorize(r) ==
  /\ Ready(r) /\ req[r].approved /\ ~AwaitsProbe(r) /\ NeedsAuthorization(r)
  /\ req' = [req EXCEPT ![r].dissenter = "none", ![r].authorized = TRUE]
  /\ Begin("authorize", req[r].disk, r)
  /\ Leave(r)
  /\ UNCHANGED <<stageVars, mounted, loopVars>>

RequestRefused(r) ==
  /\ Ready(r) /\ Approved(r) /\ ~AwaitsProbe(r) /\ ~NeedsAuthorization(r)
  /\ req[r].approved \/ ~Rejected(r)
  /\ req[r].dissenter # "none"
  /\ req' = Answered(req, {r}, FALSE)
  /\ Take /\ Signal
  /\ UNCHANGED <<stageVars, busyVars, mounted>>

CommandOf(r) ==
  CASE req[r].kind = "Eject"   -> "eject"
    [] req[r].kind = "Mount"   -> "mount"
    [] req[r].kind = "Unmount" -> "unmount"

\* The command starts if the unit is free, and the request leaves the list.
RequestStart(r) ==
  /\ Ready(r) /\ Approved(r) /\ ~AwaitsProbe(r)
  /\ req[r].approved \/ ~Rejected(r)
  /\ req[r].dissenter = "none"
  /\ req' = [req EXCEPT ![r].approved = TRUE]
  /\ IF UnitBusy(req[r].disk) THEN Leave(r) /\ UNCHANGED busyVars
                              ELSE Take /\ Begin(CommandOf(r), req[r].disk, r)
  /\ UNCHANGED <<stageVars, mounted, loopVars>>

-----------------------------------------------------------------------------
(* Callbacks on the work loop                                              *)

Handler == cursor.phase = "rest" /\ UNCHANGED cursor

\* __DAStageProbeCallback.  A disk that is found mounted before its mount stage
\* takes the mount over.
ProbeDone(w, result) ==
  LET d == w.disk
      adopts == /\ "Mount" \notin staged[d]
                /\ d \in mounted
                /\ result # "none" => volumeOf[d] \notin dangling
  IN /\ Handler /\ w.op = "probe"
     /\ content' = [content EXCEPT ![d] = IF result = "none" THEN "none" ELSE "volume"]
     /\ dirty' = IF result = "dirty" /\ ~adopts THEN dirty \cup {d} ELSE dirty \ {d}
     /\ path' = IF adopts THEN path \cup {d} ELSE path
     /\ End(w) /\ Signal
     /\ UNCHANGED <<list, zombie, staged, dangling, mounted, reqVars>>

PeekDone(w) ==
  /\ Handler /\ w.op = "peek"
  /\ End(w) /\ Signal
  /\ UNCHANGED <<stageVars, mounted, reqVars>>

TickleDone(w, asked) ==
  /\ Handler /\ w.op = "tickle"
  /\ IF asked THEN Becomes(w, "approval", "running") /\ UNCHANGED loopVars
              ELSE End(w) /\ Signal
  /\ UNCHANGED <<stageVars, mounted, reqVars>>

\* What a verdict does to a request.  A forced unmount obeys only the dissent
\* that asks for authorization.
Judged(q, r, verdict) ==
  IF q[r].kind = "Unmount" /\ verdict # "privilege" /\ (q[r].force \/ verdict = "none")
  THEN q ELSE [q EXCEPT ![r].dissenter = verdict]

ApprovalDone(w, verdict) ==
  /\ Handler /\ w.op = "approval"
  /\ req' = Judged(req, w.req, verdict)
  /\ End(w) /\ Signal
  /\ UNCHANGED <<stageVars, mounted, requests>>

AuthorizeDone(w, granted) ==
  /\ Handler /\ w.op = "authorize"
  /\ req' = IF granted THEN req ELSE [req EXCEPT ![w.req].dissenter = "dissent"]
  /\ End(w) /\ Signal
  /\ UNCHANGED <<stageVars, mounted, requests>>

\* The mutant answers before it looks for the process, and then again.
NotesFailureTwice(w, op) ==
  /\ req' = Answered([req EXCEPT ![w.req].dissenter = "dissent"], {w.req}, FALSE)
  /\ Becomes(w, op, "failed")
  /\ UNCHANGED loopVars

\* A command failed: the failure is noted and a thread looks for the process
\* that is in the way, with the same callback.
NotesFailure(w, op) ==
  /\ req' = [req EXCEPT ![w.req].dissenter = "dissent"]
  /\ Becomes(w, op, "failed")
  /\ UNCHANGED loopVars

EjectDone(w) ==
  /\ Handler /\ w.op \in {"eject", "ejectPID"} /\ w.status # "running"
  /\ IF w.status = "failed" /\ req[w.req].dissenter = "none"
     THEN NotesFailure(w, "ejectPID")
     ELSE /\ req' = Answered(req, {w.req}, w.status = "done")
          /\ End(w) /\ Signal
  /\ UNCHANGED <<stageVars, mounted, requests>>

MountDone(w) ==
  /\ Handler /\ w.op = "mount" /\ w.status # "running"
  /\ IF w.status = "done"
     THEN /\ path' = path \cup {w.disk}
          /\ req' = Answered(req, {w.req}, TRUE)
     ELSE /\ req' = Answered([req EXCEPT ![w.req].dissenter = "dissent"], {w.req}, FALSE)
          /\ UNCHANGED path
  /\ End(w) /\ Signal
  /\ UNCHANGED <<list, zombie, staged, content, dirty, dangling, mounted, requests>>

\* The mutant leaves the volume on the list.
StillDangling(d) == UNCHANGED dangling

\* Whatever became of the unmount, the volume is no longer waited for.
NotDangling(d) == dangling' = dangling \ Described(d)

\* The mutant takes the search for the process that is in the way for a success.
UnmountDoneAnyhow(w) ==
  LET d == w.disk
      success == w.status = "done" \/ d \notin mounted \/ w.op = "unmountPID"
  IN /\ Handler /\ w.op \in {"unmount", "unmountPID"} /\ w.status # "running"
     /\ NotDangling(d)
     /\ IF ~success /\ req[w.req].dissenter = "none"
        THEN NotesFailure(w, "unmountPID") /\ UNCHANGED path
        ELSE /\ path' = IF success THEN path \ {d} ELSE path
             /\ req' = Answered(req, {w.req}, success)
             /\ End(w) /\ Signal
     /\ UNCHANGED <<list, zombie, staged, content, dirty, mounted, requests>>

\* A failure to unmount what is not mounted is none.
UnmountDone(w) ==
  LET d == w.disk
      success == w.status = "done" \/ d \notin mounted
  IN /\ Handler /\ w.op \in {"unmount", "unmountPID"} /\ w.status # "running"
     /\ NotDangling(d)
     /\ IF ~success /\ req[w.req].dissenter = "none"
        THEN NotesFailure(w, "unmountPID") /\ UNCHANGED path
        ELSE /\ path' = IF success THEN path \ {d} ELSE path
             /\ req' = Answered(req, {w.req}, success)
             /\ End(w) /\ Signal
     /\ UNCHANGED <<list, zombie, staged, content, dirty, mounted, requests>>

\* The system call on its thread; the kernel decides.
ThreadRuns(w, status) ==
  /\ w.op \in {"eject", "mount", "unmount"} /\ w.status = "running"
  /\ status = "done" => CASE w.op = "mount"   -> w.disk \notin mounted
                          [] w.op = "unmount" -> w.disk \in mounted
                          [] w.op = "eject"   -> TRUE
  /\ work' = (work \ {w}) \cup {[w EXCEPT !.status = status]}
  /\ mounted' = CASE status = "done" /\ w.op = "mount"   -> mounted \cup {w.disk}
                  [] status = "done" /\ w.op = "unmount" -> mounted \ {w.disk}
                  [] OTHER -> mounted
  /\ UNCHANGED <<stageVars, active, unitActive, reqVars, cursor, loopVars>>

-----------------------------------------------------------------------------
(* Media and clients                                                       *)

\* A disk that joins an APFS unit that was up already skips its mount stage.
DiskAppears(d, late) ==
  /\ Handler
  /\ d \notin Listed \cup zombie
  /\ late => d \in Late
  /\ list' = <<d>> \o list
  /\ staged' = [staged EXCEPT ![d] = IF late THEN {"Mount"} ELSE {}]
  /\ Signal
  /\ UNCHANGED <<zombie, content, dirty, path, dangling, busyVars, mounted, reqVars>>

\* The questions about the disk are dropped, which ends its approval, and its
\* peek unless another candidate is asked; its requests are answered; a disk
\* that came to its mount stage is unmounted by force.
DiskDisappears(d, verdict, peeks) ==
  LET ends == IF peeks THEN {"approval"} ELSE {"approval", "peek"}
      over == {w \in work : w.disk = d /\ w.op \in ends}
      gone == {r \in Queued : req[r].disk = d}
      asked == {w.req : w \in {v \in over : v.op = "approval"}}
      q == IF asked = {} THEN req ELSE Judged(req, CHOOSE r \in asked : TRUE, verdict)
      left == Those(requests, Queued \ gone)
  IN /\ Handler
     /\ d \in Listed \cap Leaving
     /\ asked = {} => verdict = "none"
     /\ dangling' = IF d \in path THEN dangling \cup Described(d) ELSE dangling
     /\ work' = work \ over
     /\ active' = IF over = {} THEN active ELSE active \ {d}
     /\ IF "Mount" \in staged[d]
        THEN /\ req' = Append(Answered(q, gone, FALSE),
                              [NewRequest("Unmount", d) EXCEPT !.force = TRUE])
             /\ requests' = Append(left, Len(req'))
             /\ staged' = [staged EXCEPT ![d] = @ \cup {"Appear"}]
        ELSE /\ req' = Answered(q, gone, FALSE)
             /\ requests' = left
             /\ UNCHANGED staged
     /\ zombie' = zombie \cup {d}
     /\ list' = Those(list, Listed \ {d})
     /\ Signal
     /\ UNCHANGED <<content, dirty, path, unitActive, mounted>>

\* DAQueueRequest.  For a whole unit a request is queued for every other disk
\* of the unit, and the one that was asked for after them, linked to them.
QueueRequest(d, kind, whole, force) ==
  LET subs  == Those(list, {e \in Listed : e # d /\ unitOf[e] = unitOf[d]})
      first == Len(req) + 1
      last  == Len(req) + Len(subs) + 1
      parts == [i \in 1 .. Len(subs) |-> [NewRequest(kind, subs[i]) EXCEPT !.force = force]]
      new   == [NewRequest(kind, d) EXCEPT !.force = force, !.callback = TRUE]
  IN /\ Handler
     /\ d \in Listed
     /\ kind = "Eject" => whole
     /\ force => kind = "Unmount"
     /\ Cardinality({r \in DOMAIN req : req[r].callback}) < MaxRequest
     /\ IF ~whole
        THEN /\ req' = Append(req, new)
             /\ requests' = Append(requests, Len(req'))
             /\ Signal
        ELSE IF d \in Whole
        THEN /\ req' = req \o parts \o
                       <<[new EXCEPT !.whole = TRUE, !.link = first .. last - 1]>>
             /\ requests' = requests \o [i \in 1 .. Len(subs) + 1 |-> Len(req) + i]
             /\ Signal
        ELSE /\ req' = Answered(Append(req, new), {first}, FALSE)
             /\ UNCHANGED <<requests, loopVars>>
     /\ UNCHANGED <<stageVars, busyVars, mounted>>

-----------------------------------------------------------------------------
Walk ==
  \/ DispatchBegin \/ DispatchRequests \/ DispatchEnd
  \/ \E d \in Listed :
       \/ StageNothing(d) \/ StageProbe(d) \/ StageMountWaits(d) \/ StageAppear(d)
       \/ \E asked \in Asked : StagePeek(d, asked)
       \/ \E enabled \in AutoMount : StageMount(d, enabled)
  \/ \E r \in Queued :
       \/ RequestWaits(r) \/ MountReprobe(r) \/ RequestRejected(r)
       \/ \E asked \in Asked : RequestApprove(r, asked)
       \/ MountAuthorize(r) \/ RequestRefused(r) \/ RequestStart(r)

Callbacks(w) ==
  \/ \E result \in ProbeResult : ProbeDone(w, result)
  \/ PeekDone(w)
  \/ \E asked \in Asked : TickleDone(w, asked)
  \/ \E verdict \in Verdict : ApprovalDone(w, verdict)
  \/ \E granted \in BOOLEAN : AuthorizeDone(w, granted)
  \/ EjectDone(w) \/ MountDone(w) \/ UnmountDone(w)

Environment ==
  \/ \E d \in Disk, late \in BOOLEAN : DiskAppears(d, late)
  \/ \E d \in Listed, verdict \in Verdict, peeks \in BOOLEAN : DiskDisappears(d, verdict, peeks)
  \/ \E d \in Listed, kind \in RequestKind, whole, force \in BOOLEAN :
        QueueRequest(d, kind, whole, force)

Threads == \E w \in work, status \in {"done", "failed"} : ThreadRuns(w, status)

Next == Walk \/ (\E w \in work : Callbacks(w)) \/ Threads \/ Environment

Spec == Init /\ [][Next]_vars
(* Work goes on: the work loop runs, threads return and consultations end   *)
(* (see DAResponse); what media and clients do is up to them.              *)
Fairness ==
  /\ WF_vars(Walk)
  /\ WF_vars(\E w \in work : Callbacks(w))
  /\ WF_vars(Threads)

FairSpec == Spec /\ Fairness
-----------------------------------------------------------------------------
(* Properties                                                              *)

\* A unit runs one command at a time (a probe, mount, unmount or eject, with
\* the search for the process that is in the way), its busy flag says so, and
\* the flag survives the disk it was set through.
OneCommandPerUnit ==
  LET commands == {w \in work : w.op \in Command}
  IN /\ \A w, v \in commands : unitOf[w.disk] = unitOf[v.disk] => w = v
     /\ unitActive = {unitOf[w.disk] : w \in commands}

\* Of two units whose media are stacked only one runs a command, unless the
\* disk of one of the commands has left.
OneCommandPerStack ==
  \A w, v \in work :
    /\ w.op \in Command /\ v.op \in Command
    /\ <<unitOf[w.disk], unitOf[v.disk]>> \in Related
    /\ unitOf[w.disk] # unitOf[v.disk]
    => w.disk \in zombie \/ v.disk \in zombie

\* A disk is busy exactly while one operation is going on for it: no callback
\* is missed when the disk leaves, and none comes twice.
OneOperationPerDisk ==
  /\ \A w, v \in work : w.disk = v.disk => w = v
  /\ active = {w.disk : w \in work}

\* Disks, units and stacks of units take turns: a second operation would find the
\* flag of the first, and its callback free what the other still uses.
TakeTurns == OneOperationPerDisk /\ OneCommandPerUnit /\ OneCommandPerStack

\* Requests that involve a disk in common are started in the order in which
\* they were queued, a request for a whole unit after all its parts.
ServedInOrder ==
  \A i, j \in DOMAIN requests :
    i < j /\ Involved(requests[i]) \cap Involved(requests[j]) # {}
    => ~req[requests[j]].probed /\ ~req[requests[j]].approved

\* No client is answered twice, whatever happens to the disk and the command.
AnsweredOnce == \A r \in DOMAIN req : Len(req[r].answers) <= 1

\* The answer about a whole unit is given when the requests for its parts are
\* over: none is queued, none has a command going on.  (If the disk leaves it
\* is given at once.)
WholeAfterParts ==
  [][\A r \in DOMAIN req :
       req[r].whole /\ req'[r].answers # req[r].answers /\ req[r].disk \in Listed' =>
         \A s \in req[r].link :
           /\ s \notin Queued
           /\ \A w \in work : w.req = s => w.op \notin Command]_vars

\* A client is told of success only if it is true of the kernel's mount table: the
\* medium was ejected; every volume that the mount was for is mounted; none that
\* the unmount was for is.  For a whole unit that leaves out the disks that have
\* left and those on which probing found no volume, and for an unmount what was
\* mounted before the daemon came and it does not describe: their parts are
\* rejected without a dissenter, which does not count.  (The disk that was asked
\* for stays: see EjectedMeansEjected.)
SuccessIsReal ==
  [][\A r \in DOMAIN req :
       req'[r].answers = Append(req[r].answers, TRUE) /\ req[r].disk \in Listed' =>
         CASE req[r].kind = "Eject" ->
                \E w \in work : w.req = r /\ w.op = "eject" /\ w.status = "done"
           [] req[r].kind = "Mount" ->
                \A d \in (Involved(r) \cap Listed') \ mounted' :
                  req[r].whole /\ content'[d] = "none"
           [] req[r].kind = "Unmount" ->
                \A d \in Involved(r) \cap Listed' \cap mounted' :
                  req[r].whole /\ (content'[d] = "none" \/ d \in PreMounted \ path')]_vars

\* "A dissenter object on failure or NULL on success" (DADiskEjectCallback,
\* DiskArbitration.h:389): a client is told that a disk was ejected only if it
\* was.
EjectedMeansEjected ==
  [][\A r \in DOMAIN req :
       req[r].kind = "Eject" /\ req'[r].answers = Append(req[r].answers, TRUE) =>
         \E w \in work : w.req = r /\ w.op = "eject" /\ w.status = "done"]_vars

\* When the daemon says it is idle no request is waiting, and every disk in the
\* list is up and not busy, unless its volume was left mounted by another disk
\* and the unmount of that is going on or cannot come.
IdleMeansSettled ==
  idle => /\ requests = <<>>
          /\ \A d \in Listed :
               /\ d \notin active
               /\ \/ staged[d] = Stage
                  \/ Described(d) \cap dangling # {}
                  \/ \E w \in work : w.disk \in zombie /\ volumeOf[w.disk] \in Described(d)

\* The mount that a disk leaves behind is being undone, so that its volume can
\* be mounted again: a volume is marked dangling only while an unmount of a
\* disk that had it is to come.  (The exceptions: a disk that left before its
\* mount stage, and a system volume.)
DanglingIsUndone ==
  \A v \in dangling : \E d \in zombie :
    /\ volumeOf[d] = v
    /\ \/ \E r \in Queued : req[r].kind = "Unmount" /\ req[r].disk = d
       \/ \E w \in work : w.op \in {"unmount", "unmountPID"} /\ w.disk = d
       \/ "Mount" \notin staged[d]
       \/ d \in Root

\* Every disk is announced, or leaves, or is on a unit with a volume that is
\* held back.
DiskComesUp ==
  \A d \in Disk :
    d \in Listed ~> \/ staged[d] = Stage \/ d \in zombie
                    \/ \E e \in Listed : unitOf[e] = unitOf[d] /\ HeldBack(e)

\* Every client is answered, or asked for a disk that does not come up.
Waiting(r) == r \in DOMAIN req /\ req[r].callback /\ req[r].answers = <<>>

RequestAnswered ==
  \A r \in 1 .. (MaxRequest + 2) * Cardinality(Disk) :
    Waiting(r) ~> \/ ~Waiting(r)
                  \/ \E e \in Listed : unitOf[e] = unitOf[req[r].disk] /\ HeldBack(e)
=============================================================================
