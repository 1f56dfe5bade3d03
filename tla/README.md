# Disk Arbitration in TLA+

A verification development for the Disk Arbitration daemon of macOS
(`src/diskarbitrationd`) and the protocol it speaks with its clients. The
modules translate the C sources. The platform modelled is `TARGET_OS_OSX`.

`PROJECT.json` lists for every definition the lines it stands for, for every run
its properties, and for every property a mutant of the code that breaks it. The
mutant operators stand in the modules next to the definitions they replace and
are marked "The mutant ...".

## 1. The system

The daemon serves I/O Kit notifications, client calls (MIG) and the callbacks of
its own helpers **one after the other on one dispatch work loop**. Nothing in a
handler waits: what takes long (probing, mounting, asking a client) is started
and ends in a callback on the work loop. Its parts:

| Part | Source | State | Operations |
|---|---|---|---|
| Response queue | `DAQueue.c`, `DACallback.c` | `gDAResponseList`, the response number, per disk a `ContextRe` slot | put a question to clients, enter an answer, time out, drop the questions of a callback, a session, a disk |
| Staging | `DAStage.c` | per disk the staged states (probe, peek, mount, appear), `gDAIdle` | `__DAStageDispatch` walks disks and requests; probe and peek callbacks |
| Requests | `DARequest.c` | `gDARequestList`, per request its stage, dissenter, link | queue (also for a whole unit), dispatch, approve, authorize, run, reply |
| Units | `DASupport.m` | busy flag per unit | set, get, get recursively over stacked media |
| Media | `DAServer.c` | `gDADiskList`, `gDADanglingVolumeList`, two I/O Kit iterators | appearance, disappearance, busy and property changes |
| Console users | `DAServer.c` | `gDAConsoleUser`, `gDAConsoleUserList` | mount deferred volumes at login, unmount at logout |
| Server calls | `DAServer.c`, `DAServer.defs` | `gDASessionList` | session create/release, register, copy queue, respond, claim, adopt, options |
| Sessions | `DASession.c` | callback queue, register, timeout and zombie state, client port | queue a callback and wake the client |
| Threads | `DAThread.c` | job list under a mutex, exit message | run a function on a pthread, call back on the work loop |
| Mounting | `DAMount.c` | `gDAMountPointList` | repair, make the mount point, mount, retry |
| Probing | `DAProbe.c` | candidates of one probe | try file systems in turn, then FSKit modules |
| File systems, commands | `DAFileSystem.c`, `DACommand.c` | running helpers | spawn, reap |
| Client framework | `src/DiskArbitration` | client session, its port and callbacks | receive the wake-up, copy the queue, call back, respond |
| Main, preferences | `DAMain.c`, `DABase.c`, `DAPrivate.c` | start-up, volume notifications | refresh a disk from the mount table |
| Left aside | telemetry, log, dialogs and agent, `fstab.c`, `vsdb.c`, `autodiskmount`, `datest` | | no protocol of their own |

How they interact. Media callbacks and client calls put disks on `gDADiskList`
and requests on `gDARequestList` and call `DAStageSignal`. The walk that follows
starts for each idle disk its next stage, then dispatches requests in order. A
stage or request sets the disk's busy flag (`kDADiskStateCommandActive`), for a
command (probe, mount, unmount, eject) the unit's too, and goes to the response
queue or a thread; the callback clears the flags and signals the walk again.

What is hard:

* **Late, duplicate and missing answers.** A client answers by quoting a number,
  perhaps after the question timed out, the disk left or another question came.
* **One slot per disk** for what happens when its consultation ends; the slot is
  filled and emptied by eight different handlers.
* **Peek chains** collect their candidates once and run over sessions that
  unregister, time out or die meanwhile.
* **Media leave at any moment**: with a question outstanding, a thread running
  on them, requests queued, a volume still mounted, and may come back before that
  is cleaned up.
* **Whole-unit requests** depend on requests for every part.
* **Commands exclude each other** by unit and by stacks of units, through flags
  set in one place and cleared in many.
* **Failures run callbacks twice** (the search for the process in the way).
* **One empty message wakes a client** for a whole queue of callbacks, through a
  port the client may replace; functions are known by keys that are given out
  again; the daemon may exit and be launched again under a living session.
* **Helpers end silently**: threads and children are looked up by identifiers that
  are used again, and what tells of an end may stand for several.
* **Others act behind the daemon's back**: they mount, unmount, rename, make and
  remove directories; the daemon learns that something changed, later.
* **News has no order**: media appear and disappear on two queues, busy states and
  console changes come by others; what is read may be newer than what was told.
* **Everything must end**: nothing retries, so one callback that does not come
  leaves a disk busy for good.

What makes the parts correct:

* response queue: a disk is busy exactly while a question about it is out; each
  answer counts once and for the question it was given to; a dissent counts; a
  consultation ends whatever clients do;
* claims: a claim is held by a live session and is not taken without consent;
* staging: one operation per disk, one command per unit and per stack; disks come
  up, peeks first; idle means that nothing is left to do;
* requests: served in order, none lost, each answered once and truthfully, a whole
  unit after its parts;
* media: the mount that a medium leaves behind is undone; the list of disks agrees
  with the media; no news is taken for other news;
* console: deferred volumes are mounted while users are logged in, and a user's
  volumes are unmounted at logout;
* helpers: a callback comes once, after its job has ended; no end is missed;
* probing: no candidate is skipped; mounting: mount points are not shared or taken
  away, what is mounted for writing is clean, the description follows the table;
* sessions: no wake-up is lost; a callback reaches the function it is for; a
  request is called back once; after a relaunch the registers agree.

## 2. Modules

### DAApproval

What a consultation promises, without sessions, registers, queues and timers: a
ballot per disk, opened for a set of questions; each is answered once or excused;
the first dissent is the reason; the verdict is carried out when no question is
left.

### DAResponse

The response queue, the peek stage, the approval phase of requests, claims, and
the session calls that reach them. An action is one handler of the work loop.

| Variable | In the code |
|---|---|
| `responses`, `nextID` | `gDAResponseList`, the static `responseID` |
| `context[d]` | the disk's `ContextRe`: callback, its context, the response so far |
| `active[d]` | `kDADiskStateCommandActive` |
| `candidates[d]` | the peek callbacks in `__DAStagePeekCallback`'s context |
| `request[d]`, `claim[d]` | the first request queued on the disk; its claim |
| `register[s]`, `queue[s]`, `timedOut[s]`, `session[s]` | the session's register, callback queue, timeout and zombie states |
| `held[s]` | the questions the client has copied and not answered |
| `consent[d]` | history, read by no guard: the claimant asked in this consultation, and what it said |

`Sweep(R, ctx, flagged)` is the heart: questions `R` leave the list and
`__DAResponseComplete` runs for each of their disks. It is used by the answer, the
timer, unregistration, the release of a session and of a disk. `Consult` is
`__DAResponsePrepare` with the broadcast and the final `__DAResponseComplete`.
Numbers are given in register order in the code, in any order here.

Bounds: `MaxID` stops new consultations after so many questions (a consultation
that has begun is finished). Left out: the arithmetic of the timer (it may fire
whenever a question is out, for the questions up to any number); the order of a
register; match dictionaries except for the set of disks they admit; callbacks
that carry no question. `kDASessionOptionNoTimeout` is set nowhere in the
sources. Requests of one disk queue up in the code; here each disk has the one at
the head. What the code does and the model keeps: a session's questions are
dropped *before* it becomes a zombie, so a peek can be put to a dying session; it
then waits for the timer. A claimant that is not responding loses its claim
without being asked, since the question is not put and nobody is left to ask.
`consent` keeps apart what the code treats alike, a claimant that said yes, one that let
the time pass, could not be reached, or took its callback back; `ClaimNotStolen` compares
it with the claim that is taken over, a consultation later.
A disk's ballot is read off the list and the slot: `phaseBar`, `waitingBar` and
`reasonBar` are what DAApproval is instantiated with.

### DAStage

The walk and everything that starts and ends operations. Callbacks run between
walks (`cursor` at rest), threads at any time; the walk is a loop of one step per
list entry, so that its early returns, its removal of requests while it runs and
its `quiet` flag are those of the code.

| Variable | In the code |
|---|---|
| `list`, `zombie` | `gDADiskList`, the disks that left it |
| `staged[d]` | the `kDADiskStateStaged...` states |
| `active`, `unitActive` | the busy flags of disks and units |
| `content`, `dirty`, `path` | mountable or not, `kDADiskStateRequireRepair`, the volume path |
| `mounted` | the kernel's mount table |
| `dangling` | `gDADanglingVolumeList` |
| `requests`, `req` | `gDARequestList`; all requests with the answers they were given |
| `work` | operations that were started and have not called back |
| `cursor`, `signalled`, `idle` | the walk, a walk is due, `gDAIdle` |

The request routines of eject, mount and unmount have the same shape and share
actions: `RequestRejected` (refused without asking), `RequestApprove`,
`MountAuthorize`, `RequestRefused`, `RequestStart`; `MountReprobe` is the mount's
own. Each takes the request the cursor is at off the list (`Take`). `Those(q, S)` is
what of a list is in a set, in the order of the list. `NotesFailure` is the second run of a callback after the search for the
process in the way. The consultation itself is one operation here ("peek",
"approval") and DAResponse's subject. What the kernel answers is open: any mount,
unmount or eject may fail, a mount only succeeds on what is not mounted, an
unmount only on what is. `SuccessIsReal` reads that table, not the description the answer
is made from. It leaves out the parts of a unit without a volume, whose requests are
rejected and do not count, and, of an unmount, what was mounted before the daemon came and
stands nowhere in the description. What others do to the table behind the daemon's back is
DAMount's subject.

Abstractions: several dispatches queued by `DAStageSignal` are one (`signalled`);
every appearance is a disk object of its own (a BSD name that comes back is a new
`Disk`); which volumes are system volumes is the constant `Root`, when a disk may
join an APFS unit late is `Late`; a unit has one whole disk at most. Left out: busy timers and quiescing, `gDAExit`,
the automatic eject of unreadable media and the dialogs, mount arguments
("update", "snapshot", read-only after dissent 0xF8DAFF02), the skipped approval
for Enterprise data volumes, disks made from volume paths without media, mounts
and unmounts behind the daemon's back, the checks by `DAAuthorize` when a request
is queued, and the other requests (probe, refresh, rename, FSKit additions).

### DASession

A client's session on both sides of the Mach ports: the daemon's `DASession.c` with
the session calls of `DAServer.c`, and the framework's `DASession.c` with the
callback plumbing of `DiskArbitration.c`. `Without` takes out of a queue what is for
one registration; `NoneAssumption` says that `None` is none of the values it stands
beside.

| Variable | In the code |
|---|---|
| `up`, `live` | the daemon runs; `gDASessionList`, this client's part |
| `known[s]`, `queue[s]`, `client[s]` | the session's register, callback queue and client port at the daemon |
| `asked[s]` | requests of the session that are to be answered |
| `mail[s]` | messages to the session that expect no reply (MIG `simpleroutine`) |
| `server`, `keepAlive`, `register`, `index` | `_server`, `_keepAlive`, `_register`, `_registerIndex` of the client's session |
| `port` | the client port, which holds one wake-up and one notification that nobody sends any more |
| `notice` | "com.apple.diskarbitrationd.launched" is posted and not delivered |
| `call[t]` | where thread `t` is in a call of the framework |
| `received`, `batch`, `turn` | the event handler of the client port: wake-up received, queue copied, a callback runs |

A call of the framework is split where it takes the register's lock or talks to the
daemon: making the session anew (`Establish`, `Schedule`, `Again`, `Recreated`), the register
(`Add`, `Find`, `Drop`), the message (`SendRegister`, `Send`). Calls that wait for
a reply are served after the messages posted before them. `reg` numbers the
registrations; it stands for nothing in the code and serves the properties.
`overlapped` records that calls of two threads have edited the session at once.
Left out: scheduling on a run loop (which gets no notice of the daemon's exit), the
release of a session by its client (DAResponse has it), authorization, blocks, and
what a callback carries. The daemon's exit and its launch by launchd are external.

### DAWork, DAWorker

`DAWork` is what the rest of the daemon counts on when it hands over a job: a
callback, once, after the job has ended. `DAWorker` is how threads (`DAThread.c`)
and child processes (`DACommand.c`) do it.

| Variable | In the code |
|---|---|
| `threadJobs`, `commandJobs` | the lists of jobs, newest first, each under its lock |
| `thread[t]`, `process[p]` | what runs under a `pthread_t` or pid, which are given out again |
| `threadMail`, `commandMail` | messages to the daemon's own ports |
| `signal` | the dispatch source for SIGCHLD, which merges signals |
| `lingering` | pipes that a descendant of a child keeps open |
| `loop`, `reaped`, `failed` | where the work loop is: in a handler, between `waitpid` and the callback, before the callback of a job that could not be started |

A callback may hand on its job in the same step (`HandOver`): this is how probing
goes from candidate to candidate while the handler walks the list. The thread waits
for the lock that its creator holds until the job is on the list, so its start and
its listing are one step (`ThreadExecute`). Left out: failures of `malloc`, and a
child that fills its pipe before it ends (the pipe is read after the exit).

### DAProbe

The chain of `DAProbe.c` on those helpers: bundles of file systems in order of
preference, each with up to three commands (recognize, UUID, check), then once the
modules of FSKit, then what was put off. `probe[d]` is the context that the code
passes from callback to callback; `tried` and `modules` are history. `Proceed` is
the loop of `__DAProbeCallback` over candidates that do not fit or cannot start. What a
loop picks of a list (`Those`) is in `DALists`, which DAStage uses as well.

### DAMount

Mount points, the mount table, and the daemon's description of it.

| Variable | In the code |
|---|---|
| `list`, `name[d]`, `path[d]` | `gDADiskList`, the volume's name and path in the description |
| `dirty`, `quotas` | `kDADiskStateRequireRepair`, `...RepairQuotas` |
| `command[d]` | the mount or unmount of `d`: where it is, its arguments, its mount point, and (`made`) whether the daemon made that |
| `reserved[p]` | `gDAMountPointList`, which may hold a path twice |
| `refresh`, `sweeps[p]` | queued refresh requests; threads that will remove `p` |
| `table[d]`, `label[d]`, `dirs[p]` | the kernel's mount table (`made`, `forced`: history of how the mount came about), the volume's own name, directories in `/Volumes` |
| `news` | mount and unmount notifications that have not been served |
| `lost`, `swept` | history: volumes others mounted or unmounted, reserved mount points that were removed |

Options are sequences, since the last of `rdonly` and `rw` counts. A mount is split
where the code waits: repair, `mount(8)` on a child, quota check; an unmount at its
thread. A client, a mount map (`MapPath`) and others may name any directory, also one in
`/Volumes` that the daemon made or reserved for another volume: neither
`__DARequestMount` nor `DAMountWithArguments` looks a given path up in
`gDAMountPointList`. They may mount over what is mounted there; an unmount
by path takes off one of the volumes on the path (in the kernel the last). "force" is
the client's argument of `DAMount.c:1176`: the mount goes on after a repair that
failed. A mount for a snapshot is another entry of the table, which becomes a disk
without media; `Network` holds those. What clients do through the daemon and what others
do without it are bounded together by `MaxInput`. Left out: the refusals of DAStage's request routines, the
approval of clients, FSKit's own mounts (another helper with the same callbacks),
symbolic links, the iOS branches.

### DAMedia, DAConsole

`DAMedia` has the media callbacks of `DAServer.c`. A callback is a *function* of what
it finds (`Found`), because the callbacks call one another: a disappearance of what
is not on the list drains the appearances first, an appearance of a name that is
taken drops its disk first, and a device that calms down drains the appearances.
`matched` and `ended` are the two I/O Kit iterators, `busyNews` the messages of
each medium's interest notification. The end of a pass of `__DAStageDispatch` decides
which units have quiesced, sets the busy timer and says whether the daemon is idle.

`DAConsole` extends it with `_DAConfigurationCallback`: the console user and the list
of users as the daemon knows them (`user`, `users`) and as they are (`console`,
`session`), configd's news without content (`configNews`), SystemUIServer's
registration (`agents`), and the volumes with their requests. A request here waits in
`todo`, begins, and ends; what goes on in between is in DAStage and DAMount. `early`,
`late`, `excused` and `owed` are history. Abstractions: that a unit has APFS is a
constant; the busy timer may fire at any time (in the code a second after the limit
at the latest); `kDAUnitStateHasQuiesced` is read by nothing and left out.

## 3. Runs

| Run | Configuration | What it shows |
|---|---|---|
| `peek` | DAResponsePeek | two sessions, three peek callbacks (one address registered twice with different orders), claims: peeks are over before the disk is announced; claims belong to the living and pass on only after what their holder said or did not say in the same consultation; a zombie owes at most a peek; every consultation ends |
| `vote` | DAResponseVote | a peek, then unmounts of the disk with the votes of two sessions: the list with its slot implements `DAApproval`; busy exactly while asked; each client answers its own questions; a timely dissent counts; every request is answered |
| `device` | DAStageDevice | a device and its partition that may leave and may turn out to have no volume, one client request for the one or the other: order of service, whole after parts, success is true of the mount table, and the client is answered |
| `stack` | DAStageStack | a container upon a disk that may leave, two client requests: operations take turns by disk, unit and stack; one answer per request |
| `comes_up` | DAStageComesUp | clean and dirty disks, one of them the twin of one that left mounted: all come up, dangling mounts are undone, idle means settled |
| `eject_leaves` | DAStageEject | a violation, see section 5 |
| `session` | DASession | two threads, a question and a request, one exit of the daemon: no wake-up is lost, nothing is answered twice, what is under way gets there |
| `session_keys` | DASessionKeys | one thread that registers four times, so that a key in use is skipped: answers find their request, registers agree (also after a relaunch), registered functions are called |
| `stale_key` | DASessionStale | a violation, see section 5 |
| `probe` | DAProbe | two disks, three bundles (one broken, one put off) and a module, two threads and two pids: callbacks keep `DAWork`'s promise, jobs are not mixed up, no end is missed, no candidate is skipped, every probe ends |
| `mount` | DAMount | two disks whose volumes have one name, one dirty, one with a mount map, and a network volume or snapshot; clients and others name the first mount point that the daemon makes for them, clients say "force": mount points made by the daemon are not shared or taken away but in named ways, what is written is clean unless forced, unmounts hit their own volume, news of changes comes |
| `media` | DAConsole | a busy device, a volume on it, another medium that takes its name, two users: the list is true, early media are not taken for late ones, deferred volumes follow the users, a logout unmounts, nothing waits for I/O Kit for good |

Bounds and why they are enough. In DAResponse two sessions suffice for a claimant and its rival,
for a question answered by one while the other dies, and for two voters; three
callbacks for one that is asked, one that is next and one that is skipped. `MaxID`
is 3 or 4: one number more than the questions of a consultation, so that an answer
can come late for another consultation. In DAStage two disks suffice for a unit with a part,
a stack, or a medium that returns; three for a dirty disk that waits for a clean
one next to a third that left. One or two client requests: each becomes up to
`|Disk|` queued ones with its automatic mounts and forced unmounts.
In DASession one exit of the daemon, two sessions and two ports make every message
of an old session or port meet a new one; two registrations suffice for a function
and a request at once; four are needed for a key that is removed, given out again and
found in use by the next. In DAWorker two threads and two pids are fewer than the
operations of two probes, so that identifiers are given out again while their first
owner is still listed; `MaxProbe` probes each disk once, which is seven operations at
most. In DAMount one name and the numbers 0 and 1 (`LastIndex`; 99 in the code) let
two volumes collide and run out of mount points; `MaxInput` 4 lets a mount, what
others do to it, and a second mount meet; `ClientPoints` is the one path that the daemon tries
first for both volumes, and `Outside` is empty, since a mount outside `/Volumes` meets none
of the daemon's (the proofs have any sets); `MaxSweep` is the number of threads that
may be about to remove one mount point. In DAConsole `MaxEvent` 3 counts what happens
to media and at the console: enough to pull out, republish and calm down, or to log in,
switch and log out. Deadlock is
not checked: with the bounds reached, or all disks gone, the daemon rightly rests.

Type invariants: `TypeCorrect` proves that of DAResponse, `TypesHold` those of DAMount
and DAStage, `ConsoleIsTyped` those of DAMedia and DAConsole, and those of DASession and
DAWorker are part of the invariants proved
there (`RegisterTypes`, `Workers`). The others say what the variables hold, and TLC would
stop at a value outside the operators' domains.

Fairness. DAResponse: the work loop serves each disk (`DiskNext(d)`) and the timer
fires while a question is out; nothing is assumed of clients or media. The code
arms the timer in `__DAResponseTimerRefresh` from every handler that adds to or
takes from the list. DAStage: the walk goes on, callbacks are delivered, threads
return and consultations end (which is what `peek`, `vote` and `probe` show); nothing is
assumed of media and clients. DASession: the daemon serves its ports, carries
requests out and is launched again (launchd, `KeepAlive`); calls of the client that
have begun go on and its queue runs. Nothing is assumed of exits and of calls.
DAProbe: the work loop runs, threads return, children and what they leave behind exit.
Fairness of the timer relies on a clock that is not
set back (see the hazards).

## 4. Proofs

Of the invariants and action properties that the runs check, the following are proved
for every value of the constants that the `ASSUME`s of the modules admit. The
assumptions say what kind of thing a constant is; beyond that, that disks and callbacks of
DAResponse are finite (so that questions can be numbered), that a unit has one whole disk
at most, that being stacked is symmetric, and, of DAMedia, that the BSD name of a whole
device goes with its unit and that media which are there at the same time have names of
their own. None bounds a size.

| Property | Theorem | Module |
|---|---|---|
| `BusyWhileAsked` | `BusyExactlyWhileAsked` | DAResponseProofs |
| `ZombieOwesOnlyPeek` | `NoApprovalOfZombie` | DAResponseProofs |
| `PeeksPrecedeAppearance` | `PeeksFirst` | DAResponseProofs |
| `AnswersOwnQuestion` | `AnswersAreOwn` | DABallotProofs |
| `ClaimantIsAlive`, `ClaimNotStolen` | `ClaimantsAreAlive`, `ClaimsAreAsked` | DABallotProofs |
| `DissentCounts` | `DissentsCount` | DABallotProofs |
| `ImplementsApproval` | `ConsultationsAreBallots` | DABallotProofs |
| `TakeTurns` | `AllTakeTurns` | DAStageProofs |
| `ServedInOrder`, `AnsweredOnce` | `RequestsServedInOrder`, `ClientsAnsweredOnce` | DAStageProofs |
| `WholeAfterParts`, `SuccessIsReal` | `WholeUnitsLast`, `SuccessIsTold` | DAStageProofs |
| `DanglingIsUndone`, `IdleMeansSettled` | `DanglingVolumesAreUndone`, `IdleDaemonIsSettled` | DAStageProofs |
| `NoWakeupLost` | `WakeupsArrive` | DASessionProofs |
| `RegisteredIsCalled` | `CallbacksReachTheirFunctions` | DASessionProofs |
| `AnsweredOnce`, `AnswerFindsRequest` | `RequestsAnsweredOnce`, `AnswersFindRequests` | DASessionProofs |
| `RegistersAgree` | `TheRegistersAgree` | DASessionProofs |
| `RunsOwnJob`, `NoEndMissed` | `HelpersRunTheirJobs`, `NoEndIsMissed` | DAWorkerProofs |
| `KeepsPromise` | `HelpersDoTheirWork` | DAWorkerProofs |
| `NothingSkipped` | `NoCandidateIsSkipped` | DAWorkerProofs |
| `ApartPoints`, `ReservedStands` | `MountsGetOwnPoints`, `ReservedPointsStand` | DAMountProofs |
| `UnmountsOwn`, `NewsComes` | `UnmountsTakeTheirOwn`, `TheDaemonHears` | DAMountProofs |
| `CleanWhenWritten` | `WrittenOnlyWhenClean` | DAMountProofs |
| `LooksAgain` | `TheDaemonLooksAgain` | DAConsoleProofs |
| `ListTrue`, `EarlyComesUp` | `TheListIsTrue`, `WhatIsEarlyComesUp` | DAConsoleProofs |
| `DeferredFollowsUsers`, `LogoutUnmounts` | `VolumesFollowTheUsers`, `ALogoutUnmounts` | DAConsoleProofs |

### The response queue

`DAResponseProofs`: the inductive invariant `IInv` joins TypeOK,
BusyWhileAsked, OneTopicPerDisk, ZombieOwesOnlyPeek and PeeksPrecedeAppearance with

* `CandidatesArePeeks`: what waits in a chain are peek callbacks; without it the
  next question of a chain need not match the slot;
* `PeekContext`: a slot that says peek belongs to a disk that is peeked or gone
  and not in approval; without it a sweep could enter a peek's end as a verdict.

The steps that take questions off the list all rest on one lemma, `SweepFacts`.

`DABallotProofs` adds (`Consultation`) how questions are numbered and what a
consultation remembers:

* `Numbers`: whatever is on its way with a number was numbered before. A late answer
  can then never quote a number that is given out later.
* `Ballots`: only a disk that is up is in approval, and one that is gone has no request
  (`ApprovedIsUp`); a claim that could not be released is refused with nobody asked
  (`RefusedUnasked`); the slot names a session or nobody (`ReasonIsSession`); questions other
  than peeks are out only for a request in approval (`VotesAreOfRequest`).
* `Consents`: while another session's claim is in approval and the disk is busy, the one
  question about it is the holder's, and `consent` says that it was put and not answered;
  once the disk is idle the request has a dissenter, or the holder's consent is recorded.
  `ClaimNotStolen` is what this says when the claim is set. It needs `Numbers` (an answer
  ends the question it was given to) and `RefusedUnasked`: `ClaimClaim` looks at the
  dissenter alone.
* `Alive`: whoever waits for the reply to a request is alive. `ClaimantIsAlive` alone is not
  inductive: the claim is set when the consultation ends, for the session of
  the request, which may have died in between.

What `Sweep` does to one disk is said once (`SweepResult`).

Its last part shows that every handler is a step of DAApproval or none. The steps
that end questions nobody waits for any longer, of several disks at once (the timer,
unregistration, the death of a session), are `Excuse` (`DroppingExcuses`); answers are
`Vote`, the release of a disk is `Abandon`, and the rest opens or settles one
ballot or leaves all as they are. The invariant used is `Consultation`, through
`BallotShape`, which says what it means for the mapped variables.

### Staging and requests

`DAStageProofs` has four layers, each of which uses the ones before it. TLC agreed with
each on small instances before it was proved.

* `Exclusive`: operations take turns. It joins `OneOperationPerDisk`,
  `OneCommandPerUnit` and `OneCommandPerStack` with `WorkShape`, the form of
  an operation. The three need each other: that a command's unit is free once it
  ends follows from there being one command on it, and that its disk is free from
  there being one operation.
* `Orderly` adds the types and `Serves`: the queue lists requests in the order they came
  (`Rising`), a request refers back to the requests for the parts of its unit
  (`RequestShape`), one that is queued has no answer (`Unanswered`), and an operation is for a
  request of its disk, a command for an approved and unanswered one that has left the queue
  with all it is linked to (`WorkOf`); `Places`: where disks are; `Kept`: what the
  walk has left behind has blocked its disks; `Ordered`: a later request of the same disks
  has not begun. `Ordered` without `Kept` is not inductive, since the walk looks at
  `cursor.blocked` and not at the queue.
* `Settling`: `Probed` (a mount point is known only of a disk that has been probed),
  `Dangles` (a volume is marked only while a disk that left with it is yet to be
  unmounted) and `Quiet` (of what a walk has passed that has found nothing to do so far,
  nothing is to do). `IdleMeansSettled` is what `Quiet` says at the end of a walk.
* `Telling`: a command fits its request (`Fits`), a search for a process in the way
  follows a failure (`Failing`), clients are asked about queued requests (`Asks`), a disk
  that is up came to its mount stage (`Upright`), and, for the unmount of a unit, a
  part that is over is refused, gone, or has no volume mounted and no mount on the way
  (`PartsDone`; `MountsDone` for the mount of a unit). This stays so until the answer because
  nothing of the same disk is queued before it (`NoneBefore`) and what came later may not
  begin (`Ordered`). `Real` carries this from the description to the kernel's mount table:
  the two differ only while a system call has returned and its callback has not run, and
  for what was mounted before the daemon came. `SuccessIsReal`
  needs all of these: the answer about a unit looks at stored dissenters only, and says
  nothing of the disks themselves.

To keep forty actions times twenty conjuncts apart, what a step may do to a variable
is said once: `ListStep`, `PathStep`, `StagedStep`, `ContentStep` for disks, `WorkStep` and
`ServeStep` for operations, `QueueStep` for the list of requests, and `Summary` for the
requests themselves (some are answered, some get a dissenter, some advance, new ones come
last). Each is proved of every action, and the invariants are proved from those.

`Those` (DALists) is defined by a recursive function. What it returns, of a list, of a
longer one, of two that are joined and of what it returned (`DAListsProofs`), is proved with an induction over *sets* of numbers (`NatSetInduction`, from the
library's theorem that `<` is well-founded), which takes no operator for a parameter: the
set of the lengths up to which the fact holds is all of `Nat`.

### Sessions

`DASessionProofs`, for any number of threads, functions, sessions, ports and exits:

* `Channel`: what keeps the one message honest. The daemon has and is sent only ports
  that were made, so that a new port is none of them (`PortsAreOld`); a port whose senders
  are gone is not one a session has or is sent (`PortsAreGood`); a session that is not at
  the daemon, or not yet, has nothing there (`DeadAreEmpty`). Proves `WakeupsArrive`.
* `Registering`: the types; `OneKey`, a registration goes by the same key wherever it
  stands (a message, the daemon's register, a queue, a copied batch, the client's register);
  and `KeysSuffice`, a key that was given out and the registrations that still wait for one
  are together no more than were made, so that there is a key for each. Proves `CallbacksReachTheirFunctions`: a function that is *still registered* is
  found under the key that quotes it. The violation `stale_key` is the other case.
* `OnePlace`: a request is in one place at a time (a call that may still fail, the daemon,
  a queue, the batch, the callback that runs) and in none once it was called back. Proves `RequestsAnsweredOnce`, through exits
  of the daemon and re-registration.
* `Finding`: as long as no two calls overlapped, there is one call at most (`OneCall`),
  every request that is under way stands in the client's register under its key
  (`RequestsFound`), and so does what a call is about to send or to remove
  (`CallsFound`). Proves `AnswersFindRequests`.
* `Agreement`: what the daemon knows of the register, said of the place where the one call
  is. A function is known once (`ToldOnce`) unless the call is yet to tell of it
  (`NotYetTold`): it is about to send the registration, or it makes the session anew
  and has come to a smaller key. Whatever else is known is to be forgotten, by a message
  on its way or the call that is about to send it (`NothingElse`), and a key that is to be
  forgotten is not in use but by a registration that is about to be sent (`KeyIsFree`).
  The count of `_DASessionRecreate` is that of the keys to come (`LeftIsRight`), so that the loop
  ends after the last and not before; a session that is not at the daemon knows nothing
  (`DeadKnown`). Proves `TheRegistersAgree`. It rests on `Finding`, and on a
  call that waits for its reply being served after the messages sent before it: else
  a key that was freed could be used again, told of, and then forgotten.

What a queue without a registration's entries holds (`Without`) is proved like `Those`
above.

### Helpers

`DAWorkerProofs`. `Workers`: a job is in one place (`Apart`); of the jobs listed under one
thread identifier only the first may be of a thread that lives, because new ones are put in
front (`ThreadsOK`); a child is listed exactly until it has been waited for, and its
identifier is not given out before (`CommandsOK`). `Noticed` is `NoEndMissed` said of jobs:
an end that nobody has looked at has a message, a signal or the handler on its way.
`Contexts` and `Owed` tie the lists to DAProbe, which hands jobs out: a disk that is
being probed is owed one callback (`ProbesAreOwed`). `KeepsPromise` is
the refinement of DAWork, one step lemma for each action.

`Chained` proves `NoCandidateIsSkipped`. The code takes candidates off the front of a
list, puts some on another, and begins anew with the modules in front of those; what
has been asked and what is still in turn are, joined, always the order in which
candidates are to be asked, and so are those that have been put off and those that will
be (`Chain`). While the modules are asked for nothing is left (`Located`), which is what lets
`ListModules` replace the list. `NothingSkipped` alone is not inductive: it says nothing
of what is left. The order is that of the constants, lists of any length.

### Mounting

`DAMountProofs`: one invariant, `MountInv`, made of

* `Shape` (the types) and `Reservations`: a path stands on `gDAMountPointList` once for
  every mount that holds it;
* `CommandsFit`: a command is of a listed disk and a mount has a mount point; a volume that
  is repaired and mounted whatever comes of it is mounted to be read, or a client insists;
* `Points`: what is mounted in `/Volumes` has its directory, and a directory made for a
  mount stands, has one maker, and no volume that had its own made is mounted on it; nor are
  two such volumes mounted on one. None of these is inductive alone. The mounts that
  somebody else gave a mount point to are left out of them;
* `Known` and `Heard`: where the volumes are, and that a description which differs from the
  mount table has news, a refresh or a command under way;
* `CleanWhenMounting`: a mount for writing is not started while the volume is dirty.

The exceptions in the properties (`swept`, `lost`, `Given`, `forced`) are needed in the proof exactly where
section 5 says that the code lets them happen. `ReservedPointsStand` and
`UnmountsTakeTheirOwn` are about steps, and follow from it.

### Media and console

`DAConsoleProofs`. A callback is a function that does something to one medium after the
other and may call another callback in between. What it leaves is described after the first
`n` of the media it takes (`Result`, `Outcome`, `Units`) and proved by induction
over `n`; the steps are lemmas on what `Appeared`, `Dropped` and `Disappeared` do
to one medium. The loops are recursive functions on the numbers for that reason.

* `TheDaemonLooksAgain`. Whatever makes work signals; only the end
  of a pass takes the signal away, and it leaves unfinished work, a timer, or the daemon
  idle. The one callback that changes a disk without a signal, the news that a medium is
  busy, leaves all of that as it is.
* `NamesInv`: the list and the queues of I/O Kit against the registry. What is there has a
  disk or is told of; what has a disk or is told of, and is no longer there, is told to have
  disappeared, unless it is one of those that were late; a medium that is told of after another of its
  name comes behind that one's end (`Ordered`). Proves `TheListIsTrue`.
* `UnitInv`: a device that is early is busy still, and the device of early media is there
  (`EarlyOn`); such media are on the
  list before the daemon takes their device for calm (`EarlyListed`); a unit
  is quiesced by its whole disk (`UnitsHold`); the news of early media comes after
  that of their device, whichever callback takes it (`EarlyAfter`). Proves `WhatIsEarlyComesUp`.
* `DeferInv`: of a disk that is on the list, what its requests say of it (a volume that is
  not wanted and is mounted, or is being mounted, has an unmount coming; one that is wanted
  and staged is mounted or has been asked for), and that nothing was done for a medium which
  has no disk yet. Proves `VolumesFollowTheUsers`, whose exceptions are those of
  `excused`.
* `OwedInv`: a volume which is owed an unmount is listed and probed, and is asked for
  or belongs to a user whose leaving the daemon is yet to hear of (`Unheeded`). Proves
  `ALogoutUnmounts`.

`ConsoleIsTyped` is the type invariant, of the media and of the console.

### What only TLC checks

* Liveness: `ConsultationEnds`, `RequestAnswered`, `DiskComesUp`, `CallsComeThrough`,
  `ProbeEnds`. The prover does not do fairness and ENABLED.
* `CorrectCallback` and `EjectedMeansEjected` are violated (section 5).

## 5. What the code does and its documents do not say

* `eject_leaves` (finding): when the medium leaves while its eject is queued, the
  request is answered `kDAReturnNotFound`; but `__DARequestDispatchCallback` throws
  away the dissenter it is given for a request with a link, which every eject has,
  and the client is told of success. `DiskArbitration.h` promises NULL on success
  only. The same happens to "not mounted" and "unsupported" for whole-unit
  requests; `SuccessIsReal` therefore says what success means while the disk stays.
  It came out of the proof of `SuccessIsTold` that "unsupported" can hide a mounted
  volume: of a disk that was mounted already and on which probing then finds no volume
  the mount point stays in the description, `__DARequestUnmount` refuses it
  (`DARequest.c:1339`) without storing a dissenter, and the client is told that the unit
  was unmounted. A disk of the unit that was mounted before the daemon came and has not
  been found mounted is passed over in the same way, and so is one without a volume when
  the unit is mounted. The property names these cases; with both disks of
  `device` mounted before and the partition joining late (1.8 million states) TLC still finds
  no other, and violates the property when any one of them is taken out.
* Idle may be declared while the forced unmount of a disk that left still runs:
  the walk looks at disks in the list only. `IdleMeansSettled` says so.
* The dangling mark is taken away when an unmount ends, also if it failed.
* A disk that was found mounted and left before its mount stage leaves a mark that
  no unmount takes away; likewise a system volume. `DanglingIsUndone` names both.
* A dirty disk waits behind a clean sibling that is held back by a dangling volume
  (`DiskComesUp` names it).
* Units that are stacked exclude each other only while both disks are in the
  registry (`OneCommandPerStack`).

* `stale_key` (finding): removing a function makes its key the next to be given out.
  A copied callback that still quotes it is given to the function registered last.
  A callback whose key is free is passed over, as it should be.
* Calls of two threads of a client that overlap can undo one another: a function
  registered between the removal of another and the daemon's unregistration takes
  the key over, and the daemon then drops the new one; two threads that both find the
  daemon gone register everything twice; and the loop of `_DASessionRecreate`, which
  counts the entries first, does not end when one is removed meanwhile.
  `RegistersAgree`, `AnswerFindsRequest` and `CallsComeThrough` name the overlap.
* A session with keep-alive that is told of the launch before it is told of the exit,
  or is rescheduled between the two, stays without a session at the daemon until the
  client makes its next call; so does one that asks for keep-alive after the exit.
* Requests that could not be queued, and callbacks that release a claim, stay in the
  client's register.
* A request for a disk that is held back by a dangling volume waits as long as the
  volume dangles.

Helpers and probing:

* While FSKit is thought to be missing (`gFSKitMissing`, the default until it answers)
  candidates that were put off are never asked; `NothingSkipped` says so.
* A candidate with "autodiskmount" FALSE switches automatic mounting off by matching
  the medium, before it is asked whether the volume is its own.
* The output of a child is read to its end on the work loop (`DACommand.c:313`): a
  process the child leaves behind with the pipe stops the daemon for as long as it
  lives. `ProbeEnds` assumes that it exits.

Mounting:

* A directory that is reserved for a mount can be removed all the same, by the thread
  of `_DADiskRefresh` (`DAPrivate.c:46`), by `_DAServerrmdir` (`DAServer.c:1727`), which
  does not look at `gDAMountPointList`, and by a failing mount
  (`DAMount.c:303`) that updates a volume or was given this directory by a client or a
  mount map; then two volumes can come by one mount point. `ApartPoints`,
  `ReservedStands` and `UnmountsOwn` name the exceptions; what the thread removes is therefore
  not caught by them.
* A client, a mount map or another process may name a directory that the daemon made for
  another volume. The two are then mounted one over the other, an unmount by path
  (`DARequest.c:1629`) takes off the upper one whichever it was asked for, and a volume that is
  renamed takes the directory along. `ApartPoints` and `UnmountsOwn` are about two
  volumes that had their mount points made by the daemon.
* With "force" (`DAMount.c:151`) a dirty volume is mounted for writing though its
  repair failed. `CleanWhenWritten` leaves out these mounts, and those of other processes; not the
  daemon's own second attempt, which is made to be read.
* Unmount and rename go by the path in the description. If others moved things
  meanwhile, they reach whatever is there.
* A volume that others mount or unmount while a command of it runs may go unnoticed
  until the next notification of the kind (`NewsComes`).
* A volume that others mounted elsewhere leaves its old directory in `/Volumes`.
* The second attempt after a failed repair (`DAMount.c:79`) is no longer automatic, and
  does not get the options that automatic mounts of system volumes do.

Media and console:

* A logout that configd has not told of when the next user logs in or is switched to is
  never noticed: that user's volumes stay mounted. The same holds for a user whose
  SystemUIServer did not register, and for one who ends a session in the background.
* An encrypted, deferred volume whose mount is in flight at a logout is described as
  mounted by nobody, and stays if others are logged in.
* A medium that is registered again and gone before both are told of gets a disk when
  the disappearance comes first, and no news takes it off (`ListTrue`).
* `__DAMediaBusyStateChangedCallback` uses its disk after it drained the appearances,
  which may have dropped it for another of its name (`DAServer.c:258`).

## 6. Plan

In this order; each step with its properties, runs, and proofs where they pay.

1. *done* DAApproval, DAResponse, their proofs.
2. *done* DAStage and its proofs.
3. *done* DAWork, DAWorker with DAProbe on top (threads, children, probing).
4. *done* DASession and the proof that no wake-up is lost.
5. *done* DAMedia and DAConsole (notification queues, quiescing, console users).
6. *done* DAMount (repair, mount points, mount, retry, refresh, volume notifications).
7. *done* Proofs of all safety properties of DAResponse, DAStage, DASession, DAWorker,
   DAMount, DAMedia and DAConsole, and of the refinements of DAApproval and DAWork
   (section 4).
8. The arithmetic of the response timer, FSKit additions, scheduling a client's
   session on a run loop.

## 7. Not modelled

* Data without protocol: property dictionaries (`DADisk.c`), descriptions, match
  dictionaries, `/etc/fstab` and the volume status database (`fstab.c`, `vsdb.c`; what
  they say of a volume are constants of DAMount), preferences.
* Reports and windows: `DATelemetry.m`, `DALog.c`, `DADialog.m`, the agent.
* Programs of their own: `autodiskmount`, which scans devices without the daemon, and
  `datest`, a client for tests.
* External services: FSKit (`DAUserFSMount.m`), authorization, launchd, configd, I/O
  Kit and the kernel are what they do to the daemon, as external actions.
* The branches for iOS: idle exit, unlocked state, containers.
* Failures of `malloc`.
