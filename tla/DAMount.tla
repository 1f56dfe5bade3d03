------------------------------ MODULE DAMount ------------------------------
(***************************************************************************)
(* Mounting: DAMount.c, the mount, unmount, rename and refresh requests of *)
(* DARequest.c once they are dispatched, _DADiskRefresh, and the volume    *)
(* notifications of DAServer.c.                                            *)
(*                                                                         *)
(* The daemon keeps a description of where each volume is mounted.  The    *)
(* truth is in the kernel's mount table, which others change too, and what *)
(* they change is learnt from notifications that say only that something   *)
(* has changed.  Mount points in /Volumes are made and removed by the      *)
(* daemon, by callbacks on its work loop and by a thread that nobody waits *)
(* for.  One command per disk is under way at a time (DAStage); every disk *)
(* is on a unit of its own here.                                           *)
(***************************************************************************)
EXTENDS Naturals, Sequences, FiniteSets

CONSTANTS
  Disk,
  Network,       \* the disks without media, which the mount table creates
  Name,          \* names of volumes
  FirstName,     \* FirstName[d]: the name of d's volume at first
  LastIndex,     \* a name is tried with the numbers 0 .. LastIndex (99 in the code)
  Outside,       \* mount points outside /Volumes
  Littered,      \* directories in /Volumes that cannot be removed
  Automatic,     \* the disks that may be mounted automatically
  System,        \* APFS system volumes in the base system
  Dirty,         \* the disks whose volume may be dirty
  ReadOnlyMedia, \* the disks whose media cannot be written
  AlwaysRepair,  \* the preference kDAPreferenceMountAlwaysRepairKey
  MapOptions,    \* MapOptions[d]: options of the mount maps for d
  MapPath,       \* MapPath[d]: their mount point for d, if any
  ClientOptions, \* the options clients pass
  ClientPoints,  \* the directories that clients and others make and mount on
  MaxSweep,      \* threads that remove mount points, at once
  MaxInput,      \* requests, and what others do
  NoPath

Option == {"rdonly", "rw", "update", "snapshot", "nobrowse"}
Own    == Name \X (0 .. LastIndex)    \* /Volumes/<name> <index>
Path   == Own \cup Outside

ASSUME MountAssumption ==
  /\ Network \subseteq Disk /\ Dirty \subseteq Disk /\ Littered \subseteq Own
  /\ Own \cap Outside = {} /\ NoPath \notin Path
  /\ FirstName \in [Disk -> Name]
  /\ MapOptions \in [Disk -> Seq(Option)]
  /\ MapPath \in [Disk -> Path \cup {NoPath}]
  /\ ClientOptions \subseteq Seq(Option) /\ ClientPoints \subseteq Path
  /\ AlwaysRepair \in BOOLEAN /\ LastIndex \in Nat /\ MaxSweep \in Nat /\ MaxInput \in Nat

VARIABLES
  list,     \* gDADiskList
  name,     \* name[d]: kDADiskDescriptionVolumeNameKey
  path,     \* path[d]: kDADiskDescriptionVolumePathKey, and the bypath
  dirty,    \* kDADiskStateRequireRepair
  quotas,   \* kDADiskStateRequireRepairQuotas
  command,  \* command[d]: the mount or unmount of d under way
  reserved, \* reserved[p]: how often p is in gDAMountPointList
  refresh,  \* the disks with a refresh request queued
  sweeps,   \* sweeps[p]: the threads that are to remove p
  table,    \* table[d]: the kernel's mount table
  label,    \* label[d]: the name d's volume has
  dirs,     \* dirs[p]: who made the directory p, if there is one
  news,     \* notifications from the kernel: "mounted", "changed"
  input,    \* how many requests there were, and how much others have done
  lost,     \* lost[d]: when d's volume was mounted or unmounted by others
  swept     \* mount points that were removed or moved while they were reserved

descVars   == <<list, name, path>>
stateVars  == <<dirty, quotas>>
daemonVars == <<descVars, stateVars, command, reserved, refresh>>
kernelVars == <<table, label, news>>
diskVars   == <<dirs, sweeps>>
history    == <<lost, swept, input>>
vars == <<daemonVars, kernelVars, diskVars, history>>

\* made: the daemon made the mount point for the volume.  forced: others mounted
\* it, or a client asked for it by "force" (insists), and not only the daemon
\* itself after a repair that failed (force).
NotMounted == [at |-> NoPath, flags |-> {}, forced |-> FALSE, made |-> FALSE]
Idle == [at |-> "idle", automatic |-> FALSE, force |-> FALSE, insists |-> FALSE,
         options |-> <<>>, point |-> NoPath, made |-> FALSE]

TypeOK ==
  /\ list \subseteq Disk /\ dirty \subseteq Disk /\ quotas \subseteq Disk /\ refresh \subseteq list
  /\ name \in [Disk -> Name] /\ label \in [Disk -> Name]
  /\ path \in [Disk -> Path \cup {NoPath}]
  /\ \A d \in Disk :
       /\ command[d] \in [at : {"idle", "repair", "mount", "mounted", "failed", "quotas",
                                "unmount", "unmounted", "busy"},
                          automatic : BOOLEAN, force : BOOLEAN, insists : BOOLEAN,
                          options : Seq(Option), point : Path \cup {NoPath}, made : BOOLEAN]
       /\ table[d] \in [at : Path \cup {NoPath}, flags : SUBSET Option, forced : BOOLEAN,
                        made : BOOLEAN]
  /\ reserved \in [Path -> Nat] /\ sweeps \in [Own -> 0 .. MaxSweep]
  /\ dirs \in [Own -> {"none", "daemon", "client", "littered"}]
  /\ news \subseteq {"mounted", "changed"}
  /\ lost \in [Disk -> {"no", "behind", "unseen"}]
  /\ swept \subseteq Own /\ input \in 0 .. MaxInput

Init ==
  /\ list = Disk \ Network
  /\ name = FirstName /\ label = FirstName
  /\ path = [d \in Disk |-> NoPath] /\ table = [d \in Disk |-> NotMounted]
  /\ dirty \in SUBSET Dirty /\ quotas = dirty
  /\ command = [d \in Disk |-> Idle]
  /\ reserved = [p \in Path |-> 0]
  /\ refresh = {} /\ news = {} /\ swept = {} /\ input = 0
  /\ sweeps = [p \in Own |-> 0]
  /\ dirs = [p \in Own |-> IF p \in Littered THEN "littered" ELSE "none"]
  /\ lost = [d \in Disk |-> "no"]

-----------------------------------------------------------------------------
(* Mount points                                                            *)

At(d) == table[d].at
MountedOn(p) == {d \in Disk : At(d) = p}

\* Whether rmdir removes p.
Removable(p) == p \in Own /\ dirs[p] \in {"daemon", "client"} /\ MountedOn(p) = {}

\* dirs after DAMountRemoveMountPoint(p).
Removed(p) == IF Removable(p) THEN [dirs EXCEPT ![p] = "none"] ELSE dirs

\* The mutant removes mount points that another mount has reserved.
CanMakeAny(p) == dirs[p] = "none" \/ Removable(p)

\* What is left of an old mount point is removed, unless it is reserved.
CanMake(p) == dirs[p] = "none" \/ (Removable(p) /\ reserved[p] = 0)

\* What kDAMountPointActionMake finds for the name n: the first it can make.
Makes(n) == {p \in Own : /\ p[1] = n /\ CanMake(p)
                         /\ \A i \in 0 .. p[2] - 1 : ~CanMake(<<n, i>>)}

\* kDAMountPointActionMove, for the name n: rename(2) moves a mount point to a
\* name that is free.
CanMove(p, to) == dirs[to] = "none" \/ to = p
Moves(p, n) ==
  IF p \notin Own \/ dirs[p] = "none" THEN {}
  ELSE {to \in Own : /\ to[1] = n /\ CanMove(p, to)
                     /\ \A i \in 0 .. to[2] - 1 : ~CanMove(p, <<n, i>>)}

\* The name of d is now n; the mount point p, and the description, follow it.
\* What else is mounted on p moves too.
NameFollows(d, n, p) ==
  /\ name' = [name EXCEPT ![d] = n]
  /\ \/ /\ Moves(p, n) \subseteq {p}
        /\ path' = [path EXCEPT ![d] = p]
        /\ lost' = [lost EXCEPT ![d] = IF At(d) = p THEN "no" ELSE @]
        /\ UNCHANGED <<dirs, table, swept>>
     \/ \E to \in Moves(p, n) \ {p} :
          /\ path' = [path EXCEPT ![d] = to]
          /\ dirs' = [dirs EXCEPT ![to] = dirs[p], ![p] = "none"]
          /\ table' = [e \in Disk |-> IF At(e) = p THEN [table[e] EXCEPT !.at = to] ELSE table[e]]
          /\ lost' = [e \in Disk |-> IF At(e) # p THEN lost[e] ELSE IF e = d THEN "no" ELSE "unseen"]
          /\ swept' = IF reserved[p] > 0 \/ p \in swept THEN swept \cup {p, to} ELSE swept

-----------------------------------------------------------------------------
(* Options                                                                 *)

\* The flags a list of options comes to: the last word counts.
Flags(options) ==
  {o \in Option \ {"rw"} :
     \E i \in DOMAIN options :
       /\ options[i] = o
       /\ o = "rdonly" => \A k \in i + 1 .. Len(options) : options[k] # "rw"}

DAMountContainsArgument(options, o) == o \in Flags(options)

\* DAMount adds its own options in front of the caller's.
SystemOptions(d, automatic) ==
  IF automatic /\ d \in System THEN <<"nobrowse", "rdonly">> ELSE <<>>
MediaOptions(d) == IF d \in ReadOnlyMedia THEN <<"rdonly">> ELSE <<>>
Options(d, a) ==
  MediaOptions(d) \o MapOptions[d] \o SystemOptions(d, a.automatic) \o a.options

-----------------------------------------------------------------------------
(* Mounting                                                                *)

\* A volume that is updated stays where it is; else the caller's mount point,
\* or that of the mount map.
PointFor(d, a) ==
  IF DAMountContainsArgument(a.options, "update") THEN path[d]
  ELSE IF a.point # NoPath THEN a.point ELSE MapPath[d]

\* The volume is repaired, if it needs it, unless it is mounted read-only.
Checks(d, a) == a.automatic \/ ~DAMountContainsArgument(Options(d, a), "rdonly")

Refused(d, a) ==
  \/ /\ DAMountContainsArgument(a.options, "update")
     /\ a.point # NoPath \/ path[d] = NoPath
  \/ /\ DAMountContainsArgument(a.options, "snapshot")
     /\ path[d] = NoPath \/ (a.point = NoPath /\ ~DAMountContainsArgument(a.options, "update"))
  \/ a.automatic /\ d \notin Automatic
  \/ ~Checks(d, a) /\ d \in dirty /\ ~a.force

Ends(d) == command' = [command EXCEPT ![d] = Idle]

Reserve(p) == reserved' = [reserved EXCEPT ![p] = @ + 1]

\* The second half of stage 1: mount(8) is started, on the mount point that was
\* given, whosever it is, or on one that is made.
Starts(d, c) ==
  LET go(p, made) ==
        /\ Reserve(p)
        /\ command' = [command EXCEPT ![d] = [c EXCEPT !.at = "mount", !.point = p, !.made = made,
                                                       !.automatic = FALSE]]
  IN \/ c.point # NoPath /\ go(c.point, FALSE) /\ UNCHANGED <<dirs, swept>>
     \/ /\ c.point = NoPath
        /\ \E p \in Makes(name[d]) :
             /\ go(p, TRUE)
             /\ dirs' = [dirs EXCEPT ![p] = "daemon"]
             /\ swept' = IF reserved[p] = 0 THEN swept \ {p} ELSE swept
     \/ /\ c.point = NoPath /\ Makes(name[d]) = {}    \* ENOSPC
        /\ Ends(d) /\ UNCHANGED <<dirs, reserved, swept>>

DAMountWithArguments(d, a) ==
  LET c == [a EXCEPT !.point = PointFor(d, a), !.options = Options(d, a)]
      repair == (Checks(d, a) /\ d \in dirty) \/ AlwaysRepair
  IN \/ Refused(d, a) /\ Ends(d) /\ UNCHANGED <<dirs, reserved, swept>>
     \/ /\ ~Refused(d, a) /\ repair
        /\ command' = [command EXCEPT ![d] = [c EXCEPT !.at = "repair"]]
        /\ UNCHANGED <<dirs, reserved, swept>>
     \/ ~Refused(d, a) /\ ~repair /\ Starts(d, c)

Arguments(automatic, force, insists, options, point) ==
  [Idle EXCEPT !.automatic = automatic, !.force = force, !.insists = insists,
               !.options = options, !.point = point]

\* __DAMountWithArgumentsCallback for a volume that could not be repaired: what
\* was mounted automatically is tried again, to be read.
GivesUp(d, c) ==
  IF c.automatic
  THEN DAMountWithArguments(d, Arguments(FALSE, TRUE, FALSE, <<"rdonly">>, NoPath))
  ELSE Ends(d) /\ UNCHANGED <<dirs, reserved, swept>>

\* __DAMountWithArgumentsCallbackStage1, after fsck.  The mutant mounts a volume
\* whose repair failed.
RepairDoneAnyhow(d, ok) ==
  /\ command[d].at = "repair"
  /\ dirty' = IF ok THEN dirty \ {d} ELSE dirty
  /\ Starts(d, command[d])
  /\ UNCHANGED <<descVars, quotas, refresh, kernelVars, sweeps, lost, input>>

RepairDone(d, ok) ==
  /\ command[d].at = "repair"
  /\ dirty' = IF ok THEN dirty \ {d} ELSE dirty
  /\ IF ok \/ command[d].force THEN Starts(d, command[d]) ELSE GivesUp(d, command[d])
  /\ UNCHANGED <<descVars, quotas, refresh, kernelVars, sweeps, lost, input>>

\* What becomes of lost[d] when others mount or unmount d's volume.
Meanwhile(d, rest) == IF command[d].at = "idle" THEN rest ELSE "unseen"

\* mount(8), which needs the directory.  The mount of a snapshot is another entry
\* of the mount table, which will be a disk without media.
MountRuns(d) ==
  LET c == command[d]
      update   == DAMountContainsArgument(c.options, "update")
      snapshot == DAMountContainsArgument(c.options, "snapshot")
      entry == [at |-> c.point, flags |-> Flags(c.options), forced |-> c.insists,
                made |-> IF update THEN table[d].made ELSE c.made]
      copy  == [at |-> c.point, flags |-> Flags(c.options) \cup {"rdonly"}, forced |-> FALSE,
                made |-> FALSE]
  IN /\ c.at = "mount"
     /\ \/ /\ c.point \in Own => dirs[c.point] # "none"
           /\ \/ snapshot /\ update /\ At(d) # NoPath /\ UNCHANGED <<table, lost>>
              \/ /\ snapshot /\ ~update /\ At(d) # NoPath
                 /\ \E n \in Network :
                      /\ At(n) = NoPath
                      /\ table' = [table EXCEPT ![n] = copy]
                      /\ lost' = [lost EXCEPT ![n] = Meanwhile(n, @)]
              \/ /\ ~snapshot /\ At(d) = (IF update THEN c.point ELSE NoPath)
                 /\ table' = [table EXCEPT ![d] = entry]
                 /\ UNCHANGED lost
           /\ news' = news \cup {"mounted"}
           /\ command' = [command EXCEPT ![d].at = "mounted"]
        \/ /\ command' = [command EXCEPT ![d].at = "failed"]
           /\ UNCHANGED <<table, news, lost>>
     /\ UNCHANGED <<descVars, stateVars, reserved, refresh, label, diskVars, swept, input>>

Release(p) == reserved' = [reserved EXCEPT ![p] = @ - 1]

\* __DARequestMountCallback for a mount that worked.
Mounted(d, c) ==
  /\ Ends(d)
  /\ path' = IF DAMountContainsArgument(c.options, "snapshot") THEN path
             ELSE [path EXCEPT ![d] = c.point]

\* __DAMountWithArgumentsCallbackStage2.
MountDone(d) ==
  LET c == command[d] IN
  /\ c.at \in {"mounted", "failed"}
  /\ Release(c.point)
  /\ \/ /\ c.at = "mounted" /\ d \in quotas
        /\ command' = [command EXCEPT ![d].at = "quotas"]
        /\ UNCHANGED <<path, dirs, swept>>
     \/ /\ c.at = "mounted" /\ d \notin quotas
        /\ Mounted(d, c)
        /\ UNCHANGED <<dirs, swept>>
     \/ /\ c.at = "failed"
        /\ dirs' = Removed(c.point)
        /\ swept' = IF reserved'[c.point] > 0 /\ Removable(c.point) THEN swept \cup {c.point} ELSE swept
        /\ Ends(d)
        /\ UNCHANGED path
  /\ UNCHANGED <<list, name, stateVars, refresh, kernelVars, sweeps, lost, input>>

\* __DAMountWithArgumentsCallbackStage3.
QuotasDone(d, ok) ==
  /\ command[d].at = "quotas"
  /\ quotas' = IF ok THEN quotas \ {d} ELSE quotas
  /\ Mounted(d, command[d])
  /\ UNCHANGED <<list, name, dirty, reserved, refresh, kernelVars, diskVars, history>>

AtRest(d) == d \in list /\ command[d].at = "idle"

Counts == input < MaxInput /\ input' = input + 1

\* What others did is forgotten when the daemon knows it.
Knows(d) == lost' = [lost EXCEPT ![d] = "no"]

\* __DARequestMount, once the volume is probed and clients have approved.
Mount(d, automatic, force, options, point) ==
  /\ Counts
  /\ AtRest(d) /\ d \notin Network
  /\ \/ path[d] = NoPath /\ ~DAMountContainsArgument(options, "snapshot")
     \/ DAMountContainsArgument(options, "update")
     \/ DAMountContainsArgument(options, "snapshot")
  /\ DAMountWithArguments(d, Arguments(automatic, force, force, options, point))
  /\ IF path[d] = At(d) THEN Knows(d) ELSE UNCHANGED lost
  /\ UNCHANGED <<descVars, stateVars, refresh, kernelVars, sweeps>>

-----------------------------------------------------------------------------
(* Unmounting                                                              *)

Unmount(d) ==
  /\ Counts
  /\ AtRest(d) /\ path[d] # NoPath
  /\ command' = [command EXCEPT ![d].at = "unmount"]
  /\ UNCHANGED <<descVars, stateVars, reserved, refresh, kernelVars, diskVars, lost, swept>>

\* unmount(2) takes off what is mounted on the path.
UnmountRuns(d) ==
  /\ command[d].at = "unmount"
  /\ \/ \E e \in MountedOn(path[d]) :
          /\ table' = [table EXCEPT ![e] = NotMounted]
          /\ news' = news \cup {"changed"}
          /\ lost' = IF e = d THEN lost
                     ELSE [lost EXCEPT ![e] = Meanwhile(e, "behind"), ![d] = "unseen"]
          /\ command' = [command EXCEPT ![d].at = "unmounted"]
     \/ /\ command' = [command EXCEPT ![d].at = "busy"]
        /\ UNCHANGED <<table, news, lost>>
  /\ UNCHANGED <<descVars, stateVars, reserved, refresh, label, diskVars, swept, input>>

\* d is known not to be mounted: its path goes, and a disk without media.
Forgets(d) ==
  /\ path' = [path EXCEPT ![d] = NoPath]
  /\ list' = list \ ({d} \cap Network)

\* The mutant removes the mount point though it is reserved.
UnmountDoneAnyhow(d) ==
  LET c == command[d] IN
  /\ \/ /\ c.at = "unmounted" \/ (c.at = "busy" /\ At(d) = NoPath)
        /\ dirs' = Removed(path[d])
        /\ Forgets(d)
        /\ IF At(d) = NoPath THEN Knows(d) ELSE UNCHANGED lost
        /\ refresh' = refresh \cap list'
     \/ /\ c.at = "busy" /\ At(d) # NoPath
        /\ UNCHANGED <<dirs, path, list, refresh, lost>>
  /\ Ends(d)
  /\ UNCHANGED <<name, stateVars, reserved, kernelVars, sweeps, swept, input>>

\* __DARequestUnmountCallback.  An error does not count if d is not mounted.
UnmountDone(d) ==
  LET c == command[d] IN
  /\ \/ /\ c.at = "unmounted" \/ (c.at = "busy" /\ At(d) = NoPath)
        /\ dirs' = IF reserved[path[d]] = 0 THEN Removed(path[d]) ELSE dirs
        /\ Forgets(d)
        /\ IF At(d) = NoPath THEN Knows(d) ELSE UNCHANGED lost
        /\ refresh' = refresh \cap list'
     \/ /\ c.at = "busy" /\ At(d) # NoPath
        /\ UNCHANGED <<dirs, path, list, refresh, lost>>
  /\ Ends(d)
  /\ UNCHANGED <<name, stateVars, reserved, kernelVars, sweeps, swept, input>>

-----------------------------------------------------------------------------
(* Keeping up with the mount table                                         *)

\* setattrlist(2) names what is mounted on the path; the rest is
\* __DARequestRenameCallback.
Rename(d, n) ==
  /\ Counts
  /\ AtRest(d) /\ path[d] # NoPath /\ n # name[d]
  /\ \E e \in MountedOn(path[d]) : label' = [label EXCEPT ![e] = n]
  /\ NameFollows(d, n, path[d])
  /\ UNCHANGED <<list, stateVars, command, reserved, refresh, news, sweeps>>

\* __DAMediaPropertyChangedCallback.
PropertyChanged(d) ==
  /\ AtRest(d) /\ d \notin Network
  /\ path[d] # NoPath /\ At(d) = path[d] /\ label[d] # name[d]
  /\ NameFollows(d, label[d], path[d])
  /\ UNCHANGED <<list, stateVars, command, reserved, refresh, label, news, sweeps, input>>

\* _DADiskRefresh of a disk that is described as mounted, and is.  The mutant
\* keeps the path it has.
SeenMountedAsBefore(d) ==
  /\ path[d] # NoPath /\ At(d) # NoPath
  /\ IF d \notin Network /\ label[d] # name[d] THEN NameFollows(d, label[d], At(d))
     ELSE Knows(d) /\ UNCHANGED <<path, name, dirs, table, swept>>
  /\ UNCHANGED <<list, sweeps>>

SeenMounted(d) ==
  /\ path[d] # NoPath /\ At(d) # NoPath
  /\ IF d \notin Network /\ label[d] # name[d] THEN NameFollows(d, label[d], At(d))
     ELSE /\ path' = [path EXCEPT ![d] = At(d)] /\ Knows(d)
          /\ UNCHANGED <<name, dirs, table, swept>>
  /\ UNCHANGED <<list, sweeps>>

\* A thread is to remove the mount point, and is not waited for.
SeenUnmounted(d) ==
  /\ path[d] # NoPath /\ At(d) = NoPath
  /\ IF path[d] \in Own
     THEN sweeps[path[d]] < MaxSweep /\ sweeps' = [sweeps EXCEPT ![path[d]] = @ + 1]
     ELSE UNCHANGED sweeps
  /\ Forgets(d) /\ Knows(d)
  /\ UNCHANGED <<name, dirs, table, swept>>

SeenAnew(d) ==
  /\ path[d] = NoPath
  /\ path' = [path EXCEPT ![d] = At(d)]
  /\ Knows(d)
  /\ UNCHANGED <<list, name, sweeps, dirs, table, swept>>

\* __DARequestRefresh.
Refresh(d) ==
  /\ d \in refresh /\ AtRest(d)
  /\ SeenMounted(d) \/ SeenUnmounted(d) \/ SeenAnew(d)
  /\ refresh' = refresh \ {d}
  /\ UNCHANGED <<stateVars, command, reserved, label, news, input>>

\* __DADiskRefreshRemoveMountPoint, on its thread.
Sweep(p) ==
  /\ sweeps[p] > 0
  /\ sweeps' = [sweeps EXCEPT ![p] = @ - 1]
  /\ dirs' = Removed(p)
  /\ swept' = IF reserved[p] > 0 /\ Removable(p) THEN swept \cup {p} ELSE swept
  /\ UNCHANGED <<daemonVars, kernelVars, lost, input>>

Appearing == {d \in Network \ list : At(d) # NoPath}

\* _DAVolumeMountedCallback.
VolumeMounted ==
  /\ "mounted" \in news
  /\ news' = news \ {"mounted"}
  /\ refresh' = refresh \cup {d \in list : At(d) # NoPath /\ path[d] = NoPath}
  /\ list' = list \cup Appearing
  /\ path' = [d \in Disk |-> IF d \in Appearing THEN At(d) ELSE path[d]]
  /\ name' = [d \in Disk |-> IF d \in Appearing THEN label[d] ELSE name[d]]
  /\ lost' = [d \in Disk |-> IF d \in Appearing THEN "no" ELSE lost[d]]
  /\ UNCHANGED <<stateVars, command, reserved, table, label, diskVars, swept, input>>

\* _DAVolumeUnmountedCallback and _DAVolumeUpdatedCallback, which are the same.
VolumeChanged ==
  /\ "changed" \in news
  /\ news' = news \ {"changed"}
  /\ refresh' = refresh \cup {d \in list : path[d] # NoPath}
  /\ UNCHANGED <<descVars, stateVars, command, reserved, table, label, diskVars, history>>

-----------------------------------------------------------------------------
(* Others                                                                  *)

\* _DAServermkdir and _DAServerrmdir, for clients that mount by themselves.
ClientMkdir(p) ==
  /\ Counts
  /\ dirs[p] = "none"
  /\ dirs' = [dirs EXCEPT ![p] = "client"]
  /\ UNCHANGED <<daemonVars, kernelVars, sweeps, lost, swept>>

ClientRmdir(p) ==
  /\ Counts
  /\ Removable(p)
  /\ dirs' = Removed(p)
  /\ swept' = IF reserved[p] > 0 THEN swept \cup {p} ELSE swept
  /\ UNCHANGED <<daemonVars, kernelVars, sweeps, lost>>

\* They mount on any directory, over what is mounted there.
OthersMount(d, p) ==
  /\ Counts
  /\ At(d) = NoPath
  /\ p \in Own => dirs[p] # "none"
  /\ table' = [table EXCEPT ![d] = [NotMounted EXCEPT !.at = p, !.forced = TRUE]]
  /\ news' = news \cup {"mounted"}
  /\ lost' = [lost EXCEPT ![d] = Meanwhile(d, @)]
  /\ UNCHANGED <<daemonVars, label, diskVars, swept>>

OthersUnmount(d) ==
  /\ Counts
  /\ At(d) # NoPath
  /\ table' = [table EXCEPT ![d] = NotMounted]
  /\ news' = news \cup {"changed"}
  /\ lost' = [lost EXCEPT ![d] = Meanwhile(d, "behind")]
  /\ UNCHANGED <<daemonVars, label, diskVars, swept>>

OthersRename(d, n) ==
  /\ Counts
  /\ At(d) # NoPath /\ label[d] # n
  /\ label' = [label EXCEPT ![d] = n]
  /\ news' = news \cup {"changed"}
  /\ UNCHANGED <<daemonVars, table, diskVars, lost, swept>>

-----------------------------------------------------------------------------
\* A client may name any directory there was when it asked, also one in /Volumes
\* that the daemon made for another volume.  The one word "force" as its options
\* is not an option.
Requests ==
  \E d \in Disk :
    \/ Mount(d, TRUE, FALSE, <<>>, NoPath)
    \/ \E p \in ClientPoints \cup {NoPath} :
         \/ Mount(d, FALSE, TRUE, <<>>, p)
         \/ \E o \in ClientOptions : Mount(d, FALSE, FALSE, o, p)
    \/ Unmount(d) \/ \E n \in Name : Rename(d, n)

Helpers ==
  \/ \E d \in Disk : MountRuns(d) \/ UnmountRuns(d)
  \/ \E p \in Own : Sweep(p)

Callbacks(d) ==
  \/ MountDone(d) \/ UnmountDone(d)
  \/ \E ok \in BOOLEAN : RepairDone(d, ok) \/ QuotasDone(d, ok)

Notices ==
  \/ VolumeMounted \/ VolumeChanged
  \/ \E d \in Disk : Refresh(d) \/ PropertyChanged(d)

Others ==
  \/ \E p \in ClientPoints \cap Own : ClientMkdir(p) \/ ClientRmdir(p)
  \/ \E d \in Disk : \/ OthersUnmount(d)
                     \/ \E p \in ClientPoints : OthersMount(d, p)
                     \/ \E n \in Name : OthersRename(d, n)

Next == Requests \/ Helpers \/ (\E d \in Disk : Callbacks(d)) \/ Notices \/ Others

Spec == Init /\ [][Next]_vars

-----------------------------------------------------------------------------
(* Properties                                                              *)

\* Of two volumes for which the daemon made a mount point, one that is being
\* mounted never shares its mount point with the other, unless the directory was
\* removed or moved from under it.  Clients, mount maps and others may name the
\* mount point of another volume.
Made(d) == command[d].at \in {"mount", "mounted"} /\ command[d].made
ApartPoints ==
  \A d, e \in Disk :
    /\ d # e /\ Made(d)
    /\ \/ Made(e) /\ command[e].point = command[d].point
       \/ table[e].made /\ At(e) = command[d].point
    => command[d].point \in swept

\* A mount point stays until mount(8) has used it: of those that are reserved,
\* only the thread of _DADiskRefresh and _DAServerrmdir remove one; unless the
\* daemon took it for the mount point of a volume that others had unmounted, or
\* somebody named it for a volume that is mounted on it or is to be.  (When a
\* mount fails the directory that it was given is removed, and a volume that is
\* renamed takes its own along, whoever else has reserved it.)
Given(p) == \E d \in Disk :
  \/ /\ command[d].at \in {"mount", "mounted", "failed"} /\ command[d].point = p
     /\ ~command[d].made /\ path[d] # p
  \/ At(d) = p /\ ~table[d].made
ReservedStands ==
  [][\A p \in Own \ swept :
       reserved[p] > 0 /\ reserved'[p] > 0 /\ dirs[p] # "none" /\ dirs'[p] = "none"
       => \/ Sweep(p) \/ ClientRmdir(p) \/ Given(p)
          \/ \E d \in Disk : lost[d] # "no" /\ p \in {path[d], command[d].point}]_vars

\* What the daemon mounts for writing has been found clean or been repaired,
\* unless the client asked for the mount by "force"; what it tries again by
\* itself, after a repair that failed, it mounts to be read.  (forced: a client
\* insisted, or others mounted the volume.)
CleanWhenWritten ==
  \A d \in Disk : At(d) # NoPath /\ ~table[d].forced /\ "rdonly" \notin table[d].flags
                  => d \notin dirty

\* When an idle disk's path is not what the mount table says, news is coming;
\* except for a volume that others mounted or unmounted during a command of it.
NewsComes ==
  \A d \in Disk : AtRest(d) /\ path[d] # At(d)
                  => news # {} \/ d \in refresh \/ lost[d] = "unseen"

\* An unmount, by a path in /Volumes, never takes off another volume, of two for
\* which the daemon made their mount points; unless others had already taken off
\* the volume it was asked for, or the mount point is a doubtful one.
UnmountsOwn ==
  [][\A d, e \in Disk :
       /\ d # e /\ path[d] \in Own /\ UnmountRuns(d)
       /\ At(e) # NoPath /\ table'[e] = NotMounted
       /\ table[d].made /\ table[e].made
       => lost[d] # "no" \/ path[d] \in swept]_vars

=============================================================================
