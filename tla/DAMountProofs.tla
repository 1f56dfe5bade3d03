---------------------------- MODULE DAMountProofs ----------------------------
(***************************************************************************)
(* That mounts get mount points of their own, that these stand until they  *)
(* are used, that nothing dirty is mounted for writing, that the daemon    *)
(* hears of what it does not know, and that an unmount takes off its own   *)
(* volume: for any number of disks, names and mount points, and however    *)
(* often others interfere.                                                 *)
(***************************************************************************)
EXTENDS DAMount, FiniteSetTheorems, SequenceTheorems, TLAPS

Commands == [at : {"idle", "repair", "mount", "mounted", "failed", "quotas",
                   "unmount", "unmounted", "busy"},
             automatic : BOOLEAN, force : BOOLEAN, insists : BOOLEAN,
             options : Seq(Option), point : Path \cup {NoPath}, made : BOOLEAN]
Entries == [at : Path \cup {NoPath}, flags : SUBSET Option, forced : BOOLEAN, made : BOOLEAN]

\* Types, but that of the counters: these are in Reservations.
Shape ==
  /\ list \subseteq Disk /\ dirty \subseteq Disk /\ quotas \subseteq Disk /\ refresh \subseteq list
  /\ name \in [Disk -> Name] /\ label \in [Disk -> Name]
  /\ path \in [Disk -> Path \cup {NoPath}]
  /\ command \in [Disk -> Commands] /\ table \in [Disk -> Entries]
  /\ sweeps \in [Own -> 0 .. MaxSweep]
  /\ dirs \in [Own -> {"none", "daemon", "client", "littered"}]
  /\ news \subseteq {"mounted", "changed"}
  /\ lost \in [Disk -> {"no", "behind", "unseen"}]
  /\ swept \subseteq Own /\ input \in 0 .. MaxInput

\* A mount point is counted once for every mount that has it reserved.
Holds == {"mount", "mounted", "failed"}
Holders(c, p) == {d \in Disk : c[d].at \in Holds /\ c[d].point = p}
Reservations ==
  /\ \A p \in Path : IsFiniteSet(Holders(command, p))
  /\ reserved = [p \in Path |-> Cardinality(Holders(command, p))]

Snaps(d) == DAMountContainsArgument(command[d].options, "snapshot")

\* A command is one of a disk of the list, and a mount has somewhere to mount.  A
\* volume that is repaired to be mounted whatever comes of it is mounted to be
\* read, or a client insists.
Grudging(r) == r.force /\ ~r.insists => "rdonly" \in Flags(r.options)
CommandsFit ==
  \A d \in Disk :
    /\ command[d].at # "idle" => d \in list
    /\ command[d].at \in Holds =>
         command[d].point \in Path /\ (command[d].made => command[d].point \in Own)
    /\ command[d].at = "repair" => Grudging(command[d])

\* A mount that had a mount point made for it.
Maker(d) == command[d].at \in Holds /\ command[d].made /\ command[d].point \in Own

\* What is mounted in /Volumes has its directory; what was made for a mount is
\* there, was made for no other, and no volume that had its own made is mounted on
\* it, if it was not removed or moved from under it; and so with two volumes that
\* are mounted.
MountedHaveDirs == \A d \in Disk : At(d) \in Own => dirs[At(d)] # "none"
Standing ==
  \A d \in Disk : Maker(d) /\ dirs[command[d].point] = "none" => command[d].point \in swept
MakersApart ==
  \A d, e \in Disk :
    /\ d # e /\ Maker(d)
    /\ \/ Maker(e) /\ command[e].point = command[d].point
       \/ table[e].made /\ At(e) = command[d].point
    => command[d].point \in swept
MountedApart ==
  \A d, e \in Disk :
    d # e /\ At(d) = At(e) /\ At(d) \in Own /\ table[d].made /\ table[e].made => At(d) \in swept

Points == MountedHaveDirs /\ Standing /\ MakersApart /\ MountedApart

\* A volume that others left alone is where the daemon has it, or where a mount
\* that is not finished will have put it.
Aims(d) == command[d].at \in {"mounted", "quotas"} /\ ~Snaps(d)
Known ==
  \A d \in Disk : lost[d] = "no" =>
    /\ Aims(d) => At(d) = command[d].point
    /\ ~Aims(d) /\ command[d].at # "unmounted" /\ path[d] # NoPath => At(d) = path[d]

\* The news that will make the daemon look at d.
Covered(d) == \/ "changed" \in news /\ path[d] # NoPath
              \/ "mounted" \in news /\ path[d] = NoPath
              \/ d \in refresh \/ lost[d] = "unseen"
Heard ==
  \A d \in list :
    /\ Aims(d) => At(d) = command[d].point \/ lost[d] = "unseen"
    /\ command[d].at = "unmounted" => At(d) = NoPath \/ lost[d] = "unseen"
    /\ ~Aims(d) /\ command[d].at # "unmounted" /\ path[d] # At(d) => Covered(d)

\* A mount for writing is not started while the volume is dirty.
CleanWhenMounting ==
  \A d \in Disk :
    command[d].at = "mount" /\ ~command[d].insists /\ "rdonly" \notin Flags(command[d].options)
    => d \notin dirty

MountInv ==
  /\ Shape /\ Reservations /\ CommandsFit
  /\ Points /\ Known /\ Heard /\ CleanWhenMounting /\ CleanWhenWritten

-----------------------------------------------------------------------------
(* Constants, options and commands.                                        *)

LEMMA PathFacts == Path = Own \cup Outside /\ Own \cap Outside = {} /\ NoPath \notin Path
                   /\ NoPath \notin Own /\ NoPath \notin Outside
  BY MountAssumption DEF Path

LEMMA IdleFields ==
  /\ Idle \in Commands /\ Idle.at = "idle" /\ Idle.point = NoPath
  /\ <<>> \in Seq(Option)
  <1>1. <<>> \in Seq(Option)
    OBVIOUS
  <1> QED BY <1>1 DEF Idle, Commands

LEMMA OptionsAreOptions ==
  ASSUME NEW d \in Disk, NEW a \in Commands
  PROVE  /\ Options(d, a) \in Seq(Option)
         /\ a.options = <<"rdonly">> => "rdonly" \in Flags(Options(d, a))
  <1> DEFINE m == MediaOptions(d)
             s == SystemOptions(d, a.automatic)
             pre == m \o MapOptions[d] \o s
  <1>1. /\ m \in Seq(Option) /\ s \in Seq(Option) /\ MapOptions[d] \in Seq(Option)
        /\ a.options \in Seq(Option)
    <2>1. <<>> \in Seq(Option) /\ <<"rdonly">> \in Seq(Option) /\ <<"nobrowse", "rdonly">> \in Seq(Option)
      BY DEF Option
    <2> QED BY <2>1, MountAssumption DEF MediaOptions, SystemOptions, Commands
  <1> HIDE DEF m, s
  <1>2. pre \in Seq(Option)
    BY <1>1, ConcatProperties
  <1>3. Options(d, a) = pre \o a.options
    BY DEF Options, m, s
  <1> HIDE DEF pre
  <1>4. /\ pre \o a.options \in Seq(Option)
        /\ Len(pre \o a.options) = Len(pre) + Len(a.options)
        /\ \A k \in 1 .. Len(pre) + Len(a.options) :
             (pre \o a.options)[k] = IF k <= Len(pre) THEN pre[k] ELSE a.options[k - Len(pre)]
    BY <1>1, <1>2, ConcatProperties
  <1>5. ASSUME a.options = <<"rdonly">>
        PROVE  "rdonly" \in Flags(pre \o a.options)
    <2> DEFINE n == Len(pre) + 1
    <2>1. Len(pre) \in Nat /\ Len(a.options) = 1 /\ a.options[1] = "rdonly"
      BY <1>2, <1>5, LenProperties
    <2>2. Len(pre \o a.options) = n /\ n \in 1 .. n /\ ~(n <= Len(pre)) /\ n - Len(pre) = 1
      BY <1>4, <2>1
    <2>3. (pre \o a.options)[n] = "rdonly"
      BY <1>4, <2>1, <2>2
    <2>4. DOMAIN (pre \o a.options) = 1 .. n
      BY <1>4, <2>2, LenProperties
    <2>5. n + 1 .. n = {}
      BY <2>1
    <2> HIDE DEF n
    <2>6. "rdonly" \in Option \ {"rw"}
      BY DEF Option
    <2> QED BY <2>2, <2>3, <2>4, <2>5, <2>6 DEF Flags
  <1> QED BY <1>3, <1>4, <1>5

Cleared(d, r) == ~r.insists /\ "rdonly" \notin Flags(r.options) => d \notin dirty'

\* What becomes of a mount of d that begins, or goes on after a repair: it ends,
\* the volume is to be repaired, or mount(8) is started on a mount point that is
\* given or that is made.
Begins(d, r) ==
  /\ r \in Commands
  /\ command' = [command EXCEPT ![d] = r]
  /\ \/ /\ r.at = "idle"
        /\ UNCHANGED <<dirs, reserved, swept>>
     \/ /\ r.at = "repair" /\ Grudging(r)
        /\ UNCHANGED <<dirs, reserved, swept>>
     \/ /\ r.at = "mount" /\ r.point \in Path /\ Cleared(d, r) /\ ~r.made
        /\ Reserve(r.point) /\ UNCHANGED <<dirs, swept>>
     \/ /\ r.at = "mount" /\ r.point \in Own /\ Cleared(d, r) /\ r.made
        /\ CanMake(r.point) /\ Reserve(r.point)
        /\ dirs' = [dirs EXCEPT ![r.point] = "daemon"]
        /\ swept' = IF reserved[r.point] = 0 THEN swept \ {r.point} ELSE swept

LEMMA IdleBegins ==
  ASSUME NEW d, Ends(d), UNCHANGED <<dirs, reserved, swept>>
  PROVE  \E r : Begins(d, r)
  BY IdleFields DEF Ends, Begins

LEMMA StartsBegins ==
  ASSUME NEW d \in Disk, NEW c \in Commands, Cleared(d, c), Starts(d, c)
  PROVE  \E r : Begins(d, r)
  <1> DEFINE r(p, made) == [c EXCEPT !.at = "mount", !.point = p, !.made = made, !.automatic = FALSE]
  <1>1. ASSUME NEW p \in Path, NEW made \in BOOLEAN
        PROVE  /\ r(p, made) \in Commands /\ r(p, made).at = "mount" /\ r(p, made).point = p
               /\ r(p, made).options = c.options /\ r(p, made).insists = c.insists
               /\ r(p, made).made = made
    BY DEF Commands
  <1>2. \A p \in Path, made \in BOOLEAN : Cleared(d, r(p, made))
    BY <1>1 DEF Cleared
  <1>3. c.point \in Path \cup {NoPath}
    BY DEF Commands
  <1>4. CASE c.point # NoPath
    <2> DEFINE q == r(c.point, FALSE)
    <2>1. Reserve(c.point) /\ UNCHANGED <<dirs, swept>> /\ command' = [command EXCEPT ![d] = q]
      BY <1>4 DEF Starts
    <2>2. /\ c.point \in Path /\ q \in Commands /\ q.at = "mount" /\ q.point = c.point
          /\ q.made = FALSE /\ Cleared(d, q)
      BY <1>1, <1>2, <1>3, <1>4
    <2> HIDE DEF q
    <2>3. Begins(d, q)
      BY <2>1, <2>2 DEF Begins
    <2> QED BY <2>3
  <1>5. CASE c.point = NoPath /\ Makes(name[d]) = {}
    BY <1>5, IdleBegins DEF Starts
  <1>6. CASE c.point = NoPath /\ Makes(name[d]) # {}
    <2>1. PICK p \in Makes(name[d]) :
            /\ Reserve(p) /\ command' = [command EXCEPT ![d] = r(p, TRUE)]
            /\ dirs' = [dirs EXCEPT ![p] = "daemon"]
            /\ swept' = IF reserved[p] = 0 THEN swept \ {p} ELSE swept
      BY <1>6 DEF Starts
    <2>2. p \in Own /\ p \in Path /\ CanMake(p)
      BY PathFacts DEF Makes
    <2> DEFINE q == r(p, TRUE)
    <2>3. q \in Commands /\ q.at = "mount" /\ q.point = p /\ q.made = TRUE /\ Cleared(d, q)
      BY <1>1, <1>2, <2>2
    <2>4. command' = [command EXCEPT ![d] = q]
      BY <2>1
    <2> HIDE DEF q
    <2>5. Begins(d, q)
      BY <2>1, <2>2, <2>3, <2>4 DEF Begins
    <2> QED BY <2>5
  <1> QED BY <1>4, <1>5, <1>6 DEF Starts

\* DAMount.
LEMMA MountBegins ==
  ASSUME NEW d \in Disk, NEW a \in Commands, DAMountWithArguments(d, a),
         path[d] \in Path \cup {NoPath}, dirty' \subseteq dirty,
         a.force /\ ~a.insists => a.options = <<"rdonly">>
  PROVE  \E r : Begins(d, r)
  <1> DEFINE c == [a EXCEPT !.point = PointFor(d, a), !.options = Options(d, a)]
             q == [c EXCEPT !.at = "repair"]
  <1>1. PointFor(d, a) \in Path \cup {NoPath}
    BY MountAssumption DEF PointFor, Commands
  <1>2. /\ c \in Commands /\ c.options = Options(d, a)
        /\ q \in Commands /\ q.at = "repair" /\ q.options = Options(d, a)
        /\ q.force = a.force /\ q.insists = a.insists
    BY <1>1, OptionsAreOptions DEF Commands
  <1>3. DAMountWithArguments(d, a) =>
          \/ Ends(d) /\ UNCHANGED <<dirs, reserved, swept>>
          \/ command' = [command EXCEPT ![d] = q] /\ UNCHANGED <<dirs, reserved, swept>>
          \/ ~(Checks(d, a) /\ d \in dirty) /\ Starts(d, c)
    BY DEF DAMountWithArguments
  <1> HIDE DEF c, q
  <1>4. ASSUME command' = [command EXCEPT ![d] = q], UNCHANGED <<dirs, reserved, swept>>
        PROVE  \E r : Begins(d, r)
    <2>1. Grudging(q)
      BY <1>2, OptionsAreOptions DEF Grudging
    <2>2. Begins(d, q)
      BY <1>2, <1>4, <2>1 DEF Begins
    <2> QED BY <2>2
  <1>5. ASSUME ~(Checks(d, a) /\ d \in dirty), Starts(d, c)
        PROVE  \E r : Begins(d, r)
    <2>1. Cleared(d, c)
      BY <1>2, <1>5 DEF Cleared, Checks, DAMountContainsArgument
    <2> QED BY <1>2, <1>5, <2>1, StartsBegins
  <1> QED BY <1>3, <1>4, <1>5, IdleBegins

-----------------------------------------------------------------------------
(* What depends on what.                                                   *)

LEMMA SameCommands ==
  ASSUME UNCHANGED command
  PROVE  /\ Reservations /\ UNCHANGED reserved => Reservations'
         /\ CommandsFit /\ list \subseteq list' => CommandsFit'
         /\ Points /\ UNCHANGED <<table, dirs, swept>> => Points'
         /\ Known /\ UNCHANGED <<path, table, lost>> => Known'
         /\ CleanWhenMounting /\ dirty' \subseteq dirty => CleanWhenMounting'
  <1>1. Reservations /\ UNCHANGED reserved => Reservations'
    BY DEF Reservations
  <1>2. CommandsFit /\ list \subseteq list' => CommandsFit'
    BY DEF CommandsFit
  <1>3. Points /\ UNCHANGED <<table, dirs, swept>> => Points'
    BY DEF Points, MountedHaveDirs, Standing, MakersApart, MountedApart, Maker, At
  <1>4. Known /\ UNCHANGED <<path, table, lost>> => Known'
    BY DEF Known, Aims, Snaps, At
  <1>5. CleanWhenMounting /\ dirty' \subseteq dirty => CleanWhenMounting'
    BY DEF CleanWhenMounting
  <1> QED BY <1>1, <1>2, <1>3, <1>4, <1>5

LEMMA SameTable ==
  ASSUME UNCHANGED table, dirty' \subseteq dirty, CleanWhenWritten
  PROVE  CleanWhenWritten'
  BY DEF CleanWhenWritten, At

\* More news, more to refresh, and more that is lost, do no harm.
LEMMA HeardStays ==
  ASSUME Heard, UNCHANGED <<command, path, table, list>>, news \subseteq news', refresh \subseteq refresh',
         \A d \in Disk : lost[d] = "unseen" => lost'[d] = "unseen",
         list \subseteq Disk
  PROVE  Heard'
  BY DEF Heard, Covered, Aims, Snaps, At

-----------------------------------------------------------------------------
(* Reserved mount points.                                                  *)

LEMMA HolderReserves ==
  ASSUME Reservations, NEW d \in Disk, command[d].at \in Holds, command[d].point \in Path
  PROVE  reserved[command[d].point] \in Nat /\ reserved[command[d].point] > 0
  <1> DEFINE p == command[d].point
  <1>1. /\ IsFiniteSet(Holders(command, p)) /\ reserved[p] = Cardinality(Holders(command, p))
        /\ d \in Holders(command, p)
    BY DEF Reservations, Holders
  <1>2. Cardinality(Holders(command, p)) \in Nat /\ Cardinality(Holders(command, p)) # 0
    BY <1>1, FS_CardinalityType, FS_EmptySet
  <1> QED BY <1>1, <1>2

HoldersReserve ==
  \A d \in Disk : command[d].at \in Holds /\ command[d].point \in Path
                  => reserved[command[d].point] \in Nat /\ reserved[command[d].point] > 0
LEMMA HoldersAreReserved == Reservations => HoldersReserve
  BY HolderReserves DEF HoldersReserve

LEMMA ReservedNat ==
  ASSUME Reservations, NEW p \in Path
  PROVE  reserved[p] \in Nat
  BY FS_CardinalityType DEF Reservations

LEMMA ReserveCounts ==
  ASSUME Reservations, command \in [Disk -> Commands], NEW d \in Disk, NEW r \in Commands,
         command[d].at \notin Holds, command' = [command EXCEPT ![d] = r],
         r.at \in Holds, r.point \in Path, Reserve(r.point)
  PROVE  Reservations'
  <1>1. command'[d] = r /\ \A e \in Disk : e # d => command'[e] = command[e]
    OBVIOUS
  <1>2. /\ Holders(command', r.point) = Holders(command, r.point) \cup {d}
        /\ d \notin Holders(command, r.point)
        /\ \A p \in Path : p # r.point => Holders(command', p) = Holders(command, p)
    BY <1>1 DEF Holders
  <1>3. /\ IsFiniteSet(Holders(command', r.point))
        /\ Cardinality(Holders(command', r.point)) = Cardinality(Holders(command, r.point)) + 1
    BY <1>2, FS_AddElement DEF Reservations
  <1>4. reserved' = [p \in Path |-> Cardinality(Holders(command', p))]
    BY <1>2, <1>3 DEF Reservations, Reserve
  <1>5. \A p \in Path : IsFiniteSet(Holders(command', p))
    BY <1>2, <1>3 DEF Reservations
  <1> QED BY <1>4, <1>5 DEF Reservations

LEMMA ReleaseCounts ==
  ASSUME Reservations, command \in [Disk -> Commands], NEW d \in Disk, NEW r \in Commands,
         command[d].at \in Holds, command[d].point \in Path,
         command' = [command EXCEPT ![d] = r], r.at \notin Holds, Release(command[d].point)
  PROVE  Reservations'
  <1> DEFINE q == command[d].point
  <1>1. command'[d] = r /\ \A e \in Disk : e # d => command'[e] = command[e]
    OBVIOUS
  <1>2. /\ Holders(command', q) = Holders(command, q) \ {d}
        /\ d \in Holders(command, q)
        /\ \A p \in Path : p # q => Holders(command', p) = Holders(command, p)
    BY <1>1 DEF Holders
  <1>3. /\ IsFiniteSet(Holders(command', q))
        /\ Cardinality(Holders(command', q)) = Cardinality(Holders(command, q)) - 1
    <2>1. IsFiniteSet(Holders(command, q))
      BY DEF Reservations
    <2> HIDE DEF q
    <2> QED BY <1>2, <2>1, FS_RemoveElement
  <1>4. reserved' = [p \in Path |-> Cardinality(Holders(command', p))]
    BY <1>2, <1>3 DEF Reservations, Release
  <1>5. \A p \in Path : IsFiniteSet(Holders(command', p))
    BY <1>2, <1>3 DEF Reservations
  <1> QED BY <1>4, <1>5 DEF Reservations

LEMMA HoldersStay ==
  ASSUME Reservations, UNCHANGED reserved,
         \A d \in Disk : \/ /\ command'[d].at \in Holds /\ command[d].at \in Holds
                            /\ command'[d].point = command[d].point
                         \/ command'[d].at \notin Holds /\ command[d].at \notin Holds
  PROVE  Reservations'
  <1>1. \A p \in Path : Holders(command', p) = Holders(command, p)
    BY DEF Holders
  <1> QED BY <1>1 DEF Reservations

\* Nothing is mounted where a mount point can be made.
LEMMA MadeIsFree ==
  ASSUME MountedHaveDirs, NEW p \in Own, CanMake(p)
  PROVE  \A e \in Disk : At(e) # p
  BY DEF MountedHaveDirs, CanMake, Removable, MountedOn

-----------------------------------------------------------------------------
(* Mounting.                                                               *)

\* The points after a mount has begun: only one that is made is of concern.
LEMMA BeginPoints ==
  ASSUME Shape, Reservations, CommandsFit, Points, NEW d \in Disk, NEW r, Begins(d, r),
         command[d].at \in {"idle", "repair"}, UNCHANGED <<path, table>>
  PROVE  Points'
  <1>1. /\ command'[d] = r /\ \A e \in Disk : e # d => command'[e] = command[e]
        /\ r \in Commands /\ command \in [Disk -> Commands]
    BY DEF Shape, Begins
  <1>2. \A e \in Disk : At(e)' = At(e) /\ path'[e] = path[e]
    BY DEF At
  <1>3. ~Maker(d) /\ \A e \in Disk : e # d => (Maker(e)' <=> Maker(e))
    BY <1>1 DEF Maker, Holds
  <1>4. CASE ~Maker(d)' /\ UNCHANGED <<dirs, swept>>
    BY <1>1, <1>2, <1>3, <1>4 DEF Points, MountedHaveDirs, Standing, MakersApart, MountedApart
  <1>5. CASE Maker(d)' \/ ~UNCHANGED <<dirs, swept>>
    <2> DEFINE p == r.point
    <2>1. /\ r.at = "mount" /\ p \in Own /\ CanMake(p)
          /\ dirs' = [dirs EXCEPT ![p] = "daemon"]
          /\ swept' = IF reserved[p] = 0 THEN swept \ {p} ELSE swept
      BY <1>1, <1>5 DEF Begins, Maker, Holds
    <2> HIDE DEF p
    <2>2. \A e \in Disk : At(e) # p
      BY <2>1, MadeIsFree DEF Points
    <2>3. /\ dirs'[p] = "daemon" /\ \A q \in Own : q # p => dirs'[q] = dirs[q]
          /\ \A q \in Own : q # p => (q \in swept' <=> q \in swept)
      BY <2>1 DEF Shape
    <2>4. ASSUME NEW e \in Disk, Maker(e), command[e].point = p
          PROVE  p \in swept' /\ p \in swept
      <3>1. reserved[p] # 0
        <4>1. command[e].at \in Holds /\ command[e].point \in Path
          BY <2>4 DEF Maker, Path
        <4> QED BY <4>1, <2>4, HolderReserves
      <3>2. dirs[p] = "none"
        BY <2>1, <3>1 DEF CanMake
      <3> QED BY <2>1, <2>4, <3>1, <3>2 DEF Points, Standing
    <2>5. command'[d].point = p
      BY <1>1 DEF p
    <2>6. MountedHaveDirs'
      BY <1>2, <2>2, <2>3 DEF Points, MountedHaveDirs
    <2>7. ASSUME NEW e \in Disk, Maker(e)', dirs'[command'[e].point] = "none"
          PROVE  command'[e].point \in swept'
      <3>1. e # d
        BY <2>3, <2>5, <2>7
      <3>2. Maker(e) /\ command'[e].point = command[e].point /\ command[e].point \in Own
        BY <3>1, <1>1, <1>3, <2>7 DEF Maker
      <3>3. command[e].point # p
        BY <2>3, <2>7, <3>2
      <3> QED BY <2>3, <2>7, <3>2, <3>3 DEF Points, Standing
    <2>8. ASSUME NEW e \in Disk, NEW f \in Disk, e # f, Maker(e)',
                 \/ Maker(f)' /\ command'[f].point = command'[e].point
                 \/ table'[f].made /\ At(f)' = command'[e].point
          PROVE  command'[e].point \in swept'
      <3>1. CASE e = d
        <4>1. f # d /\ command'[f] = command[f] /\ (Maker(f)' <=> Maker(f)) /\ At(f)' # p
          BY <3>1, <2>8, <1>1, <1>2, <1>3, <2>2
        <4>2. Maker(f) /\ command[f].point = p
          BY <2>8, <3>1, <4>1, <2>5
        <4> QED BY <4>2, <2>4, <2>5, <3>1
      <3>2. CASE e # d
        <4>1. Maker(e) /\ command'[e] = command[e] /\ command[e].point \in Own
          BY <3>2, <1>1, <1>3, <2>8 DEF Maker
        <4>2. CASE command[e].point = p
          BY <4>1, <4>2, <2>4
        <4>3. CASE command[e].point # p
          <5>1. \/ Maker(f) /\ command[f].point = command[e].point
                \/ table[f].made /\ At(f) = command[e].point
            BY <4>1, <4>3, <2>5, <2>8, <1>1, <1>2, <1>3
          <5>2. command[e].point \in swept
            BY <5>1, <4>1, <2>8 DEF Points, MakersApart
          <5> QED BY <5>2, <4>1, <4>3, <2>3
        <4> QED BY <4>2, <4>3
      <3> QED BY <3>1, <3>2
    <2>9. MountedApart'
      BY <1>2, <2>2, <2>3 DEF Points, MountedApart
    <2> QED BY <2>6, <2>7, <2>8, <2>9 DEF Points, Standing, MakersApart
  <1> QED BY <1>4, <1>5

LEMMA BeginKeeps ==
  ASSUME MountInv, NEW d \in Disk, NEW r, Begins(d, r),
         command[d].at \in {"idle", "repair"}, d \in list, dirty' \subseteq dirty,
         UNCHANGED <<list, name, path, quotas, refresh, table, label, news, sweeps>>,
         input' \in 0 .. MaxInput,
         \/ lost' = lost
         \/ path[d] = At(d) /\ lost' = [lost EXCEPT ![d] = "no"]
  PROVE  MountInv'
  <1> USE DEF MountInv
  <1>1. /\ command'[d] = r /\ \A e \in Disk : e # d => command'[e] = command[e]
        /\ r \in Commands /\ command \in [Disk -> Commands]
    BY DEF Shape, Begins
  <1>2. \A e \in Disk : At(e)' = At(e) /\ path'[e] = path[e]
    BY DEF At
  <1>3. Shape'
    <2>1. command' \in [Disk -> Commands] /\ lost' \in [Disk -> {"no", "behind", "unseen"}]
      BY <1>1 DEF Shape, Begins
    <2>2. dirs' \in [Own -> {"none", "daemon", "client", "littered"}] /\ swept' \subseteq Own
      BY DEF Shape, Begins
    <2> QED BY <2>1, <2>2 DEF Shape
  <1>4. Reservations'
    <2>1. CASE r.at \in {"idle", "repair"}
      BY <2>1, <1>1, HoldersStay DEF Begins, Holds
    <2>2. CASE r.at \notin {"idle", "repair"}
      BY <2>2, <1>1, ReserveCounts, PathFacts DEF Begins, Holds
    <2> QED BY <2>1, <2>2
  <1>5. CommandsFit'
    <2>1. /\ r.at \in Holds => r.point \in Path /\ (r.made => r.point \in Own)
          /\ r.at = "repair" => Grudging(r)
      BY PathFacts DEF Begins, Holds
    <2> QED BY <1>1, <2>1 DEF CommandsFit
  <1>6. Points'
    BY BeginPoints
  <1>7. /\ ~Aims(d) /\ ~Aims(d)' /\ command[d].at # "unmounted" /\ command'[d].at # "unmounted"
        /\ \A e \in Disk : e # d => (Aims(e)' <=> Aims(e))
    BY <1>1 DEF Aims, Snaps, Begins
  <1>8. lost \in [Disk -> {"no", "behind", "unseen"}]
    BY DEF Shape
  <1>9. Known'
    BY <1>1, <1>2, <1>7, <1>8 DEF Known
  <1>10. Heard'
    BY <1>1, <1>2, <1>7, <1>8 DEF Heard, Covered, Shape
  <1>11. CleanWhenMounting'
    <2>1. r.at = "mount" => Cleared(d, r)
      BY DEF Begins
    <2> QED BY <1>1, <2>1 DEF CleanWhenMounting, Cleared
  <1> QED BY <1>3, <1>4, <1>5, <1>6, <1>9, <1>10, <1>11, SameTable

LEMMA MountKeeps ==
  ASSUME MountInv, NEW d \in Disk, NEW automatic \in BOOLEAN, NEW force \in BOOLEAN,
         NEW options \in Seq(Option), NEW point \in Path \cup {NoPath},
         Mount(d, automatic, force, options, point)
  PROVE  MountInv'
  <1> DEFINE a == Arguments(automatic, force, force, options, point)
  <1>1. path[d] \in Path \cup {NoPath}
    BY DEF MountInv, Shape
  <1>2. a \in Commands /\ a.force = force /\ a.insists = force
    BY IdleFields DEF Arguments, Commands
  <1>3. /\ DAMountWithArguments(d, a) /\ dirty' = dirty
        /\ AtRest(d) /\ Counts
        /\ UNCHANGED <<list, name, path, quotas, refresh, table, label, news, sweeps>>
        /\ IF path[d] = At(d) THEN Knows(d) ELSE UNCHANGED lost
    BY DEF Mount, descVars, stateVars, kernelVars
  <1> HIDE DEF a
  <1>4. \E r : Begins(d, r)
    BY <1>1, <1>2, <1>3, MountBegins
  <1>5. input' \in 0 .. MaxInput
    BY <1>3, MountAssumption DEF Counts, MountInv, Shape
  <1> QED BY <1>3, <1>4, <1>5, BeginKeeps DEF AtRest, Knows

LEMMA RepairDoneKeeps ==
  ASSUME MountInv, NEW d \in Disk, NEW ok \in BOOLEAN, RepairDone(d, ok)
  PROVE  MountInv'
  <1> DEFINE c == command[d]
  <1>1. /\ c.at = "repair" /\ c \in Commands /\ d \in list
        /\ path[d] \in Path \cup {NoPath}
        /\ dirty' = IF ok THEN dirty \ {d} ELSE dirty
        /\ IF ok \/ c.force THEN Starts(d, c) ELSE GivesUp(d, c)
        /\ UNCHANGED <<list, name, path, quotas, refresh, table, label, news, sweeps, lost, input>>
    BY DEF RepairDone, MountInv, Shape, CommandsFit, descVars, kernelVars
  <1>2. Grudging(c)
    BY <1>1 DEF MountInv, CommandsFit
  <1> HIDE DEF c
  <1>3. CASE ok \/ c.force
    <2>1. Cleared(d, c)
      BY <1>1, <1>2, <1>3 DEF Cleared, Grudging
    <2> QED BY <1>1, <1>3, <2>1, StartsBegins, BeginKeeps DEF MountInv, Shape, c
  <1>4. CASE ~(ok \/ c.force) /\ c.automatic
    <2> DEFINE a == Arguments(FALSE, TRUE, FALSE, <<"rdonly">>, NoPath)
    <2>1. <<"rdonly">> \in Seq(Option)
      BY DEF Option
    <2>2. a \in Commands /\ a.options = <<"rdonly">>
      BY <2>1, IdleFields DEF Arguments, Commands
    <2>3. DAMountWithArguments(d, a)
      BY <1>1, <1>4 DEF GivesUp
    <2> HIDE DEF a
    <2>4. \E r : Begins(d, r)
      BY <1>1, <1>4, <2>2, <2>3, MountBegins
    <2> QED BY <1>1, <2>4, BeginKeeps DEF MountInv, Shape, c
  <1>5. CASE ~(ok \/ c.force) /\ ~c.automatic
    BY <1>1, <1>5, IdleBegins, BeginKeeps DEF GivesUp, MountInv, Shape, c
  <1> QED BY <1>3, <1>4, <1>5

-----------------------------------------------------------------------------
(* What the other steps leave of the mount points.                         *)

LEMMA AtChanges ==
  ASSUME Shape, NEW d \in Disk, NEW x, command' = [command EXCEPT ![d].at = x],
         x \in {"mounted", "failed", "quotas", "unmount", "unmounted", "busy"}
  PROVE  /\ command' \in [Disk -> Commands]
         /\ command' = [command EXCEPT ![d] = command'[d]] /\ command'[d] \in Commands
         /\ command'[d].at = x /\ command'[d].point = command[d].point
         /\ command'[d].options = command[d].options /\ command'[d].made = command[d].made
         /\ command'[d].insists = command[d].insists
         /\ \A e \in Disk : e # d => command'[e] = command[e]
  <1> DEFINE r == [command[d] EXCEPT !.at = x]
  <1>1. command \in [Disk -> Commands] /\ command[d] \in Commands
    BY DEF Shape
  <1>2. /\ r \in Commands /\ r.at = x /\ r.point = command[d].point
        /\ r.options = command[d].options /\ r.made = command[d].made
        /\ r.insists = command[d].insists
    BY <1>1 DEF Commands
  <1>3. command' = [command EXCEPT ![d] = r]
    BY <1>1
  <1> HIDE DEF r
  <1> QED BY <1>1, <1>2, <1>3

\* No mount takes a mount point, volumes only go, or come where none was made for
\* them, and a directory that goes had nothing mounted on it and is noted if reserved.
PointsLeft ==
  /\ swept \subseteq swept'
  /\ \A e \in Disk : Maker(e)' => Maker(e) /\ command'[e].point = command[e].point
  /\ \A e \in Disk :
       \/ At(e)' = At(e) /\ (table'[e].made => table[e].made)
       \/ At(e)' = NoPath
       \/ ~table'[e].made /\ (At(e)' \in Own => dirs'[At(e)'] # "none")
  /\ \A q \in Own : dirs[q] # "none" /\ dirs'[q] = "none" =>
       /\ \A e \in Disk : At(e)' # q
       /\ \A e \in Disk : Maker(e)' /\ command'[e].point = q => q \in swept'

LEMMA PointsKept ==
  ASSUME Points, PointsLeft
  PROVE  Points'
  <1> USE PathFacts DEF PointsLeft
  <1>1. MountedHaveDirs'
    BY DEF Points, MountedHaveDirs
  <1>2. ASSUME NEW e \in Disk, Maker(e)', dirs'[command'[e].point] = "none"
        PROVE  command'[e].point \in swept'
    <2>1. command'[e].point \in Own /\ command'[e].point = command[e].point /\ Maker(e)
      BY <1>2 DEF Maker
    <2> QED BY <1>2, <2>1 DEF Points, Standing
  <1>3. ASSUME NEW e \in Disk, NEW f \in Disk, e # f, Maker(e)',
               \/ Maker(f)' /\ command'[f].point = command'[e].point
               \/ table'[f].made /\ At(f)' = command'[e].point
        PROVE  command'[e].point \in swept'
    <2>1. Maker(e) /\ command'[e].point = command[e].point /\ command[e].point \in Own
      BY <1>3 DEF Maker
    <2>2. CASE Maker(f)' /\ command'[f].point = command'[e].point
      BY <1>3, <2>1, <2>2 DEF Points, MakersApart
    <2>3. CASE table'[f].made /\ At(f)' = command'[e].point
      <3>1. At(f)' = At(f) /\ table[f].made
        BY <1>3, <2>1, <2>3
      <3> QED BY <1>3, <2>1, <2>3, <3>1 DEF Points, MakersApart
    <2> QED BY <1>3, <2>2, <2>3
  <1>4. ASSUME NEW e \in Disk, NEW f \in Disk, e # f, At(e)' = At(f)', At(e)' \in Own,
               table'[e].made, table'[f].made
        PROVE  At(e)' \in swept'
    <2>1. At(e)' = At(e) /\ At(f)' = At(f) /\ table[e].made /\ table[f].made
      BY <1>4
    <2> QED BY <1>4, <2>1 DEF Points, MountedApart
  <1> QED BY <1>1, <1>2, <1>3, <1>4 DEF Points, Standing, MakersApart, MountedApart

\* DAMountRemoveMountPoint.
LEMMA RemovedPoints ==
  ASSUME Shape, Reservations, Points, CommandsFit, NEW p, dirs' = Removed(p), UNCHANGED table,
         \A e \in Disk : Maker(e)' => Maker(e) /\ command'[e].point = command[e].point,
         swept \subseteq swept',
         p \in Own /\ Removable(p) /\ (\E e \in Disk : Maker(e)' /\ command'[e].point = p)
           => p \in swept'
  PROVE  Points'
  <1>1. \A e \in Disk : At(e)' = At(e)
    BY DEF At
  <1>2. ASSUME NEW q \in Own, dirs[q] # "none", dirs'[q] = "none"
        PROVE  q = p /\ Removable(p)
    BY <1>2 DEF Removed, Removable, Shape
  <1>3. PointsLeft
    BY <1>1, <1>2 DEF PointsLeft, Removable, MountedOn
  <1> QED BY <1>3, PointsKept

\* What one disk must satisfy for Heard.
Settled(d) ==
  /\ Aims(d) => At(d) = command[d].point \/ lost[d] = "unseen"
  /\ command[d].at = "unmounted" => At(d) = NoPath \/ lost[d] = "unseen"
  /\ ~Aims(d) /\ command[d].at # "unmounted" /\ path[d] # At(d) => Covered(d)

\* A volume that others mount, or a snapshot, on a mount point that was not made
\* for it.
LEMMA ArrivalKeeps ==
  ASSUME MountInv, NEW n \in Disk, NEW p \in Path, At(n) = NoPath, p \in Own => dirs[p] # "none",
         NEW entry \in Entries, entry.at = p, ~entry.made, entry.forced \/ "rdonly" \in entry.flags,
         table' = [table EXCEPT ![n] = entry], news' = news \cup {"mounted"},
         lost' = [lost EXCEPT ![n] = Meanwhile(n, @)],
         UNCHANGED <<list, path, refresh, dirty, dirs, swept>>,
         \A e \in Disk : /\ Aims(e)' <=> Aims(e)
                         /\ (command'[e].at = "unmounted") <=> (command[e].at = "unmounted")
                         /\ command'[e].point = command[e].point
                         /\ Maker(e)' => Maker(e)
  PROVE  /\ Points' /\ Known' /\ Heard' /\ CleanWhenWritten'
         /\ table' \in [Disk -> Entries] /\ lost' \in [Disk -> {"no", "behind", "unseen"}]
  <1> USE DEF MountInv
  <1>1. /\ table' \in [Disk -> Entries] /\ At(n)' = p /\ table'[n] = entry
        /\ \A e \in Disk : e # n => At(e)' = At(e) /\ table'[e] = table[e]
    BY DEF At, Shape
  <1>2. /\ lost' \in [Disk -> {"no", "behind", "unseen"}]
        /\ lost'[n] = IF command[n].at = "idle" THEN lost[n] ELSE "unseen"
        /\ \A e \in Disk : e # n => lost'[e] = lost[e]
    BY DEF Shape, Meanwhile
  <1>3. PointsLeft
    BY <1>1 DEF PointsLeft
  <1>4. Known'
    <2>1. ASSUME NEW e \in Disk, lost'[e] = "no", e = n
          PROVE  /\ Aims(e)' => At(e)' = command'[e].point
                 /\ ~Aims(e)' /\ command'[e].at # "unmounted" /\ path'[e] # NoPath => At(e)' = path'[e]
      <3>1. command[n].at = "idle" /\ lost[n] = "no" /\ ~Aims(n)
        BY <1>2, <2>1 DEF Aims
      <3>2. path[n] = NoPath
        BY <3>1 DEF Known
      <3>3. ~Aims(e)' /\ path'[e] = NoPath
        BY <2>1, <3>1, <3>2
      <3> QED BY <3>3
    <2>2. ASSUME NEW e \in Disk, lost'[e] = "no", e # n
          PROVE  /\ Aims(e)' => At(e)' = command'[e].point
                 /\ ~Aims(e)' /\ command'[e].at # "unmounted" /\ path'[e] # NoPath => At(e)' = path'[e]
      BY <1>1, <1>2, <2>2 DEF Known
    <2> QED BY <2>1, <2>2 DEF Known
  <1>5. Heard'
    <2>1. ASSUME NEW e \in list, e # n PROVE Settled(e)'
      <3>1. e \in Disk /\ Settled(e)
        BY DEF Shape, Heard, Settled
      <3>2. Covered(e) => Covered(e)'
        BY <1>2, <2>1, <3>1 DEF Covered
      <3> QED BY <1>1, <1>2, <2>1, <3>1, <3>2 DEF Settled
    <2>2. ASSUME n \in list PROVE Settled(n)'
      <3>1. CASE lost'[n] = "unseen"
        BY <3>1 DEF Settled, Covered
      <3>2. CASE lost'[n] # "unseen"
        <4>1. command[n].at = "idle" /\ ~Aims(n) /\ lost'[n] = lost[n]
          BY <1>2, <3>2 DEF Aims
        <4>2. path[n] # NoPath => Covered(n)
          BY <2>2, <4>1 DEF Heard
        <4>3. Covered(n)'
          BY <4>1, <4>2 DEF Covered
        <4> QED BY <4>1, <4>3 DEF Settled
      <3> QED BY <3>1, <3>2
    <2> QED BY <2>1, <2>2 DEF Heard, Settled
  <1>6. CleanWhenWritten'
    BY <1>1 DEF CleanWhenWritten
  <1> QED BY <1>1, <1>2, <1>3, <1>4, <1>5, <1>6, PointsKept

\* The points when mount(8) has mounted what had its mount point made, or reserved.
LEMMA MountedPoints ==
  ASSUME MountInv, NEW d \in Disk, command[d].at = "mount", command[d].point \in Path,
         At(d) = NoPath, command[d].point \in Own => dirs[command[d].point] # "none",
         At(d)' = command[d].point, table'[d].made => command[d].made,
         \A e \in Disk : e # d => At(e)' = At(e) /\ table'[e] = table[e],
         \A e \in Disk : (Maker(e)' <=> Maker(e)) /\ command'[e].point = command[e].point,
         UNCHANGED <<dirs, swept>>
  PROVE  Points'
  <1> USE DEF MountInv
  <1> DEFINE p == command[d].point
  <1>1. table'[d].made /\ p \in Own => Maker(d)
    BY DEF Maker, Holds
  <1>2. MountedHaveDirs'
    BY PathFacts DEF Points, MountedHaveDirs
  <1>3. Standing'
    BY DEF Points, Standing
  <1>4. ASSUME NEW e \in Disk, NEW f \in Disk, e # f, Maker(e)',
               \/ Maker(f)' /\ command'[f].point = command'[e].point
               \/ table'[f].made /\ At(f)' = command'[e].point
        PROVE  command'[e].point \in swept'
    <2>1. Maker(e) /\ command'[e].point = command[e].point /\ command[e].point \in Own
      BY <1>4 DEF Maker
    <2>2. \/ Maker(f) /\ command[f].point = command[e].point
          \/ table[f].made /\ At(f) = command[e].point
      BY <1>1, <1>4, <2>1
    <2> QED BY <1>4, <2>1, <2>2 DEF Points, MakersApart
  <1>5. ASSUME NEW e \in Disk, NEW f \in Disk, e # f, At(e)' = At(f)', At(e)' \in Own,
               table'[e].made, table'[f].made
        PROVE  At(e)' \in swept'
    <2>1. CASE e # d /\ f # d
      BY <2>1, <1>5 DEF Points, MountedApart
    <2>2. CASE e = d
      BY <2>2, <1>1, <1>5 DEF Points, MakersApart
    <2>3. CASE f = d
      BY <2>3, <1>1, <1>5 DEF Points, MakersApart
    <2> QED BY <2>1, <2>2, <2>3
  <1> QED BY <1>2, <1>3, <1>4, <1>5 DEF Points, MakersApart, MountedApart

LEMMA MountRunsKeeps ==
  ASSUME MountInv, NEW d \in Disk, MountRuns(d)
  PROVE  MountInv'
  <1> USE DEF MountInv
  <1> DEFINE c == command[d]
             update == DAMountContainsArgument(c.options, "update")
             entry == [at |-> c.point, flags |-> Flags(c.options), forced |-> c.insists,
                       made |-> IF update THEN table[d].made ELSE c.made]
             copy  == [at |-> c.point, flags |-> Flags(c.options) \cup {"rdonly"}, forced |-> FALSE,
                       made |-> FALSE]
  <1>1. /\ c.at = "mount" /\ d \in list /\ c \in Commands /\ table[d] \in Entries
        /\ UNCHANGED <<list, name, path, dirty, quotas, reserved, refresh, label, dirs, sweeps,
                       swept, input>>
    BY DEF MountRuns, descVars, stateVars, diskVars, CommandsFit, Shape
  <1>2. c.point \in Path
    BY <1>1 DEF CommandsFit, Holds
  <1>3. /\ entry \in Entries /\ entry.at = c.point /\ entry.flags = Flags(c.options)
        /\ entry.forced = c.insists /\ (entry.made => IF update THEN table[d].made ELSE c.made)
        /\ copy \in Entries /\ copy.at = c.point /\ ~copy.made /\ "rdonly" \in copy.flags
    BY <1>1, <1>2 DEF Entries, Flags, Commands, Option
  <1>4. \/ /\ command' = [command EXCEPT ![d].at = "failed"]
           /\ UNCHANGED <<table, news, lost>>
        \/ /\ Snaps(d) /\ news' = news \cup {"mounted"}
           /\ command' = [command EXCEPT ![d].at = "mounted"]
           /\ UNCHANGED <<table, lost>>
        \/ /\ Snaps(d) /\ news' = news \cup {"mounted"}
           /\ command' = [command EXCEPT ![d].at = "mounted"]
           /\ c.point \in Own => dirs[c.point] # "none"
           /\ \E n \in Network : /\ At(n) = NoPath /\ table' = [table EXCEPT ![n] = copy]
                                 /\ lost' = [lost EXCEPT ![n] = Meanwhile(n, @)]
        \/ /\ ~Snaps(d) /\ news' = news \cup {"mounted"}
           /\ command' = [command EXCEPT ![d].at = "mounted"]
           /\ c.point \in Own => dirs[c.point] # "none"
           /\ At(d) = (IF update THEN c.point ELSE NoPath)
           /\ table' = [table EXCEPT ![d] = entry]
           /\ lost' = lost
    BY DEF MountRuns, Snaps
  <1>5. /\ command' \in [Disk -> Commands]
        /\ command'[d].at \in {"mounted", "failed"}
        /\ command'[d].point = c.point /\ command'[d].options = c.options /\ command'[d].made = c.made
        /\ \A e \in Disk : e # d => command'[e] = command[e]
    BY <1>4, AtChanges
  <1>6. /\ \A e \in Disk : /\ Maker(e)' <=> Maker(e)
                           /\ command'[e].point = command[e].point
                           /\ Snaps(e)' <=> Snaps(e)
                           /\ (command'[e].at = "unmounted") <=> (command[e].at = "unmounted")
                           /\ e # d => (Aims(e)' <=> Aims(e))
        /\ ~Aims(d) /\ (Aims(d)' <=> command'[d].at = "mounted" /\ ~Snaps(d))
    BY <1>1, <1>5 DEF Maker, Holds, Snaps, Aims
  <1> HIDE DEF c, entry, copy, update
  <1>7. Reservations'
    BY <1>1, <1>5, HoldersStay DEF Holds, c
  <1>8. CommandsFit'
    BY <1>1, <1>2, <1>5 DEF CommandsFit, Holds, c
  <1>9. CleanWhenMounting'
    BY <1>1, <1>5 DEF CleanWhenMounting
  <1>10. news' \subseteq {"mounted", "changed"} /\ news \subseteq news'
    BY <1>4 DEF Shape
  <1>11. CASE ~Aims(d)' /\ UNCHANGED <<table, lost>>
    <2>1. \A e \in Disk : At(e)' = At(e) /\ (Aims(e)' <=> Aims(e))
      BY <1>6, <1>11 DEF At
    <2>2. Shape'
      BY <1>1, <1>5, <1>10, <1>11 DEF Shape
    <2>3. PointsLeft
      BY <1>1, <1>6, <1>11, <2>1 DEF PointsLeft
    <2>4. Known'
      BY <1>1, <1>6, <1>11, <2>1 DEF Known
    <2>5. Heard'
      <3>1. ASSUME NEW e \in Disk, Covered(e) PROVE Covered(e)'
        BY <1>1, <1>10, <1>11, <3>1 DEF Covered
      <3> QED BY <1>1, <1>6, <1>11, <2>1, <3>1 DEF Heard, Shape
    <2> QED BY <1>1, <1>7, <1>8, <1>9, <1>11, <2>2, <2>3, <2>4, <2>5, PointsKept, SameTable
  <1>12. ASSUME NEW n \in Network, Snaps(d), news' = news \cup {"mounted"}, At(n) = NoPath,
                c.point \in Own => dirs[c.point] # "none",
                table' = [table EXCEPT ![n] = copy], lost' = [lost EXCEPT ![n] = Meanwhile(n, @)]
         PROVE  MountInv'
    <2>1. n \in Disk
      BY MountAssumption
    <2>2. \A e \in Disk : /\ Aims(e)' <=> Aims(e)
                          /\ (command'[e].at = "unmounted") <=> (command[e].at = "unmounted")
                          /\ command'[e].point = command[e].point
                          /\ Maker(e)' => Maker(e)
      BY <1>6, <1>12
    <2>3. /\ Points' /\ Known' /\ Heard' /\ CleanWhenWritten'
          /\ table' \in [Disk -> Entries] /\ lost' \in [Disk -> {"no", "behind", "unseen"}]
      BY <1>1, <1>2, <1>3, <1>12, <2>1, <2>2, ArrivalKeeps
    <2>4. Shape'
      BY <1>1, <1>5, <1>10, <2>3 DEF Shape
    <2> QED BY <1>7, <1>8, <1>9, <2>3, <2>4
  <1>13. CASE /\ ~Snaps(d) /\ command'[d].at = "mounted" /\ UNCHANGED lost
              /\ c.point \in Own => dirs[c.point] # "none"
              /\ At(d) = (IF update THEN c.point ELSE NoPath)
              /\ table' = [table EXCEPT ![d] = entry]
    <2>1. /\ table' \in [Disk -> Entries] /\ At(d)' = c.point /\ table'[d] = entry
          /\ \A e \in Disk : e # d => At(e)' = At(e) /\ table'[e] = table[e]
      BY <1>3, <1>13 DEF At, Shape
    <2>2. Shape'
      BY <1>1, <1>5, <1>10, <1>13, <2>1 DEF Shape
    <2>3. Points'
      <3>1. CASE update
        <4>1. PointsLeft
          BY <1>1, <1>3, <1>6, <1>13, <2>1, <3>1 DEF PointsLeft
        <4> QED BY <4>1, PointsKept
      <3>2. CASE ~update
        BY <1>1, <1>2, <1>3, <1>6, <1>13, <2>1, <3>2, MountedPoints DEF c
      <3> QED BY <3>1, <3>2
    <2>4. Known'
      BY <1>1, <1>5, <1>6, <1>13, <2>1 DEF Known, c
    <2>5. Heard'
      <3>1. ASSUME NEW e \in Disk, Covered(e) PROVE Covered(e)'
        BY <1>1, <1>10, <1>13, <3>1 DEF Covered
      <3> QED BY <1>1, <1>5, <1>6, <1>13, <2>1, <3>1 DEF Heard, Shape, c
    <2>6. CleanWhenWritten'
      <3>1. ASSUME NEW e \in Disk, e # d, At(e)' # NoPath, ~table'[e].forced, "rdonly" \notin table'[e].flags
            PROVE  e \notin dirty'
        BY <1>1, <2>1, <3>1 DEF CleanWhenWritten
      <3>2. ASSUME ~table'[d].forced, "rdonly" \notin table'[d].flags
            PROVE  d \notin dirty'
        BY <1>1, <1>3, <2>1, <3>2 DEF CleanWhenMounting, c
      <3> QED BY <3>1, <3>2 DEF CleanWhenWritten
    <2> QED BY <1>7, <1>8, <1>9, <2>2, <2>3, <2>4, <2>5, <2>6
  <1>14. command' = [command EXCEPT ![d].at = "mounted"] => command'[d].at = "mounted"
    BY DEF Shape
  <1>15. command' = [command EXCEPT ![d].at = "failed"] => command'[d].at = "failed"
    BY DEF Shape
  <1> QED BY <1>4, <1>6, <1>11, <1>12, <1>13, <1>14, <1>15

\* The description takes the mount point that mount(8) used.
LEMMA MountedKeeps ==
  ASSUME MountInv, NEW d \in Disk, command[d].at \in {"mounted", "quotas"}, Mounted(d, command[d]),
         Reservations', quotas' \subseteq Disk,
         UNCHANGED <<list, name, dirty, refresh, table, label, news, dirs, sweeps, lost, swept, input>>
  PROVE  MountInv'
  <1> USE DEF MountInv
  <1>1. /\ command \in [Disk -> Commands] /\ Idle \in Commands /\ Idle.at = "idle"
        /\ command'[d] = Idle /\ \A e \in Disk : e # d => command'[e] = command[e]
    BY IdleFields DEF Mounted, Ends, Shape
  <1>2. /\ path' = IF Snaps(d) THEN path ELSE [path EXCEPT ![d] = command[d].point]
        /\ command[d].point \in Path \cup {NoPath} /\ path \in [Disk -> Path \cup {NoPath}]
    BY <1>1 DEF Mounted, Snaps, Shape, Commands
  <1>3. /\ \A e \in Disk : e # d => path'[e] = path[e]
        /\ path'[d] = IF Snaps(d) THEN path[d] ELSE command[d].point
    BY <1>2
  <1>4. \A e \in Disk : At(e)' = At(e)
    BY DEF At
  <1>5. Shape'
    <2>1. command' \in [Disk -> Commands] /\ path' \in [Disk -> Path \cup {NoPath}]
      BY <1>1, <1>2 DEF Mounted, Ends
    <2> QED BY <2>1 DEF Shape
  <1>6. \A e \in Disk \ {d} : (Aims(e)' <=> Aims(e)) /\ (Maker(e)' <=> Maker(e))
    BY <1>1 DEF Aims, Snaps, Maker
  <1>7. ~Aims(d)' /\ ~Maker(d)' /\ (Aims(d) <=> ~Snaps(d))
    BY <1>1 DEF Aims, Maker, Holds
  <1>8. CommandsFit'
    <2>1. /\ command'[d].at = "idle" /\ "idle" \notin Holds \cup {"repair"}
      BY <1>1 DEF Holds
    <2> QED BY <1>1, <2>1 DEF CommandsFit
  <1>9. PointsLeft
    BY <1>1, <1>4, <1>6, <1>7 DEF PointsLeft
  <1>10. Known'
    BY <1>1, <1>3, <1>4, <1>6, <1>7 DEF Known
  <1>11. Heard'
    <2>1. \A e \in Disk \ {d} : Covered(e)' <=> Covered(e)
      BY <1>3 DEF Covered
    <2>2. lost[d] = "unseen" => Covered(d)'
      BY DEF Covered
    <2>3. Snaps(d) => (Covered(d)' <=> Covered(d))
      BY <1>3 DEF Covered
    <2> QED BY <1>1, <1>3, <1>4, <1>6, <1>7, <2>1, <2>2, <2>3 DEF Heard, Shape
  <1>12. CleanWhenMounting'
    BY <1>1 DEF CleanWhenMounting
  <1> QED BY <1>5, <1>8, <1>9, <1>10, <1>11, <1>12, PointsKept, SameTable

LEMMA QuotasDoneKeeps ==
  ASSUME MountInv, NEW d \in Disk, NEW ok \in BOOLEAN, QuotasDone(d, ok)
  PROVE  MountInv'
  <1>1. /\ command[d].at = "quotas" /\ Mounted(d, command[d])
        /\ quotas' = IF ok THEN quotas \ {d} ELSE quotas
        /\ UNCHANGED <<list, name, dirty, reserved, refresh, table, label, news, dirs, sweeps,
                       lost, swept, input>>
    BY DEF QuotasDone, kernelVars, diskVars, history
  <1>2. quotas' \subseteq Disk
    BY <1>1 DEF MountInv, Shape
  <1>3. Reservations'
    BY <1>1, IdleFields, HoldersStay DEF Mounted, Ends, MountInv, Shape, Holds
  <1> QED BY <1>1, <1>2, <1>3, MountedKeeps

LEMMA MountDoneKeeps ==
  ASSUME MountInv, NEW d \in Disk, MountDone(d)
  PROVE  MountInv'
  <1> USE DEF MountInv
  <1> DEFINE p == command[d].point
  <1>1. /\ command[d].at \in {"mounted", "failed"} /\ Release(p)
        /\ UNCHANGED <<list, name, dirty, quotas, refresh, table, label, news, sweeps, lost, input>>
    BY DEF MountDone, stateVars, kernelVars
  <1>2. command \in [Disk -> Commands] /\ command[d].at \in Holds /\ p \in Path
    BY <1>1 DEF Shape, CommandsFit, Holds
  <1>3. /\ Idle \in Commands /\ Idle.at = "idle" /\ Idle.at \notin Holds
    BY IdleFields DEF Holds
  <1>4. CASE command[d].at = "mounted" /\ d \in quotas
    <2>1. command' = [command EXCEPT ![d].at = "quotas"] /\ UNCHANGED <<path, dirs, swept>>
      BY <1>4 DEF MountDone
    <2>2. /\ command' \in [Disk -> Commands]
          /\ command' = [command EXCEPT ![d] = command'[d]] /\ command'[d] \in Commands
          /\ command'[d].at = "quotas" /\ command'[d].point = p
          /\ command'[d].options = command[d].options
          /\ \A e \in Disk : e # d => command'[e] = command[e]
      BY <2>1, AtChanges
    <2>3. Reservations'
      <3>1. command'[d].at \notin Holds
        BY <2>2 DEF Holds
      <3> HIDE DEF Holds
      <3> QED BY <1>1, <1>2, <2>2, <3>1, ReleaseCounts
    <2>4. /\ \A e \in Disk : At(e)' = At(e) /\ (Aims(e)' <=> Aims(e)) /\ (Covered(e)' <=> Covered(e))
          /\ \A e \in Disk : command'[e].point = command[e].point
          /\ \A e \in Disk : Maker(e)' => Maker(e)
      BY <1>1, <1>4, <2>1, <2>2 DEF At, Aims, Snaps, Covered, Maker, Holds
    <2>5. Shape'
      BY <1>1, <2>1, <2>2 DEF Shape
    <2>6. CommandsFit'
      BY <1>1, <1>4, <2>1, <2>2, <2>4 DEF CommandsFit, Holds
    <2>7. PointsLeft
      BY <1>1, <2>1, <2>4 DEF PointsLeft
    <2>8. Known' /\ Heard'
      <3>1. \A e \in Disk : (command'[e].at = "unmounted") <=> (command[e].at = "unmounted")
        BY <1>4, <2>2
      <3>2. Known'
        BY <1>1, <2>1, <2>4, <3>1 DEF Known
      <3>3. Heard'
        BY <1>1, <2>1, <2>4, <3>1 DEF Heard, Shape
      <3> QED BY <3>2, <3>3
    <2>9. CleanWhenMounting'
      BY <1>1, <2>2 DEF CleanWhenMounting
    <2> QED BY <1>1, <2>3, <2>5, <2>6, <2>7, <2>8, <2>9, PointsKept, SameTable
  <1>5. CASE command[d].at = "mounted" /\ d \notin quotas
    <2>1. Mounted(d, command[d]) /\ UNCHANGED <<dirs, swept>>
      BY <1>5 DEF MountDone
    <2>2. Reservations'
      BY <1>1, <1>2, <1>3, <2>1, ReleaseCounts DEF Mounted, Ends
    <2>3. quotas' \subseteq Disk
      BY <1>1 DEF Shape
    <2> QED BY <1>1, <1>5, <2>1, <2>2, <2>3, MountedKeeps
  <1>6. CASE command[d].at = "failed"
    <2>1. /\ dirs' = Removed(p) /\ Ends(d) /\ path' = path
          /\ swept' = IF reserved'[p] > 0 /\ Removable(p) THEN swept \cup {p} ELSE swept
      BY <1>6 DEF MountDone
    <2>2. /\ command' \in [Disk -> Commands]
          /\ command'[d] = Idle /\ \A e \in Disk : e # d => command'[e] = command[e]
      BY <1>2, <1>3, <2>1 DEF Ends
    <2>3. Reservations'
      BY <1>1, <1>2, <1>3, <2>1, ReleaseCounts DEF Ends
    <2>4. /\ \A e \in Disk : At(e)' = At(e) /\ (Aims(e)' <=> Aims(e)) /\ (Covered(e)' <=> Covered(e))
          /\ \A e \in Disk : Maker(e)' => Maker(e) /\ command'[e].point = command[e].point
      BY <1>1, <1>3, <1>6, <2>1, <2>2 DEF At, Aims, Snaps, Covered, Maker
    <2>5. Shape'
      BY <1>1, <2>1, <2>2 DEF Shape, Removed, Removable
    <2>6. CommandsFit'
      BY <1>1, <1>3, <2>1, <2>2 DEF CommandsFit, Holds
    <2>7. ASSUME NEW e \in Disk, Maker(e)', command'[e].point = p, Removable(p)
          PROVE  p \in swept'
      <3>1. HoldersReserve'
        BY <2>3, HoldersAreReserved, PTL
      <3>2. reserved'[p] > 0
        BY <2>7, <3>1 DEF HoldersReserve, Maker, Path
      <3> QED BY <2>1, <2>7, <3>2
    <2>8. swept \subseteq swept'
      BY <2>1
    <2>9. Points'
      <3> HIDE DEF p
      <3> QED BY <1>1, <2>1, <2>4, <2>7, <2>8, RemovedPoints
    <2>10. Known' /\ Heard'
      <3>1. \A e \in Disk : (command'[e].at = "unmounted") <=> (command[e].at = "unmounted")
        BY <1>3, <1>6, <2>2
      <3>2. \A e \in Disk : Aims(e) => command'[e].point = command[e].point
        BY <1>6, <2>2 DEF Aims
      <3>3. Known'
        BY <1>1, <2>1, <2>4, <3>1, <3>2 DEF Known
      <3>4. Heard'
        BY <1>1, <2>1, <2>4, <3>1, <3>2 DEF Heard, Shape
      <3> QED BY <3>3, <3>4
    <2>11. CleanWhenMounting'
      BY <1>1, <1>3, <2>2 DEF CleanWhenMounting
    <2> QED BY <1>1, <2>3, <2>5, <2>6, <2>9, <2>10, <2>11, SameTable
  <1> QED BY <1>1, <1>4, <1>5, <1>6

-----------------------------------------------------------------------------
(* Unmounting.                                                             *)

LEMMA UnmountKeeps ==
  ASSUME MountInv, NEW d \in Disk, Unmount(d)
  PROVE  MountInv'
  <1> USE DEF MountInv
  <1>1. /\ command' = [command EXCEPT ![d].at = "unmount"] /\ AtRest(d) /\ Counts
        /\ UNCHANGED <<list, name, path, dirty, quotas, reserved, refresh, table, label, news,
                       dirs, sweeps, lost, swept>>
    BY DEF Unmount, descVars, stateVars, kernelVars, diskVars
  <1>2. /\ command' \in [Disk -> Commands] /\ command'[d].at = "unmount"
        /\ \A e \in Disk : e # d => command'[e] = command[e]
        /\ command[d].at = "idle" /\ d \in list
    BY <1>1, AtChanges DEF AtRest
  <1>3. Shape'
    BY <1>1, <1>2, MountAssumption DEF Shape, Counts
  <1>4. Reservations'
    BY <1>1, <1>2, HoldersStay DEF Holds
  <1>5. /\ \A e \in Disk : At(e)' = At(e) /\ (Aims(e)' <=> Aims(e)) /\ (Covered(e)' <=> Covered(e))
        /\ \A e \in Disk : Maker(e)' => Maker(e) /\ command'[e].point = command[e].point
        /\ \A e \in Disk : Aims(e) => command'[e].point = command[e].point
        /\ \A e \in Disk : (command'[e].at = "unmounted") <=> (command[e].at = "unmounted")
    BY <1>1, <1>2 DEF At, Aims, Snaps, Covered, Maker, Holds
  <1>6. CommandsFit'
    BY <1>1, <1>2 DEF CommandsFit, Holds
  <1>7. PointsLeft
    BY <1>1, <1>5 DEF PointsLeft
  <1>8. Known'
    BY <1>1, <1>5 DEF Known
  <1>9. Heard'
    BY <1>1, <1>5 DEF Heard, Shape
  <1>10. CleanWhenMounting'
    BY <1>1, <1>2 DEF CleanWhenMounting
  <1> QED BY <1>1, <1>3, <1>4, <1>6, <1>7, <1>8, <1>9, <1>10, PointsKept, SameTable

LEMMA UnmountRunsKeeps ==
  ASSUME MountInv, NEW d \in Disk, UnmountRuns(d)
  PROVE  MountInv'
  <1> USE DEF MountInv
  <1>1. /\ command[d].at = "unmount"
        /\ UNCHANGED <<list, name, path, dirty, quotas, reserved, refresh, label,
                       dirs, sweeps, swept, input>>
    BY DEF UnmountRuns, descVars, stateVars, diskVars
  <1>2. CASE command' = [command EXCEPT ![d].at = "busy"] /\ UNCHANGED <<table, news, lost>>
    <2>1. /\ command' \in [Disk -> Commands] /\ command'[d].at = "busy"
          /\ \A e \in Disk : e # d => command'[e] = command[e]
      BY <1>2, AtChanges
    <2>2. Shape'
      BY <1>1, <1>2, <2>1 DEF Shape
    <2>3. Reservations'
      BY <1>1, <2>1, HoldersStay DEF Holds
    <2>4. /\ \A e \in Disk : At(e)' = At(e) /\ (Aims(e)' <=> Aims(e)) /\ (Covered(e)' <=> Covered(e))
          /\ \A e \in Disk : Maker(e)' => Maker(e) /\ command'[e].point = command[e].point
          /\ \A e \in Disk : Aims(e) => command'[e].point = command[e].point
          /\ \A e \in Disk : (command'[e].at = "unmounted") <=> (command[e].at = "unmounted")
      BY <1>1, <1>2, <2>1 DEF At, Aims, Snaps, Covered, Maker, Holds
    <2>5. CommandsFit'
      BY <1>1, <2>1 DEF CommandsFit, Holds
    <2>6. PointsLeft
      BY <1>1, <1>2, <2>4 DEF PointsLeft
    <2>7. Known'
      BY <1>1, <1>2, <2>4 DEF Known
    <2>8. Heard'
      BY <1>1, <1>2, <2>4 DEF Heard, Shape
    <2>9. CleanWhenMounting'
      BY <1>1, <2>1 DEF CleanWhenMounting
    <2> QED BY <1>1, <1>2, <2>2, <2>3, <2>5, <2>6, <2>7, <2>8, <2>9, PointsKept, SameTable
  <1>3. CASE \E e \in MountedOn(path[d]) :
               /\ table' = [table EXCEPT ![e] = NotMounted]
               /\ news' = news \cup {"changed"}
               /\ lost' = IF e = d THEN lost
                          ELSE [lost EXCEPT ![e] = Meanwhile(e, "behind"), ![d] = "unseen"]
               /\ command' = [command EXCEPT ![d].at = "unmounted"]
    <2>1. PICK e \in MountedOn(path[d]) :
               /\ table' = [table EXCEPT ![e] = NotMounted]
               /\ news' = news \cup {"changed"}
               /\ lost' = IF e = d THEN lost
                          ELSE [lost EXCEPT ![e] = Meanwhile(e, "behind"), ![d] = "unseen"]
               /\ command' = [command EXCEPT ![d].at = "unmounted"]
      BY <1>3
    <2>2. /\ command' \in [Disk -> Commands] /\ command'[d].at = "unmounted"
          /\ \A f \in Disk : f # d => command'[f] = command[f]
      BY <2>1, AtChanges
    <2>3. e \in Disk /\ NotMounted \in Entries /\ NotMounted.at = NoPath
      BY DEF MountedOn, NotMounted, Entries
    <2>4. /\ table' \in [Disk -> Entries] /\ At(e)' = NoPath
          /\ \A f \in Disk : f # e => table'[f] = table[f] /\ At(f)' = At(f)
      BY <2>1, <2>3 DEF At, Shape
    <2>5. /\ lost' \in [Disk -> {"no", "behind", "unseen"}]
          /\ e # d => lost'[d] = "unseen" /\ lost'[e] = Meanwhile(e, "behind")
          /\ \A f \in Disk : f # e /\ f # d => lost'[f] = lost[f]
          /\ e = d => lost' = lost
      BY <2>1, <2>3 DEF Shape, Meanwhile
    <2>6. Shape'
      BY <1>1, <2>1, <2>2, <2>4, <2>5 DEF Shape
    <2>7. Reservations'
      BY <1>1, <2>2, HoldersStay DEF Holds
    <2>8. /\ \A f \in Disk : Aims(f)' <=> Aims(f)
          /\ \A f \in Disk : Maker(f)' => Maker(f) /\ command'[f].point = command[f].point
          /\ ~Aims(d)
      BY <1>1, <2>2 DEF Aims, Snaps, Maker, Holds
    <2>9. CommandsFit'
      BY <1>1, <2>2 DEF CommandsFit, Holds
    <2>10. PointsLeft
      BY <1>1, <2>4, <2>8 DEF PointsLeft
    <2>11. Known'
      BY <1>1, <2>2, <2>4, <2>5, <2>8 DEF Known, Meanwhile
    <2>12. Heard'
      <3>1. "changed" \in news' /\ news \subseteq news'
        BY <2>1
      <3>2. ASSUME NEW f \in Disk, f # e, f # d, Covered(f) PROVE Covered(f)'
        BY <1>1, <2>5, <3>1, <3>2 DEF Covered
      <3>3. e # d => \/ lost'[e] = "unseen"
                     \/ command[e].at = "idle" /\ (path[e] # NoPath => Covered(e)')
        BY <1>1, <2>5, <3>1 DEF Covered, Meanwhile
      <3>4. e # d => Covered(d)' /\ lost'[d] = "unseen"
        BY <2>5 DEF Covered
      <3>5. lost'[e] = "unseen" => Covered(e)'
        BY DEF Covered
      <3>6. command[e].at = "idle" => ~Aims(e)
        BY DEF Aims
      <3>7. ASSUME NEW f \in list'
            PROVE  /\ Aims(f)' => At(f)' = command'[f].point \/ lost'[f] = "unseen"
                   /\ command'[f].at = "unmounted" => At(f)' = NoPath \/ lost'[f] = "unseen"
                   /\ ~Aims(f)' /\ command'[f].at # "unmounted" /\ path'[f] # At(f)' => Covered(f)'
        <4>1. f \in list /\ f \in Disk
          BY <1>1, <3>7 DEF Shape
        <4>2. CASE f # e /\ f # d
          <5>1. /\ Aims(f) => At(f) = command[f].point \/ lost[f] = "unseen"
                /\ command[f].at = "unmounted" => At(f) = NoPath \/ lost[f] = "unseen"
                /\ ~Aims(f) /\ command[f].at # "unmounted" /\ path[f] # At(f) => Covered(f)
            BY <4>1 DEF Heard
          <5>2. /\ command'[f] = command[f] /\ At(f)' = At(f) /\ lost'[f] = lost[f]
                /\ path'[f] = path[f] /\ (Aims(f)' <=> Aims(f)) /\ (Covered(f) => Covered(f)')
            BY <1>1, <2>2, <2>4, <2>5, <2>8, <3>2, <4>1, <4>2
          <5> QED BY <5>1, <5>2
        <4>3. CASE f = d
          BY <2>2, <2>4, <2>8, <3>4, <4>3
        <4>4. CASE f = e /\ f # d
          <5>1. At(e)' = NoPath /\ path'[e] = path[e] /\ command'[e] = command[e]
            BY <1>1, <2>2, <2>3, <2>4, <4>4
          <5>2. CASE lost'[e] = "unseen"
            BY <3>5, <4>4, <5>2
          <5>3. CASE command[e].at = "idle" /\ (path[e] # NoPath => Covered(e)')
            <6>1. ~Aims(e)' /\ command'[e].at = "idle"
              BY <2>3, <2>8, <3>6, <5>1, <5>3
            <6> QED BY <4>4, <5>1, <5>3, <6>1
          <5> QED BY <3>3, <4>4, <5>2, <5>3
        <4> QED BY <4>2, <4>3, <4>4
      <3> QED BY <3>7 DEF Heard
    <2>13. CleanWhenMounting'
      BY <1>1, <2>2 DEF CleanWhenMounting
    <2>14. CleanWhenWritten'
      BY <1>1, <2>4 DEF CleanWhenWritten
    <2> QED BY <2>6, <2>7, <2>9, <2>10, <2>11, <2>12, <2>13, <2>14, PointsKept
  <1> QED BY <1>2, <1>3 DEF UnmountRuns

LEMMA UnmountDoneKeeps ==
  ASSUME MountInv, NEW d \in Disk, UnmountDone(d)
  PROVE  MountInv'
  <1> USE DEF MountInv
  <1>1. /\ command[d].at \in {"unmounted", "busy"} /\ Ends(d)
        /\ UNCHANGED <<name, dirty, quotas, reserved, table, label, news, sweeps, swept, input>>
    BY DEF UnmountDone, stateVars, kernelVars
  <1>2. /\ command' \in [Disk -> Commands] /\ command'[d] = Idle /\ Idle.at = "idle"
        /\ \A e \in Disk : e # d => command'[e] = command[e]
    BY <1>1, IdleFields DEF Ends, Shape
  <1>3. Reservations'
    BY <1>1, <1>2, HoldersStay DEF Holds
  <1>4. /\ \A e \in Disk : At(e)' = At(e) /\ (Aims(e)' <=> Aims(e))
        /\ \A e \in Disk : Aims(e) => command'[e].point = command[e].point
        /\ ~Aims(d) /\ ~Maker(d)'
    BY <1>1, <1>2 DEF At, Aims, Snaps, Maker, Holds
  <1>5. CleanWhenMounting'
    BY <1>1, <1>2 DEF CleanWhenMounting
  <1>6. CASE command[d].at = "busy" /\ At(d) # NoPath /\ UNCHANGED <<dirs, path, list, refresh, lost>>
    <2>1. Shape'
      BY <1>1, <1>2, <1>6 DEF Shape
    <2>2. CommandsFit'
      BY <1>2, <1>6 DEF CommandsFit, Holds
    <2>3. PointsLeft
      BY <1>1, <1>2, <1>4, <1>6 DEF PointsLeft, Maker
    <2>4. \A e \in Disk : (command'[e].at = "unmounted") <=> (command[e].at = "unmounted")
      BY <1>2, <1>6
    <2>5. Known'
      BY <1>4, <1>6, <2>4 DEF Known
    <2>6. Heard'
      BY <1>1, <1>4, <1>6, <2>4 DEF Heard, Shape, Covered
    <2> QED BY <1>1, <1>3, <1>5, <2>1, <2>2, <2>3, <2>5, <2>6, PointsKept, SameTable
  <1>7. CASE /\ command[d].at = "unmounted" \/ At(d) = NoPath
             /\ dirs' = IF reserved[path[d]] = 0 THEN Removed(path[d]) ELSE dirs
             /\ Forgets(d)
             /\ IF At(d) = NoPath THEN Knows(d) ELSE UNCHANGED lost
             /\ refresh' = refresh \cap list'
    <2>1. /\ path' = [path EXCEPT ![d] = NoPath] /\ list' \subseteq list
          /\ \A e \in Disk : e # d /\ e \in list => e \in list'
      BY <1>7 DEF Forgets
    <2>2. /\ path' \in [Disk -> Path \cup {NoPath}] /\ path'[d] = NoPath
          /\ \A e \in Disk : e # d => path'[e] = path[e]
      BY <2>1 DEF Shape
    <2>3. /\ lost' \in [Disk -> {"no", "behind", "unseen"}]
          /\ \A e \in Disk : e # d => lost'[e] = lost[e]
          /\ At(d) # NoPath => lost'[d] = lost[d]
      BY <1>7 DEF Shape, Knows
    <2>4. Shape'
      <3>1. dirs' \in [Own -> {"none", "daemon", "client", "littered"}]
        BY <1>7 DEF Shape, Removed
      <3>2. list' \subseteq Disk /\ refresh' \subseteq list'
        BY <1>7, <2>1 DEF Shape
      <3> QED BY <1>1, <1>2, <2>2, <2>3, <3>1, <3>2 DEF Shape
    <2>5. \A e \in Disk : Maker(e)' => Maker(e) /\ command'[e].point = command[e].point
      BY <1>2, <1>4, <2>2 DEF Maker
    <2>6. CommandsFit'
      <3>1. "idle" \notin Holds \cup {"repair"}
        BY DEF Holds
      <3> QED BY <1>2, <2>1, <2>2, <3>1 DEF CommandsFit
    <2>7. Points'
      <3>1. CASE dirs' = dirs
        <4>1. PointsLeft
          BY <1>1, <1>4, <2>5, <3>1 DEF PointsLeft
        <4> QED BY <4>1, PointsKept
      <3>2. CASE dirs' = Removed(path[d]) /\ reserved[path[d]] = 0
        <4> DEFINE p == path[d]
        <4>1. \A e \in Disk : ~(Maker(e)' /\ command'[e].point = p)
          BY <2>5, <3>2, HoldersAreReserved DEF HoldersReserve, Maker, Path
        <4>2. dirs' = Removed(p) /\ swept' = swept /\ UNCHANGED table
          BY <1>1, <3>2
        <4> HIDE DEF p
        <4> QED BY <2>5, <4>1, <4>2, RemovedPoints
      <3> QED BY <1>7, <3>1, <3>2
    <2>8. Known'
      BY <1>2, <1>4, <2>2, <2>3 DEF Known
    <2>9. Heard'
      <3>1. ASSUME NEW e \in Disk, e # d, e \in list, Covered(e) PROVE Covered(e)'
        BY <1>1, <1>7, <2>1, <2>2, <2>3, <3>1 DEF Covered
      <3>2. d \in list /\ At(d) # NoPath => lost'[d] = "unseen"
        BY <1>7, <2>3 DEF Heard
      <3>3. lost'[d] = "unseen" => Covered(d)'
        BY DEF Covered
      <3>4. ASSUME NEW e \in list', e # d
            PROVE  /\ Aims(e)' => At(e)' = command'[e].point \/ lost'[e] = "unseen"
                   /\ command'[e].at = "unmounted" => At(e)' = NoPath \/ lost'[e] = "unseen"
                   /\ ~Aims(e)' /\ command'[e].at # "unmounted" /\ path'[e] # At(e)' => Covered(e)'
        <4>1. e \in list /\ e \in Disk
          BY <2>1, <3>4 DEF Shape
        <4> QED BY <1>2, <1>4, <2>2, <2>3, <3>1, <3>4, <4>1 DEF Heard
      <3>5. d \in list' => path'[d] = At(d)' \/ Covered(d)'
        BY <1>4, <2>1, <2>2, <3>2, <3>3
      <3> QED BY <1>2, <1>4, <3>4, <3>5 DEF Heard
    <2> QED BY <1>1, <1>3, <1>5, <2>4, <2>6, <2>7, <2>8, <2>9, SameTable
  <1> QED BY <1>6, <1>7 DEF UnmountDone

-----------------------------------------------------------------------------
(* Renaming, and keeping up with the mount table.                          *)

\* Nothing is mounted on a free name, and who has it reserved has lost it.
LEMMA FollowsPoints ==
  ASSUME Shape, Reservations, Points, NEW p \in Own, NEW to \in Own, p # to,
         dirs[p] # "none", dirs[to] = "none",
         dirs' = [dirs EXCEPT ![to] = dirs[p], ![p] = "none"],
         \A e \in Disk : At(e)' = (IF At(e) = p THEN to ELSE At(e)) /\ table'[e].made = table[e].made,
         swept' = IF reserved[p] > 0 \/ p \in swept THEN swept \cup {p, to} ELSE swept,
         \A e \in Disk : Maker(e)' => Maker(e) /\ command'[e].point = command[e].point
  PROVE  Points'
  <1>1. \A e \in Disk : At(e) # to
    BY DEF Points, MountedHaveDirs
  <1>2. dirs'[to] # "none" /\ dirs'[p] = "none" /\ \A q \in Own : q # p /\ q # to => dirs'[q] = dirs[q]
    BY DEF Shape
  <1>3. \A e \in Disk : Maker(e) /\ command[e].point = to => to \in swept
    BY DEF Points, Standing
  <1>4. \A e \in Disk : Maker(e) /\ command[e].point = p => p \in swept'
    BY HoldersAreReserved DEF HoldersReserve, Maker, Path
  <1>5. swept \subseteq swept' /\ (p \in swept => to \in swept')
    OBVIOUS
  <1>6. MountedHaveDirs'
    BY <1>2, PathFacts DEF Points, MountedHaveDirs
  <1>7. ASSUME NEW e \in Disk, Maker(e)', dirs'[command'[e].point] = "none"
        PROVE  command'[e].point \in swept'
    <2>1. Maker(e) /\ command'[e].point = command[e].point /\ command[e].point \in Own
      BY <1>7 DEF Maker
    <2>2. CASE command[e].point = p
      BY <1>4, <2>1, <2>2
    <2>3. CASE command[e].point # p
      BY <1>2, <1>5, <1>7, <2>1, <2>3 DEF Points, Standing
    <2> QED BY <2>2, <2>3
  <1>8. ASSUME NEW e \in Disk, NEW f \in Disk, e # f, Maker(e)',
               \/ Maker(f)' /\ command'[f].point = command'[e].point
               \/ table'[f].made /\ At(f)' = command'[e].point
        PROVE  command'[e].point \in swept'
    <2>1. Maker(e) /\ command'[e].point = command[e].point /\ command[e].point \in Own
      BY <1>8 DEF Maker
    <2>2. CASE Maker(f)' /\ command'[f].point = command'[e].point
      BY <1>5, <1>8, <2>1, <2>2 DEF Points, MakersApart
    <2>3. CASE table'[f].made /\ At(f)' = command'[e].point /\ At(f) = p
      BY <1>3, <1>5, <2>1, <2>3
    <2>4. CASE table'[f].made /\ At(f)' = command'[e].point /\ At(f) # p
      BY <1>5, <1>8, <2>1, <2>4 DEF Points, MakersApart
    <2> QED BY <1>8, <2>2, <2>3, <2>4
  <1>9. ASSUME NEW e \in Disk, NEW f \in Disk, e # f, At(e)' = At(f)', At(e)' \in Own,
               table'[e].made, table'[f].made
        PROVE  At(e)' \in swept'
    <2>1. CASE At(e)' = to
      BY <1>1, <1>5, <1>9, <2>1 DEF Points, MountedApart
    <2>2. CASE At(e)' # to
      BY <1>5, <1>9, <2>2 DEF Points, MountedApart
    <2> QED BY <2>1, <2>2
  <1> QED BY <1>6, <1>7, <1>8, <1>9 DEF Points, Standing, MakersApart, MountedApart

LEMMA FollowsKeeps ==
  ASSUME MountInv, NEW d \in Disk, NEW n \in Name, NEW p \in Path, NameFollows(d, n, p),
         AtRest(d), path[d] # NoPath, p = At(d) \/ (p = path[d] /\ refresh' = refresh),
         UNCHANGED <<list, dirty, quotas, command, reserved, news, sweeps>>,
         label' \in [Disk -> Name], input' \in 0 .. MaxInput,
         refresh' \subseteq refresh, \A e \in refresh : e # d => e \in refresh'
  PROVE  MountInv'
  <1> USE DEF MountInv
  <1>1. /\ d \in list /\ command[d].at = "idle" /\ ~Aims(d) /\ ~Maker(d) /\ ~Maker(d)'
        /\ name' \in [Disk -> Name]
    BY DEF AtRest, Aims, Maker, Holds, NameFollows, Shape
  <1>2. path \in [Disk -> Path \cup {NoPath}] /\ lost \in [Disk -> {"no", "behind", "unseen"}]
        /\ table \in [Disk -> Entries]
    BY DEF Shape
  <1>3. /\ Reservations /\ UNCHANGED reserved => Reservations'
        /\ CleanWhenMounting'
    BY SameCommands
  <1>4. \A e \in Disk : Aims(e)' <=> Aims(e)
    BY DEF Aims, Snaps
  <1>5. CASE /\ path' = [path EXCEPT ![d] = p]
             /\ lost' = [lost EXCEPT ![d] = IF At(d) = p THEN "no" ELSE @]
             /\ UNCHANGED <<dirs, table, swept>>
    <2>1. /\ path' \in [Disk -> Path \cup {NoPath}] /\ path'[d] = p
          /\ \A e \in Disk : e # d => path'[e] = path[e]
          /\ lost' \in [Disk -> {"no", "behind", "unseen"}]
          /\ lost'[d] = IF At(d) = p THEN "no" ELSE lost[d]
          /\ \A e \in Disk : e # d => lost'[e] = lost[e]
          /\ \A e \in Disk : At(e)' = At(e)
      BY <1>2, <1>5 DEF At
    <2>2. Shape'
      BY <1>1, <1>5, <2>1 DEF Shape
    <2>3. CommandsFit'
      BY <1>1, <2>1 DEF CommandsFit, Holds
    <2>4. PointsLeft
      BY <1>1, <1>5, <2>1 DEF PointsLeft, Maker
    <2>5. Known'
      BY <1>1, <1>4, <2>1 DEF Known
    <2>6. Heard'
      <3>1. ASSUME NEW e \in Disk, e # d, Covered(e) PROVE Covered(e)'
        BY <2>1, <3>1 DEF Covered
      <3>2. At(d) # p /\ Covered(d) => Covered(d)'
        BY <2>1, PathFacts DEF Covered
      <3>3. path'[d] = At(d)' \/ Covered(d)'
        BY <1>1, <2>1, <3>2 DEF Heard
      <3>4. ASSUME NEW e \in list', e # d
            PROVE  /\ Aims(e)' => At(e)' = command'[e].point \/ lost'[e] = "unseen"
                   /\ command'[e].at = "unmounted" => At(e)' = NoPath \/ lost'[e] = "unseen"
                   /\ ~Aims(e)' /\ command'[e].at # "unmounted" /\ path'[e] # At(e)' => Covered(e)'
        <4>1. e \in list /\ e \in Disk
          BY <3>4 DEF Shape
        <4>2. /\ Aims(e) => At(e) = command[e].point \/ lost[e] = "unseen"
              /\ command[e].at = "unmounted" => At(e) = NoPath \/ lost[e] = "unseen"
              /\ ~Aims(e) /\ command[e].at # "unmounted" /\ path[e] # At(e) => Covered(e)
          BY <4>1 DEF Heard
        <4> QED BY <1>4, <2>1, <3>1, <3>4, <4>1, <4>2
      <3> QED BY <1>1, <1>4, <3>3, <3>4 DEF Heard
    <2> QED BY <1>3, <1>5, <2>2, <2>3, <2>4, <2>5, <2>6, PointsKept, SameTable
  <1>6. ASSUME NEW to \in Moves(p, n) \ {p},
               /\ path' = [path EXCEPT ![d] = to]
               /\ dirs' = [dirs EXCEPT ![to] = dirs[p], ![p] = "none"]
               /\ table' = [e \in Disk |-> IF At(e) = p THEN [table[e] EXCEPT !.at = to] ELSE table[e]]
               /\ lost' = [e \in Disk |-> IF At(e) # p THEN lost[e] ELSE IF e = d THEN "no" ELSE "unseen"]
               /\ swept' = IF reserved[p] > 0 \/ p \in swept THEN swept \cup {p, to} ELSE swept
        PROVE  MountInv'
    <2>1. /\ p \in Own /\ to \in Own /\ to \in Path /\ p # to /\ to # NoPath
          /\ dirs[p] # "none" /\ dirs[to] = "none"
      BY PathFacts DEF Moves, CanMove
    <2>2. /\ path' \in [Disk -> Path \cup {NoPath}] /\ path'[d] = to
          /\ \A e \in Disk : e # d => path'[e] = path[e]
          /\ lost' \in [Disk -> {"no", "behind", "unseen"}]
          /\ \A e \in Disk : lost'[e] = IF At(e) # p THEN lost[e] ELSE IF e = d THEN "no" ELSE "unseen"
      BY <1>2, <1>6, <2>1
    <2>3. /\ table' \in [Disk -> Entries]
          /\ \A e \in Disk : /\ At(e)' = IF At(e) = p THEN to ELSE At(e)
                             /\ table'[e].flags = table[e].flags
                             /\ table'[e].forced = table[e].forced
                             /\ table'[e].made = table[e].made
      <3>1. ASSUME NEW e \in Disk
            PROVE  /\ [table[e] EXCEPT !.at = to] \in Entries
                   /\ [table[e] EXCEPT !.at = to].at = to
                   /\ [table[e] EXCEPT !.at = to].flags = table[e].flags
                   /\ [table[e] EXCEPT !.at = to].forced = table[e].forced
                   /\ [table[e] EXCEPT !.at = to].made = table[e].made
        BY <1>2, <2>1 DEF Entries
      <3> QED BY <1>2, <1>6, <3>1 DEF At
    <2>4. Shape'
      <3>1. dirs' \in [Own -> {"none", "daemon", "client", "littered"}] /\ swept' \subseteq Own
        BY <1>6, <2>1 DEF Shape
      <3> QED BY <1>1, <2>2, <2>3, <3>1 DEF Shape
    <2>5. CommandsFit'
      BY <1>1, <2>2 DEF CommandsFit, Holds
    <2>6. Points'
      <3>1. \A e \in Disk : Maker(e)' => Maker(e) /\ command'[e].point = command[e].point
        BY <1>1, <2>2 DEF Maker
      <3>2. \A e \in Disk : At(e)' = (IF At(e) = p THEN to ELSE At(e)) /\ table'[e].made = table[e].made
        BY <2>3
      <3> QED BY <1>6, <2>1, <3>1, <3>2, FollowsPoints
    <2>7. Known'
      BY <1>1, <1>4, <2>2, <2>3 DEF Known
    <2>8. Heard'
      <3>1. ASSUME NEW e \in Disk, e # d, Covered(e) PROVE Covered(e)'
        BY <2>2, <3>1 DEF Covered
      <3>2. At(d) # p /\ Covered(d) => Covered(d)'
        BY <2>1, <2>2, PathFacts DEF Covered
      <3>3. path'[d] = At(d)' \/ Covered(d)'
        BY <1>1, <2>2, <2>3, <3>2 DEF Heard
      <3>4. ASSUME NEW e \in list', e # d
            PROVE  /\ Aims(e)' => At(e)' = command'[e].point \/ lost'[e] = "unseen"
                   /\ command'[e].at = "unmounted" => At(e)' = NoPath \/ lost'[e] = "unseen"
                   /\ ~Aims(e)' /\ command'[e].at # "unmounted" /\ path'[e] # At(e)' => Covered(e)'
        <4>1. e \in list /\ e \in Disk
          BY <3>4 DEF Shape
        <4>2. /\ Aims(e) => At(e) = command[e].point \/ lost[e] = "unseen"
              /\ command[e].at = "unmounted" => At(e) = NoPath \/ lost[e] = "unseen"
              /\ ~Aims(e) /\ command[e].at # "unmounted" /\ path[e] # At(e) => Covered(e)
          BY <4>1 DEF Heard
        <4>3. CASE At(e) = p
          <5>1. lost'[e] = "unseen"
            BY <2>2, <3>4, <4>1, <4>3
          <5> QED BY <5>1 DEF Covered
        <4>4. CASE At(e) # p
          <5>1. At(e)' = At(e) /\ lost'[e] = lost[e] /\ path'[e] = path[e] /\ command'[e] = command[e]
            BY <2>2, <2>3, <3>4, <4>1, <4>4
          <5> QED BY <1>4, <3>1, <3>4, <4>1, <4>2, <5>1
        <4> QED BY <4>3, <4>4
      <3> QED BY <1>1, <1>4, <3>3, <3>4 DEF Heard
    <2>9. CleanWhenWritten'
      <3>1. \A e \in Disk : At(e) = NoPath => At(e)' = NoPath
        BY <2>1, <2>3, PathFacts
      <3> QED BY <2>3, <3>1 DEF CleanWhenWritten
    <2> QED BY <1>3, <2>4, <2>5, <2>6, <2>7, <2>8, <2>9
  <1> QED BY <1>5, <1>6 DEF NameFollows

LEMMA RenameKeeps ==
  ASSUME MountInv, NEW d \in Disk, NEW n \in Name, Rename(d, n)
  PROVE  MountInv'
  <1>1. /\ AtRest(d) /\ path[d] # NoPath /\ NameFollows(d, n, path[d]) /\ Counts
        /\ UNCHANGED <<list, dirty, quotas, command, reserved, refresh, news, sweeps>>
    BY DEF Rename, stateVars
  <1>2. label' \in [Disk -> Name]
    BY DEF Rename, MountedOn, MountInv, Shape
  <1>3. input' \in 0 .. MaxInput
    BY <1>1, MountAssumption DEF Counts, MountInv, Shape
  <1>4. path[d] \in Path
    BY <1>1 DEF MountInv, Shape
  <1> QED BY <1>1, <1>2, <1>3, <1>4, FollowsKeeps

LEMMA PropertyChangedKeeps ==
  ASSUME MountInv, NEW d \in Disk, PropertyChanged(d)
  PROVE  MountInv'
  <1>1. /\ AtRest(d) /\ path[d] # NoPath /\ NameFollows(d, label[d], path[d])
        /\ UNCHANGED <<list, dirty, quotas, command, reserved, refresh, label, news, sweeps, input>>
    BY DEF PropertyChanged, stateVars
  <1>2. label[d] \in Name /\ label' \in [Disk -> Name] /\ input' \in 0 .. MaxInput /\ path[d] \in Path
    BY <1>1 DEF MountInv, Shape
  <1> QED BY <1>1, <1>2, FollowsKeeps

\* The daemon has looked: the description of d is as the mount table.
LEMMA LookedKeeps ==
  ASSUME MountInv, NEW d \in Disk, AtRest(d), path' = [path EXCEPT ![d] = At(d)], Knows(d),
         list' \subseteq list, \A e \in list : e # d => e \in list', refresh' = refresh \ {d},
         sweeps' \in [Own -> 0 .. MaxSweep],
         UNCHANGED <<name, dirty, quotas, command, reserved, table, label, news, dirs, swept, input>>
  PROVE  MountInv'
  <1> USE DEF MountInv
  <1>1. /\ d \in list /\ command[d].at = "idle" /\ ~Aims(d) /\ ~Maker(d)'
    BY DEF AtRest, Aims, Maker, Holds
  <1>2. /\ path \in [Disk -> Path \cup {NoPath}] /\ lost \in [Disk -> {"no", "behind", "unseen"}]
        /\ At(d) \in Path \cup {NoPath}
    BY DEF Shape, At, Entries
  <1>3. /\ path' \in [Disk -> Path \cup {NoPath}] /\ path'[d] = At(d)
        /\ lost' \in [Disk -> {"no", "behind", "unseen"}]
        /\ \A e \in Disk : e # d => path'[e] = path[e] /\ lost'[e] = lost[e]
    BY <1>2 DEF Knows
  <1>4. \A e \in Disk : At(e)' = At(e) /\ (Aims(e)' <=> Aims(e))
    BY DEF At, Aims, Snaps
  <1>5. Shape'
    BY <1>3 DEF Shape
  <1>6. /\ Reservations' /\ CleanWhenMounting'
    BY SameCommands
  <1>7. CommandsFit'
    BY <1>1, <1>3 DEF CommandsFit, Holds
  <1>8. PointsLeft
    BY <1>1, <1>3, <1>4 DEF PointsLeft, Maker
  <1>9. Known'
    BY <1>1, <1>3, <1>4 DEF Known
  <1>10. Heard'
    <2>1. ASSUME NEW e \in Disk, e # d, Covered(e) PROVE Covered(e)'
      BY <1>3, <2>1 DEF Covered
    <2>2. ASSUME NEW e \in list', e # d
          PROVE  /\ Aims(e)' => At(e)' = command'[e].point \/ lost'[e] = "unseen"
                 /\ command'[e].at = "unmounted" => At(e)' = NoPath \/ lost'[e] = "unseen"
                 /\ ~Aims(e)' /\ command'[e].at # "unmounted" /\ path'[e] # At(e)' => Covered(e)'
      <3>1. e \in list /\ e \in Disk
        BY <2>2 DEF Shape
      <3>2. /\ Aims(e) => At(e) = command[e].point \/ lost[e] = "unseen"
            /\ command[e].at = "unmounted" => At(e) = NoPath \/ lost[e] = "unseen"
            /\ ~Aims(e) /\ command[e].at # "unmounted" /\ path[e] # At(e) => Covered(e)
        BY <3>1 DEF Heard
      <3> QED BY <1>3, <1>4, <2>1, <2>2, <3>1, <3>2
    <2> QED BY <1>1, <1>3, <1>4, <2>2 DEF Heard
  <1> QED BY <1>5, <1>6, <1>7, <1>8, <1>9, <1>10, PointsKept, SameTable

LEMMA RefreshKeeps ==
  ASSUME MountInv, NEW d \in Disk, Refresh(d)
  PROVE  MountInv'
  <1> USE DEF MountInv
  <1>1. /\ AtRest(d) /\ refresh' = refresh \ {d}
        /\ SeenMounted(d) \/ SeenUnmounted(d) \/ SeenAnew(d)
        /\ UNCHANGED <<dirty, quotas, command, reserved, label, news, input>>
    BY DEF Refresh, stateVars
  <1>2. /\ path \in [Disk -> Path \cup {NoPath}] /\ sweeps \in [Own -> 0 .. MaxSweep]
        /\ At(d) \in Path \cup {NoPath} /\ label[d] \in Name
        /\ label' \in [Disk -> Name] /\ input' \in 0 .. MaxInput
    BY <1>1 DEF Shape, At, Entries
  <1>3. CASE SeenMounted(d) /\ d \notin Network /\ label[d] # name[d]
    <2>1. /\ NameFollows(d, label[d], At(d)) /\ path[d] # NoPath /\ At(d) \in Path
          /\ UNCHANGED <<list, sweeps>>
      BY <1>2, <1>3 DEF SeenMounted
    <2> QED BY <1>1, <1>2, <2>1, FollowsKeeps
  <1>4. CASE SeenMounted(d) /\ ~(d \notin Network /\ label[d] # name[d])
    BY <1>1, <1>2, <1>4, LookedKeeps DEF SeenMounted
  <1>5. CASE SeenAnew(d)
    BY <1>1, <1>2, <1>5, LookedKeeps DEF SeenAnew
  <1>6. CASE SeenUnmounted(d)
    <2>1. /\ At(d) = NoPath /\ Forgets(d) /\ Knows(d) /\ UNCHANGED <<name, dirs, table, swept>>
      BY <1>6 DEF SeenUnmounted
    <2>2. /\ path' = [path EXCEPT ![d] = At(d)] /\ list' \subseteq list
          /\ \A e \in list : e # d => e \in list'
      BY <2>1 DEF Forgets
    <2>3. sweeps' \in [Own -> 0 .. MaxSweep]
      <3>1. CASE path[d] \in Own
        <4>1. sweeps[path[d]] < MaxSweep /\ sweeps' = [sweeps EXCEPT ![path[d]] = @ + 1]
          BY <1>6, <3>1 DEF SeenUnmounted
        <4>2. sweeps[path[d]] + 1 \in 0 .. MaxSweep
          BY <1>2, <3>1, <4>1, MountAssumption
        <4> QED BY <1>2, <4>1, <4>2
      <3>2. CASE path[d] \notin Own
        BY <1>2, <1>6, <3>2 DEF SeenUnmounted
      <3> QED BY <3>1, <3>2
    <2> QED BY <1>1, <2>1, <2>2, <2>3, LookedKeeps
  <1> QED BY <1>1, <1>3, <1>4, <1>5, <1>6

\* Steps that change only what is in the directories.
LEMMA DirectoriesKeep ==
  ASSUME MountInv, Points', dirs' \in [Own -> {"none", "daemon", "client", "littered"}],
         swept' \subseteq Own, input' \in 0 .. MaxInput, sweeps' \in [Own -> 0 .. MaxSweep],
         UNCHANGED <<daemonVars, kernelVars, lost>>
  PROVE  MountInv'
  <1> USE DEF MountInv
  <1>1. /\ UNCHANGED <<list, name, path, dirty, quotas, command, reserved, refresh, table, label, news, lost>>
        /\ dirty' \subseteq dirty
    BY DEF daemonVars, descVars, stateVars, kernelVars
  <1>2. Shape'
    BY <1>1 DEF Shape
  <1>3. Heard'
    <2>1. /\ UNCHANGED <<command, path, table, list>> /\ news \subseteq news' /\ refresh \subseteq refresh'
          /\ \A d \in Disk : lost[d] = "unseen" => lost'[d] = "unseen"
          /\ list \subseteq Disk
      BY <1>1 DEF Shape
    <2> QED BY <2>1, HeardStays
  <1> QED BY <1>1, <1>2, <1>3, SameCommands, SameTable

LEMMA RemovalKeeps ==
  ASSUME MountInv, NEW p \in Own, dirs' = Removed(p), Removable(p) /\ reserved[p] > 0 => p \in swept',
         swept \subseteq swept', swept' \subseteq Own, input' \in 0 .. MaxInput,
         sweeps' \in [Own -> 0 .. MaxSweep], UNCHANGED <<daemonVars, kernelVars, lost>>
  PROVE  MountInv'
  <1>1. UNCHANGED <<command, path, table>>
    BY DEF daemonVars, descVars, kernelVars
  <1>2. \A e \in Disk : Maker(e)' => Maker(e) /\ command'[e].point = command[e].point
    BY <1>1 DEF Maker
  <1>3. Removable(p) /\ (\E e \in Disk : Maker(e)' /\ command'[e].point = p) => p \in swept'
    BY <1>2, HoldersAreReserved DEF HoldersReserve, Maker, Path, MountInv
  <1>4. Points'
    BY <1>1, <1>2, <1>3, RemovedPoints DEF MountInv
  <1>5. dirs' \in [Own -> {"none", "daemon", "client", "littered"}]
    BY DEF Removed, MountInv, Shape
  <1> QED BY <1>4, <1>5, DirectoriesKeep

LEMMA SweepKeeps ==
  ASSUME MountInv, NEW p \in Own, Sweep(p)
  PROVE  MountInv'
  <1>1. /\ sweeps \in [Own -> 0 .. MaxSweep] /\ swept \subseteq Own /\ input \in 0 .. MaxInput
    BY DEF MountInv, Shape
  <1>2. /\ sweeps[p] > 0 /\ sweeps' = [sweeps EXCEPT ![p] = @ - 1] /\ dirs' = Removed(p)
        /\ swept' = IF reserved[p] > 0 /\ Removable(p) THEN swept \cup {p} ELSE swept
        /\ UNCHANGED <<daemonVars, kernelVars, lost>> /\ input' = input
    BY DEF Sweep
  <1>3. sweeps[p] - 1 \in 0 .. MaxSweep
    BY <1>1, <1>2, MountAssumption
  <1>4. sweeps' \in [Own -> 0 .. MaxSweep]
    BY <1>1, <1>2, <1>3
  <1> QED BY <1>1, <1>2, <1>4, RemovalKeeps

LEMMA ClientsKeep ==
  ASSUME MountInv, NEW p \in Own, ClientMkdir(p) \/ ClientRmdir(p)
  PROVE  MountInv'
  <1>1. /\ sweeps \in [Own -> 0 .. MaxSweep] /\ swept \subseteq Own /\ input \in 0 .. MaxInput
        /\ dirs \in [Own -> {"none", "daemon", "client", "littered"}]
    BY DEF MountInv, Shape
  <1>2. /\ sweeps' = sweeps /\ Counts /\ UNCHANGED <<daemonVars, kernelVars, lost>>
    BY DEF ClientMkdir, ClientRmdir
  <1>3. input' \in 0 .. MaxInput
    BY <1>1, <1>2, MountAssumption DEF Counts
  <1>4. CASE ClientRmdir(p)
    <2>1. /\ dirs' = Removed(p) /\ Removable(p)
          /\ swept' = IF reserved[p] > 0 THEN swept \cup {p} ELSE swept
      BY <1>4 DEF ClientRmdir
    <2>2. swept' \subseteq Own /\ swept \subseteq swept' /\ (reserved[p] > 0 => p \in swept')
      BY <1>1, <2>1
    <2> QED BY <1>1, <1>2, <1>3, <2>1, <2>2, RemovalKeeps
  <1>5. CASE ClientMkdir(p)
    <2>1. dirs' = [dirs EXCEPT ![p] = "client"] /\ swept' = swept
      BY <1>5 DEF ClientMkdir
    <2>2. UNCHANGED <<command, path, table>>
      BY <1>2 DEF daemonVars, descVars, kernelVars
    <2>3. PointsLeft
      BY <1>1, <2>1, <2>2 DEF PointsLeft, Maker, At
    <2> QED BY <1>1, <1>2, <1>3, <2>1, <2>3, PointsKept, DirectoriesKeep DEF MountInv
  <1> QED BY <1>4, <1>5

LEMMA VolumeMountedKeeps ==
  ASSUME MountInv, VolumeMounted
  PROVE  MountInv'
  <1> USE DEF MountInv
  <1>1. /\ news' = news \ {"mounted"}
        /\ refresh' = refresh \cup {d \in list : At(d) # NoPath /\ path[d] = NoPath}
        /\ list' = list \cup Appearing
        /\ path' = [d \in Disk |-> IF d \in Appearing THEN At(d) ELSE path[d]]
        /\ name' = [d \in Disk |-> IF d \in Appearing THEN label[d] ELSE name[d]]
        /\ lost' = [d \in Disk |-> IF d \in Appearing THEN "no" ELSE lost[d]]
        /\ UNCHANGED <<dirty, quotas, command, reserved, table, label, dirs, sweeps, swept, input>>
    BY DEF VolumeMounted, stateVars, diskVars
  <1>2. Appearing \subseteq Disk
    BY MountAssumption DEF Appearing
  <1>3. \A d \in Appearing : d \notin list /\ command[d].at = "idle" /\ ~Aims(d) /\ ~Maker(d)'
    BY <1>1, <1>2 DEF Appearing, CommandsFit, Aims, Maker, Holds
  <1>4. /\ \A d \in Appearing : path'[d] = At(d) /\ lost'[d] = "no" /\ name'[d] = label[d]
        /\ \A d \in Disk \ Appearing : path'[d] = path[d] /\ lost'[d] = lost[d] /\ name'[d] = name[d]
    BY <1>1, <1>2
  <1>5. \A d \in Disk : At(d)' = At(d) /\ (Aims(d)' <=> Aims(d)) /\ At(d) \in Path \cup {NoPath}
    BY <1>1 DEF At, Aims, Snaps, Shape, Entries
  <1> HIDE DEF Appearing
  <1>6. Shape'
    <2>1. /\ path' \in [Disk -> Path \cup {NoPath}] /\ name' \in [Disk -> Name]
          /\ lost' \in [Disk -> {"no", "behind", "unseen"}]
      BY <1>1, <1>5 DEF Shape
    <2>2. list' \subseteq Disk /\ refresh' \subseteq list'
      BY <1>1, <1>2 DEF Shape
    <2> QED BY <1>1, <2>1, <2>2 DEF Shape
  <1>7. Reservations' /\ CleanWhenMounting'
    BY <1>1, SameCommands
  <1>8. CommandsFit'
    <2>1. "idle" \notin Holds \cup {"repair"}
      BY DEF Holds
    <2> QED BY <1>1, <1>3, <1>4, <2>1 DEF CommandsFit
  <1>9. PointsLeft
    BY <1>1, <1>3, <1>4, <1>5 DEF PointsLeft, Maker
  <1>10. Known'
    BY <1>1, <1>3, <1>4, <1>5 DEF Known
  <1>11. Heard'
    <2>1. ASSUME NEW d \in list', d \notin Appearing PROVE Settled(d)'
      <3>1. d \in list /\ d \in Disk
        BY <1>1, <2>1 DEF Shape
      <3>2. Settled(d)
        BY <3>1 DEF Heard, Settled
      <3>3. path'[d] = path[d] /\ lost'[d] = lost[d] /\ command'[d] = command[d]
            /\ At(d)' = At(d) /\ (Aims(d)' <=> Aims(d))
        BY <1>1, <1>4, <1>5, <2>1, <3>1
      <3>4. path[d] # At(d) /\ Covered(d) => Covered(d)'
        BY <1>1, <3>1, <3>3 DEF Covered
      <3> QED BY <3>2, <3>3, <3>4 DEF Settled
    <2>2. ASSUME NEW d \in Appearing PROVE Settled(d)'
      BY <1>1, <1>2, <1>3, <1>4, <1>5 DEF Settled
    <2> QED BY <2>1, <2>2 DEF Heard, Settled
  <1> QED BY <1>1, <1>6, <1>7, <1>8, <1>9, <1>10, <1>11, PointsKept, SameTable

LEMMA VolumeChangedKeeps ==
  ASSUME MountInv, VolumeChanged
  PROVE  MountInv'
  <1> USE DEF MountInv
  <1>1. /\ news' = news \ {"changed"}
        /\ refresh' = refresh \cup {d \in list : path[d] # NoPath}
        /\ UNCHANGED <<list, name, path, dirty, quotas, command, reserved, table, label,
                       dirs, sweeps, lost, swept, input>>
    BY DEF VolumeChanged, descVars, stateVars, diskVars, history
  <1>2. Shape'
    BY <1>1 DEF Shape
  <1>3. Heard'
    BY <1>1 DEF Heard, Aims, Snaps, Covered, At
  <1> QED BY <1>1, <1>2, <1>3, SameCommands, SameTable

LEMMA OthersMountKeeps ==
  ASSUME MountInv, NEW d \in Disk, NEW p \in Path, OthersMount(d, p)
  PROVE  MountInv'
  <1> USE DEF MountInv
  <1> DEFINE entry == [NotMounted EXCEPT !.at = p, !.forced = TRUE]
  <1>1. /\ Counts /\ At(d) = NoPath
        /\ p \in Own => dirs[p] # "none"
        /\ table' = [table EXCEPT ![d] = entry]
        /\ news' = news \cup {"mounted"}
        /\ lost' = [lost EXCEPT ![d] = Meanwhile(d, @)]
        /\ UNCHANGED <<list, name, path, dirty, quotas, command, reserved, refresh, label,
                       dirs, sweeps, swept>>
    BY DEF OthersMount, daemonVars, descVars, stateVars, diskVars
  <1>2. entry \in Entries /\ entry.at = p /\ entry.forced = TRUE /\ entry.made = FALSE
    BY DEF Entries, NotMounted
  <1> HIDE DEF entry
  <1>3. \A e \in Disk : /\ Aims(e)' <=> Aims(e)
                        /\ (command'[e].at = "unmounted") <=> (command[e].at = "unmounted")
                        /\ command'[e].point = command[e].point
                        /\ Maker(e)' => Maker(e)
    BY <1>1 DEF Aims, Snaps, Maker
  <1>4. /\ Points' /\ Known' /\ Heard' /\ CleanWhenWritten'
        /\ table' \in [Disk -> Entries] /\ lost' \in [Disk -> {"no", "behind", "unseen"}]
    BY <1>1, <1>2, <1>3, ArrivalKeeps
  <1>5. Shape'
    BY <1>1, <1>4, MountAssumption DEF Counts, Shape
  <1>6. Reservations' /\ CommandsFit' /\ CleanWhenMounting'
    BY <1>1, SameCommands
  <1> QED BY <1>4, <1>5, <1>6

LEMMA OthersUnmountKeeps ==
  ASSUME MountInv, NEW d \in Disk, OthersUnmount(d)
  PROVE  MountInv'
  <1> USE DEF MountInv
  <1>1. /\ Counts
        /\ table' = [table EXCEPT ![d] = NotMounted]
        /\ news' = news \cup {"changed"}
        /\ lost' = [lost EXCEPT ![d] = Meanwhile(d, "behind")]
        /\ UNCHANGED <<list, name, path, dirty, quotas, command, reserved, refresh, label,
                       dirs, sweeps, swept>>
    BY DEF OthersUnmount, daemonVars, descVars, stateVars, diskVars
  <1>2. NotMounted \in Entries /\ NotMounted.at = NoPath
    BY DEF Entries, NotMounted
  <1>3. /\ table' \in [Disk -> Entries] /\ At(d)' = NoPath
        /\ \A e \in Disk : e # d => At(e)' = At(e) /\ table'[e] = table[e]
    BY <1>1, <1>2 DEF At, Shape
  <1>4. /\ lost' \in [Disk -> {"no", "behind", "unseen"}]
        /\ lost'[d] = IF command[d].at = "idle" THEN "behind" ELSE "unseen"
        /\ \A e \in Disk : e # d => lost'[e] = lost[e]
    BY <1>1 DEF Shape, Meanwhile
  <1>5. input' \in 0 .. MaxInput
    BY <1>1, MountAssumption DEF Counts, Shape
  <1>6. Shape'
    BY <1>1, <1>3, <1>4, <1>5 DEF Shape
  <1>7. Reservations' /\ CommandsFit' /\ CleanWhenMounting'
    BY <1>1, SameCommands
  <1>8. PointsLeft
    BY <1>1, <1>3 DEF PointsLeft, Maker
  <1>9. \A e \in Disk : Aims(e)' <=> Aims(e)
    BY <1>1 DEF Aims, Snaps
  <1>10. Known'
    BY <1>1, <1>3, <1>4, <1>9 DEF Known
  <1>11. Heard'
    <2>1. ASSUME NEW e \in list, e # d PROVE Settled(e)'
      <3>1. e \in Disk /\ Settled(e)
        BY DEF Shape, Heard, Settled
      <3>2. Covered(e) => Covered(e)'
        BY <1>1, <1>4, <2>1, <3>1 DEF Covered
      <3> QED BY <1>1, <1>3, <1>4, <1>9, <2>1, <3>1, <3>2 DEF Settled
    <2>2. ASSUME d \in list PROVE Settled(d)'
      <3>1. CASE lost'[d] = "unseen"
        BY <3>1 DEF Settled, Covered
      <3>2. CASE command[d].at = "idle"
        <4>1. ~Aims(d)
          BY <3>2 DEF Aims
        <4>2. path'[d] # NoPath => Covered(d)'
          BY <1>1 DEF Covered
        <4> QED BY <1>1, <1>3, <1>9, <3>2, <4>1, <4>2 DEF Settled
      <3> QED BY <1>4, <3>1, <3>2
    <2> QED BY <1>1, <2>1, <2>2 DEF Heard, Settled
  <1>12. CleanWhenWritten'
    BY <1>1, <1>3 DEF CleanWhenWritten
  <1> QED BY <1>6, <1>7, <1>8, <1>10, <1>11, <1>12, PointsKept

LEMMA OthersRenameKeeps ==
  ASSUME MountInv, NEW d \in Disk, NEW n \in Name, OthersRename(d, n)
  PROVE  MountInv'
  <1> USE DEF MountInv
  <1>1. /\ Counts /\ label' = [label EXCEPT ![d] = n] /\ news' = news \cup {"changed"}
        /\ UNCHANGED <<list, name, path, dirty, quotas, command, reserved, refresh, table,
                       dirs, sweeps, lost, swept>>
    BY DEF OthersRename, daemonVars, descVars, stateVars, diskVars
  <1>2. Shape'
    BY <1>1, MountAssumption DEF Shape, Counts
  <1>3. Heard'
    BY <1>1, HeardStays DEF Shape
  <1> QED BY <1>1, <1>2, <1>3, SameCommands, SameTable

-----------------------------------------------------------------------------
(* The invariant.                                                          *)

LEMMA InitMountInv == Init => MountInv
  <1> SUFFICES ASSUME Init PROVE MountInv
    OBVIOUS
  <1>1. /\ \A d \in Disk : command[d].at = "idle" /\ At(d) = NoPath /\ path[d] = NoPath
        /\ command \in [Disk -> Commands] /\ table \in [Disk -> Entries]
    BY IdleFields DEF Init, At, NotMounted, Entries
  <1>2. \A d \in Disk : ~Aims(d) /\ ~Maker(d)
    BY <1>1 DEF Aims, Maker, Holds
  <1>3. Shape
    <2>1. 0 \in 0 .. MaxSweep /\ 0 \in 0 .. MaxInput
      BY MountAssumption
    <2> QED BY <1>1, <2>1, MountAssumption DEF Init, Shape
  <1>4. Reservations
    <2>1. \A p \in Path : Holders(command, p) = {}
      BY <1>1 DEF Holders, Holds
    <2>2. reserved = [p \in Path |-> 0]
      BY DEF Init
    <2> QED BY <2>1, <2>2, FS_EmptySet DEF Reservations
  <1>5. CommandsFit
    BY <1>1 DEF CommandsFit, Holds
  <1>6. Points
    BY <1>1, <1>2, PathFacts DEF Points, MountedHaveDirs, Standing, MakersApart, MountedApart
  <1>7. Known /\ CleanWhenMounting /\ CleanWhenWritten
    BY <1>1, <1>2 DEF Known, CleanWhenMounting, CleanWhenWritten
  <1>8. Heard
    BY <1>1, <1>2, <1>3 DEF Heard, Shape
  <1> QED BY <1>3, <1>4, <1>5, <1>6, <1>7, <1>8 DEF MountInv

LEMMA NextMountInv == MountInv /\ [Next]_vars => MountInv'
  <1> SUFFICES ASSUME MountInv, [Next]_vars PROVE MountInv'
    OBVIOUS
  <1>1. CASE Requests
    <2>1. ASSUME NEW d \in Disk, Mount(d, TRUE, FALSE, <<>>, NoPath) PROVE MountInv'
      BY <2>1, MountKeeps, IdleFields
    <2>2. ASSUME NEW d \in Disk, NEW p \in ClientPoints \cup {NoPath},
                 \/ Mount(d, FALSE, TRUE, <<>>, p)
                 \/ \E o \in ClientOptions : Mount(d, FALSE, FALSE, o, p)
          PROVE  MountInv'
      <3>1. p \in Path \cup {NoPath} /\ ClientOptions \subseteq Seq(Option)
        BY MountAssumption
      <3> QED BY <2>2, <3>1, MountKeeps, IdleFields
    <2>3. ASSUME NEW d \in Disk, Unmount(d) PROVE MountInv'
      BY <2>3, UnmountKeeps
    <2>4. ASSUME NEW d \in Disk, NEW n \in Name, Rename(d, n) PROVE MountInv'
      BY <2>4, RenameKeeps
    <2> QED BY <1>1, <2>1, <2>2, <2>3, <2>4 DEF Requests
  <1>2. CASE Helpers
    BY <1>2, MountRunsKeeps, UnmountRunsKeeps, SweepKeeps DEF Helpers
  <1>3. CASE \E d \in Disk : Callbacks(d)
    BY <1>3, MountDoneKeeps, UnmountDoneKeeps, RepairDoneKeeps, QuotasDoneKeeps DEF Callbacks
  <1>4. CASE Notices
    BY <1>4, VolumeMountedKeeps, VolumeChangedKeeps, RefreshKeeps, PropertyChangedKeeps DEF Notices
  <1>5. CASE Others
    <2>1. ClientPoints \subseteq Path
      BY MountAssumption
    <2> QED BY <1>5, <2>1, ClientsKeep, OthersMountKeeps, OthersUnmountKeeps, OthersRenameKeeps DEF Others
  <1>6. CASE UNCHANGED vars
    <2>1. UNCHANGED <<list, name, path, dirty, quotas, command, reserved, refresh, table, label, news,
                      dirs, sweeps, lost, swept, input>>
      BY <1>6 DEF vars, daemonVars, descVars, stateVars, kernelVars, diskVars, history
    <2>2. Shape'
      BY <2>1 DEF MountInv, Shape
    <2>3. Heard'
      BY <2>1, HeardStays DEF MountInv, Shape
    <2> QED BY <2>1, <2>2, <2>3, SameCommands, SameTable DEF MountInv
  <1> QED BY <1>1, <1>2, <1>3, <1>4, <1>5, <1>6 DEF Next

LEMMA MountInvariance == Spec => []MountInv
  BY InitMountInv, NextMountInv, PTL DEF Spec

-----------------------------------------------------------------------------
(* The properties.                                                         *)

\* Of two volumes for which the daemon made a mount point (DAMountCreateMountPoint,
\* gDAMountPointList), one that is being mounted never shares its mount point with
\* the other, unless the directory was removed or moved from under it; whatever
\* mount points clients, mount maps and others name.
THEOREM MountsGetOwnPoints == Spec => []ApartPoints
  <1>1. MountInv => ApartPoints
    <2> SUFFICES ASSUME MountInv, NEW d \in Disk, NEW e \in Disk, d # e, Made(d),
                        \/ Made(e) /\ command[e].point = command[d].point
                        \/ table[e].made /\ At(e) = command[d].point
                 PROVE  command[d].point \in swept
      BY DEF ApartPoints
    <2>1. ASSUME NEW f \in Disk, Made(f)
          PROVE  Maker(f)
      BY <2>1 DEF Made, Maker, Holds, MountInv, CommandsFit
    <2> QED BY <2>1 DEF MountInv, Points, MakersApart
  <1> QED BY <1>1, MountInvariance, PTL

\* What the daemon mounts for writing was found clean or has been repaired, unless
\* the client asked for the mount by "force" or others mounted it: DAMount, what it
\* tries again in __DAMountWithArgumentsCallback, and
\* __DAMountWithArgumentsCallbackStage1.
THEOREM WrittenOnlyWhenClean == Spec => []CleanWhenWritten
  <1>1. MountInv => CleanWhenWritten
    BY DEF MountInv
  <1> QED BY <1>1, MountInvariance, PTL

\* When the description of an idle disk does not say where it is mounted, a
\* notification or a refresh is on its way (_DADiskRefresh), unless others mounted
\* or unmounted it while a command of it was under way.
THEOREM TheDaemonHears == Spec => []NewsComes
  <1>1. MountInv => NewsComes
    <2> SUFFICES ASSUME MountInv, NEW d \in Disk, AtRest(d), path[d] # At(d)
                 PROVE  news # {} \/ d \in refresh \/ lost[d] = "unseen"
      BY DEF NewsComes
    <2>1. d \in list /\ ~Aims(d) /\ command[d].at # "unmounted"
      BY DEF AtRest, Aims
    <2>2. Covered(d)
      BY <2>1 DEF MountInv, Heard
    <2> QED BY <2>2 DEF Covered
  <1> QED BY <1>1, MountInvariance, PTL

\* Of two volumes for which the daemon made their mount points, an unmount takes off
\* the one it was asked for and not the other, unless others had already taken it
\* off, or the mount point is a doubtful one (__DARequestUnmount gives unmount(8) a
\* path).
THEOREM UnmountsTakeTheirOwn == Spec => UnmountsOwn
  <1> DEFINE TakesOwn == \A d, e \in Disk :
                       /\ d # e /\ path[d] \in Own /\ UnmountRuns(d)
                       /\ At(e) # NoPath /\ table'[e] = NotMounted
                       /\ table[d].made /\ table[e].made
                       => lost[d] # "no" \/ path[d] \in swept
  <1>1. MountInv /\ [Next]_vars => TakesOwn
    <2> SUFFICES ASSUME MountInv, NEW d \in Disk, NEW e \in Disk, d # e, path[d] \in Own,
                        UnmountRuns(d), At(e) # NoPath, table'[e] = NotMounted,
                        table[d].made, table[e].made, lost[d] = "no"
                 PROVE  path[d] \in swept
      OBVIOUS
    <2>1. table'[e] # table[e]
      BY DEF At, NotMounted
    <2>2. PICK f \in MountedOn(path[d]) : table' = [table EXCEPT ![f] = NotMounted]
      BY <2>1 DEF UnmountRuns
    <2>3. At(e) = path[d]
      BY <2>1, <2>2 DEF MountedOn, MountInv, Shape
    <2>4. command[d].at = "unmount" /\ ~Aims(d)
      BY DEF UnmountRuns, Aims
    <2>5. At(d) = path[d]
      BY <2>4, PathFacts DEF MountInv, Known
    <2> QED BY <2>3, <2>5 DEF MountInv, Points, MountedApart
  <1>2. [][TakesOwn]_vars => UnmountsOwn
    BY PTL DEF UnmountsOwn
  <1> HIDE DEF TakesOwn
  <1> QED BY <1>1, <1>2, MountInvariance, PTL DEF Spec

\* A mount point that is reserved is held by a mount.
ReservedAreHeld ==
  \A p \in Path : reserved[p] > 0 =>
    \E d \in Disk : command[d].at \in Holds /\ command[d].point = p
LEMMA ReservationsAreHeld == Reservations => ReservedAreHeld
  <1> SUFFICES ASSUME Reservations, NEW p \in Path, reserved[p] > 0
               PROVE  \E d \in Disk : command[d].at \in Holds /\ command[d].point = p
    BY DEF ReservedAreHeld
  <1>1. reserved[p] = Cardinality(Holders(command, p))
    BY DEF Reservations
  <1>2. Holders(command, p) # {}
    BY <1>1, FS_EmptySet
  <1> QED BY <1>2 DEF Holders

\* A holder of a mount point that nobody gave it has had it made, or updates the
\* volume there; if that is not mounted there, others have unmounted it.
LEMMA HolderIsThere ==
  ASSUME MountInv, NEW d \in Disk, NEW p \in Own, command[d].at \in Holds, command[d].point = p,
         ~Maker(d), ~Given(p)
  PROVE  path[d] = p /\ (lost[d] = "no" => At(d) = p)
  <1>1. path[d] = p /\ path[d] # NoPath /\ command[d].at # "unmounted"
    BY PathFacts DEF Maker, Holds, Given, MountInv, Shape, Commands
  <1>2. lost[d] = "no" => At(d) = p
    BY <1>1 DEF MountInv, Known
  <1> QED BY <1>1, <1>2

LEMMA BeginningMakes ==
  ASSUME NEW d \in Disk, NEW r, Begins(d, r), NEW p \in Own, dirs[p] # "none", MountInv
  PROVE  dirs'[p] # "none"
  BY DEF Begins, MountInv, Shape

\* What goes when a mount fails, of two that had the mount point.
LEMMA FailedTakesLost ==
  ASSUME MountInv, MountInv', NEW d \in Disk, MountDone(d), NEW p \in Own \ swept,
         reserved'[p] > 0, dirs[p] # "none", dirs'[p] = "none", ~Given(p)
  PROVE  \E e \in Disk : lost[e] # "no" /\ p \in {path[e], command[e].point}
  <1>1. /\ command[d].at = "failed" /\ dirs' = Removed(command[d].point) /\ Ends(d)
    BY DEF MountDone
  <1>2. p = command[d].point /\ MountedOn(p) = {} /\ command[d].at \in Holds
    BY <1>1 DEF Removed, Removable, MountInv, Shape, Holds
  <1>3. ReservedAreHeld'
    <2>1. Reservations'
      BY DEF MountInv
    <2> QED BY <2>1, ReservationsAreHeld, PTL
  <1>4. PICK e \in Disk : command'[e].at \in Holds /\ command'[e].point = p
    BY <1>3 DEF ReservedAreHeld, Path
  <1>5. e # d /\ command'[e] = command[e]
    <2>1. command'[d] = Idle
      BY <1>1 DEF Ends, MountInv, Shape
    <2>2. e # d
      BY <1>4, <2>1, IdleFields DEF Holds
    <2> QED BY <1>1, <2>2 DEF Ends, MountInv, Shape
  <1>6. command[e].at \in Holds /\ command[e].point = p
    BY <1>4, <1>5
  <1>7. At(d) # p /\ At(e) # p
    BY <1>2 DEF MountedOn
  <1>8. ~Maker(d) \/ ~Maker(e)
    BY <1>2, <1>5, <1>6 DEF MountInv, Points, MakersApart
  <1> QED BY <1>2, <1>6, <1>7, <1>8, HolderIsThere

\* What goes when a volume is renamed, and another mount has its mount point.
LEMMA FollowingTakesLost ==
  ASSUME MountInv, NEW d \in Disk, NEW n \in Name, NEW q \in Path, NameFollows(d, n, q),
         command[d].at = "idle", path[d] # NoPath, q = path[d] \/ q = At(d),
         NEW p \in Own \ swept, reserved[p] > 0, dirs[p] # "none", dirs'[p] = "none", ~Given(p)
  PROVE  \E e \in Disk : lost[e] # "no" /\ p \in {path[e], command[e].point}
  <1>1. q = p
    BY DEF NameFollows, Moves, CanMove, MountInv, Shape
  <1>2. CASE At(d) # p
    <2>1. p = path[d] /\ ~Aims(d) /\ command[d].at # "unmounted"
      BY <1>1, <1>2 DEF Aims
    <2>2. lost[d] # "no"
      BY <1>2, <2>1 DEF MountInv, Known
    <2> QED BY <2>1, <2>2
  <1>3. CASE At(d) = p
    <2>1. PICK e \in Disk : command[e].at \in Holds /\ command[e].point = p
      BY ReservationsAreHeld DEF MountInv, ReservedAreHeld, Path
    <2>2. e # d
      BY <2>1 DEF Holds
    <2>3. table[d].made /\ (At(e) = p => table[e].made)
      BY <1>3 DEF Given, MountInv, Shape, Entries
    <2>4. ~Maker(e)
      BY <1>3, <2>1, <2>2, <2>3 DEF MountInv, Points, MakersApart
    <2>5. At(e) # p
      BY <1>3, <2>2, <2>3 DEF MountInv, Points, MountedApart
    <2> QED BY <2>1, <2>4, <2>5, HolderIsThere
  <1> QED BY <1>2, <1>3

LEMMA StandingStep ==
  ASSUME MountInv, MountInv', [Next]_vars, NEW p \in Own \ swept,
         reserved[p] > 0, reserved'[p] > 0, dirs[p] # "none", dirs'[p] = "none"
  PROVE  \/ Sweep(p) \/ ClientRmdir(p) \/ Given(p)
         \/ \E d \in Disk : lost[d] # "no" /\ p \in {path[d], command[d].point}
  <1> DEFINE Taken == Given(p) \/ \E d \in Disk : lost[d] # "no" /\ p \in {path[d], command[d].point}
  <1>1. dirs' # dirs
    OBVIOUS
  <1>2. ASSUME NEW d \in Disk, NEW a \in BOOLEAN, NEW f \in BOOLEAN, NEW o, NEW q, Mount(d, a, f, o, q)
        PROVE  FALSE
    <2>1. dirs' = dirs \/ \E x \in Own : dirs' = [dirs EXCEPT ![x] = "daemon"]
      BY <1>2 DEF Mount, DAMountWithArguments, Starts, Makes
    <2> QED BY <2>1 DEF MountInv, Shape
  <1>3. ASSUME NEW d \in Disk, NEW ok \in BOOLEAN, RepairDone(d, ok)
        PROVE  FALSE
    <2>1. dirs' = dirs \/ \E x \in Own : dirs' = [dirs EXCEPT ![x] = "daemon"]
      BY <1>3 DEF RepairDone, GivesUp, DAMountWithArguments, Starts, Makes
    <2> QED BY <2>1 DEF MountInv, Shape
  <1>4. ASSUME NEW d \in Disk, UnmountDone(d)
        PROVE  FALSE
    <2>1. dirs' = Removed(path[d]) /\ reserved[path[d]] = 0
      BY <1>1, <1>4 DEF UnmountDone
    <2>2. p = path[d]
      BY <2>1 DEF Removed, Removable, MountInv, Shape
    <2> QED BY <2>1, <2>2
  <1>5. ASSUME NEW d \in Disk, MountDone(d) PROVE Taken
    BY <1>5, FailedTakesLost
  <1>6. ASSUME NEW d \in Disk, NEW n \in Name, Rename(d, n) PROVE Taken
    <2>1. NameFollows(d, n, path[d]) /\ command[d].at = "idle" /\ path[d] # NoPath
      BY <1>6 DEF Rename, AtRest
    <2>2. path[d] \in Path
      BY <2>1 DEF MountInv, Shape
    <2> QED BY <2>1, <2>2, FollowingTakesLost
  <1>7. ASSUME NEW d \in Disk, PropertyChanged(d) PROVE Taken
    <2>1. NameFollows(d, label[d], path[d]) /\ command[d].at = "idle" /\ path[d] # NoPath
      BY <1>7 DEF PropertyChanged, AtRest
    <2>2. path[d] \in Path /\ label[d] \in Name
      BY <2>1 DEF MountInv, Shape
    <2> QED BY <2>1, <2>2, FollowingTakesLost
  <1>8. ASSUME NEW d \in Disk, Refresh(d) PROVE Taken
    <2>1. SeenMounted(d) /\ command[d].at = "idle"
      BY <1>1, <1>8 DEF Refresh, SeenUnmounted, SeenAnew, AtRest
    <2>2. NameFollows(d, label[d], At(d)) /\ path[d] # NoPath /\ At(d) # NoPath
      BY <1>1, <2>1 DEF SeenMounted
    <2>3. At(d) \in Path /\ label[d] \in Name
      BY <2>2 DEF MountInv, Shape, At, Entries
    <2> QED BY <2>1, <2>2, <2>3, FollowingTakesLost
  <1>9. ASSUME NEW q \in Own, Sweep(q) PROVE Sweep(p)
    <2>1. q = p
      BY <1>9 DEF Sweep, Removed, Removable, MountInv, Shape
    <2> QED BY <1>9, <2>1
  <1>10. ASSUME NEW q \in Own, ClientRmdir(q) PROVE ClientRmdir(p)
    <2>1. q = p
      BY <1>10 DEF ClientRmdir, Removed, Removable, MountInv, Shape
    <2> QED BY <1>10, <2>1
  <1>11. ASSUME NEW q \in Own, ClientMkdir(q) PROVE FALSE
    BY <1>11 DEF ClientMkdir, MountInv, Shape
  <1>12. ~(\E d \in Disk : \/ Unmount(d) \/ MountRuns(d) \/ UnmountRuns(d)
                          \/ (\E ok \in BOOLEAN : QuotasDone(d, ok)) \/ OthersUnmount(d)
                          \/ (\E q \in Path : OthersMount(d, q)) \/ (\E n \in Name : OthersRename(d, n)))
    BY <1>1 DEF Unmount, MountRuns, UnmountRuns, QuotasDone, OthersUnmount, OthersMount, OthersRename,
                diskVars
  <1>13. ~(VolumeMounted \/ VolumeChanged \/ UNCHANGED vars)
    BY <1>1 DEF VolumeMounted, VolumeChanged, vars, diskVars
  <1> HIDE DEF Taken
  <1>14. CASE Requests
    BY <1>2, <1>6, <1>12, <1>14 DEF Requests, Taken
  <1>15. CASE Helpers
    BY <1>9, <1>12, <1>15 DEF Helpers
  <1>16. CASE \E d \in Disk : Callbacks(d)
    BY <1>3, <1>4, <1>5, <1>12, <1>16 DEF Callbacks, Taken
  <1>17. CASE Notices
    BY <1>7, <1>8, <1>13, <1>17 DEF Notices, Taken
  <1>18. CASE Others
    <2>1. ClientPoints \subseteq Path
      BY MountAssumption
    <2> QED BY <1>10, <1>11, <1>12, <1>18, <2>1 DEF Others
  <1> QED BY <1>13, <1>14, <1>15, <1>16, <1>17, <1>18 DEF Next

\* A mount point stays until mount(8) has used it: while it is reserved, only the
\* thread of _DADiskRefresh and _DAServerrmdir remove it, unless the daemon took it
\* for that of a volume that others had unmounted, or somebody named it for a volume
\* that is mounted on it or is to be (__DAMountWithArgumentsCallbackStage2,
\* __DARequestUnmountCallback, __DARequestRenameCallback).
THEOREM ReservedPointsStand == Spec => ReservedStands
  <1> DEFINE Stands == \A p \in Own \ swept :
                         reserved[p] > 0 /\ reserved'[p] > 0 /\ dirs[p] # "none" /\ dirs'[p] = "none"
                         => \/ Sweep(p) \/ ClientRmdir(p) \/ Given(p)
                            \/ \E d \in Disk : lost[d] # "no" /\ p \in {path[d], command[d].point}
  <1>1. MountInv /\ MountInv' /\ [Next]_vars => Stands
    BY StandingStep
  <1>2. [][Stands]_vars => ReservedStands
    BY PTL DEF ReservedStands
  <1> HIDE DEF Stands
  <1> QED BY <1>1, <1>2, MountInvariance, PTL DEF Spec

\* Every variable has its type; gDAMountPointList never counts below zero.
THEOREM TypesHold == Spec => []TypeOK
  <1>1. MountInv => TypeOK
    <2> SUFFICES ASSUME MountInv PROVE TypeOK
      OBVIOUS
    <2>1. \A p \in Path : Cardinality(Holders(command, p)) \in Nat
      BY FS_CardinalityType DEF MountInv, Reservations
    <2>2. reserved \in [Path -> Nat]
      BY <2>1 DEF MountInv, Reservations
    <2>3. \A d \in Disk : command[d] \in Commands /\ table[d] \in Entries
      BY DEF MountInv, Shape
    <2> QED BY <2>2, <2>3 DEF MountInv, Shape, TypeOK, Commands, Entries
  <1> QED BY <1>1, MountInvariance, PTL
=============================================================================
