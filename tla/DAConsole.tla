----------------------------- MODULE DAConsole -----------------------------
(***************************************************************************)
(* Users at the console, and their volumes: _DAConfigurationCallback of    *)
(* DAServer.c, with the volumes of the disks of DAMedia, which it mounts   *)
(* and unmounts by requests that are served later.                         *)
(*                                                                         *)
(* configd tells the daemon that something about the console has changed,  *)
(* not what; the daemon then reads how things are.  What stages, requests  *)
(* and commands do in detail is in DAStage and DAMount; here a request     *)
(* waits its turn, begins, and is done.                                    *)
(***************************************************************************)
EXTENDS DAMedia

CONSTANTS
  User,      \* users
  NoUser,    \* nobody, or root
  Owner,     \* Owner[m]: DADiskGetUserUID, who attached the device of m
  Deferred,  \* DAMountGetPreference(m, kDAMountPreferenceDefer)
  NoDefer,   \* _kDADiskStateMountAutomaticNoDefer
  Encrypted, \* kDADiskDescriptionMediaEncryptedKey
  Leaf       \* kDADiskDescriptionMediaLeafKey

ASSUME ConsoleAssumption ==
  /\ NoUser \notin User
  /\ Owner \in [Medium -> User \cup {NoUser}]
  /\ Deferred \subseteq Medium /\ NoDefer \subseteq Medium
  /\ Encrypted \subseteq Medium /\ Leaf \subseteq Medium

Volume == Medium \ Whole

VARIABLES
  console,    \* who is at the console
  session,    \* session[u]: "out", "login" (not done), "in", "leaving"
  agents,     \* the users whose SystemUIServer is yet to register
  configNews, \* configd has something to tell
  user,       \* gDAConsoleUser
  users,      \* gDAConsoleUserList
  probed,     \* the volumes with kDADiskDescriptionVolumeMountableKey
  staged,     \* the volumes with kDADiskStateStagedMount
  todo,       \* todo[m]: the requests for m
  command,    \* command[m]: the request that is being served
  mounted,    \* the volumes that are mounted
  mountedBy,  \* mountedBy[m]: DADiskGetMountedByUserUID
  excused,    \* the volumes that need not be as Deferred says: see the properties
  owed        \* what a user who left had, and the daemon has not tried to unmount

consoleVars == <<console, session, agents, configNews>>
userVars    == <<user, users>>
volumeVars  == <<probed, staged, todo, command, mounted, mountedBy>>
ghosts      == <<excused, owed>>
vars        == <<mediaVars, consoleVars, userVars, volumeVars, ghosts>>

\* DADiskMount; DADiskUnmount at a logout, when nobody is logged in, and of a
\* disk that disappeared; DADiskEject; DADiskProbe.
Request == {"mount", "leave", "unmount", "force", "eject", "probe"}

TypeOK ==
  /\ MediaTypeOK
  /\ console \in User \cup {NoUser}
  /\ session \in [User -> {"out", "login", "in", "leaving"}]
  /\ agents \subseteq User /\ configNews \in BOOLEAN
  /\ user \in User \cup {NoUser} /\ users \subseteq User
  /\ probed \subseteq Volume /\ staged \subseteq Volume /\ mounted \subseteq Volume
  /\ todo \in [Medium -> Seq(Request)] /\ command \in [Medium -> Request \cup {"none"}]
  /\ mountedBy \in [Medium -> User \cup {NoUser}]
  /\ excused \subseteq Volume /\ owed \subseteq Volume

\* ___SCDynamicStoreCopyConsoleInformation: the users who are done logging in.
Information == {u \in User : session[u] \in {"in", "leaving"}}

Init ==
  /\ MediaInit
  /\ console \in User \cup {NoUser}
  /\ session = [u \in User |-> IF u = console THEN "in" ELSE "out"]
  /\ agents = {} /\ configNews = FALSE
  /\ user = console /\ users = Information
  /\ probed = {} /\ staged = {} /\ mounted = {}
  /\ todo = [m \in Medium |-> <<>>] /\ command = [m \in Medium |-> "none"]
  /\ mountedBy = [m \in Medium |-> NoUser]
  /\ excused = {} /\ owed = {}

-----------------------------------------------------------------------------
(* The console                                                             *)

Changes == Happens /\ configNews' = TRUE

\* If configd has yet to tell of a logout when somebody else comes, the daemon
\* never hears of it.
Unheard == owed' = IF configNews THEN {} ELSE owed

Login(u) ==
  /\ Changes /\ Unheard
  /\ console = NoUser /\ session[u] = "out"
  /\ console' = u /\ session' = [session EXCEPT ![u] = "login"]
  /\ UNCHANGED <<agents, excused>>

LoginDone(u) ==
  /\ session[u] = "login"
  /\ session' = [session EXCEPT ![u] = "in"] /\ agents' = agents \cup {u}
  /\ configNews' = TRUE
  /\ UNCHANGED <<events, console, ghosts>>

\* Fast user switching.
SwitchOut(u) ==
  /\ Changes
  /\ console = u /\ session[u] = "in"
  /\ console' = NoUser
  /\ UNCHANGED <<session, agents, ghosts>>

SwitchTo(u) ==
  /\ Changes /\ Unheard
  /\ console = NoUser /\ session[u] = "in"
  /\ console' = u
  /\ UNCHANGED <<session, agents, excused>>

Leave(u) ==
  /\ Changes
  /\ console = u /\ session[u] = "in"
  /\ console' = NoUser /\ session' = [session EXCEPT ![u] = "leaving"]
  /\ agents' = agents \ {u}
  /\ owed' = IF user # u THEN owed ELSE owed \cup
       {m \in list \cap probed : Owner[m] = u \/ (mountedBy[m] = u /\ m \in mounted)}
  /\ UNCHANGED excused

Left(u) ==
  /\ session[u] = "leaving"
  /\ session' = [session EXCEPT ![u] = "out"]
  /\ configNews' = TRUE
  /\ UNCHANGED <<events, console, agents, ghosts>>

Console ==
  /\ \E u \in User : \/ Login(u) \/ LoginDone(u) \/ SwitchOut(u)
                     \/ SwitchTo(u) \/ Leave(u) \/ Left(u)
  /\ UNCHANGED <<registry, ioBusy, matched, ended, busyNews, early, diskVars, stageVars,
                 userVars, volumeVars>>

-----------------------------------------------------------------------------
(* _DAConfigurationCallback                                                *)

\* A user who is not on the list is waited for, until SystemUIServer registers.
Waits == console # NoUser /\ console \notin users

\* The mutant takes those who are leaving for users who stay.
StaysAnyhow(u) == u \in Information
Stays(u) == u \in Information /\ session[u] # "leaving"

\* The user who was at the console is gone, and nobody has come.
LoggedOut == console = NoUser /\ ~Stays(user)

\* The mutant goes by what is mounted now.
OwnedMounted(m) == m \in mounted /\ (Owner[m] = user \/ mountedBy[m] = user)
Owned(m) == \/ Owner[m] = user
            \/ m \in Encrypted \cap Deferred /\ mountedBy[m] = user

ToLeave == IF LoggedOut /\ user # NoUser THEN {m \in list \cap probed : Owned(m)} ELSE {}
ToEject == IF LoggedOut /\ user # NoUser THEN {m \in list \cap Whole : Owner[m] = user} ELSE {}

\* The first users.
First == users = {} /\ Information # {}
ToMount == IF First THEN list \cap probed \cap Deferred ELSE {}

\* Unless the file is there that says that software is being updated.
ToUnmount(cookie) ==
  IF Information = {} /\ ~cookie THEN (list \cap probed \cap Deferred) \ NoDefer ELSE {}

If(b, r) == IF b THEN <<r>> ELSE <<>>

Configuration(cookie) ==
  /\ user' = console /\ users' = Information
  /\ todo' = [m \in Medium |-> todo[m] \o If(m \in ToLeave, "leave") \o If(m \in ToEject, "eject")
                               \o If(m \in ToMount, "mount") \o If(m \in ToUnmount(cookie), "unmount")]
  /\ excused' = IF cookie THEN excused \cup (Deferred \ Whole)
                ELSE excused \ (ToMount \cup ToUnmount(cookie))
  /\ Signals
  /\ UNCHANGED <<kernelVars, diskVars, console, session, probed, staged, command, mounted,
                 mountedBy, owed>>

_DAConfigurationCallback ==
  /\ configNews /\ configNews' = FALSE
  /\ UNCHANGED agents
  /\ IF Waits THEN UNCHANGED <<mediaVars, console, session, userVars, volumeVars, ghosts>>
     ELSE \E cookie \in BOOLEAN : (cookie => Information = {}) /\ Configuration(cookie)

\* _DAServerSessionRegisterCallback, of SystemUIServer.
SystemUIServer(u) ==
  /\ u \in agents /\ session[u] = "in"
  /\ agents' = agents \ {u}
  /\ \E cookie \in BOOLEAN : (cookie => Information = {}) /\ Configuration(cookie)
  /\ UNCHANGED configNews

-----------------------------------------------------------------------------
(* Volumes                                                                 *)

\* What becomes of the volumes when disks were made, dropped and found again; the
\* stage of mounting is behind those that DAMedia skips.
Follow(s) ==
  /\ probed' = probed \ (s.made \cup s.dropped)
  /\ staged' = (staged \ s.dropped) \cup (s.made \cap s.skipped \cap Volume)
  /\ todo' = [m \in Medium |-> todo[m] \o If(m \in (s.again \cap probed) \ Leaf, "probe")
                                       \o If(m \in s.dropped \cap staged, "force")]
  /\ excused' = (excused \ s.made) \cup (s.made \cap s.skipped \cap Volume)
  /\ owed' = owed \ s.dropped
  /\ UNCHANGED <<consoleVars, userVars, command, mounted, mountedBy>>

\* The stages of a disk: whole disks have no volume, which probing finds out.
Probe(m) ==
  /\ m \in (list \cap Volume) \ probed /\ command[m] = "none"
  /\ probed' = probed \cup {m}
  /\ Signals
  /\ UNCHANGED <<kernelVars, diskVars, consoleVars, userVars, staged, todo, command, mounted,
                 mountedBy, ghosts>>

\* __DAStageMount.
StageMount(m) ==
  /\ m \in (list \cap probed) \ staged /\ command[m] = "none"
  /\ staged' = staged \cup {m}
  /\ todo' = [todo EXCEPT ![m] = Append(@, "mount")]
  /\ Signals
  /\ UNCHANGED <<kernelVars, diskVars, consoleVars, userVars, probed, command, mounted,
                 mountedBy, ghosts>>

\* DAMountWithArguments does not mount what is deferred while there are no users.
\* The mutant asks who is at the console.
DelayedNobody(m) == user = NoUser /\ m \in Deferred \ NoDefer
Delayed(m) == users = {} /\ m \in Deferred \ NoDefer

\* A request that finds its work done, or not to be done, ends at once.
Idle(m, r) ==
  \/ r = "mount" /\ (m \in mounted \/ Delayed(m))
  \/ r \in {"leave", "unmount", "force"} /\ m \notin mounted
  \/ r \in {"eject", "probe"}

Begin(m) ==
  /\ command[m] = "none" /\ todo[m] # <<>>
  /\ todo' = [todo EXCEPT ![m] = Tail(@)]
  /\ IF Idle(m, Head(todo[m]))
     THEN /\ owed' = IF Head(todo[m]) = "leave" THEN owed \ {m} ELSE owed
          /\ Signals
          /\ UNCHANGED command
     ELSE /\ command' = [command EXCEPT ![m] = Head(todo[m])]
          /\ UNCHANGED <<stageVars, owed>>
  /\ UNCHANGED <<kernelVars, diskVars, consoleVars, userVars, probed, staged, mounted,
                 mountedBy, excused>>

\* __DAMountWithArgumentsCallbackStage2.
MountDone(m, ok) ==
  /\ command[m] = "mount" /\ (ok => registry[m] # "gone")
  /\ mounted' = IF ok THEN mounted \cup {m} ELSE mounted
  /\ mountedBy' = IF ok /\ m \in Encrypted \cap Deferred
                  THEN [mountedBy EXCEPT ![m] = user] ELSE mountedBy
  /\ excused' = IF ~ok THEN excused \cup {m} ELSE IF users = {} THEN excused ELSE excused \ {m}
  /\ UNCHANGED owed

\* A volume is unmounted; or does not, for somebody uses it, or dissents.
UnmountDone(m, ok) ==
  /\ command[m] \in {"leave", "unmount", "force"}
  /\ mounted' = IF ok THEN mounted \ {m} ELSE mounted
  /\ excused' = IF ok /\ command[m] = "unmount" THEN excused \ {m} ELSE excused \cup {m}
  /\ owed' = owed \ {m}
  /\ UNCHANGED mountedBy

Done(m) ==
  /\ \E ok \in BOOLEAN : MountDone(m, ok) \/ UnmountDone(m, ok)
  /\ command' = [command EXCEPT ![m] = "none"]
  /\ Signals
  /\ UNCHANGED <<kernelVars, diskVars, consoleVars, userVars, probed, staged, todo>>

AtRest ==
  /\ \A m \in Medium : todo[m] = <<>> /\ command[m] = "none"
  /\ list \cap Volume \subseteq staged \cap probed

Pass == Dispatch(AtRest) /\ UNCHANGED <<consoleVars, userVars, volumeVars, ghosts>>

\* What the work loop does, and the commands.
Work ==
  \/ MediaAppeared /\ Follow(Appearances)
  \/ MediaDisappeared /\ Follow(Disappearances)
  \/ \E m \in Medium : HearsBusy(m) /\ Follow(Heard(m))
  \/ _DAConfigurationCallback \/ (\E u \in User : SystemUIServer(u))
  \/ \E m \in Volume : Probe(m) \/ StageMount(m)
  \/ \E m \in Medium : Begin(m) \/ Done(m)
  \/ Pass

Undisturbed == UNCHANGED <<consoleVars, userVars, volumeVars, ghosts>>
TimePasses == (\E m \in Medium : Overdue(m)) /\ Undisturbed
TimersFire == (\E m \in Medium : TimerFires(m)) /\ Undisturbed

Next == Work \/ TimePasses \/ TimersFire \/ (Kernel /\ Undisturbed) \/ Console

Spec == Init /\ [][Next]_vars

-----------------------------------------------------------------------------
(* Properties                                                              *)

\* Of two disks no two have a name in common; and when the daemon has taken all
\* news of media, its disks are the media that are there.  (Exception: a medium
\* that was registered again before it went, which _DAMediaAppearedCallback finds
\* after _DAMediaDisappearedCallback has dropped it.)
ListTrue ==
  /\ \A m, n \in list : idOf[m] = idOf[n] => m = n
  /\ matched = <<>> /\ ended = <<>> => list \ late = {m \in Medium \ late : registry[m] = "in"}

\* What is published before its device was calm for the first time is not taken
\* for a volume that was added later, which is not mounted (DAServer.c:1290).
EarlyComesUp == \A m \in skipped \cap early : registry[m] # "in"

\* When its work is done, the daemon has mounted the volumes that are deferred if
\* users are logged in, and has unmounted them if none is; and has mounted those
\* that are not.  (Exceptions: the last command of the volume failed, a logout
\* took it, the unit was calm before it, or software was being updated.)
DeferredFollowsUsers ==
  AtRest => \A m \in (list \cap Volume) \ (excused \cup late) :
              m \in mounted <=> (users # {} \/ m \notin Deferred \/ m \in NoDefer)

\* When its work is done after a logout, the daemon has unmounted the volumes on
\* the user's devices, and the encrypted ones mounted for the user, or has tried;
\* those too whose mount was not over.
LogoutUnmounts ==
  AtRest /\ ~configNews /\ (\A u \in User : session[u] # "leaving") => owed \cap mounted = {}

\* While the daemon is not idle it has something to do, or a timer is set: I/O Kit
\* cannot keep it waiting ("We do not allow I/O Kit to stay busy excessively").
LooksAgain == idle \/ signal \/ timers # {} \/ ~AtRest
=============================================================================
