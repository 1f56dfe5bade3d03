------------------------------- MODULE DAProbe -------------------------------
(***************************************************************************)
(* Probing a disk: DAProbe.c, the probe of DAFileSystem.c and its FSKit    *)
(* counterpart in DASupport.m, on the threads and child processes of       *)
(* DAWorker.                                                               *)
(*                                                                         *)
(* One candidate after the other is asked whether the volume is its own: a *)
(* file system bundle by three commands (recognize, get UUID, is clean), a *)
(* module of FSKit on a thread.  The modules are asked for, once, when no  *)
(* bundle recognized the volume.  An operation is named by its disk, which *)
(* has one at a time.                                                      *)
(***************************************************************************)
EXTENDS DAWorker, DALists, SequencesExt

CONSTANTS Candidate, NoCandidate,
          ProbeList, \* gDAFileSystemProbeList, in order of preference
          Modules,   \* what FSKit offers, without its own hfs and apfs
          Matches,   \* Matches[d]: the candidates whose media properties fit d
          Ntfs,      \* the candidates that are deferred
          Repairs,   \* the bundles with a repair command
          NoAuto,    \* the candidates with "autodiskmount" = FALSE
          Broken,    \* the bundles without a usable probe command
          Missing,   \* whether FSKit may be missing
          MaxProbe   \* how often a disk is probed

ASSUME ProbeAssumption ==
  /\ NoCandidate \notin Candidate
  /\ ProbeList \in Seq(Candidate) /\ Modules \in Seq(Candidate)
  /\ ToSet(ProbeList) \cap ToSet(Modules) = {}
  /\ Matches \in [Job -> SUBSET Candidate]
  /\ Ntfs \cup Repairs \cup Broken \subseteq ToSet(ProbeList)
  /\ NoAuto \subseteq Candidate /\ Missing \subseteq BOOLEAN /\ MaxProbe \in Nat

VARIABLES
  fskitMissing, \* gFSKitMissing
  probe,        \* probe[d]: the context of the probe of d
  automatic,    \* _kDADiskStateMountAutomatic and ...NoDefer
  answer,       \* answer[d]: what DAProbe's callback was called with
  calls,        \* calls[d]: how often it was
  probes        \* probes[d]: how often d was probed

probeVars == <<probe, automatic, answer, calls, probes>>
vars == <<workerVars, fskitMissing, probeVars>>

\* at: where the probe is; tried: the candidates asked so far (history);
\* modules: whether FSKit was asked for them, and gave any (history).
Context ==
  [at : {"idle", "recognize", "uuid", "clean", "fskit", "modules"},
   candidates : Seq(Candidate), deferred : Seq(Candidate),
   filesystem : Candidate \cup {NoCandidate}, tried : Seq(Candidate),
   modules : {"not yet", "none", "listed"}, blank : BOOLEAN]

NoContext == [at |-> "idle", candidates |-> <<>>, deferred |-> <<>>,
              filesystem |-> NoCandidate, tried |-> <<>>, modules |-> "not yet", blank |-> FALSE]

NoAnswer == [found |-> NoCandidate, clean |-> FALSE, context |-> NoContext]

ProbeTypeOK ==
  /\ WorkerTypeOK
  /\ fskitMissing \in BOOLEAN
  /\ probe     \in [Job -> Context]
  /\ automatic \in SUBSET Job
  /\ answer    \in [Job -> [found : Candidate \cup {NoCandidate}, clean : BOOLEAN,
                            context : Context]]
  /\ calls     \in [Job -> Nat]
  /\ probes    \in [Job -> Nat]

Init ==
  /\ WorkerInit
  /\ fskitMissing \in Missing
  /\ probe = [d \in Job |-> NoContext]
  /\ automatic = Job
  /\ answer = [d \in Job |-> NoAnswer]
  /\ calls = [d \in Job |-> 0]
  /\ probes = [d \in Job |-> 0]

-----------------------------------------------------------------------------
Fits(d, c) == c \in Matches[d]

\* The candidates that fit and are put off until the modules have been asked, and
\* those that are not.
PutOff(d, context) == IF context.modules = "not yet" THEN Matches[d] \cap Ntfs ELSE {}
InTurn(d, context) == Matches[d] \ PutOff(d, context)

\* What is run to ask c: a thread, a command whose output is captured, or
\* nothing at all, which calls back at once.
How(c) == CASE c \in ToSet(Modules) -> "thread"
            [] c \in Broken         -> "refused"
            [] OTHER                -> "pipe"

\* DAProbe's callback is called, once, and the context goes.
Answers(d, context, clean) ==
  /\ answer' = [answer EXCEPT ![d] =
                  [found |-> context.filesystem, clean |-> clean, context |-> context]]
  /\ calls' = [calls EXCEPT ![d] = @ + 1]
  /\ probe' = [probe EXCEPT ![d] = NoContext]

Goes(d, context) ==
  /\ probe' = [probe EXCEPT ![d] = context]
  /\ UNCHANGED <<answer, calls>>

\* The candidate asked next: the first that fits and is not put off.
Next1(d, context) ==
  SelectInSeq(context.candidates, LAMBDA c : c \in InTurn(d, context))

\* The candidates gone through to get there.
Passed(d, context) ==
  LET n == Next1(d, context)
  IN SubSeq(context.candidates, 1, IF n = 0 THEN Len(context.candidates) ELSE n)

\* After a failure the candidates are gone through, those to be put off are,
\* and one that is not to be mounted automatically makes its mark by fitting.
Proceed(d, context, how) ==
  LET n      == Next1(d, context)
      passed == Passed(d, context)
      rest   == [context EXCEPT
                   !.candidates = SubSeq(@, Len(passed) + 1, Len(@)),
                   !.deferred = @ \o Those(passed, PutOff(d, context)),
                   !.filesystem = NoCandidate]
  IN /\ automatic' = IF \E c \in ToSet(passed) : Fits(d, c) /\ c \in NoAuto
                     THEN automatic \ {d} ELSE automatic
     /\ \/ /\ n # 0
           /\ how = How(context.candidates[n])
           /\ Goes(d, [rest EXCEPT !.at = IF how = "thread" THEN "fskit" ELSE "recognize",
                                   !.filesystem = context.candidates[n],
                                   !.tried = Append(@, context.candidates[n])])
        \/ /\ n = 0 /\ context.modules = "not yet" /\ ~fskitMissing
           /\ how = "thread"
           /\ Goes(d, [rest EXCEPT !.at = "modules"])
        \/ /\ n = 0 /\ (context.modules # "not yet" \/ fskitMissing)
           /\ how = "nothing"
           /\ Answers(d, rest, FALSE)

\* A medium without size has no candidates among the bundles.
DAProbe(d, blank, how) ==
  /\ Free /\ probe[d].at = "idle" /\ probes[d] < MaxProbe
  /\ probes' = [probes EXCEPT ![d] = @ + 1]
  /\ Proceed(d, [NoContext EXCEPT !.candidates = IF blank THEN <<>> ELSE ProbeList,
                                  !.blank = blank], how)
  /\ Start(d, how)
  /\ UNCHANGED fskitMissing

\* The mutant forgets the candidates that were put off.
ListModulesAlone(context, listed) ==
  [context EXCEPT !.candidates = IF listed THEN Modules ELSE <<>>,
                  !.deferred = <<>>, !.modules = IF listed THEN "listed" ELSE "none"]

\* The modules are the candidates now, and after them those that were put off.
ListModules(context, listed) ==
  [context EXCEPT !.candidates = (IF listed THEN Modules ELSE <<>>) \o context.deferred,
                  !.deferred = <<>>, !.modules = IF listed THEN "listed" ELSE "none"]

Run(d, at, command, how) ==
  how = command /\ Goes(d, [probe[d] EXCEPT !.at = at]) /\ UNCHANGED automatic

Ends(d, clean, how) ==
  how = "nothing" /\ Answers(d, probe[d], clean) /\ UNCHANGED automatic

\* An exit status of 0, which is not FSUR_RECOGNIZED, is no failure either: the
\* probe ends without a UUID, and the volume has not been found clean.
RecognizeDone(d, ok, how) ==
  /\ probe[d].at = "recognize"
  /\ \/ ok /\ (Run(d, "uuid", "pipe", how) \/ Ends(d, FALSE, how))
     \/ ~ok /\ Proceed(d, probe[d], how)

\* A UUID may be missing; a bundle without a repair command is taken to be clean.
UUIDDone(d, how) ==
  /\ probe[d].at = "uuid"
  /\ IF probe[d].filesystem \in Repairs THEN Run(d, "clean", "command", how)
                                         ELSE Ends(d, TRUE, how)

CleanDone(d, ok, how) == probe[d].at = "clean" /\ Ends(d, ok, how)

\* The thread asked the module twice, and had it check the volume.
ModuleDone(d, ok, how) ==
  /\ probe[d].at = "fskit"
  /\ \/ ok /\ \E clean \in BOOLEAN : Ends(d, clean, how)
     \/ ~ok /\ Proceed(d, probe[d], how)

ModulesListed(d, ok, how) ==
  probe[d].at = "modules" /\ Proceed(d, ListModules(probe[d], ok), how)

Continues(d, ok, how) ==
  \/ RecognizeDone(d, ok, how) \/ UUIDDone(d, how) \/ CleanDone(d, ok, how)
  \/ ModuleDone(d, ok, how) \/ ModulesListed(d, ok, how)

\* A callback from a helper; one that could not be started has failed.
CallbackOf(d, ok, how) ==
  /\ Due(d)
  /\ Continues(d, ok, how)
  /\ CallsBack(d, how)
  /\ failed = d => ~ok
  /\ UNCHANGED <<fskitMissing, probes>>

Hows == {"nothing", "thread", "command", "pipe", "refused"}

Callbacks == \E d \in Job, ok \in BOOLEAN, how \in Hows : CallbackOf(d, ok, how)

Next ==
  \/ \E d \in Job, blank \in BOOLEAN, how \in Hows : DAProbe(d, blank, how)
  \/ Callbacks
  \/ (Helpers \/ Handlers) /\ UNCHANGED <<fskitMissing, probeVars>>

Spec == Init /\ [][Next]_vars

(* The work loop runs, threads and children end, and so do the processes   *)
(* that children leave behind.                                             *)
Fairness ==
  /\ WF_vars(Callbacks)
  /\ WF_vars(Handlers /\ UNCHANGED <<fskitMissing, probeVars>>)
  /\ \A t \in Thread :
       WF_vars((ThreadRuns(t) \/ ThreadExits(t)) /\ UNCHANGED <<fskitMissing, probeVars>>)
  /\ \A p \in Pid :
       WF_vars((\E l \in BOOLEAN : ChildExits(p, l)) /\ UNCHANGED <<fskitMissing, probeVars>>)
  /\ \A j \in Job : WF_vars(DescendantExits(j) /\ UNCHANGED <<fskitMissing, probeVars>>)

FairSpec == Spec /\ Fairness

-----------------------------------------------------------------------------
(* Properties                                                              *)

\* The order in which candidates are to be asked, as far as the context is: the
\* bundles that fit and are not put off, the modules, and those that were.
Bundles(d, context) == IF context.blank THEN <<>> ELSE Those(ProbeList, Matches[d])
Order(d, context) ==
  Those(Bundles(d, context), Candidate \ Ntfs)
    \o (IF context.modules = "listed" THEN Those(Modules, Matches[d]) ELSE <<>>)
    \o (IF context.modules # "not yet" THEN Those(Bundles(d, context), Ntfs) ELSE <<>>)

\* A volume is given to the first candidate that recognizes it, and is called
\* unrecognized only when every candidate that fits was asked: in the order of
\* preference, modules after bundles, and what was put off at the end.  (When
\* FSKit is missing what was put off is never asked.)
NothingSkipped ==
  /\ \A d \in Job : IsPrefix(probe[d].tried, Order(d, probe[d]))
  /\ \A d \in Job : calls[d] > 0 =>
       LET a == answer[d]
       IN /\ IF a.found = NoCandidate THEN a.context.tried = Order(d, a.context)
             ELSE IsPrefix(a.context.tried, Order(d, a.context)) /\ Last(a.context.tried) = a.found
          /\ a.found = NoCandidate => a.context.modules # "not yet" \/ fskitMissing

\* Every probe ends, so that the disk and its unit become free again.
ProbeEnds == \A d \in Job : probe[d].at # "idle" ~> probe[d].at = "idle"
=============================================================================
