------------------------------ MODULE DAWorker ------------------------------
(***************************************************************************)
(* The daemon's two kinds of helpers: threads (DAThread.c) and child       *)
(* processes (DACommand.c).  Both keep a list of jobs with callbacks, look *)
(* jobs up by an identifier that the system uses again (pthread_t, pid),   *)
(* learn of an end by a message that carries nothing, and call back on the *)
(* work loop.                                                              *)
(*                                                                         *)
(* What is run, and what the callbacks do, is up to the modules that build *)
(* on this one: each callback action has a parameter, the job it hands on. *)
(***************************************************************************)
EXTENDS Naturals, Sequences

CONSTANTS Job,    \* what can be handed over; one job at a time under each name
          Thread, \* thread identifiers
          Pid,    \* process identifiers
          NoJob

ASSUME WorkerAssumption == NoJob \notin Job

VARIABLES
  threadJobs,  \* __gDAThreadMachChannelJobs
  thread,      \* thread[t]: the thread with that identifier
  threadMail,  \* messages to the port of DAThread
  commandJobs, \* __gDACommandMachChannelJobs
  process,     \* process[p]: the child with that identifier
  lingering,   \* jobs whose pipe a descendant of the child holds open
  signal,      \* the dispatch source for SIGCHLD is due
  commandMail, \* messages to the port of DACommand
  loop,        \* which handler the work loop is in
  reaped,      \* the job whose child was waited for, until its callback
  failed       \* the job that could not be started, until its callback

threadVars  == <<threadJobs, thread, threadMail>>
commandVars == <<commandJobs, process, lingering, signal, commandMail, reaped>>
workerVars  == <<threadVars, commandVars, loop, failed>>

NoThread  == [at |-> "none", job |-> NoJob, runs |-> NoJob]
NoProcess == [at |-> "none", job |-> NoJob]

WorkerTypeOK ==
  /\ threadJobs  \in Seq([job : Job, thread : Thread, exited : BOOLEAN])
  /\ thread      \in [Thread -> [at : {"none", "created", "running", "exited"},
                                 job : Job \cup {NoJob}, runs : Job \cup {NoJob}]]
  /\ threadMail  \in Nat
  /\ commandJobs \in Seq([job : Job, pid : Pid, piped : BOOLEAN])
  /\ process     \in [Pid -> [at : {"none", "running", "exited"}, job : Job \cup {NoJob}]]
  /\ lingering   \in SUBSET Job
  /\ signal      \in BOOLEAN
  /\ commandMail \in Nat
  /\ loop        \in {"free", "threads", "commands"}
  /\ reaped      \in Job \cup {NoJob}
  /\ failed      \in Job \cup {NoJob}

ThreadInit ==
  threadJobs = <<>> /\ thread = [t \in Thread |-> NoThread] /\ threadMail = 0

CommandInit ==
  /\ commandJobs = <<>> /\ process = [p \in Pid |-> NoProcess]
  /\ lingering = {} /\ signal = FALSE /\ commandMail = 0 /\ reaped = NoJob

WorkerInit == ThreadInit /\ CommandInit /\ loop = "free" /\ failed = NoJob

Without(s, i) == SubSeq(s, 1, i - 1) \o SubSeq(s, i + 1, Len(s))

-----------------------------------------------------------------------------
(* Handing a job over.  TJ and CJ are the lists as the caller left them.    *)

\* The mutant appends the job to the list.
ThreadExecuteLast(j, TJ, CJ) ==
  \E t \in Thread :
    /\ thread[t] = NoThread
    /\ thread' = [thread EXCEPT ![t] = [at |-> "created", job |-> j, runs |-> NoJob]]
    /\ threadJobs' = Append(TJ, [job |-> j, thread |-> t, exited |-> FALSE])
    /\ commandJobs' = CJ /\ failed' = NoJob
    /\ UNCHANGED process

\* The thread cannot look for its job before the lock is released.
ThreadExecute(j, TJ, CJ) ==
  \E t \in Thread :
    /\ thread[t] = NoThread
    /\ thread' = [thread EXCEPT ![t] = [at |-> "created", job |-> j, runs |-> NoJob]]
    /\ threadJobs' = <<[job |-> j, thread |-> t, exited |-> FALSE]>> \o TJ
    /\ commandJobs' = CJ /\ failed' = NoJob
    /\ UNCHANGED process

CommandExecute(j, piped, TJ, CJ) ==
  \E p \in Pid :
    /\ process[p] = NoProcess
    /\ process' = [process EXCEPT ![p] = [at |-> "running", job |-> j]]
    /\ commandJobs' = <<[job |-> j, pid |-> p, piped |-> piped]>> \o CJ
    /\ threadJobs' = TJ /\ failed' = NoJob
    /\ UNCHANGED thread

\* No thread, process, pipe or argument list: the callback is called at once.
Refused(j, TJ, CJ) ==
  /\ failed' = j /\ threadJobs' = TJ /\ commandJobs' = CJ
  /\ UNCHANGED <<thread, process>>

\* What a caller does next about j: nothing, a thread, or a command with or
\* without its output captured.
HandOver(j, how, TJ, CJ) ==
  \/ /\ how = "nothing"
     /\ failed' = NoJob /\ threadJobs' = TJ /\ commandJobs' = CJ
     /\ UNCHANGED <<thread, process>>
  \/ how = "thread" /\ ThreadExecute(j, TJ, CJ)
  \/ how = "command" /\ CommandExecute(j, FALSE, TJ, CJ)
  \/ how = "pipe" /\ CommandExecute(j, TRUE, TJ, CJ)
  \/ how # "nothing" /\ Refused(j, TJ, CJ)

Free == loop = "free" /\ failed = NoJob

Start(j, how) ==
  /\ Free
  /\ HandOver(j, how, threadJobs, commandJobs)
  /\ UNCHANGED <<threadMail, lingering, signal, commandMail, loop, reaped>>

-----------------------------------------------------------------------------
(* Threads                                                                 *)

\* The thread takes the first job with its identifier.
ThreadRuns(t) ==
  /\ thread[t].at = "created"
  /\ \E i \in DOMAIN threadJobs :
       /\ threadJobs[i].thread = t
       /\ \A k \in 1 .. i - 1 : threadJobs[k].thread # t
       /\ thread' = [thread EXCEPT ![t].at = "running", ![t].runs = threadJobs[i].job]
  /\ UNCHANGED <<threadJobs, threadMail, commandVars, loop, failed>>

\* The mutant sends the message before it marks the job.
ThreadExitsAfterTelling(t) ==
  \/ /\ thread[t].at = "running"
     /\ thread' = [thread EXCEPT ![t].at = "exited"]
     /\ threadMail' = threadMail + 1
     /\ UNCHANGED <<threadJobs, commandVars, loop, failed>>
  \/ /\ thread[t].at = "exited"
     /\ threadJobs' = [i \in DOMAIN threadJobs |->
          IF threadJobs[i].job = thread[t].runs THEN [threadJobs[i] EXCEPT !.exited = TRUE]
                                                ELSE threadJobs[i]]
     /\ thread' = [thread EXCEPT ![t] = NoThread]
     /\ UNCHANGED <<threadMail, commandVars, loop, failed>>

\* The function returns and the job is marked; then the message is sent, and
\* the identifier may be used again.
ThreadExits(t) ==
  \/ /\ thread[t].at = "running"
     /\ threadJobs' = [i \in DOMAIN threadJobs |->
          IF threadJobs[i].job = thread[t].runs THEN [threadJobs[i] EXCEPT !.exited = TRUE]
                                                ELSE threadJobs[i]]
     /\ thread' = [thread EXCEPT ![t].at = "exited"]
     /\ UNCHANGED <<threadMail, commandVars, loop, failed>>
  \/ /\ thread[t].at = "exited"
     /\ threadMail' = threadMail + 1
     /\ thread' = [thread EXCEPT ![t] = NoThread]
     /\ UNCHANGED <<threadJobs, commandVars, loop, failed>>

ThreadHandlerBegins ==
  /\ Free /\ threadMail > 0
  /\ threadMail' = threadMail - 1
  /\ loop' = "threads"
  /\ UNCHANGED <<threadJobs, thread, commandVars, failed>>

\* The mutant takes the first job on the list.
ThreadCallsBackEarly(j, how) ==
  /\ loop = "threads" /\ failed = NoJob
  /\ \E i \in DOMAIN threadJobs :
       /\ i = 1 /\ threadJobs[i].job = j
       /\ HandOver(j, how, Without(threadJobs, i), commandJobs)
  /\ UNCHANGED <<threadMail, lingering, signal, commandMail, loop, reaped>>

\* The first job that has exited leaves the list and is called back.
ThreadCallsBack(j, how) ==
  /\ loop = "threads" /\ failed = NoJob
  /\ \E i \in DOMAIN threadJobs :
       /\ threadJobs[i].exited /\ threadJobs[i].job = j
       /\ \A k \in 1 .. i - 1 : ~threadJobs[k].exited
       /\ HandOver(j, how, Without(threadJobs, i), commandJobs)
  /\ UNCHANGED <<threadMail, lingering, signal, commandMail, loop, reaped>>

ThreadHandlerEnds ==
  /\ loop = "threads" /\ failed = NoJob
  /\ \A i \in DOMAIN threadJobs : ~threadJobs[i].exited
  /\ loop' = "free"
  /\ UNCHANGED <<threadVars, commandVars, failed>>

-----------------------------------------------------------------------------
(* Child processes                                                         *)

\* A child may leave behind a process that keeps its output open.
ChildExits(p, lingers) ==
  /\ process[p].at = "running"
  /\ lingers => \E i \in DOMAIN commandJobs : commandJobs[i].pid = p /\ commandJobs[i].piped
  /\ process' = [process EXCEPT ![p].at = "exited"]
  /\ lingering' = IF lingers THEN lingering \cup {process[p].job} ELSE lingering
  /\ signal' = TRUE
  /\ UNCHANGED <<threadVars, commandJobs, commandMail, reaped, loop, failed>>

DescendantExits(j) ==
  /\ j \in lingering
  /\ lingering' = lingering \ {j}
  /\ UNCHANGED <<threadVars, commandJobs, process, signal, commandMail, reaped, loop, failed>>

\* __DACommandSignal.  Signals that come together are one event.
SignalIsServed ==
  /\ Free /\ signal
  /\ signal' = FALSE
  /\ commandMail' = commandMail + 1
  /\ UNCHANGED <<threadVars, commandJobs, process, lingering, reaped, loop, failed>>

CommandHandlerBegins ==
  /\ Free /\ commandMail > 0
  /\ commandMail' = commandMail - 1
  /\ loop' = "commands"
  /\ UNCHANGED <<threadVars, commandJobs, process, lingering, signal, reaped, failed>>

\* waitpid, and the first job with this identifier leaves the list.
WaitPid(p) ==
  /\ loop = "commands" /\ reaped = NoJob /\ failed = NoJob
  /\ process[p].at = "exited"
  /\ process' = [process EXCEPT ![p] = NoProcess]
  /\ \E i \in DOMAIN commandJobs :
       /\ commandJobs[i].pid = p
       /\ \A k \in 1 .. i - 1 : commandJobs[k].pid # p
       /\ commandJobs' = Without(commandJobs, i)
       /\ reaped' = commandJobs[i].job
  /\ UNCHANGED <<threadVars, lingering, signal, commandMail, loop, failed>>

\* Called back once the pipe has been read to its end, which blocks the loop
\* while somebody keeps it open.
CommandCallsBack(j, how) ==
  /\ loop = "commands" /\ reaped = j /\ failed = NoJob
  /\ j \notin lingering
  /\ HandOver(j, how, threadJobs, commandJobs)
  /\ reaped' = NoJob
  /\ UNCHANGED <<threadMail, lingering, signal, commandMail, loop>>

\* The mutant leaves after the first child.
CommandHandlerEndsEarly ==
  /\ loop = "commands" /\ reaped = NoJob /\ failed = NoJob
  /\ loop' = "free"
  /\ UNCHANGED <<threadVars, commandVars, failed>>

CommandHandlerEnds ==
  /\ loop = "commands" /\ reaped = NoJob /\ failed = NoJob
  /\ \A p \in Pid : process[p].at # "exited"
  /\ loop' = "free"
  /\ UNCHANGED <<threadVars, commandVars, failed>>

FailureCallsBack(j, how) ==
  /\ failed = j
  /\ HandOver(j, how, threadJobs, commandJobs)
  /\ UNCHANGED <<threadMail, lingering, signal, commandMail, loop, reaped>>

\* A callback of j may be due.
Due(j) == \/ failed = j
          \/ failed = NoJob /\ reaped = j
          \/ failed = NoJob /\ loop = "threads"
             /\ \E i \in DOMAIN threadJobs : threadJobs[i].job = j

CallsBack(j, how) ==
  ThreadCallsBack(j, how) \/ CommandCallsBack(j, how) \/ FailureCallsBack(j, how)

\* What helpers and handlers do by themselves.
Helpers ==
  \/ \E t \in Thread : ThreadRuns(t) \/ ThreadExits(t)
  \/ \E p \in Pid, lingers \in BOOLEAN : ChildExits(p, lingers)
  \/ \E j \in Job : DescendantExits(j)

Handlers ==
  \/ ThreadHandlerBegins \/ ThreadHandlerEnds
  \/ SignalIsServed \/ CommandHandlerBegins \/ CommandHandlerEnds
  \/ \E p \in Pid : WaitPid(p)

-----------------------------------------------------------------------------
(* Properties                                                              *)

\* The jobs that have not been called back; those that only wait for it.
InList == {threadJobs[i].job : i \in DOMAIN threadJobs} \cup
          {commandJobs[i].job : i \in DOMAIN commandJobs}
Pending == InList \cup ({reaped, failed} \ {NoJob})
Ended ==
  {j \in Pending :
     \/ j \in {reaped, failed}
     \/ \E i \in DOMAIN threadJobs : threadJobs[i].job = j /\ threadJobs[i].exited
     \/ \E p \in Pid : process[p].at = "exited" /\ process[p].job = j}

\* DAThreadExecute and DACommandExecute keep their promise: a callback comes
\* after the end of the job, once.
Work == INSTANCE DAWork WITH pending <- Pending, ended <- Ended
KeepsPromise == Work!Spec

\* A thread runs the function it was created for, though an older job with the
\* same identifier may still be on the list; no function runs on two threads;
\* and the job that is found by a child's identifier is that child's.
RunsOwnJob ==
  /\ \A t \in Thread : thread[t].runs \in {NoJob, thread[t].job}
  /\ \A t, u \in Thread :
       thread[t].at = "running" /\ thread[u].at = "running" /\ thread[t].runs = thread[u].runs
       => t = u
  /\ \A i \in DOMAIN commandJobs : process[commandJobs[i].pid].job = commandJobs[i].job

\* No end goes unnoticed: while a job that has ended is on a list, its handler
\* is at work, or a message or a signal will start it.
NoEndMissed ==
  /\ (\E i \in DOMAIN threadJobs : threadJobs[i].exited) =>
       loop = "threads" \/ threadMail > 0 \/ \E t \in Thread : thread[t].at = "exited"
  /\ (\E p \in Pid : process[p].at = "exited") =>
       loop = "commands" \/ commandMail > 0 \/ signal
=============================================================================
