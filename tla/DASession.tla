------------------------------ MODULE DASession ------------------------------
(***************************************************************************)
(* A client's session: the framework's side (DiskArbitration/DASession.c   *)
(* and the callback plumbing of DiskArbitration.c), the daemon's side      *)
(* (diskarbitrationd/DASession.c and the session calls of DAServer.c), and *)
(* the two Mach ports between them.                                        *)
(*                                                                         *)
(* The daemon appends callbacks to the session's queue and wakes the client*)
(* with one empty message to a port that holds one message.  The client    *)
(* copies the whole queue and calls back one by one.  Functions stay in the*)
(* client's register; daemon and messages know them by a key.  When the    *)
(* daemon exits the client is told; with keep-alive it makes a new session *)
(* when the daemon is launched again or at its next call, whichever is     *)
(* first.                                                                  *)
(*                                                                         *)
(* The client's threads call the framework at any time; the session is     *)
(* scheduled on a serial queue, which is one of them.  Calls are atomic    *)
(* between the places where they take the lock or talk to the daemon.      *)
(***************************************************************************)
EXTENDS Naturals, Sequences, FiniteSets

CONSTANTS Thread,     \* the client's threads that call the framework
          Queue,      \* the serial queue the session is scheduled on
          Callback,   \* the client's functions with their contexts
          kindOf,     \* kindOf[c]: "event", "question" or "request"
          None,
          MaxMade,    \* registrations and requests the client makes
          MaxEntry,   \* callbacks the daemon queues
          MaxSession, \* sessions it creates for this client
          MaxPort,    \* times it schedules the session
          MaxExit     \* times the daemon exits

ASSUME ConstantAssumption ==
  /\ Queue \in Thread
  /\ kindOf \in [Callback -> {"event", "question", "request"}]
  /\ MaxMade \in Nat /\ MaxEntry \in Nat /\ MaxExit \in Nat
  /\ MaxSession \in Nat \ {0} /\ MaxPort \in Nat

VARIABLES
  up,         \* the daemon runs
  live,       \* gDASessionList: the sessions of this client at the daemon
  known,      \* known[s]: the register of session s
  queue,      \* queue[s]: its callback queue
  client,     \* client[s]: the port its messages go to, 0 if there is none
  asked,      \* asked[s]: the requests that are to be answered
  mail,       \* mail[s]: messages sent to s that expect no reply
  server,     \* the client's session->_server, 0 for MACH_PORT_NULL
  keepAlive,  \* session->_keepAlive
  register,   \* session->_register
  index,      \* session->_registerIndex
  port,       \* the client port and the messages in it
  notice,     \* the daemon's launch has been posted and not delivered
  call,       \* call[t]: the call of the framework t is in
  received,   \* the wake-up was received and the queue not copied yet
  batch,      \* the callbacks copied and not called yet
  turn,       \* the callback that runs
  made, entries, established, exits, \* counters: registrations, calls of the
              \* daemon, sessions, exits
  heard,      \* heard[r]: how often request r was called back
  overlapped  \* calls of two threads have overlapped

daemonVars  == <<up, live, established, exits>>
serverVars  == <<known, queue, client, asked>>
clientVars  == <<server, keepAlive, register, index, notice>>
runVars     == <<received, batch, turn>>
historyVars == <<made, entries, heard, overlapped>>
vars == <<daemonVars, serverVars, mail, clientVars, port, call, runVars, historyVars>>

Session == 1 .. MaxSession
Key     == 1 .. MaxMade
Port    == 0 .. MaxPort + MaxSession  \* 0 stands for none
Kind    == {"event", "question", "request"}

(* What the daemon knows of a function: its key, the kind of call, and (for *)
(* the properties only) the number of the registration it stands for.       *)
Entry   == [key : Key, kind : Kind, reg : Key]
Record  == [callback : Callback, reg : Key]
Mail    == [op : {"port", "unregister", "response"}, arg : Nat]
Nothing == [op |-> "none", at |-> "none", callback |-> None, reg |-> 0, key |-> 0,
            left |-> 0]
Call    == [op : {"register", "unregister", "respond", "relaunched"},
            at : {"establish", "schedule", "again", "edit", "drop", "send"},
            callback : Callback \cup {None}, reg : 0 .. MaxMade, key : 0 .. MaxMade,
            left : 0 .. MaxMade]

ASSUME NoneAssumption ==
  None \notin Callback /\ None \notin Record /\ None \notin [entry : Entry, called : Record]

TypeOK ==
  /\ up \in BOOLEAN /\ live \in SUBSET Session
  /\ known  \in [Session -> Seq(Entry)]
  /\ queue  \in [Session -> Seq(Entry)]
  /\ client \in [Session -> Port]
  /\ asked  \in [Session -> SUBSET Entry]
  /\ mail   \in [Session -> Seq(Mail)]
  /\ server \in Session \cup {0}
  /\ keepAlive \in BOOLEAN /\ notice \in BOOLEAN
  /\ register \in [Key -> Record \cup {None}]
  /\ index \in 0 .. MaxMade
  /\ port \in [id : Port, open : BOOLEAN, wake : BOOLEAN, gone : BOOLEAN]
  /\ call \in [Thread -> Call \cup {Nothing}]
  /\ received \in BOOLEAN /\ batch \in Seq(Entry)
  /\ turn \in [entry : Entry, called : Record] \cup {None}
  /\ made \in 0 .. MaxMade /\ entries \in 0 .. MaxEntry
  /\ established \in Session /\ exits \in 0 .. MaxExit
  /\ heard \in [Key -> Nat]
  /\ overlapped \in BOOLEAN

(* The client has created its session (DASessionCreate) and not scheduled it.*)
Init ==
  /\ up = TRUE /\ live = {1} /\ established = 1 /\ exits = 0
  /\ known  = [s \in Session |-> <<>>]
  /\ queue  = [s \in Session |-> <<>>]
  /\ client = [s \in Session |-> 0]
  /\ asked  = [s \in Session |-> {}]
  /\ mail   = [s \in Session |-> <<>>]
  /\ server = 1 /\ keepAlive = FALSE /\ notice = FALSE
  /\ register = [k \in Key |-> None] /\ index = 0
  /\ port = [id |-> 0, open |-> FALSE, wake |-> FALSE, gone |-> FALSE]
  /\ call = [t \in Thread |-> Nothing]
  /\ received = FALSE /\ batch = <<>> /\ turn = None
  /\ made = 0 /\ entries = 0
  /\ heard = [r \in Key |-> 0] /\ overlapped = FALSE

-----------------------------------------------------------------------------
(* Messages.                                                                *)

(* A call that waits for its reply is served after the messages sent before *)
(* it; it fails if the session is gone.                                     *)
Answers(s) == s \in live /\ mail[s] = <<>>
Returns(s) == s \in live => mail[s] = <<>>

Post(s, m) == mail' = IF s \in live THEN [mail EXCEPT ![s] = Append(@, m)] ELSE mail

(* The one message that says that the queue is not empty.  It is dropped if *)
(* the port is full, and lost if the client has replaced the port.          *)
Wake(p) ==
  port' = IF p # 0 /\ p = port.id /\ port.open /\ ~port.gone
          THEN [port EXCEPT !.wake = TRUE] ELSE port

(* DASessionQueueCallback: the client is woken for the first entry only.    *)
QueueCallback(s, e) ==
  /\ queue' = [queue EXCEPT ![s] = Append(@, e)]
  /\ Wake(IF queue[s] = <<>> THEN client[s] ELSE 0)

Without(q, k) ==
  LET kept[n \in 0 .. Len(q)] ==
        IF n = 0 THEN <<>>
        ELSE IF q[n].key # k THEN Append(kept[n - 1], q[n]) ELSE kept[n - 1]
  IN kept[Len(q)]

-----------------------------------------------------------------------------
(* The daemon.                                                              *)

(* A callback of an event or a question is due.                             *)
DaemonCalls(s) ==
  /\ s \in live /\ entries < MaxEntry
  /\ entries' = entries + 1
  /\ \E i \in DOMAIN known[s] : QueueCallback(s, known[s][i])
  /\ UNCHANGED <<daemonVars, known, client, asked, mail, clientVars, call, runVars,
                 made, heard, overlapped>>

(* The mutant keeps the request.                                            *)
DaemonRepliesAgain(s) ==
  /\ s \in live
  /\ \E e \in asked[s] : QueueCallback(s, e)
  /\ UNCHANGED <<daemonVars, known, client, asked, mail, clientVars, call, runVars, historyVars>>

(* A request has been carried out.                                          *)
DaemonReplies(s) ==
  /\ s \in live
  /\ \E e \in asked[s] : QueueCallback(s, e) /\ asked' = [asked EXCEPT ![s] = @ \ {e}]
  /\ UNCHANGED <<daemonVars, known, client, mail, clientVars, call, runVars,
                 historyVars>>

(* The mutant leaves it to the next callback to wake the client.            *)
SetClientPortQuietly(s, p) ==
  /\ client' = [client EXCEPT ![s] = p]
  /\ UNCHANGED <<known, queue, asked, port>>

(* DASessionSetClientPort: the old port is let go; if callbacks wait the    *)
(* client is woken through the new one.                                     *)
SetClientPort(s, p) ==
  /\ client' = [client EXCEPT ![s] = p]
  /\ Wake(IF queue[s] = <<>> THEN 0 ELSE p)
  /\ UNCHANGED <<known, queue, asked>>

(* DASessionUnregisterCallback.                                             *)
UnregisterCallback(s, k) ==
  /\ known' = [known EXCEPT ![s] = Without(@, k)]
  /\ queue' = [queue EXCEPT ![s] = IF @ = <<>> THEN @ ELSE Without(@, k)]
  /\ UNCHANGED <<client, asked, port>>

DaemonReads(s) ==
  /\ s \in live /\ mail[s] # <<>>
  /\ LET m == Head(mail[s])
     IN \/ m.op = "port" /\ SetClientPort(s, m.arg)
        \/ m.op = "unregister" /\ UnregisterCallback(s, m.arg)
        \/ m.op = "response" /\ UNCHANGED <<serverVars, port>>
  /\ mail' = [mail EXCEPT ![s] = Tail(@)]
  /\ UNCHANGED <<daemonVars, clientVars, call, runVars, historyVars>>

(* The daemon exits.  The kernel tells a client whose port it held, or would *)
(* have received, that nobody will send to it any more.                     *)
Held(p) ==
  \E s \in live : client[s] = p \/ \E i \in DOMAIN mail[s] : mail[s][i] = [op |-> "port", arg |-> p]

DaemonExits ==
  /\ up /\ exits < MaxExit
  /\ up' = FALSE /\ live' = {} /\ exits' = exits + 1
  /\ known'  = [s \in Session |-> <<>>]
  /\ queue'  = [s \in Session |-> <<>>]
  /\ client' = [s \in Session |-> 0]
  /\ asked'  = [s \in Session |-> {}]
  /\ mail'   = [s \in Session |-> <<>>]
  /\ port' = IF port.open /\ Held(port.id) THEN [port EXCEPT !.gone = TRUE] ELSE port
  /\ UNCHANGED <<established, clientVars, call, runVars, historyVars>>

(* launchd launches it again, and it posts that it was launched.            *)
DaemonLaunches ==
  /\ ~up
  /\ up' = TRUE
  /\ notice' = keepAlive
  /\ UNCHANGED <<live, established, exits, serverVars, mail, server, keepAlive, register,
                 index, port, call, runVars, historyVars>>

-----------------------------------------------------------------------------
(* The client's calls.                                                      *)

Busy(t)  == call[t] # Nothing
Free(t)  == ~Busy(t) /\ (t = Queue => ~received /\ (batch = <<>> \/ turn # None))
Used     == {k \in Key : register[k] # None}

(* Calls that edit the session while another thread is in one.              *)
Overlaps(t) == overlapped' = (overlapped \/ \E u \in Thread \ {t} : Busy(u))

(* Every call makes a new session first if the daemon has exited and the    *)
(* session is to be kept alive.                                             *)
Enter(t, op, c, r) ==
  /\ call' = [call EXCEPT ![t] =
       [op |-> op, at |-> IF server = 0 /\ keepAlive THEN "establish" ELSE
                          IF op = "respond" THEN "send" ELSE "edit",
        callback |-> c, reg |-> r, key |-> 0, left |-> 0]]
  /\ Overlaps(t)

(* _DARegisterCallback, and __DAQueueRequest for a request.                 *)
Register(t, c) ==
  /\ Free(t) /\ made < MaxMade
  /\ made' = made + 1
  /\ Enter(t, "register", c, made + 1)
  /\ UNCHANGED <<daemonVars, serverVars, mail, clientVars, port, runVars, entries, heard>>

(* _DAUnregisterCallback.                                                   *)
Unregister(t, c) ==
  /\ Free(t) /\ kindOf[c] # "request"
  /\ \E k \in Used : register[k].callback = c
  /\ Enter(t, "unregister", c, 0)
  /\ UNCHANGED <<daemonVars, serverVars, mail, clientVars, port, runVars, made, entries,
                 heard>>

(* The call returns.  A request that could not be queued is called back by  *)
(* the call itself.                                                         *)
Fails(t) == call[t].op = "register" /\ kindOf[call[t].callback] = "request"
Return(t, failed) ==
  /\ call' = [call EXCEPT ![t] = Nothing]
  /\ heard' = IF failed /\ Fails(t) THEN [heard EXCEPT ![call[t].reg] = @ + 1] ELSE heard

(* DASessionSetDispatchQueue: a new port takes the place of the old one,    *)
(* whose messages are lost, and is sent to the daemon.                      *)
NewPort == [id |-> port.id + 1, open |-> TRUE, wake |-> FALSE, gone |-> FALSE]

SetDispatchQueue(t) ==
  /\ Free(t) /\ port.id < MaxPort
  /\ port' = NewPort
  /\ Post(server, [op |-> "port", arg |-> port.id + 1])
  /\ UNCHANGED <<daemonVars, serverVars, clientVars, call, runVars, historyVars>>

(* The session is taken off its queue.                                      *)
Unschedule(t) ==
  /\ Free(t) /\ port.open
  /\ port' = [port EXCEPT !.open = FALSE]
  /\ UNCHANGED <<daemonVars, serverVars, mail, clientVars, call, runVars, historyVars>>

DASessionKeepAlive(t) ==
  /\ Free(t) /\ ~keepAlive /\ Returns(server)
  /\ keepAlive' = TRUE
  /\ UNCHANGED <<daemonVars, serverVars, mail, server, register, index, notice, port, call,
                 runVars, historyVars>>

(* _DASessionRecreate, DASessionEstablish: a session is made; the call waits *)
(* for the daemon to be launched.                                           *)
Establish(t) ==
  /\ call[t].at = "establish" /\ up
  /\ established < MaxSession
  /\ established' = established + 1
  /\ live' = live \cup {established + 1}
  /\ server' = established + 1
  /\ call' = [call EXCEPT ![t] = [@ EXCEPT !.at = "schedule"]]
  /\ UNCHANGED <<up, exits, serverVars, mail, keepAlive, register, index, notice, port, runVars,
                 historyVars>>

(* The mutant counts one too few.                                           *)
CountShort == IF Used = {} THEN 0 ELSE Cardinality(Used) - 1

Count == Cardinality(Used)

(* It is scheduled on the queue, and the register is gone through with      *)
(* growing keys until as many entries were found as there are now.          *)
Schedule(t) ==
  /\ call[t].at = "schedule"
  /\ port' = NewPort
  /\ Post(server, [op |-> "port", arg |-> port.id + 1])
  /\ call' = [call EXCEPT ![t] = [@ EXCEPT !.at = "again", !.key = 0, !.left = Count]]
  /\ UNCHANGED <<daemonVars, serverVars, clientVars, runVars, historyVars>>

(* The mutant numbers the entries anew.                                     *)
EntryAnew(k) == [key |-> Cardinality({j \in Used : j <= k}), kind |-> kindOf[register[k].callback],
                 reg |-> register[k].reg]

EntryOf(k) == [key |-> k, kind |-> kindOf[register[k].callback], reg |-> register[k].reg]

(* Each is registered under its old key; the daemon refuses requests.  With *)
(* fewer entries left than were counted the loop does not end.              *)
Again(t) ==
  /\ call[t].at = "again" /\ call[t].left > 0
  /\ Returns(server)
  /\ \E k \in Used :
       /\ k > call[t].key /\ \A j \in Used : j > call[t].key => j >= k
       /\ call' = [call EXCEPT ![t] = [@ EXCEPT !.key = k, !.left = call[t].left - 1]]
       /\ known' = IF server \in live /\ EntryOf(k).kind # "request"
                   THEN [known EXCEPT ![server] = Append(@, EntryOf(k))] ELSE known
  /\ UNCHANGED <<daemonVars, queue, client, asked, mail, clientVars, port, runVars,
                 historyVars>>

(* _DAServerSessionSetKeepAlive ends it, and the call goes on; if the daemon*)
(* exits before it replies, also to the first message, the call fails.      *)
Recreated(t) ==
  /\ \/ call[t].at = "again" /\ call[t].left = 0 /\ Returns(server)
     \/ call[t].at = "establish" /\ ~up
  /\ IF ~up \/ server \notin live \/ call[t].op = "relaunched"
     THEN Return(t, TRUE)
     ELSE /\ call' = [call EXCEPT ![t] =
                [@ EXCEPT !.at = IF call[t].op = "respond" THEN "send" ELSE "edit", !.key = 0]]
          /\ UNCHANGED heard
  /\ UNCHANGED <<daemonVars, serverVars, mail, clientVars, port, runVars, made, entries,
                 overlapped>>

(* The mutant takes the next key.                                           *)
NextKeyBlindly == index + 1

(* DAAddCallbackToSession: the next key that is not in use.                 *)
NextKey == CHOOSE k \in Key : /\ k > index /\ register[k] = None
                              /\ \A j \in Key : j > index /\ register[j] = None => k <= j

Add(t) ==
  /\ call[t].op = "register" /\ call[t].at = "edit"
  /\ register' = [register EXCEPT ![NextKey] = [callback |-> call[t].callback, reg |-> call[t].reg]]
  /\ index' = NextKey
  /\ call' = [call EXCEPT ![t] = [@ EXCEPT !.at = "send", !.key = NextKey]]
  /\ UNCHANGED <<daemonVars, serverVars, mail, server, keepAlive, notice, port, runVars,
                 historyVars>>

(* The daemon registers it, and may call it at once: a disk has appeared    *)
(* already, or the daemon is idle.  Or it queues, or refuses, the request.  *)
SendRegister(t) ==
  LET c == call[t]
      e == [key |-> c.key, kind |-> kindOf[c.callback], reg |-> c.reg]
  IN /\ c.op = "register" /\ c.at = "send" /\ Returns(server)
     /\ \/ /\ server \in live /\ e.kind # "request"
           /\ known' = [known EXCEPT ![server] = Append(@, e)]
           /\ \/ /\ entries < MaxEntry /\ entries' = entries + 1
                 /\ QueueCallback(server, e)
              \/ UNCHANGED <<entries, queue, port>>
           /\ Return(t, FALSE) /\ UNCHANGED asked
        \/ /\ server \in live /\ e.kind = "request"
           /\ asked' = [asked EXCEPT ![server] = @ \cup {e}]
           /\ Return(t, FALSE) /\ UNCHANGED <<known, entries, queue, port>>
        \/ /\ server \in live => e.kind = "request"
           /\ Return(t, TRUE)
           /\ UNCHANGED <<known, asked, entries, queue, port>>
     /\ UNCHANGED <<daemonVars, client, mail, clientVars, runVars, made, overlapped>>

(* DARemoveCallbackFromSession: the lock is let go between the search, which*)
(* finds any of several entries of that function, and the removal.          *)
Find(t) ==
  /\ call[t].op = "unregister" /\ call[t].at = "edit"
  /\ LET found == {k \in Used : register[k].callback = call[t].callback}
     IN \/ \E k \in found :
             call' = [call EXCEPT ![t] = [@ EXCEPT !.at = "drop", !.key = k]]
        \/ found = {} /\ call' = [call EXCEPT ![t] = [@ EXCEPT !.at = "send"]]
  /\ UNCHANGED <<daemonVars, serverVars, mail, clientVars, port, runVars, historyVars>>

(* The key will be the next one to be given out.                            *)
RemoveKey(k) == /\ register' = [register EXCEPT ![k] = None]
                /\ index' = k - 1

Drop(t) ==
  /\ call[t].op = "unregister" /\ call[t].at = "drop"
  /\ RemoveKey(call[t].key)
  /\ call' = [call EXCEPT ![t] = [@ EXCEPT !.at = "send"]]
  /\ UNCHANGED <<daemonVars, serverVars, mail, server, keepAlive, notice, port, runVars,
                 historyVars>>

(* What expects no reply is posted.                                         *)
Send(t) ==
  /\ call[t].op \in {"unregister", "respond"} /\ call[t].at = "send"
  /\ Post(server, [op  |-> IF call[t].op = "respond" THEN "response" ELSE "unregister",
                   arg |-> call[t].key])
  /\ Return(t, FALSE)
  /\ UNCHANGED <<daemonVars, serverVars, clientVars, port, runVars, made, entries, overlapped>>

Proceed(t) ==
  \/ Establish(t) \/ Schedule(t) \/ Again(t) \/ Recreated(t)
  \/ Add(t) \/ SendRegister(t) \/ Find(t) \/ Drop(t) \/ Send(t)

-----------------------------------------------------------------------------
(* The client's queue.  The event handler receives one message each time.   *)

AtRest == ~Busy(Queue) /\ turn = None /\ batch = <<>> /\ ~received

Receive ==
  /\ AtRest /\ port.open /\ port.wake
  /\ port' = [port EXCEPT !.wake = FALSE]
  /\ received' = TRUE
  /\ UNCHANGED <<daemonVars, serverVars, mail, clientVars, call, batch, turn, historyVars>>

(* The notification that the daemon has exited comes behind the wake-up.    *)
ServerExited ==
  /\ AtRest /\ port.open /\ ~port.wake /\ port.gone
  /\ port' = [port EXCEPT !.gone = FALSE]
  /\ server' = 0
  /\ UNCHANGED <<daemonVars, serverVars, mail, keepAlive, register, index, notice, call, runVars,
                 historyVars>>

(* "diskarbitrationd relaunched": a new session, if the old is known to be  *)
(* gone.                                                                    *)
Relaunched ==
  /\ AtRest /\ notice
  /\ notice' = FALSE
  /\ IF server = 0 THEN Enter(Queue, "relaunched", None, 0)
                   ELSE UNCHANGED <<call, overlapped>>
  /\ UNCHANGED <<daemonVars, serverVars, mail, server, keepAlive, register, index, port, runVars,
                 made, entries, heard>>

(* _DASessionCallback with _DAServerSessionCopyCallbackQueue.               *)
CopyCallbackQueue ==
  /\ received /\ Returns(server)
  /\ received' = FALSE
  /\ IF server \in live
     THEN /\ batch' = queue[server]
          /\ queue' = [queue EXCEPT ![server] = <<>>]
     ELSE batch' = <<>> /\ UNCHANGED queue
  /\ UNCHANGED <<daemonVars, known, client, asked, mail, clientVars, port, call, turn,
                 historyVars>>

(* The mutant waits for a function that is not registered.                  *)
DispatchRegistered ==
  /\ ~Busy(Queue) /\ turn = None /\ batch # <<>>
  /\ register[Head(batch).key] # None
  /\ turn' = [entry |-> Head(batch), called |-> register[Head(batch).key]]
  /\ batch' = Tail(batch)
  /\ UNCHANGED <<daemonVars, serverVars, mail, clientVars, port, call, received, historyVars>>

(* _DADispatchCallback: the function is looked up by its key; an entry whose*)
(* key is not in use is passed over, but the key of a request is given out  *)
(* next all the same.                                                       *)
Dispatch ==
  /\ ~Busy(Queue) /\ turn = None /\ batch # <<>>
  /\ LET e == Head(batch)
         unknown == register[e.key] = None
     IN /\ turn' = IF unknown THEN None ELSE [entry |-> e, called |-> register[e.key]]
        /\ index' = IF unknown /\ e.kind = "request" THEN e.key - 1 ELSE index
  /\ batch' = Tail(batch)
  /\ UNCHANGED <<daemonVars, serverVars, mail, server, keepAlive, register, notice, port, call,
                 received, historyVars>>

(* The function returns.  A question is answered, a request taken off the   *)
(* register.                                                                *)
Done ==
  /\ turn # None /\ ~Busy(Queue)
  /\ turn' = None
  /\ CASE turn.entry.kind = "question" ->
              Enter(Queue, "respond", None, 0) /\ UNCHANGED <<register, index, heard>>
       [] turn.entry.kind = "request" ->
              /\ RemoveKey(turn.entry.key)
              /\ heard' = [heard EXCEPT ![turn.entry.reg] = @ + 1]
              /\ Overlaps(Queue) /\ UNCHANGED call
       [] OTHER -> UNCHANGED <<call, register, index, heard, overlapped>>
  /\ UNCHANGED <<daemonVars, serverVars, mail, server, keepAlive, notice, port, received, batch,
                 made, entries>>

QueueNext == Receive \/ ServerExited \/ Relaunched \/ CopyCallbackQueue \/ Dispatch \/ Done

Next ==
  \/ \E s \in Session : DaemonCalls(s) \/ DaemonReplies(s) \/ DaemonReads(s)
  \/ DaemonExits \/ DaemonLaunches
  \/ \E t \in Thread :
       \/ \E c \in Callback : Register(t, c) \/ Unregister(t, c)
       \/ SetDispatchQueue(t) \/ Unschedule(t) \/ DASessionKeepAlive(t)
       \/ Proceed(t)
  \/ QueueNext

Spec == Init /\ [][Next]_vars

(* The daemon serves its ports, carries requests out and is launched again; *)
(* calls of the client go on and its queue runs.                            *)
Fairness ==
  /\ \A s \in Session : WF_vars(DaemonReads(s)) /\ WF_vars(DaemonReplies(s))
  /\ WF_vars(DaemonLaunches)
  /\ \A t \in Thread : WF_vars(Proceed(t))
  /\ WF_vars(QueueNext)

FairSpec == Spec /\ Fairness

-----------------------------------------------------------------------------
(* Properties.                                                              *)

(* The wake-up is not lost.  When callbacks wait at the daemon and it has   *)
(* the client's port, a message is in the port or the queue is about to be  *)
(* copied: though it is sent for the first entry only, is dropped when the  *)
(* port is full, and entries, ports and sessions come and go.               *)
NoWakeupLost ==
  server \in live /\ queue[server] # <<>> /\ port.open /\ client[server] = port.id
    => port.wake \/ received

(* A callback of a function that is still registered reaches that function: *)
(* whatever happened to other keys and to the session since, it is neither  *)
(* passed over nor given to another function (DAGetCallbackFromSession).    *)
RegisteredIsCalled ==
  [][\A k \in Used :
       batch # <<>> /\ batch' # batch /\ Head(batch).reg = register[k].reg
         => turn' # None /\ turn'.called.reg = Head(batch).reg]_vars

(* While a request is at the daemon or its answer on its way, its function  *)
(* keeps its key: the answer finds it (_DADispatchCallback removes the entry*)
(* of an answered request without a look whether there is one).             *)
Underway ==
  IF server \in live THEN asked[server] \cup {queue[server][i] : i \in DOMAIN queue[server]} ELSE {}
AnswerFindsRequest ==
  ~overlapped =>
    \A e \in Underway \cup {batch[i] : i \in DOMAIN batch} :
       e.kind = "request" => register[e.key] # None /\ register[e.key].reg = e.reg

(* A request is called back once at most: by the call that could not queue  *)
(* it or by the daemon's answer, though the daemon exits in between.        *)
AnsweredOnce == \A r \in Key : heard[r] <= 1

(* What the daemon calls is what the client has registered, each once, also *)
(* after it was launched again: unless calls of two threads overlapped, and *)
(* while none is under way (_DASessionRecreate, DAUnregisterCallback).      *)
RegistersAgree ==
  server \in live /\ ~overlapped /\ (\A t \in Thread : ~Busy(t)) =>
    /\ \A k \in Used : kindOf[register[k].callback] # "request" =>
         Cardinality({i \in DOMAIN known[server] : known[server][i] = EntryOf(k)}) = 1
    /\ \A i \in DOMAIN known[server] :
         LET e == known[server][i]
         IN \/ register[e.key] # None /\ e = EntryOf(e.key)
            \/ \E j \in DOMAIN mail[server] : mail[server][j] = [op |-> "unregister", arg |-> e.key]

(* Whatever is under way gets there: the requests the daemon has taken and  *)
(* the callbacks it has queued are called back, if the client stays         *)
(* scheduled, the daemon does not exit and no calls of two threads overlap. *)
CallsComeThrough ==
  (server \in live /\ Underway # {})
    ~> \/ Underway = {} /\ batch = <<>> /\ turn = None
       \/ server \notin live \/ ~port.open \/ overlapped

(* Not true of the code: a callback is given to the function it was queued  *)
(* for.  DiskArbitration.c says of the key that it "will be used to lookup  *)
(* the correct callback".                                                   *)
CorrectCallback == turn # None => turn.called.reg = turn.entry.reg
=============================================================================
