--------------------------- MODULE DASessionProofs ---------------------------
(***************************************************************************)
(* For any number of threads, functions, sessions, ports and exits of the  *)
(* daemon: no wake-up of a client is lost; what is registered is called    *)
(* back under its own key; a request is called back once at most; and,     *)
(* while no two calls overlap, the answer of a request finds its function, *)
(* and the daemon knows each function of the register once and no other.   *)
(***************************************************************************)
EXTENDS DASession, FiniteSetTheorems, WellFoundedInduction, TLAPS

IsSequence(q) == \E S : q \in Seq(S)

\* What the channel is made of.  Nothing is said of what stands in a queue.
ChannelShape ==
  /\ port \in [id : Nat, open : BOOLEAN, wake : BOOLEAN, gone : BOOLEAN]
  /\ client \in [Session -> Nat]
  /\ mail = [s \in Session |-> mail[s]] /\ \A s \in Session : IsSequence(mail[s])
  /\ queue = [s \in Session |-> queue[s]]
  /\ live \subseteq Session
  /\ server \in Session \cup {0}
  /\ established \in Nat

\* The daemon has, and is sent, only ports that were made, so a new one is
\* none of them.
PortsAreOld ==
  /\ \A s \in Session : client[s] <= port.id
  /\ \A s \in Session : \A i \in DOMAIN mail[s] :
        mail[s][i].op = "port" => mail[s][i].arg \in 0 .. port.id

\* A port whose senders are gone is not one a session has or is sent.
PortsAreGood ==
  /\ port.open \/ port.gone => port.id # 0
  /\ port.gone =>
       \A s \in live : /\ client[s] # port.id
                      /\ \A i \in DOMAIN mail[s] :
                           mail[s][i].op = "port" => mail[s][i].arg # port.id

\* A session that is not at the daemon, or not yet, has nothing there.
DeadAreEmpty ==
  /\ live \subseteq 1 .. established
  /\ \A s \in Session \ live : client[s] = 0 /\ queue[s] = <<>> /\ mail[s] = <<>>

Channel == ChannelShape /\ PortsAreOld /\ PortsAreGood /\ DeadAreEmpty /\ NoWakeupLost

channelVars == <<live, established, queue, client, mail, server, port, received>>

LEMMA MaxSessionNat == MaxSession \in Nat /\ 0 \notin Session
  BY ConstantAssumption DEF Session

(* Sequences of whatever.                                                  *)
LEMMA AppendSequence ==
  ASSUME NEW q, IsSequence(q), NEW m
  PROVE  /\ IsSequence(Append(q, m)) /\ Append(q, m)[Len(q) + 1] = m
         /\ \A i \in DOMAIN Append(q, m) :
              i # Len(q) + 1 => i \in DOMAIN q /\ Append(q, m)[i] = q[i]
  <1>1. PICK S : q \in Seq(S)
    BY DEF IsSequence
  <1>2. q \in Seq(S \cup {m})
    BY <1>1
  <1>3. Append(q, m) \in Seq(S \cup {m})
    BY <1>2
  <1> QED BY <1>2, <1>3 DEF IsSequence

LEMMA TailSequence ==
  ASSUME NEW q, IsSequence(q), q # <<>>
  PROVE  /\ IsSequence(Tail(q)) /\ 1 \in DOMAIN q /\ Head(q) = q[1]
         /\ \A i \in DOMAIN Tail(q) : i + 1 \in DOMAIN q /\ Tail(q)[i] = q[i + 1]
  <1>1. PICK S : q \in Seq(S)
    BY DEF IsSequence
  <1> QED BY <1>1 DEF IsSequence

LEMMA ShortSequence ==
  ASSUME NEW m
  PROVE  /\ IsSequence(<<>>) /\ DOMAIN <<>> = {}
         /\ IsSequence(<<m>>) /\ DOMAIN <<m>> = {1} /\ <<m>>[1] = m
  <1>1. <<>> \in Seq({m}) /\ <<m>> \in Seq({m})
    OBVIOUS
  <1>2. IsSequence(<<>>) /\ IsSequence(<<m>>)
    BY <1>1 DEF IsSequence
  <1>3. DOMAIN <<>> = {} /\ DOMAIN <<m>> = {1} /\ <<m>>[1] = m
    OBVIOUS
  <1> QED BY <1>2, <1>3

LEMMA InitChannel == Init => Channel
  <1> SUFFICES ASSUME Init PROVE Channel
    OBVIOUS
  <1>1. 1 \in Session
    BY ConstantAssumption DEF Session
  <1>2. ChannelShape
    BY <1>1, ShortSequence DEF Init, ChannelShape
  <1>3. PortsAreOld /\ PortsAreGood /\ DeadAreEmpty
    BY DEF Init, PortsAreOld, PortsAreGood, DeadAreEmpty
  <1>4. NoWakeupLost
    BY <1>1 DEF Init, NoWakeupLost
  <1> QED BY <1>2, <1>3, <1>4 DEF Channel

(* A step that leaves the channel alone.                                   *)
LEMMA ChannelUnchanged ==
  ASSUME Channel, UNCHANGED channelVars
  PROVE  Channel'
  BY DEF Channel, channelVars, ChannelShape, PortsAreOld, PortsAreGood, DeadAreEmpty,
         NoWakeupLost

(* DASessionQueueCallback.                                                 *)
LEMMA QueueCallbackChannel ==
  ASSUME Channel, NEW s \in live, NEW e,
         QueueCallback(s, e),
         UNCHANGED <<live, established, client, mail, server, received>>
  PROVE  Channel'
  <1> USE DEF Channel, ChannelShape
  <1>1. s \in Session
    OBVIOUS
  <1>2. ChannelShape'
    BY <1>1 DEF QueueCallback, Wake
  <1>3. PortsAreOld'
    BY DEF QueueCallback, Wake, PortsAreOld
  <1>4. PortsAreGood' /\ DeadAreEmpty'
    BY <1>1 DEF QueueCallback, Wake, PortsAreGood, DeadAreEmpty
  <1>5. NoWakeupLost'
    <2> SUFFICES ASSUME (server \in live /\ queue[server] # <<>> /\ port.open
                           /\ client[server] = port.id)'
                 PROVE  (port.wake \/ received)'
      BY DEF NoWakeupLost
    <2>1. port'.open = port.open /\ port'.id = port.id /\ port'.gone = port.gone
          /\ (port.wake => port'.wake)
      BY DEF QueueCallback, Wake
    <2>2. CASE queue[server] # <<>>
      BY <2>1, <2>2 DEF NoWakeupLost
    <2>3. CASE queue[server] = <<>>
      <3>1. server = s
        BY <1>1, <2>3 DEF QueueCallback
      <3>2. port.id # 0 /\ ~port.gone
        BY <2>1 DEF PortsAreGood
      <3>3. Wake(port.id)
        BY <2>1, <2>3, <3>1 DEF QueueCallback
      <3> QED BY <2>1, <3>2, <3>3 DEF Wake
    <2> QED BY <2>2, <2>3
  <1> QED BY <1>2, <1>3, <1>4, <1>5

(* What is in the mail after a message was posted.                         *)
LEMMA PostedMail ==
  ASSUME ChannelShape, NEW m, Post(server, m)
  PROVE  /\ mail' = [s \in Session |-> mail'[s]] /\ \A s \in Session : IsSequence(mail'[s])
         /\ \A s \in Session : \A i \in DOMAIN mail'[s] :
              mail'[s][i] = m \/ (i \in DOMAIN mail[s] /\ mail'[s][i] = mail[s][i])
  <1> USE DEF ChannelShape
  <1>1. CASE server \in live
    <2>1. mail' = [mail EXCEPT ![server] = Append(mail[server], m)]
      BY <1>1 DEF Post
    <2>2. \A s \in Session : mail'[s] = IF s = server THEN Append(mail[s], m) ELSE mail[s]
      BY <2>1
    <2>3. \A s \in Session : IsSequence(mail'[s])
      BY <2>2, AppendSequence
    <2>4. \A s \in Session : \A i \in DOMAIN mail'[s] :
            mail'[s][i] = m \/ (i \in DOMAIN mail[s] /\ mail'[s][i] = mail[s][i])
      <3> SUFFICES ASSUME NEW s \in Session, NEW i \in DOMAIN mail'[s]
                   PROVE  mail'[s][i] = m \/ (i \in DOMAIN mail[s] /\ mail'[s][i] = mail[s][i])
        OBVIOUS
      <3>1. CASE s = server
        <4>1. mail'[s] = Append(mail[s], m) /\ IsSequence(mail[s])
          BY <2>2, <3>1
        <4> QED BY <4>1, AppendSequence
      <3>2. CASE s # server
        BY <2>2, <3>2
      <3> QED BY <3>1, <3>2
    <2> QED BY <2>1, <2>3, <2>4
  <1>2. CASE server \notin live
    BY <1>2 DEF Post
  <1> QED BY <1>1, <1>2

(* A message that is not a port.                                           *)
LEMMA PostChannel ==
  ASSUME Channel, NEW m, m.op # "port",
         Post(server, m),
         UNCHANGED <<live, established, queue, client, server, port, received>>
  PROVE  Channel'
  <1> USE DEF Channel, ChannelShape
  <1>1. /\ mail' = [s \in Session |-> mail'[s]] /\ \A s \in Session : IsSequence(mail'[s])
        /\ \A s \in Session : \A i \in DOMAIN mail'[s] :
             mail'[s][i].op = "port" => mail'[s][i].arg \in 0 .. port.id
    BY PostedMail DEF PortsAreOld
  <1>2. PortsAreGood'
    BY PostedMail DEF PortsAreGood
  <1>3. DeadAreEmpty'
    BY DEF Post, DeadAreEmpty
  <1> QED BY <1>1, <1>2, <1>3 DEF PortsAreOld, NoWakeupLost

(* DaemonReads: a port, an unregistration or a response.                   *)
LEMMA ReadsChannel ==
  ASSUME Channel, NEW s \in Session, DaemonReads(s)
  PROVE  Channel'
  <1> USE DEF Channel, ChannelShape
  <1> DEFINE m == Head(mail[s])
  <1>1. /\ s \in live /\ mail[s] # <<>> /\ mail' = [mail EXCEPT ![s] = Tail(@)]
        /\ UNCHANGED <<live, established, server, received>>
    BY DEF DaemonReads, daemonVars, clientVars, runVars
  <1>2. m.op = "port" => m.arg \in 0 .. port.id /\ (port.gone => m.arg # port.id)
    <2>1. 1 \in DOMAIN mail[s] /\ m = mail[s][1]
      BY <1>1, TailSequence
    <2> HIDE DEF m
    <2> QED BY <1>1, <2>1 DEF PortsAreOld, PortsAreGood
  <1>r. \A t \in Session : \A i \in DOMAIN mail'[t] :
          \E j \in DOMAIN mail[t] : mail'[t][i] = mail[t][j]
    <2> SUFFICES ASSUME NEW t \in Session, NEW i \in DOMAIN mail'[t]
                 PROVE  \E j \in DOMAIN mail[t] : mail'[t][i] = mail[t][j]
      OBVIOUS
    <2>1. CASE t = s
      <3>1. i + 1 \in DOMAIN mail[s] /\ mail'[s][i] = mail[s][i + 1]
        BY <1>1, <2>1, TailSequence
      <3> QED BY <2>1, <3>1
    <2>2. CASE t # s
      BY <1>1, <2>2
    <2> QED BY <2>1, <2>2
  <1>3. /\ \A t \in Session : \A i \in DOMAIN mail'[t] :
             mail'[t][i].op = "port" => mail'[t][i].arg \in 0 .. port.id
        /\ port.gone =>
             \A t \in live : \A i \in DOMAIN mail'[t] :
                mail'[t][i].op = "port" => mail'[t][i].arg # port.id
    <2> HIDE DEF ChannelShape
    <2>1. ASSUME NEW t \in Session, NEW i \in DOMAIN mail'[t], mail'[t][i].op = "port"
          PROVE  /\ mail'[t][i].arg \in 0 .. port.id
                 /\ port.gone /\ t \in live => mail'[t][i].arg # port.id
      <3>1. PICK j \in DOMAIN mail[t] : mail'[t][i] = mail[t][j]
        BY <1>r
      <3> QED BY <2>1, <3>1 DEF PortsAreOld, PortsAreGood
    <2>2. live \subseteq Session
      BY DEF ChannelShape
    <2> QED BY <2>1, <2>2
  <1>4. mail' = [t \in Session |-> mail'[t]] /\ \A t \in Session : IsSequence(mail'[t])
    BY <1>1, TailSequence
  <1>5. CASE m.op = "port" /\ SetClientPort(s, m.arg)
    <2> DEFINE p == m.arg
    <2>0. p \in Nat /\ p <= port.id /\ (port.gone => p # port.id) /\ SetClientPort(s, p)
      BY <1>2, <1>5
    <2> HIDE DEF p
    <2>1. /\ client' = [client EXCEPT ![s] = p] /\ queue' = queue
          /\ Wake(IF queue[s] = <<>> THEN 0 ELSE p)
      BY <2>0 DEF SetClientPort
    <2>2. port'.open = port.open /\ port'.id = port.id /\ port'.gone = port.gone
          /\ (port.wake => port'.wake)
          /\ port' \in [id : Nat, open : BOOLEAN, wake : BOOLEAN, gone : BOOLEAN]
      BY <2>1 DEF Wake
    <2>3. ChannelShape'
      BY <1>1, <1>4, <2>0, <2>1, <2>2
    <2>4. PortsAreOld'
      BY <1>3, <2>0, <2>1, <2>2 DEF PortsAreOld
    <2>5. PortsAreGood' /\ DeadAreEmpty'
      <3>1. \A t \in Session \ live : mail'[t] = mail[t] /\ client'[t] = client[t]
        BY <1>1, <2>1
      <3>2. DeadAreEmpty'
        BY <1>1, <2>1, <3>1 DEF DeadAreEmpty
      <3>3. \A t \in live : client'[t] = IF t = s THEN p ELSE client[t]
        BY <2>1
      <3>4. PortsAreGood'
        <4>1. port'.open \/ port'.gone => port'.id # 0
          BY <2>2 DEF PortsAreGood
        <4>2. ASSUME port.gone, NEW t \in live PROVE client'[t] # port.id
          BY <2>0, <3>3, <4>2 DEF PortsAreGood
        <4>3. ASSUME port.gone, NEW t \in live
              PROVE  \A i \in DOMAIN mail'[t] : mail'[t][i].op = "port" => mail'[t][i].arg # port.id
          BY <1>3, <4>3
        <4>4. live' = live /\ port'.gone = port.gone /\ port'.id = port.id
          BY <1>1, <2>2
        <4> HIDE DEF Channel, ChannelShape
        <4> QED BY <4>1, <4>2, <4>3, <4>4 DEF PortsAreGood
      <3> QED BY <3>2, <3>4
    <2>6. NoWakeupLost'
      <3> SUFFICES ASSUME server \in live, queue[server] # <<>>, port.open,
                          client'[server] = port.id
                   PROVE  port'.wake \/ received
        BY <1>1, <2>1, <2>2 DEF NoWakeupLost
      <3>1. CASE server = s
        <4>1. p = port.id /\ p # 0 /\ ~port.gone
          BY <2>0, <2>1, <3>1 DEF PortsAreGood
        <4>2. Wake(p)
          BY <2>1, <3>1
        <4> QED BY <4>1, <4>2 DEF Wake
      <3>2. CASE server # s
        BY <2>1, <2>2, <3>2 DEF NoWakeupLost
      <3> QED BY <3>1, <3>2
    <2> QED BY <2>3, <2>4, <2>5, <2>6
  <1>6. CASE UnregisterCallback(s, m.arg)
    <2>1. /\ UNCHANGED <<client, port>>
          /\ queue' = [queue EXCEPT ![s] = IF queue[s] = <<>> THEN queue[s]
                                           ELSE Without(queue[s], m.arg)]
      BY <1>6 DEF UnregisterCallback
    <2>2. \A t \in Session : queue'[t] # <<>> => queue[t] # <<>>
      BY <2>1
    <2>3. ChannelShape'
      BY <1>1, <1>4, <2>1
    <2>4. PortsAreOld' /\ PortsAreGood' /\ DeadAreEmpty'
      <3>1. PortsAreOld'
        BY <1>3, <2>1 DEF PortsAreOld
      <3>2. PortsAreGood'
        BY <1>1, <1>3, <2>1 DEF PortsAreGood
      <3>3. DeadAreEmpty'
        BY <1>1, <2>1 DEF DeadAreEmpty
      <3> QED BY <3>1, <3>2, <3>3
    <2>5. NoWakeupLost'
      BY <1>1, <2>1, <2>2 DEF NoWakeupLost
    <2> QED BY <2>3, <2>4, <2>5
  <1>7. CASE UNCHANGED <<serverVars, port>>
    <2>1. UNCHANGED <<queue, client, port>>
      BY <1>7 DEF serverVars
    <2>2. ChannelShape' /\ NoWakeupLost'
      BY <1>1, <1>4, <2>1 DEF NoWakeupLost
    <2>3. PortsAreOld'
      BY <1>3, <2>1 DEF PortsAreOld
    <2>4. PortsAreGood' /\ DeadAreEmpty'
      BY <1>1, <1>3, <2>1 DEF PortsAreGood, DeadAreEmpty
    <2> QED BY <2>2, <2>3, <2>4
  <1> QED BY <1>5, <1>6, <1>7 DEF DaemonReads

(* The daemon exits: no session is left.                                   *)
LEMMA ExitsChannel ==
  ASSUME Channel, DaemonExits
  PROVE  Channel'
  <1> USE DEF Channel, ChannelShape
  <1>1. /\ live' = {} /\ UNCHANGED <<established, server, received>>
        /\ queue' = [s \in Session |-> <<>>] /\ client' = [s \in Session |-> 0]
        /\ mail' = [s \in Session |-> <<>>]
    BY DEF DaemonExits, clientVars, runVars
  <1>2. port'.open = port.open /\ port'.id = port.id
        /\ port' \in [id : Nat, open : BOOLEAN, wake : BOOLEAN, gone : BOOLEAN]
    BY DEF DaemonExits
  <1>m. \A s \in Session : IsSequence(mail'[s]) /\ DOMAIN mail'[s] = {}
    BY <1>1, ShortSequence
  <1>3. ChannelShape' /\ PortsAreOld'
    BY <1>1, <1>2, <1>m DEF PortsAreOld
  <1>g. port'.open \/ port'.gone => port'.id # 0
    BY <1>2 DEF DaemonExits, PortsAreGood
  <1>4. PortsAreGood' /\ DeadAreEmpty' /\ NoWakeupLost'
    BY <1>1, <1>2, <1>g DEF PortsAreGood, DeadAreEmpty, NoWakeupLost
  <1> QED BY <1>3, <1>4

(* The session is scheduled: a new port, which no session has.             *)
LEMMA NewPortChannel ==
  ASSUME Channel, port' = NewPort, Post(server, [op |-> "port", arg |-> port.id + 1]),
         UNCHANGED <<server, live, established, queue, client, received>>
  PROVE  Channel'
  <1> USE DEF Channel, ChannelShape
  <1> DEFINE m == [op |-> "port", arg |-> port.id + 1]
  <1>a. Post(server, m) /\ m.arg = port.id + 1
    OBVIOUS
  <1> HIDE DEF m
  <1>b. /\ mail' = [s \in Session |-> mail'[s]] /\ \A s \in Session : IsSequence(mail'[s])
        /\ \A s \in Session : \A i \in DOMAIN mail'[s] :
             mail'[s][i] = m \/ (i \in DOMAIN mail[s] /\ mail'[s][i] = mail[s][i])
    BY <1>a, PostedMail
  <1>1. /\ port'.id = port.id + 1 /\ ~port'.gone
        /\ port' \in [id : Nat, open : BOOLEAN, wake : BOOLEAN, gone : BOOLEAN]
    BY DEF NewPort
  <1>2. ChannelShape'
    BY <1>1, <1>b
  <1>3. PortsAreOld'
    <2>1. \A s \in Session : \A i \in DOMAIN mail'[s] :
            mail'[s][i].op = "port" => mail'[s][i].arg \in 0 .. port.id + 1
      BY <1>a, <1>b DEF PortsAreOld
    <2> QED BY <1>1, <2>1 DEF PortsAreOld
  <1>4. PortsAreGood' /\ DeadAreEmpty'
    BY <1>1, <1>a DEF Post, PortsAreGood, DeadAreEmpty
  <1>5. NoWakeupLost'
    <2>1. \A s \in Session : client'[s] # port'.id
      BY <1>1 DEF PortsAreOld
    <2> QED BY <2>1 DEF NoWakeupLost
  <1> QED BY <1>2, <1>3, <1>4, <1>5

(* A session is made at the daemon.  Nothing is there yet.                 *)
LEMMA EstablishChannel ==
  ASSUME Channel, NEW t \in Thread, Establish(t)
  PROVE  Channel'
  <1> USE DEF Channel, ChannelShape
  <1> DEFINE n == established + 1
  <1>1. /\ server' = n /\ established' = n /\ live' = live \cup {n}
        /\ UNCHANGED <<queue, client, mail, port, received>>
    BY DEF Establish, serverVars, runVars
  <1>2. n \in Session /\ n \in Nat /\ n \notin live
    BY ConstantAssumption DEF Establish, Session, DeadAreEmpty
  <1>3. client[n] = 0 /\ queue[n] = <<>> /\ mail[n] = <<>>
    BY <1>2 DEF DeadAreEmpty
  <1>4. live' \subseteq 1 .. n
    BY <1>1, <1>2 DEF DeadAreEmpty
  <1> HIDE DEF n
  <1>5. ChannelShape' /\ PortsAreOld'
    BY <1>1, <1>2 DEF PortsAreOld
  <1>6. PortsAreGood'
    BY <1>1, <1>2, <1>3, ShortSequence DEF PortsAreGood
  <1>7. DeadAreEmpty'
    BY <1>1, <1>2, <1>3, <1>4 DEF DeadAreEmpty
  <1>8. NoWakeupLost'
    BY <1>1, <1>3 DEF NoWakeupLost
  <1> QED BY <1>5, <1>6, <1>7, <1>8

-----------------------------------------------------------------------------
(* Every step keeps the channel; actions that leave it alone are the rest. *)
LEMMA NextChannel == Channel /\ [Next]_vars => Channel'
  <1> SUFFICES ASSUME Channel, [Next]_vars PROVE Channel'
    OBVIOUS
  <1> USE DEF daemonVars, serverVars, clientVars, runVars, historyVars
  <1>1. CASE UNCHANGED vars
    BY <1>1, ChannelUnchanged DEF vars, channelVars
  <1>2. ASSUME NEW s \in Session, DaemonCalls(s) PROVE Channel'
    BY <1>2, QueueCallbackChannel DEF DaemonCalls
  <1>3. ASSUME NEW s \in Session, DaemonReplies(s) PROVE Channel'
    BY <1>3, QueueCallbackChannel DEF DaemonReplies
  <1>4. ASSUME NEW s \in Session, DaemonReads(s) PROVE Channel'
    BY <1>4, ReadsChannel
  <1>5. CASE DaemonExits
    BY <1>5, ExitsChannel
  <1>6. CASE DaemonLaunches
    BY <1>6, ChannelUnchanged DEF DaemonLaunches, channelVars
  <1>7. ASSUME NEW t \in Thread, NEW c \in Callback, Register(t, c) \/ Unregister(t, c)
        PROVE  Channel'
    BY <1>7, ChannelUnchanged DEF Register, Unregister, channelVars
  <1>8. ASSUME NEW t \in Thread, SetDispatchQueue(t) PROVE Channel'
    BY <1>8, NewPortChannel DEF SetDispatchQueue
  <1>9. ASSUME NEW t \in Thread, Unschedule(t) PROVE Channel'
    <2>1. /\ port' = [port EXCEPT !.open = FALSE]
          /\ UNCHANGED <<live, established, queue, client, mail, server, received>>
      BY <1>9 DEF Unschedule
    <2> QED BY <2>1 DEF Channel, ChannelShape, PortsAreOld, PortsAreGood, DeadAreEmpty,
                     NoWakeupLost
  <1>10. ASSUME NEW t \in Thread, DASessionKeepAlive(t) PROVE Channel'
    BY <1>10, ChannelUnchanged DEF DASessionKeepAlive, channelVars
  <1>11. ASSUME NEW t \in Thread, Establish(t) PROVE Channel'
    BY <1>11, EstablishChannel
  <1>s. ASSUME NEW t \in Thread, Schedule(t) PROVE Channel'
    BY <1>s, NewPortChannel DEF Schedule
  <1>12. ASSUME NEW t \in Thread,
                Again(t) \/ Recreated(t) \/ Add(t) \/ Find(t) \/ Drop(t)
         PROVE  Channel'
    BY <1>12, ChannelUnchanged DEF Again, Recreated, Add, Find, Drop, channelVars
  <1>13. ASSUME NEW t \in Thread, SendRegister(t) PROVE Channel'
    <2>1. UNCHANGED <<live, established, client, mail, server, received>>
      BY <1>13 DEF SendRegister
    <2>2. \/ \E e : server \in live /\ QueueCallback(server, e)
          \/ UNCHANGED <<queue, port>>
      BY <1>13 DEF SendRegister
    <2>3. CASE UNCHANGED <<queue, port>>
      BY <2>1, <2>3, ChannelUnchanged DEF channelVars
    <2> QED BY <2>1, <2>2, <2>3, QueueCallbackChannel
  <1>14. ASSUME NEW t \in Thread, Send(t) PROVE Channel'
    <2> DEFINE m == [op  |-> IF call[t].op = "respond" THEN "response" ELSE "unregister",
                     arg |-> call[t].key]
    <2>1. Post(server, m) /\ UNCHANGED <<live, established, queue, client, server, port, received>>
      BY <1>14 DEF Send
    <2> QED BY <2>1, PostChannel
  <1>15. CASE Receive
    <2>1. /\ port' = [port EXCEPT !.wake = FALSE] /\ received'
          /\ UNCHANGED <<live, established, queue, client, mail, server>>
      BY <1>15 DEF Receive
    <2> QED BY <2>1 DEF Channel, ChannelShape, PortsAreOld, PortsAreGood, DeadAreEmpty,
                     NoWakeupLost
  <1>16. CASE ServerExited
    <2>1. /\ port' = [port EXCEPT !.gone = FALSE] /\ server' = 0
          /\ UNCHANGED <<live, established, queue, client, mail, received>>
      BY <1>16 DEF ServerExited
    <2> QED BY <2>1, MaxSessionNat
            DEF Channel, ChannelShape, PortsAreOld, PortsAreGood, DeadAreEmpty,
                     NoWakeupLost
  <1>17. CASE Relaunched \/ Dispatch \/ Done
    BY <1>17, ChannelUnchanged DEF Relaunched, Dispatch, Done, channelVars
  <1>18. CASE CopyCallbackQueue
    <2>1. /\ UNCHANGED <<live, established, client, mail, server, port>>
          /\ \/ server \in live /\ queue' = [queue EXCEPT ![server] = <<>>]
             \/ server \notin live /\ queue' = queue
      BY <1>18 DEF CopyCallbackQueue
    <2> QED BY <2>1 DEF Channel, ChannelShape, PortsAreOld, PortsAreGood, DeadAreEmpty,
                     NoWakeupLost
  <1> QED BY <1>1, <1>2, <1>3, <1>4, <1>5, <1>6, <1>7, <1>8, <1>9, <1>10, <1>11, <1>s, <1>12, <1>13,
             <1>14, <1>15, <1>16, <1>17, <1>18 DEF Next, Proceed, QueueNext

(* The channel between daemon and client is as described in every state.   *)
THEOREM ChannelInvariance == Spec => []Channel
  BY InitChannel, NextChannel, PTL DEF Spec

(* No wake-up is lost: while callbacks wait at the daemon and it has the   *)
(* client's port, a message is there or the queue about to be copied.      *)
THEOREM WakeupsArrive == Spec => []NoWakeupLost
  BY ChannelInvariance, PTL DEF Channel
-----------------------------------------------------------------------------
(* Without.  Its recursion is followed by induction over the natural        *)
(* numbers, which are well-founded.                                        *)

LEMMA NatSetInduction ==
  ASSUME NEW S, 0 \in S, \A n \in Nat : n \in S => n + 1 \in S
  PROVE  Nat \subseteq S
  <1> SUFFICES ASSUME Nat \ S # {} PROVE FALSE
    OBVIOUS
  <1> DEFINE R == OpToRel(<, Nat)
  <1>1. IsWellFoundedOn(R, Nat)
    BY NatLessThanWellFounded
  <1>2. \A m, n \in Nat : m < n => <<m, n>> \in R
    BY DEF OpToRel
  <1> HIDE DEF R
  <1>3. PICK x \in Nat \ S : \A y \in Nat \ S : <<y, x>> \notin R
    <2> DEFINE T == Nat \ S
    <2>1. T \subseteq Nat /\ T # {}
      OBVIOUS
    <2> HIDE DEF T
    <2>2. \E a \in T : \A y \in T : <<y, a>> \notin R
      BY <1>1, <2>1, WFMin
    <2> QED BY <2>2 DEF T
  <1>4. x # 0 /\ x - 1 \in Nat /\ x - 1 < x /\ (x - 1) + 1 = x
    BY <1>3
  <1>5. x - 1 \in S
    BY <1>2, <1>3, <1>4
  <1> QED BY <1>3, <1>4, <1>5

IsKept(F, q, k, n) ==
  F = [m \in 0 .. n |-> IF m = 0 THEN <<>>
                        ELSE IF q[m].key # k THEN Append(F[m - 1], q[m]) ELSE F[m - 1]]
HasKept(q, k, n) == \E F : IsKept(F, q, k, n)

LEMMA KeptExists ==
  ASSUME NEW q, NEW k, NEW l \in Nat
  PROVE  HasKept(q, k, l)
<1> DEFINE S == {n \in Nat : HasKept(q, k, n)}
<1>1. 0 \in S
  <2> DEFINE F == [m \in 0 .. 0 |-> <<>>]
  <2>1. IsKept(F, q, k, 0)
    BY DEF IsKept
  <2> QED BY <2>1 DEF HasKept
<1>2. ASSUME NEW n \in Nat, n \in S PROVE n + 1 \in S
  <2>1. PICK F : IsKept(F, q, k, n)
    BY <1>2 DEF HasKept
  <2> DEFINE G == [m \in 0 .. n + 1 |-> IF m = n + 1
                     THEN IF q[m].key # k THEN Append(F[m - 1], q[m]) ELSE F[m - 1]
                     ELSE F[m]]
  <2>2. \A m \in 0 .. n : G[m] = F[m]
    OBVIOUS
  <2>3. G[n + 1] = IF q[n + 1].key # k THEN Append(F[n], q[n + 1]) ELSE F[n]
    OBVIOUS
  <2>4. \A m \in 0 .. n : F[m] = IF m = 0 THEN <<>>
                        ELSE IF q[m].key # k THEN Append(F[m - 1], q[m]) ELSE F[m - 1]
    BY <2>1 DEF IsKept
  <2>5. ASSUME NEW m \in 0 .. n + 1
        PROVE  G[m] = IF m = 0 THEN <<>>
                      ELSE IF q[m].key # k THEN Append(G[m - 1], q[m]) ELSE G[m - 1]
    <3>1. CASE m = 0
      BY <2>2, <2>4, <3>1
    <3>2. CASE m \in 1 .. n
      BY <2>2, <2>4, <3>2
    <3>3. CASE m = n + 1
      BY <2>2, <2>3, <3>3
    <3> QED BY <3>1, <3>2, <3>3
  <2>6. G = [m \in 0 .. n + 1 |-> G[m]]
    OBVIOUS
  <2> HIDE DEF G
  <2>7. IsKept(G, q, k, n + 1)
    BY <2>5, <2>6 DEF IsKept
  <2> QED BY <2>7 DEF HasKept
<1> HIDE DEF S
<1>3. Nat \subseteq S
  BY <1>1, <1>2, NatSetInduction
<1> QED BY <1>3 DEF S

LEMMA WithoutKeeps ==
  ASSUME NEW q, NEW k, Len(q) \in Nat
  PROVE  \E F : IsKept(F, q, k, Len(q)) /\ Without(q, k) = F[Len(q)]
<1> DEFINE F == CHOOSE G : IsKept(G, q, k, Len(q))
<1>1. IsKept(F, q, k, Len(q))
  BY KeptExists DEF HasKept
<1>2. Without(q, k) = F[Len(q)]
  BY DEF Without, IsKept
<1> QED BY <1>1, <1>2

\* w is what was kept of the first n entries of q.
Picks(f, q, k, n, w) ==
  /\ \A i \in DOMAIN w : f[i] \in 1 .. n /\ w[i] = q[f[i]] /\ q[f[i]].key # k
  /\ \A i, j \in DOMAIN w : f[i] = f[j] => i = j
  /\ \A m \in 1 .. n : q[m].key # k => \E i \in DOMAIN w : f[i] = m
Picked(S, q, k, n, w) == w \in Seq(S) /\ \E f : Picks(f, q, k, n, w)

LEMMA PickedNone ==
  ASSUME NEW S, NEW q, NEW k
  PROVE  Picked(S, q, k, 0, <<>>)
<1> DEFINE f == [i \in {} |-> 0]
<1>1. Picks(f, q, k, 0, <<>>)
  BY DEF Picks
<1> QED
  BY <1>1 DEF Picked

LEMMA PickedNext ==
  ASSUME NEW S, NEW q \in Seq(S), NEW k, NEW n \in Nat, n + 1 \in DOMAIN q,
         NEW w, Picked(S, q, k, n, w)
  PROVE  Picked(S, q, k, n + 1, IF q[n + 1].key # k THEN Append(w, q[n + 1]) ELSE w)
<1>1. PICK f : Picks(f, q, k, n, w)
  BY DEF Picked
<1>2. w \in Seq(S) /\ q[n + 1] \in S
  BY DEF Picked
<1>3. CASE q[n + 1].key = k
  <2>1. \A m \in 1 .. n + 1 : q[m].key # k => m \in 1 .. n
    BY <1>3
  <2>2. Picks(f, q, k, n + 1, w)
    BY <1>1, <2>1 DEF Picks
  <2> QED BY <1>2, <1>3, <2>2 DEF Picked
<1>4. CASE q[n + 1].key # k
  <2> DEFINE v == Append(w, q[n + 1])
             g == [i \in DOMAIN v |-> IF i \in DOMAIN w THEN f[i] ELSE n + 1]
  <2>1. v \in Seq(S) /\ DOMAIN v = DOMAIN w \cup {Len(w) + 1} /\ Len(w) + 1 \notin DOMAIN w
    BY <1>2
  <2>2. v[Len(w) + 1] = q[n + 1] /\ \A i \in DOMAIN w : v[i] = w[i]
    BY <1>2
  <2> HIDE DEF v
  <2>4. g[Len(w) + 1] = n + 1 /\ \A i \in DOMAIN w : g[i] = f[i] /\ f[i] \in 1 .. n
    BY <1>1, <2>1 DEF Picks
  <2> HIDE DEF g
  <2>5. \A i \in DOMAIN v : g[i] \in 1 .. n + 1 /\ v[i] = q[g[i]] /\ q[g[i]].key # k
    BY <1>1, <1>4, <2>1, <2>2, <2>4 DEF Picks
  <2>6. \A i, j \in DOMAIN v : g[i] = g[j] => i = j
    BY <1>1, <2>1, <2>4 DEF Picks
  <2>7. \A m \in 1 .. n + 1 : q[m].key # k => \E i \in DOMAIN v : g[i] = m
    <3>1. \A m \in 1 .. n + 1 : m \in 1 .. n \/ m = n + 1
      OBVIOUS
    <3> QED BY <3>1, <1>1, <2>1, <2>4 DEF Picks
  <2>8. Picks(g, q, k, n + 1, v)
    BY <2>5, <2>6, <2>7 DEF Picks
  <2> QED BY <1>4, <2>1, <2>8 DEF v, Picked
<1> QED
  BY <1>3, <1>4

\* Without(q, k) is what was kept of q.
LEMMA WithoutPicks ==
  ASSUME NEW S, NEW q \in Seq(S), NEW k
  PROVE  Picked(S, q, k, Len(q), Without(q, k))
<1>1. PICK F : IsKept(F, q, k, Len(q)) /\ Without(q, k) = F[Len(q)]
  BY WithoutKeeps
<1> DEFINE T == {n \in Nat : n <= Len(q) => Picked(S, q, k, n, F[n])}
<1>2. \A m \in 0 .. Len(q) :
        F[m] = IF m = 0 THEN <<>>
               ELSE IF q[m].key # k THEN Append(F[m - 1], q[m]) ELSE F[m - 1]
  BY <1>1 DEF IsKept
<1>3. 0 \in T
  BY <1>2, PickedNone
<1>4. ASSUME NEW n \in Nat, n \in T PROVE n + 1 \in T
  <2> SUFFICES ASSUME n + 1 <= Len(q) PROVE Picked(S, q, k, n + 1, F[n + 1])
    OBVIOUS
  <2>1. Picked(S, q, k, n, F[n])
    BY <1>4
  <2>2. F[n + 1] = IF q[n + 1].key # k THEN Append(F[n], q[n + 1]) ELSE F[n]
    BY <1>2
  <2>3. n + 1 \in DOMAIN q
    OBVIOUS
  <2> QED BY <2>1, <2>2, <2>3, PickedNext
<1> HIDE DEF T
<1>5. Nat \subseteq T
  BY <1>3, <1>4, NatSetInduction
<1> QED
  BY <1>1, <1>5 DEF T
-----------------------------------------------------------------------------
(* The registers.  What follows says where a registration may be, and what *)
(* is known of it there.                                                   *)

IsRegister(t) == call[t].op = "register"
Unsent(t)     == IsRegister(t) /\ call[t].at # "send"   \* has no key yet
Sending(t)    == IsRegister(t) /\ call[t].at = "send"   \* has one

CallFits(c) ==
  /\ c.op = "register" => c.callback \in Callback /\ c.reg \in 1 .. made
                          /\ (c.at = "send" => c.key \in Key)
  /\ c.op = "unregister" => c.callback \in Callback /\ kindOf[c.callback] # "request"
  /\ c.at = "drop" => c.op = "unregister" /\ c.key \in Key

CallTypes == call \in [Thread -> Call \cup {Nothing}] /\ \A t \in Thread : CallFits(call[t])

DaemonTypes ==
  /\ known \in [Session -> Seq(Entry)] /\ queue \in [Session -> Seq(Entry)]
  /\ asked \in [Session -> SUBSET Entry]
  /\ \A s \in Session : \A i \in DOMAIN known[s] : known[s][i].kind # "request"

ClientTypes ==
  /\ register \in [Key -> Record \cup {None}]
  /\ index \in 0 .. MaxMade /\ made \in 0 .. MaxMade
  /\ batch \in Seq(Entry) /\ turn \in [entry : Entry, called : Record] \cup {None}
  /\ heard \in [Key -> Nat] /\ overlapped \in BOOLEAN
  /\ received => batch = <<>>

\* Registration r is known under key k.
InSeq(q, k, r) == \E i \in DOMAIN q : q[i].key = k /\ q[i].reg = r
KnownAs(k, r) ==
  \/ k \in Used /\ register[k].reg = r
  \/ \E s \in Session : \/ InSeq(known[s], k, r) \/ InSeq(queue[s], k, r)
                        \/ \E e \in asked[s] : e.key = k /\ e.reg = r
  \/ InSeq(batch, k, r)
  \/ \E t \in Thread : Sending(t) /\ call[t].key = k /\ call[t].reg = r

\* A registration has one key, and none before it is given one.
OneKey ==
  /\ \A k, j, r : KnownAs(k, r) /\ KnownAs(j, r) => k = j
  /\ \A k, r : KnownAs(k, r) => r \in 1 .. made
  /\ \A t \in Thread : Unsent(t) => \A k : ~KnownAs(k, call[t].reg)
  /\ \A t, u \in Thread : IsRegister(t) /\ IsRegister(u) /\ call[t].reg = call[u].reg => t = u

\* There is a key for every registration: those that were given out and are still
\* spoken of are no greater than the number of registrations that have one.
Waiting == {call[t].reg : t \in {u \in Thread : Unsent(u)}}
Given(k) ==
  \/ k = index \/ \E r : KnownAs(k, r)
  \/ turn # None /\ turn.entry.key = k
  \/ \E t \in Thread : call[t].at = "drop" /\ call[t].key = k
KeysSuffice == \A k : Given(k) => k \in Nat /\ k + Cardinality(Waiting) <= made

RegisterTypes == CallTypes /\ DaemonTypes /\ ClientTypes
Registering == RegisterTypes /\ KeysSuffice /\ OneKey

LEMMA SmallFacts ==
  /\ MaxMade \in Nat /\ \A k : k \in Key <=> k \in Nat /\ 1 <= k /\ k <= MaxMade
  /\ \A c \in Callback : kindOf[c] \in Kind
  /\ Nothing.op = "none" /\ Nothing.at = "none" /\ CallFits(Nothing)
  /\ 0 \notin Session
BY ConstantAssumption DEF Key, Kind, Nothing, CallFits, Session

-----------------------------------------------------------------------------
(* Sequences of entries.                                                   *)

LEMMA EntryAt ==
  ASSUME NEW S, NEW q \in Seq(S), NEW i \in DOMAIN q
  PROVE  q[i] \in S
OBVIOUS

LEMMA AppendEntry ==
  ASSUME NEW S, NEW q \in Seq(S), NEW e \in S
  PROVE  /\ Append(q, e) \in Seq(S)
         /\ DOMAIN Append(q, e) = DOMAIN q \cup {Len(q) + 1} /\ Len(q) + 1 \notin DOMAIN q
         /\ Append(q, e)[Len(q) + 1] = e /\ \A i \in DOMAIN q : Append(q, e)[i] = q[i]
OBVIOUS

LEMMA TailEntry ==
  ASSUME NEW S, NEW q \in Seq(S), q # <<>>
  PROVE  /\ Tail(q) \in Seq(S) /\ Head(q) \in S /\ 1 \in DOMAIN q /\ Head(q) = q[1]
         /\ \A i \in DOMAIN Tail(q) : i + 1 \in DOMAIN q /\ Tail(q)[i] = q[i + 1] /\ i \in Nat
         /\ \A i \in DOMAIN q : i # 1 => i - 1 \in DOMAIN Tail(q) /\ Tail(q)[i - 1] = q[i]
OBVIOUS

LEMMA NoEntry ==
  ASSUME NEW S
  PROVE  <<>> \in Seq(S) /\ DOMAIN <<>> = {}
OBVIOUS

\* What is in a sequence that was appended to, or taken from, was in it or is what was put.
LEMMA InSequences ==
  ASSUME NEW q \in Seq(Entry)
  PROVE  /\ \A k, r : ~InSeq(<<>>, k, r)
         /\ \A e \in Entry : \A k, r :
              InSeq(Append(q, e), k, r) => InSeq(q, k, r) \/ (k = e.key /\ r = e.reg)
         /\ q # <<>> => \A k, r : InSeq(Tail(q), k, r) => InSeq(q, k, r)
         /\ \A x, k, r : InSeq(Without(q, x), k, r) => InSeq(q, k, r)
<1>1. \A k, r : ~InSeq(<<>>, k, r)
  BY DEF InSeq
<1>2. ASSUME NEW e \in Entry, NEW k, NEW r, InSeq(Append(q, e), k, r)
      PROVE  InSeq(q, k, r) \/ (k = e.key /\ r = e.reg)
  BY <1>2, AppendEntry DEF InSeq
<1>3. ASSUME q # <<>>, NEW k, NEW r, InSeq(Tail(q), k, r)
      PROVE  InSeq(q, k, r)
  BY <1>3, TailEntry DEF InSeq
<1>4. ASSUME NEW x, NEW k, NEW r, InSeq(Without(q, x), k, r)
      PROVE  InSeq(q, k, r)
  <2>1. PICK f : Picks(f, q, x, Len(q), Without(q, x))
    BY WithoutPicks DEF Picked
  <2>2. DOMAIN q = 1 .. Len(q)
    OBVIOUS
  <2> QED BY <1>4, <2>1, <2>2 DEF InSeq, Picks
<1> QED
  BY <1>1, <1>2, <1>3, <1>4

\* What is left without a key was there before.
LEMMA WithoutEntries ==
  ASSUME NEW q \in Seq(Entry), NEW x
  PROVE  /\ Without(q, x) \in Seq(Entry)
         /\ \A i \in DOMAIN Without(q, x) : \E j \in DOMAIN q : Without(q, x)[i] = q[j]
<1>1. Without(q, x) \in Seq(Entry) /\ \E f : Picks(f, q, x, Len(q), Without(q, x))
  BY WithoutPicks DEF Picked
<1>2. PICK f : Picks(f, q, x, Len(q), Without(q, x))
  BY <1>1
<1>3. DOMAIN q = 1 .. Len(q)
  OBVIOUS
<1> QED
  BY <1>1, <1>2, <1>3 DEF Picks

-----------------------------------------------------------------------------
(* What most steps leave as it is.                                         *)

\* Registrations do not change while they are under way, but for their end.
CallsKept ==
  \A t \in Thread : (IsRegister(t))' =>
    /\ IsRegister(t) /\ call'[t].reg = call[t].reg /\ call'[t].callback = call[t].callback
    /\ call'[t].at = "send" <=> call[t].at = "send"
    /\ call'[t].at = "send" => call'[t].key = call[t].key

LEMMA CallChanges ==
  ASSUME CallTypes, NEW t \in Thread, NEW c \in Call \cup {Nothing}, CallFits(c),
         call' = [call EXCEPT ![t] = c], made' = made,
         c.op = "register" => /\ IsRegister(t)
                              /\ c.reg = call[t].reg /\ c.callback = call[t].callback
                              /\ c.at = "send" <=> call[t].at = "send"
                              /\ c.at = "send" => c.key = call[t].key
  PROVE  CallTypes' /\ CallsKept
<1>1. /\ call' \in [Thread -> Call \cup {Nothing}] /\ call'[t] = c
      /\ \A u \in Thread : u # t => call'[u] = call[u]
  BY DEF CallTypes
<1>2. CallTypes'
  BY <1>1 DEF CallTypes, CallFits
<1>3. ASSUME NEW u \in Thread, (IsRegister(u))'
      PROVE  /\ IsRegister(u) /\ call'[u].reg = call[u].reg /\ call'[u].callback = call[u].callback
             /\ call'[u].at = "send" <=> call[u].at = "send"
             /\ call'[u].at = "send" => call'[u].key = call[u].key
  <2>1. CASE u = t
    BY <1>1, <1>3, <2>1 DEF IsRegister
  <2>2. CASE u # t
    BY <1>1, <1>3, <2>2 DEF IsRegister
  <2> QED BY <2>1, <2>2
<1> QED
  BY <1>2, <1>3 DEF CallsKept

LEMMA CallSame ==
  ASSUME CallTypes, call' = call, made' = made
  PROVE  CallTypes' /\ CallsKept
BY DEF CallTypes, CallFits, CallsKept, IsRegister

LEMMA WaitingFinite ==
  ASSUME CallTypes, made \in Nat
  PROVE  /\ IsFiniteSet(Waiting) /\ Cardinality(Waiting) \in Nat /\ Waiting \subseteq 1 .. made
         /\ \A t \in Thread : Unsent(t) => call[t].reg \in Waiting
<1>1. Waiting \subseteq 1 .. made
  BY DEF CallTypes, CallFits, Waiting, Unsent, IsRegister
<1>2. IsFiniteSet(1 .. made)
  BY FS_Interval
<1>3. IsFiniteSet(Waiting)
  BY <1>1, <1>2, FS_Subset
<1> QED
  BY <1>1, <1>3, FS_CardinalityType DEF Waiting

\* No registration begins to wait unless one is made.
LEMMA WaitingKept ==
  ASSUME CallTypes, CallTypes', made \in Nat, CallsKept
  PROVE  Cardinality(Waiting') \in Nat /\ Cardinality(Waiting') <= Cardinality(Waiting)
<1>1. Waiting' \subseteq Waiting
  BY DEF CallsKept, Waiting, Unsent, IsRegister
<1> QED
  BY <1>1, WaitingFinite, FS_Subset, FS_CardinalityType

\* A step that gives out no key leaves enough of them.
LEMMA KeysKept ==
  ASSUME KeysSuffice, CallTypes, CallTypes', CallsKept, made \in Nat, made' = made,
         \A k : Given(k)' => k \in Nat /\ \E j : Given(j) /\ k <= j
  PROVE  KeysSuffice'
<1>2. Cardinality(Waiting') \in Nat /\ Cardinality(Waiting') <= Cardinality(Waiting)
  BY WaitingKept
<1>3. Cardinality(Waiting) \in Nat
  BY WaitingFinite
<1>4. ASSUME NEW k, Given(k)' PROVE k \in Nat /\ k + Cardinality(Waiting') <= made
  <2>1. k \in Nat
    BY <1>4
  <2>2. PICK j : Given(j) /\ k <= j
    BY <1>4
  <2>3. j \in Nat /\ j + Cardinality(Waiting) <= made
    BY <2>2 DEF KeysSuffice
  <2> QED BY <1>2, <1>3, <2>1, <2>2, <2>3
<1> QED
  BY <1>4 DEF KeysSuffice

\* A step after which nothing is known that was not known before leaves each its one key.
LEMMA OneKeyKept ==
  ASSUME OneKey, CallsKept, made' = made,
         \A k, r : KnownAs(k, r)' => KnownAs(k, r)
  PROVE  OneKey'
<1>1. \A k, j, r : KnownAs(k, r)' /\ KnownAs(j, r)' => k = j
  BY DEF OneKey
<1>2. \A k, r : KnownAs(k, r)' => r \in 1 .. made'
  BY DEF OneKey
<1>3. ASSUME NEW t \in Thread, Unsent(t)' PROVE \A k : ~KnownAs(k, call[t].reg)'
  BY <1>3 DEF OneKey, CallsKept, Unsent
<1>4. \A t, u \in Thread :
        IsRegister(t)' /\ IsRegister(u)' /\ call'[t].reg = call'[u].reg => t = u
  BY DEF OneKey, CallsKept
<1> QED
  BY <1>1, <1>2, <1>3, <1>4 DEF OneKey

\* Where the steps below lead: what is known afterwards was known before.
LEMMA KnownKept ==
  ASSUME CallsKept,
         \A k \in Used' : k \in Used /\ register'[k] = register[k],
         \A s \in Session : \A k, r :
            /\ InSeq(known'[s], k, r) => KnownAs(k, r)
            /\ InSeq(queue'[s], k, r) => KnownAs(k, r),
         \A s \in Session : \A e \in asked'[s] : KnownAs(e.key, e.reg),
         \A k, r : InSeq(batch', k, r) => KnownAs(k, r)
  PROVE  \A k, r : KnownAs(k, r)' => KnownAs(k, r)
<1> SUFFICES ASSUME NEW k, NEW r, KnownAs(k, r)' PROVE KnownAs(k, r)
  OBVIOUS
<1>1. CASE k \in Used' /\ register'[k].reg = r
  BY <1>1 DEF KnownAs
<1>2. CASE \E t \in Thread : Sending(t)' /\ call'[t].key = k /\ call'[t].reg = r
  BY <1>2 DEF KnownAs, CallsKept, Sending
<1>3. CASE InSeq(batch', k, r)
  BY <1>3
<1>4. CASE \E s \in Session : \/ InSeq(known'[s], k, r) \/ InSeq(queue'[s], k, r)
                              \/ \E e \in asked'[s] : e.key = k /\ e.reg = r
  BY <1>4
<1>5. \/ k \in Used' /\ register'[k].reg = r
      \/ \E s \in Session : \/ InSeq(known'[s], k, r) \/ InSeq(queue'[s], k, r)
                            \/ \E e \in asked'[s] : e.key = k /\ e.reg = r
      \/ InSeq(batch', k, r)
      \/ \E t \in Thread : Sending(t)' /\ call'[t].key = k /\ call'[t].reg = r
  BY DEF KnownAs, InSeq
<1> QED
  BY <1>1, <1>2, <1>3, <1>4, <1>5


LEMMA KnownPlaces ==
  /\ \A k \in Used : KnownAs(k, register[k].reg)
  /\ \A s \in Session : \A k, r : InSeq(known[s], k, r) \/ InSeq(queue[s], k, r) => KnownAs(k, r)
  /\ \A s \in Session : \A e \in asked[s] : KnownAs(e.key, e.reg)
  /\ \A k, r : InSeq(batch, k, r) => KnownAs(k, r)
  /\ \A t \in Thread : Sending(t) => KnownAs(call[t].key, call[t].reg)
  /\ \A k, r : KnownAs(k, r) => Given(k)
  /\ Given(index)
  /\ turn # None => Given(turn.entry.key)
  /\ \A t \in Thread : call[t].at = "drop" => Given(call[t].key)
BY DEF KnownAs, Given

\* The keys that are spoken of are numbers.
LEMMA GivenNat ==
  ASSUME RegisterTypes, NEW k, Given(k)
  PROVE  k \in Nat
<1> USE DEF RegisterTypes, CallTypes, DaemonTypes, ClientTypes, Entry
<1>1. \A s \in Session : known[s] \in Seq(Entry) /\ queue[s] \in Seq(Entry) /\ asked[s] \subseteq Entry
  OBVIOUS
<1>2. ASSUME NEW q \in Seq(Entry), NEW r, InSeq(q, k, r) PROVE k \in Key
  <2>1. PICK i \in DOMAIN q : q[i].key = k
    BY <1>2 DEF InSeq
  <2>2. q[i] \in Entry
    BY EntryAt
  <2> QED BY <2>1, <2>2
<1>3. ASSUME NEW r, KnownAs(k, r) PROVE k \in Key
  <2>1. CASE k \in Used
    BY <2>1 DEF Used
  <2>2. CASE \E s \in Session : \/ InSeq(known[s], k, r) \/ InSeq(queue[s], k, r)
                               \/ \E e \in asked[s] : e.key = k /\ e.reg = r
    <3>1. PICK s \in Session : \/ InSeq(known[s], k, r) \/ InSeq(queue[s], k, r)
                               \/ \E e \in asked[s] : e.key = k /\ e.reg = r
      BY <2>2
    <3>2. known[s] \in Seq(Entry) /\ queue[s] \in Seq(Entry) /\ asked[s] \subseteq Entry
      BY <1>1
    <3>3. CASE InSeq(known[s], k, r)
      BY <1>2, <3>2, <3>3
    <3>4. CASE InSeq(queue[s], k, r)
      BY <1>2, <3>2, <3>4
    <3>5. CASE \E e \in asked[s] : e.key = k /\ e.reg = r
      BY <3>2, <3>5
    <3> QED BY <3>1, <3>3, <3>4, <3>5
  <2>3. CASE InSeq(batch, k, r)
    BY <1>2, <2>3
  <2>4. CASE \E t \in Thread : Sending(t) /\ call[t].key = k
    BY <2>4 DEF CallFits, Sending, IsRegister
  <2> HIDE DEF RegisterTypes, CallTypes, DaemonTypes, ClientTypes, Entry
  <2>5. \/ k \in Used
        \/ \E s \in Session : \/ InSeq(known[s], k, r) \/ InSeq(queue[s], k, r)
                              \/ \E e \in asked[s] : e.key = k /\ e.reg = r
        \/ InSeq(batch, k, r)
        \/ \E t \in Thread : Sending(t) /\ call[t].key = k
    BY <1>3 DEF KnownAs
  <2> QED BY <2>1, <2>2, <2>3, <2>4, <2>5
<1> QED
  BY <1>3, SmallFacts DEF Given, CallFits

\* A step that gives out no key and begins no registration.
LEMMA RegisteringMoves ==
  ASSUME Registering, CallTypes', CallsKept, DaemonTypes', ClientTypes', made' = made,
         \A k \in Used' : k \in Used /\ register'[k] = register[k],
         \A s \in Session : \A k, r :
            /\ InSeq(known'[s], k, r) => KnownAs(k, r)
            /\ InSeq(queue'[s], k, r) => KnownAs(k, r),
         \A s \in Session : \A e \in asked'[s] : KnownAs(e.key, e.reg),
         \A k, r : InSeq(batch', k, r) => KnownAs(k, r),
         \E j : Given(j) /\ index' <= j,
         turn' # None => Given(turn'.entry.key),
         \A t \in Thread : call'[t].at = "drop" => Given(call'[t].key)
  PROVE  Registering'
<1>1. \A k, r : KnownAs(k, r)' => KnownAs(k, r)
  BY KnownKept
<1>2. OneKey'
  BY <1>1, OneKeyKept DEF Registering
<1>3. RegisterTypes'
  BY DEF RegisterTypes
<1>4. ASSUME NEW k, Given(k)' PROVE k \in Nat /\ \E j : Given(j) /\ k <= j
  <2>1. k = index' \/ Given(k)
    BY <1>1, <1>4, KnownPlaces DEF Given
  <2>2. index' \in Nat
    BY DEF ClientTypes
  <2>3. Given(k) => k \in Nat
    BY GivenNat DEF Registering
  <2> QED BY <2>1, <2>2, <2>3
<1>5. KeysSuffice'
  BY <1>4, KeysKept DEF Registering, RegisterTypes, ClientTypes
<1> QED
  BY <1>2, <1>3, <1>5 DEF Registering

\* So does a step of a call that edits no register.
LEMMA CallStep ==
  ASSUME Registering, NEW t \in Thread, NEW c \in Call \cup {Nothing}, CallFits(c),
         call' = [call EXCEPT ![t] = c],
         c.op = "register" => /\ IsRegister(t)
                              /\ c.reg = call[t].reg /\ c.callback = call[t].callback
                              /\ c.at = "send" <=> call[t].at = "send"
                              /\ c.at = "send" => c.key = call[t].key,
         c.at = "drop" => Given(c.key),
         UNCHANGED <<register, index, made, known, queue, asked, batch, turn, received>>,
         heard' \in [Key -> Nat], overlapped' \in BOOLEAN
  PROVE  Registering' /\ CallsKept
<1>1. CallTypes' /\ CallsKept
  BY CallChanges DEF Registering, RegisterTypes
<1>2. DaemonTypes' /\ ClientTypes'
  BY DEF Registering, RegisterTypes, DaemonTypes, ClientTypes
<1>3. \A u \in Thread : call'[u].at = "drop" => Given(call'[u].key)
  <2>1. \A u \in Thread : call'[u] = IF u = t THEN c ELSE call[u]
    BY DEF Registering, RegisterTypes, CallTypes
  <2> QED BY <2>1, KnownPlaces
<1>4. \E j : Given(j) /\ index' <= j
  BY KnownPlaces DEF Registering, RegisterTypes, ClientTypes
<1>5. \A k \in Used' : k \in Used /\ register'[k] = register[k]
  BY DEF Used
<1> QED
  BY <1>1, <1>2, <1>3, <1>4, <1>5, KnownPlaces, RegisteringMoves

LEMMA RegisteringSame ==
  ASSUME Registering,
         UNCHANGED <<register, index, made, call, known, queue, asked, batch, turn, heard, overlapped>>,
         received' => batch = <<>>
  PROVE  Registering'
<1>1. CallTypes' /\ CallsKept
  BY CallSame DEF Registering, RegisterTypes
<1>2. DaemonTypes' /\ ClientTypes'
  BY DEF Registering, RegisterTypes, DaemonTypes, ClientTypes
<1>4. \E j : Given(j) /\ index' <= j
  BY KnownPlaces DEF Registering, RegisterTypes, ClientTypes
<1>5. \A k \in Used' : k \in Used /\ register'[k] = register[k]
  BY DEF Used
<1> QED
  BY <1>1, <1>2, <1>4, <1>5, KnownPlaces, RegisteringMoves

-----------------------------------------------------------------------------
(* The steps, one by one.                                                  *)

\* A key that is not in use and follows the last one that was given out.
LEMMA NextKeyIsFree ==
  ASSUME Registering, NEW t \in Thread, Unsent(t)
  PROVE  /\ NextKey \in Key /\ register[NextKey] = None
         /\ NextKey + Cardinality(Waiting) <= made + 1
<1> DEFINE C == Cardinality(Waiting)
           b == made + 1 - C
           Vacant(k) == k \in Key /\ k > index /\ register[k] = None
           S == {n \in Nat : \A k : Vacant(k) /\ k <= n =>
                                \E m : Vacant(m) /\ \A j : Vacant(j) => m <= j}
<1>1. /\ C \in Nat /\ made \in Nat /\ index \in Nat /\ made <= MaxMade
      /\ Waiting \subseteq 1 .. made /\ call[t].reg \in Waiting
  BY WaitingFinite, SmallFacts DEF Registering, RegisterTypes, ClientTypes
<1>2. C >= 1
  BY <1>1, FS_EmptySet, WaitingFinite DEF Registering, RegisterTypes
<1>3. index + C <= made
  BY KnownPlaces DEF Registering, KeysSuffice
<1>4. \A k \in Used : k + C <= made
  BY KnownPlaces DEF Registering, KeysSuffice
<1> HIDE DEF C
<1>5. b \in Nat /\ b \in Key /\ b > index /\ b + C = made + 1
  BY <1>1, <1>2, <1>3, SmallFacts
<1>6. register[b] = None
  <2>1. b \notin Used
    BY <1>1, <1>4, <1>5
  <2> QED BY <1>5, <2>1 DEF Used
<1> HIDE DEF b
<1>7. Vacant(b)
  BY <1>5, <1>6
<1>8. 0 \in S
  BY SmallFacts
<1>9. ASSUME NEW n \in Nat, n \in S PROVE n + 1 \in S
  <2> SUFFICES ASSUME NEW k, Vacant(k), k <= n + 1
               PROVE  \E m : Vacant(m) /\ \A j : Vacant(j) => m <= j
    OBVIOUS
  <2>1. CASE \E j : Vacant(j) /\ j < k
    <3>1. PICK j : Vacant(j) /\ j < k
      BY <2>1
    <3>2. j <= n
      BY <3>1, SmallFacts
    <3> QED BY <1>9, <3>1, <3>2
  <2>2. CASE ~\E j : Vacant(j) /\ j < k
    BY <2>2, SmallFacts
  <2> QED BY <2>1, <2>2
<1>10. b \in S
  <2> HIDE DEF S
  <2>1. Nat \subseteq S
    BY <1>8, <1>9, NatSetInduction
  <2> QED BY <1>5, <2>1
<1>11. PICK m : Vacant(m) /\ \A j : Vacant(j) => m <= j
  BY <1>5, <1>7, <1>10
<1>12. /\ NextKey \in Key /\ NextKey > index /\ register[NextKey] = None
       /\ \A j \in Key : j > index /\ register[j] = None => NextKey <= j
  BY <1>11 DEF NextKey
<1>13. NextKey <= b
  BY <1>5, <1>6, <1>12
<1> QED
  BY <1>1, <1>5, <1>12, <1>13, SmallFacts DEF C

\* Enter with the call it makes.
Entered(op, c, r) ==
  [op |-> op, at |-> IF server = 0 /\ keepAlive THEN "establish" ELSE
                     IF op = "respond" THEN "send" ELSE "edit",
   callback |-> c, reg |-> r, key |-> 0, left |-> 0]

LEMMA EnterStep ==
  ASSUME Registering, NEW t \in Thread, NEW op \in {"unregister", "respond", "relaunched"},
         NEW c \in Callback \cup {None},
         op = "unregister" => c \in Callback /\ kindOf[c] # "request",
         Enter(t, op, c, 0)
  PROVE  /\ call' = [call EXCEPT ![t] = Entered(op, c, 0)]
         /\ Entered(op, c, 0) \in Call /\ CallFits(Entered(op, c, 0))
         /\ Entered(op, c, 0).op # "register" /\ Entered(op, c, 0).at # "drop"
         /\ overlapped' \in BOOLEAN
<1>1. call' = [call EXCEPT ![t] = Entered(op, c, 0)] /\ overlapped' \in BOOLEAN
  BY DEF Enter, Overlaps, Entered, Registering, RegisterTypes, ClientTypes
<1>2. Entered(op, c, 0) \in Call
  BY SmallFacts DEF Entered, Call
<1> QED
  BY <1>1, <1>2 DEF Entered, CallFits

LEMMA RegisterStep ==
  ASSUME Registering, NEW t \in Thread, NEW c \in Callback, Register(t, c)
  PROVE  Registering'
<1> DEFINE n == Entered("register", c, made + 1)
<1>1. /\ call' = [call EXCEPT ![t] = n] /\ made' = made + 1 /\ made < MaxMade /\ ~Busy(t)
      /\ overlapped' \in BOOLEAN
      /\ UNCHANGED <<register, index, known, queue, asked, batch, turn, heard, received>>
  BY DEF Register, Enter, Overlaps, Entered, Free, serverVars, clientVars, runVars,
         Registering, RegisterTypes, ClientTypes
<1>2. /\ made \in Nat /\ made + 1 \in 0 .. MaxMade /\ made + 1 \in Nat
      /\ call \in [Thread -> Call \cup {Nothing}]
  BY <1>1, SmallFacts DEF Registering, RegisterTypes, ClientTypes, CallTypes
<1>3. /\ n \in Call /\ n.op = "register" /\ n.at \notin {"send", "drop"}
      /\ n.reg = made + 1 /\ n.callback = c
  BY <1>2, SmallFacts DEF Entered, Call
<1> HIDE DEF n
<1>4. /\ call' \in [Thread -> Call \cup {Nothing}] /\ call'[t] = n
      /\ \A u \in Thread : u # t => call'[u] = call[u]
  BY <1>1, <1>2, <1>3
<1>5. CallTypes'
  <2>1. ASSUME NEW u \in Thread PROVE CallFits(call[u])'
    <3>1. CASE u = t
      BY <1>1, <1>2, <1>3, <1>4, <3>1 DEF CallFits
    <3>2. CASE u # t
      <4>1. CallFits(call[u]) /\ call'[u] = call[u]
        BY <1>4, <3>2 DEF Registering, RegisterTypes, CallTypes
      <4>2. 1 .. made \subseteq 1 .. made'
        BY <1>1, <1>2
      <4> QED BY <4>1, <4>2 DEF CallFits
    <3> QED BY <3>1, <3>2
  <2> QED BY <1>4, <2>1 DEF CallTypes
<1>6. DaemonTypes' /\ ClientTypes'
  BY <1>1, <1>2 DEF Registering, RegisterTypes, DaemonTypes, ClientTypes
<1>7. \A k, r : KnownAs(k, r)' => KnownAs(k, r)
  <2>1. \A u \in Thread : Sending(u)' =>
          Sending(u) /\ call'[u].key = call[u].key /\ call'[u].reg = call[u].reg
    BY <1>3, <1>4 DEF Sending, IsRegister
  <2>2. Used' = Used
    BY <1>1 DEF Used
  <2> QED BY <1>1, <2>1, <2>2 DEF KnownAs, InSeq
<1>8. ~IsRegister(t)
  BY <1>1 DEF Busy, IsRegister, Nothing
<1>9. OneKey'
  <2>1. \A k, j, r : KnownAs(k, r)' /\ KnownAs(j, r)' => k = j
    BY <1>7 DEF Registering, OneKey
  <2>2. \A k, r : KnownAs(k, r)' => r \in 1 .. made /\ r \in 1 .. made'
    BY <1>1, <1>2, <1>7 DEF Registering, OneKey
  <2>3. ASSUME NEW u \in Thread, Unsent(u)' PROVE \A k : ~KnownAs(k, call[u].reg)'
    <3>1. CASE u = t
      <4>1. call'[u].reg \notin 1 .. made
        BY <1>2, <1>3, <1>4, <3>1
      <4> QED BY <4>1, <2>2
    <3>2. CASE u # t
      BY <1>4, <1>7, <2>3, <3>2 DEF Registering, OneKey, Unsent, IsRegister
    <3> QED BY <3>1, <3>2
  <2>4. ASSUME NEW u \in Thread, NEW v \in Thread, IsRegister(u)', IsRegister(v)',
               call'[u].reg = call'[v].reg
        PROVE  u = v
    <3>1. \A x \in Thread : x # t /\ IsRegister(x)' => call'[x].reg \in 1 .. made
      BY <1>4 DEF Registering, RegisterTypes, CallTypes, CallFits, IsRegister
    <3>2. call'[t].reg \notin 1 .. made
      BY <1>2, <1>3, <1>4
    <3> QED BY <1>4, <2>4, <3>1, <3>2 DEF Registering, OneKey, IsRegister
  <2> QED BY <2>1, <2>2, <2>3, <2>4 DEF OneKey
<1>10. KeysSuffice'
  <2>1. /\ IsFiniteSet(Waiting) /\ Cardinality(Waiting) \in Nat
    BY <1>2, WaitingFinite DEF Registering, RegisterTypes
  <2>2. Waiting' \subseteq Waiting \cup {made + 1}
    BY <1>3, <1>4 DEF Waiting, Unsent, IsRegister
  <2>3. IsFiniteSet(Waiting \cup {made + 1})
        /\ Cardinality(Waiting \cup {made + 1}) <= Cardinality(Waiting) + 1
    <3>1. /\ IsFiniteSet(Waiting \cup {made + 1})
          /\ Cardinality(Waiting \cup {made + 1}) =
               IF made + 1 \in Waiting THEN Cardinality(Waiting) ELSE Cardinality(Waiting) + 1
      BY <2>1, FS_AddElement
    <3> QED BY <2>1, <3>1
  <2>4. Cardinality(Waiting') \in Nat /\ Cardinality(Waiting') <= Cardinality(Waiting) + 1
    <3>1. IsFiniteSet(Waiting')
          /\ Cardinality(Waiting') <= Cardinality(Waiting \cup {made + 1})
      BY <2>2, <2>3, FS_Subset
    <3> QED BY <2>1, <2>3, <3>1, FS_CardinalityType
  <2>5. ASSUME NEW k, Given(k)' PROVE k \in Nat /\ k + Cardinality(Waiting) <= made
    <3>1. Given(k)
      BY <1>1, <1>3, <1>4, <1>7, <2>5 DEF Given
    <3> QED BY <3>1 DEF Registering, KeysSuffice
  <2>6. ASSUME NEW k, Given(k)' PROVE k \in Nat /\ k + Cardinality(Waiting') <= made'
    <3>1. k \in Nat /\ k + Cardinality(Waiting) <= made
      BY <2>5, <2>6
    <3> QED BY <1>1, <1>2, <2>1, <2>4, <3>1
  <2> QED BY <2>6 DEF KeysSuffice
<1> QED
  BY <1>5, <1>6, <1>9, <1>10 DEF Registering, RegisterTypes

LEMMA CallIs ==
  ASSUME Registering, NEW t \in Thread
  PROVE  /\ CallFits(call[t])
         /\ call[t].op # "none" \/ call[t].at # "none" => call[t] \in Call
         /\ call[t] \in Call => call[t].op # "none" /\ call[t].at # "none"
         /\ call[t] \in Call \/ call[t] = Nothing
BY SmallFacts DEF Registering, RegisterTypes, CallTypes, Call

Edited(c, at, key) == [c EXCEPT !.at = at, !.key = key]
LEMMA CallEdited ==
  ASSUME NEW c \in Call, NEW at \in {"establish", "schedule", "again", "edit", "drop", "send"},
         NEW key \in 0 .. MaxMade
  PROVE  /\ Edited(c, at, key) \in Call
         /\ Edited(c, at, key).op = c.op
         /\ Edited(c, at, key).callback = c.callback
         /\ Edited(c, at, key).reg = c.reg
         /\ Edited(c, at, key).at = at
         /\ Edited(c, at, key).key = key
BY DEF Call, Edited

\* No request is taken over by a call.
Steady == \A t \in Thread : (Fails(t))' => Fails(t) /\ call'[t].reg = call[t].reg

LEMMA CallsSteady == CallsKept => Steady
BY DEF CallsKept, Steady, Fails, IsRegister

LEMMA AddStep ==
  ASSUME Registering, NEW t \in Thread, Add(t)
  PROVE  Registering' /\ Steady
<1> DEFINE c == call[t]
           n == [c EXCEPT !.at = "send", !.key = NextKey]
           rec == [callback |-> c.callback, reg |-> c.reg]
           C == Cardinality(Waiting)
<1>1. /\ c.op = "register" /\ c.at = "edit"
      /\ register' = [register EXCEPT ![NextKey] = rec] /\ index' = NextKey
      /\ call' = [call EXCEPT ![t] = n]
      /\ UNCHANGED <<made, known, queue, asked, batch, turn, heard, overlapped, received>>
  BY DEF Add, serverVars, runVars, historyVars
<1>2. /\ NextKey \in Key /\ register[NextKey] = None /\ NextKey + C <= made + 1
  BY <1>1, NextKeyIsFree DEF Unsent, IsRegister
<1>3. /\ c \in Call /\ c.callback \in Callback /\ c.reg \in 1 .. made
      /\ made \in Nat /\ made <= MaxMade
  BY <1>1, CallIs DEF CallFits, Registering, RegisterTypes, ClientTypes
<1>4. /\ n \in Call /\ n.op = "register" /\ n.at = "send" /\ n.key = NextKey
      /\ n.reg = c.reg /\ n.callback = c.callback
  <2>1. NextKey \in 0 .. MaxMade
    BY <1>2, SmallFacts
  <2> HIDE DEF c
  <2>2. /\ Edited(c, "send", NextKey) \in Call
        /\ Edited(c, "send", NextKey).op = c.op
        /\ Edited(c, "send", NextKey).callback = c.callback
        /\ Edited(c, "send", NextKey).reg = c.reg
        /\ Edited(c, "send", NextKey).at = "send"
        /\ Edited(c, "send", NextKey).key = NextKey
    BY <1>3, <2>1, CallEdited
  <2> QED BY <1>1, <2>2 DEF Edited
<1>5. rec \in Record /\ rec.reg = c.reg /\ rec # None
  BY <1>3, SmallFacts, NoneAssumption DEF Record
<1>6. C \in Nat /\ IsFiniteSet(Waiting) /\ c.reg \in Waiting
  BY <1>1, <1>3, WaitingFinite DEF Registering, RegisterTypes, Unsent, IsRegister
<1> HIDE DEF n, rec, C
<1>7. /\ call' \in [Thread -> Call \cup {Nothing}] /\ call'[t] = n
      /\ \A u \in Thread : u # t => call'[u] = call[u]
  BY <1>1, <1>4 DEF Registering, RegisterTypes, CallTypes
<1>8. CallTypes'
  <2>1. ASSUME NEW u \in Thread PROVE CallFits(call[u])'
    <3>1. CASE u = t
      BY <1>1, <1>2, <1>3, <1>4, <1>7, <3>1 DEF CallFits
    <3>2. CASE u # t
      <4>1. CallFits(call[u]) /\ call'[u] = call[u]
        BY <1>7, <3>2, CallIs
      <4> QED BY <4>1, <1>1 DEF CallFits
    <3> QED BY <3>1, <3>2
  <2> QED BY <1>7, <2>1 DEF CallTypes
<1>9. DaemonTypes'
  BY <1>1 DEF Registering, RegisterTypes, DaemonTypes
<1>10. /\ register' \in [Key -> Record \cup {None}] /\ register'[NextKey] = rec
       /\ \A k \in Key : k # NextKey => register'[k] = register[k]
  BY <1>1, <1>2, <1>5 DEF Registering, RegisterTypes, ClientTypes
<1>11. ClientTypes'
  BY <1>1, <1>2, <1>10, SmallFacts DEF Registering, RegisterTypes, ClientTypes
<1>12. \A k, r : KnownAs(k, r)' => KnownAs(k, r) \/ (k = NextKey /\ r = c.reg)
  <2> SUFFICES ASSUME NEW k, NEW r, KnownAs(k, r)', ~(k = NextKey /\ r = c.reg)
               PROVE  KnownAs(k, r)
    OBVIOUS
  <2>1. CASE k \in Used' /\ register'[k].reg = r
    <3>1. k # NextKey
      BY <1>5, <1>10, <2>1
    <3> QED BY <1>10, <2>1, <3>1 DEF KnownAs, Used
  <2>2. CASE \E u \in Thread : Sending(u)' /\ call'[u].key = k /\ call'[u].reg = r
    BY <1>4, <1>7, <2>2 DEF KnownAs, Sending, IsRegister
  <2>3. CASE \/ \E s \in Session : \/ InSeq(known[s], k, r) \/ InSeq(queue[s], k, r)
                                   \/ \E e \in asked[s] : e.key = k /\ e.reg = r
             \/ InSeq(batch, k, r)
    BY <2>3 DEF KnownAs
  <2> QED BY <1>1, <2>1, <2>2, <2>3 DEF KnownAs, InSeq
<1>13. \A k : ~KnownAs(k, c.reg)
  BY <1>1 DEF Registering, OneKey, Unsent, IsRegister
<1>14. OneKey'
  <2>1. \A k, j, r : KnownAs(k, r)' /\ KnownAs(j, r)' => k = j
    BY <1>12, <1>13 DEF Registering, OneKey
  <2>2. \A k, r : KnownAs(k, r)' => r \in 1 .. made'
    BY <1>1, <1>3, <1>12 DEF Registering, OneKey
  <2>3. ASSUME NEW u \in Thread, Unsent(u)' PROVE \A k : ~KnownAs(k, call[u].reg)'
    <3>1. u # t /\ Unsent(u) /\ call'[u] = call[u]
      BY <1>4, <1>7, <2>3 DEF Unsent, IsRegister
    <3>2. call[u].reg # c.reg
      BY <1>1, <3>1 DEF Registering, OneKey, Unsent, IsRegister
    <3> QED BY <1>12, <3>1, <3>2 DEF Registering, OneKey
  <2>4. \A u, v \in Thread :
          IsRegister(u)' /\ IsRegister(v)' /\ call'[u].reg = call'[v].reg => u = v
    <3>1. \A u \in Thread : IsRegister(u)' => IsRegister(u) /\ call'[u].reg = call[u].reg
      BY <1>1, <1>4, <1>7 DEF IsRegister
    <3> QED BY <3>1 DEF Registering, OneKey
  <2> QED BY <2>1, <2>2, <2>3, <2>4 DEF OneKey
<1>15. KeysSuffice'
  <2>1. Waiting' \subseteq Waiting \ {c.reg}
    <3>1. \A u \in Thread : Unsent(u)' => u # t /\ Unsent(u) /\ call'[u] = call[u]
      BY <1>4, <1>7 DEF Unsent, IsRegister
    <3>2. \A u \in Thread : Unsent(u) /\ u # t => call[u].reg # c.reg
      BY <1>1 DEF Registering, OneKey, Unsent, IsRegister
    <3> QED BY <3>1, <3>2 DEF Waiting
  <2>2. IsFiniteSet(Waiting \ {c.reg}) /\ Cardinality(Waiting \ {c.reg}) = C - 1
    BY <1>6, FS_RemoveElement DEF C
  <2>3. IsFiniteSet(Waiting') /\ Cardinality(Waiting') <= C - 1 /\ Cardinality(Waiting') \in Nat
    BY <2>1, <2>2, FS_Subset, FS_CardinalityType
  <2>4. ASSUME NEW k, Given(k)' PROVE k = NextKey \/ Given(k)
    BY <1>1, <1>4, <1>7, <1>12, <2>4 DEF Given
  <2>5. \A k : Given(k) => k \in Nat /\ k + C <= made
    BY DEF Registering, KeysSuffice, C
  <2>6. ASSUME NEW k, Given(k)' PROVE k \in Nat /\ k + Cardinality(Waiting') <= made'
    <3>1. k \in Nat /\ k + C <= made + 1
      BY <1>2, <1>3, <1>6, <2>4, <2>5, <2>6, SmallFacts
    <3> QED BY <1>1, <1>3, <1>6, <2>3, <3>1
  <2> QED BY <2>6 DEF KeysSuffice
<1>16. Steady
  BY <1>1, <1>4, <1>7 DEF Steady, Fails
<1> QED
  BY <1>8, <1>9, <1>11, <1>14, <1>15, <1>16 DEF Registering, RegisterTypes

\* A call that goes on.
Place == {"establish", "schedule", "again", "edit", "drop", "send"}
Moved(c, at, key, left) == [c EXCEPT !.at = at, !.key = key, !.left = left]
LEMMA CallMoved ==
  ASSUME NEW c \in Call, NEW at \in Place,
         NEW key \in 0 .. MaxMade, NEW left \in 0 .. MaxMade
  PROVE  /\ Moved(c, at, key, left) \in Call
         /\ Moved(c, at, key, left).op = c.op
         /\ Moved(c, at, key, left).callback = c.callback
         /\ Moved(c, at, key, left).reg = c.reg
         /\ Moved(c, at, key, left).at = at
         /\ Moved(c, at, key, left).key = key
BY DEF Call, Moved, Place

\* The forms it is written in.
LEMMA MovedForms ==
  ASSUME NEW c \in Call, NEW at, NEW key, NEW left
  PROVE  /\ [c EXCEPT !.at = at] = Moved(c, at, c.key, c.left)
         /\ [c EXCEPT !.at = at, !.key = key] = Moved(c, at, key, c.left)
         /\ [c EXCEPT !.key = key, !.left = left] = Moved(c, c.at, key, left)
         /\ [c EXCEPT !.at = at, !.key = key, !.left = left] = Moved(c, at, key, left)
         /\ c.key \in 0 .. MaxMade /\ c.left \in 0 .. MaxMade
         /\ c.at \in Place
BY DEF Call, Moved, Place

\* A call that is neither registered nor edited on the way.
LEMMA MoveStep ==
  ASSUME Registering, NEW t \in Thread, NEW c \in Call, call[t] = c,
         NEW at \in Place,
         NEW key \in 0 .. MaxMade, NEW left \in 0 .. MaxMade,
         call' = [call EXCEPT ![t] = Moved(c, at, key, left)],
         c.op = "register" => c.at # "send" /\ at # "send",
         at = "drop" => c.op = "unregister" /\ key \in Used,
         UNCHANGED <<register, index, made, known, queue, asked, batch, turn, received,
                     heard, overlapped>>
  PROVE  Registering' /\ CallsKept
<1> DEFINE n == Moved(c, at, key, left)
<1>1. /\ n \in Call /\ n.op = c.op /\ n.callback = c.callback /\ n.reg = c.reg
      /\ n.at = at /\ n.key = key
  BY CallMoved
<1>2. call' = [call EXCEPT ![t] = n]
  OBVIOUS
<1> HIDE DEF n
<1>3. CallFits(n)
  BY <1>1, CallIs DEF CallFits, Used
<1>4. n.at = "drop" => Given(n.key)
  BY <1>1, KnownPlaces
<1>5. n.op = "register" => /\ IsRegister(t)
                           /\ n.reg = call[t].reg /\ n.callback = call[t].callback
                           /\ n.at = "send" <=> call[t].at = "send"
                           /\ n.at = "send" => n.key = call[t].key
  BY <1>1 DEF IsRegister
<1>6. heard' \in [Key -> Nat] /\ overlapped' \in BOOLEAN
  BY DEF Registering, RegisterTypes, ClientTypes
<1>7. n \in Call \cup {Nothing}
  BY <1>1
<1> QED
  BY <1>2, <1>3, <1>4, <1>5, <1>6, <1>7, CallStep

\* A call that returns.
LEMMA ReturnStep ==
  ASSUME Registering, NEW t \in Thread, NEW failed, Return(t, failed),
         UNCHANGED <<register, index, made, known, queue, asked, batch, turn, received, overlapped>>
  PROVE  Registering' /\ CallsKept
<1>1. heard \in [Key -> Nat] /\ overlapped' \in BOOLEAN
  BY DEF Registering, RegisterTypes, ClientTypes
<1>2. heard' \in [Key -> Nat]
  <2>1. ASSUME NEW r PROVE [heard EXCEPT ![r] = @ + 1] \in [Key -> Nat]
    <3>1. CASE r \in Key
      BY <1>1, <3>1
    <3>2. CASE r \notin Key
      BY <1>1, <3>2
    <3> QED BY <3>1, <3>2
  <2>2. \/ heard' = [heard EXCEPT ![call[t].reg] = @ + 1] \/ heard' = heard
    BY DEF Return
  <2> QED BY <1>1, <2>1, <2>2
<1>3. call' = [call EXCEPT ![t] = Nothing]
  BY DEF Return
<1> QED
  BY <1>1, <1>2, <1>3, SmallFacts, CallStep

LEMMA CallsGoOn ==
  ASSUME Registering, NEW t \in Thread,
         Establish(t) \/ Schedule(t) \/ Recreated(t) \/ Find(t) \/ Send(t)
  PROVE  Registering' /\ CallsKept
<1> DEFINE c == call[t]
<1>0. Count \in 0 .. MaxMade
  <2>1. Used \subseteq 1 .. MaxMade /\ MaxMade \in Nat
    BY ConstantAssumption DEF Used, Key
  <2>2. IsFiniteSet(1 .. MaxMade) /\ Cardinality(1 .. MaxMade) = MaxMade
    <3>1. 0 \in Int /\ MaxMade \in Int
      BY <2>1
    <3> QED BY <2>1, <3>1, FS_Interval
  <2>3. Cardinality(Used) <= MaxMade /\ Cardinality(Used) \in Nat
    BY <2>1, <2>2, FS_Subset, FS_CardinalityType
  <2> QED BY <2>1, <2>3 DEF Count
<1>1. ASSUME c.at # "none" \/ c.op # "none"
      PROVE  c \in Call
  BY <1>1, CallIs
<1>c. c = call[t]
  OBVIOUS
<1>2. CASE Establish(t)
  <2>1. c.at = "establish" /\ call' = [call EXCEPT ![t] = [c EXCEPT !.at = "schedule"]]
    BY <1>2 DEF Establish
  <2>2. UNCHANGED <<register, index, made, known, queue, asked, batch, turn, received,
                    heard, overlapped>>
    BY <1>2 DEF Establish, serverVars, runVars, historyVars
  <2>3. c \in Call
    BY <1>1, <2>1
  <2> HIDE DEF c
  <2>4. call' = [call EXCEPT ![t] = Moved(c, "schedule", c.key, c.left)]
    BY <2>1, <2>3, MovedForms
  <2>5. /\ "schedule" \in Place /\ c.key \in 0 .. MaxMade /\ c.left \in 0 .. MaxMade
        /\ c.op = "register" => c.at # "send" /\ "schedule" # "send"
        /\ "schedule" = "drop" => c.op = "unregister" /\ c.key \in Used
    BY <2>1, <2>3, MovedForms DEF Place
  <2> QED BY <2>2, <2>3, <2>4, <2>5, <1>c, MoveStep
<1>3. CASE Schedule(t)
  <2>1. /\ c.at = "schedule"
        /\ call' = [call EXCEPT ![t] = [c EXCEPT !.at = "again", !.key = 0, !.left = Count]]
    BY <1>3 DEF Schedule
  <2>2. UNCHANGED <<register, index, made, known, queue, asked, batch, turn, received,
                    heard, overlapped>>
    BY <1>3 DEF Schedule, serverVars, clientVars, runVars, historyVars
  <2>3. c \in Call /\ 0 \in 0 .. MaxMade
    BY <1>1, <2>1, SmallFacts
  <2> HIDE DEF c
  <2>4. call' = [call EXCEPT ![t] = Moved(c, "again", 0, Count)]
    BY <2>1 DEF Moved
  <2>5. /\ "again" \in Place /\ 0 \in 0 .. MaxMade
        /\ c.op = "register" => c.at # "send" /\ "again" # "send"
        /\ "again" = "drop" => c.op = "unregister" /\ 0 \in Used
    BY <2>1, <2>3 DEF Place
  <2> QED BY <1>0, <2>2, <2>3, <2>4, <2>5, <1>c, MoveStep
<1>4. CASE Recreated(t)
  <2>1. /\ c.at \in {"again", "establish"}
        /\ UNCHANGED <<register, index, made, known, queue, asked, batch, turn, received,
                       overlapped>>
    BY <1>4 DEF Recreated, serverVars, clientVars, runVars
  <2>2. CASE Return(t, TRUE)
    BY <2>1, <2>2, ReturnStep
  <2>3. CASE ~Return(t, TRUE)
    <3> DEFINE at == IF c.op = "respond" THEN "send" ELSE "edit"
    <3>1. call' = [call EXCEPT ![t] = [c EXCEPT !.at = at, !.key = 0]] /\ heard' = heard
      BY <1>4, <2>3 DEF Recreated
    <3>2. c \in Call /\ 0 \in 0 .. MaxMade
      BY <1>1, <2>1, SmallFacts
    <3>3. at \in {"edit", "send"} /\ (c.op = "register" => at # "send")
      OBVIOUS
    <3> HIDE DEF at, c
    <3>4. [c EXCEPT !.at = at, !.key = 0] = Moved(c, at, 0, c.left)
      BY <3>2, MovedForms
    <3>5. call' = [call EXCEPT ![t] = Moved(c, at, 0, c.left)]
      BY <3>1, <3>4
    <3>6. /\ at \in Place /\ c.left \in 0 .. MaxMade
          /\ c.op = "register" => c.at # "send" /\ at # "send"
          /\ at = "drop" => c.op = "unregister" /\ 0 \in Used
      BY <2>1, <3>2, <3>3, MovedForms DEF Place
    <3>7. UNCHANGED <<register, index, made, known, queue, asked, batch, turn, received,
                      heard, overlapped>>
      BY <2>1, <3>1
    <3> QED BY <3>2, <3>5, <3>6, <3>7, <1>c, MoveStep
  <2> QED BY <2>2, <2>3
<1>5. CASE Find(t)
  <2>1. /\ c.op = "unregister" /\ c.at = "edit"
        /\ UNCHANGED <<register, index, made, known, queue, asked, batch, turn, received,
                       heard, overlapped>>
    BY <1>5 DEF Find, serverVars, clientVars, runVars, historyVars
  <2>2. c \in Call
    BY <1>1, <2>1
  <2>3. CASE \E k \in Used : call' = [call EXCEPT ![t] = [c EXCEPT !.at = "drop", !.key = k]]
    <3>1. PICK k \in Used : call' = [call EXCEPT ![t] = [c EXCEPT !.at = "drop", !.key = k]]
      BY <2>3
    <3>2. k \in 0 .. MaxMade
      BY SmallFacts DEF Used
    <3> HIDE DEF c
    <3>4. [c EXCEPT !.at = "drop", !.key = k] = Moved(c, "drop", k, c.left)
      BY <2>2, MovedForms
    <3>3. call' = [call EXCEPT ![t] = Moved(c, "drop", k, c.left)]
      BY <3>1, <3>4
    <3>5. /\ "drop" \in Place /\ c.left \in 0 .. MaxMade
          /\ c.op = "register" => c.at # "send" /\ "drop" # "send"
          /\ "drop" = "drop" => c.op = "unregister" /\ k \in Used
      BY <2>1, <2>2, <3>1, MovedForms DEF Place
    <3> QED BY <2>1, <2>2, <3>2, <3>3, <3>5, <1>c, MoveStep
  <2>4. CASE call' = [call EXCEPT ![t] = [c EXCEPT !.at = "send"]]
    <3> HIDE DEF c
    <3>1. call' = [call EXCEPT ![t] = Moved(c, "send", c.key, c.left)]
      BY <2>2, <2>4, MovedForms
    <3>5. /\ "send" \in Place /\ c.left \in 0 .. MaxMade /\ c.key \in 0 .. MaxMade
          /\ c.op = "register" => c.at # "send" /\ "send" # "send"
          /\ "send" = "drop" => c.op = "unregister" /\ c.key \in Used
      BY <2>1, <2>2, MovedForms DEF Place
    <3> QED BY <2>1, <2>2, <3>1, <3>5, <1>c, MoveStep
  <2> QED BY <1>5, <2>3, <2>4 DEF Find
<1>6. CASE Send(t)
  <2>1. Return(t, FALSE)
    BY <1>6 DEF Send
  <2>2. UNCHANGED <<register, index, made, known, queue, asked, batch, turn, received, overlapped>>
    BY <1>6 DEF Send, serverVars, clientVars, runVars
  <2> QED BY <2>1, <2>2, ReturnStep
<1> QED
  BY <1>2, <1>3, <1>4, <1>5, <1>6

LEMMA CallsBegin ==
  ASSUME Registering,
         Relaunched \/ \E t \in Thread, c \in Callback : Unregister(t, c)
  PROVE  Registering' /\ CallsKept
<1>0. heard \in [Key -> Nat] /\ overlapped \in BOOLEAN /\ (received => batch = <<>>)
  BY DEF Registering, RegisterTypes, ClientTypes
<1>1. ASSUME NEW t \in Thread, NEW op \in {"unregister", "relaunched"}, NEW c \in Callback \cup {None},
             op = "unregister" => c \in Callback /\ kindOf[c] # "request",
             Enter(t, op, c, 0),
             UNCHANGED <<register, index, made, known, queue, asked, batch, turn, received, heard>>
      PROVE  Registering' /\ CallsKept
  <2> DEFINE n == Entered(op, c, 0)
  <2>1. /\ call' = [call EXCEPT ![t] = n] /\ n \in Call /\ CallFits(n)
        /\ n.op # "register" /\ n.at # "drop" /\ overlapped' \in BOOLEAN
    BY <1>1, EnterStep
  <2> HIDE DEF n
  <2> QED BY <1>0, <1>1, <2>1, CallStep
<1>2. ASSUME NEW t \in Thread, NEW c \in Callback, Unregister(t, c)
      PROVE  Registering' /\ CallsKept
  <2>1. /\ Enter(t, "unregister", c, 0) /\ kindOf[c] # "request"
        /\ UNCHANGED <<register, index, made, known, queue, asked, batch, turn, received, heard>>
    BY <1>2 DEF Unregister, serverVars, clientVars, runVars
  <2> QED BY <1>1, <2>1
<1>3. CASE Relaunched
  <2>1. UNCHANGED <<register, index, made, known, queue, asked, batch, turn, received, heard>>
    BY <1>3 DEF Relaunched, serverVars, runVars
  <2>2. CASE server = 0
    <3>1. Enter(Queue, "relaunched", None, 0) /\ Queue \in Thread
      BY <1>3, <2>2, ConstantAssumption DEF Relaunched
    <3> QED BY <1>1, <2>1, <3>1
  <2>3. CASE server # 0
    <3>1. UNCHANGED <<call, overlapped>>
      BY <1>3, <2>3 DEF Relaunched
    <3>2. CallsKept
      BY <2>1, <3>1, CallSame DEF Registering, RegisterTypes
    <3> QED BY <1>0, <2>1, <3>1, <3>2, RegisteringSame
  <2> QED BY <2>2, <2>3
<1> QED BY <1>2, <1>3

\* A key is let go, by a step that leaves the daemon alone.
LEMMA RemoveStep ==
  ASSUME Registering, CallTypes', CallsKept, NEW k \in Key, Given(k), RemoveKey(k),
         UNCHANGED <<made, known, queue, asked, batch, received>>,
         turn' \in {None, turn},
         heard' \in [Key -> Nat], overlapped' \in BOOLEAN,
         \A t \in Thread : call'[t].at = "drop" => call'[t] = call[t]
  PROVE  Registering'
<1>1. /\ register' = [register EXCEPT ![k] = None] /\ index' = k - 1
      /\ register \in [Key -> Record \cup {None}]
      /\ k \in Nat /\ 1 <= k /\ k <= MaxMade /\ MaxMade \in Nat
  BY SmallFacts DEF RemoveKey, Registering, RegisterTypes, ClientTypes
<1>2. register' \in [Key -> Record \cup {None}] /\ index' \in 0 .. MaxMade
  BY <1>1
<1>3. \A j \in Used' : j \in Used /\ register'[j] = register[j]
  BY <1>1 DEF Used
<1>4. DaemonTypes' /\ ClientTypes'
  BY <1>2 DEF Registering, RegisterTypes, DaemonTypes, ClientTypes
<1>5. \E j : Given(j) /\ index' <= j
  BY <1>1
<1>6. turn' # None => Given(turn'.entry.key)
  BY KnownPlaces
<1>7. \A t \in Thread : call'[t].at = "drop" => Given(call'[t].key)
  BY KnownPlaces
<1> QED
  BY <1>3, <1>4, <1>5, <1>6, <1>7, KnownPlaces, RegisteringMoves

LEMMA DropStep ==
  ASSUME Registering, NEW t \in Thread, Drop(t)
  PROVE  Registering' /\ CallsKept
<1> DEFINE c == call[t]
<1>1. /\ c.op = "unregister" /\ c.at = "drop" /\ RemoveKey(c.key)
      /\ call' = [call EXCEPT ![t] = [c EXCEPT !.at = "send"]]
      /\ UNCHANGED <<made, known, queue, asked, batch, turn, heard, overlapped, received>>
  BY DEF Drop, serverVars, runVars, historyVars
<1>2. c \in Call /\ c.key \in Key /\ CallFits(c)
  BY <1>1, CallIs DEF CallFits
<1>3. Given(c.key)
  BY <1>1, KnownPlaces
<1>4. heard' \in [Key -> Nat] /\ overlapped' \in BOOLEAN
  BY <1>1 DEF Registering, RegisterTypes, ClientTypes
<1> DEFINE n == Moved(c, "send", c.key, c.left)
<1> HIDE DEF c
<1>5. call' = [call EXCEPT ![t] = n] /\ c.key \in 0 .. MaxMade /\ c.left \in 0 .. MaxMade
      /\ "send" \in Place
  BY <1>1, <1>2, MovedForms DEF Place
<1>6. n \in Call /\ n.op = c.op /\ n.at = "send" /\ n.callback = c.callback /\ n.reg = c.reg
  BY <1>2, <1>5, CallMoved
<1> HIDE DEF n
<1>7. CallFits(n)
  BY <1>1, <1>2, <1>6 DEF CallFits
<1>8. CallTypes' /\ CallsKept
  BY <1>1, <1>5, <1>6, <1>7, CallChanges DEF Registering, RegisterTypes
<1>9. \A u \in Thread : call'[u].at = "drop" => call'[u] = call[u]
  <2>1. \A u \in Thread : call'[u] = IF u = t THEN n ELSE call[u]
    BY <1>5 DEF Registering, RegisterTypes, CallTypes
  <2> QED BY <1>6, <2>1
<1> QED
  BY <1>1, <1>2, <1>3, <1>4, <1>8, <1>9, RemoveStep

\* An entry is added to the register of a session.
LEMMA KnownAppended ==
  ASSUME Registering, NEW s \in Session, NEW e \in Entry, e.kind # "request", KnownAs(e.key, e.reg),
         known' = [known EXCEPT ![s] = Append(@, e)]
  PROVE  /\ known' \in [Session -> Seq(Entry)]
         /\ \A x \in Session : \A i \in DOMAIN known'[x] : known'[x][i].kind # "request"
         /\ \A x \in Session : \A k, r : InSeq(known'[x], k, r) => KnownAs(k, r)
<1>1. /\ known \in [Session -> Seq(Entry)]
      /\ \A x \in Session : \A i \in DOMAIN known[x] : known[x][i].kind # "request"
  BY DEF Registering, RegisterTypes, DaemonTypes
<1>2. known[s] \in Seq(Entry) /\ Append(known[s], e) \in Seq(Entry)
  BY <1>1, AppendEntry
<1>3. \A x \in Session : known'[x] = IF x = s THEN Append(known[s], e) ELSE known[x]
  BY <1>1
<1>4. known' \in [Session -> Seq(Entry)]
  BY <1>1, <1>2
<1>5. ASSUME NEW x \in Session, NEW i \in DOMAIN known'[x] PROVE known'[x][i].kind # "request"
  BY <1>1, <1>2, <1>3, AppendEntry
<1>6. ASSUME NEW x \in Session, NEW k, NEW r, InSeq(known'[x], k, r) PROVE KnownAs(k, r)
  <2>1. CASE x = s
    <3>1. InSeq(Append(known[s], e), k, r)
      BY <1>3, <1>6, <2>1
    <3>2. InSeq(known[s], k, r) \/ (k = e.key /\ r = e.reg)
      BY <1>2, <3>1, InSequences
    <3> QED BY <3>2, KnownPlaces
  <2>2. CASE x # s
    BY <1>3, <1>6, <2>2, KnownPlaces
  <2> QED BY <2>1, <2>2
<1> QED BY <1>4, <1>5, <1>6

LEMMA QueueAppended ==
  ASSUME Registering, NEW s \in Session, NEW e \in Entry, KnownAs(e.key, e.reg),
         QueueCallback(s, e)
  PROVE  /\ queue' \in [Session -> Seq(Entry)]
         /\ \A x \in Session : \A k, r : InSeq(queue'[x], k, r) => KnownAs(k, r)
<1>1. queue \in [Session -> Seq(Entry)] /\ queue' = [queue EXCEPT ![s] = Append(@, e)]
  BY DEF Registering, RegisterTypes, DaemonTypes, QueueCallback
<1>2. queue[s] \in Seq(Entry) /\ Append(queue[s], e) \in Seq(Entry)
  BY <1>1, AppendEntry
<1>3. \A x \in Session : queue'[x] = IF x = s THEN Append(queue[s], e) ELSE queue[x]
  BY <1>1
<1>4. queue' \in [Session -> Seq(Entry)]
  BY <1>1, <1>2
<1>6. ASSUME NEW x \in Session, NEW k, NEW r, InSeq(queue'[x], k, r) PROVE KnownAs(k, r)
  <2>1. CASE x = s
    <3>1. InSeq(Append(queue[s], e), k, r)
      BY <1>3, <1>6, <2>1
    <3>2. InSeq(queue[s], k, r) \/ (k = e.key /\ r = e.reg)
      BY <1>2, <3>1, InSequences
    <3> QED BY <3>2, KnownPlaces
  <2>2. CASE x # s
    BY <1>3, <1>6, <2>2, KnownPlaces
  <2> QED BY <2>1, <2>2
<1> QED BY <1>4, <1>6

\* What a step that leaves the client alone leaves.
clientAlone == <<register, index, made, call, batch, turn, heard, overlapped, received>>
LEMMA DaemonStep ==
  ASSUME Registering, DaemonTypes', UNCHANGED clientAlone,
         \A s \in Session : \A k, r :
            /\ InSeq(known'[s], k, r) => KnownAs(k, r)
            /\ InSeq(queue'[s], k, r) => KnownAs(k, r),
         \A s \in Session : \A e \in asked'[s] : KnownAs(e.key, e.reg)
  PROVE  Registering'
<1>0. UNCHANGED <<register, index, made, call, batch, turn, heard, overlapped, received>>
  BY DEF clientAlone
<1>1. CallTypes' /\ CallsKept
  BY <1>0, CallSame DEF Registering, RegisterTypes
<1>2. ClientTypes'
  BY <1>0 DEF Registering, RegisterTypes, ClientTypes
<1>3. \E j : Given(j) /\ index' <= j
  BY <1>0, KnownPlaces DEF Registering, RegisterTypes, ClientTypes
<1>4. \A k \in Used' : k \in Used /\ register'[k] = register[k]
  BY <1>0 DEF Used
<1> QED
  BY <1>0, <1>1, <1>2, <1>3, <1>4, KnownPlaces, RegisteringMoves

LEMMA DaemonSteps ==
  ASSUME Registering, NEW s \in Session,
         DaemonCalls(s) \/ DaemonReplies(s) \/ DaemonReads(s) \/ DaemonExits
  PROVE  Registering'
<1>0. /\ known \in [Session -> Seq(Entry)] /\ queue \in [Session -> Seq(Entry)]
      /\ asked \in [Session -> SUBSET Entry]
      /\ \A x \in Session : \A i \in DOMAIN known[x] : known[x][i].kind # "request"
  BY DEF Registering, RegisterTypes, DaemonTypes
<1>1. CASE DaemonCalls(s)
  <2>1. UNCHANGED clientAlone /\ UNCHANGED <<known, asked>>
    BY <1>1 DEF DaemonCalls, clientAlone, clientVars, runVars
  <2>2. PICK i \in DOMAIN known[s] : QueueCallback(s, known[s][i])
    BY <1>1 DEF DaemonCalls
  <2>3. known[s] \in Seq(Entry)
    BY <1>0
  <2>4. known[s][i] \in Entry
    BY <2>3, EntryAt
  <2>5. KnownAs(known[s][i].key, known[s][i].reg)
    BY KnownPlaces DEF InSeq
  <2>6. /\ queue' \in [Session -> Seq(Entry)]
        /\ \A x \in Session : \A k, r : InSeq(queue'[x], k, r) => KnownAs(k, r)
    BY <2>2, <2>4, <2>5, QueueAppended
  <2>7. DaemonTypes'
    BY <1>0, <2>1, <2>6 DEF DaemonTypes
  <2> QED BY <2>1, <2>6, <2>7, KnownPlaces, DaemonStep
<1>2. CASE DaemonReplies(s)
  <2>1. UNCHANGED clientAlone /\ known' = known
    BY <1>2 DEF DaemonReplies, clientAlone, clientVars, runVars, historyVars
  <2>2. PICK e \in asked[s] : QueueCallback(s, e) /\ asked' = [asked EXCEPT ![s] = @ \ {e}]
    BY <1>2 DEF DaemonReplies
  <2>3. e \in Entry /\ KnownAs(e.key, e.reg)
    BY <1>0, KnownPlaces
  <2>4. /\ queue' \in [Session -> Seq(Entry)]
        /\ \A x \in Session : \A k, r : InSeq(queue'[x], k, r) => KnownAs(k, r)
    BY <2>2, <2>3, QueueAppended
  <2>5. asked' \in [Session -> SUBSET Entry] /\ \A x \in Session : asked'[x] \subseteq asked[x]
    BY <1>0, <2>2
  <2>6. DaemonTypes'
    BY <1>0, <2>1, <2>4, <2>5 DEF DaemonTypes
  <2>7. \A x \in Session : \A d \in asked'[x] : KnownAs(d.key, d.reg)
    BY <2>5, KnownPlaces
  <2> QED BY <2>1, <2>4, <2>6, <2>7, KnownPlaces, DaemonStep
<1>3. CASE DaemonReads(s)
  <2>1. UNCHANGED clientAlone
    BY <1>3 DEF DaemonReads, clientAlone, clientVars, runVars, historyVars
  <2>2. CASE UNCHANGED <<known, queue, asked>>
    BY <1>0, <2>1, <2>2, KnownPlaces, DaemonStep DEF DaemonTypes
  <2>3. ASSUME NEW x, UnregisterCallback(s, x) PROVE Registering'
    <3>1. /\ known' = [known EXCEPT ![s] = Without(@, x)] /\ asked' = asked
          /\ queue' = [queue EXCEPT ![s] = IF @ = <<>> THEN @ ELSE Without(@, x)]
      BY <2>3 DEF UnregisterCallback
    <3>2. known[s] \in Seq(Entry) /\ queue[s] \in Seq(Entry)
      BY <1>0
    <3>3. /\ Without(known[s], x) \in Seq(Entry) /\ Without(queue[s], x) \in Seq(Entry)
          /\ \A i \in DOMAIN Without(known[s], x) :
               \E j \in DOMAIN known[s] : Without(known[s], x)[i] = known[s][j]
      BY <3>2, WithoutEntries
    <3>4. \A k, r : /\ InSeq(Without(known[s], x), k, r) => InSeq(known[s], k, r)
                    /\ InSeq(Without(queue[s], x), k, r) => InSeq(queue[s], k, r)
      BY <3>2, InSequences
    <3>5. \A y \in Session : /\ known'[y] = IF y = s THEN Without(known[s], x) ELSE known[y]
                             /\ queue'[y] = IF y = s /\ queue[s] # <<>>
                                            THEN Without(queue[s], x) ELSE queue[y]
      BY <1>0, <3>1
    <3>6. known' \in [Session -> Seq(Entry)] /\ queue' \in [Session -> Seq(Entry)]
      BY <1>0, <3>1, <3>3
    <3>7. \A y \in Session : \A k, r : /\ InSeq(known'[y], k, r) => KnownAs(k, r)
                                       /\ InSeq(queue'[y], k, r) => KnownAs(k, r)
      BY <3>4, <3>5, KnownPlaces
    <3>8. ASSUME NEW y \in Session, NEW i \in DOMAIN known'[y] PROVE known'[y][i].kind # "request"
      <4>1. CASE y = s
        <5>1. known'[s] = Without(known[s], x)
          BY <3>5
        <5>2. PICK j \in DOMAIN known[s] : known'[s][i] = known[s][j]
          BY <3>3, <3>8, <4>1, <5>1
        <5> QED BY <1>0, <4>1, <5>2
      <4>2. CASE y # s
        BY <1>0, <3>5, <3>8, <4>2
      <4> QED BY <4>1, <4>2
    <3>9. DaemonTypes'
      BY <1>0, <3>1, <3>6, <3>8 DEF DaemonTypes
    <3>10. \A y \in Session : \A e \in asked'[y] : KnownAs(e.key, e.reg)
      BY <3>1, KnownPlaces
    <3> QED BY <2>1, <3>7, <3>9, <3>10, DaemonStep
  <2> QED BY <1>3, <2>2, <2>3 DEF DaemonReads, SetClientPort, serverVars
<1>4. CASE DaemonExits
  <2>1. UNCHANGED clientAlone
    BY <1>4 DEF DaemonExits, clientAlone, clientVars, runVars, historyVars
  <2>2. /\ known' = [x \in Session |-> <<>>] /\ queue' = [x \in Session |-> <<>>]
        /\ asked' = [x \in Session |-> {}]
    BY <1>4 DEF DaemonExits
  <2>3. \A x \in Session : known'[x] = <<>> /\ queue'[x] = <<>> /\ asked'[x] = {}
    BY <2>2
  <2>4. DaemonTypes'
    BY <2>2, <2>3, NoEntry DEF DaemonTypes
  <2>5. \A k, r : ~InSeq(<<>>, k, r)
    BY NoEntry DEF InSeq
  <2> QED BY <2>1, <2>3, <2>4, <2>5, DaemonStep
<1> QED BY <1>1, <1>2, <1>3, <1>4

LEMMA AgainStep ==
  ASSUME Registering, live \subseteq Session, NEW t \in Thread, Again(t)
  PROVE  Registering' /\ CallsKept
<1> DEFINE c == call[t]
<1>1. PICK k \in Used :
         /\ call' = [call EXCEPT ![t] = [c EXCEPT !.key = k, !.left = c.left - 1]]
         /\ known' = IF server \in live /\ EntryOf(k).kind # "request"
                     THEN [known EXCEPT ![server] = Append(@, EntryOf(k))] ELSE known
  BY DEF Again
<1>2. /\ c.at = "again" /\ c.left > 0
      /\ UNCHANGED <<register, index, made, queue, asked, batch, turn, received, heard, overlapped>>
  BY DEF Again, clientVars, runVars, historyVars
<1>3. c \in Call
  BY <1>2, CallIs
<1>4. k \in Key /\ register[k] \in Record /\ k \in 0 .. MaxMade /\ MaxMade \in Nat
  BY SmallFacts DEF Used, Registering, RegisterTypes, ClientTypes
<1>5. c.left \in 0 .. MaxMade /\ c.left - 1 \in 0 .. MaxMade
  <2>1. c.left \in 0 .. MaxMade
    BY <1>3 DEF Call
  <2> HIDE DEF c
  <2> QED BY <1>2, <1>4, <2>1
<1>6. EntryOf(k) \in Entry /\ KnownAs(EntryOf(k).key, EntryOf(k).reg)
  <2>1. kindOf[register[k].callback] \in Kind /\ register[k].reg \in Key
    BY <1>4, SmallFacts DEF Record
  <2>2. EntryOf(k) \in Entry
    BY <1>4, <2>1 DEF EntryOf, Entry
  <2> QED BY <2>2, KnownPlaces DEF EntryOf
<1>7. /\ known' \in [Session -> Seq(Entry)]
      /\ \A x \in Session : \A i \in DOMAIN known'[x] : known'[x][i].kind # "request"
      /\ \A x \in Session : \A j, r : InSeq(known'[x], j, r) => KnownAs(j, r)
  <2>1. CASE server \in live /\ EntryOf(k).kind # "request"
    BY <1>1, <1>6, <2>1, KnownAppended
  <2>2. CASE known' = known
    BY <2>2, KnownPlaces DEF Registering, RegisterTypes, DaemonTypes
  <2> QED BY <1>1, <2>1, <2>2
<1>8. DaemonTypes'
  BY <1>2, <1>7 DEF Registering, RegisterTypes, DaemonTypes
<1>l. PICK l \in 0 .. MaxMade : l = c.left - 1
  BY <1>5
<1> DEFINE n == Moved(c, "again", k, l)
<1>9. call' = [call EXCEPT ![t] = n]
  <2>0. call' = [call EXCEPT ![t] = [c EXCEPT !.key = k, !.left = l]]
    BY <1>1, <1>l
  <2> HIDE DEF c
  <2>1. [c EXCEPT !.key = k, !.left = l] = Moved(c, c.at, k, l)
    BY <1>3 DEF Moved, Call
  <2> QED BY <1>2, <2>0, <2>1
<1>10. n \in Call /\ n.op = c.op /\ n.at = "again" /\ n.callback = c.callback /\ n.reg = c.reg
  <2> HIDE DEF c
  <2>1. "again" \in Place
    BY DEF Place
  <2> QED BY <1>3, <1>4, <2>1, CallMoved
<1> HIDE DEF n
<1>11. CallFits(n)
  BY <1>2, <1>10, CallIs DEF CallFits
<1>12. CallTypes' /\ CallsKept
  BY <1>2, <1>9, <1>10, <1>11, CallChanges DEF Registering, RegisterTypes, IsRegister
<1>13. \A u \in Thread : call'[u].at = "drop" => Given(call'[u].key)
  <2>1. \A u \in Thread : call'[u] = IF u = t THEN n ELSE call[u]
    BY <1>9 DEF Registering, RegisterTypes, CallTypes
  <2> QED BY <1>10, <2>1, KnownPlaces
<1>14. ClientTypes'
  BY <1>2 DEF Registering, RegisterTypes, ClientTypes
<1>15. \E j : Given(j) /\ index' <= j
  BY <1>2, KnownPlaces DEF Registering, RegisterTypes, ClientTypes
<1>16. \A j \in Used' : j \in Used /\ register'[j] = register[j]
  BY <1>2 DEF Used
<1> QED
  BY <1>2, <1>7, <1>8, <1>12, <1>13, <1>14, <1>15, <1>16, KnownPlaces, RegisteringMoves

LEMMA SendRegisterStep ==
  ASSUME Registering, live \subseteq Session, NEW t \in Thread, SendRegister(t)
  PROVE  Registering' /\ CallsKept
<1> DEFINE c == call[t]
           e == [key |-> c.key, kind |-> kindOf[c.callback], reg |-> c.reg]
<1>1. /\ c.op = "register" /\ c.at = "send" /\ call' = [call EXCEPT ![t] = Nothing]
      /\ \E failed : Return(t, failed)
      /\ \/ /\ server \in live /\ e.kind # "request"
            /\ known' = [known EXCEPT ![server] = Append(@, e)]
            /\ QueueCallback(server, e) \/ queue' = queue
            /\ asked' = asked
         \/ /\ server \in live
            /\ asked' = [asked EXCEPT ![server] = @ \cup {e}]
            /\ UNCHANGED <<known, queue>>
         \/ UNCHANGED <<known, asked, queue>>
      /\ UNCHANGED <<register, index, made, batch, turn, received, overlapped>>
  BY DEF SendRegister, clientVars, runVars, Return
<1>2. /\ c.callback \in Callback /\ c.reg \in Key /\ c.key \in Key
  <2>1. c.callback \in Callback /\ c.reg \in 1 .. made /\ c.key \in Key
    BY <1>1, CallIs DEF CallFits
  <2>2. made \in Nat /\ made <= MaxMade
    BY SmallFacts DEF Registering, RegisterTypes, ClientTypes
  <2> HIDE DEF c
  <2> QED BY <2>1, <2>2, SmallFacts
<1>3. e \in Entry /\ KnownAs(e.key, e.reg)
  <2>1. KnownAs(c.key, c.reg)
    BY <1>1, KnownPlaces DEF Sending, IsRegister
  <2>2. e \in Entry
    BY <1>2, SmallFacts DEF Entry
  <2> QED BY <2>1, <2>2
<1> HIDE DEF e, c
<1>4. /\ known' \in [Session -> Seq(Entry)] /\ queue' \in [Session -> Seq(Entry)]
      /\ asked' \in [Session -> SUBSET Entry]
      /\ \A x \in Session : \A i \in DOMAIN known'[x] : known'[x][i].kind # "request"
      /\ \A x \in Session : \A k, r : /\ InSeq(known'[x], k, r) => KnownAs(k, r)
                                      /\ InSeq(queue'[x], k, r) => KnownAs(k, r)
      /\ \A x \in Session : \A d \in asked'[x] : KnownAs(d.key, d.reg)
  <2>0. /\ known \in [Session -> Seq(Entry)] /\ queue \in [Session -> Seq(Entry)]
        /\ asked \in [Session -> SUBSET Entry]
        /\ \A x \in Session : \A i \in DOMAIN known[x] : known[x][i].kind # "request"
    BY DEF Registering, RegisterTypes, DaemonTypes
  <2>1. CASE /\ server \in live /\ e.kind # "request"
             /\ known' = [known EXCEPT ![server] = Append(@, e)]
             /\ QueueCallback(server, e) \/ queue' = queue
             /\ asked' = asked
    <3>1. /\ known' \in [Session -> Seq(Entry)]
          /\ \A x \in Session : \A i \in DOMAIN known'[x] : known'[x][i].kind # "request"
          /\ \A x \in Session : \A k, r : InSeq(known'[x], k, r) => KnownAs(k, r)
      BY <1>3, <2>1, KnownAppended
    <3>2. /\ queue' \in [Session -> Seq(Entry)]
          /\ \A x \in Session : \A k, r : InSeq(queue'[x], k, r) => KnownAs(k, r)
      <4>1. CASE queue' = queue
        BY <2>0, <4>1, KnownPlaces
      <4>2. CASE QueueCallback(server, e)
        BY <1>3, <2>1, <4>2, QueueAppended
      <4> QED BY <2>1, <4>1, <4>2
    <3> QED BY <2>0, <2>1, <3>1, <3>2, KnownPlaces
  <2>2. CASE /\ server \in live
             /\ asked' = [asked EXCEPT ![server] = @ \cup {e}]
             /\ UNCHANGED <<known, queue>>
    <3>1. asked' \in [Session -> SUBSET Entry]
      BY <1>3, <2>0, <2>2
    <3>2. \A x \in Session : \A d \in asked'[x] : d \in asked[x] \/ d = e
      BY <2>0, <2>2
    <3> QED BY <1>3, <2>0, <2>2, <3>1, <3>2, KnownPlaces
  <2>3. CASE UNCHANGED <<known, asked, queue>>
    BY <2>0, <2>3, KnownPlaces
  <2> QED BY <1>1, <2>1, <2>2, <2>3
<1>5. CallTypes' /\ CallsKept
  BY <1>1, SmallFacts, CallChanges DEF Registering, RegisterTypes
<1>6. heard' \in [Key -> Nat]
  <2>1. PICK failed : Return(t, failed)
    BY <1>1
  <2>2. heard \in [Key -> Nat]
    BY DEF Registering, RegisterTypes, ClientTypes
  <2>3. [heard EXCEPT ![c.reg] = @ + 1] \in [Key -> Nat]
    BY <1>2, <2>2
  <2>4. heard' = [heard EXCEPT ![c.reg] = @ + 1] \/ heard' = heard
    BY <2>1 DEF Return, c
  <2> QED BY <2>2, <2>3, <2>4
<1>7. DaemonTypes' /\ ClientTypes'
  BY <1>1, <1>4, <1>6 DEF Registering, RegisterTypes, DaemonTypes, ClientTypes
<1>8. \A u \in Thread : call'[u].at = "drop" => Given(call'[u].key)
  <2>1. \A u \in Thread : call'[u] = IF u = t THEN Nothing ELSE call[u]
    BY <1>1 DEF Registering, RegisterTypes, CallTypes
  <2> QED BY <2>1, KnownPlaces, SmallFacts
<1>9. \E j : Given(j) /\ index' <= j
  BY <1>1, KnownPlaces DEF Registering, RegisterTypes, ClientTypes
<1>10. \A j \in Used' : j \in Used /\ register'[j] = register[j]
  BY <1>1 DEF Used
<1>11. /\ made' = made /\ \A k, r : InSeq(batch', k, r) => KnownAs(k, r)
       /\ turn' # None => Given(turn'.entry.key)
  BY <1>1, KnownPlaces
<1> QED
  BY <1>4, <1>5, <1>7, <1>8, <1>9, <1>10, <1>11, RegisteringMoves

LEMMA CopyStep ==
  ASSUME Registering, live \subseteq Session, CopyCallbackQueue
  PROVE  Registering'
<1>1. /\ UNCHANGED <<register, index, made, call, known, asked, turn, heard, overlapped>>
      /\ received' = FALSE
      /\ \/ server \in live /\ batch' = queue[server] /\ queue' = [queue EXCEPT ![server] = <<>>]
         \/ batch' = <<>> /\ queue' = queue
  BY DEF CopyCallbackQueue, clientVars, historyVars
<1>2. queue \in [Session -> Seq(Entry)] /\ \A k, r : ~InSeq(<<>>, k, r)
  BY NoEntry DEF InSeq, Registering, RegisterTypes, DaemonTypes
<1>3. /\ queue' \in [Session -> Seq(Entry)] /\ batch' \in Seq(Entry)
      /\ \A x \in Session : \A k, r : InSeq(queue'[x], k, r) => KnownAs(k, r)
      /\ \A k, r : InSeq(batch', k, r) => KnownAs(k, r)
  <2>1. CASE server \in live /\ batch' = queue[server] /\ queue' = [queue EXCEPT ![server] = <<>>]
    <3>1. \A x \in Session : queue'[x] = IF x = server THEN <<>> ELSE queue[x]
      BY <1>2, <2>1
    <3>2. queue' \in [Session -> Seq(Entry)]
      BY <1>2, <2>1, NoEntry
    <3> QED BY <1>2, <2>1, <3>1, <3>2, KnownPlaces
  <2>2. CASE batch' = <<>> /\ queue' = queue
    BY <1>2, <2>2, NoEntry, KnownPlaces
  <2> QED BY <1>1, <2>1, <2>2
<1>4. CallTypes' /\ CallsKept
  BY <1>1, CallSame DEF Registering, RegisterTypes
<1>5. DaemonTypes' /\ ClientTypes'
  BY <1>1, <1>3 DEF Registering, RegisterTypes, DaemonTypes, ClientTypes
<1>6. \E j : Given(j) /\ index' <= j
  BY <1>1, KnownPlaces DEF Registering, RegisterTypes, ClientTypes
<1>7. \A j \in Used' : j \in Used /\ register'[j] = register[j]
  BY <1>1 DEF Used
<1> QED
  BY <1>1, <1>3, <1>4, <1>5, <1>6, <1>7, KnownPlaces, RegisteringMoves

\* What Dispatch makes of the entry it takes.
Taken(e) == IF register[e.key] = None THEN None ELSE [entry |-> e, called |-> register[e.key]]
LEMMA DispatchStep ==
  ASSUME Registering, Dispatch
  PROVE  Registering' /\ turn' = Taken(Head(batch)) /\ Head(batch) \in Entry
<1>1. /\ UNCHANGED <<register, made, call, known, queue, asked, received, heard, overlapped>>
      /\ batch # <<>> /\ batch' = Tail(batch) /\ turn' = Taken(Head(batch))
      /\ index' = index \/ index' = Head(batch).key - 1
  BY DEF Dispatch, clientVars, serverVars, historyVars, Taken
<1>2. batch \in Seq(Entry) /\ ~received /\ register \in [Key -> Record \cup {None}]
  BY <1>1 DEF Registering, RegisterTypes, ClientTypes
<1>3. /\ Tail(batch) \in Seq(Entry) /\ Head(batch) \in Entry
      /\ 1 \in DOMAIN batch /\ Head(batch) = batch[1]
  BY <1>1, <1>2, TailEntry
<1> DEFINE e == Head(batch)
<1>4. KnownAs(e.key, e.reg)
  BY <1>3, KnownPlaces DEF InSeq
<1>5. /\ turn' \in [entry : Entry, called : Record] \cup {None}
      /\ turn' # None => turn'.entry = e
  <2>1. e \in Entry /\ e.key \in Key
    BY <1>3 DEF Entry
  <2> HIDE DEF e
  <2>2. register[e.key] # None => register[e.key] \in Record
    BY <1>2, <2>1
  <2>3. \/ turn' = None
        \/ turn' = [entry |-> e, called |-> register[e.key]] /\ register[e.key] \in Record
    BY <1>1, <2>2 DEF e, Taken
  <2> QED BY <2>1, <2>3
<1>6. \A k, r : InSeq(batch', k, r) => KnownAs(k, r)
  BY <1>1, <1>2, InSequences, KnownPlaces
<1>7. CallTypes' /\ CallsKept
  BY <1>1, CallSame DEF Registering, RegisterTypes
<1>7a. e.key \in Nat /\ 1 <= e.key /\ e.key <= MaxMade
  BY <1>3, SmallFacts DEF Entry
<1>8. DaemonTypes' /\ ClientTypes'
  <2>1. index' \in 0 .. MaxMade
    BY <1>1, <1>7a, SmallFacts DEF Registering, RegisterTypes, ClientTypes
  <2> HIDE DEF e
  <2> QED BY <1>1, <1>2, <1>3, <1>5, <2>1
          DEF Registering, RegisterTypes, DaemonTypes, ClientTypes
<1>9. \E j : Given(j) /\ index' <= j
  <2>1. CASE index' = index
    BY <2>1, KnownPlaces DEF Registering, RegisterTypes, ClientTypes
  <2>2. CASE index' = Head(batch).key - 1
    BY <1>4, <1>7a, <2>2, KnownPlaces
  <2> QED BY <1>1, <2>1, <2>2
<1>10. \A j \in Used' : j \in Used /\ register'[j] = register[j]
  BY <1>1 DEF Used
<1>11. turn' # None => Given(turn'.entry.key)
  BY <1>4, <1>5, KnownPlaces
<1> HIDE DEF e
<1>12. Registering'
  BY <1>1, <1>6, <1>7, <1>8, <1>9, <1>10, <1>11, KnownPlaces, RegisteringMoves
<1> QED
  BY <1>1, <1>3, <1>12

LEMMA DoneStep ==
  ASSUME Registering, Done
  PROVE  Registering' /\ CallsKept
<1>1. /\ UNCHANGED <<made, known, queue, asked, batch, received>> /\ turn # None /\ turn' = None
      /\ \/ Enter(Queue, "respond", None, 0) /\ UNCHANGED <<register, index, heard>>
         \/ /\ RemoveKey(turn.entry.key) /\ heard' = [heard EXCEPT ![turn.entry.reg] = @ + 1]
            /\ Overlaps(Queue) /\ call' = call
         \/ UNCHANGED <<call, register, index, heard, overlapped>>
  BY DEF Done, serverVars
<1>2. turn \in [entry : Entry, called : Record] /\ heard \in [Key -> Nat] /\ overlapped \in BOOLEAN
  BY <1>1 DEF Registering, RegisterTypes, ClientTypes
<1>3. turn.entry \in Entry /\ turn.entry.key \in Key /\ turn.entry.reg \in Key
  BY <1>2 DEF Entry
<1>4. turn' # None => Given(turn'.entry.key)
  BY <1>1
<1>5. CASE Enter(Queue, "respond", None, 0) /\ UNCHANGED <<register, index, heard>>
  <2> DEFINE n == Entered("respond", None, 0)
  <2>1. /\ call' = [call EXCEPT ![Queue] = n] /\ n \in Call /\ CallFits(n)
        /\ n.op # "register" /\ n.at # "drop" /\ overlapped' \in BOOLEAN
    BY <1>5, EnterStep, ConstantAssumption
  <2> HIDE DEF n
  <2>2. CallTypes' /\ CallsKept
    BY <1>1, <2>1, CallChanges, ConstantAssumption DEF Registering, RegisterTypes
  <2>3. DaemonTypes' /\ ClientTypes'
    BY <1>1, <1>5, <2>1 DEF Registering, RegisterTypes, DaemonTypes, ClientTypes
  <2>4. \A u \in Thread : call'[u].at = "drop" => Given(call'[u].key)
    <3>1. \A u \in Thread : call'[u] = IF u = Queue THEN n ELSE call[u]
      BY <2>1 DEF Registering, RegisterTypes, CallTypes
    <3> QED BY <2>1, <3>1, KnownPlaces
  <2>5. \E j : Given(j) /\ index' <= j
    BY <1>5, KnownPlaces DEF Registering, RegisterTypes, ClientTypes
  <2>6. \A j \in Used' : j \in Used /\ register'[j] = register[j]
    BY <1>5 DEF Used
  <2> QED BY <1>1, <1>4, <2>2, <2>3, <2>4, <2>5, <2>6, KnownPlaces, RegisteringMoves
<1>6. CASE /\ RemoveKey(turn.entry.key) /\ heard' = [heard EXCEPT ![turn.entry.reg] = @ + 1]
           /\ Overlaps(Queue) /\ call' = call
  <2>1. heard' \in [Key -> Nat] /\ overlapped' \in BOOLEAN
    BY <1>2, <1>3, <1>6 DEF Overlaps
  <2>2. CallTypes' /\ CallsKept
    BY <1>1, <1>6, CallSame DEF Registering, RegisterTypes
  <2>3. Given(turn.entry.key)
    BY <1>1, KnownPlaces
  <2>4. \A u \in Thread : call'[u].at = "drop" => call'[u] = call[u]
    BY <1>6
  <2> QED BY <1>1, <1>3, <1>6, <2>1, <2>2, <2>3, <2>4, RemoveStep
<1>7. CASE UNCHANGED <<call, register, index, heard, overlapped>>
  <2>1. CallTypes' /\ CallsKept
    BY <1>1, <1>7, CallSame DEF Registering, RegisterTypes
  <2>2. DaemonTypes' /\ ClientTypes'
    BY <1>1, <1>7 DEF Registering, RegisterTypes, DaemonTypes, ClientTypes
  <2>3. \E j : Given(j) /\ index' <= j
    BY <1>7, KnownPlaces DEF Registering, RegisterTypes, ClientTypes
  <2>4. \A j \in Used' : j \in Used /\ register'[j] = register[j]
    BY <1>7 DEF Used
  <2> QED BY <1>1, <1>4, <1>7, <2>1, <2>2, <2>3, <2>4, KnownPlaces, RegisteringMoves
<1> QED BY <1>1, <1>5, <1>6, <1>7

LEMMA InitRegistering == Init => Registering
<1> SUFFICES ASSUME Init PROVE Registering
  OBVIOUS
<1>1. /\ known = [s \in Session |-> <<>>] /\ queue = [s \in Session |-> <<>>]
      /\ asked = [s \in Session |-> {}] /\ register = [k \in Key |-> None]
      /\ index = 0 /\ made = 0 /\ call = [t \in Thread |-> Nothing]
      /\ received = FALSE /\ batch = <<>> /\ turn = None
      /\ heard = [r \in Key |-> 0] /\ overlapped = FALSE
  BY DEF Init
<1>2. CallTypes
  BY <1>1, SmallFacts DEF CallTypes
<1>3. DaemonTypes
  BY <1>1, NoEntry DEF DaemonTypes
<1>4. ClientTypes
  <2>1. /\ 0 \in 0 .. MaxMade /\ <<>> \in Seq(Entry) /\ register \in [Key -> Record \cup {None}]
        /\ heard \in [Key -> Nat]
    BY <1>1, SmallFacts, NoEntry
  <2> QED BY <1>1, <2>1 DEF ClientTypes
<1>5. \A t \in Thread : call[t] = Nothing /\ ~IsRegister(t) /\ ~Sending(t) /\ ~Unsent(t)
                        /\ call[t].at # "drop"
  BY <1>1, SmallFacts DEF IsRegister, Sending, Unsent
<1>6. \A k, r : ~InSeq(<<>>, k, r)
  BY NoEntry DEF InSeq
<1>7. Used = {} /\ \A s \in Session : known[s] = <<>> /\ queue[s] = <<>> /\ asked[s] = {}
  BY <1>1 DEF Used
<1>8. \A k, r : ~KnownAs(k, r)
  BY <1>1, <1>5, <1>6, <1>7 DEF KnownAs
<1>9. OneKey
  BY <1>5, <1>8 DEF OneKey
<1>10. Waiting = {} /\ Cardinality(Waiting) = 0
  BY <1>5, FS_EmptySet DEF Waiting
<1>11. \A k : Given(k) => k = 0
  BY <1>1, <1>5, <1>8 DEF Given
<1>12. KeysSuffice
  BY <1>1, <1>10, <1>11 DEF KeysSuffice
<1> QED
  BY <1>2, <1>3, <1>4, <1>9, <1>12 DEF Registering, RegisterTypes

LEMMA NextRegistering ==
  ASSUME Registering, Channel, [Next]_vars
  PROVE  Registering'
<1> USE DEF daemonVars, serverVars, clientVars, runVars, historyVars
<1>0. live \subseteq Session /\ (received => batch = <<>>)
  BY DEF Channel, ChannelShape, Registering, RegisterTypes, ClientTypes
<1>1. CASE UNCHANGED vars
  BY <1>0, <1>1, RegisteringSame DEF vars
<1>2. ASSUME NEW s \in Session, DaemonCalls(s) \/ DaemonReplies(s) \/ DaemonReads(s)
      PROVE  Registering'
  BY <1>2, DaemonSteps
<1>3. CASE DaemonExits
  <2>1. 1 \in Session
    BY ConstantAssumption DEF Session
  <2> QED BY <1>3, <2>1, DaemonSteps
<1>4. CASE DaemonLaunches
  BY <1>0, <1>4, RegisteringSame DEF DaemonLaunches
<1>5. ASSUME NEW t \in Thread, NEW c \in Callback, Register(t, c) PROVE Registering'
  BY <1>5, RegisterStep
<1>6. ASSUME NEW t \in Thread, NEW c \in Callback, Unregister(t, c) PROVE Registering'
  BY <1>6, CallsBegin
<1>7. ASSUME NEW t \in Thread, SetDispatchQueue(t) PROVE Registering'
  BY <1>0, <1>7, RegisteringSame DEF SetDispatchQueue
<1>8. ASSUME NEW t \in Thread, Unschedule(t) PROVE Registering'
  BY <1>0, <1>8, RegisteringSame DEF Unschedule
<1>9. ASSUME NEW t \in Thread, DASessionKeepAlive(t) PROVE Registering'
  BY <1>0, <1>9, RegisteringSame DEF DASessionKeepAlive
<1>10. ASSUME NEW t \in Thread, Proceed(t) PROVE Registering'
  BY <1>0, <1>10, CallsGoOn, AgainStep, AddStep, SendRegisterStep, DropStep DEF Proceed
<1>11. CASE Receive
  BY <1>11, RegisteringSame DEF Receive, AtRest
<1>12. CASE ServerExited
  BY <1>0, <1>12, RegisteringSame DEF ServerExited
<1>13. CASE Relaunched
  BY <1>13, CallsBegin
<1>14. CASE CopyCallbackQueue
  BY <1>0, <1>14, CopyStep
<1>15. CASE Dispatch
  BY <1>15, DispatchStep
<1>16. CASE Done
  BY <1>16, DoneStep
<1> QED
  BY <1>1, <1>2, <1>3, <1>4, <1>5, <1>6, <1>7, <1>8, <1>9, <1>10, <1>11, <1>12, <1>13, <1>14,
     <1>15, <1>16 DEF Next, QueueNext

\* Every registration has one key at most, a key is left for each that waits for one,
\* and the registers, queues and messages hold what they are to hold.
THEOREM RegisteringInvariance == Spec => []Registering
BY ChannelInvariance, InitRegistering, NextRegistering, PTL DEF Spec

\* A step that takes the next of the copied callbacks.
CalledRight ==
  \A k \in Used :
    batch # <<>> /\ batch' # batch /\ Head(batch).reg = register[k].reg
      => turn' # None /\ turn'.called.reg = Head(batch).reg

LEMMA NextCallsRight ==
  ASSUME Registering, [Next]_vars
  PROVE  CalledRight
<1> USE DEF daemonVars, serverVars, clientVars, runVars, historyVars
<1> SUFFICES ASSUME NEW k \in Used, batch # <<>>, batch' # batch,
                    Head(batch).reg = register[k].reg
             PROVE  turn' # None /\ turn'.called.reg = Head(batch).reg
  BY DEF CalledRight
<1>1. ~received
  BY DEF Registering, RegisterTypes, ClientTypes
<1>2. ~UNCHANGED vars
  BY DEF vars
<1>3. ASSUME NEW s \in Session, DaemonCalls(s) \/ DaemonReplies(s) \/ DaemonReads(s)
      PROVE  FALSE
  BY <1>3 DEF DaemonCalls, DaemonReplies, DaemonReads
<1>4. ~DaemonExits /\ ~DaemonLaunches
  BY DEF DaemonExits, DaemonLaunches
<1>5. ASSUME NEW t \in Thread, NEW c \in Callback, Register(t, c) \/ Unregister(t, c) PROVE FALSE
  BY <1>5 DEF Register, Unregister
<1>6. ASSUME NEW t \in Thread, SetDispatchQueue(t) \/ Unschedule(t) \/ DASessionKeepAlive(t)
      PROVE  FALSE
  BY <1>6 DEF SetDispatchQueue, Unschedule, DASessionKeepAlive
<1>7. ASSUME NEW t \in Thread, Proceed(t) PROVE FALSE
  <2>1. ~(Establish(t) \/ Schedule(t) \/ Again(t) \/ Recreated(t))
    BY DEF Establish, Schedule, Again, Recreated
  <2>2. ~(Add(t) \/ SendRegister(t) \/ Find(t) \/ Drop(t) \/ Send(t))
    BY DEF Add, SendRegister, Find, Drop, Send
  <2> QED BY <1>7, <2>1, <2>2 DEF Proceed
<1>8. ~Receive /\ ~ServerExited /\ ~Relaunched /\ ~Done /\ ~CopyCallbackQueue
  BY <1>1 DEF Receive, ServerExited, Relaunched, Done, CopyCallbackQueue
<1>9. Dispatch
  BY <1>2, <1>3, <1>4, <1>5, <1>6, <1>7, <1>8 DEF Next, QueueNext
<1>10. turn' = Taken(Head(batch))
  BY <1>9, DispatchStep
<1>11. KnownAs(Head(batch).key, Head(batch).reg)
  <2>1. batch \in Seq(Entry)
    BY DEF Registering, RegisterTypes, ClientTypes
  <2>2. 1 \in DOMAIN batch /\ Head(batch) = batch[1]
    BY <2>1, TailEntry
  <2> QED BY <2>2, KnownPlaces DEF InSeq
<1>12. KnownAs(k, register[k].reg)
  BY KnownPlaces
<1>13. k = Head(batch).key
  BY <1>11, <1>12 DEF Registering, OneKey
<1>14. register[k] # None /\ register[k] \in Record
  BY DEF Used, Registering, RegisterTypes, ClientTypes
<1>15. turn' = [entry |-> Head(batch), called |-> register[k]]
  BY <1>10, <1>13, <1>14 DEF Taken
<1>16. turn' # None
  <2>1. turn' \in [entry : Entry, called : Record]
    BY <1>9, <1>14, <1>15, DispatchStep
  <2> QED BY <2>1, NoneAssumption
<1> QED
  BY <1>15, <1>16

(* A callback of a function that is still registered reaches that function, *)
(* whatever became of other keys, of the session and of the daemon since.   *)
THEOREM CallbacksReachTheirFunctions == Spec => RegisteredIsCalled
<1>1. Registering /\ [Next]_vars => [CalledRight]_vars
  BY NextCallsRight
<1>2. Spec => [][CalledRight]_vars
  BY <1>1, RegisteringInvariance, PTL DEF Spec
<1> QED
  BY <1>2 DEF RegisteredIsCalled, CalledRight

-----------------------------------------------------------------------------
(* Requests.  A request is in the hands of a call, of the daemon, or on its *)
(* way back: in one place at a time, and in none once it was called back.   *)

IsOf(e, r) == e.kind = "request" /\ e.reg = r
At(w, x, y, r) ==
  \/ w = "call" /\ x \in Thread /\ y = 0 /\ Fails(x) /\ call[x].reg = r
  \/ w = "asked" /\ x \in Session /\ y \in asked[x] /\ IsOf(y, r)
  \/ w = "queue" /\ x \in Session /\ y \in DOMAIN queue[x] /\ IsOf(queue[x][y], r)
  \/ w = "batch" /\ x = 0 /\ y \in DOMAIN batch /\ IsOf(batch[y], r)
  \/ w = "turn" /\ x = 0 /\ y = 0 /\ turn # None /\ IsOf(turn.entry, r)

OnePlace ==
  /\ \A r, w, x, y, v, a, b : At(w, x, y, r) /\ At(v, a, b, r) => w = v /\ x = a /\ y = b
  /\ \A r, w, x, y : At(w, x, y, r) => r \in 1 .. made
  /\ \A r \in Key : heard[r] # 0 => r \in 1 .. made /\ \A w, x, y : ~At(w, x, y, r)
  /\ AnsweredOnce

LEMMA HeardOnce ==
  ASSUME Registering, OnePlace
  PROVE  /\ heard \in [Key -> Nat] /\ \A r \in 1 .. made : r \in Key
         /\ \A r, w, x, y : At(w, x, y, r) => r \in Key /\ heard[r] = 0
<1>1. heard \in [Key -> Nat] /\ made \in Nat /\ made <= MaxMade
  BY SmallFacts DEF Registering, RegisterTypes, ClientTypes
<1>2. \A r \in 1 .. made : r \in Key
  BY <1>1, SmallFacts
<1>3. ASSUME NEW r, NEW w, NEW x, NEW y, At(w, x, y, r) PROVE r \in Key /\ heard[r] = 0
  <2>1. r \in 1 .. made
    BY <1>3 DEF OnePlace
  <2>2. r \in Key
    BY <1>2, <2>1
  <2> QED BY <1>3, <2>2 DEF OnePlace
<1> QED BY <1>1, <1>2, <1>3

\* Requests stay where they are, or are lost.
LEMMA PlacesKept ==
  ASSUME OnePlace, made' = made, heard' = heard,
         \A r, w, x, y : At(w, x, y, r)' => At(w, x, y, r)
  PROVE  OnePlace'
<1>1. \A r, w, x, y, v, a, b : At(w, x, y, r)' /\ At(v, a, b, r)' => w = v /\ x = a /\ y = b
  BY DEF OnePlace
<1>2. \A r, w, x, y : At(w, x, y, r)' => r \in 1 .. made'
  BY DEF OnePlace
<1>3. \A r \in Key : heard'[r] # 0 => r \in 1 .. made' /\ \A w, x, y : ~At(w, x, y, r)'
  BY DEF OnePlace
<1>4. AnsweredOnce'
  BY DEF OnePlace, AnsweredOnce
<1> QED BY <1>1, <1>2, <1>3, <1>4 DEF OnePlace

\* One of them goes to another place, or is called back.
LEMMA RequestMoves ==
  ASSUME Registering, OnePlace, made' = made, NEW q,
         \E w, x, y : At(w, x, y, q),
         \A r, w, x, y : r # q /\ At(w, x, y, r)' => At(w, x, y, r),
         \A w, x, y, v, a, b : At(w, x, y, q)' /\ At(v, a, b, q)' => w = v /\ x = a /\ y = b,
         \/ heard' = heard
         \/ heard' = [heard EXCEPT ![q] = @ + 1] /\ \A w, x, y : ~At(w, x, y, q)'
  PROVE  OnePlace'
<1>1. q \in 1 .. made /\ q \in Key /\ heard \in [Key -> Nat] /\ heard[q] = 0
  BY HeardOnce DEF OnePlace
<1>2. \A r, w, x, y, v, a, b : At(w, x, y, r)' /\ At(v, a, b, r)' => w = v /\ x = a /\ y = b
  BY DEF OnePlace
<1>3. \A r, w, x, y : At(w, x, y, r)' => r \in 1 .. made'
  BY <1>1 DEF OnePlace
<1>4. CASE heard' = heard
  <2>1. \A r \in Key : heard'[r] # 0 => r \in 1 .. made' /\ \A w, x, y : ~At(w, x, y, r)'
    BY <1>1, <1>4 DEF OnePlace
  <2>2. AnsweredOnce'
    BY <1>4 DEF OnePlace, AnsweredOnce
  <2> QED BY <1>2, <1>3, <2>1, <2>2 DEF OnePlace
<1>5. CASE heard' = [heard EXCEPT ![q] = @ + 1] /\ \A w, x, y : ~At(w, x, y, q)'
  <2>0. heard'[q] = 1 /\ \A r \in Key : r # q => heard'[r] = heard[r]
    BY <1>1, <1>5
  <2>1. \A r \in Key : heard'[r] # 0 => r \in 1 .. made' /\ \A w, x, y : ~At(w, x, y, r)'
    BY <1>1, <1>5, <2>0 DEF OnePlace
  <2>2. AnsweredOnce'
    BY <2>0 DEF OnePlace, AnsweredOnce
  <2> QED BY <1>2, <1>3, <2>1, <2>2 DEF OnePlace
<1> QED BY <1>4, <1>5

\* What a step does to the places.
LEMMA PlacesSame ==
  ASSUME Steady,
         \A s \in Session : \A e \in asked'[s] : e \in asked[s] \/ e.kind # "request",
         \A s \in Session : \A i \in DOMAIN queue'[s] :
            queue'[s][i].kind = "request" => i \in DOMAIN queue[s] /\ queue'[s][i] = queue[s][i],
         batch' = batch, turn' \in {turn, None}
  PROVE  \A r, w, x, y : At(w, x, y, r)' => At(w, x, y, r)
<1> SUFFICES ASSUME NEW r, NEW w, NEW x, NEW y, At(w, x, y, r)' PROVE At(w, x, y, r)
  OBVIOUS
<1>1. CASE w = "call"
  BY <1>1 DEF At, Steady
<1>2. CASE w = "asked"
  BY <1>2 DEF At, IsOf
<1>3. CASE w = "queue"
  BY <1>3 DEF At, IsOf
<1>4. CASE w = "batch"
  BY <1>4 DEF At, IsOf
<1>5. CASE w = "turn"
  BY <1>5 DEF At, IsOf
<1> QED BY <1>1, <1>2, <1>3, <1>4, <1>5 DEF At

\* Nothing is queued or asked.
LEMMA PlacesStill ==
  ASSUME Steady, UNCHANGED <<asked, queue, batch>>, turn' \in {turn, None}
  PROVE  \A r, w, x, y : At(w, x, y, r)' => At(w, x, y, r)
BY PlacesSame

LEMMA ReturnPlaces ==
  ASSUME Registering, OnePlace, NEW t \in Thread, NEW failed, Return(t, failed), Steady,
         made' = made, \A r, w, x, y : At(w, x, y, r)' => At(w, x, y, r)
  PROVE  OnePlace'
<1>1. CASE failed /\ Fails(t)
  <2>0. PICK q : q = call[t].reg
    OBVIOUS
  <2>1. At("call", t, 0, q)
    BY <1>1, <2>0 DEF At
  <2>2. ~Fails(t)'
    <3>1. call'[t] = Nothing
      BY DEF Return, Registering, RegisterTypes, CallTypes
    <3> QED BY <3>1 DEF Fails, Nothing
  <2>3. \A w, x, y : ~At(w, x, y, q)'
    <3> SUFFICES ASSUME NEW w, NEW x, NEW y, At(w, x, y, q)' PROVE FALSE
      OBVIOUS
    <3>1. At(w, x, y, q)
      OBVIOUS
    <3>2. w = "call" /\ x = t
      BY <2>1, <3>1 DEF OnePlace
    <3> QED BY <2>2, <3>2 DEF At
  <2>4. heard' = [heard EXCEPT ![q] = @ + 1]
    BY <1>1, <2>0 DEF Return
  <2> QED BY <2>1, <2>3, <2>4, RequestMoves
<1>2. CASE ~(failed /\ Fails(t))
  BY <1>2, PlacesKept DEF Return
<1> QED BY <1>1, <1>2

LEMMA CallsKeepPlaces ==
  ASSUME Registering, OnePlace, live \subseteq Session, NEW t \in Thread,
         \/ Establish(t) \/ Schedule(t) \/ Recreated(t) \/ Find(t) \/ Send(t)
         \/ Add(t) \/ Again(t) \/ Drop(t)
  PROVE  OnePlace'
<1> USE DEF daemonVars, serverVars, clientVars, runVars, historyVars
<1>1. UNCHANGED <<asked, queue, batch, turn, made>>
  BY DEF Establish, Schedule, Recreated, Find, Send, Add, Again, Drop
<1>2. Steady
  <2>1. CASE Establish(t) \/ Schedule(t) \/ Recreated(t) \/ Find(t) \/ Send(t)
    BY <2>1, CallsGoOn, CallsSteady
  <2>2. CASE Add(t)
    BY <2>2, AddStep
  <2>3. CASE Again(t)
    BY <2>3, AgainStep, CallsSteady
  <2>4. CASE Drop(t)
    BY <2>4, DropStep, CallsSteady
  <2> QED BY <2>1, <2>2, <2>3, <2>4
<1>3. \A r, w, x, y : At(w, x, y, r)' => At(w, x, y, r)
  BY <1>1, <1>2, PlacesStill
<1>4. CASE heard' = heard
  BY <1>1, <1>3, <1>4, PlacesKept
<1>5. CASE \E failed : Return(t, failed)
  BY <1>1, <1>2, <1>3, <1>5, ReturnPlaces
<1> QED
  BY <1>4, <1>5 DEF Establish, Schedule, Recreated, Find, Send, Add, Again, Drop

\* Steps that keep the requests where they are.
LEMMA OthersKeepPlaces ==
  ASSUME OnePlace, UNCHANGED <<made, heard, asked, queue, batch>>, turn' \in {turn, None}, Steady
  PROVE  OnePlace'
BY PlacesStill, PlacesKept

LEMMA RegisterPlaces ==
  ASSUME Registering, OnePlace, NEW t \in Thread, NEW c \in Callback, Register(t, c)
  PROVE  OnePlace'
<1> DEFINE n == Entered("register", c, made + 1)
<1>1. /\ call' = [call EXCEPT ![t] = n] /\ made' = made + 1 /\ made < MaxMade
      /\ UNCHANGED <<asked, queue, batch, turn, heard>>
  BY DEF Register, Enter, Entered, serverVars, runVars
<1>2. /\ made \in Nat /\ call \in [Thread -> Call \cup {Nothing}]
  BY SmallFacts DEF Registering, RegisterTypes, ClientTypes, CallTypes
<1>3. n.reg = made + 1
  BY DEF Entered
<1> HIDE DEF n
<1>4. call'[t] = n /\ \A u \in Thread : u # t => call'[u] = call[u]
  BY <1>1, <1>2
<1>5. \A r, w, x, y : At(w, x, y, r)' =>
         At(w, x, y, r) \/ (r = made + 1 /\ w = "call" /\ x = t /\ y = 0)
  <2> SUFFICES ASSUME NEW r, NEW w, NEW x, NEW y, At(w, x, y, r)', ~(w = "call" /\ x = t)
               PROVE  At(w, x, y, r)
    BY <1>3, <1>4 DEF At
  <2>1. CASE w = "call"
    BY <1>4, <2>1 DEF At, Fails
  <2>2. CASE w # "call"
    BY <1>1, <2>2 DEF At
  <2> QED BY <2>1, <2>2
<1>6. \A r, w, x, y : At(w, x, y, r) => r # made + 1 /\ r \in 1 .. made + 1
  BY <1>2 DEF OnePlace
<1>7. \A r, w, x, y, v, a, b : At(w, x, y, r)' /\ At(v, a, b, r)' => w = v /\ x = a /\ y = b
  BY <1>5, <1>6 DEF OnePlace
<1>8. \A r, w, x, y : At(w, x, y, r)' => r \in 1 .. made'
  BY <1>1, <1>2, <1>5, <1>6
<1>9. \A r \in Key : heard'[r] # 0 => r \in 1 .. made' /\ \A w, x, y : ~At(w, x, y, r)'
  <2>1. \A r \in 1 .. made : r # made + 1 /\ r \in 1 .. made + 1
    BY <1>2
  <2> QED BY <1>1, <1>5, <2>1 DEF OnePlace
<1> QED
  BY <1>1, <1>7, <1>8, <1>9 DEF OnePlace, AnsweredOnce

\* Where an entry is after it was queued.
LEMMA QueuedAt ==
  ASSUME Registering, NEW s \in Session, NEW e \in Entry, QueueCallback(s, e)
  PROVE  \A x \in Session : \A i \in DOMAIN queue'[x] :
            \/ i \in DOMAIN queue[x] /\ queue'[x][i] = queue[x][i]
            \/ x = s /\ i = Len(queue[s]) + 1 /\ queue'[x][i] = e
<1>1. queue \in [Session -> Seq(Entry)] /\ queue' = [queue EXCEPT ![s] = Append(@, e)]
  BY DEF Registering, RegisterTypes, DaemonTypes, QueueCallback
<1>2. queue[s] \in Seq(Entry)
  BY <1>1
<1>3. \A x \in Session : queue'[x] = IF x = s THEN Append(queue[s], e) ELSE queue[x]
  BY <1>1
<1> SUFFICES ASSUME NEW x \in Session, NEW i \in DOMAIN queue'[x]
             PROVE  \/ i \in DOMAIN queue[x] /\ queue'[x][i] = queue[x][i]
                    \/ x = s /\ i = Len(queue[s]) + 1 /\ queue'[x][i] = e
  OBVIOUS
<1>4. CASE x = s
  <2>1. queue'[x] = Append(queue[s], e)
    BY <1>3, <1>4
  <2>2. i \in DOMAIN queue[s] \/ i = Len(queue[s]) + 1
    BY <1>2, <2>1, AppendEntry
  <2> QED BY <1>2, <1>4, <2>1, <2>2, AppendEntry
<1>5. CASE x # s
  BY <1>3, <1>5
<1> QED BY <1>4, <1>5

LEMMA SendRegisterPlaces ==
  ASSUME Registering, OnePlace, live \subseteq Session, NEW t \in Thread, SendRegister(t)
  PROVE  OnePlace'
<1> DEFINE c == call[t]
           e == [key |-> c.key, kind |-> kindOf[c.callback], reg |-> c.reg]
<1>1. /\ c.op = "register" /\ c.at = "send" /\ call' = [call EXCEPT ![t] = Nothing]
      /\ UNCHANGED <<made, batch, turn>>
      /\ \/ /\ server \in live /\ e.kind # "request" /\ Return(t, FALSE)
            /\ QueueCallback(server, e) \/ queue' = queue
            /\ asked' = asked
         \/ /\ server \in live /\ e.kind = "request" /\ Return(t, FALSE)
            /\ asked' = [asked EXCEPT ![server] = @ \cup {e}]
            /\ queue' = queue
         \/ Return(t, TRUE) /\ UNCHANGED <<asked, queue>>
  BY DEF SendRegister, clientVars, runVars, Return
<1>2. Steady
  BY SendRegisterStep, CallsSteady
<1>3. e \in Entry
  <2>1. c.callback \in Callback /\ c.reg \in 1 .. made /\ c.key \in Key
    BY <1>1, CallIs DEF CallFits
  <2>2. made \in Nat /\ made <= MaxMade
    BY SmallFacts DEF Registering, RegisterTypes, ClientTypes
  <2> HIDE DEF c
  <2>3. c.reg \in Key
    BY <2>1, <2>2, SmallFacts
  <2> QED BY <2>1, <2>3, SmallFacts DEF Entry
<1>4. e.reg = call[t].reg /\ (e.kind = "request" <=> Fails(t))
  BY <1>1 DEF Fails
<1>5. call'[t] = Nothing /\ ~Fails(t)'
  <2>1. call'[t] = Nothing
    BY <1>1 DEF Registering, RegisterTypes, CallTypes
  <2> QED BY <2>1 DEF Fails, Nothing
<1> HIDE DEF e, c
<1>6. CASE /\ server \in live /\ e.kind # "request" /\ Return(t, FALSE)
           /\ QueueCallback(server, e) \/ queue' = queue
           /\ asked' = asked
  <2>1. \A s \in Session : \A i \in DOMAIN queue'[s] :
            queue'[s][i].kind = "request" => i \in DOMAIN queue[s] /\ queue'[s][i] = queue[s][i]
    BY <1>3, <1>6, QueuedAt
  <2>2. heard' = heard
    BY <1>6 DEF Return
  <2>3. \A r, w, x, y : At(w, x, y, r)' => At(w, x, y, r)
    BY <1>1, <1>2, <1>6, <2>1, PlacesSame
  <2> QED BY <1>1, <2>2, <2>3, PlacesKept
<1>7. CASE /\ server \in live /\ e.kind = "request" /\ Return(t, FALSE)
           /\ asked' = [asked EXCEPT ![server] = @ \cup {e}]
           /\ queue' = queue
  <2>0. PICK q : q = call[t].reg
    OBVIOUS
  <2>1. At("call", t, 0, q)
    BY <1>4, <1>7, <2>0 DEF At
  <2>2. \A s \in Session : \A d \in asked'[s] : d \in asked[s] \/ (s = server /\ d = e)
    BY <1>7 DEF Registering, RegisterTypes, DaemonTypes
  <2>3. \A r, w, x, y : At(w, x, y, r)' =>
          \/ At(w, x, y, r) /\ ~(w = "call" /\ x = t)
          \/ r = q /\ w = "asked" /\ x = server /\ y = e
    <3> SUFFICES ASSUME NEW r, NEW w, NEW x, NEW y, At(w, x, y, r)',
                        ~(r = q /\ w = "asked" /\ x = server /\ y = e)
                 PROVE  At(w, x, y, r) /\ ~(w = "call" /\ x = t)
      OBVIOUS
    <3>1. CASE w = "call"
      BY <1>2, <1>5, <3>1 DEF At, Steady
    <3>2. CASE w = "asked"
      BY <1>4, <2>0, <2>2, <3>2 DEF At, IsOf
    <3>3. CASE w \notin {"call", "asked"}
      BY <1>1, <1>7, <3>3 DEF At
    <3> QED BY <3>1, <3>2, <3>3
  <2>4. \A w, x, y : At(w, x, y, q)' => w = "asked" /\ x = server /\ y = e
    BY <2>1, <2>3 DEF OnePlace
  <2>5. heard' = heard
    BY <1>7 DEF Return
  <2> QED BY <1>1, <2>1, <2>3, <2>4, <2>5, RequestMoves
<1>8. CASE Return(t, TRUE) /\ UNCHANGED <<asked, queue>>
  <2>1. \A r, w, x, y : At(w, x, y, r)' => At(w, x, y, r)
    BY <1>1, <1>2, <1>8, PlacesStill
  <2> QED BY <1>1, <1>2, <1>8, <2>1, ReturnPlaces
<1> QED BY <1>1, <1>6, <1>7, <1>8

\* All of them move together.
LEMMA PlacesMove ==
  ASSUME OnePlace, made' = made, heard' = heard,
         \A r, w, x, y, v, a, b : At(w, x, y, r)' /\ At(v, a, b, r)' => w = v /\ x = a /\ y = b,
         \A r, w, x, y : At(w, x, y, r)' => \E v, a, b : At(v, a, b, r)
  PROVE  OnePlace'
<1>1. \A r, w, x, y : At(w, x, y, r)' => r \in 1 .. made'
  BY DEF OnePlace
<1>2. \A r \in Key : heard'[r] # 0 => r \in 1 .. made' /\ \A w, x, y : ~At(w, x, y, r)'
  BY DEF OnePlace
<1>3. AnsweredOnce'
  BY DEF OnePlace, AnsweredOnce
<1> QED BY <1>1, <1>2, <1>3 DEF OnePlace

LEMMA DaemonRepliesPlaces ==
  ASSUME Registering, OnePlace, NEW s \in Session, DaemonReplies(s)
  PROVE  OnePlace'
<1>1. UNCHANGED <<call, made, heard, batch, turn>>
  BY DEF DaemonReplies, clientVars, runVars, historyVars
<1>2. PICK e \in asked[s] : QueueCallback(s, e) /\ asked' = [asked EXCEPT ![s] = @ \ {e}]
  BY DEF DaemonReplies
<1>3. /\ asked \in [Session -> SUBSET Entry] /\ e \in Entry
      /\ \A x \in Session : \A d \in asked'[x] : d \in asked[x] /\ ~(x = s /\ d = e)
  BY <1>2 DEF Registering, RegisterTypes, DaemonTypes
<1>4. \A x \in Session : \A i \in DOMAIN queue'[x] :
          \/ i \in DOMAIN queue[x] /\ queue'[x][i] = queue[x][i]
          \/ x = s /\ i = Len(queue[s]) + 1 /\ queue'[x][i] = e
  BY <1>2, <1>3, QueuedAt
<1>5. Steady
  BY <1>1 DEF Steady, Fails
<1>6. CASE e.kind # "request"
  <2>1. \A r, w, x, y : At(w, x, y, r)' => At(w, x, y, r)
    BY <1>1, <1>3, <1>4, <1>5, <1>6, PlacesSame
  <2> QED BY <1>1, <2>1, PlacesKept
<1>7. CASE e.kind = "request"
  <2>1. PICK q, n : q = e.reg /\ n = Len(queue[s]) + 1
    OBVIOUS
  <2>2. At("asked", s, e, q)
    BY <1>2, <1>7, <2>1 DEF At, IsOf
  <2>3. \A r, w, x, y : At(w, x, y, r)' =>
          \/ At(w, x, y, r) /\ ~(w = "asked" /\ x = s /\ y = e)
          \/ r = q /\ w = "queue" /\ x = s /\ y = n
    <3> SUFFICES ASSUME NEW r, NEW w, NEW x, NEW y, At(w, x, y, r)',
                        ~(r = q /\ w = "queue" /\ x = s /\ y = n)
                 PROVE  At(w, x, y, r) /\ ~(w = "asked" /\ x = s /\ y = e)
      OBVIOUS
    <3>1. CASE w = "queue"
      BY <1>4, <2>1, <3>1 DEF At, IsOf
    <3>2. CASE w = "asked"
      BY <1>3, <3>2 DEF At, IsOf
    <3>3. CASE w \notin {"queue", "asked"}
      BY <1>1, <3>3 DEF At, Fails
    <3> QED BY <3>1, <3>2, <3>3
  <2>4. \A w, x, y : At(w, x, y, q)' => w = "queue" /\ x = s /\ y = n
    BY <2>2, <2>3 DEF OnePlace
  <2> QED BY <1>1, <2>2, <2>3, <2>4, RequestMoves
<1> QED BY <1>6, <1>7

LEMMA UnregisterPlaces ==
  ASSUME Registering, OnePlace, NEW s \in Session, NEW k, UnregisterCallback(s, k),
         UNCHANGED <<call, made, heard, batch, turn>>
  PROVE  OnePlace'
<1>1. /\ asked' = asked /\ queue \in [Session -> Seq(Entry)]
      /\ queue' = [queue EXCEPT ![s] = IF @ = <<>> THEN @ ELSE Without(@, k)]
  BY DEF UnregisterCallback, Registering, RegisterTypes, DaemonTypes
<1>2. Steady
  BY DEF Steady, Fails
<1>3. CASE queue[s] = <<>>
  <2>1. queue' = queue
    BY <1>1, <1>3
  <2> QED BY <1>1, <1>2, <2>1, OthersKeepPlaces
<1>4. CASE queue[s] # <<>>
  <2>0. queue[s] \in Seq(Entry)
    BY <1>1
  <2>1. /\ queue'[s] = Without(queue[s], k)
        /\ \A x \in Session : x # s => queue'[x] = queue[x]
    BY <1>1, <1>4
  <2>2. PICK f : Picks(f, queue[s], k, Len(queue[s]), Without(queue[s], k))
    BY <2>0, WithoutPicks DEF Picked
  <2>3. DOMAIN queue[s] = 1 .. Len(queue[s])
    BY <2>0
  <2>4. /\ \A i \in DOMAIN queue'[s] : f[i] \in DOMAIN queue[s] /\ queue'[s][i] = queue[s][f[i]]
        /\ \A i, j \in DOMAIN queue'[s] : f[i] = f[j] => i = j
    BY <2>1, <2>2, <2>3 DEF Picks
  <2>5. \A r, w, x, y : At(w, x, y, r)' =>
          /\ w = "queue" /\ x = s => At(w, x, f[y], r) /\ y \in DOMAIN queue'[s]
          /\ ~(w = "queue" /\ x = s) => At(w, x, y, r)
    <3> SUFFICES ASSUME NEW r, NEW w, NEW x, NEW y, At(w, x, y, r)'
                 PROVE  /\ w = "queue" /\ x = s => At(w, x, f[y], r) /\ y \in DOMAIN queue'[s]
                        /\ ~(w = "queue" /\ x = s) => At(w, x, y, r)
      OBVIOUS
    <3>1. CASE w = "queue" /\ x = s
      BY <2>4, <3>1 DEF At, IsOf
    <3>2. CASE w = "queue" /\ x # s
      BY <2>1, <3>2 DEF At, IsOf
    <3>3. CASE w # "queue"
      BY <1>1, <3>3 DEF At, Fails
    <3> QED BY <3>1, <3>2, <3>3
  <2>6. ASSUME NEW r, NEW w, NEW x, NEW y, NEW v, NEW a, NEW b, At(w, x, y, r)', At(v, a, b, r)'
        PROVE  w = v /\ x = a /\ y = b
    <3>1. CASE w = "queue" /\ x = s /\ v = "queue" /\ a = s
      <4>1. f[y] = f[b] /\ y \in DOMAIN queue'[s] /\ b \in DOMAIN queue'[s]
        BY <2>5, <2>6, <3>1 DEF OnePlace
      <4> QED BY <2>4, <3>1, <4>1
    <3>2. CASE w = "queue" /\ x = s /\ ~(v = "queue" /\ a = s)
      BY <2>5, <2>6, <3>2 DEF OnePlace
    <3>3. CASE ~(w = "queue" /\ x = s) /\ v = "queue" /\ a = s
      BY <2>5, <2>6, <3>3 DEF OnePlace
    <3>4. CASE ~(w = "queue" /\ x = s) /\ ~(v = "queue" /\ a = s)
      BY <2>5, <2>6, <3>4 DEF OnePlace
    <3> QED BY <3>1, <3>2, <3>3, <3>4
  <2>7. \A r, w, x, y : At(w, x, y, r)' => \E v, a, b : At(v, a, b, r)
    BY <2>5
  <2> QED BY <2>6, <2>7, PlacesMove
<1> QED BY <1>3, <1>4

LEMMA CopyPlaces ==
  ASSUME Registering, OnePlace, live \subseteq Session, CopyCallbackQueue
  PROVE  OnePlace'
<1>1. /\ UNCHANGED <<made, call, asked, turn, heard>>
      /\ \/ server \in live /\ batch' = queue[server] /\ queue' = [queue EXCEPT ![server] = <<>>]
         \/ batch' = <<>> /\ queue' = queue
  BY DEF CopyCallbackQueue, clientVars, historyVars
<1>2. queue \in [Session -> Seq(Entry)] /\ DOMAIN <<>> = {}
  BY NoEntry DEF Registering, RegisterTypes, DaemonTypes
<1>3. CASE server \in live /\ batch' = queue[server] /\ queue' = [queue EXCEPT ![server] = <<>>]
  <2>0. PICK s \in Session : s = server
    BY <1>3
  <2>1. DOMAIN queue'[s] = {} /\ \A x \in Session : x # s => queue'[x] = queue[x]
    BY <1>2, <1>3, <2>0
  <2>2. \A r, w, x, y : At(w, x, y, r)' =>
          /\ w = "batch" => At("queue", s, y, r) /\ x = 0
          /\ w # "batch" => At(w, x, y, r) /\ ~(w = "queue" /\ x = s)
    <3> SUFFICES ASSUME NEW r, NEW w, NEW x, NEW y, At(w, x, y, r)'
                 PROVE  /\ w = "batch" => At("queue", s, y, r) /\ x = 0
                        /\ w # "batch" => At(w, x, y, r) /\ ~(w = "queue" /\ x = s)
      OBVIOUS
    <3>1. CASE w = "batch"
      BY <1>3, <2>0, <3>1 DEF At, IsOf
    <3>2. CASE w = "queue"
      BY <2>1, <3>2 DEF At, IsOf
    <3>3. CASE w \notin {"batch", "queue"}
      BY <1>1, <3>3 DEF At, Fails
    <3> QED BY <3>1, <3>2, <3>3
  <2>3. \A r, w, x, y, v, a, b : At(w, x, y, r)' /\ At(v, a, b, r)' => w = v /\ x = a /\ y = b
    BY <2>2 DEF OnePlace
  <2>4. \A r, w, x, y : At(w, x, y, r)' => \E v, a, b : At(v, a, b, r)
    BY <2>2
  <2> QED BY <1>1, <2>3, <2>4, PlacesMove
<1>4. CASE batch' = <<>> /\ queue' = queue
  <2>1. \A r, w, x, y : At(w, x, y, r)' => At(w, x, y, r)
    BY <1>1, <1>2, <1>4 DEF At, Fails
  <2> QED BY <1>1, <2>1, PlacesKept
<1> QED BY <1>1, <1>3, <1>4

LEMMA DispatchPlaces ==
  ASSUME Registering, OnePlace, Dispatch
  PROVE  OnePlace'
<1>1. /\ UNCHANGED <<made, call, asked, queue, heard>>
      /\ batch # <<>> /\ batch' = Tail(batch) /\ turn' = Taken(Head(batch))
  BY DEF Dispatch, clientVars, serverVars, historyVars, Taken
<1>2. batch \in Seq(Entry)
  BY DEF Registering, RegisterTypes, ClientTypes
<1>3. /\ 1 \in DOMAIN batch /\ Head(batch) = batch[1]
      /\ \A i \in DOMAIN Tail(batch) : i + 1 \in DOMAIN batch /\ Tail(batch)[i] = batch[i + 1]
                                       /\ i \in Nat /\ i + 1 # 1
  <2>1. \A i \in DOMAIN Tail(batch) : i # 0
    BY <1>1, <1>2
  <2> QED BY <1>1, <1>2, <2>1, TailEntry
<1>4. turn' # None => turn'.entry = batch[1]
  BY <1>1, <1>3 DEF Taken
<1>5. \A r, w, x, y : At(w, x, y, r)' =>
        /\ w = "batch" => At("batch", 0, y + 1, r) /\ x = 0 /\ y \in Nat /\ y + 1 # 1
        /\ w = "turn" => At("batch", 0, 1, r) /\ x = 0 /\ y = 0
        /\ w \notin {"batch", "turn"} => At(w, x, y, r)
  <2> SUFFICES ASSUME NEW r, NEW w, NEW x, NEW y, At(w, x, y, r)'
               PROVE  /\ w = "batch" => At("batch", 0, y + 1, r) /\ x = 0 /\ y \in Nat /\ y + 1 # 1
                      /\ w = "turn" => At("batch", 0, 1, r) /\ x = 0 /\ y = 0
                      /\ w \notin {"batch", "turn"} => At(w, x, y, r)
    OBVIOUS
  <2>1. CASE w = "batch"
    BY <1>1, <1>3, <2>1 DEF At, IsOf
  <2>2. CASE w = "turn"
    BY <1>3, <1>4, <2>2 DEF At, IsOf
  <2>3. CASE w \notin {"batch", "turn"}
    BY <1>1, <2>3 DEF At, Fails
  <2> QED BY <2>1, <2>2, <2>3
<1>6. ASSUME NEW r, NEW w, NEW x, NEW y, NEW v, NEW a, NEW b, At(w, x, y, r)', At(v, a, b, r)'
      PROVE  w = v /\ x = a /\ y = b
  <2>1. CASE w = "batch" /\ v = "batch"
    <3>1. x = 0 /\ a = 0 /\ y \in Nat /\ b \in Nat /\ y + 1 = b + 1
      BY <1>5, <1>6, <2>1 DEF OnePlace
    <3> QED BY <2>1, <3>1
  <2>2. CASE w = "batch" /\ v # "batch"
    BY <1>5, <1>6, <2>2 DEF OnePlace
  <2>3. CASE w # "batch" /\ v = "batch"
    BY <1>5, <1>6, <2>3 DEF OnePlace
  <2>4. CASE w # "batch" /\ v # "batch"
    BY <1>5, <1>6, <2>4 DEF OnePlace
  <2> QED BY <2>1, <2>2, <2>3, <2>4
<1>7. \A r, w, x, y : At(w, x, y, r)' => \E v, a, b : At(v, a, b, r)
  BY <1>5
<1> QED BY <1>1, <1>6, <1>7, PlacesMove

LEMMA DonePlaces ==
  ASSUME Registering, OnePlace, Done
  PROVE  OnePlace'
<1>1. /\ UNCHANGED <<made, asked, queue, batch>> /\ turn # None /\ turn' = None
      /\ \/ heard' = heard
         \/ /\ turn.entry.kind = "request" /\ heard' = [heard EXCEPT ![turn.entry.reg] = @ + 1]
            /\ call' = call
  BY DEF Done, serverVars
<1>2. Steady
  BY DoneStep, CallsSteady
<1>3. CASE heard' = heard
  BY <1>1, <1>2, <1>3, OthersKeepPlaces
<1>4. CASE /\ turn.entry.kind = "request" /\ heard' = [heard EXCEPT ![turn.entry.reg] = @ + 1]
           /\ call' = call
  <2>1. PICK q : q = turn.entry.reg
    OBVIOUS
  <2>2. At("turn", 0, 0, q)
    BY <1>1, <1>4, <2>1 DEF At, IsOf
  <2>3. \A r, w, x, y : At(w, x, y, r)' => At(w, x, y, r) /\ w # "turn"
    <3>1. \A r, w, x, y : At(w, x, y, r)' => w # "turn"
      BY <1>1 DEF At
    <3> QED BY <1>1, <1>2, <3>1, PlacesStill
  <2>4. \A w, x, y : ~At(w, x, y, q)'
    BY <2>2, <2>3 DEF OnePlace
  <2> QED BY <1>1, <1>4, <2>1, <2>2, <2>3, <2>4, RequestMoves
<1> QED BY <1>1, <1>3, <1>4

LEMMA InitPlaces == Init => OnePlace
<1> SUFFICES ASSUME Init PROVE OnePlace
  OBVIOUS
<1>1. \A r, w, x, y : ~At(w, x, y, r)
  <2>1. \A t \in Thread : ~Fails(t)
    BY SmallFacts DEF Init, Fails
  <2> QED BY <2>1, NoEntry DEF Init, At
<1>2. \A r \in Key : heard[r] = 0
  BY DEF Init
<1> QED BY <1>1, <1>2 DEF OnePlace, AnsweredOnce

LEMMA NextPlaces ==
  ASSUME Registering, Channel, OnePlace, [Next]_vars
  PROVE  OnePlace'
<1> USE DEF daemonVars, serverVars, clientVars, runVars, historyVars
<1>0. live \subseteq Session /\ (call' = call => Steady)
  BY DEF Channel, ChannelShape, Steady, Fails
<1>1. CASE UNCHANGED vars
  BY <1>0, <1>1, OthersKeepPlaces DEF vars
<1>2. ASSUME NEW s \in Session, DaemonCalls(s) PROVE OnePlace'
  <2>1. UNCHANGED <<call, made, heard, asked, batch, turn>>
    BY <1>2 DEF DaemonCalls
  <2>2. PICK i \in DOMAIN known[s] : QueueCallback(s, known[s][i])
    BY <1>2 DEF DaemonCalls
  <2>3. known[s] \in Seq(Entry) /\ known[s][i].kind # "request"
    BY DEF Registering, RegisterTypes, DaemonTypes
  <2>4. known[s][i] \in Entry
    BY <2>3, EntryAt
  <2>5. \A x \in Session : \A j \in DOMAIN queue'[x] :
            queue'[x][j].kind = "request" => j \in DOMAIN queue[x] /\ queue'[x][j] = queue[x][j]
    BY <2>2, <2>3, <2>4, QueuedAt
  <2>6. \A r, w, x, y : At(w, x, y, r)' => At(w, x, y, r)
    BY <1>0, <2>1, <2>5, PlacesSame
  <2> QED BY <2>1, <2>6, PlacesKept
<1>3. ASSUME NEW s \in Session, DaemonReplies(s) PROVE OnePlace'
  BY <1>3, DaemonRepliesPlaces
<1>4. ASSUME NEW s \in Session, DaemonReads(s) PROVE OnePlace'
  <2>1. UNCHANGED <<call, made, heard, batch, turn>>
    BY <1>4 DEF DaemonReads
  <2>2. CASE UNCHANGED <<asked, queue>>
    BY <1>0, <2>1, <2>2, OthersKeepPlaces
  <2>3. ASSUME NEW k, UnregisterCallback(s, k) PROVE OnePlace'
    BY <2>1, <2>3, UnregisterPlaces
  <2> QED BY <1>4, <2>2, <2>3 DEF DaemonReads, SetClientPort
<1>5. CASE DaemonExits
  <2>1. UNCHANGED <<call, made, heard, batch, turn>>
    BY <1>5 DEF DaemonExits
  <2>2. \A x \in Session : asked'[x] = {} /\ DOMAIN queue'[x] = {}
    BY <1>5, NoEntry DEF DaemonExits
  <2>3. \A r, w, x, y : At(w, x, y, r)' => At(w, x, y, r)
    BY <1>0, <2>1, <2>2, PlacesSame
  <2> QED BY <2>1, <2>3, PlacesKept
<1>6. CASE DaemonLaunches
  BY <1>0, <1>6, OthersKeepPlaces DEF DaemonLaunches
<1>7. ASSUME NEW t \in Thread, NEW c \in Callback, Register(t, c) PROVE OnePlace'
  BY <1>7, RegisterPlaces
<1>8. ASSUME NEW t \in Thread, NEW c \in Callback, Unregister(t, c) PROVE OnePlace'
  BY <1>8, CallsBegin, CallsSteady, OthersKeepPlaces DEF Unregister
<1>9. ASSUME NEW t \in Thread, SetDispatchQueue(t) \/ Unschedule(t) \/ DASessionKeepAlive(t)
      PROVE  OnePlace'
  BY <1>0, <1>9, OthersKeepPlaces DEF SetDispatchQueue, Unschedule, DASessionKeepAlive
<1>10. ASSUME NEW t \in Thread, Proceed(t) PROVE OnePlace'
  BY <1>0, <1>10, CallsKeepPlaces, SendRegisterPlaces DEF Proceed
<1>11. CASE Receive \/ ServerExited
  BY <1>0, <1>11, OthersKeepPlaces DEF Receive, ServerExited
<1>12. CASE Relaunched
  BY <1>12, CallsBegin, CallsSteady, OthersKeepPlaces DEF Relaunched
<1>13. CASE CopyCallbackQueue
  BY <1>0, <1>13, CopyPlaces
<1>14. CASE Dispatch
  BY <1>14, DispatchPlaces
<1>15. CASE Done
  BY <1>15, DonePlaces
<1> QED
  BY <1>1, <1>2, <1>3, <1>4, <1>5, <1>6, <1>7, <1>8, <1>9, <1>10, <1>11, <1>12, <1>13, <1>14,
     <1>15 DEF Next, QueueNext

\* Registrations and requests.
THEOREM RequestInvariance == Spec => [](Registering /\ OnePlace)
<1>1. Registering /\ Channel /\ OnePlace /\ [Next]_vars => OnePlace'
  BY NextPlaces
<1> QED
  BY <1>1, ChannelInvariance, RegisteringInvariance, InitPlaces, PTL DEF Spec

(* A request is called back once at most, by the call that could not queue *)
(* it or by the daemon's answer, though the daemon exits in between and    *)
(* threads call at once.                                                   *)
THEOREM RequestsAnsweredOnce == Spec => []AnsweredOnce
<1>1. OnePlace => AnsweredOnce
  BY DEF OnePlace
<1> QED
  BY <1>1, RequestInvariance, PTL

-----------------------------------------------------------------------------
(* While no two calls overlap, the register has whatever request is spoken *)
(* of, and what a call is about to send or to remove.                      *)

Spoken(e) ==
  \/ \E s \in Session : e \in asked[s] \/ \E i \in DOMAIN queue[s] : queue[s][i] = e
  \/ \E i \in DOMAIN batch : batch[i] = e
  \/ turn # None /\ turn.entry = e
InRegister(e) == e.key \in Used /\ EntryOf(e.key) = e
CallFound(t) ==
  /\ Sending(t) => register[call[t].key] = [callback |-> call[t].callback, reg |-> call[t].reg]
  /\ call[t].at = "drop" => /\ call[t].key \in Used
                            /\ register[call[t].key].callback = call[t].callback

OneCall       == \A t, u \in Thread : Busy(t) /\ Busy(u) => t = u
RequestsFound == \A e : Spoken(e) /\ e.kind = "request" => InRegister(e)
CallsFound    == \A t \in Thread : CallFound(t)
Found   == OneCall /\ RequestsFound /\ CallsFound
Finding == ~overlapped => Found

\* The calls after a step of the only one.
LEMMA AloneCalls ==
  ASSUME call \in [Thread -> Call \cup {Nothing}], NEW t \in Thread, NEW n,
         \A u \in Thread : u # t => ~Busy(u),
         call' = [call EXCEPT ![t] = n],
         CallFound(t)'
  PROVE  OneCall' /\ CallsFound'
<1>1. \A u \in Thread : u # t => call'[u] = Nothing
  BY DEF Busy
<1>2. OneCall'
  BY <1>1 DEF OneCall, Busy
<1>3. ASSUME NEW u \in Thread PROVE CallFound(u)'
  <2>1. CASE u = t
    BY <2>1
  <2>2. CASE u # t
    BY <1>1, <2>2, SmallFacts DEF CallFound, Sending, IsRegister
  <2> QED BY <2>1, <2>2
<1> QED BY <1>2, <1>3 DEF CallsFound

LEMMA SameCalls ==
  ASSUME OneCall, CallsFound, call' = call,
         register' = register \/ \A t \in Thread : ~Busy(t)
  PROVE  OneCall' /\ CallsFound'
<1>1. OneCall'
  BY DEF OneCall, Busy
<1>2. ASSUME NEW t \in Thread PROVE CallFound(t)'
  <2>1. CASE register' = register
    <3>1. CallFound(t)
      BY DEF CallsFound
    <3>2. Used' = Used
      BY <2>1 DEF Used
    <3> QED BY <2>1, <3>1, <3>2 DEF CallFound, Sending, IsRegister
  <2>2. CASE ~Busy(t)
    <3>1. call'[t] = Nothing
      BY <2>2 DEF Busy
    <3> QED BY <3>1, SmallFacts DEF CallFound, Sending, IsRegister
  <2> QED BY <2>1, <2>2
<1> QED BY <1>1, <1>2 DEF CallsFound

LEMMA SameRequests ==
  ASSUME RequestsFound, register' = register,
         \A e : Spoken(e)' /\ e.kind = "request" => Spoken(e) \/ InRegister(e)
  PROVE  RequestsFound'
BY DEF RequestsFound, InRegister, Used, EntryOf

LEMMA SameSpoken ==
  ASSUME UNCHANGED <<asked, queue, batch>>, turn' \in {turn, None}
  PROVE  \A e : Spoken(e)' => Spoken(e)
BY DEF Spoken

\* A call goes on, or returns, without a word of what it registers.
LEMMA PassingCalls ==
  ASSUME Registering, NEW t \in Thread,
         \/ Establish(t) \/ Schedule(t) \/ Again(t) \/ Recreated(t) \/ Drop(t) \/ Send(t)
         \/ SendRegister(t)
  PROVE  \E n : /\ call' = [call EXCEPT ![t] = n]
                /\ n.at # "drop" /\ ~(n.op = "register" /\ n.at = "send")
                /\ Busy(t)
<1> DEFINE c == call[t]
<1>0. c.at # "none" \/ c.op # "none" => c \in Call /\ Busy(t) /\ c.op # "none"
  BY CallIs, SmallFacts DEF Busy
<1>1. Nothing.at # "drop" /\ ~(Nothing.op = "register" /\ Nothing.at = "send")
  BY SmallFacts
<1>2. CASE Establish(t)
  <2>1. c.at = "establish" /\ call' = [call EXCEPT ![t] = [c EXCEPT !.at = "schedule"]]
    BY <1>2 DEF Establish
  <2> HIDE DEF c
  <2>2. [c EXCEPT !.at = "schedule"].at = "schedule"
    BY <1>0, <2>1 DEF Call
  <2> QED BY <1>0, <2>1, <2>2
<1>3. CASE Schedule(t)
  <2>1. /\ c.at = "schedule"
        /\ call' = [call EXCEPT ![t] = [c EXCEPT !.at = "again", !.key = 0, !.left = Count]]
    BY <1>3 DEF Schedule
  <2> HIDE DEF c
  <2>2. [c EXCEPT !.at = "again", !.key = 0, !.left = Count].at = "again"
    BY <1>0, <2>1 DEF Call
  <2> QED BY <1>0, <2>1, <2>2
<1>4. CASE Again(t)
  <2>1. /\ c.at = "again"
        /\ \E k : call' = [call EXCEPT ![t] = [c EXCEPT !.key = k, !.left = c.left - 1]]
    BY <1>4 DEF Again
  <2> HIDE DEF c
  <2>2. \A k : [c EXCEPT !.key = k, !.left = c.left - 1].at = "again"
    BY <1>0, <2>1 DEF Call
  <2> QED BY <1>0, <2>1, <2>2
<1>5. CASE Recreated(t)
  <2>1. c.at \in {"again", "establish"}
    BY <1>5 DEF Recreated
  <2>2. CASE Return(t, TRUE)
    BY <1>0, <1>1, <2>1, <2>2 DEF Return
  <2>3. CASE ~Return(t, TRUE)
    <3> DEFINE at == IF c.op = "respond" THEN "send" ELSE "edit"
    <3>1. call' = [call EXCEPT ![t] = [c EXCEPT !.at = at, !.key = 0]]
      BY <1>5, <2>3 DEF Recreated
    <3>2. at # "drop" /\ (c.op = "register" => at # "send")
      OBVIOUS
    <3> HIDE DEF at, c
    <3>3. [c EXCEPT !.at = at, !.key = 0].at = at /\ [c EXCEPT !.at = at, !.key = 0].op = c.op
      BY <1>0, <2>1 DEF Call
    <3> QED BY <1>0, <2>1, <3>1, <3>2, <3>3
  <2> QED BY <2>2, <2>3
<1>6. CASE Drop(t)
  <2>1. /\ c.op = "unregister"
        /\ call' = [call EXCEPT ![t] = [c EXCEPT !.at = "send"]]
    BY <1>6 DEF Drop
  <2> HIDE DEF c
  <2>2. [c EXCEPT !.at = "send"].at = "send" /\ [c EXCEPT !.at = "send"].op = c.op
    BY <1>0, <2>1 DEF Call
  <2> QED BY <1>0, <2>1, <2>2
<1>7. CASE Send(t) \/ SendRegister(t)
  BY <1>0, <1>1, <1>7 DEF Send, SendRegister, Return
<1> QED BY <1>2, <1>3, <1>4, <1>5, <1>6, <1>7

LEMMA PassingFound ==
  ASSUME Registering, OneCall, NEW t \in Thread,
         \/ Establish(t) \/ Schedule(t) \/ Again(t) \/ Recreated(t) \/ Drop(t) \/ Send(t)
         \/ SendRegister(t)
  PROVE  OneCall' /\ CallsFound'
<1>1. PICK n : /\ call' = [call EXCEPT ![t] = n]
               /\ n.at # "drop" /\ ~(n.op = "register" /\ n.at = "send")
               /\ Busy(t)
  BY PassingCalls
<1>2. call \in [Thread -> Call \cup {Nothing}]
  BY DEF Registering, RegisterTypes, CallTypes
<1>3. CallFound(t)'
  BY <1>1, <1>2 DEF CallFound, Sending, IsRegister
<1>4. \A u \in Thread : u # t => ~Busy(u)
  BY <1>1 DEF OneCall
<1> QED BY <1>1, <1>2, <1>3, <1>4, AloneCalls

\* A call begins while there is none.
LEMMA EnterFound ==
  ASSUME Registering, NEW t \in Thread, NEW op, NEW c, NEW r, Enter(t, op, c, r),
         op = "register" \/ op = "unregister" \/ op = "respond" \/ op = "relaunched",
         ~overlapped'
  PROVE  OneCall' /\ CallsFound'
<1> DEFINE n == Entered(op, c, r)
<1>1. call' = [call EXCEPT ![t] = n] /\ \A u \in Thread : u # t => ~Busy(u)
  BY DEF Enter, Entered, Overlaps
<1>2. n.at # "drop" /\ ~(n.op = "register" /\ n.at = "send")
  BY DEF Entered
<1> HIDE DEF n
<1>3. call \in [Thread -> Call \cup {Nothing}]
  BY DEF Registering, RegisterTypes, CallTypes
<1>4. CallFound(t)'
  BY <1>1, <1>2, <1>3 DEF CallFound, Sending, IsRegister
<1> QED BY <1>1, <1>3, <1>4, AloneCalls

LEMMA FindFound ==
  ASSUME Registering, Found, NEW t \in Thread, Find(t)
  PROVE  Found'
<1> DEFINE c == call[t]
<1>1. /\ c.op = "unregister" /\ c.at = "edit"
      /\ UNCHANGED <<register, asked, queue, batch, turn>>
  BY DEF Find, serverVars, clientVars, runVars
<1>2. c \in Call /\ Busy(t)
  BY <1>1, CallIs, SmallFacts DEF Busy
<1>3. call \in [Thread -> Call \cup {Nothing}] /\ \A u \in Thread : u # t => ~Busy(u)
  BY <1>2 DEF Registering, RegisterTypes, CallTypes, Found, OneCall
<1>4. RequestsFound'
  BY <1>1, SameSpoken, SameRequests DEF Found
<1>5. CASE \E k \in Used : /\ register[k].callback = c.callback
                           /\ call' = [call EXCEPT ![t] = [c EXCEPT !.at = "drop", !.key = k]]
  <2>1. PICK k \in Used : /\ register[k].callback = c.callback
                          /\ call' = [call EXCEPT ![t] = [c EXCEPT !.at = "drop", !.key = k]]
    BY <1>5
  <2>2. k \in 0 .. MaxMade
    BY SmallFacts DEF Used
  <2> DEFINE n == Edited(c, "drop", k)
  <2>3. /\ call' = [call EXCEPT ![t] = n] /\ n.op = c.op /\ n.callback = c.callback
        /\ n.at = "drop" /\ n.key = k
    <3> HIDE DEF c
    <3>1. /\ Edited(c, "drop", k).op = c.op /\ Edited(c, "drop", k).callback = c.callback
          /\ Edited(c, "drop", k).at = "drop" /\ Edited(c, "drop", k).key = k
      BY <1>2, <2>2, CallEdited
    <3> QED BY <2>1, <3>1 DEF Edited
  <2> HIDE DEF n
  <2>4. call'[t] = n /\ Used' = Used
    BY <1>1, <1>3, <2>3 DEF Used
  <2>5. CallFound(t)'
    BY <1>1, <2>1, <2>3, <2>4 DEF CallFound, Sending, IsRegister
  <2> QED BY <1>3, <1>4, <2>3, <2>5, AloneCalls DEF Found
<1>6. CASE call' = [call EXCEPT ![t] = [c EXCEPT !.at = "send"]]
  <2> DEFINE n == [c EXCEPT !.at = "send"]
  <2>1. n.at = "send" /\ n.op = "unregister" /\ call' = [call EXCEPT ![t] = n]
    <3> HIDE DEF c
    <3>1. [c EXCEPT !.at = "send"].at = "send" /\ [c EXCEPT !.at = "send"].op = c.op
      BY <1>2 DEF Call
    <3> QED BY <1>1, <1>6, <3>1
  <2> HIDE DEF n
  <2>2. CallFound(t)'
    BY <1>3, <2>1 DEF CallFound, Sending, IsRegister
  <2> QED BY <1>3, <1>4, <2>1, <2>2, AloneCalls DEF Found
<1> QED BY <1>5, <1>6 DEF Find

LEMMA AddFound ==
  ASSUME Registering, Found, NEW t \in Thread, Add(t)
  PROVE  Found'
<1> DEFINE c == call[t]
           rec == [callback |-> c.callback, reg |-> c.reg]
<1>1. /\ c.op = "register" /\ c.at = "edit"
      /\ register' = [register EXCEPT ![NextKey] = rec]
      /\ call' = [call EXCEPT ![t] = [c EXCEPT !.at = "send", !.key = NextKey]]
      /\ UNCHANGED <<asked, queue, batch, turn>>
  BY DEF Add, serverVars, runVars
<1>2. NextKey \in Key /\ register[NextKey] = None
  BY <1>1, NextKeyIsFree DEF Unsent, IsRegister
<1>3. PICK k \in Key : k = NextKey
  BY <1>2
<1>4. c \in Call /\ Busy(t) /\ k \in 0 .. MaxMade
  BY <1>1, CallIs, SmallFacts DEF Busy
<1>5. call \in [Thread -> Call \cup {Nothing}] /\ \A u \in Thread : u # t => ~Busy(u)
  BY <1>4 DEF Registering, RegisterTypes, CallTypes, Found, OneCall
<1> DEFINE n == Edited(c, "send", k)
<1>6. /\ call' = [call EXCEPT ![t] = n] /\ n.op = c.op /\ n.callback = c.callback /\ n.reg = c.reg
      /\ n.at = "send" /\ n.key = k
  <2> HIDE DEF c
  <2>1. /\ Edited(c, "send", k).op = c.op /\ Edited(c, "send", k).callback = c.callback
        /\ Edited(c, "send", k).reg = c.reg
        /\ Edited(c, "send", k).at = "send" /\ Edited(c, "send", k).key = k
    BY <1>4, CallEdited
  <2> QED BY <1>1, <1>3, <2>1 DEF Edited
<1> HIDE DEF n
<1>7. register'[k] = rec /\ \A j \in Key : j # k => register'[j] = register[j]
  BY <1>1, <1>3 DEF Registering, RegisterTypes, ClientTypes
<1>8. call'[t] = n
  BY <1>5, <1>6
<1>9. CallFound(t)'
  <2>1. /\ call'[t].key = k /\ call'[t].callback = c.callback /\ call'[t].reg = c.reg
        /\ call'[t].at = "send"
    BY <1>6, <1>8
  <2> QED BY <1>7, <2>1 DEF CallFound
<1>10. OneCall' /\ CallsFound'
  BY <1>5, <1>6, <1>9, AloneCalls
<1>11. RequestsFound'
  <2> SUFFICES ASSUME NEW e, Spoken(e)', e.kind = "request" PROVE InRegister(e)'
    BY DEF RequestsFound
  <2>1. InRegister(e)
    BY <1>1, SameSpoken DEF Found, RequestsFound
  <2>2. e.key \in Key /\ e.key # k
    BY <1>2, <1>3, <2>1 DEF InRegister, Used
  <2> QED BY <1>7, <2>1, <2>2 DEF InRegister, Used, EntryOf
<1> QED BY <1>10, <1>11 DEF Found

LEMMA DropFound ==
  ASSUME Registering, Found, NEW t \in Thread, Drop(t)
  PROVE  Found'
<1> DEFINE k == call[t].key
<1>1. /\ call[t].op = "unregister" /\ call[t].at = "drop" /\ register' = [register EXCEPT ![k] = None]
      /\ UNCHANGED <<asked, queue, batch, turn>>
  BY DEF Drop, RemoveKey, serverVars, runVars
<1>2. /\ k \in Used /\ register[k].callback = call[t].callback
      /\ kindOf[call[t].callback] # "request"
  BY <1>1, CallIs DEF Found, CallsFound, CallFound, CallFits
<1>3. OneCall' /\ CallsFound'
  BY PassingFound DEF Found
<1>4. RequestsFound'
  <2> SUFFICES ASSUME NEW e, Spoken(e)', e.kind = "request" PROVE InRegister(e)'
    BY DEF RequestsFound
  <2>1. InRegister(e)
    BY <1>1, SameSpoken DEF Found, RequestsFound
  <2>2. e.key # k
    BY <1>2, <2>1 DEF InRegister, EntryOf
  <2>3. e.key \in Key /\ register'[e.key] = register[e.key]
    BY <1>1, <2>1, <2>2 DEF InRegister, Used, Registering, RegisterTypes, ClientTypes
  <2> QED BY <2>1, <2>3 DEF InRegister, Used, EntryOf
<1> QED BY <1>3, <1>4 DEF Found

LEMMA SendRegisterFound ==
  ASSUME Registering, Found, live \subseteq Session, NEW t \in Thread, SendRegister(t)
  PROVE  Found'
<1> DEFINE c == call[t]
           e == [key |-> c.key, kind |-> kindOf[c.callback], reg |-> c.reg]
<1>1. /\ c.op = "register" /\ c.at = "send"
      /\ UNCHANGED <<register, batch, turn>>
      /\ \/ /\ server \in live /\ e.kind # "request"
            /\ QueueCallback(server, e) /\ asked' = asked
         \/ /\ server \in live
            /\ asked' = [asked EXCEPT ![server] = @ \cup {e}] /\ queue' = queue
         \/ UNCHANGED <<asked, queue>>
  BY DEF SendRegister, clientVars, runVars
<1>2. e \in Entry /\ InRegister(e)
  <2>1. c.callback \in Callback /\ c.reg \in 1 .. made /\ c.key \in Key
    BY <1>1, CallIs DEF CallFits
  <2>2. register[c.key] = [callback |-> c.callback, reg |-> c.reg]
    BY <1>1 DEF Found, CallsFound, CallFound, Sending, IsRegister
  <2>3. made \in Nat /\ made <= MaxMade
    BY SmallFacts DEF Registering, RegisterTypes, ClientTypes
  <2> HIDE DEF c
  <2>4. c.reg \in Key
    BY <2>1, <2>3, SmallFacts
  <2>5. e \in Entry /\ [callback |-> c.callback, reg |-> c.reg] \in Record
    BY <2>1, <2>4, SmallFacts DEF Entry, Record
  <2>6. e.key = c.key /\ c.key \in Used
    BY <2>1, <2>2, <2>5, NoneAssumption DEF Used
  <2>7. EntryOf(c.key) = e
    BY <2>2 DEF EntryOf
  <2> HIDE DEF e
  <2> QED BY <2>5, <2>6, <2>7 DEF InRegister
<1> HIDE DEF e, c
<1>3. \A d : Spoken(d)' /\ d.kind = "request" => Spoken(d) \/ InRegister(d)
  <2>0. asked \in [Session -> SUBSET Entry]
    BY DEF Registering, RegisterTypes, DaemonTypes
  <2>1. CASE server \in live /\ e.kind # "request" /\ QueueCallback(server, e) /\ asked' = asked
    <3>1. \A x \in Session : \A i \in DOMAIN queue'[x] :
             \/ i \in DOMAIN queue[x] /\ queue'[x][i] = queue[x][i]
             \/ queue'[x][i] = e
      BY <1>2, <2>1, QueuedAt
    <3> QED BY <1>1, <1>2, <2>1, <3>1 DEF Spoken
  <2>2. CASE server \in live /\ asked' = [asked EXCEPT ![server] = @ \cup {e}] /\ queue' = queue
    <3>1. \A x \in Session : \A d \in asked'[x] : d \in asked[x] \/ d = e
      BY <2>0, <2>2
    <3> QED BY <1>1, <1>2, <2>2, <3>1 DEF Spoken
  <2>3. CASE UNCHANGED <<asked, queue>>
    BY <1>1, <2>3, SameSpoken
  <2> QED BY <1>1, <2>1, <2>2, <2>3
<1>4. RequestsFound'
  BY <1>1, <1>3, SameRequests DEF Found
<1> QED BY <1>4, PassingFound DEF Found

LEMMA DoneFound ==
  ASSUME Registering, OnePlace, Found, Done, ~overlapped'
  PROVE  Found'
<1>1. /\ UNCHANGED <<asked, queue, batch>> /\ turn # None /\ turn' = None /\ ~Busy(Queue)
      /\ \/ Enter(Queue, "respond", None, 0) /\ register' = register
         \/ /\ turn.entry.kind = "request" /\ RemoveKey(turn.entry.key)
            /\ Overlaps(Queue) /\ call' = call
         \/ UNCHANGED <<call, register>>
  BY DEF Done, serverVars
<1>2. CASE register' = register
  <2>1. RequestsFound'
    BY <1>1, <1>2, SameSpoken, SameRequests DEF Found
  <2>2. OneCall' /\ CallsFound'
    <3>1. CASE Enter(Queue, "respond", None, 0)
      BY <3>1, EnterFound, ConstantAssumption
    <3>2. CASE call' = call
      BY <1>2, <3>2, SameCalls DEF Found
    <3> QED BY <1>1, <3>1, <3>2
  <2> QED BY <2>1, <2>2 DEF Found
<1>3. CASE /\ turn.entry.kind = "request" /\ RemoveKey(turn.entry.key)
           /\ Overlaps(Queue) /\ call' = call
  <2>1. PICK d : d = turn.entry
    OBVIOUS
  <2>2. \A t \in Thread : ~Busy(t)
    BY <1>1, <1>3 DEF Overlaps
  <2>3. OneCall' /\ CallsFound'
    BY <1>3, <2>2, SameCalls DEF Found
  <2>4. Spoken(d) /\ InRegister(d) /\ At("turn", 0, 0, d.reg)
    BY <1>1, <1>3, <2>1 DEF Spoken, Found, RequestsFound, At, IsOf
  <2>5. ASSUME NEW e, Spoken(e)', e.kind = "request" PROVE InRegister(e)'
    <3>1. InRegister(e)
      BY <1>1, <2>5, SameSpoken DEF Found, RequestsFound
    <3>2. \E w, x, y : w # "turn" /\ At(w, x, y, e.reg)
      <4>1. CASE \E s \in Session : e \in asked[s]
        <5>1. PICK s \in Session : e \in asked[s]
          BY <4>1
        <5>2. At("asked", s, e, e.reg) /\ "asked" # "turn"
          BY <2>5, <5>1 DEF At, IsOf
        <5> QED BY <5>2
      <4>2. CASE \E s \in Session : \E i \in DOMAIN queue[s] : queue[s][i] = e
        <5>0. PICK s \in Session : \E i \in DOMAIN queue[s] : queue[s][i] = e
          BY <4>2
        <5>1. PICK i \in DOMAIN queue[s] : queue[s][i] = e
          BY <5>0
        <5>2. At("queue", s, i, e.reg) /\ "queue" # "turn"
          BY <2>5, <5>1 DEF At, IsOf
        <5> QED BY <5>2
      <4>3. CASE \E i \in DOMAIN batch : batch[i] = e
        <5>1. PICK i \in DOMAIN batch : batch[i] = e
          BY <4>3
        <5>2. At("batch", 0, i, e.reg) /\ "batch" # "turn"
          BY <2>5, <5>1 DEF At, IsOf
        <5> QED BY <5>2
      <4> QED BY <1>1, <2>5, <4>1, <4>2, <4>3 DEF Spoken
    <3>3. e.reg # d.reg
      BY <2>4, <3>2 DEF OnePlace
    <3>4. e.key # d.key
      BY <2>4, <3>1, <3>3 DEF InRegister
    <3>5. e.key \in Key /\ register'[e.key] = register[e.key]
      BY <1>3, <2>1, <3>1, <3>4 DEF RemoveKey, InRegister, Used, Registering, RegisterTypes, ClientTypes
    <3> QED BY <3>1, <3>5 DEF InRegister, Used, EntryOf
  <2> QED BY <2>3, <2>5 DEF Found, RequestsFound
<1> QED BY <1>1, <1>2, <1>3

\* The daemon's steps, and those of the queue that pass an entry on.
LEMMA PassFound ==
  ASSUME Found, UNCHANGED <<register, call>>,
         \A e : Spoken(e)' /\ e.kind = "request" => Spoken(e)
  PROVE  Found'
<1>1. RequestsFound'
  BY SameRequests DEF Found
<1>2. OneCall' /\ CallsFound'
  BY SameCalls DEF Found
<1> QED BY <1>1, <1>2 DEF Found

LEMMA DaemonFound ==
  ASSUME Registering, Found, NEW s \in Session,
         DaemonCalls(s) \/ DaemonReplies(s) \/ DaemonReads(s) \/ DaemonExits
  PROVE  Found'
<1> USE DEF daemonVars, serverVars, clientVars, runVars, historyVars
<1>0. UNCHANGED <<register, call, batch, turn>>
  BY DEF DaemonCalls, DaemonReplies, DaemonReads, DaemonExits
<1>1. /\ known \in [Session -> Seq(Entry)] /\ queue \in [Session -> Seq(Entry)]
      /\ asked \in [Session -> SUBSET Entry]
      /\ \A x \in Session : \A i \in DOMAIN known[x] : known[x][i].kind # "request"
  BY DEF Registering, RegisterTypes, DaemonTypes
<1>2. ASSUME NEW e \in Entry, e.kind # "request" \/ e \in asked[s], QueueCallback(s, e),
             \A x \in Session : asked'[x] \subseteq asked[x]
      PROVE  Found'
  <2>1. \A x \in Session : \A i \in DOMAIN queue'[x] :
           \/ i \in DOMAIN queue[x] /\ queue'[x][i] = queue[x][i]
           \/ queue'[x][i] = e
    BY <1>2, QueuedAt
  <2>2. \A d : Spoken(d)' /\ d.kind = "request" => Spoken(d)
    BY <1>0, <1>2, <2>1 DEF Spoken
  <2> QED BY <1>0, <2>2, PassFound
<1>3. CASE DaemonCalls(s)
  <2>1. PICK i \in DOMAIN known[s] : QueueCallback(s, known[s][i])
    BY <1>3 DEF DaemonCalls
  <2>2. known[s] \in Seq(Entry)
    BY <1>1
  <2>3. known[s][i] \in Entry /\ known[s][i].kind # "request"
    BY <1>1, <2>2, EntryAt
  <2>4. asked' = asked
    BY <1>3 DEF DaemonCalls
  <2> QED BY <1>2, <2>1, <2>3, <2>4
<1>4. CASE DaemonReplies(s)
  <2>1. PICK e \in asked[s] : QueueCallback(s, e) /\ asked' = [asked EXCEPT ![s] = @ \ {e}]
    BY <1>4 DEF DaemonReplies
  <2>2. e \in Entry /\ \A x \in Session : asked'[x] \subseteq asked[x]
    BY <1>1, <2>1
  <2> QED BY <1>2, <2>1, <2>2
<1>5. CASE DaemonReads(s)
  <2>1. CASE UNCHANGED <<asked, queue>>
    BY <1>0, <2>1, SameSpoken, PassFound
  <2>2. ASSUME NEW k, UnregisterCallback(s, k) PROVE Found'
    <3>1. /\ asked' = asked
          /\ queue' = [queue EXCEPT ![s] = IF @ = <<>> THEN @ ELSE Without(@, k)]
      BY <2>2 DEF UnregisterCallback
    <3>2. queue[s] \in Seq(Entry)
      BY <1>1
    <3>3. \A i \in DOMAIN Without(queue[s], k) :
             \E j \in DOMAIN queue[s] : Without(queue[s], k)[i] = queue[s][j]
      BY <3>2, WithoutEntries
    <3>4. \A x \in Session : queue'[x] = queue[x] \/ (x = s /\ queue'[x] = Without(queue[s], k))
      BY <1>1, <3>1
    <3>5. \A x \in Session : \A i \in DOMAIN queue'[x] :
             \E j \in DOMAIN queue[x] : queue'[x][i] = queue[x][j]
      BY <3>3, <3>4
    <3>6. \A d : Spoken(d)' /\ d.kind = "request" => Spoken(d)
      BY <1>0, <3>1, <3>5 DEF Spoken
    <3> QED BY <1>0, <3>6, PassFound
  <2> QED BY <1>5, <2>1, <2>2 DEF DaemonReads, SetClientPort
<1>6. CASE DaemonExits
  <2>1. \A x \in Session : asked'[x] = {} /\ DOMAIN queue'[x] = {}
    BY <1>6, NoEntry DEF DaemonExits
  <2>2. \A d : Spoken(d)' /\ d.kind = "request" => Spoken(d)
    BY <1>0, <2>1 DEF Spoken
  <2> QED BY <1>0, <2>2, PassFound
<1> QED BY <1>3, <1>4, <1>5, <1>6

LEMMA QueueFound ==
  ASSUME Registering, Found, live \subseteq Session, CopyCallbackQueue \/ Dispatch
  PROVE  Found'
<1>0. UNCHANGED <<register, call, asked>>
  BY DEF CopyCallbackQueue, Dispatch, clientVars, serverVars
<1>1. CASE CopyCallbackQueue
  <2>1. /\ turn' = turn
        /\ \/ server \in live /\ batch' = queue[server] /\ queue' = [queue EXCEPT ![server] = <<>>]
           \/ batch' = <<>> /\ queue' = queue
    BY <1>1 DEF CopyCallbackQueue
  <2>2. queue \in [Session -> Seq(Entry)] /\ DOMAIN <<>> = {}
    BY NoEntry DEF Registering, RegisterTypes, DaemonTypes
  <2>3. CASE server \in live /\ batch' = queue[server] /\ queue' = [queue EXCEPT ![server] = <<>>]
    <3>1. /\ server \in Session
          /\ \A x \in Session : queue'[x] = queue[x] \/ DOMAIN queue'[x] = {}
      BY <2>2, <2>3
    <3>2. \A d : Spoken(d)' /\ d.kind = "request" => Spoken(d)
      BY <1>0, <2>1, <2>3, <3>1 DEF Spoken
    <3> QED BY <1>0, <3>2, PassFound
  <2>4. CASE batch' = <<>> /\ queue' = queue
    <3>1. \A d : Spoken(d)' /\ d.kind = "request" => Spoken(d)
      BY <1>0, <2>1, <2>2, <2>4 DEF Spoken
    <3> QED BY <1>0, <3>1, PassFound
  <2> QED BY <2>1, <2>3, <2>4
<1>2. CASE Dispatch
  <2>1. queue' = queue /\ batch # <<>> /\ batch' = Tail(batch) /\ turn' = Taken(Head(batch))
    BY <1>2 DEF Dispatch, serverVars, Taken
  <2>2. batch \in Seq(Entry)
    BY DEF Registering, RegisterTypes, ClientTypes
  <2>3. /\ 1 \in DOMAIN batch /\ Head(batch) = batch[1]
        /\ \A i \in DOMAIN Tail(batch) : i + 1 \in DOMAIN batch /\ Tail(batch)[i] = batch[i + 1]
    BY <2>1, <2>2, TailEntry
  <2>4. turn' # None => turn'.entry = batch[1]
    BY <2>1, <2>3 DEF Taken
  <2>5. \A d : Spoken(d)' /\ d.kind = "request" => Spoken(d)
    BY <1>0, <2>1, <2>3, <2>4 DEF Spoken
  <2> QED BY <1>0, <2>5, PassFound
<1> QED BY <1>1, <1>2

\* Calls that have overlapped stay so.
LEMMA OverlapStays ==
  ASSUME Next, ~overlapped'
  PROVE  ~overlapped
<1> USE DEF daemonVars, serverVars, clientVars, runVars, historyVars
<1>1. ASSUME NEW t \in Thread, NEW op, NEW c, NEW r, Enter(t, op, c, r) PROVE ~overlapped
  BY <1>1 DEF Enter, Overlaps
<1>2. ASSUME NEW s \in Session, DaemonCalls(s) \/ DaemonReplies(s) \/ DaemonReads(s)
      PROVE  ~overlapped
  BY <1>2 DEF DaemonCalls, DaemonReplies, DaemonReads
<1>3. ASSUME DaemonExits \/ DaemonLaunches PROVE ~overlapped
  BY <1>3 DEF DaemonExits, DaemonLaunches
<1>4. ASSUME NEW t \in Thread, NEW c \in Callback, Register(t, c) \/ Unregister(t, c)
      PROVE  ~overlapped
  BY <1>1, <1>4 DEF Register, Unregister
<1>5. ASSUME NEW t \in Thread, SetDispatchQueue(t) \/ Unschedule(t) \/ DASessionKeepAlive(t)
      PROVE  ~overlapped
  BY <1>5 DEF SetDispatchQueue, Unschedule, DASessionKeepAlive
<1>6. ASSUME NEW t \in Thread, Proceed(t) PROVE ~overlapped
  <2>1. CASE Establish(t) \/ Schedule(t) \/ Again(t) \/ Recreated(t)
    BY <2>1 DEF Establish, Schedule, Again, Recreated
  <2>2. CASE Add(t) \/ SendRegister(t) \/ Find(t) \/ Drop(t) \/ Send(t)
    BY <2>2 DEF Add, SendRegister, Find, Drop, Send
  <2> QED BY <1>6, <2>1, <2>2 DEF Proceed
<1>7. ASSUME Receive \/ ServerExited \/ CopyCallbackQueue \/ Dispatch PROVE ~overlapped
  BY <1>7 DEF Receive, ServerExited, CopyCallbackQueue, Dispatch
<1>8. ASSUME Relaunched PROVE ~overlapped
  BY <1>1, <1>8, ConstantAssumption DEF Relaunched
<1>9. ASSUME Done PROVE ~overlapped
  BY <1>1, <1>9, ConstantAssumption DEF Done, Overlaps
<1> QED BY <1>2, <1>3, <1>4, <1>5, <1>6, <1>7, <1>8, <1>9 DEF Next, QueueNext

LEMMA NextFound ==
  ASSUME Registering, Channel, OnePlace, Finding, [Next]_vars
  PROVE  Finding'
<1> USE DEF daemonVars, serverVars, clientVars, runVars, historyVars
<1> SUFFICES ASSUME ~overlapped' PROVE Found'
  BY DEF Finding
<1>0. live \subseteq Session
  BY DEF Channel, ChannelShape
<1>1. CASE UNCHANGED vars
  <2>1. ~overlapped /\ UNCHANGED <<register, call, asked, queue, batch, turn>>
    BY <1>1 DEF vars
  <2> QED BY <2>1, SameSpoken, PassFound DEF Finding
<1>2. CASE Next
  <2>1. ~overlapped
    BY <1>2, OverlapStays
  <2>2. Found /\ RequestsFound /\ OneCall /\ CallsFound
    BY <2>1 DEF Finding, Found
  <2>3. ASSUME NEW s \in Session, DaemonCalls(s) \/ DaemonReplies(s) \/ DaemonReads(s)
        PROVE  Found'
    BY <2>2, <2>3, DaemonFound
  <2>4. CASE DaemonExits
    <3>1. 1 \in Session
      BY ConstantAssumption DEF Session
    <3> QED BY <2>2, <2>4, <3>1, DaemonFound
  <2>5. CASE DaemonLaunches
    <3>1. UNCHANGED <<register, call, asked, queue, batch, turn>>
      BY <2>5 DEF DaemonLaunches
    <3> QED BY <2>2, <3>1, SameSpoken, PassFound
  <2>6. ASSUME NEW t \in Thread, NEW c \in Callback, Register(t, c) \/ Unregister(t, c)
        PROVE  Found'
    <3>1. UNCHANGED <<register, asked, queue, batch, turn>>
      BY <2>6 DEF Register, Unregister
    <3>2. RequestsFound'
      BY <2>2, <3>1, SameSpoken, SameRequests
    <3>3. Enter(t, "register", c, made + 1) \/ Enter(t, "unregister", c, 0)
      BY <2>6 DEF Register, Unregister
    <3>4. OneCall' /\ CallsFound'
      <4>1. PICK m : m = made + 1
        OBVIOUS
      <4>2. Enter(t, "register", c, m) \/ Enter(t, "unregister", c, 0)
        BY <3>3, <4>1
      <4> QED BY <4>2, EnterFound
    <3> QED BY <3>2, <3>4 DEF Found
  <2>7. ASSUME NEW t \in Thread, SetDispatchQueue(t) \/ Unschedule(t) \/ DASessionKeepAlive(t)
        PROVE  Found'
    <3>1. UNCHANGED <<register, call, asked, queue, batch, turn>>
      BY <2>7 DEF SetDispatchQueue, Unschedule, DASessionKeepAlive
    <3> QED BY <2>2, <3>1, SameSpoken, PassFound
  <2>8. ASSUME NEW t \in Thread, Establish(t) \/ Schedule(t) \/ Again(t) \/ Recreated(t) \/ Send(t)
        PROVE  Found'
    <3>1. UNCHANGED <<register, asked, queue, batch, turn>>
      BY <2>8 DEF Establish, Schedule, Again, Recreated, Send
    <3>2. RequestsFound'
      BY <2>2, <3>1, SameSpoken, SameRequests
    <3> QED BY <2>2, <2>8, <3>2, PassingFound DEF Found
  <2>9. ASSUME NEW t \in Thread, Proceed(t) PROVE Found'
    BY <1>0, <2>2, <2>8, <2>9, AddFound, SendRegisterFound, FindFound, DropFound DEF Proceed
  <2>10. CASE Receive \/ ServerExited
    <3>1. UNCHANGED <<register, call, asked, queue, batch, turn>>
      BY <2>10 DEF Receive, ServerExited
    <3> QED BY <2>2, <3>1, SameSpoken, PassFound
  <2>11. CASE Relaunched
    <3>1. UNCHANGED <<register, asked, queue, batch, turn>>
          /\ (call' = call \/ Enter(Queue, "relaunched", None, 0))
      BY <2>11 DEF Relaunched
    <3>2. RequestsFound'
      BY <2>2, <3>1, SameSpoken, SameRequests
    <3>3. OneCall' /\ CallsFound'
      BY <2>2, <3>1, SameCalls, EnterFound, ConstantAssumption
    <3> QED BY <3>2, <3>3 DEF Found
  <2>12. CASE CopyCallbackQueue \/ Dispatch
    BY <1>0, <2>2, <2>12, QueueFound
  <2>13. CASE Done
    BY <2>2, <2>13, DoneFound
  <2> QED BY <1>2, <2>3, <2>4, <2>5, <2>6, <2>7, <2>9, <2>10, <2>11, <2>12, <2>13
          DEF Next, QueueNext
<1> QED BY <1>1, <1>2

LEMMA InitFound == Init => Finding
<1> SUFFICES ASSUME Init PROVE Found
  BY DEF Finding
<1>1. \A t \in Thread : call[t] = Nothing
  BY DEF Init
<1>2. OneCall /\ CallsFound
  BY <1>1, SmallFacts DEF OneCall, CallsFound, CallFound, Sending, IsRegister, Busy
<1>3. \A e : ~Spoken(e)
  BY NoEntry DEF Init, Spoken
<1> QED BY <1>2, <1>3 DEF Found, RequestsFound

\* While no two calls have overlapped, what is under way of a request, and what a call
\* is about to send or to remove, stands in the register of the client.
THEOREM FindingInvariance == Spec => [](Registering /\ Channel /\ Finding)
<1>1. (Registering /\ OnePlace) /\ Channel /\ Finding /\ [Next]_vars => Finding'
  BY NextFound
<1> QED
  BY <1>1, ChannelInvariance, RequestInvariance, InitFound, PTL DEF Spec

(* While no two calls overlap, the answer of a request finds its function:  *)
(* the key stays with it while the request is at the daemon or on its way.  *)
THEOREM AnswersFindRequests == Spec => []AnswerFindsRequest
<1>1. ASSUME Registering, Channel, Finding PROVE AnswerFindsRequest
  <2> SUFFICES ASSUME ~overlapped, NEW e \in Underway \cup {batch[i] : i \in DOMAIN batch},
                      e.kind = "request"
               PROVE  register[e.key] # None /\ register[e.key].reg = e.reg
    BY DEF AnswerFindsRequest
  <2>1. live \subseteq Session
    BY <1>1 DEF Channel, ChannelShape
  <2>2. Spoken(e)
    <3>1. CASE e \in Underway
      BY <2>1, <3>1 DEF Underway, Spoken
    <3>2. CASE \E i \in DOMAIN batch : e = batch[i]
      BY <3>2 DEF Spoken
    <3> QED BY <3>1, <3>2
  <2>3. InRegister(e)
    BY <1>1, <2>2 DEF Finding, Found, RequestsFound
  <2> QED BY <2>3 DEF InRegister, Used, EntryOf
<1> QED
  BY <1>1, FindingInvariance, PTL

-----------------------------------------------------------------------------
(* What the daemon knows of.  While no two calls overlap there is one call  *)
(* at most, c, and Agree(c) says what is registered at the daemon while it  *)
(* is where it is.                                                          *)

Once(q, e)   == \E i \in DOMAIN q : q[i] = e /\ \A j \in DOMAIN q : q[j] = e => j = i
Absent(q, e) == \A i \in DOMAIN q : q[i] # e

Event(k)    == kindOf[register[k].callback] # "request"  \* kept by the daemon
Sends(c, k) == c.op = "register" /\ c.at = "send" /\ c.key = k
Untold(c, k) ==                              \* to be told of k by c
  Sends(c, k) \/ c.at = "schedule" \/ (c.at = "again" /\ c.key < k)
Posted(k)     == \E i \in DOMAIN mail[server] : mail[server][i] = [op |-> "unregister", arg |-> k]
Forgets(c, k) == c.op = "unregister" /\ c.at = "send" /\ c.key = k
Leaving(c, k) == Posted(k) \/ Forgets(c, k)  \* to be told to forget it
Beyond(j)     == {k \in Used : k > j}

NotYetTold(c)  == \A k \in Used : Event(k) /\ Untold(c, k) => Absent(known[server], EntryOf(k))
ToldOnce(c)    == \A k \in Used : Event(k) /\ ~Untold(c, k) => Once(known[server], EntryOf(k))
NothingElse(c) == \A i \in DOMAIN known[server] :
                    InRegister(known[server][i]) \/ Leaving(c, known[server][i].key)
KeyIsFree(c)   == \A k \in Used : Leaving(c, k) => Sends(c, k)
LeftIsRight(c) == c.at = "again" => c.left = Cardinality(Beyond(c.key))
NoKeyYet(c)    == c.at = "edit" => c.key = 0
Agree(c) == /\ NotYetTold(c) /\ ToldOnce(c) /\ NothingElse(c) /\ KeyIsFree(c)
            /\ LeftIsRight(c) /\ NoKeyYet(c)

Alone(t)  == \A u \in Thread : u # t => ~Busy(u)
Agreement == ~overlapped /\ server \in live => \A t \in Thread : Alone(t) => Agree(call[t])
MailTypes == mail \in [Session -> Seq(Mail)]
DeadKnown ==
  /\ \A s \in Session \ live : known[s] = <<>>
  /\ up \/ live = {}

\* What is new is there once when it is put behind the rest.
LEMMA AppendOnce ==
  ASSUME NEW q \in Seq(Entry), NEW e \in Entry
  PROVE  /\ Absent(q, e) => Once(Append(q, e), e)
         /\ \A d : d # e /\ Absent(q, d) => Absent(Append(q, e), d)
         /\ \A d : d # e /\ Once(q, d) => Once(Append(q, e), d)
<1> DEFINE w == Append(q, e)
<1>1. /\ DOMAIN w = DOMAIN q \cup {Len(q) + 1} /\ Len(q) + 1 \notin DOMAIN q
      /\ w[Len(q) + 1] = e /\ \A i \in DOMAIN q : w[i] = q[i]
  BY AppendEntry
<1> HIDE DEF w
<1>2. Absent(q, e) => Once(w, e)
  BY <1>1 DEF Absent, Once
<1>3. \A d : d # e /\ Absent(q, d) => Absent(w, d)
  BY <1>1 DEF Absent
<1>4. ASSUME NEW d, d # e, Once(q, d) PROVE Once(w, d)
  <2>1. PICK i \in DOMAIN q : q[i] = d /\ \A j \in DOMAIN q : q[j] = d => j = i
    BY <1>4 DEF Once
  <2>2. i \in DOMAIN w /\ w[i] = d /\ \A j \in DOMAIN w : w[j] = d => j = i
    BY <1>1, <1>4, <2>1
  <2> QED BY <2>2 DEF Once
<1> QED BY <1>2, <1>3, <1>4 DEF w

\* To take one key out leaves what has another as it was.
LEMMA WithoutOnce ==
  ASSUME NEW q \in Seq(Entry), NEW k
  PROVE  /\ \A i \in DOMAIN Without(q, k) :
              Without(q, k)[i].key # k /\ \E j \in DOMAIN q : Without(q, k)[i] = q[j]
         /\ \A d : Absent(q, d) => Absent(Without(q, k), d)
         /\ \A d : d.key # k /\ Once(q, d) => Once(Without(q, k), d)
<1> DEFINE w == Without(q, k)
<1>1. PICK f : Picks(f, q, k, Len(q), w)
  BY WithoutPicks DEF Picked
<1>2. DOMAIN q = 1 .. Len(q)
  OBVIOUS
<1> HIDE DEF w
<1>3. \A i \in DOMAIN w : f[i] \in DOMAIN q /\ w[i] = q[f[i]] /\ w[i].key # k
  BY <1>1, <1>2 DEF Picks
<1>4. \A d : Absent(q, d) => Absent(w, d)
  BY <1>3 DEF Absent
<1>5. ASSUME NEW d, d.key # k, Once(q, d) PROVE Once(w, d)
  <2>1. PICK i \in DOMAIN q : q[i] = d /\ \A j \in DOMAIN q : q[j] = d => j = i
    BY <1>5 DEF Once
  <2>2. PICK n \in DOMAIN w : f[n] = i
    BY <1>1, <1>2, <1>5, <2>1 DEF Picks
  <2>3. \A m \in DOMAIN w : f[m] = f[n] => m = n
    BY <1>1 DEF Picks
  <2>4. w[n] = d /\ \A m \in DOMAIN w : w[m] = d => m = n
    BY <1>3, <2>1, <2>2, <2>3
  <2> QED BY <2>4 DEF Once
<1>6. \A i \in DOMAIN w : w[i].key # k /\ \E j \in DOMAIN q : w[i] = q[j]
  BY <1>3
<1> QED BY <1>4, <1>5, <1>6 DEF w

\* The keys in use can be counted, which left does.
LEMMA UsedFinite ==
  ASSUME NEW j
  PROVE  /\ IsFiniteSet(Used) /\ Used \subseteq Key /\ IsFiniteSet(Beyond(j))
         /\ Beyond(j) \subseteq Used
<1>1. Used \subseteq 1 .. MaxMade /\ MaxMade \in Int /\ 1 \in Int /\ Used \subseteq Key
  BY ConstantAssumption DEF Used, Key
<1>2. IsFiniteSet(1 .. MaxMade)
  BY <1>1, FS_Interval
<1>3. IsFiniteSet(Used)
  BY <1>1, <1>2, FS_Subset
<1>4. Beyond(j) \subseteq Used
  BY DEF Beyond
<1> QED BY <1>1, <1>3, <1>4, FS_Subset

\* The step of the only call.
LEMMA AgreeAfter ==
  ASSUME call \in [Thread -> Call \cup {Nothing}], NEW t \in Thread, NEW n,
         Alone(t), call' = [call EXCEPT ![t] = n], Agree(n)'
  PROVE  Agreement'
<1> SUFFICES ASSUME NEW u \in Thread, Alone(u)' PROVE Agree(call[u])'
  BY DEF Agreement
<1>1. PICK m : m = call'[u]
  OBVIOUS
<1>2. m = n
  <2>1. call'[t] = n /\ \A v \in Thread : v # t => call'[v] = Nothing
    BY DEF Alone, Busy
  <2>2. u # t => n = Nothing
    BY <2>1 DEF Alone, Busy
  <2> QED BY <1>1, <2>1, <2>2
<1>3. Agree(m)'
  BY <1>2
<1> QED
  BY <1>1, <1>3 DEF Agree, NotYetTold, ToldOnce, NothingElse, KeyIsFree, LeftIsRight, NoKeyYet,
     Untold, Sends, Leaving, Forgets

\* A step that leaves the daemon's register and the client's alone.
LEMMA AgreeKept ==
  ASSUME NEW c, NEW n, Agree(c), UNCHANGED <<server, register>>,
         known'[server] = known[server],
         \A k \in Used : Untold(n, k) <=> Untold(c, k),
         \A k : Leaving(c, k) => Leaving(n, k)',
         \A k \in Used : Leaving(n, k)' => Leaving(c, k),
         \A k \in Used : Sends(c, k) => Sends(n, k),
         LeftIsRight(n), NoKeyYet(n)
  PROVE  Agree(n)'
<1>1. Used' = Used /\ \A k : Event(k)' = Event(k) /\ EntryOf(k)' = EntryOf(k)
  BY DEF Used, Event, EntryOf
<1>2. \A k \in Used : Untold(n, k)' <=> Untold(c, k)
  BY DEF Untold, Sends
<1>3. NotYetTold(n)'
  BY <1>1, <1>2 DEF Agree, NotYetTold, Absent
<1>4. ToldOnce(n)'
  BY <1>1, <1>2 DEF Agree, ToldOnce, Once
<1>5. NothingElse(n)'
  BY <1>1 DEF Agree, NothingElse, InRegister
<1>6. KeyIsFree(n)'
  <2>1. \A k : Sends(n, k)' = Sends(n, k)
    BY DEF Sends
  <2> QED BY <1>1, <2>1 DEF Agree, KeyIsFree
<1>7. LeftIsRight(n)' /\ NoKeyYet(n)'
  BY <1>1 DEF LeftIsRight, NoKeyYet, Beyond
<1> QED BY <1>3, <1>4, <1>5, <1>6, <1>7 DEF Agree

\* What is in the mail.
LEMMA PostedThen ==
  ASSUME Channel, server \in live, NEW m, Post(server, m), server' = server
  PROVE  \A k : Posted(k)' <=> Posted(k) \/ m = [op |-> "unregister", arg |-> k]
<1>1. /\ mail' = [mail EXCEPT ![server] = Append(mail[server], m)]
      /\ server \in Session /\ mail = [s \in Session |-> mail[s]] /\ IsSequence(mail[server])
  BY DEF Post, Channel, ChannelShape
<1>2. mail'[server] = Append(mail[server], m)
  BY <1>1
<1>3. PICK q : q = mail[server]
  OBVIOUS
<1>4. PICK S : q \in Seq(S)
  BY <1>1, <1>3 DEF IsSequence
<1> DEFINE w == Append(q, m)
<1>5. /\ DOMAIN w = DOMAIN q \cup {Len(q) + 1} /\ w[Len(q) + 1] = m
      /\ \A i \in DOMAIN q : w[i] = q[i]
  <2>1. q \in Seq(S \cup {m}) /\ m \in S \cup {m}
    BY <1>4
  <2> QED BY <2>1
<1>6. mail'[server] = w
  BY <1>2, <1>3
<1> HIDE DEF w
<1>7. ASSUME NEW k PROVE Posted(k)' <=> Posted(k) \/ m = [op |-> "unregister", arg |-> k]
  <2>1. PICK x : x = [op |-> "unregister", arg |-> k]
    OBVIOUS
  <2>2. Posted(k)' <=> \E i \in DOMAIN w : w[i] = x
    BY <1>6, <2>1 DEF Posted
  <2>3. Posted(k) <=> \E i \in DOMAIN q : q[i] = x
    BY <1>3, <2>1 DEF Posted
  <2> QED BY <1>5, <2>1, <2>2, <2>3
<1> QED BY <1>7

\* When the daemon answers a call it has read all that was sent before.
LEMMA NonePosted ==
  ASSUME Returns(server), server \in live
  PROVE  \A k : ~Posted(k)
<1>1. mail[server] = <<>> /\ DOMAIN <<>> = {}
  BY NoEntry DEF Returns
<1> QED BY <1>1 DEF Posted

\* A call that tells the daemon nothing.
Quiet(n) == /\ n.at \notin {"schedule", "again"}
            /\ n.at = "send" => n.op \notin {"register", "unregister"}
            /\ n.at = "edit" => n.key = 0

\* A call that is quiet has nothing to tell.
LEMMA QuietFacts ==
  /\ Quiet(Nothing)
  /\ \A n : Quiet(n) => /\ \A k : ~Untold(n, k) /\ ~Sends(n, k) /\ ~Forgets(n, k)
                        /\ LeftIsRight(n) /\ NoKeyYet(n)
BY DEF Quiet, Untold, Sends, Forgets, LeftIsRight, NoKeyYet, Nothing

\* What agreed with a call that has told everything agrees with a quiet one.
LEMMA QuietKept ==
  ASSUME NEW c, NEW n, Agree(c), Quiet(n), \A k \in Used : ~Untold(c, k), \A k : ~Forgets(c, k),
         UNCHANGED <<server, known, register, mail>>
  PROVE  Agree(n)'
<1>1. \A k : Posted(k)' = Posted(k)
  BY DEF Posted
<1>2. \A k : ~Forgets(n, k)'
  BY QuietFacts DEF Forgets
<1>3. \A k : Leaving(c, k) <=> Leaving(n, k)'
  BY <1>1, <1>2 DEF Leaving
<1>4. \A k \in Used : ~Sends(c, k) /\ ~Untold(n, k)
  BY QuietFacts DEF Untold
<1> QED BY <1>3, <1>4, QuietFacts, AgreeKept

LEMMA MovedLeft ==
  ASSUME NEW c \in Call, NEW at, NEW key, NEW left
  PROVE  Moved(c, at, key, left).left = left
BY DEF Call, Moved

\* A call begins while there is none.
LEMMA EnterAgree ==
  ASSUME Registering, Channel, NEW t \in Thread, NEW op, NEW cb, NEW r, Enter(t, op, cb, r),
         op \in {"register", "unregister", "respond", "relaunched"},
         ~Busy(t), Alone(t), server \in live, Agree(call[t]),
         UNCHANGED <<server, known, register, mail>>
  PROVE  Agreement'
<1>1. PICK n : n = Entered(op, cb, r)
  OBVIOUS
<1>2. call' = [call EXCEPT ![t] = n] /\ call[t] = Nothing
  BY <1>1 DEF Enter, Entered, Busy
<1>3. server # 0
  BY SmallFacts DEF Channel, ChannelShape
<1>4. Quiet(n)
  BY <1>1, <1>3 DEF Entered, Quiet
<1>5. PICK c : c = call[t]
  OBVIOUS
<1>6. /\ Agree(c) /\ (\A k \in Used : ~Untold(c, k)) /\ (\A k : ~Forgets(c, k))
  BY <1>2, <1>5, QuietFacts
<1>7. Agree(n)'
  BY <1>4, <1>6, QuietKept
<1>8. call \in [Thread -> Call \cup {Nothing}]
  BY DEF Registering, RegisterTypes, CallTypes
<1> QED BY <1>2, <1>7, <1>8, AgreeAfter

\* A session that was made has no register yet.
LEMMA EstablishAgree ==
  ASSUME Registering, Channel, DeadKnown, NEW t \in Thread, Alone(t), Establish(t)
  PROVE  Agreement'
<1>1. /\ call[t].at = "establish" /\ server' = established + 1 /\ established < MaxSession
      /\ call' = [call EXCEPT ![t] = [call[t] EXCEPT !.at = "schedule"]]
      /\ UNCHANGED <<known, mail, register>>
  BY DEF Establish, serverVars
<1>2. PICK n : n = [call[t] EXCEPT !.at = "schedule"]
  OBVIOUS
<1>3. n.at = "schedule"
  <2>1. call[t] \in Call
    BY <1>1, CallIs
  <2> QED BY <1>2, <2>1 DEF Call
<1>4. server' \in Session \ live
  BY <1>1, ConstantAssumption DEF Session, Channel, ChannelShape, DeadAreEmpty
<1>5. known'[server'] = <<>> /\ mail'[server'] = <<>> /\ DOMAIN <<>> = {}
  BY <1>1, <1>4, NoEntry DEF DeadKnown, Channel, DeadAreEmpty
<1>6. \A k : ~Posted(k)' /\ Untold(n, k)' /\ ~Forgets(n, k)'
  BY <1>3, <1>5 DEF Posted, Untold, Forgets
<1>7. Agree(n)'
  BY <1>3, <1>5, <1>6 DEF Agree, NotYetTold, ToldOnce, NothingElse, KeyIsFree, LeftIsRight,
     NoKeyYet, Absent, Leaving
<1>8. call \in [Thread -> Call \cup {Nothing}] /\ call' = [call EXCEPT ![t] = n]
  BY <1>1, <1>2 DEF Registering, RegisterTypes, CallTypes
<1> QED BY <1>7, <1>8, AgreeAfter

\* All that is registered is to be told of.
LEMMA ScheduleAgree ==
  ASSUME Registering, Channel, NEW t \in Thread, Alone(t), server \in live, Agree(call[t]),
         Schedule(t)
  PROVE  Agreement'
<1>1. /\ call[t].at = "schedule" /\ Post(server, [op |-> "port", arg |-> port.id + 1])
      /\ call' = [call EXCEPT ![t] = [call[t] EXCEPT !.at = "again", !.key = 0, !.left = Count]]
      /\ UNCHANGED <<server, known, register>>
  BY DEF Schedule, serverVars, clientVars
<1>2. PICK c : c = call[t]
  OBVIOUS
<1>3. c \in Call /\ c.at = "schedule"
  BY <1>1, <1>2, CallIs
<1>4. PICK m : m = [op |-> "port", arg |-> port.id + 1]
  OBVIOUS
<1>5. \A k : Posted(k)' <=> Posted(k)
  <2>1. \A k : m # [op |-> "unregister", arg |-> k]
    BY <1>4
  <2>2. Post(server, m)
    BY <1>1, <1>4
  <2> QED BY <1>1, <2>1, <2>2, PostedThen
<1>6. PICK n : n = Moved(c, "again", 0, Count)
  OBVIOUS
<1>7. n.at = "again" /\ n.key = 0 /\ n.left = Count
  BY <1>3, <1>6 DEF Call, Moved
<1>8. Beyond(0) = Used
  BY SmallFacts DEF Beyond, Used
<1>9. LeftIsRight(n) /\ NoKeyYet(n)
  BY <1>7, <1>8 DEF LeftIsRight, NoKeyYet, Count
<1>10. \A k \in Used : Untold(n, k) /\ Untold(c, k) /\ ~Sends(c, k)
  BY <1>3, <1>7, SmallFacts DEF Untold, Sends, Used
<1>11. \A k : ~Forgets(c, k) /\ ~Forgets(n, k)'
  BY <1>3, <1>7 DEF Forgets
<1>12. \A k : Leaving(c, k) <=> Leaving(n, k)'
  BY <1>5, <1>11 DEF Leaving
<1>13. Agree(n)'
  BY <1>1, <1>2, <1>9, <1>10, <1>12, AgreeKept
<1>14. call \in [Thread -> Call \cup {Nothing}] /\ call' = [call EXCEPT ![t] = n]
  BY <1>1, <1>2, <1>6 DEF Registering, RegisterTypes, CallTypes, Moved
<1> QED BY <1>13, <1>14, AgreeAfter

\* All have been told.
LEMMA RecreatedAgree ==
  ASSUME Registering, Channel, DeadKnown, NEW t \in Thread, Alone(t), server \in live, Agree(call[t]),
         Recreated(t)
  PROVE  Agreement'
<1>1. /\ call[t].at = "again" /\ call[t].left = 0
      /\ UNCHANGED <<server, known, register, mail>>
  BY DEF Recreated, DeadKnown, serverVars, clientVars
<1>2. PICK c : c = call[t]
  OBVIOUS
<1>3. c \in Call /\ c.at = "again" /\ c.left = 0
  BY <1>1, <1>2, CallIs
<1>4. \E n : call' = [call EXCEPT ![t] = n] /\ Quiet(n)
  <2>1. CASE Return(t, TRUE)
    BY <2>1, QuietFacts DEF Return
  <2>2. CASE ~Return(t, TRUE)
    <3> DEFINE at == IF c.op = "respond" THEN "send" ELSE "edit"
    <3>1. call' = [call EXCEPT ![t] = Moved(c, at, 0, c.left)]
      <4>1. call' = [call EXCEPT ![t] = [c EXCEPT !.at = at, !.key = 0]]
        BY <1>2, <2>2 DEF Recreated
      <4>2. [c EXCEPT !.at = at, !.key = 0] = Moved(c, at, 0, c.left)
        BY <1>3, MovedForms
      <4> QED BY <4>1, <4>2
    <3>2. at \in {"edit", "send"} /\ (at = "send" => c.op = "respond")
      OBVIOUS
    <3> HIDE DEF at
    <3>3. PICK n : n = Moved(c, at, 0, c.left)
      OBVIOUS
    <3>4. n.at = at /\ n.op = c.op /\ n.key = 0
      BY <1>3, <3>3 DEF Call, Moved
    <3>5. Quiet(n)
      BY <3>2, <3>4 DEF Quiet
    <3> QED BY <3>1, <3>3, <3>5
  <2> QED BY <2>1, <2>2
<1>5. PICK n : call' = [call EXCEPT ![t] = n] /\ Quiet(n)
  BY <1>4
<1>6. Beyond(c.key) = {}
  <2>1. Cardinality(Beyond(c.key)) = 0
    BY <1>2, <1>3 DEF Agree, LeftIsRight
  <2> QED BY <2>1, UsedFinite, FS_EmptySet
<1>7. \A k \in Used : ~Untold(c, k)
  <2>1. c.key \in 0 .. MaxMade
    BY <1>3 DEF Call
  <2> QED BY <1>3, <1>6, <2>1, SmallFacts DEF Untold, Sends, Beyond, Used
<1>8. \A k : ~Forgets(c, k)
  BY <1>3 DEF Forgets
<1>9. Agree(n)'
  BY <1>1, <1>2, <1>5, <1>7, <1>8, QuietKept
<1>10. call \in [Thread -> Call \cup {Nothing}]
  BY DEF Registering, RegisterTypes, CallTypes
<1> QED BY <1>5, <1>9, <1>10, AgreeAfter

\* The function is looked for.
LEMMA FindAgree ==
  ASSUME Registering, Channel, NEW t \in Thread, Alone(t), server \in live, Agree(call[t]),
         Find(t)
  PROVE  Agreement'
<1>1. /\ call[t].op = "unregister" /\ call[t].at = "edit"
      /\ UNCHANGED <<server, known, register, mail>>
  BY DEF Find, serverVars, clientVars
<1>2. PICK c : c = call[t]
  OBVIOUS
<1>3. /\ c \in Call /\ c.op = "unregister" /\ c.at = "edit" /\ c.key = 0
      /\ call \in [Thread -> Call \cup {Nothing}]
  BY <1>1, <1>2, CallIs DEF Agree, NoKeyYet, Registering, RegisterTypes, CallTypes
<1>4. \A k : ~Untold(c, k) /\ ~Forgets(c, k) /\ ~Sends(c, k)
  BY <1>3 DEF Untold, Sends, Forgets
<1>5. CASE \E k \in Used : call' = [call EXCEPT ![t] = [c EXCEPT !.at = "drop", !.key = k]]
  <2>1. PICK k \in Used : call' = [call EXCEPT ![t] = [c EXCEPT !.at = "drop", !.key = k]]
    BY <1>5
  <2>2. PICK n : n = [c EXCEPT !.at = "drop", !.key = k]
    OBVIOUS
  <2>3. Quiet(n)
    BY <1>3, <2>2 DEF Quiet, Call
  <2>4. Agree(n)'
    BY <1>1, <1>2, <1>4, <2>3, QuietKept
  <2> QED BY <1>3, <2>1, <2>2, <2>4, AgreeAfter
<1>6. CASE call' = [call EXCEPT ![t] = [c EXCEPT !.at = "send"]]
  <2>1. PICK n : n = [c EXCEPT !.at = "send"]
    OBVIOUS
  <2>2. n.at = "send" /\ n.op = "unregister" /\ n.key = 0
    BY <1>3, <2>1 DEF Call
  <2>3. \A k \in Used : ~Untold(n, k) /\ ~Forgets(n, k)'
    BY <2>2, SmallFacts DEF Untold, Sends, Forgets, Used
  <2>4. \A k : Posted(k)' = Posted(k)
    BY <1>1 DEF Posted
  <2>5. /\ \A k : Leaving(c, k) => Leaving(n, k)'
        /\ \A k \in Used : Leaving(n, k)' => Leaving(c, k)
    BY <1>4, <2>3, <2>4 DEF Leaving
  <2>6. LeftIsRight(n) /\ NoKeyYet(n)
    BY <2>2 DEF LeftIsRight, NoKeyYet
  <2>7. Agree(n)'
    BY <1>1, <1>2, <1>4, <2>3, <2>5, <2>6, AgreeKept
  <2> QED BY <1>3, <1>6, <2>1, <2>7, AgreeAfter
<1> QED BY <1>2, <1>5, <1>6 DEF Find

\* What is registered is an entry of the register.
LEMMA EntryOfUsed ==
  ASSUME Registering, NEW k \in Used
  PROVE  /\ EntryOf(k) \in Entry /\ EntryOf(k).key = k /\ EntryOf(k).reg = register[k].reg
         /\ EntryOf(k).kind = kindOf[register[k].callback] /\ InRegister(EntryOf(k))
<1>1. k \in Key /\ register[k] \in Record
  BY DEF Used, Registering, RegisterTypes, ClientTypes
<1>2. register[k].callback \in Callback /\ register[k].reg \in Key
  BY <1>1 DEF Record
<1> QED BY <1>1, <1>2, SmallFacts DEF EntryOf, Entry, InRegister

\* The next key is told.
LEMMA AgainAgree ==
  ASSUME Registering, Channel, NEW t \in Thread, Alone(t), server \in live, Agree(call[t]),
         Again(t)
  PROVE  Agreement'
<1>1. PICK c : c = call[t]
  OBVIOUS
<1>2. PICK k \in Used :
        /\ k > c.key /\ \A j \in Used : j > c.key => j >= k
        /\ call' = [call EXCEPT ![t] = [c EXCEPT !.key = k, !.left = c.left - 1]]
        /\ known' = IF server \in live /\ EntryOf(k).kind # "request"
                    THEN [known EXCEPT ![server] = Append(@, EntryOf(k))] ELSE known
  BY <1>1 DEF Again
<1>3. /\ c.at = "again" /\ Returns(server) /\ UNCHANGED <<server, register, mail>>
  BY <1>1 DEF Again, clientVars
<1>4. /\ c \in Call /\ c.key \in 0 .. MaxMade /\ c.left \in 0 .. MaxMade
      /\ call \in [Thread -> Call \cup {Nothing}]
      /\ server \in Session /\ known \in [Session -> Seq(Entry)]
  BY <1>1, <1>3, CallIs DEF Registering, RegisterTypes, CallTypes, DaemonTypes, Channel,
     ChannelShape, Call
<1>5. PICK n : n = [c EXCEPT !.key = k, !.left = c.left - 1]
  OBVIOUS
<1>6. n.at = "again" /\ n.key = k /\ n.left = c.left - 1
  BY <1>3, <1>4, <1>5 DEF Call
<1>7. /\ \A j : ~Posted(j)
      /\ \A j : ~Forgets(c, j) /\ ~Forgets(n, j) /\ ~Sends(c, j) /\ ~Sends(n, j)
  BY <1>3, <1>6, NonePosted DEF Forgets, Sends
<1>8. \A j : ~Leaving(c, j) /\ ~Leaving(n, j)'
  <2>1. \A j : Posted(j)' = Posted(j) /\ ~Forgets(n, j)'
    BY <1>3, <1>7 DEF Posted, Forgets
  <2> QED BY <1>7, <2>1 DEF Leaving
<1>9. Used' = Used /\ \A j : Event(j)' = Event(j) /\ EntryOf(j)' = EntryOf(j)
  BY <1>3 DEF Used, Event, EntryOf
<1>10. \A j \in Used : j \in Nat /\ (Untold(c, j) <=> j > c.key) /\ (Untold(n, j)' <=> j > k)
  BY <1>3, <1>4, <1>6, SmallFacts DEF Untold, Sends, Used
<1>11. PICK q : q = known[server]
  OBVIOUS
<1>12. PICK w : w = known'[server']
  OBVIOUS
<1>13. q \in Seq(Entry)
  BY <1>4, <1>11
<1>14. \/ Event(k) /\ w = Append(q, EntryOf(k))
       \/ ~Event(k) /\ w = q
  BY <1>2, <1>3, <1>4, <1>11, <1>12 DEF Event, EntryOf
<1>15. Event(k) => Absent(q, EntryOf(k))
  BY <1>1, <1>2, <1>10, <1>11 DEF Agree, NotYetTold
<1>16. ASSUME NEW j \in Used, Event(j)
       PROVE  IF j > k THEN Absent(w, EntryOf(j)) ELSE Once(w, EntryOf(j))
  <2>1. CASE j = k
    <3>1. Once(Append(q, EntryOf(k)), EntryOf(k))
      BY <1>13, <1>15, <1>16, <2>1, EntryOfUsed, AppendOnce
    <3>2. Event(k)
      BY <1>16, <2>1
    <3>3. Once(w, EntryOf(k))
      BY <1>14, <3>1, <3>2
    <3>4. ~(j > k)
      BY <1>10, <2>1
    <3> QED BY <2>1, <3>3, <3>4
  <2>2. CASE j # k
    <3>1. EntryOf(j) # EntryOf(k)
      BY <2>2, EntryOfUsed
    <3>2. IF j > k THEN Absent(q, EntryOf(j)) ELSE Once(q, EntryOf(j))
      <4>1. j > k => j > c.key
        BY <1>2, <1>4, <1>10
      <4>2. ~(j > k) => ~(j > c.key)
        BY <1>2, <1>4, <1>10, <2>2
      <4> QED BY <1>1, <1>10, <1>11, <1>16, <4>1, <4>2 DEF Agree, NotYetTold, ToldOnce
    <3>3. EntryOf(k) \in Entry
      BY EntryOfUsed
    <3>4. /\ Absent(q, EntryOf(j)) => Absent(w, EntryOf(j))
          /\ Once(q, EntryOf(j)) => Once(w, EntryOf(j))
      BY <1>13, <1>14, <3>1, <3>3, AppendOnce
    <3> QED BY <3>2, <3>4
  <2> QED BY <2>1, <2>2
<1>17. NotYetTold(n)'
  BY <1>9, <1>10, <1>12, <1>16 DEF NotYetTold, Absent
<1>18. ToldOnce(n)'
  BY <1>9, <1>10, <1>12, <1>16 DEF ToldOnce, Once
<1>19. NothingElse(n)'
  <2>1. \A i \in DOMAIN q : InRegister(q[i])
    BY <1>1, <1>8, <1>11 DEF Agree, NothingElse
  <2>2. \A i \in DOMAIN w : InRegister(w[i])
    BY <1>13, <1>14, <2>1, EntryOfUsed, AppendEntry
  <2> QED BY <1>9, <1>12, <2>2 DEF NothingElse, InRegister
<1>20. KeyIsFree(n)' /\ NoKeyYet(n)'
  BY <1>6, <1>8 DEF KeyIsFree, NoKeyYet
<1>21. LeftIsRight(n)'
  <2>1. c.left = Cardinality(Beyond(c.key))
    BY <1>1, <1>3 DEF Agree, LeftIsRight
  <2>2. k \in Beyond(c.key)
    BY <1>2 DEF Beyond
  <2>3. Beyond(k) = Beyond(c.key) \ {k}
    BY <1>2, <1>4, <1>10 DEF Beyond
  <2>4. IsFiniteSet(Beyond(c.key))
    BY UsedFinite
  <2>5. Cardinality(Beyond(k)) = Cardinality(Beyond(c.key)) - 1
    BY <2>2, <2>3, <2>4, FS_RemoveElement
  <2>6. Beyond(n.key)' = Beyond(k)
    BY <1>6, <1>9 DEF Beyond
  <2> QED BY <1>6, <2>1, <2>5, <2>6 DEF LeftIsRight
<1>22. Agree(n)'
  BY <1>17, <1>18, <1>19, <1>20, <1>21 DEF Agree
<1> QED BY <1>2, <1>4, <1>5, <1>22, AgreeAfter

\* A key is given out: nothing is known under it that was not to be forgotten,
\* and the registration is not known yet.
LEMMA AddAgree ==
  ASSUME Registering, Channel, NEW t \in Thread, Alone(t), server \in live, Agree(call[t]),
         Add(t)
  PROVE  Agreement'
<1>1. PICK c : c = call[t]
  OBVIOUS
<1>2. PICK k : k = NextKey
  OBVIOUS
<1> DEFINE rec == [callback |-> c.callback, reg |-> c.reg]
<1>3. /\ c.op = "register" /\ c.at = "edit"
      /\ register' = [register EXCEPT ![k] = rec]
      /\ call' = [call EXCEPT ![t] = [c EXCEPT !.at = "send", !.key = k]]
      /\ UNCHANGED <<server, known, mail>>
  BY <1>1, <1>2 DEF Add, serverVars
<1>4. k \in Key /\ register[k] = None
  BY <1>1, <1>2, <1>3, NextKeyIsFree DEF Unsent, IsRegister
<1>5. /\ c \in Call /\ call \in [Thread -> Call \cup {Nothing}] /\ server \in Session
      /\ known[server] \in Seq(Entry) /\ register \in [Key -> Record \cup {None}]
  BY <1>1, <1>3, CallIs DEF Registering, RegisterTypes, CallTypes, DaemonTypes, Channel,
     ChannelShape, ClientTypes
<1>6. PICK n : n = [c EXCEPT !.at = "send", !.key = k]
  OBVIOUS
<1>7. n.op = "register" /\ n.at = "send" /\ n.key = k
  BY <1>3, <1>5, <1>6 DEF Call
<1>8. register'[k] = rec /\ \A j \in Key : j # k => register'[j] = register[j]
  BY <1>3, <1>4, <1>5
<1> HIDE DEF rec
<1>9. /\ k \notin Used /\ Used \subseteq Key
      /\ \A j \in Used' : j # k => j \in Used
      /\ \A j \in Used : j \in Used' /\ j # k
  BY <1>4, <1>8 DEF Used
<1>10. \A j \in Used : Event(j)' = Event(j) /\ EntryOf(j)' = EntryOf(j)
  BY <1>8, <1>9 DEF Event, EntryOf
<1>11. \A j : ~Untold(c, j) /\ ~Sends(c, j) /\ ~Forgets(c, j)
  BY <1>3 DEF Untold, Sends, Forgets
<1>12. \A j : (Untold(n, j)' <=> j = k) /\ (Sends(n, j)' <=> j = k) /\ ~Forgets(n, j)'
  BY <1>7 DEF Untold, Sends, Forgets
<1>13. \A j : Posted(j)' = Posted(j)
  BY <1>3 DEF Posted
<1>14. \A j : Leaving(n, j)' <=> Leaving(c, j)
  BY <1>11, <1>12, <1>13 DEF Leaving
<1>15. NotYetTold(n)'
  <2>1. Absent(known[server], EntryOf(k)')
    <3>1. EntryOf(k)'.reg = c.reg
      BY <1>8 DEF EntryOf, rec
    <3>2. \A x : ~KnownAs(x, c.reg)
      BY <1>1, <1>3 DEF Registering, OneKey, Unsent, IsRegister
    <3>3. \A i \in DOMAIN known[server] : known[server][i].reg # c.reg
      BY <1>5, <3>2 DEF KnownAs, InSeq
    <3> QED BY <3>1, <3>3 DEF Absent
  <2>2. \A j \in Used' : Untold(n, j)' => j = k
    BY <1>12
  <2> QED BY <1>3, <2>1, <2>2 DEF NotYetTold, Absent
<1>16. ToldOnce(n)'
  <2>1. \A j \in Used : Event(j) => Once(known[server], EntryOf(j))
    BY <1>1, <1>11 DEF Agree, ToldOnce
  <2>2. \A j \in Used' : Event(j)' /\ ~Untold(n, j)' => Once(known[server], EntryOf(j)')
    BY <1>9, <1>10, <1>12, <2>1
  <2> QED BY <1>3, <2>2 DEF ToldOnce, Once
<1>17. NothingElse(n)'
  <2>1. \A e : InRegister(e) => InRegister(e)'
    BY <1>9, <1>10 DEF InRegister
  <2>2. ASSUME NEW i \in DOMAIN known[server]
        PROVE  InRegister(known[server][i])' \/ Leaving(n, known[server][i].key)'
    <3>1. PICK e : e = known[server][i]
      OBVIOUS
    <3>2. InRegister(e) \/ Leaving(c, e.key)
      BY <1>1, <3>1 DEF Agree, NothingElse
    <3>3. InRegister(e)' \/ Leaving(n, e.key)'
      BY <1>14, <2>1, <3>2
    <3> QED BY <1>3, <3>1, <3>3 DEF InRegister, Leaving, Forgets
  <2> QED BY <1>3, <2>2 DEF NothingElse, InRegister, Leaving, Forgets
<1>18. KeyIsFree(n)'
  <2>1. \A j \in Used : ~Leaving(c, j)
    BY <1>1, <1>11 DEF Agree, KeyIsFree
  <2>2. \A j \in Used' : Leaving(n, j)' => Sends(n, j)'
    BY <1>9, <1>12, <1>14, <2>1
  <2> QED BY <2>2 DEF KeyIsFree
<1>19. LeftIsRight(n)' /\ NoKeyYet(n)'
  BY <1>7 DEF LeftIsRight, NoKeyYet
<1>20. Agree(n)'
  BY <1>15, <1>16, <1>17, <1>18, <1>19 DEF Agree
<1> QED BY <1>1, <1>3, <1>5, <1>6, <1>20, AgreeAfter

\* The daemon is told: it knows what it is told of once.
LEMMA SendRegisterAgree ==
  ASSUME Registering, Channel, NEW t \in Thread, Alone(t), server \in live, Agree(call[t]),
         CallFound(t), SendRegister(t)
  PROVE  Agreement'
<1>1. PICK c : c = call[t]
  OBVIOUS
<1>2. PICK k : k = c.key
  OBVIOUS
<1>3. /\ c.op = "register" /\ c.at = "send" /\ Returns(server)
      /\ UNCHANGED <<server, register, mail>>
      /\ call' = [call EXCEPT ![t] = Nothing]
  BY <1>1 DEF SendRegister, clientVars, Return
<1>4. /\ k \in Key /\ c.callback \in Callback
      /\ call \in [Thread -> Call \cup {Nothing}] /\ server \in Session
      /\ known \in [Session -> Seq(Entry)] /\ register \in [Key -> Record \cup {None}]
  BY <1>1, <1>2, <1>3, CallIs DEF Registering, RegisterTypes, CallTypes, DaemonTypes, Channel,
     ChannelShape, ClientTypes, CallFits
<1>5. register[k] = [callback |-> c.callback, reg |-> c.reg]
  BY <1>1, <1>2, <1>3 DEF CallFound, Sending, IsRegister
<1>6. k \in Used /\ EntryOf(k) = [key |-> c.key, kind |-> kindOf[c.callback], reg |-> c.reg]
  <2>1. c.reg \in Key
    <3>1. c.reg \in 1 .. made /\ made \in 0 .. MaxMade
      BY <1>1, <1>3, CallIs DEF CallFits, Registering, RegisterTypes, ClientTypes
    <3> QED BY <3>1, SmallFacts
  <2>2. register[k] \in Record
    BY <1>4, <1>5, <2>1 DEF Record
  <2> QED BY <1>2, <1>4, <1>5, <2>2, NoneAssumption DEF Used, EntryOf
<1>7. PICK q : q = known[server]
  OBVIOUS
<1>8. PICK w : w = known'[server']
  OBVIOUS
<1>9. \/ Event(k) /\ w = Append(q, EntryOf(k))
      \/ ~Event(k) /\ w = q
  <2>1. PICK e : e = [key |-> c.key, kind |-> kindOf[c.callback], reg |-> c.reg]
    OBVIOUS
  <2>2. \/ e.kind # "request" /\ known' = [known EXCEPT ![server] = Append(@, e)]
        \/ e.kind = "request" /\ known' = known
    BY <1>1, <2>1 DEF SendRegister
  <2>3. e.kind # "request" <=> Event(k)
    BY <1>5, <2>1 DEF Event
  <2> QED BY <1>3, <1>4, <1>6, <1>7, <1>8, <2>1, <2>2, <2>3
<1>10. Used' = Used /\ \A j : Event(j)' = Event(j) /\ EntryOf(j)' = EntryOf(j)
  BY <1>3 DEF Used, Event, EntryOf
<1>11. \A j : (Untold(c, j) <=> j = k) /\ ~Forgets(c, j)
  BY <1>2, <1>3 DEF Untold, Sends, Forgets
<1>12. PICK n : n = Nothing
  OBVIOUS
<1>13. \A j : ~Untold(n, j)' /\ ~Forgets(n, j)'
  BY <1>12 DEF Untold, Sends, Forgets, Nothing
<1>14. \A j : ~Leaving(c, j) /\ ~Leaving(n, j)'
  <2>1. \A j : Posted(j)' = Posted(j) /\ ~Posted(j)
    BY <1>3, NonePosted DEF Posted
  <2> QED BY <1>11, <1>13, <2>1 DEF Leaving
<1>15. EntryOf(k) \in Entry /\ q \in Seq(Entry)
  BY <1>4, <1>6, <1>7, EntryOfUsed
<1>16. ASSUME NEW j \in Used, Event(j) PROVE Once(w, EntryOf(j))
  <2>1. CASE j = k
    <3>1. Absent(q, EntryOf(k))
      BY <1>1, <1>7, <1>11, <1>16, <2>1 DEF Agree, NotYetTold
    <3> QED BY <1>9, <1>15, <1>16, <2>1, <3>1, AppendOnce
  <2>2. CASE j # k
    <3>1. Once(q, EntryOf(j)) /\ EntryOf(j) # EntryOf(k)
      BY <1>1, <1>6, <1>7, <1>11, <1>16, <2>2, EntryOfUsed DEF Agree, ToldOnce
    <3> QED BY <1>9, <1>15, <3>1, AppendOnce
  <2> QED BY <2>1, <2>2
<1>17. NotYetTold(n)'
  BY <1>13 DEF NotYetTold
<1>18. ToldOnce(n)'
  BY <1>8, <1>10, <1>16 DEF ToldOnce, Once
<1>19. NothingElse(n)'
  <2>1. \A i \in DOMAIN q : InRegister(q[i])
    BY <1>1, <1>7, <1>14 DEF Agree, NothingElse
  <2>2. \A i \in DOMAIN w : InRegister(w[i])
    BY <1>6, <1>9, <1>15, <2>1, EntryOfUsed, AppendEntry
  <2> QED BY <1>8, <1>10, <2>2 DEF NothingElse, InRegister
<1>20. KeyIsFree(n)' /\ LeftIsRight(n)' /\ NoKeyYet(n)'
  BY <1>12, <1>14 DEF KeyIsFree, LeftIsRight, NoKeyYet, Nothing
<1>21. Agree(n)'
  BY <1>17, <1>18, <1>19, <1>20 DEF Agree
<1> QED BY <1>3, <1>4, <1>12, <1>21, AgreeAfter

\* A key that is taken away, while nothing is said under it or by it.
LEMMA KeyTaken ==
  ASSUME Registering, Channel, server \in live, NEW k \in Used, NEW c, Agree(c),
         register' = [register EXCEPT ![k] = None], UNCHANGED <<server, known, mail>>,
         \A j : ~Untold(c, j) /\ ~Sends(c, j) /\ ~Forgets(c, j),
         NEW n, \A j : ~Untold(n, j) /\ ~Sends(n, j),
         \A j : Forgets(n, j) => j = k,
         n.at # "again", n.at # "edit",
         Forgets(n, k) \/ \A i \in DOMAIN known[server] :
                             InRegister(known[server][i]) => known[server][i].key # k
  PROVE  Agree(n)'
<1>1. server \in Session /\ register \in [Key -> Record \cup {None}]
  BY DEF Channel, ChannelShape, Registering, RegisterTypes, ClientTypes
<1>2. k \in Key /\ register'[k] = None /\ \A j \in Key : j # k => register'[j] = register[j]
  BY <1>1 DEF Used
<1>3. \A j : j \in Used' <=> j \in Used /\ j # k
  BY <1>2 DEF Used
<1>4. \A j \in Used' : Event(j)' = Event(j) /\ EntryOf(j)' = EntryOf(j)
  BY <1>2, <1>3 DEF Event, EntryOf, Used
<1>5. \A j : ~Untold(n, j)' /\ (Forgets(n, j)' <=> Forgets(n, j)) /\ Posted(j)' = Posted(j)
  BY DEF Untold, Sends, Forgets, Posted
<1>6. NotYetTold(n)'
  BY <1>5 DEF NotYetTold
<1>7. ToldOnce(n)'
  <2>1. \A j \in Used : Event(j) => Once(known[server], EntryOf(j))
    BY DEF Agree, ToldOnce
  <2>2. \A j \in Used' : Event(j)' => Once(known[server], EntryOf(j)')
    BY <1>3, <1>4, <2>1
  <2> QED BY <2>2 DEF ToldOnce, Once
<1>8. NothingElse(n)'
  <2>1. ASSUME NEW i \in DOMAIN known[server], NEW e, e = known[server][i]
        PROVE  InRegister(e)' \/ Leaving(n, e.key)'
    <3>1. InRegister(e) \/ Posted(e.key)
      BY <2>1 DEF Agree, NothingElse, Leaving
    <3>2. CASE Posted(e.key)
      BY <1>5, <3>2 DEF Leaving
    <3>3. CASE InRegister(e) /\ e.key # k
      BY <1>3, <1>4, <3>3 DEF InRegister
    <3>4. CASE InRegister(e) /\ e.key = k
      BY <1>5, <2>1, <3>4 DEF Leaving
    <3> QED BY <3>1, <3>2, <3>3, <3>4
  <2> QED BY <2>1 DEF NothingElse, InRegister, Leaving, Forgets
<1>9. KeyIsFree(n)'
  <2>1. \A j \in Used : ~Posted(j)
    BY DEF Agree, KeyIsFree, Leaving
  <2>2. \A j \in Used' : ~Leaving(n, j)'
    BY <1>3, <1>5, <2>1 DEF Leaving
  <2> QED BY <2>2 DEF KeyIsFree
<1>10. LeftIsRight(n)' /\ NoKeyYet(n)'
  BY DEF LeftIsRight, NoKeyYet
<1> QED BY <1>6, <1>7, <1>8, <1>9, <1>10 DEF Agree

\* The entry is removed; the daemon is still to be told.
LEMMA DropAgree ==
  ASSUME Registering, Channel, NEW t \in Thread, Alone(t), server \in live, Agree(call[t]),
         CallFound(t), Drop(t)
  PROVE  Agreement'
<1>1. PICK c : c = call[t]
  OBVIOUS
<1>2. PICK k : k = c.key
  OBVIOUS
<1>3. /\ c.op = "unregister" /\ c.at = "drop"
      /\ register' = [register EXCEPT ![k] = None]
      /\ call' = [call EXCEPT ![t] = [c EXCEPT !.at = "send"]]
      /\ UNCHANGED <<server, known, mail>>
  BY <1>1, <1>2 DEF Drop, RemoveKey, serverVars
<1>4. /\ c \in Call /\ k \in Used /\ call \in [Thread -> Call \cup {Nothing}]
  BY <1>1, <1>2, <1>3, CallIs DEF Registering, RegisterTypes, CallTypes, CallFound
<1>5. PICK n : n = [c EXCEPT !.at = "send"]
  OBVIOUS
<1>6. n.op = "unregister" /\ n.at = "send" /\ n.key = k
  BY <1>2, <1>3, <1>4, <1>5 DEF Call
<1>7. /\ \A j : ~Untold(c, j) /\ ~Sends(c, j) /\ ~Forgets(c, j)
      /\ \A j : ~Untold(n, j) /\ ~Sends(n, j) /\ (Forgets(n, j) <=> j = k)
  BY <1>3, <1>6 DEF Untold, Sends, Forgets
<1>8. Agree(n)'
  BY <1>1, <1>3, <1>4, <1>6, <1>7, KeyTaken
<1> QED BY <1>1, <1>3, <1>4, <1>5, <1>8, AgreeAfter

\* It is on its way.
LEMMA SendAgree ==
  ASSUME Registering, Channel, NEW t \in Thread, Alone(t), server \in live, Agree(call[t]),
         Send(t)
  PROVE  Agreement'
<1>1. PICK c : c = call[t]
  OBVIOUS
<1>2. PICK m : m = [op  |-> IF c.op = "respond" THEN "response" ELSE "unregister", arg |-> c.key]
  OBVIOUS
<1>3. /\ c.op \in {"unregister", "respond"} /\ c.at = "send" /\ Post(server, m)
      /\ call' = [call EXCEPT ![t] = Nothing]
      /\ UNCHANGED <<server, register, known>>
  BY <1>1, <1>2 DEF Send, Return, serverVars, clientVars
<1>4. PICK n : n = Nothing
  OBVIOUS
<1>5. \A k : (m = [op |-> "unregister", arg |-> k]) <=> Forgets(c, k)
  BY <1>2, <1>3 DEF Forgets
<1>6. \A k : Posted(k)' <=> Posted(k) \/ Forgets(c, k)
  BY <1>3, <1>5, PostedThen
<1>7. /\ \A k : ~Untold(n, k) /\ ~Untold(c, k) /\ ~Sends(c, k) /\ ~Forgets(n, k)'
      /\ LeftIsRight(n) /\ NoKeyYet(n)
  BY <1>3, <1>4 DEF Untold, Sends, Forgets, LeftIsRight, NoKeyYet, Nothing
<1>8. \A k : Leaving(n, k)' <=> Leaving(c, k)
  BY <1>6, <1>7 DEF Leaving
<1>9. Agree(n)'
  BY <1>1, <1>3, <1>7, <1>8, AgreeKept
<1>10. call \in [Thread -> Call \cup {Nothing}]
  BY DEF Registering, RegisterTypes, CallTypes
<1> QED BY <1>3, <1>4, <1>9, <1>10, AgreeAfter

\* Steps that no call takes.
LEMMA AgreeStill ==
  ASSUME call' = call, overlapped' = overlapped, server \in live, ~overlapped, Agreement,
         ASSUME NEW c, Agree(c) PROVE Agree(c)'
  PROVE  Agreement'
<1> SUFFICES ASSUME NEW u \in Thread, Alone(u)' PROVE Agree(call[u])'
  BY DEF Agreement
<1>1. PICK c : c = call[u]
  OBVIOUS
<1>2. Agree(c)
  BY <1>1 DEF Agreement, Alone, Busy
<1>3. Agree(c)'
  BY <1>2
<1> QED
  BY <1>1, <1>3 DEF Agree, NotYetTold, ToldOnce, NothingElse, KeyIsFree, LeftIsRight, NoKeyYet,
     Untold, Sends, Leaving, Forgets

\* Nothing that matters is posted, read or changed.
LEMMA AgreeSame ==
  ASSUME UNCHANGED <<server, register>>, known'[server] = known[server],
         \A k : Posted(k)' <=> Posted(k),
         NEW c, Agree(c)
  PROVE  Agree(c)'
<1>1. \A k : Leaving(c, k)' <=> Leaving(c, k)
  BY DEF Leaving, Forgets
<1> QED BY <1>1, AgreeKept DEF Agree

\* DaemonReads: what the daemon forgets is no longer registered.
LEMMA ReadsAgree ==
  ASSUME Registering, Channel, MailTypes, server \in live, ~overlapped, Agreement,
         NEW s \in Session, DaemonReads(s)
  PROVE  Agreement'
<1>1. /\ mail[s] # <<>> /\ mail' = [mail EXCEPT ![s] = Tail(@)]
      /\ UNCHANGED <<server, register, call, overlapped>>
  BY DEF DaemonReads, clientVars, historyVars
<1>2. /\ mail = [x \in Session |-> mail[x]] /\ IsSequence(mail[s]) /\ server \in Session
      /\ known \in [Session -> Seq(Entry)]
  BY DEF Channel, ChannelShape, Registering, RegisterTypes, DaemonTypes
<1>3. mail'[s] = Tail(mail[s]) /\ \A x \in Session : x # s => mail'[x] = mail[x]
  BY <1>1, <1>2
<1>4. PICK q : q = mail[s]
  OBVIOUS
<1>5. PICK S : q \in Seq(S)
  BY <1>2, <1>4 DEF IsSequence
<1>6. /\ 1 \in DOMAIN q /\ Head(q) = q[1]
      /\ \A i \in DOMAIN Tail(q) : i + 1 \in DOMAIN q /\ Tail(q)[i] = q[i + 1] /\ i \in Nat
      /\ \A i \in DOMAIN q : i # 1 => i - 1 \in DOMAIN Tail(q) /\ Tail(q)[i - 1] = q[i]
  BY <1>1, <1>4, <1>5, TailEntry
<1>7. /\ \A k : Posted(k)' => Posted(k)
      /\ \A k : Posted(k) /\ (s # server \/ Head(q) # [op |-> "unregister", arg |-> k]) => Posted(k)'
  <2>1. CASE s # server
    BY <1>1, <1>2, <1>3, <2>1 DEF Posted
  <2>2. CASE s = server
    <3>1. ASSUME NEW k
          PROVE  /\ Posted(k)' => Posted(k)
                 /\ Posted(k) /\ Head(q) # [op |-> "unregister", arg |-> k] => Posted(k)'
      <4>1. PICK x : x = [op |-> "unregister", arg |-> k]
        OBVIOUS
      <4>2. Posted(k) <=> \E i \in DOMAIN q : q[i] = x
        BY <1>4, <2>2, <4>1 DEF Posted
      <4>3. Posted(k)' <=> \E i \in DOMAIN Tail(q) : Tail(q)[i] = x
        BY <1>1, <1>3, <1>4, <2>2, <4>1 DEF Posted
      <4>4. Posted(k)' => Posted(k)
        BY <1>6, <4>2, <4>3
      <4>5. ASSUME Posted(k), Head(q) # x PROVE Posted(k)'
        <5>1. PICK i \in DOMAIN q : q[i] = x
          BY <4>2, <4>5
        <5>2. i # 1
          BY <1>6, <4>5, <5>1
        <5> QED BY <1>6, <4>3, <5>1, <5>2
      <4> QED BY <4>1, <4>4, <4>5
    <3> QED BY <2>2, <3>1
  <2> QED BY <2>1, <2>2
<1>8. CASE s # server \/ Head(q).op # "unregister"
  <2>1. \A k : Posted(k)' <=> Posted(k)
    <3>1. \A k : Head(q).op # "unregister" => Head(q) # [op |-> "unregister", arg |-> k]
      OBVIOUS
    <3> QED BY <1>7, <1>8, <3>1
  <2>2. ASSUME NEW c, Agree(c) PROVE Agree(c)'
    <3>1. CASE known' = known
      BY <1>1, <2>1, <2>2, <3>1, AgreeSame
    <3>2. CASE known' # known
      <4>1. s # server /\ \E k : known' = [known EXCEPT ![s] = Without(@, k)]
        BY <1>4, <1>8, <3>2 DEF DaemonReads, SetClientPort, UnregisterCallback, serverVars
      <4>2. known'[server] = known[server]
        BY <1>2, <4>1
      <4> QED BY <1>1, <2>1, <2>2, <4>2, AgreeSame
    <3> QED BY <3>1, <3>2
  <2> QED BY <1>1, <2>2, AgreeStill
<1>9. CASE s = server /\ Head(q).op = "unregister"
  <2>1. PICK k : k = Head(q).arg
    OBVIOUS
  <2>2. known' = [known EXCEPT ![server] = Without(@, k)]
    BY <1>4, <1>9, <2>1 DEF DaemonReads, UnregisterCallback
  <2>3. known'[server] = Without(known[server], k) /\ known[server] \in Seq(Entry)
    BY <1>2, <2>2
  <2>4. Posted(k) /\ \A j : j # k /\ Posted(j) => Posted(j)'
    <3>1. Head(q) = [op |-> "unregister", arg |-> k]
      <4>1. mail[s] \in Seq(Mail)
        BY DEF MailTypes
      <4>2. Head(q) \in Mail
        BY <1>1, <1>4, <4>1
      <4> QED BY <1>9, <2>1, <4>2 DEF Mail
    <3>2. Posted(k)
      BY <1>4, <1>6, <1>9, <3>1 DEF Posted
    <3>3. \A j : j # k => Head(q) # [op |-> "unregister", arg |-> j]
      BY <3>1
    <3> QED BY <1>7, <3>2, <3>3
  <2>5. ASSUME NEW c, Agree(c) PROVE Agree(c)'
    <3>1. Used' = Used /\ \A j : Event(j)' = Event(j) /\ EntryOf(j)' = EntryOf(j)
      BY <1>1 DEF Used, Event, EntryOf
    <3>2. \A j : /\ Untold(c, j)' <=> Untold(c, j)
                 /\ Sends(c, j)' <=> Sends(c, j)
                 /\ Forgets(c, j)' <=> Forgets(c, j)
      BY DEF Untold, Sends, Forgets
    <3>3. \A j : /\ Leaving(c, j)' => Leaving(c, j)
                 /\ j # k /\ Leaving(c, j) => Leaving(c, j)'
      BY <1>7, <2>4, <3>2 DEF Leaving
    <3>4. PICK v : v = known[server]
      OBVIOUS
    <3>5. PICK w : w = Without(v, k)
      OBVIOUS
    <3>6. v \in Seq(Entry) /\ known'[server'] = w
      BY <1>1, <2>3, <3>4, <3>5
    <3>7. /\ \A i \in DOMAIN w : w[i].key # k /\ \E j \in DOMAIN v : w[i] = v[j]
          /\ \A d : Absent(v, d) => Absent(w, d)
          /\ \A d : d.key # k /\ Once(v, d) => Once(w, d)
      BY <3>5, <3>6, WithoutOnce
    <3>8. k \in Used => Untold(c, k)
      BY <2>4, <2>5 DEF Agree, KeyIsFree, Leaving, Untold
    <3>9. NotYetTold(c)'
      <4>1. \A j \in Used : Event(j) /\ Untold(c, j) => Absent(w, EntryOf(j))
        BY <2>5, <3>4, <3>7 DEF Agree, NotYetTold
      <4> QED BY <3>1, <3>2, <3>6, <4>1 DEF NotYetTold, Absent
    <3>10. ToldOnce(c)'
      <4>1. ASSUME NEW j \in Used, Event(j), ~Untold(c, j) PROVE Once(w, EntryOf(j))
        <5>1. EntryOf(j).key # k
          BY <3>8, <4>1, EntryOfUsed
        <5>2. Once(v, EntryOf(j))
          BY <2>5, <3>4, <4>1 DEF Agree, ToldOnce
        <5> QED BY <3>7, <5>1, <5>2
      <4> QED BY <3>1, <3>2, <3>6, <4>1 DEF ToldOnce, Once
    <3>11. NothingElse(c)'
      <4>1. ASSUME NEW i \in DOMAIN w, NEW e, e = w[i] PROVE InRegister(e)' \/ Leaving(c, e.key)'
        <5>1. InRegister(e) \/ Leaving(c, e.key)
          BY <2>5, <3>4, <3>7, <4>1 DEF Agree, NothingElse
        <5>2. e.key # k
          BY <3>7, <4>1
        <5>3. InRegister(e) => InRegister(e)'
          BY <3>1 DEF InRegister
        <5> QED BY <3>3, <5>1, <5>2, <5>3
      <4> QED BY <3>6, <4>1 DEF NothingElse, InRegister, Leaving, Forgets
    <3>12. KeyIsFree(c)'
      BY <2>5, <3>1, <3>2, <3>3 DEF Agree, KeyIsFree
    <3>13. LeftIsRight(c)' /\ NoKeyYet(c)'
      BY <2>5, <3>1 DEF Agree, LeftIsRight, NoKeyYet, Beyond
    <3> QED BY <3>9, <3>10, <3>11, <3>12, <3>13 DEF Agree
  <2> QED BY <1>1, <2>5, AgreeStill
<1> QED BY <1>8, <1>9

\* An answered request is taken off: the daemon never registered it.
LEMMA DoneAgree ==
  ASSUME Registering, Channel, Found, server \in live, ~overlapped, ~overlapped', Agreement, Done
  PROVE  Agreement'
<1>1. /\ UNCHANGED <<known, mail, server>> /\ turn # None /\ ~Busy(Queue) /\ Queue \in Thread
      /\ \/ Enter(Queue, "respond", None, 0) /\ register' = register
         \/ /\ turn.entry.kind = "request" /\ RemoveKey(turn.entry.key)
            /\ Overlaps(Queue) /\ call' = call
         \/ UNCHANGED <<call, register, overlapped>>
  BY ConstantAssumption DEF Done, serverVars
<1>2. CASE Enter(Queue, "respond", None, 0) /\ register' = register
  <2>1. Alone(Queue)
    BY <1>1, <1>2 DEF Enter, Overlaps, Alone
  <2>2. Agree(call[Queue])
    BY <1>1, <2>1 DEF Agreement
  <2> QED BY <1>1, <1>2, <2>1, <2>2, EnterAgree
<1>3. CASE /\ turn.entry.kind = "request" /\ RemoveKey(turn.entry.key)
           /\ Overlaps(Queue) /\ call' = call
  <2>1. Alone(Queue)
    BY <1>1, <1>3 DEF Overlaps, Alone
  <2>2. PICK c : c = call[Queue]
    OBVIOUS
  <2>3. Agree(c) /\ c = Nothing
    BY <1>1, <2>1, <2>2 DEF Agreement, Busy
  <2>4. PICK d : d = turn.entry
    OBVIOUS
  <2>5. InRegister(d) /\ d.kind = "request"
    BY <1>1, <1>3, <2>4 DEF Found, RequestsFound, Spoken
  <2>6. PICK k \in Used : k = d.key
    BY <2>5 DEF InRegister
  <2>7. register' = [register EXCEPT ![k] = None]
    BY <1>3, <2>4, <2>6 DEF RemoveKey
  <2>8. /\ \A j : ~Untold(c, j) /\ ~Sends(c, j) /\ ~Forgets(c, j)
        /\ c.at # "again" /\ c.at # "edit"
    BY <2>3 DEF Untold, Sends, Forgets, Nothing
  <2>9. server \in Session /\ \A i \in DOMAIN known[server] : known[server][i].kind # "request"
    BY DEF Channel, ChannelShape, Registering, RegisterTypes, DaemonTypes
  <2>10. \A i \in DOMAIN known[server] : InRegister(known[server][i]) => known[server][i].key # k
    BY <2>5, <2>6, <2>9 DEF InRegister
  <2>11. Agree(c)'
    BY <1>1, <2>3, <2>7, <2>8, <2>10, KeyTaken
  <2>12. call \in [Thread -> Call \cup {Nothing}]
    BY DEF Registering, RegisterTypes, CallTypes
  <2>13. call' = [call EXCEPT ![Queue] = c]
    BY <1>3, <2>2, <2>12
  <2> QED BY <1>1, <2>1, <2>11, <2>12, <2>13, AgreeAfter
<1>4. CASE UNCHANGED <<call, register, overlapped>>
  <2>1. \A k : Posted(k)' <=> Posted(k)
    BY <1>1 DEF Posted
  <2>2. ASSUME NEW c, Agree(c) PROVE Agree(c)'
    BY <1>1, <1>4, <2>1, <2>2, AgreeSame
  <2> QED BY <1>4, <2>2, AgreeStill
<1> QED BY <1>1, <1>2, <1>3, <1>4

\* A step that touches neither register nor what is said of them.
LEMMA AgreeAside ==
  ASSUME UNCHANGED <<live, server, known, register, mail, call>>,
         server \in live, ~overlapped, overlapped' = overlapped, Agreement
  PROVE  Agreement'
<1>1. \A k : Posted(k)' <=> Posted(k)
  BY DEF Posted
<1>2. ASSUME NEW c, Agree(c) PROVE Agree(c)'
  BY <1>1, <1>2, AgreeSame
<1> QED BY <1>2, AgreeStill

LEMMA SetDispatchQueueAgree ==
  ASSUME Channel, NEW t \in Thread, SetDispatchQueue(t), server \in live, ~overlapped, Agreement
  PROVE  Agreement'
<1>1. /\ Post(server, [op |-> "port", arg |-> port.id + 1])
      /\ UNCHANGED <<server, known, register, call, overlapped>>
  BY DEF SetDispatchQueue, serverVars, clientVars, historyVars
<1>2. PICK m : m = [op |-> "port", arg |-> port.id + 1]
  OBVIOUS
<1>3. \A k : m # [op |-> "unregister", arg |-> k]
  BY <1>2
<1>4. Post(server, m)
  BY <1>1, <1>2
<1>5. \A k : Posted(k)' <=> Posted(k)
  BY <1>1, <1>3, <1>4, PostedThen
<1>6. ASSUME NEW c, Agree(c) PROVE Agree(c)'
  BY <1>1, <1>5, <1>6, AgreeSame
<1> QED BY <1>1, <1>6, AgreeStill

-----------------------------------------------------------------------------
(* What is posted, and what a session has that is gone.                    *)

LEMMA PostTypes ==
  ASSUME Registering, Channel, MailTypes, NEW m \in Mail, Post(server, m)
  PROVE  MailTypes'
<1>1. CASE server \in live
  <2>1. server \in Session /\ mail' = [mail EXCEPT ![server] = Append(mail[server], m)]
    BY <1>1 DEF Post, Channel, ChannelShape
  <2>2. mail[server] \in Seq(Mail)
    BY <2>1 DEF MailTypes
  <2>3. Append(mail[server], m) \in Seq(Mail)
    BY <2>2
  <2> QED BY <2>1, <2>3 DEF MailTypes
<1>2. CASE server \notin live
  BY <1>2 DEF Post, MailTypes
<1> QED BY <1>1, <1>2

\* Messages stay messages.
LEMMA NextMail ==
  ASSUME Registering, Channel, MailTypes, [Next]_vars
  PROVE  MailTypes'
<1> USE DEF daemonVars, serverVars, clientVars, runVars, historyVars
<1>1. ASSUME mail' = mail PROVE MailTypes'
  BY <1>1 DEF MailTypes
<1>2. CASE UNCHANGED vars
  BY <1>1, <1>2 DEF vars
<1>3. ASSUME NEW s \in Session, DaemonCalls(s) \/ DaemonReplies(s) PROVE MailTypes'
  BY <1>1, <1>3 DEF DaemonCalls, DaemonReplies
<1>4. ASSUME NEW s \in Session, DaemonReads(s) PROVE MailTypes'
  <2>1. mail[s] # <<>> /\ mail[s] \in Seq(Mail) /\ mail' = [mail EXCEPT ![s] = Tail(mail[s])]
    BY <1>4 DEF DaemonReads, MailTypes
  <2>2. Tail(mail[s]) \in Seq(Mail)
    BY <2>1
  <2> QED BY <2>1, <2>2 DEF MailTypes
<1>5. CASE DaemonExits
  <2>1. <<>> \in Seq(Mail)
    BY NoEntry
  <2> QED BY <1>5, <2>1 DEF DaemonExits, MailTypes
<1>6. CASE DaemonLaunches
  BY <1>1, <1>6 DEF DaemonLaunches
<1>7. ASSUME NEW t \in Thread, NEW c \in Callback, Register(t, c) \/ Unregister(t, c)
      PROVE  MailTypes'
  BY <1>1, <1>7 DEF Register, Unregister
<1>8. ASSUME NEW t \in Thread, SetDispatchQueue(t) \/ Schedule(t) PROVE MailTypes'
  <2>1. PICK m : m = [op |-> "port", arg |-> port.id + 1]
    OBVIOUS
  <2>2. m \in Mail
    BY <2>1 DEF Mail, Channel, ChannelShape
  <2>3. Post(server, m)
    BY <1>8, <2>1 DEF SetDispatchQueue, Schedule
  <2> QED BY <2>2, <2>3, PostTypes
<1>9. ASSUME NEW t \in Thread, Unschedule(t) \/ DASessionKeepAlive(t) PROVE MailTypes'
  BY <1>1, <1>9 DEF Unschedule, DASessionKeepAlive
<1>10. ASSUME NEW t \in Thread,
              \/ Establish(t) \/ Again(t) \/ Recreated(t) \/ Add(t) \/ SendRegister(t)
              \/ Find(t) \/ Drop(t)
       PROVE  MailTypes'
  <2>1. CASE Establish(t) \/ Again(t) \/ Recreated(t) \/ Add(t)
    BY <1>1, <2>1 DEF Establish, Again, Recreated, Add
  <2>2. CASE SendRegister(t) \/ Find(t) \/ Drop(t)
    BY <1>1, <2>2 DEF SendRegister, Find, Drop
  <2> QED BY <1>10, <2>1, <2>2
<1>11. ASSUME NEW t \in Thread, Send(t) PROVE MailTypes'
  <2>1. PICK m : m = [op  |-> IF call[t].op = "respond" THEN "response" ELSE "unregister",
                      arg |-> call[t].key]
    OBVIOUS
  <2>2. call[t] \in Call
    BY <1>11, CallIs DEF Send
  <2>3. call[t].key \in Nat
    BY <2>2, SmallFacts DEF Call
  <2>4. m \in Mail
    BY <2>1, <2>3 DEF Mail
  <2>5. Post(server, m)
    BY <1>11, <2>1 DEF Send
  <2> QED BY <2>4, <2>5, PostTypes
<1>12. CASE QueueNext
  <2>1. CASE Receive \/ ServerExited \/ Relaunched
    BY <1>1, <2>1 DEF Receive, ServerExited, Relaunched
  <2>2. CASE CopyCallbackQueue \/ Dispatch \/ Done
    BY <1>1, <2>2 DEF CopyCallbackQueue, Dispatch, Done
  <2> QED BY <1>12, <2>1, <2>2 DEF QueueNext
<1> QED
  BY <1>2, <1>3, <1>4, <1>5, <1>6, <1>7, <1>8, <1>9, <1>10, <1>11, <1>12 DEF Next, Proceed

\* The daemon knows nothing of sessions it does not have.
LEMMA NextDeadKnown ==
  ASSUME Registering, Channel, DeadKnown, [Next]_vars
  PROVE  DeadKnown'
<1> USE DEF daemonVars, serverVars, clientVars, runVars, historyVars
<1>0. known \in [Session -> Seq(Entry)] /\ live \subseteq Session
  BY DEF Registering, RegisterTypes, DaemonTypes, Channel, ChannelShape
<1>1. ASSUME live \subseteq live', known' = known, up' \/ UNCHANGED <<up, live>> PROVE DeadKnown'
  BY <1>1 DEF DeadKnown
<1>2. ASSUME NEW s \in live, NEW q, UNCHANGED <<up, live>>, known' = [known EXCEPT ![s] = q]
      PROVE  DeadKnown'
  BY <1>0, <1>2 DEF DeadKnown
<1>3. CASE UNCHANGED vars
  BY <1>1, <1>3 DEF vars
<1>4. ASSUME NEW s \in Session, DaemonCalls(s) \/ DaemonReplies(s) PROVE DeadKnown'
  BY <1>1, <1>4 DEF DaemonCalls, DaemonReplies
<1>5. ASSUME NEW s \in Session, DaemonReads(s) PROVE DeadKnown'
  <2>1. /\ s \in live /\ UNCHANGED <<up, live>>
        /\ known' = known \/ known' = [known EXCEPT ![s] = Without(@, Head(mail[s]).arg)]
    BY <1>5 DEF DaemonReads, SetClientPort, UnregisterCallback
  <2>2. PICK q : q = Without(known[s], Head(mail[s]).arg)
    OBVIOUS
  <2> QED BY <1>1, <1>2, <2>1, <2>2
<1>6. CASE DaemonExits
  BY <1>6 DEF DaemonExits, DeadKnown
<1>7. CASE DaemonLaunches
  BY <1>1, <1>7 DEF DaemonLaunches
<1>8. ASSUME NEW t \in Thread, NEW c \in Callback, Register(t, c) \/ Unregister(t, c)
      PROVE  DeadKnown'
  BY <1>1, <1>8 DEF Register, Unregister
<1>9. ASSUME NEW t \in Thread, SetDispatchQueue(t) \/ Unschedule(t) \/ DASessionKeepAlive(t)
      PROVE  DeadKnown'
  BY <1>1, <1>9 DEF SetDispatchQueue, Unschedule, DASessionKeepAlive
<1>10. ASSUME NEW t \in Thread, Establish(t) \/ Schedule(t) \/ Recreated(t) \/ Add(t)
       PROVE  DeadKnown'
  <2>1. CASE Establish(t)
    <3>1. live \subseteq live' /\ known' = known /\ up'
      BY <2>1 DEF Establish
    <3> QED BY <1>1, <3>1
  <2>2. CASE Schedule(t) \/ Recreated(t) \/ Add(t)
    BY <1>1, <2>2 DEF Schedule, Recreated, Add
  <2> QED BY <1>10, <2>1, <2>2
<1>11. ASSUME NEW t \in Thread, Find(t) \/ Drop(t) \/ Send(t) PROVE DeadKnown'
  BY <1>1, <1>11 DEF Find, Drop, Send
<1>12. ASSUME NEW t \in Thread, Again(t) \/ SendRegister(t) PROVE DeadKnown'
  <2>1. UNCHANGED <<up, live>>
    BY <1>12 DEF Again, SendRegister
  <2>2. known' = known \/ \E q : server \in live /\ known' = [known EXCEPT ![server] = q]
    <3>1. CASE Again(t)
      BY <3>1 DEF Again
    <3>2. CASE SendRegister(t)
      BY <3>2 DEF SendRegister
    <3> QED BY <1>12, <3>1, <3>2
  <2> QED BY <1>1, <1>2, <2>1, <2>2
<1>13. CASE QueueNext
  <2>1. CASE Receive \/ ServerExited \/ Relaunched
    BY <1>1, <2>1 DEF Receive, ServerExited, Relaunched
  <2>2. CASE CopyCallbackQueue \/ Dispatch \/ Done
    BY <1>1, <2>2 DEF CopyCallbackQueue, Dispatch, Done
  <2> QED BY <1>13, <2>1, <2>2 DEF QueueNext
<1> QED
  BY <1>3, <1>4, <1>5, <1>6, <1>7, <1>8, <1>9, <1>10, <1>11, <1>12, <1>13 DEF Next, Proceed

-----------------------------------------------------------------------------
\* Every step keeps what the daemon knows right.
LEMMA NextAgree ==
  ASSUME Registering, Channel, MailTypes, DeadKnown, Finding, Agreement, Next
  PROVE  Agreement'
<1> USE DEF daemonVars, serverVars, clientVars, runVars, historyVars
<1> SUFFICES ASSUME ~overlapped', (server \in live)' PROVE Agreement'
  BY DEF Agreement
<1>1. ~overlapped
  BY OverlapStays
<1>2. Found /\ OneCall /\ CallsFound
  BY <1>1 DEF Finding, Found
<1>3. live \subseteq Session
  BY DEF Channel, ChannelShape
<1>4. ASSUME NEW t \in Thread, Busy(t)
      PROVE  Alone(t) /\ CallFound(t) /\ (server \in live => Agree(call[t]))
  BY <1>1, <1>2, <1>4 DEF Alone, OneCall, CallsFound, Agreement
<1>5. ASSUME NEW t \in Thread, Alone(t), server \in live PROVE Agree(call[t])
  BY <1>1, <1>5 DEF Agreement
<1>6. ASSUME UNCHANGED <<live, server, known, register, mail, call, overlapped>>
      PROVE  Agreement'
  BY <1>1, <1>6, AgreeAside
<1>7. ASSUME NEW s \in Session, DaemonCalls(s) \/ DaemonReplies(s) PROVE Agreement'
  BY <1>6, <1>7 DEF DaemonCalls, DaemonReplies
<1>8. ASSUME NEW s \in Session, DaemonReads(s) PROVE Agreement'
  <2>1. server \in live
    BY <1>8 DEF DaemonReads
  <2> QED BY <1>1, <1>8, <2>1, ReadsAgree
<1>9. CASE DaemonExits
  BY <1>9 DEF DaemonExits
<1>10. CASE DaemonLaunches
  BY <1>6, <1>10 DEF DaemonLaunches
<1>11. ASSUME NEW t \in Thread, NEW c \in Callback, Register(t, c) \/ Unregister(t, c)
       PROVE  Agreement'
  <2>1. UNCHANGED <<live, server, known, register, mail>> /\ ~Busy(t)
    BY <1>11 DEF Register, Unregister, Free
  <2>2. PICK m : m = made + 1
    OBVIOUS
  <2>3. Enter(t, "register", c, m) \/ Enter(t, "unregister", c, 0)
    BY <1>11, <2>2 DEF Register, Unregister
  <2>4. Alone(t)
    BY <2>3 DEF Enter, Overlaps, Alone
  <2>5. server \in live /\ Agree(call[t])
    BY <1>5, <2>1, <2>4
  <2> QED BY <2>1, <2>3, <2>4, <2>5, EnterAgree
<1>12. ASSUME NEW t \in Thread, SetDispatchQueue(t) PROVE Agreement'
  <2>1. server \in live
    BY <1>12 DEF SetDispatchQueue
  <2> QED BY <1>1, <1>12, <2>1, SetDispatchQueueAgree
<1>13. ASSUME NEW t \in Thread, Unschedule(t) \/ DASessionKeepAlive(t) PROVE Agreement'
  BY <1>6, <1>13 DEF Unschedule, DASessionKeepAlive
<1>14. ASSUME NEW t \in Thread, Proceed(t) PROVE Agreement'
  <2>1. Busy(t)
    <3>1. CASE Establish(t) \/ Schedule(t) \/ Again(t) \/ Recreated(t)
      <4>1. call[t].at \in {"establish", "schedule", "again"}
        BY <3>1 DEF Establish, Schedule, Again, Recreated
      <4> QED BY <4>1 DEF Busy, Nothing
    <3>2. CASE Add(t) \/ SendRegister(t) \/ Find(t) \/ Drop(t) \/ Send(t)
      <4>1. call[t].op \in {"register", "unregister", "respond"}
        BY <3>2 DEF Add, SendRegister, Find, Drop, Send
      <4> QED BY <4>1 DEF Busy, Nothing
    <3> QED BY <1>14, <3>1, <3>2 DEF Proceed
  <2>2. Alone(t) /\ CallFound(t)
    BY <1>4, <2>1
  <2>3. CASE Establish(t)
    BY <2>2, <2>3, EstablishAgree
  <2>4. CASE ~Establish(t)
    <3>1. server \in live
      <4>1. Schedule(t) => server' = server /\ live' = live
        BY DEF Schedule
      <4>2. Again(t) => server' = server /\ live' = live
        BY DEF Again
      <4>3. Recreated(t) => server' = server /\ live' = live
        BY DEF Recreated
      <4>4. Add(t) => server' = server /\ live' = live
        BY DEF Add
      <4>5. SendRegister(t) => server' = server /\ live' = live
        BY DEF SendRegister
      <4>6. Find(t) \/ Drop(t) => server' = server /\ live' = live
        BY DEF Find, Drop
      <4>7. Send(t) => server' = server /\ live' = live
        BY DEF Send
      <4> QED BY <1>14, <2>4, <4>1, <4>2, <4>3, <4>4, <4>5, <4>6, <4>7 DEF Proceed
    <3>2. Agree(call[t])
      BY <1>5, <2>2, <3>1
    <3>3. CASE Schedule(t) \/ Again(t) \/ Recreated(t) \/ Add(t)
      BY <2>2, <3>1, <3>2, <3>3, ScheduleAgree, AgainAgree, RecreatedAgree, AddAgree
    <3>4. CASE SendRegister(t) \/ Find(t) \/ Drop(t) \/ Send(t)
      BY <2>2, <3>1, <3>2, <3>4, SendRegisterAgree, FindAgree, DropAgree, SendAgree
    <3> QED BY <1>14, <2>4, <3>3, <3>4 DEF Proceed
  <2> QED BY <2>3, <2>4
<1>15. CASE Receive \/ CopyCallbackQueue \/ Dispatch
  BY <1>6, <1>15 DEF Receive, CopyCallbackQueue, Dispatch
<1>16. CASE ServerExited
  BY <1>3, <1>16, SmallFacts DEF ServerExited
<1>17. CASE Relaunched
  <2>1. CASE server = 0
    BY <1>3, <1>17, <2>1, SmallFacts DEF Relaunched
  <2>2. CASE server # 0
    BY <1>6, <1>17, <2>2 DEF Relaunched
  <2> QED BY <2>1, <2>2
<1>18. CASE Done
  <2>1. server \in live
    BY <1>18 DEF Done
  <2> QED BY <1>1, <1>2, <1>18, <2>1, DoneAgree
<1> QED
  BY <1>7, <1>8, <1>9, <1>10, <1>11, <1>12, <1>13, <1>14, <1>15, <1>16, <1>17, <1>18
     DEF Next, QueueNext

\* Nothing is registered at first, on either side.
LEMMA InitAgree == Init => MailTypes /\ DeadKnown /\ Agreement
<1> SUFFICES ASSUME Init PROVE MailTypes /\ DeadKnown /\ Agreement
  OBVIOUS
<1>1. <<>> \in Seq(Mail) /\ DOMAIN <<>> = {} /\ 1 \in Session
  BY NoEntry, ConstantAssumption DEF Session
<1>2. MailTypes /\ DeadKnown
  BY <1>1 DEF Init, MailTypes, DeadKnown
<1>3. known[server] = <<>> /\ mail[server] = <<>> /\ Used = {}
  BY <1>1 DEF Init, Used
<1>4. ASSUME NEW c, c = Nothing PROVE Agree(c)
  BY <1>1, <1>3, <1>4 DEF Agree, NotYetTold, ToldOnce, NothingElse, KeyIsFree, LeftIsRight,
     NoKeyYet, Nothing
<1>5. \A t \in Thread : call[t] = Nothing
  BY DEF Init
<1>6. Agreement
  BY <1>4, <1>5 DEF Agreement
<1> QED BY <1>2, <1>6

\* A stutter keeps it.
LEMMA AgreementSame ==
  ASSUME Channel, Agreement, UNCHANGED vars
  PROVE  Agreement'
<1>1. UNCHANGED <<live, server, known, register, mail, call, overlapped>>
  BY DEF vars, daemonVars, serverVars, clientVars, historyVars
<1> SUFFICES ASSUME ~overlapped', (server \in live)' PROVE Agreement'
  BY DEF Agreement
<1> QED BY <1>1, AgreeAside

\* What the daemon knows, wherever the one call is: before, while and after it makes
\* the session anew (_DASessionRecreate) or has the daemon told of what it does.
THEOREM AgreementInvariance == Spec => [](Registering /\ Agreement)
<1>1. Registering /\ Channel /\ Finding /\ MailTypes /\ DeadKnown /\ Agreement /\ [Next]_vars
        => MailTypes' /\ DeadKnown' /\ Agreement'
  BY NextMail, NextDeadKnown, NextAgree, AgreementSame
<1> QED
  BY <1>1, InitAgree, FindingInvariance, PTL DEF Spec

(* While no call is under way, and none have overlapped, the daemon knows   *)
(* each function of the client's register once, under its key, and nothing  *)
(* else but what it has been sent word to forget (_DASessionRecreate,       *)
(* DAAddCallbackToSession, DARemoveCallbackFromSession).                    *)
THEOREM TheRegistersAgree == Spec => []RegistersAgree
<1>1. ASSUME Registering, Agreement PROVE RegistersAgree
  <2> SUFFICES ASSUME server \in live, ~overlapped, \A t \in Thread : ~Busy(t)
               PROVE  /\ \A k \in Used : kindOf[register[k].callback] # "request" =>
                           Cardinality({i \in DOMAIN known[server] : known[server][i] = EntryOf(k)}) = 1
                      /\ \A i \in DOMAIN known[server] :
                           \/ /\ register[known[server][i].key] # None
                              /\ known[server][i] = EntryOf(known[server][i].key)
                           \/ \E j \in DOMAIN mail[server] :
                                mail[server][j] = [op |-> "unregister", arg |-> known[server][i].key]
    BY DEF RegistersAgree
  <2>1. PICK c : c = call[Queue]
    OBVIOUS
  <2>2. Agree(c) /\ c = Nothing
    BY <1>1, <2>1, ConstantAssumption DEF Agreement, Alone, Busy
  <2>3. \A k : ~Untold(c, k) /\ ~Forgets(c, k)
    BY <2>2, QuietFacts
  <2>4. ASSUME NEW k \in Used, kindOf[register[k].callback] # "request"
        PROVE  Cardinality({i \in DOMAIN known[server] : known[server][i] = EntryOf(k)}) = 1
    <3>1. Once(known[server], EntryOf(k))
      BY <2>2, <2>3, <2>4 DEF Agree, ToldOnce, Event
    <3>2. PICK i : {j \in DOMAIN known[server] : known[server][j] = EntryOf(k)} = {i}
      BY <3>1 DEF Once
    <3> QED BY <3>2, FS_Singleton
  <2>5. ASSUME NEW i \in DOMAIN known[server], NEW e, e = known[server][i]
        PROVE  \/ register[e.key] # None /\ e = EntryOf(e.key)
               \/ \E j \in DOMAIN mail[server] : mail[server][j] = [op |-> "unregister", arg |-> e.key]
    BY <2>2, <2>3, <2>5 DEF Agree, NothingElse, InRegister, Leaving, Posted, Used
  <2> QED BY <2>4, <2>5
<1> QED
  BY <1>1, AgreementInvariance, PTL

=============================================================================
