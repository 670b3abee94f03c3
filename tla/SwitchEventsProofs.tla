------------------------- MODULE SwitchEventsProofs -------------------------
(***************************************************************************)
(* What TLAPS proves of the threads that report what the hardware does:    *)
(* for any number of ports, threads and clients, any schedule and any of   *)
(* the failures the model knows.                                           *)
(***************************************************************************)
EXTENDS SwitchEvents, TLAPS

Place == Port \cup {NoPort}
Fn == Handler \cup {NoFn}
Message == [msg : Nat, port : Place]
Event == [msg : Nat, from : Place, port : Place]
AuState == [pc : {"off", "get", "load", "call"}, msg : Nat, from : Place,
            port : Place, fn : Fn]
TaskState == [pc : {"off", "start", "poll", "load", "call"}, port : Port,
              up : BOOLEAN, fn : Fn]
ClientState == [pc : {"idle", "inform", "tell"}, port : Nat, up : BOOLEAN]

\* Threads are where a thread can be, messages and events what they are.
EventsType ==
  /\ callbacks.fdb \in Fn /\ callbacks.state \in Fn
  /\ portStatus \in [Port -> BOOLEAN]
  /\ client \in ClientState
  /\ task \in TaskState
  /\ au \in [AuThread -> AuState]
  /\ link \in [Port -> BOOLEAN]
  /\ queue \in Seq(Message)
  /\ learned \in Nat
  /\ reported \in Seq(Event)
  /\ late \in [{Task} \cup AuThread -> Nat]

-----------------------------------------------------------------------------
(* Late calls.                                                             *)

\* A thread about to call a function no longer in the table has made no late
\* call since it was withdrawn.
Unspent(thread, pc, fn, current) ==
  pc = "call" /\ fn # NoFn /\ fn # current => late[thread] = 0

LateInv ==
  /\ OneLateCall
  /\ Unspent(Task, task.pc, task.fn, callbacks.state)
  /\ \A t \in AuThread : Unspent(t, au[t].pc, au[t].fn, callbacks.fdb)

-----------------------------------------------------------------------------
(* The order of events.                                                    *)

Running == {t \in AuThread : au[t].pc # "off"}
Holding(t) == au[t].pc \in {"load", "call"}

\* Messages wait in the order they were sent.
QueueInOrder ==
  \A i \in 1 .. Len(queue) :
    /\ queue[i].msg <= learned
    /\ \A j \in 1 .. i - 1 : queue[j].msg < queue[i].msg

\* There is one address update thread, and none before it is started.
OneThread ==
  /\ \A t, u \in Running : t = u
  /\ firstTime /\ client.pc = "idle" => Running = {}

\* What was reported is older than what waits, and the message the thread
\* holds is between the two.
ReportedFirst ==
  \A i \in 1 .. Len(reported) :
    /\ reported[i].msg <= learned
    /\ \A j \in 1 .. Len(queue) : reported[i].msg < queue[j].msg

HeldBetween ==
  \A t \in AuThread : Holding(t) =>
    /\ au[t].msg <= learned
    /\ \A i \in 1 .. Len(reported) : reported[i].msg < au[t].msg
    /\ \A j \in 1 .. Len(queue) : au[t].msg < queue[j].msg

OrderInv ==
  /\ QueueInOrder
  /\ ~halfDone => OneThread /\ ReportedFirst /\ HeldBetween
  /\ EventsInOrder

-----------------------------------------------------------------------------
(* Types.                                                                  *)

\* The places of ports, and the first one.
LEMMA Places ==
  /\ 0 \in Port /\ NoPort \in Place /\ Port \subseteq Place
  /\ \A p \in Port : NextPort(p) \in Port
BY EventConstants DEF Port, Place, NoPort, NextPort

\* Threads are told apart.
LEMMA TaskIsNoAuThread == Task \notin AuThread
BY EventConstants DEF Task, AuThread

\* Another table changes only what was counted of late calls.
LEMMA RegisterType ==
  ASSUME EventsType, NEW table, Register(table)
  PROVE  late' \in [{Task} \cup AuThread -> Nat] /\ callbacks' = table
BY DEF EventsType, Register

\* The client's calls keep the types: they start threads, and change tables.
LEMMA ClientTypes ==
  ASSUME EventsType, ClientNext PROVE EventsType'
<1>1. ASSUME NEW table \in Tables, BeginInitialize(table) PROVE EventsType'
  <2>1. table.fdb \in Fn /\ table.state \in Fn
    BY EventConstants DEF Fn
  <2>2. /\ late' \in [{Task} \cup AuThread -> Nat] /\ callbacks' = table
        /\ UNCHANGED <<portStatus, task, link, queue, learned, reported>>
    BY <1>1, RegisterType DEF BeginInitialize, hardware
  <2>3. au' = au \/ \E t \in AuThread : au' = [au EXCEPT ![t].pc = "get"]
    BY <1>1 DEF BeginInitialize, FreeAu
  <2>4. au' \in [AuThread -> AuState]
    <3>1. au \in [AuThread -> AuState]
      BY DEF EventsType
    <3>2. ASSUME NEW t \in AuThread, au' = [au EXCEPT ![t].pc = "get"]
          PROVE  au' \in [AuThread -> AuState]
      BY <3>1, <3>2 DEF AuState
    <3> QED BY <2>3, <3>1, <3>2
  <2>5. client' = client \/ client' = [Idle EXCEPT !.pc = "inform"]
    BY <1>1 DEF BeginInitialize
  <2>6. client' \in ClientState
    <3>1. [Idle EXCEPT !.pc = "inform"] \in ClientState
      BY DEF ClientState, Idle
    <3> QED BY <2>5, <3>1 DEF EventsType
  <2> QED BY <2>1, <2>2, <2>4, <2>6 DEF EventsType
<1>2. ASSUME NEW table \in Tables, Connect(table) PROVE EventsType'
  <2> DEFINE new == [f \in {"fdb", "state"} |->
                       IF table[f] # NoFn THEN table[f] ELSE callbacks[f]]
  <2>1. table["fdb"] \in Fn /\ table["state"] \in Fn
    BY EventConstants DEF Fn
  <2>2. callbacks["fdb"] \in Fn /\ callbacks["state"] \in Fn
    BY DEF EventsType
  <2>3. new.fdb \in Fn /\ new.state \in Fn
    BY <2>1, <2>2
  <2> HIDE DEF new
  <2>4. /\ late' \in [{Task} \cup AuThread -> Nat] /\ callbacks' = new
        /\ UNCHANGED <<portStatus, client, task, au, link, queue, learned, reported>>
    BY <1>2, RegisterType DEF Connect, hardware, new
  <2> QED BY <2>3, <2>4 DEF EventsType
<1>3. CASE Inform \/ TellPort \/ EndInitialize
  <2>1. /\ task' = task \/ task' = [task EXCEPT !.pc = "start"]
        /\ UNCHANGED <<callbacks, portStatus, au, link, queue, learned, reported, late>>
    BY <1>3 DEF Inform, TellPort, EndInitialize, StartTask, hardware
  <2>2. task' \in TaskState
    BY <2>1 DEF EventsType, TaskState
  <2>3. client' \in ClientState
    <3>1. client \in ClientState /\ client.port \in Nat
          /\ portStatus \in [Port -> BOOLEAN]
      BY DEF EventsType, ClientState
    <3>2. CASE Inform
      <4>1. portStatus[client.port] \in BOOLEAN
        BY <3>1, <3>2, EventConstants DEF Inform, Port
      <4> QED BY <3>1, <3>2, <4>1 DEF Inform, ClientState
    <3>3. CASE TellPort
      <4>1. client' = [client EXCEPT !.pc = "inform", !.port = @ + 1, !.up = FALSE]
        BY <3>3 DEF TellPort
      <4>2. client.port + 1 \in Nat
        BY <3>1
      <4> QED BY <3>1, <4>1, <4>2 DEF ClientState
    <3>4. CASE EndInitialize
      BY <3>4 DEF EndInitialize, ClientState, Idle
    <3> QED BY <1>3, <3>2, <3>3, <3>4
  <2> QED BY <2>1, <2>2, <2>3 DEF EventsType
<1>4. CASE Shutdown \/ Disconnect
  <2>1. /\ late' \in [{Task} \cup AuThread -> Nat] /\ callbacks' = Nobody
        /\ UNCHANGED <<portStatus, client, task, au, link, queue, learned, reported>>
    BY <1>4, RegisterType DEF Shutdown, Disconnect, hardware
  <2>2. Nobody.fdb \in Fn /\ Nobody.state \in Fn
    BY DEF Nobody, Fn
  <2> QED BY <2>1, <2>2 DEF EventsType
<1> QED BY <1>1, <1>2, <1>3, <1>4 DEF ClientNext

\* A call may count as late, of its own thread.
LEMMA CallsType ==
  ASSUME EventsType, NEW thread \in {Task} \cup AuThread, NEW fn, NEW current,
         Calls(thread, fn, current)
  PROVE  late' \in [{Task} \cup AuThread -> Nat]
BY DEF EventsType, Calls

\* The port status thread keeps the types.
LEMMA TaskTypes ==
  ASSUME EventsType, TaskNext PROVE EventsType'
<1>1. UNCHANGED <<callbacks, client, au, link, queue, learned, reported>>
  BY DEF TaskNext, hardware
<1>2. task.port \in Port /\ link[task.port] \in BOOLEAN /\ NoFn \in Fn
      /\ callbacks.state \in Fn /\ task \in TaskState
  BY DEF EventsType, TaskState, Fn
<1>3. task' \in TaskState
  <2>1. CASE TaskStart
    BY <1>2, <2>1 DEF TaskStart, TaskState
  <2>2. CASE TaskPoll
    BY <1>2, <2>2, Places DEF TaskPoll, TaskState
  <2>3. CASE TaskLoad
    BY <1>2, <2>3 DEF TaskLoad, TaskState
  <2>4. CASE TaskCall
    BY <1>2, <2>4, Places DEF TaskCall, TaskState
  <2> QED BY <2>1, <2>2, <2>3, <2>4 DEF TaskNext
<1>4. late' \in [{Task} \cup AuThread -> Nat]
  BY CallsType DEF TaskNext, TaskStart, TaskPoll, TaskLoad, TaskCall, EventsType
<1>5. portStatus' \in [Port -> BOOLEAN]
  BY <1>2 DEF TaskNext, TaskStart, TaskPoll, TaskLoad, TaskCall, EventsType
<1> QED BY <1>1, <1>3, <1>4, <1>5 DEF EventsType

\* What the three steps of an address update thread do to the queue, to the
\* events reported and to the message the thread holds.
Takes(t) ==
  /\ au[t].pc = "get" /\ au'[t].pc = "load" /\ queue # <<>>
  /\ au'[t].msg = Head(queue).msg /\ queue' = Tail(queue)
  /\ UNCHANGED <<reported, late>>

Reads(t) ==
  /\ au[t].pc = "load" /\ au'[t].pc = "call"
  /\ au'[t].msg = au[t].msg /\ au'[t].fn = callbacks.fdb
  /\ UNCHANGED <<queue, reported, late>>

Ends(t) ==
  /\ au[t].pc = "call" /\ au'[t].pc = "get" /\ UNCHANGED queue
  /\ Calls(t, au[t].fn, callbacks.fdb)
  /\ \/ UNCHANGED reported
     \/ \E e \in Event : /\ reported' = Append(reported, e) /\ e.msg = au[t].msg
                         /\ e.from # NoPort => e.port = e.from

\* A step of an address update thread is one of three, and its own.
LEMMA AuEffect ==
  ASSUME EventsType, NEW t \in AuThread, AuNext(t)
  PROVE  /\ au' \in [AuThread -> AuState]
         /\ \A u \in AuThread \ {t} : au'[u] = au[u]
         /\ Takes(t) \/ Reads(t) \/ Ends(t)
<1>1. au \in [AuThread -> AuState] /\ au[t] \in AuState /\ callbacks.fdb \in Fn
  BY DEF EventsType
<1>2. CASE AuGet(t)
  <2>1. Head(queue) \in Message /\ queue # <<>>
    BY <1>2 DEF AuGet, EventsType
  <2> DEFINE new == [au[t] EXCEPT !.pc = "load", !.msg = Head(queue).msg,
                                  !.from = Head(queue).port]
  <2>2. new \in AuState /\ new.pc = "load" /\ new.msg = Head(queue).msg
    BY <1>1, <2>1 DEF AuState, Message
  <2>3. au' = [au EXCEPT ![t] = new]
    BY <1>2 DEF AuGet
  <2> HIDE DEF new
  <2> QED BY <1>1, <1>2, <2>1, <2>2, <2>3 DEF AuGet, Takes
<1>3. CASE AuLoad(t)
  <2> DEFINE new == [au[t] EXCEPT !.pc = "call", !.fn = callbacks.fdb]
  <2>1. new \in AuState /\ new.pc = "call" /\ new.msg = au[t].msg
        /\ new.fn = callbacks.fdb
    BY <1>1 DEF AuState
  <2>2. au' = [au EXCEPT ![t] = new]
    BY <1>3 DEF AuLoad, Loaded
  <2> HIDE DEF new
  <2> QED BY <1>1, <1>3, <2>1, <2>2 DEF AuLoad, Reads
<1>4. CASE AuCall(t)
  <2>1. Converted(t) \in Place
    BY <1>1 DEF Converted, AuState
  <2>2. CASE au[t].fn = NoFn
    <3> DEFINE new == [au[t] EXCEPT !.pc = "get", !.msg = 0, !.from = NoPort]
    <3>1. new \in AuState /\ new.pc = "get"
      BY <1>1, Places DEF AuState
    <3>2. au' = [au EXCEPT ![t] = new] /\ UNCHANGED reported
      BY <1>4, <2>2 DEF AuCall
    <3> HIDE DEF new
    <3> QED BY <1>1, <1>4, <3>1, <3>2 DEF AuCall, Ends
  <2>3. CASE au[t].fn # NoFn
    <3> DEFINE new == [au[t] EXCEPT !.pc = "get", !.msg = 0, !.from = NoPort,
                                    !.port = Converted(t)]
               e == [msg |-> au[t].msg, from |-> au[t].from, port |-> Converted(t)]
    <3>1. new \in AuState /\ new.pc = "get"
      BY <1>1, <2>1, Places DEF AuState
    <3>2. e \in Event /\ e.msg = au[t].msg /\ (e.from # NoPort => e.port = e.from)
      BY <1>1, <2>1 DEF AuState, Event, Converted
    <3>3. au' = [au EXCEPT ![t] = new] /\ reported' = Append(reported, e)
      BY <1>4, <2>3 DEF AuCall, AfterEvent
    <3> HIDE DEF new, e
    <3> QED BY <1>1, <1>4, <3>1, <3>2, <3>3 DEF AuCall, Ends
  <2> QED BY <2>2, <2>3
<1> QED BY <1>2, <1>3, <1>4 DEF AuNext

\* The address update threads keep the types.
LEMMA AuTypes ==
  ASSUME EventsType, NEW t \in AuThread, AuNext(t) PROVE EventsType'
<1>1. UNCHANGED <<callbacks, portStatus, client, task, link, learned>>
  BY DEF AuNext
<1>2. queue' \in Seq(Message) /\ reported' \in Seq(Event)
  <2>1. queue \in Seq(Message) /\ reported \in Seq(Event)
    BY DEF EventsType
  <2>2. queue' = queue \/ (queue # <<>> /\ queue' = Tail(queue))
    BY AuEffect DEF Takes, Reads, Ends
  <2>3. reported' = reported \/ \E e \in Event : reported' = Append(reported, e)
    BY AuEffect DEF Takes, Reads, Ends
  <2>4. ASSUME NEW e \in Event, reported' = Append(reported, e)
        PROVE  reported' \in Seq(Event)
    BY <2>1, <2>4
  <2> QED BY <2>1, <2>2, <2>3, <2>4
<1>3. late' \in [{Task} \cup AuThread -> Nat]
  BY AuEffect, CallsType DEF EventsType, Takes, Reads, Ends
<1> QED BY <1>1, <1>2, <1>3, AuEffect DEF EventsType

\* So does the hardware.
LEMMA HardwareTypes ==
  ASSUME EventsType, HardwareNext PROVE EventsType'
<1>1. UNCHANGED <<callbacks, portStatus, client, task, au, reported, late>>
  BY DEF HardwareNext
<1>2. ASSUME NEW p \in Port \cup {NoPort}, Learn(p) PROVE EventsType'
  <2>1. [msg |-> learned + 1, port |-> p] \in Message /\ learned + 1 \in Nat
    BY DEF EventsType, Message, Place
  <2> QED BY <1>1, <1>2, <2>1 DEF Learn, EventsType
<1>3. ASSUME NEW p \in Port, Flap(p) PROVE EventsType'
  BY <1>1, <1>3 DEF Flap, EventsType
<1> QED BY <1>2, <1>3 DEF HardwareNext

\* Every step keeps the types, and the initial state has them.
LEMMA EventsTypeStep ==
  ASSUME EventsType, [Next]_vars PROVE EventsType'
<1>1. CASE UNCHANGED vars
  BY <1>1 DEF vars, hardware, EventsType
<1> QED BY <1>1, ClientTypes, TaskTypes, AuTypes, HardwareTypes DEF Next

\* Initially all is idle and empty.
LEMMA EventsTypeStart == Init => EventsType
<1> SUFFICES ASSUME Init PROVE EventsType
  OBVIOUS
<1>1. Nobody.fdb \in Fn /\ Nobody.state \in Fn /\ NoFn \in Fn
  BY DEF Nobody, Fn
<1>2. task \in TaskState /\ au \in [AuThread -> AuState]
  BY <1>1, Places DEF Init, TaskState, AuState
<1>3. client \in ClientState
  BY DEF Init, ClientState, Idle
<1> QED BY <1>1, <1>2, <1>3 DEF Init, EventsType

-----------------------------------------------------------------------------
(* Late calls.                                                             *)

\* A new table gives every thread a late call: those about to call what was
\* withdrawn have not used it.
LEMMA RegisterKeepsLate ==
  ASSUME EventsType, LateInv, NEW table, Register(table),
         task'.pc = task.pc \/ task'.pc = "start", task'.fn = task.fn,
         \A t \in AuThread : /\ au'[t].pc = au[t].pc \/ au'[t].pc = "get"
                             /\ au'[t].fn = au[t].fn
  PROVE  LateInv'
<1>1. callbacks' = table /\ DOMAIN late = {Task} \cup AuThread
      /\ DOMAIN late' = {Task} \cup AuThread
  BY DEF Register, EventsType
<1>2. late'[Task] = IF callbacks.state = table.state THEN late[Task] ELSE 0
  BY DEF Register, EventsType
<1>3. \A t \in AuThread :
        late'[t] = IF callbacks.fdb = table.fdb THEN late[t] ELSE 0
  BY TaskIsNoAuThread DEF Register, EventsType
<1>4. OneLateCall'
  BY <1>1, <1>2, <1>3 DEF LateInv, OneLateCall
<1>5. Unspent(Task, task.pc, task.fn, callbacks.state)'
  BY <1>1, <1>2 DEF LateInv, Unspent
<1>6. \A t \in AuThread : Unspent(t, au[t].pc, au[t].fn, callbacks.fdb)'
  BY <1>1, <1>3 DEF LateInv, Unspent
<1> QED BY <1>4, <1>5, <1>6 DEF LateInv

\* A thread about to call a function no longer in the table makes its one
\* late call.
LEMMA CallsKeepLate ==
  ASSUME EventsType, OneLateCall, NEW thread \in {Task} \cup AuThread,
         NEW fn, NEW current, Unspent(thread, "call", fn, current),
         Calls(thread, fn, current)
  PROVE  /\ OneLateCall'
         /\ \A t \in ({Task} \cup AuThread) \ {thread} : late'[t] = late[t]
BY DEF EventsType, OneLateCall, Unspent, Calls

\* A late call is made at most once by each thread, whatever the step.
LEMMA LateStep ==
  ASSUME EventsType, LateInv, [Next]_vars PROVE LateInv'
<1>1. ASSUME UNCHANGED <<late, callbacks>>, task'.pc # "call" \/ UNCHANGED task,
             \A t \in AuThread : au'[t].pc # "call" \/ au'[t] = au[t]
      PROVE  LateInv'
  BY <1>1 DEF LateInv, OneLateCall, Unspent
<1>2. CASE ClientNext
  <2>1. ASSUME NEW table \in Tables, BeginInitialize(table) PROVE LateInv'
    <3>1. au' = au \/ \E t \in AuThread : au' = [au EXCEPT ![t].pc = "get"]
      BY <2>1 DEF BeginInitialize, FreeAu
    <3>2. \A t \in AuThread : /\ au'[t].pc = au[t].pc \/ au'[t].pc = "get"
                              /\ au'[t].fn = au[t].fn
      <4>1. au \in [AuThread -> AuState]
        BY DEF EventsType
      <4>2. CASE au' = au
        BY <4>2
      <4>3. ASSUME NEW u \in AuThread, au' = [au EXCEPT ![u].pc = "get"]
            PROVE  \A t \in AuThread : /\ au'[t].pc = au[t].pc \/ au'[t].pc = "get"
                                       /\ au'[t].fn = au[t].fn
        BY <4>1, <4>3 DEF AuState
      <4> QED BY <3>1, <4>2, <4>3
    <3>3. Register(table) /\ UNCHANGED task
      BY <2>1 DEF BeginInitialize
    <3> QED BY <3>2, <3>3, RegisterKeepsLate
  <2>2. ASSUME NEW table, Register(table), UNCHANGED <<task, au>> PROVE LateInv'
    BY <2>2, RegisterKeepsLate
  <2>3. CASE (\E table \in Tables : Connect(table)) \/ Shutdown \/ Disconnect
    BY <2>2, <2>3 DEF Connect, Shutdown, Disconnect
  <2>4. CASE Inform \/ TellPort \/ EndInitialize
    <3>1. /\ task' = task \/ task' = [task EXCEPT !.pc = "start"]
          /\ UNCHANGED <<callbacks, au, late>>
      BY <2>4 DEF Inform, TellPort, EndInitialize, StartTask
    <3>2. task'.pc # "call" \/ UNCHANGED task
      BY <3>1 DEF EventsType, TaskState
    <3> QED BY <1>1, <3>1, <3>2
  <2> QED BY <1>2, <2>1, <2>3, <2>4 DEF ClientNext
<1>3. CASE TaskNext
  <2>1. UNCHANGED <<callbacks, au>> /\ task \in TaskState
    BY <1>3 DEF TaskNext, EventsType
  <2>2. CASE TaskStart \/ TaskPoll
    <3>1. UNCHANGED late /\ task'.pc # "call"
      BY <2>1, <2>2 DEF TaskStart, TaskPoll, TaskState
    <3> QED BY <1>1, <2>1, <3>1
  <2>3. CASE TaskLoad
    <3>1. UNCHANGED late /\ task'.fn = callbacks.state
      BY <2>1, <2>3 DEF TaskLoad, TaskState
    <3> QED BY <2>1, <3>1 DEF LateInv, OneLateCall, Unspent
  <2>4. CASE TaskCall
    <3>1. /\ task.pc = "call" /\ task'.pc = "poll"
          /\ Calls(Task, task.fn, callbacks.state)
      BY <2>1, <2>4 DEF TaskCall, TaskState
    <3>2. /\ OneLateCall' /\ \A t \in AuThread : late'[t] = late[t]
      BY <3>1, CallsKeepLate, TaskIsNoAuThread DEF LateInv
    <3> QED BY <2>1, <3>1, <3>2 DEF LateInv, Unspent
  <2> QED BY <1>3, <2>2, <2>3, <2>4 DEF TaskNext
<1>4. ASSUME NEW t \in AuThread, AuNext(t) PROVE LateInv'
  <2>1. UNCHANGED <<callbacks, task>> /\ \A u \in AuThread \ {t} : au'[u] = au[u]
    BY <1>4, AuEffect DEF AuNext
  <2>2. CASE Takes(t)
    BY <1>1, <2>1, <2>2 DEF Takes
  <2>3. CASE Reads(t)
    BY <2>1, <2>3 DEF Reads, LateInv, OneLateCall, Unspent
  <2>4. CASE Ends(t)
    <3>1. /\ OneLateCall'
          /\ \A u \in ({Task} \cup AuThread) \ {t} : late'[u] = late[u]
      BY <2>4, CallsKeepLate DEF LateInv, Ends
    <3> QED BY <2>1, <2>4, <3>1, TaskIsNoAuThread DEF LateInv, Unspent, Ends
  <2> QED BY <1>4, <2>2, <2>3, <2>4, AuEffect
<1>5. CASE HardwareNext \/ UNCHANGED vars
  BY <1>1, <1>5 DEF HardwareNext, vars
<1> QED BY <1>2, <1>3, <1>4, <1>5 DEF Next

\* Once its callback is withdrawn or replaced, a thread makes at most the
\* one call it had read the function for, whatever the client, the threads
\* and the hardware do in between.
THEOREM OneLateCallOnly == Spec => []OneLateCall
<1>1. Init => LateInv
  BY DEF Init, LateInv, OneLateCall, Unspent
<1>2. EventsType /\ LateInv /\ [Next]_vars => EventsType' /\ LateInv'
  BY EventsTypeStep, LateStep
<1>3. LateInv => OneLateCall
  BY DEF LateInv
<1> QED BY <1>1, <1>2, <1>3, EventsTypeStart, PTL DEF Spec

-----------------------------------------------------------------------------
(* The order of events.                                                    *)

\* One thread is started, by the first initialization, unless a first
\* initialization failed after it had started it.
LEMMA ThreadStep ==
  ASSUME EventsType, ~halfDone => OneThread, [Next]_vars
  PROVE  ~halfDone' => OneThread'
<1> SUFFICES ASSUME ~halfDone' PROVE OneThread'
  OBVIOUS
<1>1. au \in [AuThread -> AuState] /\ Idle.pc = "idle"
  BY DEF EventsType, Idle
<1>2. ASSUME NEW table \in Tables, BeginInitialize(table) PROVE OneThread'
  <2>1. ~halfDone /\ OneThread
    BY <1>2 DEF BeginInitialize
  <2>2. client.pc = "idle" /\ firstTime' = firstTime
    BY <1>1, <1>2 DEF BeginInitialize
  <2>3. CASE au' = au /\ UNCHANGED client
    BY <2>1, <2>2, <2>3 DEF OneThread, Running
  <2>4. CASE client' = [Idle EXCEPT !.pc = "inform"]
             /\ IF StartsAu THEN \E t \in FreeAu : au' = [au EXCEPT ![t].pc = "get"]
                ELSE UNCHANGED au
    <3>1. client'.pc # "idle"
      BY <2>4 DEF Idle
    <3>2. CASE firstTime
      <4>1. PICK t \in AuThread : au' = [au EXCEPT ![t].pc = "get"]
        BY <2>4, <3>2 DEF StartsAu, FreeAu
      <4>2. \A u \in AuThread \ {t} : au'[u].pc = "off"
        BY <1>1, <2>1, <2>2, <3>2, <4>1 DEF OneThread, Running
      <4> QED BY <3>1, <4>2 DEF OneThread, Running
    <3>3. CASE ~firstTime
      BY <2>1, <2>4, <3>1, <3>3 DEF OneThread, Running, StartsAu
    <3> QED BY <3>2, <3>3
  <2> QED BY <1>2, <2>1, <2>3, <2>4 DEF BeginInitialize
<1>3. CASE Inform \/ TellPort
  <2>1. /\ UNCHANGED <<firstTime, au, halfDone>>
        /\ client'.pc = "idle" => client.pc = "idle"
    BY <1>3 DEF Inform, TellPort, EventsType, ClientState
  <2> QED BY <2>1 DEF OneThread, Running
<1>4. CASE EndInitialize
  BY <1>4 DEF EndInitialize, OneThread, Running
<1>5. CASE (\E table \in Tables : Connect(table)) \/ Shutdown \/ Disconnect
           \/ TaskNext \/ HardwareNext \/ UNCHANGED vars
  <2>1. UNCHANGED <<firstTime, client, au, halfDone>>
    BY <1>5 DEF Connect, Shutdown, Disconnect, TaskNext, HardwareNext, vars
  <2> QED BY <2>1 DEF OneThread, Running
<1>6. ASSUME NEW t \in AuThread, AuNext(t) PROVE OneThread'
  <2>1. UNCHANGED <<firstTime, client, halfDone>> /\ au[t].pc # "off"
        /\ \A u \in AuThread \ {t} : au'[u] = au[u]
    BY <1>6, AuEffect DEF AuNext, Takes, Reads, Ends
  <2>2. Running' = Running
    BY <1>6, <2>1, AuEffect DEF Running, Takes, Reads, Ends
  <2> QED BY <2>1, <2>2 DEF OneThread
<1> QED BY <1>2, <1>3, <1>4, <1>5, <1>6 DEF Next, ClientNext

\* Messages are numbered.
LEMMA MessagesNumbered ==
  ASSUME EventsType
  PROVE  /\ \A i \in 1 .. Len(queue) : queue[i].msg \in Nat
         /\ \A i \in 1 .. Len(reported) : reported[i].msg \in Nat
         /\ \A t \in AuThread : au[t].msg \in Nat
<1>1. queue \in Seq(Message) /\ reported \in Seq(Event)
      /\ au \in [AuThread -> AuState]
  BY DEF EventsType
<1>2. \A i \in 1 .. Len(queue) : queue[i] \in Message
  BY <1>1
<1>3. \A i \in 1 .. Len(reported) : reported[i] \in Event
  BY <1>1
<1>4. \A t \in AuThread : au[t] \in AuState
  BY <1>1
<1> QED BY <1>2, <1>3, <1>4 DEF Message, Event, AuState

\* The head of the queue is the oldest message that waits; the others stay in
\* order.
LEMMA TakenInOrder ==
  ASSUME EventsType, QueueInOrder, queue # <<>>, queue' = Tail(queue),
         learned' = learned
  PROVE  /\ QueueInOrder'
         /\ Head(queue).msg \in Nat /\ Head(queue).msg <= learned
         /\ 1 \in 1 .. Len(queue) /\ queue[1] = Head(queue)
         /\ \A j \in 1 .. Len(queue') : /\ Head(queue).msg < queue'[j].msg
                                        /\ j + 1 \in 1 .. Len(queue)
                                        /\ queue'[j] = queue[j + 1]
<1>1. /\ queue \in Seq(Message) /\ Len(queue) \in Nat \ {0} /\ learned \in Nat
      /\ Len(queue') = Len(queue) - 1 /\ Head(queue) = queue[1]
      /\ \A i \in 1 .. Len(queue') : queue'[i] = queue[i + 1]
  BY DEF EventsType
<1>2. \A i \in 1 .. Len(queue) : queue[i].msg \in Nat /\ queue[i].msg <= learned
  BY MessagesNumbered DEF QueueInOrder
<1>3. \A i \in 1 .. Len(queue) : \A j \in 1 .. i - 1 : queue[j].msg < queue[i].msg
  BY DEF QueueInOrder
<1>4. 1 \in 1 .. Len(queue)
  BY <1>1
<1>5. ASSUME NEW j \in 1 .. Len(queue')
      PROVE  /\ Head(queue).msg < queue'[j].msg
             /\ j + 1 \in 1 .. Len(queue) /\ queue'[j] = queue[j + 1]
             /\ queue'[j].msg <= learned
  <2>1. j + 1 \in 1 .. Len(queue) /\ 1 \in 1 .. (j + 1) - 1
    BY <1>1
  <2> QED BY <1>1, <1>2, <1>3, <2>1
<1>6. ASSUME NEW i \in 1 .. Len(queue'), NEW j \in 1 .. i - 1
      PROVE  queue'[j].msg < queue'[i].msg
  <2>1. j \in 1 .. Len(queue') /\ j + 1 \in 1 .. (i + 1) - 1
    BY <1>1
  <2> QED BY <1>1, <1>3, <1>5, <2>1
<1>7. QueueInOrder'
  BY <1>5, <1>6 DEF QueueInOrder
<1> QED BY <1>1, <1>2, <1>4, <1>5, <1>7

\* A message that is learned is younger than all before it.
LEMMA LearnedInOrder ==
  ASSUME EventsType, QueueInOrder, NEW p \in Place,
         queue' = Append(queue, [msg |-> learned + 1, port |-> p]),
         learned' = learned + 1
  PROVE  /\ QueueInOrder'
         /\ \A j \in 1 .. Len(queue') : \/ j \in 1 .. Len(queue) /\ queue'[j] = queue[j]
                                        \/ queue'[j].msg = learned + 1
<1> DEFINE m == [msg |-> learned + 1, port |-> p]
<1>1. m.msg = learned + 1 /\ learned \in Nat /\ queue \in Seq(Message)
  BY DEF EventsType
<1> HIDE DEF m
<1>2. /\ Len(queue) \in Nat /\ Len(queue') = Len(queue) + 1
      /\ queue'[Len(queue) + 1] = m
      /\ \A j \in 1 .. Len(queue) : queue'[j] = queue[j]
  BY <1>1 DEF m
<1>3. ASSUME NEW j \in 1 .. Len(queue')
      PROVE  \/ j \in 1 .. Len(queue) /\ queue'[j] = queue[j]
             \/ j = Len(queue) + 1 /\ queue'[j].msg = learned + 1
  BY <1>1, <1>2
<1>4. \A j \in 1 .. Len(queue) : queue[j].msg \in Nat /\ queue[j].msg <= learned
  BY MessagesNumbered DEF QueueInOrder
<1>5. ASSUME NEW i \in 1 .. Len(queue')
      PROVE  /\ queue'[i].msg <= learned'
             /\ \A j \in 1 .. i - 1 : queue'[j].msg < queue'[i].msg
  <2>1. CASE i \in 1 .. Len(queue)
    <3>1. \A j \in 1 .. i - 1 : j \in 1 .. Len(queue)
      BY <1>2, <2>1
    <3> QED BY <1>1, <1>2, <1>4, <2>1, <3>1 DEF QueueInOrder
  <2>2. CASE i = Len(queue) + 1 /\ queue'[i].msg = learned + 1
    <3>1. \A j \in 1 .. i - 1 : j \in 1 .. Len(queue)
      BY <1>2, <2>2
    <3>2. \A j \in 1 .. i - 1 : queue'[j].msg \in Nat /\ queue'[j].msg <= learned
      BY <1>2, <1>4, <3>1
    <3> QED BY <1>1, <2>2, <3>2
  <2> QED BY <1>3, <2>1, <2>2
<1> QED BY <1>3, <1>5 DEF QueueInOrder

\* An event that is reported is younger than all before it.
LEMMA ReportedInOrder ==
  ASSUME EventsType, EventsInOrder, ~halfDone, NEW e \in Event,
         \A i \in 1 .. Len(reported) : reported[i].msg < e.msg,
         e.from # NoPort => e.port = e.from,
         reported' = Append(reported, e)
  PROVE  /\ EventsInOrder'
         /\ \A i \in 1 .. Len(reported') :
              \/ i \in 1 .. Len(reported) /\ reported'[i] = reported[i]
              \/ reported'[i] = e
<1>1. /\ Len(reported) \in Nat /\ Len(reported') = Len(reported) + 1
      /\ reported'[Len(reported) + 1] = e
      /\ \A j \in 1 .. Len(reported) : reported'[j] = reported[j]
  BY DEF EventsType
<1>2. ASSUME NEW i \in 1 .. Len(reported')
      PROVE  \/ i \in 1 .. Len(reported) /\ reported'[i] = reported[i]
             \/ i = Len(reported) + 1 /\ reported'[i] = e
  BY <1>1
<1>3. ASSUME NEW i \in 1 .. Len(reported')
      PROVE  /\ \A j \in 1 .. i - 1 : reported'[j].msg < reported'[i].msg
             /\ reported'[i].from # NoPort => reported'[i].port = reported'[i].from
  <2>1. CASE i \in 1 .. Len(reported)
    <3>1. \A j \in 1 .. i - 1 : j \in 1 .. Len(reported)
      BY <1>1, <2>1
    <3> QED BY <1>1, <2>1, <3>1 DEF EventsInOrder
  <2>2. CASE i = Len(reported) + 1 /\ reported'[i] = e
    <3>1. \A j \in 1 .. i - 1 : j \in 1 .. Len(reported)
      BY <1>1, <2>2
    <3> QED BY <1>1, <2>2, <3>1
  <2> QED BY <1>2, <2>1, <2>2
<1> QED BY <1>2, <1>3 DEF EventsInOrder

\* Steps that leave messages and events alone keep their order.
LEMMA OrderKept ==
  ASSUME EventsType, OrderInv, [Next]_vars, UNCHANGED <<queue, learned, reported>>,
         halfDone => halfDone',
         \A t \in AuThread : Holding(t)' => Holding(t) /\ au'[t].msg = au[t].msg
  PROVE  OrderInv'
<1>1. QueueInOrder'
  BY DEF OrderInv, QueueInOrder
<1>2. EventsInOrder'
  BY DEF OrderInv, EventsInOrder
<1>3. ASSUME ~halfDone' PROVE OneThread' /\ ReportedFirst' /\ HeldBetween'
  <2>1. ~halfDone /\ ReportedFirst /\ HeldBetween
    BY <1>3 DEF OrderInv
  <2>2. OneThread'
    BY <1>3, ThreadStep DEF OrderInv
  <2> QED BY <2>1, <2>2 DEF ReportedFirst, HeldBetween
<1> QED BY <1>1, <1>2, <1>3 DEF OrderInv

\* Every step keeps messages, what is held and what was reported in order.
LEMMA OrderStep ==
  ASSUME EventsType, OrderInv, [Next]_vars PROVE OrderInv'
<1>1. CASE ClientNext
  <2>1. UNCHANGED <<queue, learned, reported>> /\ (halfDone => halfDone')
    <3>1. ASSUME NEW table \in Tables, BeginInitialize(table)
          PROVE  UNCHANGED <<hardware, reported>> /\ (halfDone => halfDone')
      BY <3>1 DEF BeginInitialize
    <3>2. CASE ~ \E table \in Tables : BeginInitialize(table)
      <4>1. UNCHANGED <<hardware, reported, halfDone>>
        BY <1>1, <3>2 DEF ClientNext, Connect, Inform, TellPort, EndInitialize,
                          Shutdown, Disconnect
      <4> QED BY <4>1 DEF hardware
    <3> QED BY <3>1, <3>2 DEF hardware
  <2>2. au' = au \/ \E t \in AuThread : au' = [au EXCEPT ![t].pc = "get"]
    BY <1>1 DEF ClientNext, BeginInitialize, FreeAu, Connect, Inform, TellPort,
                EndInitialize, Shutdown, Disconnect
  <2>3. \A t \in AuThread : Holding(t)' => Holding(t) /\ au'[t].msg = au[t].msg
    <3>1. au \in [AuThread -> AuState]
      BY DEF EventsType
    <3>2. ASSUME NEW u \in AuThread, au' = [au EXCEPT ![u].pc = "get"]
          PROVE  \A t \in AuThread : Holding(t)' => Holding(t) /\ au'[t].msg = au[t].msg
      BY <3>1, <3>2 DEF AuState, Holding
    <3> QED BY <2>2, <3>2 DEF Holding
  <2> QED BY <2>1, <2>3, OrderKept
<1>2. CASE TaskNext \/ UNCHANGED vars
  <2>1. UNCHANGED <<au, queue, learned, reported, halfDone>>
    BY <1>2 DEF TaskNext, vars, hardware
  <2> QED BY <2>1, OrderKept DEF Holding
<1>3. ASSUME NEW t \in AuThread, AuNext(t) PROVE OrderInv'
  <2>1. UNCHANGED <<learned, halfDone>> /\ \A u \in AuThread \ {t} : au'[u] = au[u]
    BY <1>3, AuEffect DEF AuNext
  <2>2. au[t] \in AuState /\ au[t].msg \in Nat /\ learned \in Nat
    BY DEF EventsType, AuState
  <2>3. CASE Reads(t)
    <3>1. UNCHANGED <<queue, reported>>
          /\ \A u \in AuThread : Holding(u)' => Holding(u) /\ au'[u].msg = au[u].msg
      BY <2>1, <2>3 DEF Reads, Holding
    <3> QED BY <2>1, <3>1, OrderKept
  <2>4. CASE Ends(t) /\ UNCHANGED reported
    <3>1. UNCHANGED queue
          /\ \A u \in AuThread : Holding(u)' => Holding(u) /\ au'[u].msg = au[u].msg
      BY <2>1, <2>4 DEF Ends, Holding
    <3> QED BY <2>1, <2>4, <3>1, OrderKept
  <2> SUFFICES ASSUME Takes(t) \/ (Ends(t) /\ reported' # reported)
               PROVE  OrderInv'
    BY <1>3, <2>3, <2>4, AuEffect
  <2>5. ASSUME ~halfDone
        PROVE  /\ OneThread' /\ ReportedFirst /\ HeldBetween
               /\ \A u \in AuThread \ {t} : ~Holding(u)'
    <3>1. OneThread /\ ReportedFirst /\ HeldBetween /\ OneThread'
      BY <2>1, <2>5, ThreadStep DEF OrderInv
    <3>2. t \in Running
      BY DEF Takes, Ends, Running
    <3>3. \A u \in AuThread \ {t} : au[u].pc = "off"
      BY <3>1, <3>2 DEF OneThread, Running
    <3> QED BY <2>1, <3>1, <3>3 DEF Holding
  <2>6. CASE Takes(t)
    <3>1. /\ queue' = Tail(queue) /\ queue # <<>> /\ reported' = reported
          /\ au'[t].msg = Head(queue).msg
      BY <2>6 DEF Takes
    <3>2. QueueInOrder
      BY DEF OrderInv
    <3>3. /\ QueueInOrder'
          /\ Head(queue).msg \in Nat /\ Head(queue).msg <= learned
          /\ 1 \in 1 .. Len(queue) /\ queue[1] = Head(queue)
          /\ \A j \in 1 .. Len(queue') : /\ Head(queue).msg < queue'[j].msg
                                         /\ j + 1 \in 1 .. Len(queue)
                                         /\ queue'[j] = queue[j + 1]
      BY <2>1, <3>1, <3>2, TakenInOrder
    <3>4. EventsInOrder'
      BY <2>1, <3>1 DEF OrderInv, EventsInOrder
    <3>5. ASSUME ~halfDone PROVE ReportedFirst' /\ HeldBetween'
      <4>1. \A i \in 1 .. Len(reported) : reported[i].msg < Head(queue).msg
        BY <2>5, <3>3, <3>5 DEF ReportedFirst
      <4>2. ReportedFirst'
        BY <2>1, <2>5, <3>1, <3>3, <3>5 DEF ReportedFirst
      <4>3. HeldBetween'
        BY <2>1, <2>5, <3>1, <3>3, <3>5, <4>1 DEF HeldBetween
      <4> QED BY <4>2, <4>3
    <3> QED BY <2>1, <2>5, <3>3, <3>4, <3>5 DEF OrderInv
  <2>7. CASE Ends(t) /\ reported' # reported
    <3>1. /\ queue' = queue /\ au'[t].pc = "get" /\ Holding(t)
      BY <2>7 DEF Ends, Holding
    <3>2. PICK e \in Event : /\ reported' = Append(reported, e) /\ e.msg = au[t].msg
                             /\ e.from # NoPort => e.port = e.from
      BY <2>7 DEF Ends
    <3>3. QueueInOrder'
      BY <2>1, <3>1 DEF OrderInv, QueueInOrder
    <3>4. CASE halfDone
      BY <2>1, <3>3, <3>4 DEF OrderInv, EventsInOrder
    <3>5. CASE ~halfDone
      <4>1. /\ au[t].msg <= learned
            /\ \A i \in 1 .. Len(reported) : reported[i].msg < au[t].msg
            /\ \A j \in 1 .. Len(queue) : au[t].msg < queue[j].msg
        BY <2>5, <3>1, <3>5 DEF HeldBetween
      <4>2. /\ EventsInOrder'
            /\ \A i \in 1 .. Len(reported') :
                 \/ i \in 1 .. Len(reported) /\ reported'[i] = reported[i]
                 \/ reported'[i] = e
        BY <3>2, <3>5, <4>1, ReportedInOrder DEF OrderInv
      <4>3. ReportedFirst'
        BY <2>1, <2>5, <3>1, <3>2, <3>5, <4>1, <4>2 DEF ReportedFirst
      <4>4. HeldBetween'
        BY <2>5, <3>1, <3>5 DEF HeldBetween, Holding
      <4> QED BY <2>5, <3>3, <3>5, <4>2, <4>3, <4>4 DEF OrderInv
    <3> QED BY <3>4, <3>5
  <2> QED BY <2>6, <2>7
<1>4. CASE HardwareNext
  <2>1. UNCHANGED <<au, reported, halfDone>>
    BY <1>4 DEF HardwareNext
  <2>2. ASSUME NEW p \in Port, Flap(p) PROVE OrderInv'
    BY <2>1, <2>2, OrderKept DEF Flap, Holding
  <2>3. ASSUME NEW p \in Port \cup {NoPort}, Learn(p) PROVE OrderInv'
    <3>1. /\ p \in Place /\ learned' = learned + 1 /\ learned \in Nat
          /\ queue' = Append(queue, [msg |-> learned + 1, port |-> p])
      BY <2>3 DEF Learn, Place, EventsType
    <3>2. /\ QueueInOrder'
          /\ \A j \in 1 .. Len(queue') :
               \/ j \in 1 .. Len(queue) /\ queue'[j] = queue[j]
               \/ queue'[j].msg = learned + 1
      BY <3>1, LearnedInOrder DEF OrderInv
    <3>3. EventsInOrder'
      BY <2>1 DEF OrderInv, EventsInOrder
    <3>4. ASSUME ~halfDone PROVE OneThread' /\ ReportedFirst' /\ HeldBetween'
      <4>1. OneThread' /\ ReportedFirst /\ HeldBetween
        BY <2>1, <3>4, ThreadStep DEF OrderInv
      <4>2. /\ \A i \in 1 .. Len(reported) : reported[i].msg \in Nat
            /\ \A t \in AuThread : au[t].msg \in Nat
        BY MessagesNumbered
      <4>3. ReportedFirst'
        BY <2>1, <3>1, <3>2, <4>1, <4>2 DEF ReportedFirst
      <4>4. HeldBetween'
        BY <2>1, <3>1, <3>2, <4>1, <4>2 DEF HeldBetween, Holding
      <4> QED BY <4>1, <4>3, <4>4
    <3> QED BY <2>1, <3>2, <3>3, <3>4 DEF OrderInv
  <2> QED BY <1>4, <2>2, <2>3 DEF HardwareNext
<1> QED BY <1>1, <1>2, <1>3, <1>4 DEF Next

\* Address events reach the client in the order the switch learned them, each
\* once and with its own port, unless a first initialization failed after it
\* had started a thread.
THEOREM EventsStayInOrder == Spec => []EventsInOrder
<1>1. Init => OrderInv
  BY DEF Init, OrderInv, QueueInOrder, OneThread, Running, ReportedFirst,
         HeldBetween, Holding, EventsInOrder
<1>2. EventsType /\ OrderInv /\ [Next]_vars => EventsType' /\ OrderInv'
  BY EventsTypeStep, OrderStep
<1>3. OrderInv => EventsInOrder
  BY DEF OrderInv
<1> QED BY <1>1, <1>2, <1>3, EventsTypeStart, PTL DEF Spec

=============================================================================
