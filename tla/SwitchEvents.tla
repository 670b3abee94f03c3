---------------------------- MODULE SwitchEvents ----------------------------
(***************************************************************************)
(* Starting and stopping the switch, and the two threads that report what  *)
(* the hardware does (mrvl_sai_switch.c, mrvl_sai_fdb.c).  The client's    *)
(* thread writes the table of notification callbacks and, in its first     *)
(* initialization, starts the threads; they read one pointer of the table  *)
(* and call it afterwards, without a lock.                                 *)
(***************************************************************************)
EXTENDS Integers, Sequences, FiniteSets

CONSTANTS
  NumPorts,      \* SAI_MAX_NUM_OF_PORTS
  Tables,        \* callback tables of clients: [fdb, state : Handler]
  Handler,       \* functions of clients
  NoFn,          \* the NULL function
  MaxThreads,    \* bound on address update threads
  MaxInits, MaxLearned, MaxFlaps,   \* bounds: initializations, addresses
                                    \* learned, changes of a link
  Faults         \* "lib": fpaLibInit fails; "setup": a later step of the
                 \* first initialization does; "thread": pthread_create

ASSUME EventConstants ==
  /\ NumPorts \in Nat \ {0} /\ MaxThreads \in Nat \ {0}
  /\ NoFn \notin Handler
  /\ Tables \subseteq [fdb : Handler \cup {NoFn}, state : Handler \cup {NoFn}]
  /\ Faults \subseteq {"lib", "setup", "thread"}

Port == 0 .. NumPorts - 1
AuThread == 1 .. MaxThreads
Task == 0                        \* mrvl_sai_port_status_task, as a thread
Nobody == [fdb |-> NoFn, state |-> NoFn]

VARIABLES
  firstTime,   \* mrvl_sai_switch_init_first_time
  opened,      \* mrvl_sai_gh_sdk
  callbacks,   \* mrvl_sai_notification_callbacks
  portStatus,  \* port_status: the links as last seen up
  client,      \* the client's thread in mrvl_sai_initialize_switch
  task,        \* mrvl_sai_port_status_task
  au,          \* the threads in mrvl_sai_fdb_wait_for_au_event
  link, queue, \* the hardware: links up; address messages, with their port
  learned, inits, flaps,   \* how many there were of each
  told,        \* the state of each port as the client was last told
  reported,    \* the address events reported: message and port
  late,        \* calls of each thread since its callback was withdrawn
  calm,        \* a client has been registered since an initialization that
               \* left both threads running, with a function for each
  stale,       \* the links whose state was stored again between the reading
               \* and the telling of their first state, and not told since
  halfDone     \* a first initialization failed with its thread started

hardware == <<link, queue, learned, flaps>>
vars == <<firstTime, opened, callbacks, portStatus, client, task, au,
          hardware, inits, told, reported, late, calm, stale, halfDone>>

NoPort == NumPorts     \* a message of an interface that is no port; also
                       \* what an event names before any message was converted
Idle == [pc |-> "idle", port |-> 0, up |-> FALSE]

Init ==
  /\ firstTime = TRUE /\ opened = FALSE
  /\ callbacks = Nobody
  /\ portStatus = [p \in Port |-> FALSE]
  /\ client = Idle
  /\ task = [pc |-> "off", port |-> 0, up |-> FALSE, fn |-> NoFn]
  /\ au = [t \in AuThread |-> [pc |-> "off", msg |-> 0, from |-> NoPort,
                               port |-> NoPort, fn |-> NoFn]]
  /\ link \in [Port -> BOOLEAN]
  /\ queue = <<>> /\ learned = 0 /\ inits = 0 /\ flaps = 0
  /\ told = [p \in Port |-> "untold"]
  /\ reported = <<>>
  /\ late = [t \in {Task} \cup AuThread |-> 0]
  /\ calm = FALSE /\ stale = {} /\ halfDone = FALSE

StateOf(up) == IF up THEN "up" ELSE "down"

-----------------------------------------------------------------------------
(* The table of callbacks.  Each thread reads one pointer of it: that the  *)
(* pointers are written one after the other makes no difference to it.     *)

Register(table) ==
  /\ callbacks' = table
  /\ late' = [t \in DOMAIN late |->
               LET old == IF t = Task THEN callbacks.state ELSE callbacks.fdb
                   new == IF t = Task THEN table.state ELSE table.fdb
               IN  IF old = new THEN late[t] ELSE 0]

-----------------------------------------------------------------------------
(* The client.                                                             *)

\* Mutant: the address update thread is started by every initialization.
StartsAuAlways == TRUE

\* The address update thread is started once.
StartsAu == firstTime

\* The threads that can still be started.
FreeAu == {t \in AuThread : au[t].pc = "off"}

\* mrvl_sai_initialize_switch up to the first notification: what fails
\* leaves the switch opened and the callbacks in place.
BeginInitialize(table) ==
  /\ client = Idle /\ ~opened /\ inits < MaxInits
  /\ inits' = inits + 1
  /\ opened' = TRUE
  /\ Register(table)
  /\ \/ /\ firstTime /\ "lib" \in Faults
        /\ UNCHANGED <<client, au, halfDone>>
     \/ /\ UNCHANGED halfDone
        /\ client' = [Idle EXCEPT !.pc = "inform"]
        /\ IF StartsAu THEN \E t \in FreeAu : au' = [au EXCEPT ![t].pc = "get"]
           ELSE UNCHANGED au
     \/ /\ firstTime /\ "setup" \in Faults
        /\ \E t \in FreeAu : au' = [au EXCEPT ![t].pc = "get"]
        /\ halfDone' = TRUE
        /\ UNCHANGED client
  /\ calm' = FALSE /\ stale' = {}
  /\ UNCHANGED <<firstTime, portStatus, task, hardware, told, reported>>

\* Mutant: the port status thread is started before the client is told
\* the state of the ports.
StartTaskAtFirst == 0

\* The port status thread is started when the client has been told the
\* state of this many ports, unless it does not ask for states.
StartTaskAt == NumPorts

\* Of a first initialization: port_status is cleared, by the thread again.
StartTask ==
  /\ \/ task' = [task EXCEPT !.pc = "start"]
     \/ "thread" \in Faults /\ UNCHANGED task

\* mrvl_sai_inform_all_ports_status_adv, port by port: the state is read
\* in one step and told in the next.
Inform ==
  /\ client.pc = "inform" /\ callbacks.state # NoFn
  /\ client.port < NumPorts
  /\ client' = [client EXCEPT !.pc = "tell", !.up = portStatus[client.port]]
  /\ IF firstTime /\ task.pc = "off" /\ client.port = StartTaskAt
     THEN StartTask ELSE UNCHANGED task
  /\ UNCHANGED <<firstTime, opened, callbacks, portStatus, au, hardware,
                 inits, told, reported, late, calm, stale, halfDone>>

\* After the first initialization the thread runs meanwhile, and may have
\* stored another state and told it.
TellPort ==
  /\ client.pc = "tell"
  /\ told' = [told EXCEPT ![client.port] = StateOf(client.up)]
  /\ client' = [client EXCEPT !.pc = "inform", !.port = @ + 1, !.up = FALSE]
  /\ stale' = IF ~firstTime /\ portStatus[client.port] # client.up
              THEN stale \cup {client.port} ELSE stale
  /\ UNCHANGED <<firstTime, opened, callbacks, portStatus, task, au, hardware,
                 inits, reported, late, calm, halfDone>>

EndInitialize ==
  /\ client.pc = "inform"
  /\ callbacks.state = NoFn \/ client.port = NumPorts
  /\ client' = Idle
  /\ firstTime' = FALSE
  /\ IF callbacks.state # NoFn /\ firstTime /\ client.port = StartTaskAt
     THEN StartTask ELSE UNCHANGED task
  /\ calm' = (callbacks.fdb # NoFn /\ callbacks.state # NoFn /\ task'.pc # "off")
  /\ UNCHANGED <<opened, callbacks, portStatus, au, hardware, inits, told,
                 reported, late, stale, halfDone>>

\* mrvl_sai_shutdown_switch; the threads go on.
Shutdown ==
  /\ client = Idle
  /\ opened' = FALSE
  /\ Register(Nobody)
  /\ calm' = FALSE
  /\ UNCHANGED <<firstTime, portStatus, client, task, au, hardware, inits,
                 told, reported, stale, halfDone>>

\* mrvl_sai_disconnect_switch leaves the switch opened.
Disconnect ==
  /\ client = Idle /\ callbacks # Nobody
  /\ Register(Nobody)
  /\ calm' = FALSE
  /\ UNCHANGED <<firstTime, opened, portStatus, client, task, au, hardware,
                 inits, told, reported, stale, halfDone>>

\* mrvl_sai_connect_switch takes the functions given and keeps the others.
Connect(table) ==
  /\ client = Idle
  /\ Register([f \in {"fdb", "state"} |->
                IF table[f] # NoFn THEN table[f] ELSE callbacks[f]])
  /\ UNCHANGED <<firstTime, opened, portStatus, client, task, au, hardware,
                 inits, told, reported, calm, stale, halfDone>>

ClientNext ==
  \/ \E table \in Tables : BeginInitialize(table) \/ Connect(table)
  \/ Inform \/ TellPort \/ EndInitialize
  \/ Shutdown \/ Disconnect

-----------------------------------------------------------------------------
(* mrvl_sai_port_status_task.                                              *)

NextPort(p) == IF p = NumPorts - 1 THEN 0 ELSE p + 1

TaskStart ==
  /\ task.pc = "start"
  /\ portStatus' = [p \in Port |-> FALSE]
  /\ task' = [task EXCEPT !.pc = "poll"]
  /\ UNCHANGED <<told, late, stale>>

\* The link is read and, if it changed, the change stored.
TaskPoll ==
  /\ task.pc = "poll"
  /\ LET up == link[task.port] IN
     /\ portStatus' = [portStatus EXCEPT ![task.port] = up]
     /\ task' = IF portStatus[task.port] = up
                THEN [task EXCEPT !.port = NextPort(@)]
                ELSE [task EXCEPT !.pc = "load", !.up = up]
  /\ UNCHANGED <<told, late, stale>>

TaskLoad ==
  /\ task.pc = "load"
  /\ task' = [task EXCEPT !.pc = "call", !.fn = callbacks.state]
  /\ UNCHANGED <<portStatus, told, late, stale>>

Calls(thread, fn, current) ==
  late' = [late EXCEPT ![thread] = IF fn # NoFn /\ fn # current THEN @ + 1 ELSE @]

TaskCall ==
  /\ task.pc = "call"
  /\ told' = IF task.fn = NoFn THEN told
             ELSE [told EXCEPT ![task.port] = StateOf(task.up)]
  /\ stale' = IF task.fn = NoFn THEN stale ELSE stale \ {task.port}
  /\ Calls(Task, task.fn, callbacks.state)
  /\ task' = [task EXCEPT !.pc = "poll", !.port = NextPort(@), !.up = FALSE, !.fn = NoFn]
  /\ UNCHANGED portStatus

TaskNext ==
  /\ TaskStart \/ TaskPoll \/ TaskLoad \/ TaskCall
  /\ UNCHANGED <<firstTime, opened, callbacks, client, au, hardware, inits,
                 reported, calm, halfDone>>

-----------------------------------------------------------------------------
(* mrvl_sai_fdb_wait_for_au_event.                                         *)

AuGet(t) ==
  /\ au[t].pc = "get" /\ queue # <<>>
  /\ au' = [au EXCEPT ![t] = [@ EXCEPT !.pc = "load", !.msg = Head(queue).msg,
                                       !.from = Head(queue).port]]
  /\ queue' = Tail(queue)
  /\ UNCHANGED <<reported, late>>

\* Mutant: the callback is read when there is none yet.
LoadedOnce(t) == IF au[t].fn = NoFn THEN callbacks.fdb ELSE au[t].fn

\* The callback read for each message.
Loaded(t) == callbacks.fdb

AuLoad(t) ==
  /\ au[t].pc = "load"
  /\ au' = [au EXCEPT ![t] = [@ EXCEPT !.pc = "call", !.fn = Loaded(t)]]
  /\ UNCHANGED <<queue, reported, late>>

\* mrvl_sai_fdb_event_convert_fpa_to_sai fails on what is no port, LAG or
\* VLAN, and leaves the event with the object of the one before.
Converted(t) == IF au[t].from = NoPort THEN au[t].port ELSE au[t].from

\* Mutant: the thread ends with a message it cannot convert.
AfterEventEnd(t) == IF au[t].from = NoPort THEN "off" ELSE "get"

\* The thread waits for the next message, whatever became of this one.
AfterEvent(t) == "get"

AuCall(t) ==
  /\ au[t].pc = "call"
  /\ IF au[t].fn = NoFn
     THEN /\ au' = [au EXCEPT ![t] = [@ EXCEPT !.pc = "get", !.msg = 0, !.from = NoPort]]
          /\ UNCHANGED reported
     ELSE /\ au' = [au EXCEPT ![t] = [@ EXCEPT !.pc = AfterEvent(t), !.msg = 0,
                                               !.from = NoPort, !.port = Converted(t)]]
          /\ reported' = Append(reported, [msg |-> au[t].msg, from |-> au[t].from,
                                           port |-> Converted(t)])
  /\ Calls(t, au[t].fn, callbacks.fdb)
  /\ UNCHANGED queue

AuNext(t) ==
  /\ AuGet(t) \/ AuLoad(t) \/ AuCall(t)
  /\ UNCHANGED <<firstTime, opened, callbacks, portStatus, client, task, link,
                 learned, flaps, inits, told, calm, stale, halfDone>>

-----------------------------------------------------------------------------
(* The hardware.                                                           *)

Learn(p) ==
  /\ learned < MaxLearned
  /\ learned' = learned + 1
  /\ queue' = Append(queue, [msg |-> learned + 1, port |-> p])
  /\ UNCHANGED <<link, flaps>>

Flap(p) ==
  /\ flaps < MaxFlaps
  /\ flaps' = flaps + 1
  /\ link' = [link EXCEPT ![p] = ~@]
  /\ UNCHANGED <<queue, learned>>

HardwareNext ==
  /\ \/ \E p \in Port \cup {NoPort} : Learn(p)
     \/ \E p \in Port : Flap(p)
  /\ UNCHANGED <<firstTime, opened, callbacks, portStatus, client, task, au,
                 inits, told, reported, late, calm, stale, halfDone>>

Next ==
  \/ ClientNext
  \/ TaskNext
  \/ \E t \in AuThread : AuNext(t)
  \/ HardwareNext

\* The threads are scheduled, and an initialization that began goes on.
Fairness ==
  /\ WF_vars(TaskNext)
  /\ \A t \in AuThread : WF_vars(AuNext(t))
  /\ WF_vars(Inform \/ TellPort \/ EndInitialize)

Spec == Init /\ [][Next]_vars /\ Fairness

-----------------------------------------------------------------------------
(* Properties.                                                             *)

\* Once its callback is withdrawn or replaced by shutdown, disconnect,
\* connect or another initialization, each thread makes at most the one
\* call it had read the function for.
OneLateCall == \A t \in DOMAIN late : late[t] <= 1

\* Unless a first initialization failed after it had started the thread,
\* so that the next one starts a second: address events reach the client in
\* the order the switch learned them, each once, and an event of a port names
\* that port, although the message before may not have been converted.
EventsInOrder ==
  ~halfDone =>
    \A i \in 1 .. Len(reported) :
      /\ \A j \in 1 .. i - 1 : reported[j].msg < reported[i].msg
      /\ reported[i].from # NoPort => reported[i].port = reported[i].from

\* A client registered by any initialization comes to know the state a link
\* settles in, although that state may have been stored while nobody was
\* registered, and the telling of the first states and the thread that polls
\* the links write to the client side by side.  Not, after the first
\* initialization, when the thread stores another state of the link between
\* the reading and the telling of its first state: the client may then be
\* told the older one last, until the link changes again.
LinksTold ==
  \A p \in Port, up \in BOOLEAN :
    <>[](calm /\ p \notin stale /\ link[p] = up) => <>[](told[p] = StateOf(up))

\* It is told of every address message that waits for it.
AddressesTold ==
  \A m \in 1 .. MaxLearned :
    (calm /\ \E i \in 1 .. Len(queue) : queue[i].msg = m)
      ~> (~calm \/ \E i \in 1 .. Len(reported) : reported[i].msg = m)

=============================================================================
