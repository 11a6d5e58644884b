----------------------------- MODULE AppProofs -----------------------------
(***************************************************************************)
(* Proofs about App for any number of sensors, units and cycles: types,    *)
(* that nothing is torn down under a running thread, that no reading is    *)
(* lost or reordered between the poll and the API, that a stop is prompt,  *)
(* that batches stay whole, and that the MQTT library is handed the        *)
(* readings in the order of the polls and at most once.                    *)
(***************************************************************************)
EXTENDS App, SequenceTheorems, TLAPS

-----------------------------------------------------------------------------
\* Types.

LEMMA LabelSets ==
    /\ MainLabels \subseteq Labels
    /\ ApiLabels \subseteq Labels
    /\ PollLabels \subseteq Labels
    /\ PushLabels \subseteq Labels
BY DEF Labels

\* The types of what belongs to the App itself.
AppTypeOK ==
    /\ initialized \in BOOLEAN
    /\ running \in BOOLEAN
    /\ modbus \in {"none", "open", "closed"}
    /\ pc \in [Threads -> Labels]
    /\ pc["main"] \in MainLabels
    /\ pc["api"] \in ApiLabels
    /\ pc["poll"] \in PollLabels
    /\ pc["push"] \in PushLabels
    /\ cycle \in 0..MaxCycles
    /\ sensor \in 1..NumSensors + 1
    /\ unit \in 1..NumUnits + 1
    /\ pkg \in Readings \cup {None}
    /\ (pkg # None) <=> (pc["push"] \in Holding)
    /\ handed \in Seq(Readings)
    /\ posted \in Seq(Readings)
    /\ atStop \in [sent : Nat, taken : Nat]
    /\ C!TypeOK

LEMMA TypeParts == TypeOK <=> AppTypeOK /\ M!TypeOK
BY DEF TypeOK, AppTypeOK

-----------------------------------------------------------------------------
\* The client in the process.

\* What is proved of the client by itself holds of the one the App drives.
Client == INSTANCE MosquittoClientProofs

LEMMA SameState ==
    /\ M!TypeOK <=> Client!TypeOK
    /\ M!Init <=> Client!Init
    /\ M!QuietAfterDisconnect <=> Client!QuietAfterDisconnect
    /\ M!NoCallbackAfterDestroy <=> Client!NoCallbackAfterDestroy
    /\ mqttVars = Client!mqttVars
BY DEF M!TypeOK, Client!TypeOK, M!Init, Client!Init, M!Calls, M!Links, M!Nets,
       Client!Calls, Client!Links, Client!Nets, mqttVars, Client!mqttVars,
       M!QuietAfterDisconnect, Client!QuietAfterDisconnect,
       M!NoCallbackAfterDestroy, Client!NoCallbackAfterDestroy

LEMMA SameCalls ==
    /\ \A ok \in BOOLEAN :
          /\ M!Construct(ok) <=> Client!Construct(ok)
          /\ M!Connect(ok) <=> Client!Connect(ok)
    /\ M!Disconnect <=> Client!Disconnect
    /\ M!Destructor <=> Client!Destructor
BY DEF M!Construct, Client!Construct, M!Connect, Client!Connect,
       M!Disconnect, Client!Disconnect, M!Destructor, Client!Destructor,
       M!Ready, Client!Ready, M!Hangup, Client!Hangup

LEMMA SameSteps ==
    /\ M!CallStep <=> Client!CallStep
    /\ M!Net <=> Client!Net
<1>1. M!CallStep <=> Client!CallStep
  BY DEF M!CallStep, M!LoopStart, M!LoopStop, M!ClearConnected, M!Destroy,
         M!Hangup, Client!CallStep, Client!LoopStart, Client!LoopStop,
         Client!ClearConnected, Client!Destroy, Client!Hangup
<1>2. M!Net <=> Client!Net
  BY DEF M!Net, M!NetConnack, M!OnConnect, M!NetDrop, M!OnDisconnect,
         M!NetRetry, Client!Net, Client!NetConnack, Client!OnConnect,
         Client!NetDrop, Client!OnDisconnect, Client!NetRetry
<1> QED
  BY <1>1, <1>2

\* The App calls the client as its interface allows: one call at a time, and
\* none on an object that is not there.
LEMMA ClientStep ==
    ASSUME AppTypeOK, [Next]_vars
    PROVE  [Client!Next]_(Client!mqttVars)
<1> DEFINE Step ==
        \/ \E ok \in BOOLEAN : M!Construct(ok) \/ M!Connect(ok)
        \/ M!Disconnect \/ M!Destructor \/ M!CallStep \/ M!Net
        \/ UNCHANGED mqttVars
<1>1. ASSUME MainStep \/ Sleep
      PROVE  Step
  BY <1>1
  DEF MainStep, LoadConfig, ModbusConnect, MqttNew, MqttConnect, ApiInit, Run,
      SpawnAll, Spawn, Sleep, Shutdown, JoinAll, Join, Teardown, ModbusClose,
      Destruct, Return
<1>2. ASSUME ApiStep \/ PollStep
      PROVE  Step
  BY <1>2
  DEF ApiStep, PollStep, PollCheck, PollSensor, PollRead, PollSend, PollSleep,
      PollOnly
<1>3. ASSUME PushStep
      PROVE  Step
  BY <1>3
  DEF PushStep, PushCheck, PushReceive, PushTimeout, PushAsk, PushConnect,
      PushPublish, PushPost
<1>4. ASSUME MqttCall \/ MqttNet \/ Finished \/ UNCHANGED vars
      PROVE  Step
  BY <1>4 DEF MqttCall, MqttNet, Finished, vars
<1>5. Step
  BY <1>1, <1>2, <1>3, <1>4 DEF Next
<1>6. UNCHANGED mqttVars => UNCHANGED Client!mqttVars
  BY DEF mqttVars, Client!mqttVars
<1> QED
  BY <1>5, <1>6, SameCalls, SameSteps DEF Client!Next, Client!NetSubscribed

-----------------------------------------------------------------------------
\* The strengthening.

Active(w) == pc[w] \notin {"off", "done"}

Creating == {"config", "modbus", "mqtt_new", "mqtt_connect", "api_init"}
Spawning == {"spawn_api", "spawn_poll", "spawn_push"}
Joining  == {"join_api", "join_poll", "join_push"}
Ending   == {"teardown", "modbus_close", "destruct", "return", "exit"}

\* Which threads there are, by the position of main.
ThreadsInv ==
    /\ \/ pc["main"] \in Creating \cup {"run", "spawn_api"}
       \/ pc["main"] = "shutdown" /\ ~running
       => \A w \in Workers : pc[w] = "off"
    /\ pc["main"] = "spawn_poll" => pc["poll"] = "off" /\ pc["push"] = "off"
    /\ pc["main"] = "spawn_push" => pc["push"] = "off"
    /\ pc["main"] = "join_poll" => ~Active("api")
    /\ pc["main"] = "join_push" => ~Active("api") /\ ~Active("poll")
    /\ pc["main"] \in Ending => \A w \in Workers : ~Active(w)

\* The two flags of the App, by the position of main.
FlagsInv ==
    /\ pc["main"] \in Spawning \cup {"sleep"} => running
    /\ running => initialized /\ pc["main"] \in Spawning
                                                \cup {"sleep", "shutdown"}
    /\ pc["main"] \in Joining => initialized
    /\ initialized => pc["main"] \notin Creating
                                        \cup {"destruct", "return", "exit"}

\* The subsystems, by the position of main and the flags.
SubsystemsInv ==
    /\ initialized => modbus = "open" /\ mosq \in {"live", "null"}
    /\ pc["main"] \in {"mqtt_new", "mqtt_connect", "api_init"}
          => modbus = "open"
    /\ pc["main"] \in {"mqtt_connect", "api_init"} => mosq \in {"live", "null"}
    /\ mosq = "dying" => /\ pc["main"] = "return"
                         /\ call \in {"loop_stop", "clear", "destroy"}
    /\ call = "destroy" => mosq = "dying"

\* The poll thread's counters stay within a cycle and its sensors.
PollInv ==
    /\ pc["poll"] \in {"sensor", "read", "send"} => cycle >= 1
    /\ pc["poll"] \in {"read", "send"} => sensor <= NumSensors

IInv == TypeOK /\ ThreadsInv /\ FlagsInv /\ SubsystemsInv /\ PollInv

LEMMA IInvInit == Init => IInv
<1> SUFFICES ASSUME Init PROVE IInv
  OBVIOUS
<1> USE DEF Init, Threads, Workers
<1>1. M!TypeOK
  BY DEF M!Init, M!TypeOK, M!Calls, M!Links, M!Nets
<1>2. AppTypeOK
  <2>1. /\ pc \in [Threads -> Labels]
        /\ pc["main"] \in MainLabels
        /\ pc["api"] \in ApiLabels
        /\ pc["poll"] \in PollLabels
        /\ pc["push"] \in PushLabels \ Holding
    BY DEF Labels, MainLabels, ApiLabels, PollLabels, PushLabels, Holding
  <2>2. C!TypeOK
    BY DEF C!Init, C!TypeOK
  <2>3. /\ <<>> \in Seq(Readings)
        /\ 0 \in 0..MaxCycles
        /\ 1 \in 1..NumSensors + 1
        /\ 1 \in 1..NumUnits + 1
    BY SizesAssumption
  <2>4. pkg = None /\ pc["push"] \notin Holding
    BY <2>1
  <2>5. /\ initialized \in BOOLEAN /\ running \in BOOLEAN
        /\ modbus \in {"none", "open", "closed"}
        /\ atStop \in [sent : Nat, taken : Nat]
    OBVIOUS
  <2> QED
    BY <2>1, <2>2, <2>3, <2>4, <2>5 DEF AppTypeOK
<1>3. ThreadsInv /\ FlagsInv /\ PollInv
  BY DEF ThreadsInv, FlagsInv, PollInv, Creating, Spawning, Joining, Ending
<1>4. SubsystemsInv
  BY DEF SubsystemsInv, M!Init
<1> QED
  BY <1>1, <1>2, <1>3, <1>4, TypeParts DEF IInv

-----------------------------------------------------------------------------
\* Types, given the strengthening.

LEMMA TypeMain == IInv /\ (MainStep \/ Sleep) => AppTypeOK'
<1> SUFFICES ASSUME AppTypeOK, ThreadsInv, MainStep \/ Sleep
             PROVE  AppTypeOK'
  BY TypeParts DEF IInv
<1> DEFINE Flags == /\ initialized' \in BOOLEAN
                    /\ running' \in BOOLEAN
                    /\ modbus' \in {"none", "open", "closed"}
                    /\ atStop' \in [sent : Nat, taken : Nat]
<1>1. ASSUME NEW from, NEW to \in MainLabels,
             Goto("main", from, to), MainOnly, Flags
      PROVE  AppTypeOK'
  BY <1>1, LabelSets
  DEF AppTypeOK, Threads, Workers, Goto, MainOnly, chanVars, C!TypeOK
<1>2. CASE LoadConfig \/ ModbusConnect
  BY <1>2, <1>1 DEF LoadConfig, ModbusConnect, MainLabels, AppTypeOK
<1>3. CASE MqttNew \/ MqttConnect
  BY <1>3, <1>1 DEF MqttNew, MqttConnect, MainLabels, AppTypeOK
<1>4. CASE ApiInit \/ Run \/ Sleep
  BY <1>4, <1>1 DEF ApiInit, Run, Sleep, MainLabels, AppTypeOK
<1>5. CASE SpawnAll
  <2> USE LabelSets
      DEF AppTypeOK, Threads, Workers, MainLabels, MainOnly, chanVars,
          C!TypeOK, Spawn
  <2>1. CASE Spawn("api", "spawn_api", "spawn_poll")
    BY <2>1 DEF ApiLabels
  <2>2. CASE Spawn("poll", "spawn_poll", "spawn_push")
    BY <2>2 DEF PollLabels
  <2>3. CASE Spawn("push", "spawn_push", "sleep")
    BY <2>3 DEF ThreadsInv, PushLabels, Holding
  <2> QED
    BY <1>5, <2>1, <2>2, <2>3 DEF SpawnAll
<1>6. CASE Shutdown
  <2>1. Len(sent) \in Nat /\ Len(taken) \in Nat
    BY DEF AppTypeOK, C!TypeOK
  <2>2. [sent |-> Len(sent), taken |-> Len(taken)] \in [sent : Nat, taken : Nat]
    BY <2>1
  <2>3. atStop' \in [sent : Nat, taken : Nat]
    BY <1>6, <2>2 DEF Shutdown, AppTypeOK
  <2>4. Flags
    BY <1>6, <2>3 DEF Shutdown, AppTypeOK
  <2> QED
    BY <1>6, <1>1, <2>4 DEF Shutdown, MainLabels
<1>7. CASE JoinAll
  BY <1>7, <1>1 DEF JoinAll, Join, MainLabels, AppTypeOK
<1>8. CASE Teardown \/ ModbusClose
  BY <1>8, <1>1 DEF Teardown, ModbusClose, MainLabels, AppTypeOK
<1>9. CASE Destruct \/ Return
  BY <1>9, <1>1 DEF Destruct, Return, MainLabels, AppTypeOK
<1> QED
  BY <1>2, <1>3, <1>4, <1>5, <1>6, <1>7, <1>8, <1>9 DEF MainStep

LEMMA TypeApiPoll == IInv /\ (ApiStep \/ PollStep) => AppTypeOK'
<1> SUFFICES ASSUME AppTypeOK, PollInv, ApiStep \/ PollStep
             PROVE  AppTypeOK'
  BY TypeParts DEF IInv
<1> USE SizesAssumption, LabelSets
    DEF AppTypeOK, Threads, Workers, Goto, PollOnly, chanVars, C!TypeOK
<1>1. CASE ApiStep
  BY <1>1 DEF ApiStep, ApiLabels
<1>2. CASE PollCheck
  BY <1>2 DEF PollCheck, PollLabels
<1>3. CASE PollSensor \/ PollSleep
  BY <1>3 DEF PollSensor, PollSleep, PollLabels
<1>4. CASE PollRead
  BY <1>4 DEF PollRead, PollLabels, PollInv
<1>5. CASE PollSend
  <2>1. sensor <= NumSensors
    BY <1>5 DEF PollSend, PollInv
  <2>2. CASE unit > NumUnits /\ Goto("poll", "send", "sensor")
    BY <1>5, <2>1, <2>2 DEF PollSend, PollLabels
  <2>3. CASE unit <= NumUnits /\ C!Send(ThisReading)
    <3>1. ThisReading \in Readings
      BY <1>5, <2>1, <2>3 DEF PollSend, PollInv, ThisReading, Readings
    <3>2. queue' \in Seq(Readings) /\ sent' \in Seq(Readings)
      BY <2>3, <3>1 DEF C!Send
    <3> QED
      BY <1>5, <2>3, <3>2 DEF PollSend, C!Send
  <2> QED
    BY <1>5, <2>2, <2>3 DEF PollSend
<1> QED
  BY <1>1, <1>2, <1>3, <1>4, <1>5 DEF PollStep

LEMMA TypePush == IInv /\ PushStep => AppTypeOK'
<1> SUFFICES ASSUME AppTypeOK, PushStep
             PROVE  AppTypeOK'
  BY TypeParts DEF IInv
<1> USE LabelSets
    DEF AppTypeOK, Threads, Workers, Goto, PushOnly, chanVars, C!TypeOK,
            PushLabels, Holding
<1>1. CASE PushCheck \/ PushAsk \/ PushConnect
  BY <1>1 DEF PushCheck, PushAsk, PushConnect
<1>2. CASE PushPublish
  <2>1. pkg \in Readings /\ handed' = Append(handed, pkg)
    BY <1>2 DEF PushPublish
  <2>2. handed' \in Seq(Readings)
    BY <2>1
  <2> QED
    BY <1>2, <2>1, <2>2 DEF PushPublish
<1>3. CASE PushReceive
  BY <1>3, NoneAssumption DEF PushReceive, C!Receive
<1>4. CASE PushTimeout
  BY <1>4 DEF PushTimeout, C!Timeout, C!chanVars
<1>5. CASE PushPost
  BY <1>5 DEF PushPost
<1> QED
  BY <1>1, <1>2, <1>3, <1>4, <1>5 DEF PushStep

\* What each step of the App does to the MQTT client is one of its steps.
LEMMA TypeMqtt == IInv /\ [Next]_vars => M!TypeOK'
<1> SUFFICES ASSUME AppTypeOK, M!TypeOK, [Next]_vars
             PROVE  M!TypeOK'
  BY TypeParts DEF IInv
<1>1. Client!TypeOK'
  BY SameState, ClientStep, Client!TypeStep
<1> QED
  BY <1>1, SameState, PTL

LEMMA TypeStep == IInv /\ [Next]_vars => TypeOK'
<1> SUFFICES ASSUME IInv, [Next]_vars
             PROVE  AppTypeOK'
  BY TypeMqtt DEF TypeOK, AppTypeOK
<1>1. CASE MqttCall \/ MqttNet \/ Finished \/ UNCHANGED vars
  BY <1>1, TypeParts
  DEF MqttCall, MqttNet, Finished, vars, appVars, chanVars, IInv, AppTypeOK,
      C!TypeOK
<1> QED
  BY <1>1, TypeMain, TypeApiPoll, TypePush DEF Next

-----------------------------------------------------------------------------
\* The strengthening, one conjunct at a time.

\* What a step of another thread cannot change: the position of main.
LEMMA WorkerFrame ==
    ASSUME AppTypeOK, [Next]_vars, ~MainStep, ~Sleep
    PROVE  /\ pc'["main"] = pc["main"]
           /\ UNCHANGED <<initialized, running, modbus, atStop>>
           /\ \A w \in Workers : ~Active(w) => pc'[w] = pc[w]
<1> USE DEF AppTypeOK, Threads, Workers, Goto, Active
<1>1. CASE ApiStep
  BY <1>1 DEF ApiStep
<1>2. CASE PollStep
  BY <1>2 DEF PollStep, PollCheck, PollSensor, PollRead, PollSend, PollSleep,
              PollOnly
<1>3. CASE PushStep
  BY <1>3 DEF PushStep, PushCheck, PushReceive, PushTimeout, PushAsk,
              PushConnect, PushPublish, PushPost, PushOnly
<1>4. CASE MqttCall \/ MqttNet \/ Finished \/ UNCHANGED vars
  BY <1>4 DEF MqttCall, MqttNet, Finished, vars, appVars
<1> QED
  BY <1>1, <1>2, <1>3, <1>4 DEF Next

LEMMA ThreadsStep == IInv /\ [Next]_vars => ThreadsInv'
<1> SUFFICES ASSUME AppTypeOK, ThreadsInv, FlagsInv, [Next]_vars
             PROVE  ThreadsInv'
  BY TypeParts DEF IInv
<1> USE DEF ThreadsInv, FlagsInv, Workers, Active, Creating, Spawning, Ending
<1>1. CASE ~MainStep /\ ~Sleep
  BY <1>1, WorkerFrame
<1> USE DEF AppTypeOK, Threads, Goto
<1>2. CASE LoadConfig \/ ModbusConnect \/ MqttNew \/ MqttConnect \/ ApiInit
  BY <1>2 DEF LoadConfig, ModbusConnect, MqttNew, MqttConnect, ApiInit
<1>3. CASE Run \/ Sleep
  BY <1>3 DEF Run, Sleep
<1>4. CASE SpawnAll
  BY <1>4 DEF SpawnAll, Spawn
<1>5. CASE Shutdown
  BY <1>5 DEF Shutdown
<1>6. CASE JoinAll
  BY <1>6 DEF JoinAll, Join
<1>7. CASE Teardown \/ ModbusClose \/ Destruct \/ Return
  BY <1>7 DEF Teardown, ModbusClose, Destruct, Return
<1> QED
  BY <1>1, <1>2, <1>3, <1>4, <1>5, <1>6, <1>7 DEF MainStep

LEMMA FlagsStep == IInv /\ [Next]_vars => FlagsInv'
<1> SUFFICES ASSUME AppTypeOK, FlagsInv, [Next]_vars
             PROVE  FlagsInv'
  BY TypeParts DEF IInv
<1> USE DEF FlagsInv, Creating, Spawning, Joining
<1>1. CASE ~MainStep /\ ~Sleep
  BY <1>1, WorkerFrame
<1> USE DEF AppTypeOK, Threads, Workers, Goto
<1>2. CASE LoadConfig \/ ModbusConnect \/ MqttNew \/ MqttConnect \/ ApiInit
  BY <1>2 DEF LoadConfig, ModbusConnect, MqttNew, MqttConnect, ApiInit
<1>3. CASE Run \/ Sleep
  BY <1>3 DEF Run, Sleep
<1>4. CASE SpawnAll
  BY <1>4 DEF SpawnAll, Spawn
<1>5. CASE Shutdown
  BY <1>5 DEF Shutdown
<1>6. CASE JoinAll
  BY <1>6 DEF JoinAll, Join
<1>7. CASE Teardown \/ ModbusClose \/ Destruct \/ Return
  BY <1>7 DEF Teardown, ModbusClose, Destruct, Return
<1> QED
  BY <1>1, <1>2, <1>3, <1>4, <1>5, <1>6, <1>7 DEF MainStep

LEMMA SubsystemsStep == IInv /\ [Next]_vars => SubsystemsInv'
<1> SUFFICES ASSUME AppTypeOK, FlagsInv, SubsystemsInv, [Next]_vars
             PROVE  SubsystemsInv'
  BY TypeParts DEF IInv
<1> USE DEF SubsystemsInv
<1>1. CASE ~MainStep /\ ~Sleep /\ UNCHANGED <<mosq, call>>
  BY <1>1, WorkerFrame
<1>2. CASE MqttCall \/ MqttNet
  BY <1>2
  DEF MqttCall, MqttNet, appVars, M!CallStep, M!LoopStart, M!LoopStop,
      M!ClearConnected, M!Destroy, M!Net, M!NetConnack, M!OnConnect,
      M!NetDrop, M!OnDisconnect, M!NetRetry
<1>3. CASE ~MainStep /\ ~Sleep /\ ~MqttCall /\ ~MqttNet /\ ~PushConnect
  BY <1>3, <1>1
  DEF Next, vars, mqttVars, Finished, ApiStep, PollStep, PollCheck,
      PollSensor, PollRead, PollSend, PollSleep, PollOnly, PushStep,
      PushCheck, PushReceive, PushTimeout, PushAsk, PushPublish, PushPost
<1>4. CASE PushConnect
  <2>1. pc'["main"] = pc["main"]
    BY <1>4 DEF PushConnect, Goto, AppTypeOK, Threads, Workers
  <2> QED
    BY <1>4, <2>1 DEF PushConnect, PushOnly, M!Connect, M!Ready
<1> USE DEF FlagsInv, AppTypeOK, Threads, Workers, Goto, Creating, Spawning,
            mqttVars
<1>5. CASE LoadConfig \/ ModbusConnect
  BY <1>5 DEF LoadConfig, ModbusConnect
<1>6. CASE MqttNew
  BY <1>6 DEF MqttNew, M!Construct
<1>7. CASE MqttConnect
  BY <1>7 DEF MqttConnect, M!Connect, M!Ready
<1>8. CASE ApiInit \/ Run \/ Sleep
  BY <1>8 DEF ApiInit, Run, Sleep
<1>9. CASE SpawnAll \/ Shutdown \/ JoinAll
  BY <1>9 DEF SpawnAll, Spawn, Shutdown, JoinAll, Join
<1>10. CASE Teardown
  BY <1>10 DEF Teardown, M!Disconnect, M!Ready
<1>11. CASE ModbusClose \/ Return
  BY <1>11 DEF ModbusClose, Return
<1>12. CASE Destruct
  BY <1>12 DEF Destruct, M!Destructor, M!Ready
<1> QED
  BY <1>2, <1>3, <1>4, <1>5, <1>6, <1>7, <1>8, <1>9, <1>10, <1>11, <1>12
  DEF MainStep

LEMMA PollInvStep == IInv /\ [Next]_vars => PollInv'
<1> SUFFICES ASSUME AppTypeOK, PollInv, [Next]_vars
             PROVE  PollInv'
  BY TypeParts DEF IInv
<1> USE SizesAssumption DEF PollInv, AppTypeOK, Threads, Workers, Goto
<1>1. CASE PollStep
  BY <1>1 DEF PollStep, PollCheck, PollSensor, PollRead, PollSend, PollSleep
<1>2. CASE MainStep \/ Sleep
  BY <1>2
  DEF MainStep, Sleep, LoadConfig, ModbusConnect, MqttNew, MqttConnect,
      ApiInit, Run, SpawnAll, Spawn, Shutdown, JoinAll, Join, Teardown,
      ModbusClose, Destruct, Return, MainOnly
<1>3. CASE ApiStep
  BY <1>3 DEF ApiStep
<1>4. CASE PushStep
  BY <1>4 DEF PushStep, PushCheck, PushReceive, PushTimeout, PushAsk,
              PushConnect, PushPublish, PushPost, PushOnly
<1>5. CASE MqttCall \/ MqttNet \/ Finished \/ UNCHANGED vars
  BY <1>5 DEF MqttCall, MqttNet, Finished, vars, appVars
<1> QED
  BY <1>1, <1>2, <1>3, <1>4, <1>5 DEF Next

LEMMA Inductive == Spec => []IInv
<1>1. IInv /\ [Next]_vars => IInv'
  BY TypeStep, ThreadsStep, FlagsStep, SubsystemsStep, PollInvStep DEF IInv
<1> QED
  BY <1>1, IInvInit, PTL DEF Spec

-----------------------------------------------------------------------------

\* The type invariant of the process.
THEOREM TypeCorrect == Spec => []TypeOK
BY Inductive, PTL DEF IInv

\* No thread ever runs on a subsystem that shutdown() or ~App has taken down.
THEOREM NothingTornDown == Spec => []WorkersOutlived
<1>1. IInv => WorkersOutlived
  <2> SUFFICES ASSUME IInv, NEW w \in Workers, Active(w)
               PROVE  initialized
    BY DEF WorkersOutlived, IInv, SubsystemsInv, Active
  <2>1. pc["main"] \in Spawning \cup Joining \cup {"sleep", "shutdown"}
    BY DEF IInv, TypeOK, ThreadsInv, MainLabels, Creating, Spawning, Joining,
           Ending, Active
  <2>2. pc["main"] = "shutdown" => running
    BY DEF IInv, ThreadsInv, Active
  <2> QED
    BY <2>1, <2>2 DEF IInv, FlagsInv
<1> QED
  BY <1>1, Inductive, PTL

-----------------------------------------------------------------------------
\* The pipeline.

\* How the sequences of the pipeline move when a reading is taken and posted.
LEMMA Taken ==
    ASSUME NEW S, NEW P \in Seq(S), NEW Q \in Seq(S), Q # <<>>
    PROVE  P \o <<>> \o Q = P \o <<Head(Q)>> \o Tail(Q)
<1>1. Head(Q) \in S /\ Tail(Q) \in Seq(S) /\ <<Head(Q)>> \in Seq(S)
  BY HeadTailProperties
<1>2. Q = <<Head(Q)>> \o Tail(Q)
  <2>1. <<Head(Q)>> \o Tail(Q) \in Seq(S)
    BY <1>1, ConcatProperties
  <2> QED
    BY <1>1, <2>1, SeqEqual, ConcatProperties, HeadTailProperties
<1>3. P \o <<>> = P
  BY ConcatEmptySeq
<1> QED
  BY <1>1, <1>2, <1>3, ConcatAssociative

LEMMA Posted ==
    ASSUME NEW S, NEW P \in Seq(S), NEW Q \in Seq(S), NEW r \in S
    PROVE  P \o <<r>> \o Q = Append(P, r) \o <<>> \o Q
<1>1. Append(P, r) \in Seq(S)
  BY AppendProperties
<1> QED
  BY <1>1, AppendIsConcat, ConcatEmptySeq

\* All other steps leave the pipeline alone.
LEMMA PipelineFrame ==
    ASSUME IInv, [Next]_vars, ~PollSend, ~PushReceive, ~PushPost
    PROVE  UNCHANGED <<queue, sent, taken, posted, InHand>>
<1> USE DEF InHand, Goto, chanVars, Holding
<1>1. AppTypeOK /\ ThreadsInv
  BY TypeParts DEF IInv
<1> USE <1>1 DEF AppTypeOK, Threads, Workers
<1>2. CASE (MainStep /\ ~SpawnAll) \/ Sleep
  BY <1>2
  DEF MainStep, Sleep, LoadConfig, ModbusConnect, MqttNew, MqttConnect,
      ApiInit, Run, Shutdown, JoinAll, Join, Teardown, ModbusClose, Destruct,
      Return, MainOnly
<1>3. CASE SpawnAll
  BY <1>3 DEF SpawnAll, Spawn, MainOnly, ThreadsInv
<1>4. CASE ApiStep
  BY <1>4 DEF ApiStep
<1>5. CASE PollStep
  BY <1>5 DEF PollStep, PollCheck, PollSensor, PollRead, PollSleep, PollOnly
<1>6. CASE PushStep
  BY <1>6 DEF PushStep, PushCheck, PushTimeout, PushAsk, PushConnect,
              PushPublish, C!Timeout, C!chanVars
<1>7. CASE MqttCall \/ MqttNet \/ Finished \/ UNCHANGED vars
  BY <1>7 DEF MqttCall, MqttNet, Finished, vars, appVars
<1> QED
  BY <1>2, <1>3, <1>4, <1>5, <1>6, <1>7 DEF Next

LEMMA PipelineStep ==
    IInv /\ PipelineConserved /\ [Next]_vars => PipelineConserved'
<1> SUFFICES ASSUME IInv, PipelineConserved, [Next]_vars
             PROVE  PipelineConserved'
  OBVIOUS
<1>1. AppTypeOK /\ PollInv
  BY TypeParts DEF IInv
<1>2. /\ queue \in Seq(Readings)
      /\ posted \in Seq(Readings)
      /\ InHand \in Seq(Readings)
  BY <1>1 DEF AppTypeOK, C!TypeOK, InHand, Holding
<1>3. CASE PollSend
  <2>1. InHand' = InHand /\ UNCHANGED posted
    BY <1>1, <1>3 DEF PollSend, PollOnly, Goto, InHand, AppTypeOK, Threads,
                      Workers
  <2>2. CASE UNCHANGED chanVars
    BY <2>1, <2>2 DEF PipelineConserved, chanVars
  <2>3. CASE unit <= NumUnits /\ C!Send(ThisReading)
    <3>1. sensor <= NumSensors /\ cycle >= 1
      BY <1>1, <1>3 DEF PollSend, PollInv, Goto
    <3>2. ThisReading \in Readings
      BY <1>1, <2>3, <3>1, SizesAssumption
      DEF AppTypeOK, ThisReading, Readings
    <3> DEFINE A == posted \o InHand
               r == <<ThisReading>>
    <3>3. A \in Seq(Readings) /\ r \in Seq(Readings)
      BY <1>2, <3>2, ConcatProperties
    <3>4. sent \in Seq(Readings) /\ sent = A \o queue
      BY <1>1 DEF PipelineConserved, AppTypeOK, C!TypeOK
    <3>5. sent' = sent \o r /\ queue' = queue \o r
      BY <1>2, <2>3, <3>2, <3>4, AppendIsConcat DEF C!Send
    <3> HIDE DEF A, r
    <3>6. (A \o queue) \o r = A \o (queue \o r)
      BY <1>2, <3>3, ConcatAssociative
    <3>7. sent' = A \o queue'
      BY <3>4, <3>5, <3>6
    <3> QED
      BY <2>1, <3>7 DEF PipelineConserved, A
  <2> QED
    BY <1>3, <2>2, <2>3 DEF PollSend
<1>4. CASE PushReceive
  <2>1. InHand = <<>> /\ UNCHANGED posted
    BY <1>4 DEF PushReceive, Goto, InHand, Holding
  <2>2. /\ queue # <<>> /\ queue' = Tail(queue) /\ sent' = sent
        /\ pkg' = Head(queue)
    BY <1>4 DEF PushReceive, C!Receive
  <2>3. InHand' = <<Head(queue)>>
    BY <1>1, <1>4, <2>2 DEF PushReceive, Goto, InHand, Holding, AppTypeOK,
                            Threads, Workers
  <2> QED
    BY <1>2, <2>1, <2>2, <2>3, Taken DEF PipelineConserved
<1>5. CASE PushPost
  <2>1. InHand = <<pkg>> /\ pkg \in Readings
    BY <1>1, <1>5 DEF PushPost, Goto, InHand, Holding, AppTypeOK
  <2>2. InHand' = <<>>
    BY <1>1, <1>5 DEF PushPost, Goto, InHand, Holding, AppTypeOK, Threads,
                      Workers
  <2>3. posted' = Append(posted, pkg) /\ queue' = queue /\ sent' = sent
    BY <1>5 DEF PushPost, chanVars
  <2> QED
    BY <1>2, <2>1, <2>2, <2>3, Posted DEF PipelineConserved
<1> QED
  BY <1>3, <1>4, <1>5, PipelineFrame DEF PipelineConserved

\* From the poll to the API nothing is lost, duplicated or overtaken.
THEOREM Conserved == Spec => []PipelineConserved
<1>1. Init => PipelineConserved
  <2> SUFFICES ASSUME Init PROVE PipelineConserved
    OBVIOUS
  <2>1. InHand = <<>> /\ posted = <<>> /\ queue = <<>> /\ sent = <<>>
    BY DEF Init, C!Init, InHand, Holding, Threads, Workers
  <2>2. <<>> = <<>> \o <<>> \o <<>>
    BY ConcatEmptySeq, EmptySeq
  <2> QED
    BY <2>1, <2>2 DEF PipelineConserved
<1> QED
  BY <1>1, Inductive, PipelineStep, PTL DEF Spec

-----------------------------------------------------------------------------
\* The stop.

\* What is still to come after running_ is cleared depends on where the two
\* threads were: within a readAll() and its loop, and within a receive().
StopInv ==
    /\ pc["poll"] = "off" => sent = <<>>
    /\ pc["push"] = "off" => taken = <<>>
    /\ pc["main"] \in Stopping =>
          /\ Len(sent) <= atStop.sent + NumUnits
          /\ pc["poll"] = "read" => Len(sent) <= atStop.sent
          /\ pc["poll"] = "send" => Len(sent) <= atStop.sent + (unit - 1)
          /\ Len(taken) <= atStop.taken + 1
          /\ pc["push"] = "receive" => Len(taken) <= atStop.taken

LEMMA StopStep == IInv /\ StopInv /\ [Next]_vars => StopInv'
<1> SUFFICES ASSUME IInv, StopInv, [Next]_vars
             PROVE  StopInv'
  OBVIOUS
<1>1. /\ AppTypeOK /\ ThreadsInv /\ FlagsInv
      /\ Len(sent) \in Nat /\ Len(taken) \in Nat
  BY TypeParts DEF IInv, AppTypeOK, C!TypeOK
<1>2. pc["main"] \in Stopping => ~running
  BY <1>1 DEF FlagsInv, Stopping, Spawning
<1> USE <1>1, SizesAssumption
    DEF StopInv, AppTypeOK, Threads, Workers, Goto, Stopping, chanVars
<1>3. CASE Shutdown
  <2>1. UNCHANGED <<pc["poll"], pc["push"], sent, taken, unit>>
    BY <1>3 DEF Shutdown, MainOnly
  <2>2. CASE running
    <3>1. atStop'.sent = Len(sent) /\ atStop'.taken = Len(taken)
      BY <1>3, <2>2 DEF Shutdown
    <3> QED
      BY <2>1, <3>1
  <2>3. CASE ~running
    <3>1. pc["poll"] = "off" /\ pc["push"] = "off" /\ atStop' = atStop
      BY <1>3, <2>3 DEF Shutdown, ThreadsInv
    <3>2. Len(<<>>) = 0
      OBVIOUS
    <3> QED
      BY <2>1, <3>1, <3>2
  <2> QED
    BY <2>2, <2>3
<1>4. CASE SpawnAll
  BY <1>4 DEF SpawnAll, Spawn, MainOnly
<1>5. CASE (MainStep /\ ~Shutdown /\ ~SpawnAll) \/ Sleep
  <2>1. /\ UNCHANGED <<sent, taken, unit, atStop, pc["poll"], pc["push"]>>
        /\ pc'["main"] \in Stopping => pc["main"] \in Stopping
    BY <1>5
    DEF MainStep, Sleep, LoadConfig, ModbusConnect, MqttNew, MqttConnect,
        ApiInit, Run, JoinAll, Join, Teardown, ModbusClose, Destruct, Return,
        MainOnly
  <2> QED
    BY <2>1
<1>6. CASE PollSend
  <2>1. UNCHANGED <<pc["main"], pc["push"], taken, atStop>>
    BY <1>6 DEF PollSend, PollOnly, C!Send
  <2>2. CASE unit <= NumUnits /\ C!Send(ThisReading) /\ UNCHANGED pc
    <3>1. Len(sent') = Len(sent) + 1 /\ unit' = unit + 1
      BY <1>6, <2>2 DEF PollSend, C!Send, C!TypeOK
    <3> QED
      BY <1>6, <2>1, <2>2, <3>1 DEF PollSend
  <2>3. CASE Goto("poll", "send", "sensor") /\ UNCHANGED chanVars
    BY <2>1, <2>3
  <2> QED
    BY <1>6, <2>2, <2>3 DEF PollSend
<1>7. CASE PollCheck \/ PollSensor \/ PollRead \/ PollSleep
  BY <1>7, <1>2 DEF PollCheck, PollSensor, PollRead, PollSleep, PollOnly
<1>8. CASE PushReceive
  <2>1. UNCHANGED <<pc["main"], pc["poll"], unit, sent, atStop>>
    BY <1>8 DEF PushReceive, PushOnly, C!Receive
  <2>2. /\ pc["push"] = "receive" /\ pc'["push"] = "ask"
        /\ Len(taken') = Len(taken) + 1
    BY <1>8 DEF PushReceive, C!Receive, C!TypeOK
  <2> QED
    BY <2>1, <2>2
<1>9. CASE PushStep /\ ~PushReceive
  <2>1. /\ UNCHANGED <<pc["main"], pc["poll"], unit, sent, taken, atStop>>
        /\ pc'["push"] = "receive" => running
        /\ pc["push"] # "off" /\ pc'["push"] # "off"
    BY <1>9 DEF PushStep, PushCheck, PushTimeout, PushAsk, PushConnect,
                PushPublish, PushPost, PushOnly, C!Timeout, C!chanVars
  <2> QED
    BY <2>1, <1>2
<1>10. CASE ApiStep
  BY <1>10 DEF ApiStep
<1>11. CASE MqttCall \/ MqttNet \/ Finished \/ UNCHANGED vars
  BY <1>11 DEF MqttCall, MqttNet, Finished, vars, appVars
<1> QED
  BY <1>3, <1>4, <1>5, <1>6, <1>7, <1>8, <1>9, <1>10, <1>11
  DEF Next, PollStep

\* After running_ is cleared at most one readAll() is still queued and at most
\* one reading still taken.
THEOREM StopPrompt == Spec => []StopIsPrompt
<1>1. Init => StopInv
  BY DEF Init, C!Init, StopInv, Threads, Workers, Stopping
<1>2. StopInv => StopIsPrompt
  BY DEF StopInv, StopIsPrompt
<1> QED
  BY <1>1, <1>2, Inductive, StopStep, PTL DEF Spec

-----------------------------------------------------------------------------
\* Sequences and frames.

LEMMA Appended ==
    ASSUME NEW S, NEW s \in Seq(S), NEW e \in S
    PROVE  /\ Append(s, e) \in Seq(S)
           /\ DOMAIN s = 1..Len(s) /\ Len(s) \in Nat
           /\ DOMAIN Append(s, e) = DOMAIN s \cup {Len(s) + 1}
           /\ \A i \in DOMAIN s : Append(s, e)[i] = s[i] /\ s[i] \in S
           /\ Append(s, e)[Len(s) + 1] = e
OBVIOUS

LEMMA InOrderAppend ==
    ASSUME NEW s \in Seq(Readings), NEW r \in Readings, InOrder(s),
           \A i \in DOMAIN s : Before(s[i], r)
    PROVE  InOrder(Append(s, r))
<1> SUFFICES ASSUME NEW i \in DOMAIN Append(s, r),
                    NEW j \in DOMAIN Append(s, r), i < j
             PROVE  Before(Append(s, r)[i], Append(s, r)[j])
  BY DEF InOrder
<1>1. i \in DOMAIN s
  BY Appended
<1> QED
  BY <1>1, Appended DEF InOrder

\* A step that is not the poll thread's leaves its readings alone.
LEMMA PollFrame ==
    ASSUME IInv, [Next]_vars, ~PollStep
    PROVE  /\ UNCHANGED <<sent, cycle, sensor, unit>>
           /\ \/ pc'["poll"] = pc["poll"]
              \/ pc["poll"] = "off" /\ pc'["poll"] = "check"
<1>1. AppTypeOK /\ ThreadsInv
  BY TypeParts DEF IInv
<1> USE <1>1 DEF AppTypeOK, Threads, Workers, Goto, chanVars, ThreadsInv
<1>2. CASE MainStep \/ Sleep
  BY <1>2
  DEF MainStep, Sleep, LoadConfig, ModbusConnect, MqttNew, MqttConnect,
      ApiInit, Run, SpawnAll, Spawn, Shutdown, JoinAll, Join, Teardown,
      ModbusClose, Destruct, Return, MainOnly
<1>3. CASE ApiStep
  BY <1>3 DEF ApiStep
<1>4. CASE PushStep
  BY <1>4 DEF PushStep, PushCheck, PushReceive, PushTimeout, PushAsk,
              PushConnect, PushPublish, PushPost, PushOnly, C!Receive,
              C!Timeout, C!chanVars
<1>5. CASE MqttCall \/ MqttNet \/ Finished \/ UNCHANGED vars
  BY <1>5 DEF MqttCall, MqttNet, Finished, vars, appVars
<1> QED
  BY <1>2, <1>3, <1>4, <1>5 DEF Next

\* The poll thread's own step in PollSend, when it queues a reading.
LEMMA ReadingSent ==
    ASSUME IInv, PollSend, unit <= NumUnits
    PROVE  /\ ThisReading \in Readings
           /\ sent \in Seq(Readings)
           /\ sent' = Append(sent, ThisReading)
           /\ unit' = unit + 1
           /\ UNCHANGED <<pc, sensor, cycle>>
<1>1. AppTypeOK /\ PollInv
  BY TypeParts DEF IInv
<1>2. sensor <= NumSensors /\ cycle >= 1
  BY <1>1 DEF PollSend, PollInv, Goto
<1>3. ThisReading \in Readings
  BY <1>1, <1>2, SizesAssumption DEF AppTypeOK, ThisReading, Readings
<1> QED
  BY <1>1, <1>3, SizesAssumption DEF PollSend, C!Send, AppTypeOK, C!TypeOK

LEMMA BatchOver ==
    ASSUME IInv, PollSend, ~(unit <= NumUnits)
    PROVE  /\ UNCHANGED <<sent, unit, cycle>>
           /\ sensor' = sensor + 1
           /\ pc["poll"] = "send" /\ pc'["poll"] = "sensor"
<1>1. AppTypeOK
  BY TypeParts DEF IInv
<1> QED
  BY <1>1, SizesAssumption DEF PollSend, Goto, AppTypeOK, chanVars, Threads, Workers

-----------------------------------------------------------------------------
\* Batches.

\* While a batch is being queued its first readings are there, and nothing
\* but the rest of it is missing.
Begun ==
    pc["poll"] = "send" =>
        \A u \in 1..unit - 1 :
            \E j \in DOMAIN sent : sent[j] = [ThisReading EXCEPT !.unit = u]

WholeButLast ==
    \A i \in DOMAIN sent, u \in 1..NumUnits :
        \/ \E j \in DOMAIN sent : sent[j] = [sent[i] EXCEPT !.unit = u]
        \/ /\ pc["poll"] = "send"
           /\ sent[i].cycle = cycle /\ sent[i].sensor = sensor
           /\ u >= unit

BatchInv == Begun /\ WholeButLast

LEMMA BatchSend ==
    ASSUME IInv, BatchInv, PollSend, unit <= NumUnits
    PROVE  BatchInv'
<1> DEFINE s == Append(sent, ThisReading)
<1>1. /\ ThisReading \in Readings /\ sent \in Seq(Readings)
      /\ sent' = s /\ unit' = unit + 1 /\ UNCHANGED <<pc, sensor, cycle>>
  BY ReadingSent
<1>2. /\ DOMAIN s = DOMAIN sent \cup {Len(sent) + 1}
      /\ \A i \in DOMAIN sent : s[i] = sent[i] /\ sent[i] \in Readings
      /\ s[Len(sent) + 1] = ThisReading
  BY <1>1, Appended
<1>3. unit \in 1..NumUnits + 1 /\ pc["poll"] = "send"
  BY TypeParts DEF IInv, AppTypeOK, PollSend, Goto
<1> HIDE DEF s
<1>4. ASSUME NEW u \in 1..unit
      PROVE  \E j \in DOMAIN s : s[j] = [ThisReading EXCEPT !.unit = u]
  <2>1. CASE u = unit
    <3>1. ThisReading = [ThisReading EXCEPT !.unit = u]
      BY <2>1 DEF ThisReading
    <3> QED
      BY <3>1, <1>2
  <2>2. CASE u \in 1..unit - 1
    BY <2>2, <1>2, <1>3 DEF BatchInv, Begun
  <2> QED
    BY <1>3, <1>4, <2>1, <2>2, SizesAssumption
<1>5. ASSUME NEW i \in DOMAIN s, NEW u \in 1..NumUnits
      PROVE  \/ \E j \in DOMAIN s : s[j] = [s[i] EXCEPT !.unit = u]
             \/ s[i].cycle = cycle /\ s[i].sensor = sensor /\ u >= unit + 1
  <2>1. CASE s[i].cycle = cycle /\ s[i].sensor = sensor
    <3>1. s[i] \in Readings
      BY <1>1, <1>2
    <3>2. [s[i] EXCEPT !.unit = u] = [ThisReading EXCEPT !.unit = u]
      BY <2>1, <3>1 DEF ThisReading, Readings
    <3>3. u \in 1..unit \/ u >= unit + 1
      BY <1>3, SizesAssumption
    <3> QED
      BY <2>1, <3>2, <3>3, <1>4
  <2>2. CASE i \in DOMAIN sent /\ ~(sent[i].cycle = cycle /\ sent[i].sensor = sensor)
    BY <2>2, <1>2 DEF BatchInv, WholeButLast
  <2> QED
    BY <2>1, <2>2, <1>2 DEF ThisReading
<1>6. ThisReading' = [ThisReading EXCEPT !.unit = unit + 1]
  BY <1>1 DEF ThisReading
<1>7. \A u : [ThisReading' EXCEPT !.unit = u] = [ThisReading EXCEPT !.unit = u]
  BY <1>6 DEF ThisReading
<1>8. unit' - 1 = unit
  BY <1>1, <1>3, SizesAssumption
<1>9. Begun'
  BY <1>1, <1>4, <1>7, <1>8 DEF Begun
<1>10. WholeButLast'
  BY <1>1, <1>3, <1>5 DEF WholeButLast
<1> QED
  BY <1>9, <1>10 DEF BatchInv

LEMMA BatchStep == IInv /\ BatchInv /\ [Next]_vars => BatchInv'
<1> SUFFICES ASSUME IInv, BatchInv, [Next]_vars PROVE BatchInv'
  OBVIOUS
<1>1. AppTypeOK
  BY TypeParts DEF IInv
<1>2. CASE ~PollStep
  BY <1>2, PollFrame DEF BatchInv, Begun, WholeButLast, ThisReading
<1>3. CASE PollCheck \/ PollSensor \/ PollSleep
  <2>1. /\ sent' = sent
        /\ pc["poll"] # "send" /\ pc'["poll"] # "send"
    BY <1>1, <1>3 DEF PollCheck, PollSensor, PollSleep, Goto, chanVars,
                      AppTypeOK, Threads, Workers
  <2> QED
    BY <2>1 DEF BatchInv, Begun, WholeButLast
<1>4. CASE PollRead
  <2>1. /\ sent' = sent /\ pc["poll"] # "send"
        /\ pc'["poll"] = "send" => unit' = 1
    BY <1>1, <1>4 DEF PollRead, Goto, chanVars, AppTypeOK, Threads, Workers
  <2> QED
    BY <2>1 DEF BatchInv, Begun, WholeButLast
<1>5. CASE PollSend /\ unit <= NumUnits
  BY <1>5, BatchSend
<1>6. CASE PollSend /\ ~(unit <= NumUnits)
  <2>1. /\ sent' = sent /\ pc'["poll"] = "sensor"
    BY <1>6, BatchOver
  <2>2. unit > NumUnits /\ unit \in Nat
    BY <1>1, <1>6, SizesAssumption DEF AppTypeOK
  <2> QED
    BY <2>1, <2>2, SizesAssumption DEF BatchInv, Begun, WholeButLast
<1> QED
  BY <1>2, <1>3, <1>4, <1>5, <1>6 DEF PollStep

\* readAll() is all or nothing and stays so in the queue, wherever the stop
\* falls (modbusPollTask, apps/app.cpp:158-171).
THEOREM WholeBatches == Spec => []BatchesWhole
<1>1. Init => BatchInv
  BY DEF Init, C!Init, BatchInv, Begun, WholeButLast, Threads, Workers
<1>2. BatchInv => BatchesWhole
  BY DEF BatchInv, WholeButLast, BatchesWhole
<1> QED
  BY <1>1, <1>2, Inductive, BatchStep, PTL DEF Spec

-----------------------------------------------------------------------------
\* The order of the polls.

\* What is queued so far comes before what the poll thread will queue next.
SentInv ==
    /\ InOrder(sent)
    /\ \A i \in DOMAIN sent :
          /\ sent[i].cycle <= cycle
          /\ pc["poll"] \in {"sensor", "read"} /\ sent[i].cycle = cycle
                => sent[i].sensor < sensor
          /\ pc["poll"] = "send" => Before(sent[i], ThisReading)

LEMMA SentSend ==
    ASSUME IInv, SentInv, PollSend, unit <= NumUnits
    PROVE  SentInv'
<1> DEFINE s == Append(sent, ThisReading)
<1>1. /\ ThisReading \in Readings /\ sent \in Seq(Readings)
      /\ sent' = s /\ unit' = unit + 1 /\ UNCHANGED <<pc, sensor, cycle>>
  BY ReadingSent
<1>2. /\ DOMAIN s = DOMAIN sent \cup {Len(sent) + 1}
      /\ \A i \in DOMAIN sent : s[i] = sent[i] /\ sent[i] \in Readings
      /\ s[Len(sent) + 1] = ThisReading
  BY <1>1, Appended
<1>3. pc["poll"] = "send"
  BY DEF PollSend, Goto
<1>4. InOrder(s)
  BY <1>1, <1>3, InOrderAppend DEF SentInv
<1> HIDE DEF s
<1>5. unit \in Nat /\ sensor \in Nat /\ cycle \in Nat
  BY TypeParts, SizesAssumption DEF IInv, AppTypeOK
<1>6. ThisReading = [cycle |-> cycle, sensor |-> sensor, unit |-> unit]
      /\ ThisReading' = [cycle |-> cycle, sensor |-> sensor, unit |-> unit + 1]
  BY <1>1 DEF ThisReading
<1>7. ASSUME NEW i \in DOMAIN s
      PROVE  s[i].cycle <= cycle /\ Before(s[i], ThisReading')
  <2>1. CASE i \in DOMAIN sent
    <3>1. /\ s[i] = sent[i] /\ sent[i].cycle <= cycle
          /\ Before(sent[i], ThisReading) /\ sent[i] \in Readings
      BY <2>1, <1>2, <1>3 DEF SentInv
    <3> QED
      BY <3>1, <1>5, <1>6 DEF Before, Readings
  <2>2. CASE i = Len(sent) + 1
    BY <2>2, <1>2, <1>5, <1>6 DEF Before
  <2> QED
    BY <1>2, <2>1, <2>2
<1> QED
  BY <1>1, <1>3, <1>4, <1>7 DEF SentInv

LEMMA SentStep == IInv /\ SentInv /\ [Next]_vars => SentInv'
<1> SUFFICES ASSUME IInv, SentInv, [Next]_vars PROVE SentInv'
  OBVIOUS
<1>1. AppTypeOK
  BY TypeParts DEF IInv
<1>2. /\ cycle \in Nat /\ sensor \in Nat /\ unit \in Nat
      /\ \A i \in DOMAIN sent : sent[i] \in Readings
  <2>1. sent \in Seq(Readings)
    BY <1>1 DEF AppTypeOK, C!TypeOK
  <2> QED
    BY <1>1, <2>1, SizesAssumption DEF AppTypeOK
<1>3. CASE ~PollStep
  BY <1>3, PollFrame DEF SentInv, ThisReading
<1>4. CASE PollCheck
  <2>1. /\ sent' = sent /\ sensor' = 1
        /\ \/ cycle' = cycle + 1 /\ pc'["poll"] = "sensor"
           \/ cycle' = cycle /\ pc'["poll"] = "done"
    BY <1>1, <1>4 DEF PollCheck, Goto, chanVars, AppTypeOK, Threads, Workers
  <2> QED
    BY <2>1, <1>2 DEF SentInv, Readings
<1>5. CASE PollSensor \/ PollSleep
  <2>1. /\ UNCHANGED <<sent, cycle, sensor>>
        /\ pc'["poll"] # "send"
        /\ pc'["poll"] \in {"sensor", "read"} => pc["poll"] = "sensor"
    BY <1>1, <1>5 DEF PollSensor, PollSleep, Goto, chanVars, AppTypeOK,
                      Threads, Workers
  <2> QED
    BY <2>1 DEF SentInv
<1>6. CASE PollRead
  <2>1. /\ UNCHANGED <<sent, cycle>> /\ pc["poll"] = "read"
        /\ \/ pc'["poll"] = "send" /\ sensor' = sensor /\ unit' = 1
           \/ pc'["poll"] = "sensor" /\ sensor' = sensor + 1
    BY <1>1, <1>6 DEF PollRead, Goto, chanVars, AppTypeOK, Threads, Workers
  <2>2. \A i \in DOMAIN sent :
           /\ sent[i].cycle <= cycle
           /\ sent[i].cycle = cycle => sent[i].sensor < sensor
    BY <2>1 DEF SentInv
  <2>3. \A i \in DOMAIN sent :
           sent[i].cycle < cycle \/ sent[i].cycle = cycle
    BY <1>2, <2>2 DEF Readings
  <2>4. CASE pc'["poll"] = "send" /\ sensor' = sensor /\ unit' = 1
    <3>1. ThisReading'.cycle = cycle /\ ThisReading'.sensor = sensor
      BY <2>1, <2>4 DEF ThisReading
    <3>2. \A i \in DOMAIN sent : Before(sent[i], ThisReading')
      BY <3>1, <2>2, <2>3 DEF Before
    <3> QED
      BY <2>1, <2>2, <2>4, <3>2 DEF SentInv
  <2>5. CASE pc'["poll"] = "sensor" /\ sensor' = sensor + 1
    <3>1. \A i \in DOMAIN sent :
             sent[i].cycle = cycle => sent[i].sensor < sensor + 1
      BY <1>2, <2>2 DEF Readings
    <3> QED
      BY <2>1, <2>2, <2>5, <3>1 DEF SentInv
  <2> QED
    BY <2>1, <2>4, <2>5
<1>7. CASE PollSend /\ unit <= NumUnits
  BY <1>7, SentSend
<1>8. CASE PollSend /\ ~(unit <= NumUnits)
  <2>1. /\ UNCHANGED <<sent, unit, cycle>> /\ sensor' = sensor + 1
        /\ pc["poll"] = "send" /\ pc'["poll"] = "sensor"
    BY <1>8, BatchOver
  <2>2. \A i \in DOMAIN sent :
           sent[i].cycle = cycle => sent[i].sensor < sensor + 1
    BY <1>2, <2>1 DEF SentInv, Before, ThisReading, Readings
  <2> QED
    BY <2>1, <2>2 DEF SentInv
<1> QED
  BY <1>3, <1>4, <1>5, <1>6, <1>7, <1>8 DEF PollStep

-----------------------------------------------------------------------------
\* The queue hands out the readings in the order they were queued.

LEMMA Received ==
    ASSUME IInv, C!Conservation, PushReceive
    PROVE  /\ taken \in Seq(Readings) /\ Head(queue) \in Readings
           /\ taken' = Append(taken, Head(queue)) /\ pkg' = Head(queue)
           /\ UNCHANGED sent
           /\ sent = taken' \o queue'
           /\ queue' \in Seq(Readings)
<1>1. /\ taken \in Seq(Readings) /\ queue \in Seq(Readings)
  BY TypeParts DEF IInv, AppTypeOK, C!TypeOK
<1>2. /\ queue # <<>> /\ queue' = Tail(queue) /\ sent' = sent
      /\ taken' = Append(taken, Head(queue)) /\ pkg' = Head(queue)
  BY DEF PushReceive, C!Receive
<1>3. Head(queue) \in Readings /\ Tail(queue) \in Seq(Readings)
  BY <1>1, <1>2, HeadTailProperties
<1>4. taken \o <<>> = taken /\ taken' \o <<>> = taken'
  BY <1>1, <1>2, <1>3, ConcatEmptySeq, AppendProperties
<1>5. taken \o <<>> \o queue = taken \o <<Head(queue)>> \o Tail(queue)
  BY <1>1, <1>2, Taken
<1>6. taken \o <<Head(queue)>> \o Tail(queue) = taken' \o <<>> \o Tail(queue)
  BY <1>1, <1>2, <1>3, Posted
<1> QED
  BY <1>1, <1>2, <1>3, <1>4, <1>5, <1>6 DEF C!Conservation

LEMMA ChannelStep ==
    IInv /\ C!Conservation /\ [Next]_vars => C!Conservation'
<1> SUFFICES ASSUME IInv, C!Conservation, [Next]_vars
             PROVE  C!Conservation'
  OBVIOUS
<1>1. /\ taken \in Seq(Readings) /\ queue \in Seq(Readings)
  BY TypeParts DEF IInv, AppTypeOK, C!TypeOK
<1>2. CASE PollSend /\ unit <= NumUnits
  <2>1. /\ ThisReading \in Readings /\ sent' = Append(sent, ThisReading)
        /\ queue' = Append(queue, ThisReading) /\ taken' = taken
    BY <1>2, ReadingSent, SizesAssumption, TypeParts
    DEF PollSend, C!Send, IInv, AppTypeOK
  <2>2. sent = taken \o queue /\ sent \in Seq(Readings)
    BY <1>1, ConcatProperties DEF C!Conservation
  <2> DEFINE r == <<ThisReading>>
  <2>3. r \in Seq(Readings)
    BY <2>1
  <2>4. sent' = sent \o r /\ queue' = queue \o r
    BY <1>1, <2>1, <2>2, AppendIsConcat
  <2> HIDE DEF r
  <2>5. (taken \o queue) \o r = taken \o (queue \o r)
    BY <1>1, <2>3, ConcatAssociative
  <2> QED
    BY <2>1, <2>2, <2>4, <2>5 DEF C!Conservation
<1>3. CASE PushReceive
  BY <1>3, Received DEF C!Conservation
<1>4. CASE UNCHANGED <<queue, sent, taken>>
  BY <1>4 DEF C!Conservation
<1>5. PushPost => UNCHANGED <<queue, sent, taken>>
  BY DEF PushPost, chanVars
<1>6. PollSend /\ ~(unit <= NumUnits) => UNCHANGED <<queue, sent, taken>>
  BY DEF PollSend, chanVars
<1> QED
  BY <1>2, <1>3, <1>4, <1>5, <1>6, PipelineFrame

-----------------------------------------------------------------------------
\* The MQTT library.

Known == \A i \in DOMAIN handed : \E j \in DOMAIN taken : handed[i] = taken[j]

\* Until its own publication, all that was handed over comes before the
\* reading in hand.
HandedInv ==
    /\ InOrder(handed)
    /\ Known
    /\ pc["push"] \in Holding => \E j \in DOMAIN taken : taken[j] = pkg
    /\ pc["push"] \in Holding \ {"post"} =>
          \A i \in DOMAIN handed : Before(handed[i], pkg)

\* Only the push thread calls publish().
LEMMA HandedFrame ==
    ASSUME IInv, [Next]_vars, ~PushStep
    PROVE  /\ UNCHANGED <<handed, taken, pkg>>
           /\ \/ pc'["push"] = pc["push"]
              \/ pc'["push"] = "check"
<1>1. AppTypeOK
  BY TypeParts DEF IInv
<1> USE <1>1 DEF AppTypeOK, Threads, Workers, Goto, chanVars
<1>2. CASE MainStep \/ Sleep
  BY <1>2
  DEF MainStep, Sleep, LoadConfig, ModbusConnect, MqttNew, MqttConnect, ApiInit,
      Run, SpawnAll, Spawn, Shutdown, JoinAll, Join, Teardown, ModbusClose,
      Destruct, Return, MainOnly
<1>3. CASE ApiStep
  BY <1>3 DEF ApiStep
<1>4. CASE PollStep
  BY <1>4 DEF PollStep, PollCheck, PollSensor, PollRead, PollSend, PollSleep,
              PollOnly, C!Send
<1>5. CASE MqttCall \/ MqttNet \/ Finished \/ UNCHANGED vars
  BY <1>5 DEF MqttCall, MqttNet, Finished, vars, appVars
<1> QED
  BY <1>2, <1>3, <1>4, <1>5 DEF Next

\* A reading that is taken comes after all that were taken before.
LEMMA TakenInOrder ==
    ASSUME IInv, C!Conservation, InOrder(sent), PushReceive
    PROVE  \A j \in DOMAIN taken : Before(taken[j], pkg')
<1> SUFFICES ASSUME NEW j \in DOMAIN taken PROVE Before(taken[j], pkg')
  OBVIOUS
<1> DEFINE n == Len(taken) + 1
<1>1. /\ taken \in Seq(Readings) /\ Head(queue) \in Readings
      /\ taken' = Append(taken, Head(queue)) /\ pkg' = Head(queue)
      /\ sent = taken' \o queue' /\ queue' \in Seq(Readings)
  BY Received
<1>2. /\ taken' \in Seq(Readings) /\ Len(taken') = n
      /\ DOMAIN taken' = 1..n /\ j \in 1..n /\ j < n /\ n \in Nat
      /\ taken'[j] = taken[j] /\ taken'[n] = Head(queue)
  BY <1>1
<1> HIDE DEF n
<1>3. DOMAIN sent = 1..Len(taken') + Len(queue') /\ n \in DOMAIN sent
      /\ j \in DOMAIN sent
  BY <1>1, <1>2, ConcatProperties
<1>4. sent[j] = taken[j] /\ sent[n] = pkg'
  BY <1>1, <1>2, <1>3, ConcatProperties
<1> QED
  BY <1>2, <1>3, <1>4 DEF InOrder

LEMMA HandedStep ==
    IInv /\ C!Conservation /\ SentInv /\ HandedInv /\ [Next]_vars
      => HandedInv'
<1> SUFFICES ASSUME IInv, C!Conservation, SentInv, HandedInv, [Next]_vars
             PROVE  HandedInv'
  OBVIOUS
<1>1. AppTypeOK /\ handed \in Seq(Readings)
  BY TypeParts DEF IInv, AppTypeOK
<1> USE DEF HandedInv, Known, Holding
<1>2. CASE ~PushStep
  BY <1>2, HandedFrame
<1>3. CASE PushReceive
  <2>1. /\ taken' = Append(taken, Head(queue)) /\ pkg' = Head(queue)
        /\ taken \in Seq(Readings) /\ Head(queue) \in Readings
    BY <1>3, Received
  <2>2. /\ \A j \in DOMAIN taken : j \in DOMAIN taken' /\ taken'[j] = taken[j]
        /\ \E j \in DOMAIN taken' : taken'[j] = pkg'
    BY <2>1, Appended
  <2>3. \A j \in DOMAIN taken : Before(taken[j], pkg')
    BY <1>3, TakenInOrder DEF SentInv
  <2>4. handed' = handed
    BY <1>3 DEF PushReceive
  <2> QED
    BY <2>2, <2>3, <2>4
<1>4. CASE PushPublish
  <2>1. /\ pc["push"] = "publish" /\ pc'["push"] = "post"
        /\ UNCHANGED <<pkg, taken>>
        /\ handed' = Append(handed, pkg)
    BY <1>1, <1>4 DEF PushPublish, Goto, chanVars, AppTypeOK, Threads, Workers
  <2>2. pkg \in Readings
    BY <1>1, <2>1 DEF AppTypeOK
  <2>3. InOrder(handed')
    BY <1>1, <2>1, <2>2, InOrderAppend
  <2>4. Known'
    BY <1>1, <2>1, <2>2, Appended
  <2> QED
    BY <2>1, <2>3, <2>4
<1>5. CASE PushAsk \/ PushConnect
  <2>1. /\ UNCHANGED <<pkg, taken, handed>>
        /\ pc["push"] \in Holding \ {"post"}
    BY <1>5 DEF PushAsk, PushConnect, Goto, chanVars
  <2> QED
    BY <2>1
<1>6. CASE PushCheck \/ PushTimeout \/ PushPost
  <2>1. /\ UNCHANGED <<taken, handed>> /\ pc'["push"] \notin Holding
    BY <1>1, <1>6 DEF PushCheck, PushTimeout, PushPost, Goto, chanVars,
                  C!Timeout, C!chanVars, AppTypeOK, Threads, Workers
  <2> QED
    BY <2>1
<1> QED
  BY <1>2, <1>3, <1>4, <1>5, <1>6 DEF PushStep

\* Whatever the sessions do and whatever publish() returns, the code hands the
\* MQTT library each reading at most once, in the order of the polls, and no
\* other (dataPushTask, apps/app.cpp:187-210).  What the library then sends is
\* not the code's doing: with QoS 1 the broker may be given a reading again.
THEOREM HandedOver == Spec => []HandedOnceInOrder
<1>1. Init => C!Conservation /\ SentInv /\ HandedInv
  <2> SUFFICES ASSUME Init PROVE C!Conservation /\ SentInv /\ HandedInv
    OBVIOUS
  <2>1. /\ queue = <<>> /\ sent = <<>> /\ taken = <<>> /\ handed = <<>>
        /\ pc["push"] = "off"
    BY DEF Init, C!Init, Threads, Workers
  <2>2. DOMAIN <<>> = {} /\ <<>> \o <<>> = <<>>
    OBVIOUS
  <2> QED
    BY <2>1, <2>2 DEF C!Conservation, SentInv, HandedInv, Known, InOrder,
                      Holding
<1>2. SentInv /\ HandedInv => HandedOnceInOrder
  BY DEF SentInv, HandedInv, Known, HandedOnceInOrder
<1> QED
  BY <1>1, <1>2, Inductive, ChannelStep, SentStep, HandedStep, PTL DEF Spec

-----------------------------------------------------------------------------
\* How much is left of a shutdown.

\* The steps each thread has left at most once running_ is cleared, and the
\* calls into the library that a step of the App leaves to be made.
MainLeft ==
    CASE pc["main"] = "join_api"     -> 7
      [] pc["main"] = "join_poll"    -> 6
      [] pc["main"] = "join_push"    -> 5
      [] pc["main"] = "teardown"     -> 4
      [] pc["main"] = "modbus_close" -> 3
      [] pc["main"] = "destruct"     -> 2
      [] pc["main"] = "return"       -> 1
      [] OTHER                       -> 0
ApiLeft ==
    CASE pc["api"] = "sync"  -> 2
      [] pc["api"] = "check" -> 1
      [] OTHER               -> 0
PollLeft ==
    CASE pc["poll"] = "read"   -> NumUnits + 5
      [] pc["poll"] = "send"   -> NumUnits + 5 - unit
      [] pc["poll"] = "sensor" -> 3
      [] pc["poll"] = "sleep"  -> 2
      [] pc["poll"] = "check"  -> 1
      [] OTHER                 -> 0
PushLeft ==
    CASE pc["push"] = "receive"   -> 7
      [] pc["push"] = "ask"       -> 6
      [] pc["push"] = "connect"   -> 5
      [] pc["push"] = "ask_again" -> 4
      [] pc["push"] = "publish"   -> 3
      [] pc["push"] = "post"      -> 2
      [] pc["push"] = "check"     -> 1
      [] OTHER                    -> 0
CallLeft ==
    CASE call = "loop_stop"               -> 3
      [] call = "clear"                   -> 2
      [] call \in {"destroy", "loop_start"} -> 1
      [] OTHER                            -> 0

\* A step of a thread may begin a call, which takes at most three steps.
Left == 4 * (MainLeft + ApiLeft + PollLeft + PushLeft) + CallLeft

AppStep == MainStep \/ ApiStep \/ PollStep \/ PushStep \/ MqttCall

Shrinks ==
    pc["main"] \in Stopping => /\ AppStep => Left' < Left
                               /\ MqttNet => Left' = Left
Bounded ==
    pc["main"] \in Stopping => /\ Left \in 0..(4 * NumUnits + 87)
                               /\ Left = 0 <=> pc["main"] = "exit"

LeftTypes ==
    /\ MainLeft \in 0..7
    /\ ApiLeft \in 0..2
    /\ PollLeft \in 0..NumUnits + 5
    /\ PushLeft \in 0..7
    /\ CallLeft \in 0..3

LEMMA LeftRanges == (AppTypeOK => LeftTypes) /\ (AppTypeOK' => LeftTypes')
<1>1. ASSUME AppTypeOK PROVE LeftTypes
  <2>1. MainLeft \in 0..7 /\ ApiLeft \in 0..2
    BY DEF MainLeft, ApiLeft
  <2>2. PollLeft \in 0..NumUnits + 5
    <3>1. unit \in 1..NumUnits + 1 /\ NumUnits \in Nat
      BY <1>1, SizesAssumption DEF AppTypeOK
    <3> QED
      BY <3>1 DEF PollLeft
  <2>3. PushLeft \in 0..7 /\ CallLeft \in 0..3
    BY DEF PushLeft, CallLeft
  <2> QED
    BY <2>1, <2>2, <2>3 DEF LeftTypes
<1> QED
  BY <1>1, PTL

\* A step of one thread costs more than the call that it may begin.
LEMMA Costs ==
    ASSUME NEW s \in Int, NEW s1 \in Int, s1 < s,
           NEW c \in 0..3, NEW c1 \in 0..3
    PROVE  4 * s1 + c1 < 4 * s + c
OBVIOUS

LEMMA CallCosts ==
    ASSUME NEW s \in Int, NEW c \in Int, NEW c1 \in Int, c1 < c
    PROVE  4 * s + c1 < 4 * s + c
OBVIOUS

LEMMA Sums ==
    ASSUME NEW x \in Int, NEW x1 \in Int, x1 < x,
           NEW a \in Int, NEW b \in Int, NEW c \in Int
    PROVE  /\ x1 + a + b + c < x + a + b + c
           /\ a + x1 + b + c < a + x + b + c
           /\ a + b + x1 + c < a + b + x + c
           /\ a + b + c + x1 < a + b + c + x
OBVIOUS

LEMMA ThreadShrinks ==
    ASSUME AppTypeOK, AppTypeOK'
    PROVE  \/ /\ MainLeft' < MainLeft /\ ApiLeft' = ApiLeft
              /\ PollLeft' = PollLeft /\ PushLeft' = PushLeft
           \/ /\ MainLeft' = MainLeft /\ ApiLeft' < ApiLeft
              /\ PollLeft' = PollLeft /\ PushLeft' = PushLeft
           \/ /\ MainLeft' = MainLeft /\ ApiLeft' = ApiLeft
              /\ PollLeft' < PollLeft /\ PushLeft' = PushLeft
           \/ /\ MainLeft' = MainLeft /\ ApiLeft' = ApiLeft
              /\ PollLeft' = PollLeft /\ PushLeft' < PushLeft
           => Left' < Left
<1>1. MainLeft \in Int /\ ApiLeft \in Int /\ PollLeft \in Int /\ PushLeft \in Int
  BY LeftRanges, SizesAssumption DEF LeftTypes
<1>2. /\ MainLeft' \in Int /\ ApiLeft' \in Int
      /\ PollLeft' \in Int /\ PushLeft' \in Int
  BY LeftRanges, SizesAssumption DEF LeftTypes
<1>3. CallLeft \in 0..3 /\ CallLeft' \in 0..3
  BY LeftRanges DEF LeftTypes
<1> DEFINE Sum == MainLeft + ApiLeft + PollLeft + PushLeft
<1>4. Sum \in Int /\ Sum' \in Int
  BY <1>1, <1>2
<1>5. ASSUME MainLeft' < MainLeft, ApiLeft' = ApiLeft,
             PollLeft' = PollLeft, PushLeft' = PushLeft
      PROVE  MainLeft' + ApiLeft' + PollLeft' + PushLeft' < Sum
  <2>1. MainLeft' \in Int
    BY <1>2
  <2> QED
    BY <1>1, <1>5, <2>1, Sums
<1>6. ASSUME MainLeft' = MainLeft, ApiLeft' < ApiLeft,
             PollLeft' = PollLeft, PushLeft' = PushLeft
      PROVE  MainLeft' + ApiLeft' + PollLeft' + PushLeft' < Sum
  <2>1. ApiLeft' \in Int
    BY <1>2
  <2> QED
    BY <1>1, <1>6, <2>1, Sums
<1>7. ASSUME MainLeft' = MainLeft, ApiLeft' = ApiLeft,
             PollLeft' < PollLeft, PushLeft' = PushLeft
      PROVE  MainLeft' + ApiLeft' + PollLeft' + PushLeft' < Sum
  <2>1. PollLeft' \in Int
    BY <1>2
  <2> QED
    BY <1>1, <1>7, <2>1, Sums
<1>8. ASSUME MainLeft' = MainLeft, ApiLeft' = ApiLeft,
             PollLeft' = PollLeft, PushLeft' < PushLeft
      PROVE  MainLeft' + ApiLeft' + PollLeft' + PushLeft' < Sum
  <2>1. PushLeft' \in Int
    BY <1>2
  <2> QED
    BY <1>1, <1>8, <2>1, Sums
<1> HIDE DEF Sum
<1>9. Sum' < Sum => 4 * Sum' + CallLeft' < 4 * Sum + CallLeft
  BY <1>3, <1>4, Costs
<1> QED
  BY <1>5, <1>6, <1>7, <1>8, <1>9 DEF Left, Sum

\* A step of the App's own threads after the stop.
LEMMA StepsShrink ==
    ASSUME IInv, AppTypeOK', pc["main"] \in Stopping,
           MainStep \/ ApiStep \/ PollStep \/ PushStep
    PROVE  Left' < Left
<1>1. AppTypeOK /\ ~running
  BY TypeParts DEF IInv, FlagsInv, Stopping, Spawning
<1> USE <1>1 DEF AppTypeOK, Threads, Workers, Goto
<1>2. CASE MainStep
  <2>1. <<pc["main"], pc'["main"]>> \in
           {<<"join_api", "join_poll">>, <<"join_poll", "join_push">>,
            <<"join_push", "teardown">>, <<"teardown", "modbus_close">>,
            <<"teardown", "destruct">>, <<"modbus_close", "destruct">>,
            <<"destruct", "return">>, <<"return", "exit">>}
    BY <1>2
    DEF MainStep, LoadConfig, ModbusConnect, MqttNew, MqttConnect, ApiInit, Run,
        SpawnAll, Spawn, Shutdown, JoinAll, Join, Teardown, ModbusClose,
        Destruct, Return, Stopping
  <2>2. MainLeft' < MainLeft
    BY <2>1 DEF MainLeft
  <2>3. UNCHANGED <<pc["api"], pc["poll"], pc["push"], unit>>
    BY <1>2
    DEF MainStep, LoadConfig, ModbusConnect, MqttNew, MqttConnect, ApiInit, Run,
        SpawnAll, Spawn, Shutdown, JoinAll, Join, Teardown, ModbusClose,
        Destruct, Return, Stopping, MainOnly
  <2> QED
    BY <2>2, <2>3, ThreadShrinks DEF ApiLeft, PollLeft, PushLeft
<1>3. CASE ApiStep
  <2>1. /\ <<pc["api"], pc'["api"]>> \in {<<"check", "done">>, <<"sync", "check">>}
        /\ UNCHANGED <<pc["main"], pc["poll"], pc["push"], unit>>
    BY <1>3 DEF ApiStep
  <2>2. ApiLeft' < ApiLeft
    BY <2>1 DEF ApiLeft
  <2> QED
    BY <2>1, <2>2, ThreadShrinks DEF MainLeft, PollLeft, PushLeft
<1>4. CASE PollStep
  <2>1. UNCHANGED <<pc["main"], pc["api"], pc["push"]>>
    BY <1>4
    DEF PollStep, PollCheck, PollSensor, PollRead, PollSend, PollSleep, PollOnly
  <2>2. \/ <<pc["poll"], pc'["poll"]>> \in
              {<<"check", "done">>, <<"sensor", "sleep">>, <<"sleep", "check">>,
               <<"send", "sensor">>, <<"read", "sensor">>}
        \/ pc["poll"] = "read" /\ pc'["poll"] = "send" /\ unit' = 1
        \/ pc["poll"] = "send" /\ pc'["poll"] = "send" /\ unit' = unit + 1
    BY <1>4 DEF PollStep, PollCheck, PollSensor, PollRead, PollSend, PollSleep
  <2>3. NumUnits \in Nat /\ unit \in 1..NumUnits + 1
    BY SizesAssumption
  <2>4. PollLeft' < PollLeft
    <3>1. CASE <<pc["poll"], pc'["poll"]>> \in
                  {<<"check", "done">>, <<"sensor", "sleep">>,
                   <<"sleep", "check">>}
      BY <3>1 DEF PollLeft
    <3>2. CASE pc["poll"] = "send" /\ pc'["poll"] = "sensor"
      <4>1. PollLeft = NumUnits + 5 - unit /\ PollLeft' = 3
        BY <3>2 DEF PollLeft
      <4>2. \A n \in Nat : \A u \in 1..n + 1 : 3 < n + 5 - u
        OBVIOUS
      <4> QED
        BY <2>3, <4>1, <4>2
    <3>3. CASE pc["poll"] = "read"
      <4>1. PollLeft = NumUnits + 5 /\ PollLeft' \in {3, NumUnits + 5 - 1}
        BY <2>2, <3>3 DEF PollLeft
      <4>2. \A n \in Nat : 3 < n + 5 /\ n + 5 - 1 < n + 5
        OBVIOUS
      <4> QED
        BY <2>3, <4>1, <4>2
    <3>4. CASE pc["poll"] = "send" /\ pc'["poll"] = "send"
      <4>1. /\ PollLeft = NumUnits + 5 - unit
            /\ PollLeft' = NumUnits + 5 - (unit + 1)
        BY <2>2, <3>4 DEF PollLeft
      <4>2. \A n \in Nat : \A u \in 1..n + 1 : n + 5 - (u + 1) < n + 5 - u
        OBVIOUS
      <4> QED
        BY <2>3, <4>1, <4>2
    <3> QED
      BY <2>2, <3>1, <3>2, <3>3, <3>4
  <2> QED
    BY <2>1, <2>4, ThreadShrinks DEF MainLeft, ApiLeft, PushLeft
<1>5. CASE PushStep
  <2>1. /\ UNCHANGED <<pc["main"], pc["api"], pc["poll"], unit>>
        /\ <<pc["push"], pc'["push"]>> \in
              {<<"check", "done">>, <<"receive", "ask">>, <<"receive", "check">>,
               <<"ask", "connect">>, <<"ask", "ask_again">>,
               <<"connect", "ask_again">>, <<"ask_again", "publish">>,
               <<"ask_again", "post">>, <<"publish", "post">>,
               <<"post", "check">>}
    BY <1>5
    DEF PushStep, PushCheck, PushReceive, PushTimeout, PushAsk, PushConnect,
        PushPublish, PushPost, PushOnly
  <2>2. PushLeft' < PushLeft
    BY <2>1 DEF PushLeft
  <2> QED
    BY <2>1, <2>2, ThreadShrinks DEF MainLeft, ApiLeft, PollLeft
<1> QED
  BY <1>2, <1>3, <1>4, <1>5

LEMMA MqttShrinks ==
    ASSUME AppTypeOK, AppTypeOK'
    PROVE  /\ MqttCall => Left' < Left
           /\ MqttNet => Left' = Left
<1> DEFINE Sum == MainLeft + ApiLeft + PollLeft + PushLeft
<1>1. Sum \in Int
  BY LeftRanges, SizesAssumption DEF LeftTypes
<1>2. UNCHANGED appVars => UNCHANGED Sum
  BY DEF appVars, MainLeft, ApiLeft, PollLeft, PushLeft
<1>3. M!CallStep => CallLeft' < CallLeft
  BY DEF M!CallStep, M!LoopStart, M!LoopStop, M!ClearConnected, M!Destroy, CallLeft
<1>4. M!Net => UNCHANGED CallLeft
  BY DEF M!Net, M!NetConnack, M!OnConnect, M!NetDrop, M!OnDisconnect,
         M!NetRetry, CallLeft
<1>5. CallLeft \in Int /\ CallLeft' \in Int
  BY LeftRanges DEF LeftTypes
<1>6. Left = 4 * Sum + CallLeft /\ Left' = 4 * Sum' + CallLeft'
  BY DEF Left
<1> HIDE DEF Sum
<1>7. MqttCall => Left' < Left
  BY <1>1, <1>2, <1>3, <1>5, <1>6, CallCosts DEF MqttCall
<1>8. MqttNet => Left' = Left
  BY <1>2, <1>4, <1>6 DEF MqttNet
<1> QED
  BY <1>7, <1>8

\* How the subsystems end: the serial line is only open while initialize() is
\* at work or has succeeded, and main() returns when the client is gone, or
\* never was, and nobody is left to call it.
ExitInv ==
    /\ modbus = "open" => \/ initialized
                          \/ pc["main"] \in {"mqtt_new", "mqtt_connect", "api_init"}
    /\ pc["main"] = "return" => mosq \in {"unborn", "dying", "gone"}
    /\ pc["main"] = "exit" => mosq \in {"unborn", "gone"} /\ call = "idle"

LEMMA ExitStep == IInv /\ ExitInv /\ [Next]_vars => ExitInv'
<1> SUFFICES ASSUME AppTypeOK, ThreadsInv, FlagsInv, SubsystemsInv, ExitInv,
                    [Next]_vars
             PROVE  ExitInv'
  BY TypeParts DEF IInv
<1> USE DEF ExitInv
<1>1. CASE LoadConfig \/ ModbusConnect \/ ApiInit \/ Run \/ Sleep \/ Shutdown
  BY <1>1
  DEF AppTypeOK, Threads, Workers, Goto, LoadConfig, ModbusConnect, ApiInit,
      Run, Sleep, Shutdown, mqttVars
<1>2. CASE SpawnAll \/ JoinAll
  BY <1>2 DEF AppTypeOK, Threads, Workers, Goto, SpawnAll, Spawn, JoinAll, Join,
              mqttVars
<1>3. CASE MqttNew \/ MqttConnect \/ Teardown
  BY <1>3
  DEF AppTypeOK, Threads, Workers, Goto, MqttNew, MqttConnect, Teardown,
      FlagsInv, mqttVars
<1>4. CASE Destruct \/ ModbusClose \/ Return
  <2>1. CASE Destruct
    BY <2>1 DEF AppTypeOK, Threads, Workers, Goto, Destruct, M!Destructor, mqttVars
  <2>2. CASE ModbusClose
    BY <2>2 DEF AppTypeOK, Threads, Workers, Goto, ModbusClose, mqttVars
  <2>3. CASE Return
    BY <2>3 DEF AppTypeOK, Threads, Workers, Goto, Return, SubsystemsInv, mqttVars
  <2> QED
    BY <1>4, <2>1, <2>2, <2>3
<1>5. CASE PushStep
  <2>1. pc["main"] \notin Ending
    BY <1>5
    DEF ThreadsInv, Active, Workers, Goto, PushStep, PushCheck, PushReceive,
        PushTimeout, PushAsk, PushConnect, PushPublish, PushPost
  <2>2. ~MainStep /\ ~Sleep
    BY <1>5
    DEF MainStep, Sleep, PushStep, PushCheck, PushReceive, PushTimeout, PushAsk, PushConnect,
        PushPublish, PushPost, LoadConfig, ModbusConnect, MqttNew, MqttConnect,
        ApiInit, Run, SpawnAll, Spawn, Shutdown, JoinAll, Join, Teardown,
        ModbusClose, Destruct, Return, Goto, AppTypeOK, Threads, Workers
  <2> QED
    BY <2>1, <2>2, WorkerFrame DEF Ending
<1>6. CASE ApiStep
  BY <1>6 DEF ApiStep, mqttVars, AppTypeOK, Threads, Workers, Goto
<1>7. CASE PollStep
  BY <1>7 DEF PollStep, PollCheck, PollSensor, PollRead, PollSend, PollSleep,
              PollOnly, mqttVars, AppTypeOK, Threads, Workers, Goto
<1>8. CASE MqttCall
  BY <1>8 DEF MqttCall, appVars, SubsystemsInv, M!CallStep, M!LoopStart,
              M!LoopStop, M!ClearConnected, M!Destroy
<1>9. CASE MqttNet
  BY <1>9 DEF MqttNet, appVars, M!Net, M!NetConnack, M!OnConnect, M!NetDrop,
              M!OnDisconnect, M!NetRetry
<1>10. CASE Finished \/ UNCHANGED vars
  BY <1>10 DEF Finished, vars, appVars, mqttVars
<1> QED
  BY <1>1, <1>2, <1>3, <1>4, <1>5, <1>6, <1>7, <1>8, <1>9, <1>10
  DEF Next, MainStep

LEMMA LeftBounded == IInv /\ ExitInv => Bounded
<1> SUFFICES ASSUME IInv, ExitInv, pc["main"] \in Stopping
             PROVE  /\ Left \in 0..(4 * NumUnits + 87)
                    /\ Left = 0 <=> pc["main"] = "exit"
  BY DEF Bounded
<1>1. AppTypeOK
  BY TypeParts DEF IInv
<1>2. Left \in 0..(4 * NumUnits + 87)
  BY <1>1, LeftRanges, SizesAssumption DEF Left, LeftTypes
<1>3. Left = 0 <=> MainLeft = 0 /\ ApiLeft = 0 /\ PollLeft = 0 /\ PushLeft = 0
                   /\ CallLeft = 0
  BY <1>1, LeftRanges, SizesAssumption DEF Left, LeftTypes
<1>4. MainLeft = 0 <=> pc["main"] = "exit"
  BY DEF MainLeft, Stopping
<1>5. pc["main"] = "exit" => /\ ApiLeft = 0 /\ PollLeft = 0 /\ PushLeft = 0
                             /\ CallLeft = 0
  BY DEF IInv, ThreadsInv, ExitInv, Ending, Active, Workers, ApiLeft, PollLeft,
         PushLeft, CallLeft
<1> QED
  BY <1>2, <1>3, <1>4, <1>5

\* What ShutdownReturns rests on: from the moment running_ is cleared (or found
\* clear) the App's own threads have a bounded number of steps left, whatever
\* the broker, the server and the serial line do; each of their steps uses some
\* up, the network thread gives none back, and when none is left main() has
\* returned (App::shutdown, apps/app.cpp:235-264).
THEOREM ShutdownBounded == Spec => []Bounded /\ [][Shrinks]_vars
<1>1. Init => ExitInv
  BY DEF Init, M!Init, ExitInv, Threads
<1>2. IInv /\ IInv' /\ [Next]_vars => [Shrinks]_vars
  <2> SUFFICES ASSUME IInv, IInv', pc["main"] \in Stopping
               PROVE  /\ AppStep => Left' < Left
                      /\ MqttNet => Left' = Left
    BY DEF Shrinks
  <2>1. AppTypeOK /\ AppTypeOK'
    BY DEF IInv, TypeOK, AppTypeOK
  <2> QED
    BY <2>1, StepsShrink, MqttShrinks DEF AppStep
<1> QED
  BY <1>1, <1>2, Inductive, ExitStep, LeftBounded, PTL DEF Spec

-----------------------------------------------------------------------------
\* The end of the process.

\* What holds of the client by itself holds of it under the App's threads:
\* once disconnect() is over, no callback runs and isConnected() is false, and
\* no callback outlives the object (MosquittoClient::disconnect and
\* ~MosquittoClient, called by App::shutdown and ~App).
THEOREM ClientKept ==
    Spec => [](M!QuietAfterDisconnect /\ M!NoCallbackAfterDestroy)
<1>1. Init => Client!IInv
  BY SameState, Client!IInvInit DEF Init
<1>2. IInv /\ Client!IInv /\ [Next]_vars => Client!IInv'
  BY TypeParts, ClientStep, Client!TypeStep,
     Client!CallInvStep DEF IInv, Client!IInv
<1>3. Client!IInv => M!QuietAfterDisconnect /\ M!NoCallbackAfterDestroy
  BY SameState
  DEF Client!IInv, Client!TypeOK, Client!CallInv, Client!QuietAfterDisconnect,
      Client!NoCallbackAfterDestroy
<1> QED
  BY <1>1, <1>2, <1>3, Inductive, PTL DEF Spec

\* When main() returns nothing is left running or open, on every path: no
\* thread of the App, no network thread or callback, no call in progress, and
\* the serial line is closed, or never was opened (App::initialize,
\* App::shutdown and ~App, apps/app.cpp).
ExitClean ==
    pc["main"] = "exit" =>
        /\ \A w \in Workers : pc[w] \in {"off", "done"}
        /\ modbus # "open"
        /\ mosq \in {"unborn", "gone"} /\ call = "idle"
        /\ net = "none" /\ ~connected

THEOREM CleanExit == Spec => []ExitClean
<1>1. Init => Client!IInv /\ ExitInv
  BY SameState, Client!IInvInit
  DEF Init, M!Init, ExitInv, Threads
<1>2. IInv /\ Client!IInv /\ [Next]_vars => Client!IInv'
  BY TypeParts, ClientStep, Client!TypeStep,
     Client!CallInvStep DEF IInv, Client!IInv
<1>3. IInv /\ Client!IInv /\ ExitInv => ExitClean
  BY DEF IInv, ThreadsInv, FlagsInv, Active, Ending, Client!IInv, Client!CallInv,
         ExitInv, ExitClean
<1> QED
  BY <1>1, <1>2, <1>3, Inductive, ExitStep, PTL DEF Spec

=============================================================================
