-------------------------------- MODULE App --------------------------------
(***************************************************************************)
(* iot::App (apps/app.cpp) under main() (apps/main.cpp): the main thread   *)
(* initialises the subsystems, starts three threads, sleeps, and shuts     *)
(* down; the poll thread reads the sensors into sensorDataQueue_, the push *)
(* thread hands each reading to MQTT and to the HTTP API, the API thread   *)
(* only talks to the server.  The queue is the Channel that ThreadQueue    *)
(* implements; the MQTT client, with its network thread, is the            *)
(* MosquittoClient.  One action per step other threads can interleave with.*)
(***************************************************************************)
EXTENDS Naturals, Sequences

CONSTANTS
    NumSensors,         \* sensors_.size() once initialised (2 in the code)
    NumUnits,           \* readings of one readAll() (temperature, humidity)
    MaxCycles,          \* bound: polling cycles begun
    None                \* no reading in pkg

ASSUME SizesAssumption ==
    /\ NumSensors \in Nat
    /\ NumUnits \in Nat
    /\ MaxCycles \in Nat

\* A reading is known by the poll that made it; its value does not matter.
Readings == [cycle : 1..MaxCycles, sensor : 1..NumSensors, unit : 1..NumUnits]

ASSUME NoneAssumption == None \notin Readings

VARIABLES
    initialized, running,      \* initialized_, running_
    modbus,                    \* modbus_: "none", "open", "closed"
    pc,                        \* where main and each worker is
    cycle, sensor, unit,       \* poll: cycles begun, and its loop counters
    pkg,                       \* push: the reading being pushed
    handed,                    \* history: readings given to mosquitto_publish
    posted,                    \* history: readings given to sendSensorData()
    atStop                     \* history: items sent and taken at the stop

appVars == <<initialized, running, modbus, pc, cycle, sensor, unit, pkg,
             handed, posted, atStop>>

VARIABLES queue, sent, taken                                  \* the Channel
VARIABLES mosq, call, connected, loopRunning, link, net       \* the client

chanVars == <<queue, sent, taken>>
mqttVars == <<mosq, call, connected, loopRunning, link, net>>

C == INSTANCE Channel WITH Items <- Readings
M == INSTANCE MosquittoClient

vars == <<appVars, chanVars, mqttVars>>

Workers == {"api", "poll", "push"}
Threads == Workers \cup {"main"}

Init ==
    /\ C!Init
    /\ M!Init
    /\ initialized = FALSE
    /\ running = FALSE
    /\ modbus = "none"
    /\ pc = [t \in Threads |-> IF t = "main" THEN "config" ELSE "off"]
    /\ cycle = 0
    /\ sensor = 1
    /\ unit = 1
    /\ pkg = None
    /\ handed = <<>>
    /\ posted = <<>>
    /\ atStop = [sent |-> 0, taken |-> 0]

Goto(t, from, to) == pc[t] = from /\ pc' = [pc EXCEPT ![t] = to]

\* What the steps of one thread leave alone.
MainOnly == UNCHANGED <<cycle, sensor, unit, pkg, handed, posted, chanVars>>
PollOnly == UNCHANGED <<initialized, running, modbus, pkg, handed, posted,
                        atStop, mqttVars>>
PushOnly == UNCHANGED <<initialized, running, modbus, cycle, sensor, unit,
                        atStop>>

-----------------------------------------------------------------------------
\* main(): App::initialize

\* The config file is read, or missing, or not valid.
LoadConfig ==
    /\ Goto("main", "config", "modbus") \/ Goto("main", "config", "shutdown")
    /\ MainOnly
    /\ UNCHANGED <<initialized, running, modbus, atStop, mqttVars>>

\* The serial line opens and the sensors are registered, or it does not.
ModbusConnect ==
    /\ \/ Goto("main", "modbus", "mqtt_new") /\ modbus' = "open"
       \/ Goto("main", "modbus", "shutdown") /\ modbus' = "closed"
    /\ MainOnly
    /\ UNCHANGED <<initialized, running, atStop, mqttVars>>

MqttNew ==
    /\ Goto("main", "mqtt_new", "mqtt_connect")
    /\ \E ok \in BOOLEAN : M!Construct(ok)
    /\ MainOnly
    /\ UNCHANGED <<initialized, running, modbus, atStop>>

\* Without a broker initialisation goes on all the same.
MqttConnect ==
    /\ Goto("main", "mqtt_connect", "api_init")
    /\ \E ok \in BOOLEAN : M!Connect(ok)
    /\ MainOnly
    /\ UNCHANGED <<initialized, running, modbus, atStop>>

\* The licence request, whatever its result, completes initialize().
ApiInit ==
    /\ call = "idle"
    /\ Goto("main", "api_init", "run")
    /\ initialized' = TRUE
    /\ MainOnly
    /\ UNCHANGED <<running, modbus, atStop, mqttVars>>

-----------------------------------------------------------------------------
\* main(): App::run, the sleep of main, App::shutdown and ~App

Run ==
    /\ initialized
    /\ Goto("main", "run", "spawn_api")
    /\ running' = TRUE
    /\ MainOnly
    /\ UNCHANGED <<initialized, modbus, atStop, mqttVars>>

Spawn(w, from, to) ==
    /\ pc["main"] = from
    /\ pc' = [pc EXCEPT !["main"] = to, ![w] = "check"]
    /\ MainOnly
    /\ UNCHANGED <<initialized, running, modbus, atStop, mqttVars>>

SpawnAll ==
    \/ Spawn("api", "spawn_api", "spawn_poll")
    \/ Spawn("poll", "spawn_poll", "spawn_push")
    \/ Spawn("push", "spawn_push", "sleep")

Sleep ==
    /\ Goto("main", "sleep", "shutdown")
    /\ MainOnly
    /\ UNCHANGED <<initialized, running, modbus, atStop, mqttVars>>

\* shutdown(): threads are only there to be joined when running_ is set.
Shutdown ==
    /\ \/ /\ running
          /\ Goto("main", "shutdown", "join_api")
          /\ atStop' = [sent |-> Len(sent), taken |-> Len(taken)]
       \/ ~running /\ Goto("main", "shutdown", "teardown") /\ UNCHANGED atStop
    /\ running' = FALSE
    /\ MainOnly
    /\ UNCHANGED <<initialized, modbus, mqttVars>>

Join(w, from, to) ==
    /\ pc[w] = "done"
    /\ Goto("main", from, to)
    /\ MainOnly
    /\ UNCHANGED <<initialized, running, modbus, atStop, mqttVars>>

\* Mutant: the push thread is not waited for.
JoinTwo ==
    \/ Join("api", "join_api", "join_poll")
    \/ Join("poll", "join_poll", "teardown")

JoinAll ==
    \/ Join("api", "join_api", "join_poll")
    \/ Join("poll", "join_poll", "join_push")
    \/ Join("push", "join_push", "teardown")

\* mqtt_->disconnect(), of an initialised App.
Teardown ==
    /\ \/ /\ initialized
          /\ Goto("main", "teardown", "modbus_close")
          /\ M!Disconnect
       \/ ~initialized /\ Goto("main", "teardown", "destruct")
                       /\ UNCHANGED mqttVars
    /\ MainOnly
    /\ UNCHANGED <<initialized, running, modbus, atStop>>

ModbusClose ==
    /\ call = "idle"
    /\ Goto("main", "modbus_close", "destruct")
    /\ modbus' = "closed"
    /\ initialized' = FALSE
    /\ MainOnly
    /\ UNCHANGED <<running, atStop, mqttVars>>

\* ~App: its shutdown() finds nothing to do; then mqtt_, if any, is destroyed.
Destruct ==
    /\ \/ M!Destructor
       \/ mosq = "unborn" /\ UNCHANGED mqttVars
    /\ Goto("main", "destruct", "return")
    /\ MainOnly
    /\ UNCHANGED <<initialized, running, modbus, atStop>>

Return ==
    /\ call = "idle"
    /\ Goto("main", "return", "exit")
    /\ MainOnly
    /\ UNCHANGED <<initialized, running, modbus, atStop, mqttVars>>

\* What main does but for the sleep, whose length is nobody's business.
MainStep ==
    \/ LoadConfig \/ ModbusConnect \/ MqttNew \/ MqttConnect \/ ApiInit
    \/ Run \/ SpawnAll \/ Shutdown \/ JoinAll
    \/ Teardown \/ ModbusClose \/ Destruct \/ Return

-----------------------------------------------------------------------------
\* apiSyncTask(): three requests (ServerSync has them one by one), and a sleep
\* that looks at running_

ApiStep ==
    /\ \/ running /\ Goto("api", "check", "sync")
       \/ ~running /\ Goto("api", "check", "done")
       \/ Goto("api", "sync", "check")
    /\ UNCHANGED <<initialized, running, modbus, cycle, sensor, unit, pkg,
                   handed, posted, atStop, chanVars, mqttVars>>

-----------------------------------------------------------------------------
\* modbusPollTask()

PollCheck ==
    /\ \/ /\ running
          /\ cycle < MaxCycles
          /\ cycle' = cycle + 1
          /\ Goto("poll", "check", "sensor")
       \/ ~running /\ Goto("poll", "check", "done") /\ UNCHANGED cycle
    /\ sensor' = 1
    /\ UNCHANGED <<unit, chanVars>>
    /\ PollOnly

\* Mutant: running_ is only looked at between cycles.
PollSensorUnchecked ==
    /\ \/ sensor > NumSensors /\ Goto("poll", "sensor", "sleep")
       \/ sensor <= NumSensors /\ Goto("poll", "sensor", "read")
    /\ UNCHANGED <<cycle, sensor, unit, chanVars>>
    /\ PollOnly

PollSensor ==
    /\ \/ (sensor > NumSensors \/ ~running) /\ Goto("poll", "sensor", "sleep")
       \/ sensor <= NumSensors /\ running /\ Goto("poll", "sensor", "read")
    /\ UNCHANGED <<cycle, sensor, unit, chanVars>>
    /\ PollOnly

\* readAll(): the one batch transaction yields all the readings or none.
PollRead ==
    /\ \/ /\ modbus = "open"
          /\ Goto("poll", "read", "send")
          /\ unit' = 1
          /\ UNCHANGED sensor
       \/ /\ Goto("poll", "read", "sensor")
          /\ sensor' = sensor + 1
          /\ UNCHANGED unit
    /\ UNCHANGED <<cycle, chanVars>>
    /\ PollOnly

ThisReading == [cycle |-> cycle, sensor |-> sensor, unit |-> unit]

\* Mutant: a stop also ends the loop that queues one sensor's readings.
PollSendStopping ==
    /\ \/ /\ running
          /\ unit <= NumUnits
          /\ C!Send(ThisReading)
          /\ unit' = unit + 1
          /\ pc["poll"] = "send"
          /\ UNCHANGED <<pc, sensor>>
       \/ /\ unit > NumUnits \/ ~running
          /\ Goto("poll", "send", "sensor")
          /\ sensor' = sensor + 1
          /\ UNCHANGED <<unit, chanVars>>
    /\ UNCHANGED cycle
    /\ PollOnly

\* Each reading is queued; running_ is not looked at in between.
PollSend ==
    /\ \/ /\ unit <= NumUnits
          /\ C!Send(ThisReading)
          /\ unit' = unit + 1
          /\ pc["poll"] = "send"
          /\ UNCHANGED <<pc, sensor>>
       \/ /\ unit > NumUnits
          /\ Goto("poll", "send", "sensor")
          /\ sensor' = sensor + 1
          /\ UNCHANGED <<unit, chanVars>>
    /\ UNCHANGED cycle
    /\ PollOnly

PollSleep ==
    /\ Goto("poll", "sleep", "check")
    /\ UNCHANGED <<cycle, sensor, unit, chanVars>>
    /\ PollOnly

PollStep == PollCheck \/ PollSensor \/ PollRead \/ PollSend \/ PollSleep

-----------------------------------------------------------------------------
\* dataPushTask()

PushCheck ==
    /\ \/ running /\ Goto("push", "check", "receive")
       \/ ~running /\ Goto("push", "check", "done")
    /\ UNCHANGED <<pkg, handed, posted, chanVars, mqttVars>>
    /\ PushOnly

\* Mutant: a reading that arrives with the stop is taken and dropped.
PushReceiveDropping ==
    /\ \E r \in Readings :
          /\ C!Receive(r)
          /\ \/ running /\ Goto("push", "receive", "ask") /\ pkg' = r
             \/ ~running /\ Goto("push", "receive", "check") /\ UNCHANGED pkg
    /\ UNCHANGED <<handed, posted, mqttVars>>
    /\ PushOnly

PushReceive ==
    /\ \E r \in Readings : C!Receive(r) /\ pkg' = r
    /\ Goto("push", "receive", "ask")
    /\ UNCHANGED <<handed, posted, mqttVars>>
    /\ PushOnly

\* Mutant: receive() without its timeout.
PushTimeoutNever == FALSE

\* Mutant: the result of receive() is not looked at.
PushTimeoutIgnored ==
    /\ C!Timeout
    /\ Goto("push", "receive", "ask")
    /\ UNCHANGED <<pkg, handed, posted, mqttVars>>
    /\ PushOnly

\* receive() returns false after 100 ms with nothing to take.
PushTimeout ==
    /\ C!Timeout
    /\ Goto("push", "receive", "check")
    /\ UNCHANGED <<pkg, handed, posted, mqttVars>>
    /\ PushOnly

\* isConnected(), before a reconnect and again before the publication: the
\* session may come or go in between, or be announced only later.
PushAsk ==
    /\ \/ ~connected /\ Goto("push", "ask", "connect")
       \/ connected /\ Goto("push", "ask", "ask_again")
       \/ call = "idle" /\ connected /\ Goto("push", "ask_again", "publish")
       \/ call = "idle" /\ ~connected /\ Goto("push", "ask_again", "post")
    /\ UNCHANGED <<pkg, handed, posted, chanVars, mqttVars>>
    /\ PushOnly

PushConnect ==
    /\ Goto("push", "connect", "ask_again")
    /\ \E ok \in BOOLEAN : M!Connect(ok)
    /\ UNCHANGED <<pkg, handed, posted, chanVars>>
    /\ PushOnly

\* publish(), once; its result is not looked at.  The flag has been up, so
\* there is a handle, and the library is given the reading; what it then does
\* with it, and how often, is in MqttDelivery.
PushPublish ==
    /\ Goto("push", "publish", "post")
    /\ handed' = Append(handed, pkg)
    /\ UNCHANGED <<pkg, posted, chanVars, mqttVars>>
    /\ PushOnly

\* Mutant: a reading the server did not accept is pushed once more.
PushPostRetrying ==
    /\ \/ Goto("push", "post", "check") /\ posted' = Append(posted, pkg)
                                        /\ pkg' = None
       \/ Goto("push", "post", "ask") /\ UNCHANGED <<posted, pkg>>
    /\ UNCHANGED <<handed, chanVars, mqttVars>>
    /\ PushOnly

\* sendSensorData(), once, whatever the server answers.
PushPost ==
    /\ Goto("push", "post", "check")
    /\ posted' = Append(posted, pkg)
    /\ pkg' = None
    /\ UNCHANGED <<handed, chanVars, mqttVars>>
    /\ PushOnly

PushStep ==
    \/ PushCheck \/ PushReceive \/ PushTimeout \/ PushAsk \/ PushConnect
    \/ PushPublish \/ PushPost

-----------------------------------------------------------------------------
\* The rest of an MQTT call that a thread of the App has begun, and the
\* network thread of the client.
MqttCall == M!CallStep /\ UNCHANGED <<appVars, chanVars>>
MqttNet  == M!Net /\ UNCHANGED <<appVars, chanVars>>

\* main() has returned.
Finished == pc["main"] = "exit" /\ UNCHANGED vars

Next ==
    \/ MainStep \/ Sleep \/ ApiStep \/ PollStep \/ PushStep
    \/ MqttCall \/ MqttNet
    \/ Finished

\* Every thread keeps running: requests, serial transactions, receive() and
\* the sleeps of the workers end by their timeouts.  Nothing is assumed of
\* the end of main's sleep, of the broker or of the network thread.
Fairness ==
    /\ WF_vars(MainStep)
    /\ WF_vars(ApiStep)
    /\ WF_vars(PollStep)
    /\ WF_vars(PushStep)
    /\ WF_vars(MqttCall)

Spec == Init /\ [][Next]_vars /\ Fairness

-----------------------------------------------------------------------------
\* Properties

MainLabels == {"config", "modbus", "mqtt_new", "mqtt_connect", "api_init",
               "run", "spawn_api", "spawn_poll", "spawn_push", "sleep",
               "shutdown", "join_api", "join_poll", "join_push", "teardown",
               "modbus_close", "destruct", "return", "exit"}
ApiLabels  == {"off", "check", "sync", "done"}
PollLabels == {"off", "check", "sensor", "read", "send", "sleep", "done"}
Holding    == {"ask", "connect", "ask_again", "publish", "post"}
PushLabels == {"off", "check", "receive", "done"} \cup Holding
Labels     == MainLabels \cup ApiLabels \cup PollLabels \cup PushLabels

\* The types of the variables; pkg holds a reading on its way to the servers.
TypeOK ==
    /\ initialized \in BOOLEAN
    /\ running \in BOOLEAN
    /\ modbus \in {"none", "open", "closed"}
    /\ pc \in [Threads -> Labels]
    /\ pc["main"] \in MainLabels
    /\ pc["api"] \in ApiLabels
    /\ pc["poll"] \in PollLabels
    /\ pc["push"] \in PushLabels
    /\ cycle \in 0..MaxCycles
    /\ sensor \in 1..NumSensors + 1
    /\ unit \in 1..NumUnits + 1
    /\ pkg \in Readings \cup {None}
    /\ (pkg # None) <=> (pc["push"] \in Holding)
    /\ handed \in Seq(Readings)
    /\ posted \in Seq(Readings)
    /\ atStop \in [sent : Nat, taken : Nat]
    /\ C!TypeOK
    /\ M!TypeOK

InHand == IF pc["push"] \in Holding THEN <<pkg>> ELSE <<>>

\* Between the poll and the API no reading is lost, duplicated or overtaken:
\* the ones queued so far are the ones posted, the one in the push thread's
\* hands and the ones still queued, in this order.
PipelineConserved == sent = posted \o InHand \o queue

Before(r, s) ==
    \/ r.cycle < s.cycle
    \/ r.cycle = s.cycle /\ r.sensor < s.sensor
    \/ r.cycle = s.cycle /\ r.sensor = s.sensor /\ r.unit < s.unit

InOrder(s) == \A i, j \in DOMAIN s : i < j => Before(s[i], s[j])

\* The MQTT library is given every reading at most once and in the order of
\* the polls, although sessions come and go and publish() may fail, and it is
\* given nothing that was not taken from the queue: the code tries no reading
\* again.  (The library may: with QoS 1 it repeats a message to the broker.)
HandedOnceInOrder ==
    /\ InOrder(sent)
    /\ InOrder(handed)
    /\ \A i \in DOMAIN handed :
          \E j \in DOMAIN taken : handed[i] = taken[j]

\* readAll() is all or nothing, and stays so in the queue: unless the poll
\* thread is about to queue the rest, a reading never goes without the others
\* of its batch, also when the stop falls into the loop that queues them.
BatchesWhole ==
    pc["poll"] # "send" =>
        \A i \in DOMAIN sent, u \in 1..NumUnits :
            \E j \in DOMAIN sent : sent[j] = [sent[i] EXCEPT !.unit = u]

\* While a thread runs, all that it uses is there: shutdown() joins the three
\* threads before it disconnects, and only then is anything destroyed.
WorkersOutlived ==
    \A w \in Workers : pc[w] \notin {"off", "done"} =>
        initialized /\ modbus = "open" /\ mosq \in {"live", "null"}

Stopping == {"join_api", "join_poll", "join_push", "teardown",
             "modbus_close", "destruct", "return", "exit"}

\* Once running_ is cleared, the threads finish what they hold and no more:
\* at most one readAll() is still queued and one reading still taken.
StopIsPrompt ==
    pc["main"] \in Stopping =>
        /\ Len(sent) <= atStop.sent + NumUnits
        /\ Len(taken) <= atStop.taken + 1

\* shutdown() joins threads that block; it returns all the same, and the
\* process ends.
ShutdownReturns == pc["main"] = "shutdown" ~> pc["main"] = "exit"

\* A reading that is queued reaches the API, unless the App is stopped: with
\* the broker down, refusing or flapping as well.
QueuedIsPosted ==
    \A n \in 1..(MaxCycles * NumSensors * NumUnits) :
        Len(sent) >= n ~> Len(posted) >= n \/ ~running

=============================================================================
