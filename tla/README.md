# Verification of the IoT warehouse gateway

The program is a gateway process. It reads temperature and humidity sensors
over a serial Modbus line and passes each reading on twice, to an MQTT broker
and to an HTTP API. This directory holds TLA+ models of it, the TLC runs that
check the models on small instances, and TLAPS proofs of what holds for every
value of the constants. `PROJECT.json` maps every definition to the lines it
models, lists the runs, and lists the hazards of the code with the properties
that watch them.

## 1. The system

### Components

| Component | State it keeps | Operations | Where |
|---|---|---|---|
| `App` and `main()` | `initialized_`, `running_`, three threads, the subsystems | initialize, run, three thread bodies, shutdown, destructor | `apps/` |
| `ThreadQueue<T>` | `queue_`, `mutex_`, `cond_` | send, receive, size, empty, clear | `include/utils/thread_queue.h` |
| `MosquittoClient` | `mosq_`, `connected_`, `loop_running_` | connect, disconnect, publish, subscribe, loop, setters, three callbacks | `src/protocols/mqtt/mosquitto_client.cpp` |
| `HiveMqttClient` | `mosq_`, `connected_` | the same interface | `src/protocols/mqtt/hive_mqtt_client.cpp` |
| `ModbusRTU` | `ctx_`, `connected_`, the timeout, `mtx_` | connect, disconnect, setTimeout, eight reads and writes, sendRawPacket | `src/protocols/modbus/modbus_rtu.cpp` |
| `SHT35` / `ISensor` | the configuration | initialize, readAll, read | `src/sensors/SHT35.cpp` |
| `CRC16` | none | calculate, append, verify | `include/utils/crc16.h` |
| HTTP client, API services | base URL, token; a handle and a header list per request | get, post, put, del, and one method per endpoint | `src/protocols/http/` |
| `Logger` | the enabled levels, one mutex | log, setLevelEnabled | `include/utils/logger.h` |
| `Terminal`, `DateTimeUtils`, helpers | none | shell commands, formatting, sleeps | `include/utils/` |

The repository has no tests and no document beside its code; what the
interfaces promise is in the comments of the headers.

### How they interact

`main()` owns one `App`. `initialize()` reads the config file, opens the serial
line, registers the sensors, creates the MQTT client, makes its first
connection attempt and one HTTP request. `run()` starts three threads:

* the *API thread* makes three HTTP requests every 15 seconds and keeps none of
  their results;
* the *poll thread* calls `readAll()` on each sensor every two seconds and
  sends every reading to `sensorDataQueue_`;
* the *push thread* receives one reading at a time (with a timeout of 100 ms),
  reconnects the MQTT client if it is not connected, publishes if it then is,
  and posts the reading to the API.

The MQTT library adds a *network thread*, which runs the callbacks that set
`connected_`. `shutdown()` clears `running_`, joins the three threads, then
disconnects MQTT and Modbus; the destructor calls it once more.

What is shared: `running_` (an atomic, written by the main thread), the queue
(poll and push), the MQTT client (push thread, then main thread, and always its
network thread), `ModbusRTU` (poll thread, then main thread), the API service
(API and push thread, which only read it), and the `Logger` (all of them).

### What is hard about it

* Blocking and waking: `receive()` with its predicate, its timeout, and
  receivers that take what another was woken for.
* Asynchronous MQTT: `connect()` returns before the broker has answered, the
  library reconnects by itself, callbacks run late, messages are sent later,
  again, or never, and `mosquitto_loop_stop(force)` cancels the network thread
  at any point.
* Shutdown: a stop may come at any step of four other threads, each of which
  may be blocked, and only when they have ended may the subsystems go.
* Partial failure: a sensor that does not answer, a broker that is away, an API
  that refuses, an initialisation that stops halfway.
* Requests that outlive their callers: the HTTP timeout ends the wait, not the
  request, and no request is ever repeated.
* Boundaries: an unbounded queue, 16-bit register ranges, the bit order of a
  checksum, and who appends it.

### What makes each component correct

* `ThreadQueue`: an atomic FIFO channel; no item waits while a receiver sleeps;
  a false return means an empty queue; a receive ends.
* `MosquittoClient`: after `disconnect()` nothing runs and the flag is down; no
  callback outlives the object; the flag comes to agree with the session.
* `App`: no reading is lost, repeated or overtaken on its way to the API; the
  MQTT library is handed the readings in order and each at most once; a stop is
  prompt and orderly, and it ends.
* `ModbusRTU`: a request reaches the slave it was made for; no use of a context
  that was freed; `isConnected()` tells the truth.
* `SHT35`: one transaction covers all registers, in range; every register is
  decoded to its unit.
* `CRC16`: the checksum is the one of the Modbus documents: `append` makes a valid
  frame, and `verify` accepts the valid frames and no others, so nothing in
  which the line has inverted a few bits close together.
* HTTP client and services: a call is seen at most once, with its own method,
  and returns its own answer or status 0; whatever becomes of it, its handle and
  its headers are given back.
* `Logger`: a line is written whole; a reading the server did not accept
  has a warning, if warnings are enabled.

## 2. The modules

| Module | Models | Built from |
|---|---|---|
| `Channel` | what a `ThreadQueue` promises: an atomic, unbounded FIFO | - |
| `ThreadQueue` | `thread_queue.h`: the mutex, the condition variable, the deadline | refines `Channel` |
| `ThreadQueueProofs` | its theorems | `ThreadQueue` |
| `MosquittoClient` | the client, with the network thread and the library it relies on | - |
| `MosquittoClientProofs` | its theorems | `MosquittoClient` |
| `MqttDelivery` | `publish`, and the library's list of messages | extends `MosquittoClient` |
| `HiveMqttClient` | the other client | an instance of `MosquittoClient` for what they share |
| `HiveMqttClientProofs` | its theorems | `HiveMqttClient` |
| `CRC16` | `crc16.h`, and the division it stands for | - |
| `CRC16Proofs` | its theorems | `CRC16` |
| `SerialMaster` | what a `ModbusRTU` promises to those who share it | - |
| `ModbusRTU` | the serial master, its lock, and raw packets on a disturbed line | an instance of `CRC16`; refines `SerialMaster` |
| `ModbusRTUProofs` | its theorems | `ModbusRTU`, an instance of `CRC16Proofs` |
| `SHT35` | the register range and the decoding | - |
| `SHT35Proofs` | its theorems | `SHT35` |
| `App` | the process: main and its threads | instances of `Channel` and `MosquittoClient` |
| `AppProofs` | its theorems | `App`, an instance of `MosquittoClientProofs` |
| `RemoteCall` | what the callers of the HTTP services rely on | - |
| `WarehouseApi` | the HTTP client and the two services on it | refines `RemoteCall` |
| `Logger` | the logger | - |
| `ServerSync` | the App's requests and the reports on them | instances of `WarehouseApi` and `Logger` |
| `ServerSyncProofs` | its theorems | `ServerSync` |
| `MC...` | instances for TLC | one each |

### ThreadQueue

A call is a walk through labels: `send` is `idle`, `push`, `notify`, `unlock`;
`receive` is `idle`, `check`, then either `unlock` or `wait`, `relock`,
`recheck` as often as needed. `mutex` is the thread that holds `mutex_`;
`waiters` is the set of threads blocked on `cond_`. Blocking and letting the
lock go are one step (`RecvWait`), as the standard has it; waking (`Wake`), a
notification (`SendNotify`) and the end of the deadline (`Deadline`) are steps of
their own, so that a receiver can be notified, spuriously woken or timed out at
any point relative to what the other threads do. A woken receiver looks at the
clock when it has the lock again: `RecvTimeout` needs an expired deadline *and*
an empty queue, which is `wait_for` with a predicate. `size()` and
`empty()` change nothing and have no action.

`sent` and `taken` are histories. `clear()` discards what was sent and not
taken, so it sets `sent` back to `taken`.

### MosquittoClient

The caller makes one call at a time (`Ready`), which is how the App uses the
client; `call` names the library call that comes next, so that the network
thread can step between any two of them: `mosquitto_connect` and
`mosquitto_loop_start` in `connect()`; `mosquitto_disconnect`,
`mosquitto_loop_stop` and the assignment to `connected_` in `disconnect()`. The
constructor may fail to get a handle.

The library is external. It is modelled by what the client relies on: `link` is
the session as the library sees it (`closed` means nobody wants one, `down`
that the library will retry, `pending` that CONNECT was sent, `up`, and
`closing` while the network thread carries out a disconnect); `net` is the
network thread with the callback it is about to run. Between the library's
bookkeeping and the callback the thread can be cancelled, and the caller can
start a new session. A fatal error ends the network thread while
`loop_running_` stays set, as the code has it.

A subscriber's messages come to the network thread (`NetMessage`,
`OnMessage`), which makes the caller's callback. `subscribe()` itself only hands
the topic to the library, so a message is possible in every session. `Net` is
the network thread without subscriptions: `App` uses it, as it subscribes to
nothing. `publish()` changes nothing in the client, and so nothing in this
module.

### MqttDelivery

`publish()` with QoS 1, as the App calls it, after `isConnected()` said yes. What
it changes is the library's list (`outbox`): the message is on it whatever
`mosquitto_publish` returns, which is success only with a connection to write
to (`HasConnection`; the flag can be behind the link). It is sent in this session
(`NetSend`), taken off by the broker's acknowledgement (`NetPuback`), and due
again in every later session until then (`Renewed`), so the broker can be given
it twice. The list goes with the handle. In `App` the list does not appear: the
client does not read it and nothing the App does depends on it.

### HiveMqttClient

The same library and the same variables, so what the two clients share (the
constructor, the end of `disconnect()`, the connect callback, and the steps of
the library) comes from an instance of `MosquittoClient`. In place of
`loop_running_` there is only the library's own knowledge that it has a thread
(`threaded`). `LoopStop` waits until the thread has ended; `LoopStart` may fail
unseen; `OnDisconnect` leaves the flag alone, since no callback is set.

### ModbusRTU

Any number of threads call any member function. Each function holds `mtx_` from
its first line to its last, and its calls of libmodbus are the steps in between:
a context is made, opened and given its timeout; a slave is set; a request goes
on the line; an answer comes or the timeout is over. `line` is the slave that
the request on the wire is for. The eight reads and writes differ only in the
library function and are one transaction; `sendRawPacket` has its own steps,
as its packet names the slave and none is set. `Slaves` are those whose ids
`modbus_set_slave` takes; its result is not looked at.

A raw packet is also seen as bytes (`frame`). `SendRaw` has the code's checksum
and then that of `modbus_send_raw_request`, so two are on the line (section 5).
The line delivers the answer of a slave with the bits of some `Noise` inverted.
`RawAnswer` is what `modbus_receive_confirmation` makes of it: an answer that is
not of the slave the context was last set to (`Heard`) counts as 0 bytes, one
with a wrong checksum as -1, and the rest goes to `Verify`. Since a raw packet
sets no slave, one on a new context gets no answer.

`isConnected()` takes no lock and reads a plain `bool`: `Look` may see either
value while another thread is at the assignment. `opened` holds the contexts
that are connected to the device, also those that `ctx_` no longer knows. The
destructor is a `disconnect()` that no call follows.

`SerialMaster` has neither lock nor contexts. The line is open or not, and an
exchange on it is one record: whose it is, with which slave, under which
timeout. Nothing is opened, closed or set while there is one. The refinement
mapping takes `ctx_` being open and holding its timeout for the open line, and
the holder of the mutex, with what `line` and the context say while a request
is out, for the exchange: had the wrong slave been set, or the timeout not
reached the new context, the record would be one that no `Begin` makes.

### CRC16

A byte or a register is the set of the positions of its ones, so that shifting
and exclusive-or are operations on sets, at the width of the code. The reference
is what the Modbus documents say: the bits of a frame in the order in which they
are sent, the first sixteen inverted, form a polynomial that the generator
divides (`Codeword`). A polynomial is the set of the positions, in sending
order, of its non-zero coefficients; a step of the division (`Reduced`) takes
one leading coefficient away. `Codeword` shares nothing with `Calculate` but
`Xor`; that `RawAnswers` are codewords is an assumption which TLC evaluates on
the frames of the run, and `Codeword` is also the library's own check.

### SHT35

The loops over the register map are steps (`Range`, `Decode`), so that what they
compute can be an invariant, checked and proved. Addresses and register values
have `Word` values, 65536 in the code; `uint16_t` arithmetic is modulo `Word`.
The map is any sequence of entries that fits (`WellFormed`): `DEFAULT_CONFIGS`
is the one compiled in. The product with the scale and the rounding of a
32-bit integer to `float` are left out; a `FLOAT` is its bits.

### App

One action per step that another thread can see. `pc` gives the position of
`main` and of the three threads. The queue's operations are those of `Channel`,
which `ThreadQueue` is shown to implement; the client's operations and its
network thread are those of `MosquittoClient`. A call of the client that takes
several steps is begun by the App's action and finished by `MqttCall`; the
caller goes on when `call` is idle again. A reading is the record of the cycle,
the sensor and the unit that it comes from: its value is never looked at.

`readAll()` is one step with two outcomes, all the readings or none: it is one
Modbus transaction, and all sensors share one line on which only this thread
transacts. An HTTP request is one step of the thread that makes it; its answer
changes nothing in the App but a log line, so a failed post and a successful
one are the same step (`ServerSync` takes it apart). The last step of a thread's loop is the look at
`running_`; a sleep is one step, because all that it does is look at `running_`
to end earlier.

`handed` (the readings given to `publish()`), `posted` and `atStop` are
histories.

### WarehouseApi, RemoteCall and Logger

A request is two steps of its caller, everything up to `curl_easy_perform`
(`Call`) and its end (`Return`), and one of the server, in between or afterwards
(`Serve`). `Call` may get no handle; then nothing is sent and `performRequest`
returns early. `Return` takes the server's answer, if there is one, or leaves
the status at 0: an error, the timeout, or the null handle. `WireVerb` is what
libcurl makes of the options that `get`, `post`, `put` and `del` set: a method
is not simply the one meant. `served` is a history. `setBaseUrl()` and
`setAuthToken()` take no lock: `Configure` is for a service nobody uses at that
moment, as in the App, which never calls them.

`RemoteCall` knows no handles, headers or options. It allows what a caller has
to live with: a call that is given up may still be seen.

A line of the log is begun (`Log`) and ended (`LogEnd`), and `line` shows whose
pieces are on it. `lines` is a history. A message of a disabled level leaves
nothing.

### ServerSync

The API thread's cycle of three requests and the push thread's post, on the two
modules above, with the config file that sets the levels and the stop. It leaves
out what `App` has: where the readings come from, MQTT, the joins. The lines
logged are those that depend on an answer; the others carry no information about
it. A payload that does not parse is left out: the registers of the compiled-in map
are 16-bit integers, whose scaled value always prints as a JSON number.

## 3. The runs

| Run | Instance | States | Shows |
|---|---|---|---|
| `queue` | 2 senders (one also clears), 2 receivers, 2 items, 3 sends | 16 474 | types; no lost wake-up; a false return means empty; `Channel` is implemented; `receive` ends |
| `mqtt` | every legal call sequence, 2 publications | 15 545 | types; `disconnect()` is final; no callback after the destructor; the flag comes to agree with the session |
| `mqtt_delivery` | 1 publication | violated | a publication reported as successful, in a session that is up, can be dropped by the stop |
| `hive` | every legal call sequence | 114 | types; the waiting `disconnect()` is final and returns; no callback after the destructor |
| `hive_flag` | the same | violated | the flag stays up after the session is lost |
| `modbus` | 2 threads, 2 slaves, 2 timeouts, 2 contexts, 2 raw requests, the raw answers of 2 slaves with any one or two close bits inverted | 22 818 | types; a request reaches its own slave; only open contexts are used; `SerialMaster` is implemented, which has the timeout set last in force; a raw answer reaches the caller as a slave sent it, and none that the library passed on is refused |
| `modbus_flag` | the same | violated | the flag stays up after a reconnect that fails |
| `modbus_raw_frame` | the same | violated | a raw packet goes out with two checksums |
| `sensor` | every map of 1 or 2 entries over 4 addresses, every register content | 43 871 | types; the range covers the map and no more; readings are all there and right, or none |
| `app` | 2 sensors, 2 units, 1 cycle | 459 813 | types; the pipeline conserves; batches are whole; the MQTT library is handed the readings in order, once each; threads end before teardown; a stop is prompt |
| `app_live` | 1 sensor, 1 unit, 2 cycles | 103 149 | shutdown ends; what is queued is posted unless the App is stopped |
| `api` | 1 cycle of the API thread, 2 readings, 2 statuses, warnings on or off | 329 275 | types; nothing leaks; lines are whole; every loss is reported where warnings are enabled, and none as a success; `RemoteCall` is implemented; a stop comes through |

### Bounds

* `MaxSends` (`ThreadQueue`): a stolen wake-up needs two receivers and two
  items; three items also let one wait while two are in flight.
* `MaxPublish` (`MqttDelivery`): two messages, so that a session can drop or be
  cancelled between two sends. Each is counted as sent up to twice.
* `MaxContexts` (`ModbusRTU`): two, so that a `connect()` on a connected object
  overwrites a context. Two threads suffice for one to step between another's
  two library calls.
* `Noise` (`ModbusRTU`): every single bit and every pair at most 15 apart, in
  the first and the last two bytes of a frame of five. The second and the third
  stay: by them the library tells how long the answer is, and an answer cut
  short or run on is not modelled. A checksum of 16 bits promises to find every
  burst that short; longer disturbances can get past it.
* `Word` (`SHT35`): with four addresses a map can end at the last one, and
  entries can overlap, repeat, or come in descending order.
* `MaxCycles` (`App`): the code polls for ever; a cycle that would exceed the
  bound is not begun while `running_` is set. One cycle of two sensors has the
  batch boundaries, the failing sensor beside the working one and the stop in
  every position, and the session can be lost and regained between any two of its
  four readings. Two cycles, in `app_live`, let a
  reading be queued while the one before it is still being posted.
* `MaxReadings`, `MaxSyncs` (`ServerSync`): with two readings the answer to the
  first can come while the second is under way; one cycle has the API thread's
  three requests beside them. There is no token in the run, as in the App; the
  proofs have any.
* The code has two sensors of two units; `NumSensors` and `NumUnits` are those
  in run `app`. The proofs need no bound.

No run turns the deadlock check off: the state in which a client is gone, or in
which `main()` has returned, has an explicit stuttering step (`Finished`).

### Fairness

* `ThreadQueue`: a thread inside a call keeps running, the clock moves, and a
  receiver whose deadline is over wakes. Nobody has to start a call, no
  notification has to arrive, and the mutex is not fair: that is why
  `ReceiveReturns` only speaks of a receiver that the others have come to leave
  alone.
* `MosquittoClient`: a call that has begun goes on, the network thread keeps
  running: it makes its callbacks, retries, carries out a disconnect, and a
  handshake ends by an answer or by the keep-alive. It is never obliged to lose
  a session. `HiveMqttClient` has the same. `FlagAgrees` assumes that the caller
  stops calling `connect()`: each call can restart the handshake.
* `App`: each thread keeps running. Every blocking step in them ends by itself:
  a request by its timeout of ten seconds, a serial transaction by the response
  timeout, `receive()` after 100 ms, each sleep after a second. Nothing is
  assumed of `main`'s 30 seconds, of the broker or of the network thread: the
  liveness properties hold with a broker that never answers and one that flaps.
* `ServerSync`: the two threads keep running; a request ends, at the latest by
  its timeout; a line of output gets written. Nothing is assumed of the server
  or of when `main` stops.

## 4. What is proved

Every theorem holds for any value of the constants within the named
assumptions: finitely many threads with disjoint roles (`ThreadsAssumption`), a
"nothing" value outside the items (`ItemsAssumption`, `NoneAssumption`), natural
numbers for the sizes (`SizesAssumption`, `BoundsAssumption`), and in `SHT35` a well-formed map and an even word size.
`FramesAssumption` says what the raw packets rely on: a request is not empty and
fits the buffer of 256 bytes that the code copies it to unchecked, a slave's
answers are valid frames, and what a disturbance inverts lies within sixteen
bits and leaves the length of the answer alone.

Every safety property that a run checks is a theorem. What is left to TLC alone
is at the end of this section.

* **ThreadQueue.** `TypeCorrect` and `LockDiscipline` by induction. `WakeupsKept`
  (no lost wake-up) is inductive on top of the types alone: a queued item is
  matched by a thread in `Coming`, and the proof follows each step's effect on
  the cardinality of that set. `FalseReturn` is about a single step: only
  `RecvTimeout` returns without an item. `Refinement` maps the push to `Send`,
  the take to `Receive`, the timed-out return to `Timeout`, the swap to `Clear`
  and every other step to a stutter. It covers the safety part of `Channel`,
  which has no fairness. `DeadlineIsFinal` is about every single step: where a
  receiver stands after its deadline, and where it may go from there.
* **MosquittoClient.** `DisconnectIsFinal` and `DestroyIsFinal` follow from
  `CallInv`. It is needed because the flag is still up between
  `mosquitto_loop_stop` and the assignment (`connected => loopRunning \/ call =
  "clear"`), and because a network thread only exists under `loop_running_`.
  They are of the client's own specification; the steps that `MqttDelivery` adds
  leave its variables alone.
* **HiveMqttClient.** The same two results. Here they rest on the wait: `threaded`
  only becomes false when the network thread has run its last callback.
  `WaitEnds` counts the steps that it has left while it is waited for.
* **CRC16.** `VerifyIsCodeword`: for a frame of any length, `verify()` accepts it
  if and only if the generator divides it. The argument is that the register,
  after each bit of the data, is the remainder of the division so far, moved to
  the next sixteen positions and combined with the bits not yet taken up
  (`Agreement`, from `BitStep`, `ByteStep` and `TakeUp`); the last two bytes are
  then compared with that remainder (`LastBits`). `AppendMakesCodeword` follows.
  For `BurstsDetected`: division is linear (`Linear`), so two valid frames would
  differ by a polynomial that the generator divides, and one within sixteen
  positions never vanishes (`BurstStep`).
  The induction is over sets: a set of natural numbers that holds 0 and with
  each of its members the next is all of them, because the least that it lacks
  exists (`Induction`, from `WFMin`). It needs no operator as a parameter. That
  the recursive functions exist is proved the same way (`Recursion`).
* **ModbusRTU.** `IInv` joins the lock's discipline (`MutexInv`), the state of the
  context outside `connect()` (`ContextInv`), the slave between the two calls of
  a transaction (`RequestInv`), the slave of a call (`AskedInv`) and what a
  thread has of a raw answer (`RawInv`). `RequestsOwned`, `NeverFreed` and
  `TimeoutKept` follow; none of them says anything of `connected_` on its own,
  which is as it must be, since the flag can be wrong (section 5).
  `RawAnswersChecked` adds the theorems of `CRC16Proofs`: what arrives is a valid
  frame with a burst inverted, so it is a valid frame again, as the library
  demands, only if the burst is empty (`BurstsDetected`); and `verify()` accepts
  every valid frame (`VerifyIsCodeword`), so it refuses nothing but 0 bytes. `Refinement` maps the step that closes the old context to `Abandon`,
  those that set `connected_` to `Establish` and `Disconnect`, the two library
  calls that put a request on the line to `Begin`, its end to `End`, and the
  rest to stutters; `OneInside` makes the exchange unique.
* **SHT35.** `RangeInv` is the loop invariant of `initialize()`: bounds on all
  entries seen, each bound reached by one of them. `RangeCovers` and
  `RangeTight` follow for any map, at any word size. `AllDecoded` needs
  `DecodeInv`, the invariant of the decoding loop: so far there is one reading
  per entry seen, each the value of its own registers in the buffer. It rests on
  `RangeCovers`: an entry's offset is inside the buffer.
* **App.** `IInv` adds to the types what main's position says of the threads
  (`ThreadsInv`), of the two flags (`FlagsInv`), of the subsystems
  (`SubsystemsInv`), and the poll thread's counters (`PollInv`).
  `NothingTornDown` follows from it; `Conserved` is inductive given `IInv`, by
  the algebra of appending and taking off; `StopPrompt` needs `StopInv`, which
  counts what the poll thread may still send and the push thread may still
  take by where they are after the stop.
  `WholeBatches` follows from `BatchInv`: the last batch may be unfinished, and
  then it is the one the poll thread is in. `HandedOver` carries the order of
  the polls along the pipeline: what was sent is in order and ends before the
  reading the poll thread holds (`SentInv`), what the MQTT library was handed
  comes from what was taken, and its last one is no later than the one in hand
  (`HandedInv`). It says nothing of the broker, to which the library may send a
  message again.
  `ShutdownBounded` ranks the states after `running_` is cleared: each thread
  has a number of steps left on its longest way out, a step may begin a call of
  the client, which takes at most three more, hence the weight of four. Every
  own step lowers the rank, the network thread cannot change it, and it is 0 in
  the last state only.
  `ClientKept` uses the client's invariant as it was proved in
  `MosquittoClientProofs`: the steps of `App` are shown to be legal calls of the
  client or to leave it alone (`ClientStep`), and the proof for the client by
  itself does the rest. With it, `CleanExit` says what is left when `main()`
  returns, after a failed `initialize()` too.
* **ServerSync.** `NoLeak` is inductive on the types. `WholeLines` needs
  `LockInv`: who is writing holds the mutex, and the line holds only that
  thread's pieces. `Refinement` needs `CallInv`, which numbers the calls of a
  thread, so that an answer to its current call cannot be one to an earlier;
  and the lemma that for each of the fifteen operations the method on the wire
  is the one meant. `LossTold` rests on `LossInv`, which follows a reading from
  the call to its report: the status the push thread holds is 0, or one that
  the server gave to a request with this very reading (`AnswerInv`); the levels
  do not change while the threads run (`LevelsStay`).
  `StopIsBounded` ranks a thread's states after the stop, by the requests that
  are left of its cycle and the lines that each may log.

TLC checked each strengthening as an invariant before it was proved.

Only model-checked: the temporal properties `ReceiveReturns`, `FlagAgrees`,
`DisconnectReturns`, `ShutdownReturns`, `QueuedIsPosted` and `StopSeen`, since
fairness and ENABLED are outside what the prover does. For four of them the part
that is not about fairness is proved for every value of the constants:
`DeadlineIsFinal`, `WaitEnds`, `ShutdownBounded` and `StopIsBounded` say that the
steps which fairness has to bring about are bounded in number, or lead one way
only. What TLC adds is that a fair step is enabled until then. `FlagAgrees` and
`QueuedIsPosted` have no such bound: a session can drop, and a reading can be
queued, any number of times.

## 5. Where code and comments differ

* `app.h:34` documents a limit on the number of polling cycles; `run()` never
  reads its argument. No run shows this: `App` has no limit either.
* `i_mqtt_client.h:60` says `publish()` is true "if published successfully"; it
  is true as soon as the library has taken the message, and `disconnect()`
  cancels the network thread without waiting for it to be sent (run
  `mqtt_delivery`).
* `modbus_rtu.h:39` says `isConnected()` tells whether the connection is active;
  after a `connect()` on a connected object that fails, it says so of no context
  at all, and `disconnect()` does not correct it (run `modbus_flag`).
* `modbus_rtu.cpp:72` says that a raw request needs its checksum, and
  `modbus_rtu.h:53` that one is added. `modbus_send_raw_request` adds one itself,
  so the packet goes out with a second one behind the first, which is 00 00 (run
  `modbus_raw_frame`).
* `i_mqtt_client.h:40` says `isConnected()` tells whether the client is currently
  connected; `HiveMqttClient` is never told of a lost session (run `hive_flag`).

Only the second one shows in the program as `main()` drives it: it runs without
a limit, connects Modbus once, sends no raw packets and does not use
`HiveMqttClient`.

## 6. What is not modelled

* In the App: a second `initialize()` or `run()` on the same object, a
  `std::thread` constructor that throws, the values in the config file. `main()`
  does none of the first, the second is resource exhaustion, and no state
  depends on the third.
* In the clients: `loop`, which is for a caller without the network thread, and
  the setters, which only pass values to the library or are called before
  `connect()`.
* In libmodbus: ids that `modbus_set_slave` refuses, after which the request goes
  to the slave set before (`modbus_rtu.cpp:152`; the App's ids are 1 and 2), raw
  requests that do not fit the buffer (`modbus_rtu.cpp:74`), and answers that
  the line makes shorter or longer.
* In libmosquitto: how often a QoS 1 message is sent is followed up to twice.
* HTTP: `curl_slist_append` out of memory (`http_client.cpp:24`), which would drop
  the headers so far from the request and leak them.
* HTTP: the characters of URLs and headers, and the body of an answer, which no
  caller reads. `curl_global_init` is called by `main()`'s thread alone, before
  the others exist.
* `Terminal` runs a command on a pipe for `main()` and has no state of its own.
  `DateTimeUtils` and the helpers (casts, formatting, sleeps) have none. The
  build files and the vendored JSON library.
* Real time: timeouts and sleeps end, but how long they take is not counted; so
  neither the growth of the unlimited queue nor the length of a shutdown is
  measured.

## 7. Plan

Done: all components that keep state, their runs, and a proof of every safety
property that a run checks. What could be added, in this order:

1. One abstract MQTT client, which `MosquittoClient` and `HiveMqttClient` both
   implement: what `i_mqtt_client.h` promises, with the two ways to end the
   network thread.
2. `App` composed with `ServerSync` in place of its one-step requests, by proof
   only: the product is too large for TLC.
3. The App's transactions tied to `SerialMaster` and its readings to `SHT35`:
   that what `App` takes for one step, `readAll()`, is one.
4. The App's call sequences beyond `main()`: initialize twice, run twice.
5. A timed model of the pipeline: the backlog while posts fail slowly, and how
   long a shutdown may take.
