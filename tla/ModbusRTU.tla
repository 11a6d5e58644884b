----------------------------- MODULE ModbusRTU -----------------------------
(***************************************************************************)
(* iot::ModbusRTU (src/protocols/modbus/modbus_rtu.cpp): a libmodbus       *)
(* context behind mtx_, shared by any number of threads.  Each member      *)
(* function but isConnected() holds mtx_ from its first line to its last;  *)
(* its calls of the library are the steps.  The eight reads and writes     *)
(* differ in the library function they call and are one Transaction here.  *)
(* A raw packet is also seen as bytes: what reaches the line, and what of  *)
(* an answer reaches the caller, is up to the code's CRC and to libmodbus. *)
(***************************************************************************)
EXTENDS Integers, Sequences, FiniteSets

CONSTANTS
    Threads,       \* the callers
    Slaves,        \* slaves on the line, by ids that modbus_set_slave takes
    Address,       \* the byte that stands for a slave in a frame
    Timeouts,      \* response timeouts; the first one is the default
    Default,
    Free,          \* mtx_ is not held
    None,          \* no slave
    RawRequests,   \* what sendRawPacket() is given: no CRC
    RawAnswers,    \* the frames that slaves answer with
    Noise,         \* the bits of a frame that the line may invert
    MaxContexts    \* bound: contexts the library allocates

ASSUME CallersAssumption == Free \notin Threads
ASSUME SlavesAssumption == None \notin Slaves
ASSUME TimeoutsAssumption == Default \in Timeouts
ASSUME ContextsAssumption == MaxContexts \in Nat

CRC == INSTANCE CRC16

\* A request fits the buffer of 256 bytes with its CRC, which nothing checks
\* before the memcpy; slaves keep to the protocol; and the line disturbs bits
\* that are close together, and not of the second and the third byte, by which
\* libmodbus tells how long an answer is.
ASSUME FramesAssumption ==
    /\ Address \in [Slaves -> SUBSET (0..7)]
    /\ \A r \in RawRequests : r \in Seq(SUBSET (0..7)) /\ Len(r) \in 1..254
    /\ \A f \in RawAnswers : f \in Seq(SUBSET (0..7)) /\ CRC!Codeword(f)
    /\ \A e \in Noise : /\ e \subseteq Nat \ (8..23)
                        /\ \A a, b \in e : a - b < 16

Contexts == 1..MaxContexts
Null == 0

VARIABLES
    mtx,           \* the thread that holds mtx_, or Free
    ctx,           \* ctx_: a context, or Null
    connected,     \* connected_
    timeout,       \* response_timeout_sec_ and _usec_
    made,          \* how many contexts there have been
    opened,        \* the contexts that are connected to the device
    slave,         \* the slave each context is set to
    limit,         \* the response timeout each context is set to
    line,          \* the slave that a request on the serial line is for
    frame,         \* the raw packet on the line, then rsp_len bytes of rsp_buf
    pc, asked      \* where each thread is, and the slave it wants

vars == <<mtx, ctx, connected, timeout, made, opened, slave, limit, line,
          frame, pc, asked>>

Init ==
    /\ mtx = Free
    /\ ctx = Null
    /\ connected = FALSE
    /\ timeout = Default
    /\ made = 0
    /\ opened = {}
    /\ slave = [c \in Contexts |-> None]
    /\ limit = [c \in Contexts |-> Default]
    /\ line = None
    /\ frame = <<>>
    /\ pc = [t \in Threads |-> "idle"]
    /\ asked = [t \in Threads |-> None]

Goto(t, from, to) == pc[t] = from /\ pc' = [pc EXCEPT ![t] = to]

\* lock_guard: taken on entry, and given back whichever way the call returns.
Enter(t, from, to) ==
    /\ mtx = Free
    /\ mtx' = t
    /\ Goto(t, from, to)
    /\ UNCHANGED <<ctx, connected, timeout, made, opened, slave, limit, line,
                   frame>>

Leave(t) ==
    /\ \E from \in {"unlock", "accept", "reject"} : Goto(t, from, "idle")
    /\ mtx' = Free
    /\ asked' = [asked EXCEPT ![t] = None]
    /\ frame' = <<>>
    /\ UNCHANGED <<ctx, connected, timeout, made, opened, slave, limit, line>>

-----------------------------------------------------------------------------
\* connect(): whatever ctx_ was is overwritten.

ConnectLock(t) == Enter(t, "idle", "new") /\ UNCHANGED asked

\* Mutant: the result of modbus_new_rtu is not looked at.
NewContextUnchecked(t) ==
    /\ Goto(t, "new", "open")
    /\ \/ made < MaxContexts /\ made' = made + 1 /\ ctx' = made + 1
       \/ ctx' = Null /\ UNCHANGED made
    /\ UNCHANGED <<mtx, connected, timeout, opened, slave, limit, line, frame,
                   asked>>

NewContext(t) ==
    /\ \/ /\ made < MaxContexts
          /\ made' = made + 1
          /\ ctx' = made + 1
          /\ Goto(t, "new", "open")
       \/ ctx' = Null /\ Goto(t, "new", "unlock") /\ UNCHANGED made
    /\ UNCHANGED <<mtx, connected, timeout, opened, slave, limit, line, frame,
                   asked>>

OpenContext(t) ==
    /\ \/ /\ opened' = opened \cup {ctx}
          /\ Goto(t, "open", "apply")
          /\ UNCHANGED ctx
       \/ ctx' = Null /\ Goto(t, "open", "unlock") /\ UNCHANGED opened
    /\ UNCHANGED <<mtx, connected, timeout, made, slave, limit, line, frame,
                   asked>>

\* Mutant: a new context keeps the library's own timeout.
ApplyTimeoutForgotten(t) ==
    /\ Goto(t, "apply", "unlock")
    /\ connected' = TRUE
    /\ UNCHANGED <<mtx, ctx, timeout, made, opened, slave, limit, line, frame,
                   asked>>

ApplyTimeout(t) ==
    /\ Goto(t, "apply", "unlock")
    /\ limit' = [limit EXCEPT ![ctx] = timeout]
    /\ connected' = TRUE
    /\ UNCHANGED <<mtx, ctx, timeout, made, opened, slave, line, frame, asked>>

-----------------------------------------------------------------------------
\* disconnect(), also called by the destructor

DisconnectLock(t) == Enter(t, "idle", "close") /\ UNCHANGED asked

Close(t) ==
    /\ Goto(t, "close", "unlock")
    /\ \/ /\ ctx # Null
          /\ opened' = opened \ {ctx}
          /\ ctx' = Null
          /\ connected' = FALSE
       \/ ctx = Null /\ UNCHANGED <<opened, ctx, connected>>
    /\ UNCHANGED <<mtx, timeout, made, slave, limit, line, frame, asked>>

-----------------------------------------------------------------------------
\* setTimeout()

TimeoutLock(t) == Enter(t, "idle", "set") /\ UNCHANGED asked

SetTimeout(t, v) ==
    /\ Goto(t, "set", "unlock")
    /\ timeout' = v
    /\ limit' = IF ctx # Null /\ connected
                  THEN [limit EXCEPT ![ctx] = v] ELSE limit
    /\ UNCHANGED <<mtx, ctx, connected, made, opened, slave, line, frame,
                   asked>>

-----------------------------------------------------------------------------
\* The reads and writes, and sendRawPacket()

\* isConnected(), as readAll() asks it first: without mtx_, so that a read
\* that races with an assignment may see either value.
Look(t) ==
    /\ connected \/ \E u \in Threads : pc[u] \in {"apply", "close"}
    /\ Goto(t, "idle", "looked")
    /\ UNCHANGED <<mtx, ctx, connected, timeout, made, opened, slave, limit,
                   line, frame, asked>>

TransactionLock(t, s) ==
    /\ Enter(t, "idle", "check") \/ Enter(t, "looked", "check")
    /\ asked' = [asked EXCEPT ![t] = s]

RawLock(t, s) ==
    /\ Enter(t, "idle", "check_raw")
    /\ asked' = [asked EXCEPT ![t] = s]

Usable == ctx # Null /\ connected

\* Mutant: connected_ alone is looked at.
CheckFlagOnly(t) ==
    /\ \/ connected /\ Goto(t, "check", "slave")
       \/ connected /\ Goto(t, "check_raw", "send_raw")
       \/ ~connected /\ (Goto(t, "check", "unlock")
                            \/ Goto(t, "check_raw", "unlock"))
    /\ UNCHANGED <<mtx, ctx, connected, timeout, made, opened, slave, limit,
                   line, frame, asked>>

Check(t) ==
    /\ \/ Usable /\ Goto(t, "check", "slave")
       \/ Usable /\ Goto(t, "check_raw", "send_raw")
       \/ ~Usable /\ (Goto(t, "check", "unlock")
                         \/ Goto(t, "check_raw", "unlock"))
    /\ UNCHANGED <<mtx, ctx, connected, timeout, made, opened, slave, limit,
                   line, frame, asked>>

\* Mutant: the context is set to a slave only once.
SetSlaveOnce(t) ==
    /\ Goto(t, "slave", "request")
    /\ slave' = IF slave[ctx] = None
                  THEN [slave EXCEPT ![ctx] = asked[t]] ELSE slave
    /\ UNCHANGED <<mtx, ctx, connected, timeout, made, opened, limit, line,
                   frame, asked>>

\* It takes every id in Slaves; that it refuses others goes unnoticed.
SetSlave(t) ==
    /\ Goto(t, "slave", "request")
    /\ slave' = [slave EXCEPT ![ctx] = asked[t]]
    /\ UNCHANGED <<mtx, ctx, connected, timeout, made, opened, limit, line,
                   frame, asked>>

\* The request goes out to the slave the context is set to.
Request(t) ==
    /\ Goto(t, "request", "answer")
    /\ line' = slave[ctx]
    /\ UNCHANGED <<mtx, ctx, connected, timeout, made, opened, slave, limit,
                   frame, asked>>

\* The slave answers, rightly or not, or the response timeout is over.
Answer(t) ==
    /\ Goto(t, "answer", "unlock")
    /\ line' = None
    /\ UNCHANGED <<mtx, ctx, connected, timeout, made, opened, slave, limit,
                   frame, asked>>

\* What the eight reads and writes do after their check.
Transaction(t) == SetSlave(t) \/ Request(t) \/ Answer(t)

\* A raw packet names its slave in its first byte, which the context is not
\* told.  append() puts a CRC to it and modbus_send_raw_request another one;
\* sending can fail.
SendRaw(t, packet) ==
    /\ \/ Goto(t, "send_raw", "raw_answer") /\ line' = asked[t]
       \/ Goto(t, "send_raw", "unlock") /\ UNCHANGED line
    /\ packet[1] = Address[asked[t]]
    /\ frame' = CRC!Appended(CRC!Appended(packet))
    /\ UNCHANGED <<mtx, ctx, connected, timeout, made, opened, slave, limit,
                   asked>>

\* The frame with some bits inverted.
Disturbed(f, e) ==
    [k \in DOMAIN f |->
        CRC!Xor(f[k], {b \in 0..7 : 8 * (k - 1) + b \in e})]

\* modbus_receive_confirmation is for frames of the slave the context was last
\* set to, or of address 0.
Heard(f) ==
    \/ f[1] = {}
    \/ slave[ctx] # None /\ f[1] = Address[slave[ctx]]

\* An answer comes as the line delivers it.  Of one that is not for it the
\* library says that it has 0 bytes; one that is, but has a wrong CRC, is -1,
\* and so is no answer in the response timeout.
RawAnswer(t) ==
    /\ \/ /\ Goto(t, "raw_answer", "verify")
          /\ \E f \in RawAnswers, e \in Noise :
                LET got == Disturbed(f, e) IN
                \/ Heard(got) /\ CRC!Codeword(got) /\ frame' = got
                \/ ~Heard(got) /\ frame' = <<>>
       \/ Goto(t, "raw_answer", "unlock") /\ frame' = <<>>
    /\ line' = None
    /\ UNCHANGED <<mtx, ctx, connected, timeout, made, opened, slave, limit,
                   asked>>

\* The caller gets the answer, or -1.
Verify(t) ==
    /\ \/ CRC!Verify(frame) /\ Goto(t, "verify", "accept")
       \/ ~CRC!Verify(frame) /\ Goto(t, "verify", "reject")
    /\ UNCHANGED <<mtx, ctx, connected, timeout, made, opened, slave, limit,
                   line, frame, asked>>

-----------------------------------------------------------------------------

\* What a thread does once it is inside a call.
Inside(t) ==
    \/ NewContext(t) \/ OpenContext(t) \/ ApplyTimeout(t)
    \/ Close(t)
    \/ \E v \in Timeouts : SetTimeout(t, v)
    \/ Check(t) \/ Transaction(t)
    \/ \E packet \in RawRequests : SendRaw(t, packet)
    \/ RawAnswer(t) \/ Verify(t)
    \/ Leave(t)

Call(t) ==
    \/ ConnectLock(t) \/ DisconnectLock(t) \/ TimeoutLock(t) \/ Look(t)
    \/ \E s \in Slaves : TransactionLock(t, s) \/ RawLock(t, s)

Next == \E t \in Threads : Call(t) \/ Inside(t)

Spec == Init /\ [][Next]_vars

-----------------------------------------------------------------------------
\* Properties

Outside == {"idle", "looked"}
Held == {"new", "open", "apply", "close", "set", "check", "check_raw", "slave",
         "request", "send_raw", "answer", "raw_answer", "verify", "accept",
         "reject", "unlock"}
Waiting == {"answer", "raw_answer"}

\* The types of the variables.
TypeOK ==
    /\ mtx \in Threads \cup {Free}
    /\ ctx \in 0..made
    /\ connected \in BOOLEAN
    /\ timeout \in Timeouts
    /\ made \in 0..MaxContexts
    /\ opened \subseteq 1..made
    /\ slave \in [Contexts -> Slaves \cup {None}]
    /\ limit \in [Contexts -> Timeouts]
    /\ line \in Slaves \cup {None}
    /\ frame \in Seq(SUBSET (0..7))
    /\ pc \in [Threads -> Outside \cup Held]
    /\ asked \in [Threads -> Slaves \cup {None}]

\* A request goes to the slave its caller named, and the line carries nothing
\* else until it is answered: the slave is set and the request is sent by two
\* calls on a context all threads share, and a raw packet sets none.
OwnRequest ==
    /\ \A t \in Threads : pc[t] \in Waiting => line = asked[t]
    /\ line # None => \E t \in Threads : pc[t] \in Waiting

\* No transaction uses a context that was freed or never opened, also when
\* another thread disconnects or reconnects after isConnected() was asked.
OpenWhenUsed ==
    \A t \in Threads :
        pc[t] \in {"slave", "request", "send_raw"} \cup Waiting =>
            ctx \in opened

\* The context works with the timeout set last, before or after connect().
TimeoutInForce == mtx = Free /\ ctx # Null => limit[ctx] = timeout

\* The threads see a SerialMaster: the lock makes of the library's calls one
\* exchange, for the slave asked, on an open context, with the timeout that was
\* set last, which nobody's connect(), disconnect() or setTimeout() comes into.
Open == ctx \in opened /\ \A t \in Threads : pc[t] # "apply"
Exchange ==
    IF line = None THEN None
    ELSE [by |-> mtx, slave |-> line, limit |-> limit[ctx]]
Master == INSTANCE SerialMaster WITH open <- Open, exchange <- Exchange
ImplementsSerialMaster == Master!Spec

\* What sendRawPacket() makes of an answer: its caller gets only what a slave
\* sent, although a burst may disturb the frame, its address and its CRC, and
\* gets all that the library passed on, as CRC16 means the CRC of the protocol.
RawAnswerIntact ==
    \A t \in Threads :
        /\ pc[t] = "accept" => frame \in RawAnswers
        /\ pc[t] = "reject" => frame = <<>>

\* sendRawPacket(): "The request bytes (should NOT include CRC, it will be
\* added)": what is on the line is the request and a CRC.
RawFrameOnce ==
    \A t \in Threads : pc[t] = "raw_answer" =>
        \E packet \in RawRequests : frame = CRC!Appended(packet)

\* isConnected(): "Check if the Modbus connection is active."
ActiveMeansOpen == mtx = Free /\ connected => ctx \in opened

=============================================================================
