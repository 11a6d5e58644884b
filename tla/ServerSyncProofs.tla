-------------------------- MODULE ServerSyncProofs --------------------------
(***************************************************************************)
(* Proofs about the App's HTTP traffic, for any number of readings and of  *)
(* cycles, any server and any levels that are disabled.                    *)
(***************************************************************************)
EXTENDS ServerSync, TLAPS

-----------------------------------------------------------------------------
\* What a step does to the service and to the log.

\* A reading is posted from its own number on.
StepInv ==
    /\ TypeOK
    /\ phase["push"] \in {"call", "report"} => reading >= 1

Calling   == SyncCall \/ PushCall
Returning == \E t \in Threads : Return(t)
Logging   == SyncReport \/ PushReport
Ending    == \E t \in Threads : EndLine(t)

LEMMA ApiSteps ==
    ASSUME StepInv, [Next]_vars
    PROVE  \/ Calling /\ \E t \in Threads, op \in A!Ops,
                            body \in Readings \cup {None} : A!Call(t, op, body)
           \/ Returning /\ \E t \in Threads : A!Return(t)
           \/ Server /\ \E r \in wire, s \in Statuses : A!Serve(r, s)
           \/ UNCHANGED apiVars
<1>1. CASE SyncCall
  <2>1. SyncOps[step] \in A!Ops
    BY DEF StepInv, TypeOK, SyncOps, A!Ops, A!Gets
  <2> QED
    BY <1>1, <2>1 DEF Calling, SyncCall, Threads
<1>2. CASE PushCall
  <2>1. reading \in Readings
    BY <1>2, BoundsAssumption
    DEF PushCall, Turn, StepInv, TypeOK, Readings
  <2> QED
    BY <1>2, <2>1 DEF Calling, PushCall, Threads, A!Ops, A!Posts
<1>3. CASE Returning
  BY <1>3 DEF Returning, Return
<1>4. CASE Server
  BY <1>4 DEF Server, A!ServerStep
<1>5. CASE ~Calling /\ ~Returning /\ ~Server
  BY <1>5
  DEF Next, vars, Calling, Returning, Config, Run, Stop, SyncStep, SyncCheck,
      SyncReport, PushStep, PushCheck, PushReport, EndLine, Finished
<1> QED
  BY <1>1, <1>2, <1>3, <1>4, <1>5 DEF Calling

LEMMA LogSteps ==
    ASSUME StepInv, [Next]_vars
    PROVE  \/ Logging /\ \E t \in Threads, m \in L!Messages : L!Log(t, m)
           \/ Ending /\ \E t \in Threads : L!LogEnd(t)
           \/ Config /\ \E l \in Configured, on \in BOOLEAN :
                           L!SetLevelEnabled(l, on)
           \/ UNCHANGED logVars
<1>1. CASE SyncReport
  BY <1>1, BoundsAssumption
  DEF Logging, SyncReport, Threads, L!Messages, L!Levels
<1>2. CASE PushReport
  <2>1. reading \in Readings \cup {0}
    BY BoundsAssumption DEF StepInv, TypeOK, Readings
  <2> QED
    BY <1>2, <2>1 DEF Logging, PushReport, Threads, L!Messages, L!Levels
<1>3. CASE Ending \/ Config
  BY <1>3 DEF Ending, EndLine, Config
<1>4. CASE ~Logging /\ ~Ending /\ ~Config
  BY <1>4
  DEF Next, vars, Logging, Ending, Run, Stop, SyncStep, SyncCheck, SyncCall,
      PushStep, PushCheck, PushCall, Return, Server, Finished
<1> QED
  BY <1>1, <1>2, <1>3, <1>4 DEF Logging

\* The types of the App's own variables.
TaskTypeOK ==
    /\ running \in BOOLEAN
    /\ main \in {"config", "sleep", "stopped"}
    /\ phase \in [Threads -> {"off", "check", "call", "report", "done"}]
    /\ step \in 1..Len(SyncOps)
    /\ syncs \in 0..MaxSyncs
    /\ reading \in 0..MaxReadings
    /\ phase["push"] \in {"call", "report"} => reading >= 1

LEMMA StepParts == StepInv <=> TaskTypeOK /\ A!TypeOK /\ L!TypeOK
BY DEF StepInv, TaskTypeOK, TypeOK

LEMMA TaskTypes == StepInv /\ [Next]_vars => TaskTypeOK'
<1> SUFFICES ASSUME TaskTypeOK, [Next]_vars PROVE TaskTypeOK'
  BY StepParts
<1>0. Len(SyncOps) = 3
  BY DEF SyncOps
<1> USE <1>0, BoundsAssumption DEF TaskTypeOK, Threads, Turn
<1>1. CASE Config \/ Run \/ Stop
  BY <1>1 DEF Config, Run, Stop, taskVars
<1>2. CASE SyncStep
  BY <1>2 DEF SyncStep, SyncCheck, SyncCall, SyncReport
<1>3. CASE PushStep
  BY <1>3 DEF PushStep, PushCheck, PushCall, PushReport
<1>4. CASE Returning \/ Ending \/ Server \/ Finished \/ UNCHANGED vars
  BY <1>4 DEF Returning, Ending, Return, EndLine, Server, Finished, vars, taskVars
<1> QED
  BY <1>1, <1>2, <1>3, <1>4 DEF Next, Returning, Ending

LEMMA ApiTypes == StepInv /\ [Next]_vars => A!TypeOK'
<1> SUFFICES ASSUME StepInv, A!TypeOK, [Next]_vars PROVE A!TypeOK'
  BY StepParts
<1> USE DEF A!TypeOK
<1>1. ASSUME NEW t \in Threads, NEW op \in A!Ops,
             NEW body \in Readings \cup {None}, A!Call(t, op, body)
      PROVE  A!TypeOK'
  <2> DEFINE c == [by |-> t, n |-> calls[t] + 1, op |-> op, body |-> body,
                   to |-> base, auth |-> token]
             r == A!As(A!WireVerb(op), c)
  <2>1. calls[t] + 1 \in Nat
    OBVIOUS
  <2>2. c \in A!Calls
    BY <2>1 DEF A!Calls
  <2>3. A!WireVerb(op) \in A!Methods
    BY NoneAssumption DEF A!WireVerb, A!Custom, A!Methods
  <2>4. r \in A!Requests
    BY <2>1, <2>3 DEF A!Requests, A!As
  <2>5. <<t, c.n>> \in Threads \X Nat
    BY <2>1
  <2>6. /\ calls' = [calls EXCEPT ![t] = @ + 1]
        /\ call' = [call EXCEPT ![t] = c]
        /\ status' = [status EXCEPT ![t] = 0]
        /\ lists' = lists \cup {<<t, c.n>>}
        /\ handles' \in {handles, handles \cup {<<t, c.n>>}}
        /\ wire' \in {wire, wire \cup {r}}
        /\ curl' \in {[curl EXCEPT ![t] = TRUE], [curl EXCEPT ![t] = FALSE]}
        /\ UNCHANGED <<base, token, served>>
    BY <1>1 DEF A!Call, A!NoStatus
  <2> HIDE DEF c, r
  <2> QED
    BY <2>1, <2>2, <2>4, <2>5, <2>6
<1>2. ASSUME NEW t \in Threads, A!Return(t)
      PROVE  A!TypeOK'
  <2>1. status' \in [Threads -> Statuses \cup {0}]
    BY <1>2 DEF A!Return, A!Outcome, A!Answer
  <2>2. call' = [call EXCEPT ![t] = None]
    BY <1>2 DEF A!Return
  <2>3. lists' \subseteq lists /\ handles' \subseteq handles
    BY <1>2 DEF A!Return, A!FreeList
  <2> QED
    BY <1>2, <2>1, <2>2, <2>3 DEF A!Return
<1>3. ASSUME NEW r \in wire, NEW s \in Statuses, A!Serve(r, s)
      PROVE  A!TypeOK'
  BY <1>3 DEF A!Serve
<1>4. CASE UNCHANGED apiVars
  BY <1>4 DEF apiVars
<1> QED
  BY <1>1, <1>2, <1>3, <1>4, ApiSteps

LEMMA LogEffect ==
    ASSUME NEW t, NEW m, L!Log(t, m)
    PROVE  /\ \/ ~enabled[m.level] /\ UNCHANGED <<mutex, writing, line>>
              \/ /\ L!Lock(t)
                 /\ writing' = [writing EXCEPT ![t] = {m}]
                 /\ line' = Append(line, t)
           /\ mutex = Free
           /\ UNCHANGED <<enabled, lines>>
BY Zenon DEF L!Log, L!Lock

LEMMA LogTypes == StepInv /\ [Next]_vars => L!TypeOK'
<1> SUFFICES ASSUME StepInv, L!TypeOK, [Next]_vars PROVE L!TypeOK'
  BY StepParts
<1> USE DEF L!TypeOK
<1>1. ASSUME NEW t \in Threads, NEW m \in L!Messages, L!Log(t, m)
      PROVE  L!TypeOK'
  BY <1>1, LogEffect DEF L!Lock
<1>2. ASSUME NEW t \in Threads, L!LogEnd(t)
      PROVE  L!TypeOK'
  BY <1>2 DEF L!LogEnd
<1>3. ASSUME NEW l \in Configured, NEW on \in BOOLEAN, L!SetLevelEnabled(l, on)
      PROVE  L!TypeOK'
  BY <1>3 DEF L!SetLevelEnabled
<1>4. CASE UNCHANGED logVars
  BY <1>4 DEF logVars
<1> QED
  BY <1>1, <1>2, <1>3, <1>4, LogSteps

LEMMA InitTypes == Init => StepInv
<1> SUFFICES ASSUME Init PROVE TaskTypeOK /\ A!TypeOK /\ L!TypeOK
  BY StepParts
<1>1. TaskTypeOK
  <2>1. Len(SyncOps) = 3
    BY DEF SyncOps
  <2>2. step \in 1..Len(SyncOps) /\ syncs \in 0..MaxSyncs
        /\ reading \in 0..MaxReadings
    BY <2>1, BoundsAssumption DEF Init
  <2>3. phase = [t \in Threads |-> "off"] /\ phase["push"] = "off"
    BY DEF Init, Threads
  <2> QED
    BY <2>2, <2>3 DEF Init, TaskTypeOK
<1>2. A!TypeOK
  BY DEF Init, A!Init, A!TypeOK
<1>3. L!TypeOK
  BY DEF Init, L!Init, L!TypeOK
<1> QED
  BY <1>1, <1>2, <1>3

LEMMA Stepping == Spec => []StepInv
<1>1. StepInv /\ [Next]_vars => StepInv'
  <2>1. StepInv /\ [Next]_vars => TaskTypeOK' /\ A!TypeOK' /\ L!TypeOK'
    BY TaskTypes, ApiTypes, LogTypes
  <2> QED
    BY <2>1 DEF StepInv, TaskTypeOK, TypeOK
<1> QED
  BY <1>1, InitTypes, PTL DEF Spec

\* The type invariant.
THEOREM TypeCorrect == Spec => []TypeOK
BY Stepping, PTL DEF StepInv

-----------------------------------------------------------------------------
\* The log.

\* The line of std::cout belongs to the thread that has the mutex.
LockInv ==
    /\ \A t \in Threads : writing[t] # {} => mutex = t
    /\ line = IF mutex = Free THEN <<>> ELSE <<mutex>>

LEMMA LockStep == StepInv /\ LockInv /\ [Next]_vars => LockInv'
<1> SUFFICES ASSUME StepInv, LockInv, [Next]_vars PROVE LockInv'
  OBVIOUS
<1>0. writing \in [Threads -> SUBSET L!Messages]
  BY StepParts DEF L!TypeOK
<1> USE <1>0, NoneAssumption DEF LockInv
<1>1. ASSUME NEW t \in Threads, NEW m \in L!Messages, L!Log(t, m)
      PROVE  LockInv'
  BY <1>1, LogEffect DEF L!Lock
<1>2. ASSUME NEW t \in Threads, L!LogEnd(t)
      PROVE  LockInv'
  BY <1>2 DEF L!LogEnd
<1>3. ASSUME NEW l \in Configured, NEW on \in BOOLEAN, L!SetLevelEnabled(l, on)
      PROVE  LockInv'
  BY <1>3 DEF L!SetLevelEnabled
<1>4. CASE UNCHANGED logVars
  BY <1>4 DEF logVars
<1> QED
  BY <1>1, <1>2, <1>3, <1>4, LogSteps

\* Two threads never write on the same line (Logger::log, logger.h:42-60).
THEOREM WholeLines == Spec => []LinesWhole
<1>1. Init => LockInv
  BY DEF Init, L!Init, LockInv
<1>2. LockInv => LinesWhole
  BY DEF LockInv, LinesWhole, L!LinesWhole
<1> QED
  BY <1>1, <1>2, Stepping, LockStep, PTL DEF Spec

-----------------------------------------------------------------------------
\* The handles.

LEMMA LeakStep == StepInv /\ NothingLeaks /\ [Next]_vars => NothingLeaks'
<1> SUFFICES ASSUME StepInv, NothingLeaks, [Next]_vars PROVE NothingLeaks'
  OBVIOUS
<1>0. A!TypeOK
  BY StepParts
<1> USE <1>0, NoneAssumption DEF NothingLeaks, A!NothingLeaks, A!TypeOK
<1>1. ASSUME NEW t \in Threads, NEW op \in A!Ops,
             NEW body \in Readings \cup {None}, A!Call(t, op, body)
      PROVE  NothingLeaks'
  <2>1. /\ call[t] = None /\ call'[t] # None
        /\ calls'[t] = calls[t] + 1
        /\ \A u \in Threads \ {t} : /\ call'[u] = call[u]
                                    /\ calls'[u] = calls[u]
                                    /\ curl'[u] = curl[u]
        /\ lists' = lists \cup {<<t, calls'[t]>>}
        /\ handles' = handles \cup (IF curl'[t] THEN {<<t, calls'[t]>>} ELSE {})
    BY <1>1, ApiTypes DEF A!Call, A!Calls
  <2> QED
    BY <2>1
<1>2. ASSUME NEW t \in Threads, A!Return(t)
      PROVE  NothingLeaks'
  BY <1>2 DEF A!Return, A!FreeList
<1>3. ASSUME NEW r \in wire, NEW s \in Statuses, A!Serve(r, s)
      PROVE  NothingLeaks'
  BY <1>3 DEF A!Serve
<1>4. CASE UNCHANGED apiVars
  BY <1>4 DEF apiVars
<1> QED
  BY <1>1, <1>2, <1>3, <1>4, ApiSteps

\* Whatever becomes of a request, its handle and its header list are given
\* back (HttpClient, http_client.cpp:19-106).
THEOREM NoLeak == Spec => []NothingLeaks
<1>1. Init => NothingLeaks
  BY DEF Init, A!Init, NothingLeaks, A!NothingLeaks
<1> QED
  BY <1>1, Stepping, LeakStep, PTL DEF Spec

-----------------------------------------------------------------------------
\* The service, as its callers see it.

\* The method on the wire is the one that was meant.
LEMMA Verbs == \A op \in A!Ops : A!WireVerb(op) = A!Verb[op]
BY NoneAssumption
DEF A!Ops, A!Gets, A!Posts, A!WireVerb, A!Custom, A!Fields, A!Verb

\* A request that the server has or will have seen is of a call that was made,
\* and of the present one if it has its number.
SeenInv(r) ==
    /\ r.n <= calls[r.by]
    /\ r.n = calls[r.by] /\ call[r.by] # None => r = A!Meant(call[r.by])

CallInv ==
    /\ \A t \in Threads : call[t] # None => /\ status[t] = 0
                                           /\ call[t].by = t
                                           /\ call[t].n = calls[t]
    /\ \A r \in wire : SeenInv(r)
    /\ \A x \in served : SeenInv(x.call)

LEMMA CallEffect ==
    ASSUME A!TypeOK, NEW t \in Threads, NEW op \in A!Ops,
           NEW body \in Readings \cup {None}, A!Call(t, op, body)
    PROVE  \E c \in A!Calls :
               /\ c.by = t /\ c.n = calls[t] + 1 /\ c.body = body
               /\ c # None /\ call[t] = None
               /\ calls' = [calls EXCEPT ![t] = @ + 1]
               /\ call' = [call EXCEPT ![t] = c]
               /\ A!Meant(c) = [by |-> t, n |-> calls[t] + 1,
                                verb |-> A!Verb[op], body |-> body,
                                to |-> base, auth |-> token]
               /\ status' = [status EXCEPT ![t] = 0]
               /\ wire' \in {wire, wire \cup {A!Meant(c)}}
               /\ UNCHANGED <<base, token, served>>
<1> DEFINE c == [by |-> t, n |-> calls[t] + 1, op |-> op, body |-> body,
                 to |-> base, auth |-> token]
<1>1. c \in A!Calls
  BY DEF A!Calls, A!TypeOK
<1>2. c # None
  BY <1>1, NoneAssumption
<1>3. A!Meant(c) = A!As(A!Verb[op], c)
  BY <1>2 DEF A!Meant
<1>4. A!As(A!WireVerb(op), c) = A!As(A!Verb[op], c)
  BY Verbs
<1>5. /\ wire' \in {wire, wire \cup {A!As(A!WireVerb(op), c)}}
      /\ call[t] = None
      /\ calls' = [calls EXCEPT ![t] = @ + 1]
      /\ call' = [call EXCEPT ![t] = c]
      /\ status' = [status EXCEPT ![t] = 0]
      /\ UNCHANGED <<base, token, served>>
  BY DEF A!Call, A!NoStatus
<1>6. A!As(A!Verb[op], c) = [by |-> t, n |-> calls[t] + 1,
                            verb |-> A!Verb[op], body |-> body,
                            to |-> base, auth |-> token]
  BY DEF A!As
<1>7. c.by = t /\ c.n = calls[t] + 1 /\ c.body = body
  OBVIOUS
<1> HIDE DEF c
<1> QED
  BY <1>1, <1>2, <1>3, <1>4, <1>5, <1>6, <1>7

LEMMA CallInvStep == StepInv /\ CallInv /\ [Next]_vars => CallInv'
<1> SUFFICES ASSUME StepInv, CallInv, [Next]_vars PROVE CallInv'
  OBVIOUS
<1>0. A!TypeOK
  BY StepParts
<1>1. ASSUME NEW t \in Threads, NEW op \in A!Ops,
             NEW body \in Readings \cup {None}, A!Call(t, op, body)
      PROVE  CallInv'
  <2>0. PICK c \in A!Calls :
           /\ c.by = t /\ c.n = calls[t] + 1 /\ c # None
           /\ call[t] = None
           /\ calls' = [calls EXCEPT ![t] = @ + 1]
           /\ call' = [call EXCEPT ![t] = c]
           /\ A!Meant(c) = [by |-> t, n |-> calls[t] + 1,
                            verb |-> A!Verb[op], body |-> body,
                            to |-> base, auth |-> token]
           /\ status' = [status EXCEPT ![t] = 0]
           /\ wire' \in {wire, wire \cup {A!Meant(c)}}
           /\ UNCHANGED <<base, token, served>>
    BY <1>0, <1>1, CallEffect
  <2>1. /\ call[t] = None /\ call'[t] = c /\ c # None
        /\ calls'[t] = calls[t] + 1 /\ status'[t] = 0
        /\ A!Meant(c).by = t /\ A!Meant(c).n = calls[t] + 1
        /\ \A u \in Threads \ {t} : /\ call'[u] = call[u]
                                    /\ calls'[u] = calls[u]
                                    /\ status'[u] = status[u]
    BY <1>0, <2>0 DEF A!TypeOK
  <2>2. ASSUME NEW r \in A!Requests, SeenInv(r) PROVE SeenInv(r)'
    <3>1. calls[t] \in Nat /\ r.n \in Nat /\ r.by \in Threads
      BY <1>0 DEF A!TypeOK, A!Requests
    <3>2. CASE r.by = t
      BY <2>1, <2>2, <3>1, <3>2 DEF SeenInv
    <3>3. CASE r.by # t
      BY <2>1, <2>2, <3>1, <3>3 DEF SeenInv
    <3> QED
      BY <3>2, <3>3
  <2>3. SeenInv(A!Meant(c))'
    <3>1. /\ A!Meant(c)' = A!Meant(c) /\ calls'[t] \in Nat
      BY <1>0, <2>1 DEF A!TypeOK, A!Meant
    <3> QED
      BY <2>1, <3>1 DEF SeenInv
  <2>4. \A r \in wire' : SeenInv(r)'
    <3>1. \A r \in wire : SeenInv(r)'
      BY <1>0, <2>2 DEF CallInv, A!TypeOK
    <3> QED
      BY <2>0, <2>3, <3>1
  <2>5. \A x \in served' : SeenInv(x.call)'
    <3>1. \A x \in served : x.call \in A!Requests /\ SeenInv(x.call)
      BY <1>0 DEF CallInv, A!TypeOK
    <3> QED
      BY <2>0, <2>2, <3>1
  <2> QED
    BY <2>0, <2>1, <2>4, <2>5 DEF CallInv
<1>2. ASSUME NEW t \in Threads, A!Return(t)
      PROVE  CallInv'
  <2>1. /\ call'[t] = None /\ calls' = calls
        /\ \A u \in Threads \ {t} : call'[u] = call[u] /\ status'[u] = status[u]
        /\ UNCHANGED <<wire, served>>
    BY <1>0, <1>2 DEF A!Return, A!Outcome, A!Answer, A!TypeOK
  <2>2. \A r \in A!Requests : SeenInv(r) => SeenInv(r)'
    BY <1>0, <2>1 DEF SeenInv, A!Requests, A!TypeOK
  <2> QED
    BY <1>0, <2>1, <2>2 DEF CallInv, A!TypeOK
<1>3. ASSUME NEW r \in wire, NEW s \in Statuses, A!Serve(r, s)
      PROVE  CallInv'
  <2>1. /\ UNCHANGED <<call, calls, status>>
        /\ wire' \subseteq wire
        /\ served' = served \cup {[call |-> r, status |-> s]}
    BY <1>3 DEF A!Serve
  <2>2. \A q : SeenInv(q)' <=> SeenInv(q)
    BY <2>1 DEF SeenInv
  <2> QED
    BY <2>1, <2>2 DEF CallInv
<1>4. CASE UNCHANGED apiVars
  BY <1>4 DEF apiVars, CallInv, SeenInv
<1> QED
  BY <1>1, <1>2, <1>3, <1>4, ApiSteps

LEMMA RemoteStep ==
    StepInv /\ CallInv /\ [Next]_vars => [A!Remote!Next]_(A!Remote!vars)
<1> SUFFICES ASSUME StepInv, CallInv, [Next]_vars,
                    ~UNCHANGED A!Remote!vars
             PROVE  A!Remote!Next
  OBVIOUS
<1>0. A!TypeOK
  BY StepParts
<1>1. ASSUME NEW t \in Threads, NEW op \in A!Ops,
             NEW body \in Readings \cup {None}, A!Call(t, op, body)
      PROVE  A!Remote!Next
  <2>1. A!Verb[op] \in A!Methods
    BY DEF A!Verb, A!Ops, A!Methods
  <2>2. A!Remote!Begin(t, A!Verb[op], body)
    <3>0. PICK c \in A!Calls :
             /\ call[t] = None
             /\ calls' = [calls EXCEPT ![t] = @ + 1]
             /\ call' = [call EXCEPT ![t] = c]
             /\ A!Meant(c) = [by |-> t, n |-> calls[t] + 1,
                              verb |-> A!Verb[op], body |-> body,
                              to |-> base, auth |-> token]
             /\ status' = [status EXCEPT ![t] = 0]
             /\ wire' \in {wire, wire \cup {A!Meant(c)}}
             /\ UNCHANGED <<base, token, served>>
      BY <1>0, <1>1, CallEffect
    <3>1. A!Meant(call[t]) = None
      BY <3>0 DEF A!Meant
    <3>2. \A u \in Threads : call'[u] = IF u = t THEN c ELSE call[u]
      BY <1>0, <3>0 DEF A!TypeOK
    <3>3. [u \in Threads |-> A!Meant(call'[u])] =
          [[u \in Threads |-> A!Meant(call[u])] EXCEPT ![t] = A!Meant(c)]
      BY <3>2
    <3> QED
      BY <1>0, <3>0, <3>1, <3>3 DEF A!Remote!Begin
  <2> QED
    BY <2>1, <2>2 DEF A!Remote!Next
<1>2. ASSUME NEW t \in Threads, A!Return(t)
      PROVE  A!Remote!Next
  <2>1. /\ call[t] # None /\ call' = [call EXCEPT ![t] = None]
        /\ UNCHANGED <<base, token, calls, wire, served>>
        /\ \/ \E x \in served : /\ x.call.by = t /\ x.call.n = calls[t]
                               /\ status' = [status EXCEPT ![t] = x.status]
           \/ status' = status
    BY <1>2 DEF A!Return, A!Outcome, A!Answer
  <2>2. PICK s \in Statuses \cup {0} :
           /\ status' = [status EXCEPT ![t] = s]
           /\ s = 0 \/ [call |-> A!Meant(call[t]), status |-> s] \in served
    <3>1. CASE status' = status
      <4>1. status = [status EXCEPT ![t] = 0]
        BY <1>0, <2>1 DEF CallInv, A!TypeOK
      <4> QED
        BY <3>1, <4>1
    <3>2. ASSUME NEW x \in served, x.call.by = t, x.call.n = calls[t],
                 status' = [status EXCEPT ![t] = x.status]
          PROVE  \E s \in Statuses \cup {0} :
                   /\ status' = [status EXCEPT ![t] = s]
                   /\ s = 0 \/ [call |-> A!Meant(call[t]), status |-> s] \in served
      <4>1. x.call = A!Meant(call[t])
        BY <2>1, <3>2 DEF CallInv, SeenInv
      <4>2. x = [call |-> x.call, status |-> x.status] /\ x.status \in Statuses
        BY <1>0 DEF A!TypeOK
      <4> QED
        BY <3>2, <4>1, <4>2
    <3> QED
      BY <2>1, <3>1, <3>2
  <2>3. A!Meant(call[t]) # None
    <3>1. call[t] \in A!Calls
      BY <1>0, <2>1 DEF A!TypeOK
    <3>2. A!Verb[call[t].op] \in A!Methods
      BY <3>1 DEF A!Calls, A!Verb, A!Ops, A!Methods
    <3>3. A!Meant(call[t]) \in A!Requests
      BY <2>1, <3>1, <3>2 DEF A!Meant, A!As, A!Requests, A!Calls
    <3> QED
      BY <3>3, NoneAssumption
  <2>4. [u \in Threads |-> A!Meant(call'[u])] =
        [[u \in Threads |-> A!Meant(call[u])] EXCEPT ![t] = None]
    BY <1>0, <2>1 DEF A!Meant, A!TypeOK
  <2>5. A!Remote!Return(t, s)
    BY <2>1, <2>2, <2>3, <2>4 DEF A!Remote!Return
  <2> QED
    BY <2>5 DEF A!Remote!Next
<1>3. ASSUME NEW r \in wire, NEW s \in Statuses, A!Serve(r, s)
      PROVE  A!Remote!Next
  BY <1>3 DEF A!Serve, A!Remote!Serve, A!Remote!Next
<1>4. CASE UNCHANGED apiVars
  BY <1>4 DEF apiVars, A!Remote!vars
<1> QED
  BY <1>1, <1>2, <1>3, <1>4, ApiSteps

\* The services under the App's threads are the RemoteCall their callers rely
\* on: a call is seen at most once, with its own method and body, and returns
\* its own answer or none.
THEOREM Refinement == Spec => ImplementsRemoteCall
<1>1. Init => CallInv /\ A!Remote!Init
  BY DEF Init, A!Init, CallInv, A!Remote!Init, A!Meant
<1> QED
  BY <1>1, Stepping, CallInvStep, RemoteStep, PTL
  DEF Spec, ImplementsRemoteCall, A!ImplementsRemoteCall, A!Remote!Spec

-----------------------------------------------------------------------------
\* What is left of a reading whose post fails.

\* What was written stays; and only the push thread's report writes about a
\* reading.
LEMMA LinesStay ==
    ASSUME StepInv, [Next]_vars
    PROVE  /\ \A level, n : Printed(level, n) => Printed(level, n)'
           /\ ~PushReport => \A level : \A n \in Readings :
                                 Printed(level, n)' => Printed(level, n)
<1>0. writing \in [Threads -> SUBSET L!Messages] /\ Threads = {"api", "push"}
      /\ 0 \notin Readings
  BY StepParts DEF L!TypeOK, Threads, Readings
<1>1. ASSUME NEW t \in Threads, NEW m, L!Log(t, m), writing[t] = {}
      PROVE  /\ \A level, n : Printed(level, n) => Printed(level, n)'
             /\ \A level, n : Printed(level, n)' =>
                    Printed(level, n) \/ m.about = n
  <2>1. /\ lines' = lines
        /\ writing' = writing \/ writing' = [writing EXCEPT ![t] = {m}]
    BY <1>1, LogEffect
  <2> QED
    BY <1>0, <1>1, <2>1 DEF Printed
<1>2. ASSUME NEW t \in Threads, L!LogEnd(t)
      PROVE  \A level, n : Printed(level, n)' <=> Printed(level, n)
  BY <1>0, <1>2 DEF L!LogEnd, Printed
<1>3. ASSUME UNCHANGED <<writing, lines>>
      PROVE  \A level, n : Printed(level, n)' <=> Printed(level, n)
  BY <1>3 DEF Printed
<1>4. CASE SyncReport
  <2>1. UNCHANGED logVars \/ \E m : m.about = 0 /\ L!Log("api", m)
    <3>1. \A l : [level |-> l, about |-> 0].about = 0
      OBVIOUS
    <3> QED
      BY <1>4, <3>1 DEF SyncReport
  <2>2. writing["api"] = {}
    BY <1>4 DEF SyncReport, Turn
  <2>3. CASE UNCHANGED logVars
    BY <1>3, <2>3 DEF logVars
  <2>4. ASSUME NEW m, m.about = 0, L!Log("api", m)
        PROVE  /\ \A level, n : Printed(level, n) => Printed(level, n)'
               /\ \A level : \A n \in Readings :
                      Printed(level, n)' => Printed(level, n)
    BY <1>0, <1>1, <2>2, <2>4
  <2> QED
    BY <2>1, <2>3, <2>4
<1>5. CASE PushReport
  <2>1. writing["push"] = {} /\ \E m : L!Log("push", m)
    BY <1>5 DEF PushReport, Turn
  <2> QED
    BY <1>0, <1>1, <1>5, <2>1
<1>6. CASE ~Logging
  <2>1. \/ \E t \in Threads : L!LogEnd(t)
        \/ UNCHANGED <<writing, lines>>
    BY <1>6, LogSteps DEF L!SetLevelEnabled, logVars
  <2> QED
    BY <1>2, <1>3, <2>1
<1> QED
  BY <1>4, <1>5, <1>6 DEF Logging

LEMMA AcceptedStays ==
    ASSUME StepInv, [Next]_vars
    PROVE  /\ served \subseteq served'
           /\ \A n : Accepted(n) => Accepted(n)'
<1>1. served \subseteq served'
  BY ApiSteps DEF A!Call, A!Return, A!Serve, apiVars
<1> QED
  BY <1>1 DEF Accepted

\* The answer the push thread is about to report is that of its own reading.
AnswerInv ==
    phase["push"] = "report" =>
        IF call["push"] # None THEN call["push"].body = reading
        ELSE \/ status["push"] = 0
             \/ \E x \in served : x.call.body = reading
                                 /\ x.status = status["push"]

LossInv ==
    /\ main = "config" => phase["push"] = "off" /\ reading = 0
    /\ AnswerInv
    /\ LossReported

\* Reports that stand, stay: a step that reports no further reading.
LEMMA ReportsStay ==
    ASSUME StepInv, [Next]_vars, ~PushReport, LossReported,
           enabled' = enabled \/ Reported' = {},
           \A n \in Readings : n \in Reported' => n \in Reported
    PROVE  LossReported'
<1>1. \A n \in Reported' : n \in Reported
  BY DEF Reported
<1> QED
  BY <1>1, LinesStay, AcceptedStays DEF LossReported

\* The levels are set before the threads run.
LEMMA LevelsStay ==
    ASSUME StepInv, [Next]_vars, ~Config
    PROVE  enabled' = enabled
BY LogSteps, LogEffect DEF L!LogEnd, logVars

\* All but the push thread, and the end of its request, leave it alone.
Elsewhere ==
    /\ UNCHANGED <<reading, phase["push"], call["push"], status["push"]>>
    /\ main' = "config" => main = "config"

LEMMA PushAlone ==
    ASSUME StepInv, [Next]_vars, ~PushStep, ~Run, ~A!Return("push")
    PROVE  Elsewhere
<1>0. /\ phase \in [Threads -> {"off", "check", "call", "report", "done"}]
      /\ call \in [Threads -> A!Calls \cup {None}]
      /\ status \in [Threads -> Statuses \cup {0}]
      /\ "push" \in Threads /\ "api" \in Threads /\ "api" # "push"
  BY StepParts DEF TaskTypeOK, A!TypeOK, Threads
<1>1. CASE SyncCall
  <2>1. /\ call' = [call EXCEPT !["api"] = call'["api"]]
        /\ status' = [status EXCEPT !["api"] = 0]
    BY <1>0, <1>1 DEF SyncCall, A!Call, A!NoStatus
  <2> QED
    BY <1>0, <1>1, <2>1 DEF SyncCall, Turn, Elsewhere
<1>2. CASE SyncCheck \/ SyncReport
  BY <1>0, <1>2 DEF SyncCheck, SyncReport, Turn, Elsewhere, apiVars
<1>3. ASSUME Return("api")
      PROVE  Elsewhere
  BY <1>0, <1>3
  DEF Return, A!Return, A!Outcome, A!Answer, taskVars, Elsewhere
<1>4. CASE Returning
  BY <1>3, <1>4 DEF Returning, Return, Threads
<1>5. CASE Config \/ Stop \/ Ending \/ Server \/ Finished \/ UNCHANGED vars
  BY <1>5
  DEF Config, Stop, Ending, EndLine, Server, A!ServerStep, A!Serve, Finished,
      vars, taskVars, apiVars, Elsewhere
<1> QED
  BY <1>1, <1>2, <1>4, <1>5 DEF Next, SyncStep, Returning, Ending

LEMMA LossStep == StepInv /\ CallInv /\ LossInv /\ [Next]_vars => LossInv'
<1> SUFFICES ASSUME StepInv, CallInv, LossInv, [Next]_vars PROVE LossInv'
  OBVIOUS
<1>0. /\ TaskTypeOK /\ A!TypeOK
      /\ "push" \in Threads /\ reading \in Nat
  BY StepParts, BoundsAssumption DEF TaskTypeOK, Threads
<1>1. CASE PushCheck
  <2>1. phase["push"] = "check" /\ main # "config" /\ main' = main
    BY <1>1 DEF PushCheck, Turn, LossInv
  <2>2. phase'["push"] # "report"
    BY <1>0, <1>1 DEF PushCheck, Turn, TaskTypeOK
  <2>3. \A n \in Readings : n \in Reported' => n \in Reported
    BY <1>0, <1>1, <2>1 DEF PushCheck, Turn, TaskTypeOK, Reported, Readings
  <2>4. enabled' = enabled /\ ~PushReport
    BY <1>1, <2>1 DEF PushCheck, PushReport, Turn, logVars
  <2> QED
    BY <2>1, <2>2, <2>3, <2>4, ReportsStay DEF LossInv, AnswerInv
<1>2. CASE PushCall
  <2>1. reading \in Readings \cup {None} /\ "sendSensorData" \in A!Ops
    BY <1>0, <1>2 DEF PushCall, Turn, TaskTypeOK, Readings, A!Ops, A!Posts
  <2>2. call'["push"] # None /\ call'["push"].body = reading
    <3>1. PICK c \in A!Calls : /\ c.body = reading /\ c # None
                               /\ call' = [call EXCEPT !["push"] = c]
      BY <1>0, <1>2, <2>1, CallEffect DEF PushCall
    <3> QED
      BY <1>0, <3>1 DEF A!TypeOK
  <2>3. /\ phase["push"] = "call" /\ phase'["push"] = "report"
        /\ main' = main /\ reading' = reading
    BY <1>0, <1>2 DEF PushCall, Turn, TaskTypeOK
  <2>4. \A n \in Readings : n \in Reported' => n \in Reported
    BY <2>3 DEF Reported
  <2>5. enabled' = enabled /\ ~PushReport
    BY <1>2, <2>3 DEF PushCall, PushReport, Turn, logVars
  <2> QED
    BY <2>2, <2>3, <2>4, <2>5, ReportsStay DEF LossInv, AnswerInv
<1>3. CASE PushReport
  <2> DEFINE lev == IF status["push"] \in Accepting THEN "DEBUG" ELSE "WARNING"
             m == [level |-> lev, about |-> reading]
  <2>1. /\ phase["push"] = "report" /\ phase'["push"] = "check"
        /\ call["push"] = None
        /\ main' = main /\ reading' = reading /\ served' = served
    BY <1>0, <1>3 DEF PushReport, Turn, TaskTypeOK, apiVars
  <2>2. writing \in [Threads -> SUBSET L!Messages]
    BY StepParts DEF L!TypeOK
  <2>3. m.level = lev /\ m.about = reading
    OBVIOUS
  <2>4. L!Log("push", m)
    BY <1>3 DEF PushReport
  <2> HIDE DEF m
  <2>5. /\ lines' = lines /\ enabled' = enabled
        /\ \/ ~enabled[m.level] /\ writing' = writing
           \/ writing' = [writing EXCEPT !["push"] = {m}]
    BY <2>4, LogEffect
  <2>6. ASSUME NEW l, l = lev, enabled[l], NEW n, n = reading
        PROVE  Printed(l, n)'
    <3>1. m \in writing'["push"]
      BY <1>0, <2>2, <2>3, <2>5, <2>6
    <3> QED
      BY <1>0, <2>3, <2>6, <3>1 DEF Printed
  <2>7. ASSUME status["push"] \in Accepting, NEW n, n = reading
        PROVE  Accepted(n)'
    BY <2>1, <2>7 DEF LossInv, AnswerInv, Accepting, Accepted
  <2>8. ASSUME NEW n \in Readings, n \in Reported', n # reading
        PROVE  n \in Reported
    BY <2>1, <2>8 DEF Reported
  <2>9. ASSUME NEW n, Printed("DEBUG", n)', ~Printed("DEBUG", n)
        PROVE  n = reading /\ status["push"] \in Accepting
    BY <1>0, <2>2, <2>3, <2>5, <2>9 DEF Printed
  <2>10. ASSUME enabled'["WARNING"], NEW n \in Reported'
         PROVE  Accepted(n)' \/ Printed("WARNING", n)'
    <3>1. CASE n = reading
      <4>1. CASE status["push"] \in Accepting
        BY <2>7, <3>1, <4>1
      <4>2. CASE status["push"] \notin Accepting
        BY <2>5, <2>6, <2>10, <3>1, <4>2
      <4> QED
        BY <4>1, <4>2
    <3>2. CASE n # reading
      BY <2>5, <2>8, <2>10, <3>2, LinesStay, AcceptedStays
      DEF LossInv, LossReported, Reported
    <3> QED
      BY <3>1, <3>2
  <2>11. ASSUME NEW n \in Readings, Printed("DEBUG", n)'
         PROVE  Accepted(n)'
    BY <2>7, <2>9, <2>11, AcceptedStays DEF LossInv, LossReported
  <2>12. LossReported'
    BY <2>10, <2>11 DEF LossReported
  <2> QED
    BY <2>1, <2>12 DEF LossInv, AnswerInv
<1>4. CASE Run
  <2>1. reading' = 0 /\ main' = "sleep" /\ phase'["push"] = "check"
    BY <1>0, <1>4 DEF Run, LossInv
  <2>2. Reported' = {}
    BY <2>1 DEF Reported, Readings
  <2>3. ~PushReport
    BY <1>4 DEF Run, PushReport, Turn, LossInv
  <2> QED
    BY <2>1, <2>2, <2>3, ReportsStay DEF LossInv, AnswerInv
<1>5. CASE A!Return("push") /\ Returning
  <2>1. /\ UNCHANGED taskVars /\ call["push"] # None
        /\ call'["push"] = None /\ served' = served
        /\ \/ \E x \in served : /\ x.call.by = "push"
                                /\ x.call.n = calls["push"]
                                /\ status'["push"] = x.status
           \/ status' = status
    BY <1>0, <1>5
    DEF Returning, Return, A!Return, A!Outcome, A!Answer, A!TypeOK
  <2>2. status["push"] = 0
    BY <1>0, <2>1 DEF CallInv
  <2>3. \A x \in served : x.call.by = "push" /\ x.call.n = calls["push"] =>
            x.call.body = call["push"].body
    <3>1. A!Meant(call["push"]).body = call["push"].body
      BY <2>1 DEF A!Meant, A!As
    <3>2. \A x \in served : x.call.by = "push" /\ x.call.n = calls["push"] =>
              x.call = A!Meant(call["push"])
      BY <2>1 DEF CallInv, SeenInv
    <3> QED
      BY <3>1, <3>2
  <2>4. AnswerInv'
    BY <2>1, <2>2, <2>3 DEF taskVars, LossInv, AnswerInv
  <2>5. LossReported'
    <3>1. enabled' = enabled /\ ~PushReport
      BY <1>0, <1>5, <2>1
      DEF Returning, Return, PushReport, Turn, logVars, taskVars
    <3> QED
      BY <2>1, <3>1, ReportsStay DEF taskVars, LossInv, Reported
  <2> QED
    BY <2>1, <2>4, <2>5 DEF taskVars, LossInv
<1>6. CASE Elsewhere
  <2>1. AnswerInv'
    BY <1>6, AcceptedStays DEF Elsewhere, LossInv, AnswerInv
  <2>2. enabled' = enabled \/ Reported' = {}
    <3>1. CASE Config
      <4>1. phase'["push"] = "off" /\ reading' = 0
        BY <1>6, <3>1 DEF Config, Elsewhere, LossInv
      <4> QED
        BY <4>1 DEF Reported, Readings
    <3> QED
      BY <3>1, LevelsStay
  <2>3. ~PushReport
    BY <1>0, <1>6 DEF Elsewhere, PushReport, Turn, TaskTypeOK
  <2>4. LossReported'
    BY <1>6, <2>2, <2>3, ReportsStay DEF Elsewhere, LossInv, Reported
  <2> QED
    BY <1>6, <2>1, <2>4 DEF Elsewhere, LossInv
<1>7. ASSUME A!Return("push")
      PROVE  Returning
  <2>1. call["push"] # None /\ call'["push"] = None
    BY <1>0, <1>7 DEF A!Return, A!TypeOK
  <2>2. ASSUME NEW t \in Threads, NEW op, NEW body, A!Call(t, op, body)
        PROVE  FALSE
    <3>1. call[t] = None /\ call' = [call EXCEPT ![t] = call'[t]]
      BY <1>0, <2>2 DEF A!Call, A!TypeOK
    <3> QED
      BY <1>0, <2>1, <3>1 DEF A!TypeOK
  <2> QED
    BY <2>1, <2>2, ApiSteps DEF A!Serve, apiVars
<1> QED
  BY <1>1, <1>2, <1>3, <1>4, <1>5, <1>6, <1>7, PushAlone DEF PushStep

\* A reading whose post fails, is refused or gets no answer is in the log as
\* such, and none is called sent that the server did not accept
\* (App::dataPushTask, app.cpp:214-220).
THEOREM LossTold == Spec => []LossReported
<1>1. Init => CallInv /\ LossInv
  BY DEF Init, A!Init, CallInv, LossInv, AnswerInv, LossReported, Reported,
         Readings, Threads, L!Init, Printed
<1> QED
  BY <1>1, Stepping, CallInvStep, LossStep, PTL DEF Spec, LossInv

-----------------------------------------------------------------------------
\* What is left of a thread once the App is stopped.

\* Its turns: the requests still to come in the cycle with their reports, and
\* the look at running_; and the request or the line it is in the middle of.
Turns(t) ==
    CASE t = "api" /\ phase[t] = "call"    -> 9 - 2 * step
      [] t = "api" /\ phase[t] = "report"  -> 8 - 2 * step
      [] t = "push" /\ phase[t] = "call"   -> 3
      [] t = "push" /\ phase[t] = "report" -> 2
      [] phase[t] = "check"                -> 1
      [] OTHER                             -> 0
Busy(t) == CASE call[t] # None /\ writing[t] # {} -> 2
             [] call[t] # None /\ writing[t] = {} -> 1
             [] call[t] = None /\ writing[t] # {} -> 1
             [] OTHER                             -> 0
Left(t) == 2 * Turns(t) + Busy(t)

RequestsLeft(t) ==
    CASE t = "api" /\ phase[t] = "call"   -> 4 - step
      [] t = "api" /\ phase[t] = "report" -> 3 - step
      [] t = "push" /\ phase[t] = "call"  -> 1
      [] OTHER                            -> 0

StepOf(t) ==
    \/ t = "api" /\ SyncStep
    \/ t = "push" /\ PushStep
    \/ Return(t)
    \/ EndLine(t)

StopShrinks ==
    main = "stopped" =>
        \A t \in Threads :
            /\ StepOf(t) => Left(t)' < Left(t)
            /\ ~StepOf(t) => Left(t)' = Left(t)
            /\ calls'[t] + RequestsLeft(t)' = calls[t] + RequestsLeft(t)

StopBounded ==
    main = "stopped" =>
        \A t \in Threads : /\ Left(t) \in 0..16
                           /\ Left(t) = 0 <=> phase[t] = "done"
                           /\ RequestsLeft(t) \in 0..IF t = "api" THEN 3 ELSE 1

StopInv ==
    /\ main = "stopped" => ~running
    /\ \A t \in Threads :
          /\ main = "config" <=> phase[t] = "off"
          /\ phase[t] = "done" => call[t] = None /\ writing[t] = {}

LEMMA ThreadTypes ==
    ASSUME StepInv
    PROVE  /\ phase \in [Threads -> {"off", "check", "call", "report", "done"}]
           /\ call \in [Threads -> A!Calls \cup {None}]
           /\ calls \in [Threads -> Nat]
           /\ writing \in [Threads -> SUBSET L!Messages]
           /\ step \in {1, 2, 3}
           /\ Len(SyncOps) = 3
<1>1. Len(SyncOps) = 3
  BY DEF SyncOps
<1> QED
  BY <1>1, StepParts DEF TaskTypeOK, A!TypeOK, L!TypeOK

\* The steps of the others do not touch what a thread has left.
LEMMA Untouched ==
    ASSUME StepInv, [Next]_vars, main # "config",
           NEW t \in Threads, ~StepOf(t)
    PROVE  /\ UNCHANGED <<phase[t], call[t], calls[t], writing[t]>>
           /\ t = "api" => step' = step
<1> USE ThreadTypes
<1>0. "api" \in Threads /\ "push" \in Threads /\ \A u \in Threads : u \in {"api", "push"}
  BY DEF Threads
<1>1. CASE SyncStep
  <2>1. t = "push"
    BY <1>0, <1>1 DEF StepOf
  <2>2. CASE SyncCall
    <3>1. /\ call' = [call EXCEPT !["api"] = call'["api"]]
          /\ calls' = [calls EXCEPT !["api"] = @ + 1]
      BY <1>0, <2>2 DEF SyncCall, A!Call
    <3> QED
      BY <1>0, <2>1, <2>2, <3>1 DEF SyncCall, Turn, logVars
  <2>3. CASE SyncReport
    <3>1. \A m : L!Log("api", m) => writing'[t] = writing[t]
      BY <1>0, <2>1, LogEffect
    <3>2. writing'[t] = writing[t]
      BY <2>3, <3>1 DEF SyncReport, logVars
    <3> QED
      BY <1>0, <2>1, <2>3, <3>2 DEF SyncReport, Turn, apiVars
  <2>4. CASE SyncCheck
    BY <1>0, <2>1, <2>4 DEF SyncCheck, Turn, apiVars, logVars
  <2> QED
    BY <1>1, <2>2, <2>3, <2>4 DEF SyncStep
<1>2. CASE PushStep
  <2>1. t = "api"
    BY <1>0, <1>2 DEF StepOf
  <2>2. CASE PushCall
    <3>1. /\ call' = [call EXCEPT !["push"] = call'["push"]]
          /\ calls' = [calls EXCEPT !["push"] = @ + 1]
      BY <1>0, <2>2 DEF PushCall, A!Call
    <3> QED
      BY <1>0, <2>1, <2>2, <3>1 DEF PushCall, Turn, logVars
  <2>3. CASE PushReport
    <3>1. \A m : L!Log("push", m) => writing'[t] = writing[t]
      BY <1>0, <2>1, LogEffect
    <3>2. writing'[t] = writing[t]
      BY <2>3, <3>1 DEF PushReport
    <3> QED
      BY <1>0, <2>1, <2>3, <3>2 DEF PushReport, Turn, apiVars
  <2>4. CASE PushCheck
    BY <1>0, <2>1, <2>4 DEF PushCheck, Turn, apiVars, logVars
  <2> QED
    BY <1>2, <2>2, <2>3, <2>4 DEF PushStep
<1>3. ASSUME NEW u \in Threads, Return(u) \/ EndLine(u)
      PROVE  UNCHANGED <<phase[t], call[t], calls[t], writing[t], step>>
  <2>1. u # t
    BY <1>3 DEF StepOf
  <2>2. CASE Return(u)
    BY <2>1, <2>2 DEF Return, A!Return, taskVars, logVars
  <2>3. CASE EndLine(u)
    BY <2>1, <2>3 DEF EndLine, L!LogEnd, taskVars, apiVars
  <2> QED
    BY <1>3, <2>2, <2>3
<1>4. CASE Config \/ Stop \/ Server \/ Finished \/ UNCHANGED vars
  BY <1>4 DEF Config, Stop, Server, A!ServerStep, A!Serve, Finished, vars,
              taskVars, apiVars, logVars
<1>5. ~Run
  BY DEF Run
<1> QED
  BY <1>1, <1>2, <1>3, <1>4, <1>5 DEF Next

\* A turn begins at most one of a request and a line, and a request counts.
LEMMA TurnOf ==
    ASSUME StepInv, ~running, NEW t \in Threads,
           (t = "api" /\ SyncStep) \/ (t = "push" /\ PushStep)
    PROVE  /\ call[t] = None /\ writing[t] = {}
           /\ call'[t] = None \/ writing'[t] = {}
           /\ phase'[t] = "done" => call'[t] = None /\ writing'[t] = {}
           /\ \/ phase[t] = "call" /\ phase'[t] = "report" /\ step' = step
                 /\ calls'[t] = calls[t] + 1
              \/ /\ phase[t] = "report" /\ calls'[t] = calls[t]
                 /\ \/ t = "api" /\ phase'[t] = "call" /\ step' = step + 1
                                 /\ step < 3
                    \/ t = "api" /\ phase'[t] = "check" /\ step = 3
                    \/ t = "push" /\ phase'[t] = "check"
              \/ phase[t] = "check" /\ phase'[t] = "done" /\ calls'[t] = calls[t]
           /\ main' = main /\ running' = running
<1> USE ThreadTypes
<1>1. CASE t = "api" /\ SyncCheck
  BY <1>1 DEF SyncCheck, Turn, apiVars, logVars
<1>2. CASE t = "api" /\ SyncCall
  BY <1>2 DEF SyncCall, Turn, A!Call, logVars
<1>3. CASE t = "api" /\ SyncReport
  <2>1. \/ step < Len(SyncOps) /\ Turn("api", "report", "call")
                              /\ step' = step + 1
        \/ step = Len(SyncOps) /\ Turn("api", "report", "check")
    BY <1>3, Zenon DEF SyncReport
  <2>2. UNCHANGED <<running, main, apiVars>>
    BY <1>3, Zenon DEF SyncReport
  <2> QED
    BY <1>3, <2>1, <2>2 DEF Turn, apiVars
<1>4. CASE t = "push" /\ PushCheck
  BY <1>4 DEF PushCheck, Turn, apiVars, logVars
<1>5. CASE t = "push" /\ PushCall
  BY <1>5 DEF PushCall, Turn, A!Call, logVars
<1>6. CASE t = "push" /\ PushReport
  BY <1>6 DEF PushReport, Turn, apiVars
<1> QED
  BY <1>1, <1>2, <1>3, <1>4, <1>5, <1>6 DEF SyncStep, PushStep

LEMMA Halves ==
    ASSUME NEW m \in Nat, NEW m1 \in Nat, m1 < m, NEW b \in 0..1
    PROVE  2 * m1 + b < 2 * m + 0
OBVIOUS

LEMMA OwnShrinks ==
    ASSUME StepInv, ~running, NEW t \in Threads, StepOf(t)
    PROVE  /\ Left(t)' < Left(t)
           /\ calls'[t] + RequestsLeft(t)' = calls[t] + RequestsLeft(t)
<1> USE ThreadTypes
<1>0. t \in {"api", "push"}
  BY DEF Threads
<1>1. CASE (t = "api" /\ SyncStep) \/ (t = "push" /\ PushStep)
  <2> USE <1>1, TurnOf
  <2>1. Busy(t) = 0 /\ Busy(t)' \in 0..1
    BY DEF Busy
  <2>2. /\ Turns(t) \in Nat /\ Turns(t)' \in Nat
        /\ Turns(t)' < Turns(t)
    <3>1. CASE t = "api"
      <4>1. CASE step = 1
        BY <3>1, <4>1 DEF Turns
      <4>2. CASE step = 2
        BY <3>1, <4>2 DEF Turns
      <4>3. CASE step = 3
        BY <3>1, <4>3 DEF Turns
      <4> QED
        BY <4>1, <4>2, <4>3
    <3>2. CASE t = "push"
      BY <3>2 DEF Turns
    <3> QED
      BY <1>0, <3>1, <3>2
  <2>3. calls'[t] + RequestsLeft(t)' = calls[t] + RequestsLeft(t)
    <3>1. CASE t = "api"
      <4>1. CASE step = 1
        BY <3>1, <4>1 DEF RequestsLeft
      <4>2. CASE step = 2
        BY <3>1, <4>2 DEF RequestsLeft
      <4>3. CASE step = 3
        BY <3>1, <4>3 DEF RequestsLeft
      <4> QED
        BY <4>1, <4>2, <4>3
    <3>2. CASE t = "push"
      BY <3>2 DEF RequestsLeft
    <3> QED
      BY <1>0, <3>1, <3>2
  <2>4. Left(t)' < Left(t)
    BY <2>1, <2>2, Halves DEF Left
  <2> QED
    BY <2>3, <2>4
<1>2. CASE Return(t) \/ EndLine(t)
  <2>1. UNCHANGED <<phase, step, calls>>
    BY <1>2 DEF Return, A!Return, EndLine, taskVars, apiVars
  <2>2. \/ call[t] # None /\ call'[t] = None /\ writing' = writing
        \/ writing[t] # {} /\ writing'[t] = {} /\ call' = call
    BY <1>2 DEF Return, A!Return, EndLine, L!LogEnd, apiVars, logVars
  <2>3. Turns(t)' = Turns(t) /\ RequestsLeft(t)' = RequestsLeft(t)
    BY <2>1 DEF Turns, RequestsLeft
  <2>4. Busy(t) \in Nat /\ Busy(t)' \in Nat /\ Busy(t)' < Busy(t)
    BY <2>2 DEF Busy
  <2>5. Turns(t) \in Nat
    BY <1>0 DEF Turns
  <2>6. \A n, b, b1 \in Nat : b1 < b => 2 * n + b1 < 2 * n + b
    OBVIOUS
  <2> QED
    BY <2>1, <2>3, <2>4, <2>5, <2>6 DEF Left
<1> QED
  BY <1>1, <1>2 DEF StepOf

LEMMA StopStep == StepInv /\ StopInv /\ [Next]_vars => StopInv'
<1> SUFFICES ASSUME StepInv, StopInv, [Next]_vars PROVE StopInv'
  OBVIOUS
<1> USE ThreadTypes
<1>0. "api" \in Threads /\ "push" \in Threads
  BY DEF Threads
<1>1. CASE Run
  BY <1>1 DEF Run, StopInv, apiVars, logVars
<1>2. CASE main = "config" /\ ~Run
  <2>1. \A t \in Threads : /\ phase[t] = "off"
                           /\ call[t] = None => ~Return(t)
    BY <1>2 DEF StopInv, Return, A!Return
  <2>2. ~SyncStep /\ ~PushStep
    BY <1>0, <2>1 DEF SyncStep, SyncCheck, SyncCall, SyncReport, PushStep,
                      PushCheck, PushCall, PushReport, Turn
  <2>3. UNCHANGED <<main, running, phase>>
    BY <1>2, <2>2
    DEF Next, Config, Stop, Return, EndLine, Server, Finished, vars, taskVars
  <2> QED
    BY <1>2, <2>1, <2>3 DEF StopInv
<1>3. CASE main # "config"
  <2>1. main' # "config" /\ (main' = "stopped" => ~running')
    BY <1>3
    DEF StopInv, Next, Config, Run, Stop, SyncStep, SyncCheck, SyncCall,
        SyncReport, PushStep, PushCheck, PushCall, PushReport, Return, EndLine,
        Server, Finished, vars, taskVars
  <2>2. ASSUME NEW t \in Threads
        PROVE  /\ phase'[t] # "off"
               /\ phase'[t] = "done" => call'[t] = None /\ writing'[t] = {}
    <3>1. CASE ~StepOf(t)
      BY <1>3, <3>1, Untouched DEF StopInv
    <3>2. CASE (t = "api" /\ SyncCheck) \/ (t = "push" /\ PushCheck)
      BY <3>2 DEF SyncCheck, PushCheck, Turn, apiVars, logVars
    <3>3. CASE (t = "api" /\ (SyncCall \/ SyncReport))
               \/ (t = "push" /\ (PushCall \/ PushReport))
      <4>1. phase'[t] \in {"call", "report", "check"}
        BY <3>3 DEF SyncCall, SyncReport, PushCall, PushReport, Turn
      <4> QED
        BY <4>1
    <3>4. CASE Return(t) \/ EndLine(t)
      <4>1. phase' = phase /\ (call[t] # None \/ writing[t] # {})
        BY <3>4 DEF Return, A!Return, EndLine, L!LogEnd, taskVars
      <4> QED
        BY <1>3, <4>1 DEF StopInv
    <3> QED
      BY <3>1, <3>2, <3>3, <3>4 DEF StepOf, SyncStep, PushStep
  <2> QED
    BY <2>1, <2>2 DEF StopInv
<1> QED
  BY <1>1, <1>2, <1>3

LEMMA LeftBounded == StepInv /\ StopInv => StopBounded
<1> SUFFICES ASSUME StepInv, StopInv, main = "stopped", NEW t \in Threads
             PROVE  /\ Left(t) \in 0..16
                    /\ Left(t) = 0 <=> phase[t] = "done"
                    /\ RequestsLeft(t) \in 0..IF t = "api" THEN 3 ELSE 1
  BY DEF StopBounded
<1> USE ThreadTypes
<1>1. t \in {"api", "push"} /\ phase[t] # "off"
  BY DEF Threads, StopInv
<1>2. Busy(t) \in 0..2 /\ (phase[t] = "done" => Busy(t) = 0)
  BY DEF Busy, StopInv
<1>3. Turns(t) \in 0..7 /\ (Turns(t) = 0 <=> phase[t] = "done")
  BY <1>1 DEF Turns
<1>4. \A n \in 0..7, b \in 0..2 : /\ 2 * n + b \in 0..16
                                  /\ 2 * n + b = 0 <=> n = 0 /\ b = 0
  OBVIOUS
<1>5. RequestsLeft(t) \in 0..IF t = "api" THEN 3 ELSE 1
  BY <1>1 DEF RequestsLeft
<1> QED
  BY <1>2, <1>3, <1>4, <1>5 DEF Left

\* What StopSeen rests on: after the stop each thread has a bounded number of
\* steps left, whatever the server does; its own use them up and those of the
\* other do not add to them.  The API thread makes as many requests as were
\* left of its cycle, at most three, and the push thread at most the one post
\* (App::apiSyncTask and dataPushTask, apps/app.cpp).
THEOREM StopIsBounded == Spec => []StopBounded /\ [][StopShrinks]_vars
<1>1. Init => StopInv
  BY DEF Init, StopInv
<1>2. StepInv /\ StopInv /\ [Next]_vars => [StopShrinks]_vars
  <2> SUFFICES ASSUME StepInv, StopInv, [Next]_vars, main = "stopped",
                      NEW t \in Threads
               PROVE  /\ StepOf(t) => Left(t)' < Left(t)
                      /\ ~StepOf(t) => Left(t)' = Left(t)
                      /\ calls'[t] + RequestsLeft(t)'
                             = calls[t] + RequestsLeft(t)
    BY DEF StopShrinks
  <2>1. CASE StepOf(t)
    BY <2>1, OwnShrinks DEF StopInv
  <2>2. CASE ~StepOf(t)
    <3>1. Turns(t)' = Turns(t) /\ Busy(t)' = Busy(t)
          /\ RequestsLeft(t)' = RequestsLeft(t) /\ calls'[t] = calls[t]
      BY <2>2, Untouched DEF Turns, Busy, RequestsLeft
    <3> QED
      BY <2>2, <3>1 DEF Left
  <2> QED
    BY <2>1, <2>2
<1> QED
  BY <1>1, <1>2, Stepping, StopStep, LeftBounded, PTL DEF Spec

=============================================================================
