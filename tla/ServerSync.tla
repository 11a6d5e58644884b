----------------------------- MODULE ServerSync -----------------------------
(***************************************************************************)
(* What the App's threads do with the HTTP API (apps/app.cpp): the three   *)
(* requests of every cycle of the API thread and the post of every reading *)
(* by the push thread, on WarehouseApi, with the Logger lines that are all *)
(* the App makes of the answers.  In App each request is one step.         *)
(***************************************************************************)
EXTENDS Naturals, Sequences

CONSTANTS
    Bases, Tokens, Statuses, None, Free,
    Configured,    \* levels that the config file may disable
    MaxReadings,   \* bound: readings that reach the push thread
    MaxSyncs       \* bound: cycles of the API thread

Threads  == {"api", "push"}
Readings == 1..MaxReadings

VARIABLES
    running,       \* running_
    main,          \* main(): "config", "sleep", "stopped"
    phase,         \* where each thread is between its requests
    step,          \* the API thread: its request of the cycle
    syncs,         \* cycles it has begun
    reading        \* the push thread: the last reading it took

VARIABLES base, token, calls, call, curl, status, handles, lists, wire, served
VARIABLES mutex, enabled, writing, line, lines

taskVars == <<running, main, phase, step, syncs, reading>>
logVars  == <<mutex, enabled, writing, line, lines>>
apiVars  == <<base, token, calls, call, curl, status, handles, lists, wire,
              served>>
vars     == <<taskVars, apiVars, logVars>>

A == INSTANCE WarehouseApi WITH Bodies <- Readings
L == INSTANCE Logger WITH Subjects <- Readings \cup {0}

ASSUME BoundsAssumption ==
    /\ MaxReadings \in Nat /\ MaxSyncs \in Nat
    /\ Statuses \subseteq Nat \ {0}

ASSUME NoneAssumption ==
    /\ None \notin A!Calls \cup A!Requests \cup {"PUT", "DELETE"}
    /\ Free \notin Threads

Init ==
    /\ A!Init
    /\ L!Init
    /\ running = FALSE
    /\ main = "config"
    /\ phase = [t \in Threads |-> "off"]
    /\ step = 1
    /\ syncs = 0
    /\ reading = 0

-----------------------------------------------------------------------------
\* main: initialize(), run() and shutdown()

\* The config file sets levels.  (The API object keeps its URL and no token.)
Config ==
    /\ main = "config"
    /\ \E l \in Configured, on \in BOOLEAN : L!SetLevelEnabled(l, on)
    /\ UNCHANGED <<taskVars, apiVars>>

Run ==
    /\ main = "config"
    /\ main' = "sleep"
    /\ phase' = [t \in Threads |-> "check"]
    /\ running' = TRUE
    /\ UNCHANGED <<step, syncs, reading, apiVars, logVars>>

Stop ==
    /\ main = "sleep"
    /\ main' = "stopped"
    /\ running' = FALSE
    /\ UNCHANGED <<phase, step, syncs, reading, apiVars, logVars>>

\* A thread between two requests, its last line written.
Turn(t, from, to) ==
    /\ phase[t] = from
    /\ phase' = [phase EXCEPT ![t] = to]
    /\ call[t] = None
    /\ writing[t] = {}

-----------------------------------------------------------------------------
\* apiSyncTask()

SyncOps == <<"getLicenseInfo", "listSensors", "getLocalRoom">>

SyncCheck ==
    /\ \/ running /\ syncs < MaxSyncs /\ syncs' = syncs + 1
                  /\ Turn("api", "check", "call")
       \/ ~running /\ Turn("api", "check", "done") /\ UNCHANGED syncs
    /\ step' = 1
    /\ UNCHANGED <<running, main, reading, apiVars, logVars>>

SyncCall ==
    /\ Turn("api", "call", "report")
    /\ A!Call("api", SyncOps[step], None)
    /\ UNCHANGED <<running, main, step, syncs, reading, logVars>>

\* Mutant: the cycle goes on past its last request.
SyncReportBeyond ==
    /\ \/ Turn("api", "report", "call") /\ step' = step + 1
       \/ step = Len(SyncOps) /\ Turn("api", "report", "check")
                              /\ UNCHANGED step
    /\ UNCHANGED <<running, main, syncs, reading, apiVars, logVars>>

\* A failure is only reported for the licence; running_ is not looked at.
SyncReport ==
    /\ \/ step < Len(SyncOps) /\ Turn("api", "report", "call")
                              /\ step' = step + 1
       \/ step = Len(SyncOps) /\ Turn("api", "report", "check")
                              /\ UNCHANGED step
    /\ \/ /\ status["api"] = 200 \/ step = 1
          /\ L!Log("api", [level |-> IF status["api"] = 200
                                       THEN "DEBUG" ELSE "WARNING",
                           about |-> 0])
       \/ status["api"] # 200 /\ step # 1 /\ UNCHANGED logVars
    /\ UNCHANGED <<running, main, syncs, reading, apiVars>>

SyncStep == SyncCheck \/ SyncCall \/ SyncReport

-----------------------------------------------------------------------------
\* dataPushTask(), from the reading it took to the report of its post

PushCheck ==
    /\ \/ running /\ reading < MaxReadings /\ reading' = reading + 1
                  /\ Turn("push", "check", "call")
       \/ ~running /\ Turn("push", "check", "done") /\ UNCHANGED reading
    /\ UNCHANGED <<running, main, step, syncs, apiVars, logVars>>

PushCall ==
    /\ Turn("push", "call", "report")
    /\ A!Call("push", "sendSensorData", reading)
    /\ UNCHANGED <<running, main, step, syncs, reading, logVars>>

Accepting == {200, 201}

PushReport ==
    /\ Turn("push", "report", "check")
    /\ L!Log("push", [level |-> IF status["push"] \in Accepting
                                  THEN "DEBUG" ELSE "WARNING",
                      about |-> reading])
    /\ UNCHANGED <<running, main, step, syncs, reading, apiVars>>

PushStep == PushCheck \/ PushCall \/ PushReport

-----------------------------------------------------------------------------

\* The end of a request, and of a line, that a thread has begun.
Return(t)  == A!Return(t) /\ UNCHANGED <<taskVars, logVars>>
EndLine(t) == L!LogEnd(t) /\ UNCHANGED <<taskVars, apiVars>>
Server     == A!ServerStep /\ UNCHANGED <<taskVars, logVars>>

Finished ==
    /\ \A t \in Threads : phase[t] = "done"
    /\ UNCHANGED vars

Next ==
    \/ Config \/ Run \/ Stop
    \/ SyncStep \/ PushStep
    \/ \E t \in Threads : Return(t) \/ EndLine(t)
    \/ Server
    \/ Finished

\* The threads keep running; requests end, at the latest by the timeout.
\* Nothing is assumed of the server or of when main stops.
Fairness ==
    /\ WF_vars(SyncStep)
    /\ WF_vars(PushStep)
    /\ \A t \in Threads : WF_vars(Return(t)) /\ WF_vars(EndLine(t))

Spec == Init /\ [][Next]_vars /\ Fairness

-----------------------------------------------------------------------------
\* Properties

\* The types of the variables that are not A's or L's.
TypeOK ==
    /\ running \in BOOLEAN
    /\ main \in {"config", "sleep", "stopped"}
    /\ phase \in [Threads -> {"off", "check", "call", "report", "done"}]
    /\ step \in 1..Len(SyncOps)
    /\ syncs \in 0..MaxSyncs
    /\ reading \in 0..MaxReadings
    /\ A!TypeOK
    /\ L!TypeOK

\* The readings whose post is over, and reported.
Reported == {n \in Readings :
                \/ n < reading
                \/ n = reading /\ phase["push"] \in {"check", "done"}}

Printed(level, n) ==
    \E t \in Threads : \E m \in lines \cup writing[t] :
        m.level = level /\ m.about = n

Accepted(n) == \E x \in served : x.call.body = n /\ x.status \in Accepting

\* A failed post is not repeated.  What is left of the reading is a warning:
\* none that the server has not accepted goes without one, unless warnings are
\* disabled, and none is called "Sent successfully" that it did not accept,
\* whatever was lost, late or refused, and whatever an earlier request of the
\* thread had returned.
LossReported ==
    /\ enabled["WARNING"] =>
          \A n \in Reported : Accepted(n) \/ Printed("WARNING", n)
    /\ \A n \in Readings : Printed("DEBUG", n) => Accepted(n)

\* Lines are whole, and requests are what WarehouseApi makes of them.
LinesWhole == L!LinesWhole
NothingLeaks == A!NothingLeaks
ImplementsRemoteCall == A!ImplementsRemoteCall

\* A stop waits for the requests that are still to come in the cycle, and for
\* nothing else.
StopSeen == main = "stopped" ~>
                phase["api"] = "done" /\ phase["push"] = "done"

=============================================================================
