---------------------------- MODULE WarehouseApi ----------------------------
(***************************************************************************)
(* WarehouseApiService on BaseApiService on HttpClient (src/protocols/     *)
(* http/): blocking requests through libcurl, each with a handle and a     *)
(* header list of its own, made by any thread.  libcurl and the server are *)
(* external: a handle may be refused, a request is seen by the server at   *)
(* most once, also after its caller has given up, and a request ends with  *)
(* the answer, with an error, or after ten seconds.                        *)
(***************************************************************************)
EXTENDS Naturals

CONSTANTS
    Threads,       \* the callers
    Bodies,        \* JSON payloads
    Bases, Tokens, \* what setBaseUrl() and setAuthToken() may be given
    Statuses,      \* HTTP statuses the server answers with
    None           \* no token, no payload, no call

-----------------------------------------------------------------------------
\* The operations of the service, and the HTTP method each is meant to be.

Gets  == {"listSensors", "listDevices", "listLines", "getLicenseInfo",
          "getLocalRoom", "getAgrowtekScanResult"}
Posts == {"resetDeviceDone", "sendSensorData", "sendDeviceStatus",
          "resetSensorDone", "updateFirmwareVersion",
          "updateCalibrationDone", "startAgrowtekScan"}
Ops   == Gets \cup Posts \cup {"putJson", "del"}

Verb == [op \in Ops |-> CASE op \in Gets    -> "GET"
                          [] op \in Posts   -> "POST"
                          [] op = "putJson" -> "PUT"
                          [] op = "del"     -> "DELETE"]

\* What HttpClient sets on the handle: post() and put() give it fields to post,
\* put() and del() a method of their own; and what libcurl makes of it.
FieldsOfPut(op) == op = "putJson"   \* mutant: post() forgets its fields
Fields(op) == op \in Posts \cup {"putJson"}

Custom(op) == IF op = "putJson" THEN "PUT"
              ELSE IF op = "del" THEN "DELETE" ELSE None

WireVerb(op) == IF Custom(op) # None THEN Custom(op)
                ELSE IF Fields(op) THEN "POST" ELSE "GET"

\* A call, the n-th of its thread, and a request as the server sees it.
Calls == [by : Threads, n : Nat, op : Ops, body : Bodies \cup {None},
          to : Bases, auth : Tokens \cup {None}]
Methods  == {"GET", "POST", "PUT", "DELETE"}
Requests == [by : Threads, n : Nat, verb : Methods,
             body : Bodies \cup {None}, to : Bases, auth : Tokens \cup {None}]

As(verb, c) == [by |-> c.by, n |-> c.n, verb |-> verb, body |-> c.body,
                to |-> c.to, auth |-> c.auth]

-----------------------------------------------------------------------------
VARIABLES
    base, token,   \* baseUrl_; authToken_, or None when it is empty
    calls,         \* how many calls each thread has made
    call,          \* the call each thread is in, or None
    curl,          \* whether it was given a handle
    status,        \* its response.status_code
    handles, lists,   \* what libcurl holds, by call
    wire,          \* requests on their way
    served         \* requests the server has seen, with its answers

apiVars == <<base, token, calls, call, curl, status, handles, lists, wire,
             served>>

Init ==
    /\ base \in Bases
    /\ token = None
    /\ calls = [t \in Threads |-> 0]
    /\ call = [t \in Threads |-> None]
    /\ curl = [t \in Threads |-> FALSE]
    /\ status = [t \in Threads |-> 0]
    /\ handles = {}
    /\ lists = {}
    /\ wire = {}
    /\ served = {}

\* setBaseUrl() and setAuthToken() take no lock: no call may be in progress.
Configure ==
    /\ \A t \in Threads : call[t] = None
    /\ \/ base' \in Bases /\ UNCHANGED token
       \/ token' \in Tokens \cup {None} /\ UNCHANGED base
    /\ UNCHANGED <<calls, call, curl, status, handles, lists, wire, served>>

\* The response begins without a status.
StatusKept(t) == status          \* mutant: with that of the last call
NoStatus(t) == [status EXCEPT ![t] = 0]

\* An operation up to curl_easy_perform(): fullUrl() takes the base and
\* prepareHeaders() the token, if any; there is always a header.  All else is
\* the thread's own.  Without a handle nothing is sent.  There is memory for the
\* list: curl_slist_append does not return null.
Call(t, op, body) ==
    LET c == [by |-> t, n |-> calls[t] + 1, op |-> op, body |-> body,
              to |-> base, auth |-> token]
    IN  /\ call[t] = None
        /\ calls' = [calls EXCEPT ![t] = @ + 1]
        /\ call' = [call EXCEPT ![t] = c]
        /\ status' = NoStatus(t)
        /\ lists' = lists \cup {<<t, c.n>>}
        /\ \/ /\ curl' = [curl EXCEPT ![t] = TRUE]
              /\ handles' = handles \cup {<<t, c.n>>}
              /\ wire' = wire \cup {As(WireVerb(op), c)}
           \/ /\ curl' = [curl EXCEPT ![t] = FALSE]
              /\ UNCHANGED <<handles, wire>>
        /\ UNCHANGED <<base, token, served>>

\* The server sees a request, whoever still waits for it.
Serve(r, s) ==
    /\ r \in wire
    /\ wire' = wire \ {r}
    /\ served' = served \cup {[call |-> r, status |-> s]}
    /\ UNCHANGED <<base, token, calls, call, curl, status, handles, lists>>

Answer(t) ==
    \E x \in served : /\ curl[t]
                      /\ x.call.by = t
                      /\ x.call.n = calls[t]
                      /\ status' = [status EXCEPT ![t] = x.status]

\* performRequest() ends with the answer, or with an error or the timeout, and
\* then perhaps before the answer is there, or at once without a handle.
OutcomeUntimed(t) == Answer(t) \/ (~curl[t] /\ UNCHANGED status)   \* mutant
Outcome(t) == Answer(t) \/ UNCHANGED status

FreeEarly(t) == IF curl[t] THEN lists \ {<<t, calls[t]>>} ELSE lists   \* mutant
FreeList(t) == lists \ {<<t, calls[t]>>}

\* The list is freed, and the handle, which may be null.
Return(t) ==
    /\ call[t] # None
    /\ Outcome(t)
    /\ call' = [call EXCEPT ![t] = None]
    /\ lists' = FreeList(t)
    /\ handles' = handles \ {<<t, calls[t]>>}
    /\ UNCHANGED <<base, token, calls, curl, wire, served>>

ServerStep == \E r \in wire, s \in Statuses : Serve(r, s)

Next ==
    \/ Configure
    \/ \E t \in Threads :
          \/ \E op \in Ops, body \in Bodies \cup {None} : Call(t, op, body)
          \/ Return(t)
    \/ ServerStep

Spec == Init /\ [][Next]_apiVars

-----------------------------------------------------------------------------
\* Properties

\* The types of the variables.
TypeOK ==
    /\ base \in Bases
    /\ token \in Tokens \cup {None}
    /\ calls \in [Threads -> Nat]
    /\ call \in [Threads -> Calls \cup {None}]
    /\ curl \in [Threads -> BOOLEAN]
    /\ status \in [Threads -> Statuses \cup {0}]
    /\ handles \subseteq Threads \X Nat
    /\ lists \subseteq Threads \X Nat
    /\ wire \subseteq Requests
    /\ served \subseteq [call : Requests, status : Statuses]

\* Whatever becomes of a request, its handle and its header list are given
\* back: libcurl holds exactly those of the calls in progress.
NothingLeaks ==
    LET InCall == {t \in Threads : call[t] # None}
    IN  /\ handles = {<<t, calls[t]>> : t \in {u \in InCall : curl[u]}}
        /\ lists = {<<t, calls[t]>> : t \in InCall}

\* The service is the one its callers rely on: each call with its own method,
\* at most once, and its own answer or none.
Meant(c) == IF c = None THEN None ELSE As(Verb[c.op], c)

Remote == INSTANCE RemoteCall WITH
    pending <- [t \in Threads |-> Meant(call[t])],
    open    <- wire,
    result  <- status

ImplementsRemoteCall == Remote!Spec

=============================================================================
