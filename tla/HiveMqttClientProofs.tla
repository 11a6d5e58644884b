------------------------ MODULE HiveMqttClientProofs ------------------------
(***************************************************************************)
(* Proofs about HiveMqttClient: its disconnect(), which waits for the      *)
(* network thread instead of cancelling it, is final too.                  *)
(***************************************************************************)
EXTENDS HiveMqttClient, Naturals, TLAPS

\* What the caller's position says of the handle and of the network thread.
CallInv ==
    /\ threaded \in BOOLEAN
    /\ net # "none" => threaded
    /\ mosq \in {"unborn", "null", "gone"} => call = "idle" /\ ~threaded
    /\ mosq = "dying" => call \in {"loop_stop", "clear", "destroy"}
    /\ call \in {"clear", "destroy"} => ~threaded
    /\ call = "destroy" => mosq = "dying"
    /\ connected => threaded \/ call = "clear"

IInv == TypeOK /\ CallInv

LEMMA IInvInit == Init => IInv
BY DEF Init, M!Init, IInv, TypeOK, M!TypeOK, CallInv, M!Calls, M!Links, M!Nets

\* The steps of the library and of the caller keep the types.
LEMMA TypeStep == TypeOK /\ [Next]_vars => TypeOK'
<1> SUFFICES ASSUME TypeOK, [Next]_vars PROVE TypeOK'
  OBVIOUS
<1> USE DEF TypeOK, M!Ready, M!TypeOK, M!Calls, M!Links, M!Nets
<1>1. ASSUME NEW ok \in BOOLEAN, M!Construct(ok) \/ Connect(ok) PROVE TypeOK'
  BY <1>1 DEF M!Construct, Connect
<1>2. CASE Disconnect \/ Destructor
  BY <1>2 DEF Disconnect, Destructor, M!Hangup
<1>3. CASE CallStep
  BY <1>3 DEF CallStep, LoopStart, LoopStop, M!ClearConnected, M!Destroy
<1>4. ASSUME NEW ok \in BOOLEAN, M!NetConnack(ok) PROVE TypeOK'
  BY <1>4 DEF M!NetConnack
<1>5. CASE M!OnConnect \/ M!NetDrop \/ OnDisconnect \/ M!NetRetry
  BY <1>5 DEF M!OnConnect, M!NetDrop, OnDisconnect, M!NetRetry
<1>6. CASE M!NetMessage \/ M!OnMessage
  BY <1>6 DEF M!NetMessage, M!OnMessage
<1>7. CASE Finished \/ UNCHANGED vars
  BY <1>7 DEF Finished, vars
<1> QED
  BY <1>1, <1>2, <1>3, <1>4, <1>5, <1>6, <1>7
  DEF Next, NetSubscribed, Net

\* Only loop_start makes a thread, only loop_stop lets go of it, and that one
\* waits until it has run its last callback.
LEMMA CallInvStep == IInv /\ [Next]_vars => CallInv'
<1> SUFFICES ASSUME TypeOK, CallInv, [Next]_vars PROVE CallInv'
  BY DEF IInv
<1> USE DEF TypeOK, M!TypeOK, CallInv, M!Ready, M!Calls, M!Nets
<1>1. ASSUME NEW ok \in BOOLEAN, M!Construct(ok) \/ Connect(ok) PROVE CallInv'
  BY <1>1 DEF M!Construct, Connect
<1>2. CASE Disconnect \/ Destructor
  BY <1>2 DEF Disconnect, Destructor
<1>3. ASSUME NEW ok \in BOOLEAN, LoopStart(ok) PROVE CallInv'
  BY <1>3 DEF LoopStart
<1>4. CASE LoopStop \/ M!ClearConnected \/ M!Destroy
  <2>1. CASE LoopStop
    BY <2>1 DEF LoopStop
  <2>2. CASE M!ClearConnected
    BY <2>2 DEF M!ClearConnected
  <2>3. CASE M!Destroy
    BY <2>3 DEF M!Destroy
  <2> QED
    BY <1>4, <2>1, <2>2, <2>3
<1>5. ASSUME NEW ok \in BOOLEAN, M!NetConnack(ok) PROVE CallInv'
  BY <1>5 DEF M!NetConnack
<1>6. CASE M!OnConnect \/ M!NetDrop
  BY <1>6 DEF M!OnConnect, M!NetDrop
<1>7. CASE OnDisconnect \/ M!NetRetry
  BY <1>7 DEF OnDisconnect, M!NetRetry
<1>8. CASE M!NetMessage \/ M!OnMessage
  BY <1>8 DEF M!NetMessage, M!OnMessage
<1>9. CASE Finished \/ UNCHANGED vars
  BY <1>9 DEF Finished, vars
<1> QED
  BY <1>1, <1>2, <1>3, <1>4, <1>5, <1>6, <1>7, <1>8, <1>9
  DEF Next, NetSubscribed, Net, CallStep

LEMMA Inductive == Spec => []IInv
<1>1. IInv /\ [Next]_vars => IInv'
  BY TypeStep, CallInvStep DEF IInv
<1> QED
  BY <1>1, IInvInit, PTL DEF Spec

\* The types of the handle, the flag and the session hold in every state.
THEOREM TypeCorrect == Spec => []TypeOK
BY Inductive, PTL DEF IInv

\* Once disconnect() has joined the network thread nothing sets the flag.
THEOREM DisconnectIsFinal == Spec => []QuietAfterDisconnect
<1>1. IInv => QuietAfterDisconnect
  BY DEF IInv, CallInv, QuietAfterDisconnect
<1> QED
  BY <1>1, Inductive, PTL

\* The destructor joins the network thread before it destroys the handle.
THEOREM DestroyIsFinal == Spec => []NoCallbackAfterDestroy
<1>1. IInv => NoCallbackAfterDestroy
  BY DEF IInv, CallInv, NoCallbackAfterDestroy
<1> QED
  BY <1>1, Inductive, PTL

-----------------------------------------------------------------------------
\* The wait for the network thread.

\* The steps the network thread has left once the session is given up: a
\* callback that is due, the end of the session, and the last callback.
NetLeft ==
    CASE net = "none" -> 0
      [] link = "closed" /\ net \in {"idle", "on_disconnect"} -> 1
      [] link = "closed" /\ net \in {"on_connect", "on_refused", "on_message"} -> 2
      [] link = "closing" /\ net = "idle" -> 2
      [] link = "closing" /\ net = "on_refused" -> 4
      [] OTHER -> 3

\* A session that is given up does not come back while disconnect() waits.
HangupInv == call = "loop_stop" => link \in {"closing", "closed"}

WaitShrinks ==
    call = "loop_stop" => /\ NetSubscribed => NetLeft' < NetLeft
                          /\ ~NetSubscribed => NetLeft' <= NetLeft

WaitBounded == /\ NetLeft \in 0..4
               /\ NetLeft = 0 <=> net = "none"

LEMMA HangupStep == IInv /\ HangupInv /\ [Next]_vars => HangupInv'
<1> SUFFICES ASSUME IInv, HangupInv, [Next]_vars PROVE HangupInv'
  OBVIOUS
<1> USE DEF HangupInv, IInv, TypeOK, M!TypeOK, CallInv
<1>1. ASSUME NEW ok \in BOOLEAN, M!Construct(ok) \/ Connect(ok) PROVE HangupInv'
  BY <1>1 DEF M!Construct, Connect
<1>2. CASE Disconnect \/ Destructor
  BY <1>2 DEF Disconnect, Destructor, M!Hangup, M!Ready
<1>3. CASE CallStep
  BY <1>3 DEF CallStep, LoopStart, LoopStop, M!ClearConnected, M!Destroy
<1>4. CASE NetSubscribed
  BY <1>4
  DEF NetSubscribed, Net, M!NetConnack, M!OnConnect, M!NetDrop, OnDisconnect,
      M!NetRetry, M!NetMessage, M!OnMessage
<1>5. CASE Finished \/ UNCHANGED vars
  BY <1>5 DEF Finished, vars
<1> QED
  BY <1>1, <1>2, <1>3, <1>4, <1>5 DEF Next

LEMMA WaitStep ==
    ASSUME IInv, HangupInv, [Next]_vars, call = "loop_stop"
    PROVE  /\ NetSubscribed => NetLeft' < NetLeft
           /\ ~NetSubscribed => NetLeft' <= NetLeft
<1> USE DEF HangupInv, IInv, TypeOK, M!TypeOK, M!Nets
<1>1. CASE NetSubscribed
  <2>1. \/ /\ net \in {"on_connect", "on_message"} /\ net' = "idle"
           /\ link' = link
        \/ net = "on_refused" /\ net' = "on_disconnect" /\ link' = link
        \/ /\ net = "idle" /\ net' = "on_disconnect"
           /\ link = "closing" /\ link' = "closed"
        \/ net = "idle" /\ net' = "none" /\ link' = link
        \/ /\ net = "on_disconnect" /\ link' = link
           /\ net' = "none" \/ (net' = "idle" /\ link = "closing")
    BY <1>1
    DEF NetSubscribed, Net, M!NetConnack, M!OnConnect, M!NetDrop, OnDisconnect,
        M!NetRetry, M!NetMessage, M!OnMessage
  <2>2. NetLeft' < NetLeft
    BY <2>1 DEF NetLeft
  <2> QED
    BY <1>1, <2>2
<1>2. CASE ~NetSubscribed
  <2>1. UNCHANGED <<net, link>>
    BY <1>2
    DEF Next, M!Construct, Connect, Disconnect, Destructor, M!Ready,
        CallStep, LoopStart, LoopStop, M!ClearConnected, M!Destroy, Finished, vars
  <2>2. NetLeft' = NetLeft /\ NetLeft \in 0..4
    BY <2>1 DEF NetLeft
  <2> QED
    BY <1>2, <2>2
<1> QED
  BY <1>1, <1>2

\* What DisconnectReturns rests on: while disconnect() waits in
\* mosquitto_loop_stop, the network thread has at most four steps left, each
\* of its steps uses one up, and when none is left it has ended.
THEOREM WaitEnds == Spec => []WaitBounded /\ [][WaitShrinks]_vars
<1>1. Init => HangupInv
  BY DEF Init, M!Init, HangupInv
<1>2. IInv => WaitBounded
  BY DEF IInv, TypeOK, M!TypeOK, M!Nets, WaitBounded, NetLeft
<1>3. IInv /\ HangupInv /\ [Next]_vars => [WaitShrinks]_vars
  BY WaitStep DEF WaitShrinks
<1> QED
  BY <1>1, <1>2, <1>3, Inductive, HangupStep, PTL DEF Spec

=============================================================================
