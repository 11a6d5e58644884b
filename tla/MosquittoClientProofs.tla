----------------------- MODULE MosquittoClientProofs -----------------------
(***************************************************************************)
(* Proofs about MosquittoClient: what disconnect() and the destructor      *)
(* leave behind, for any sequence of calls.                                *)
(***************************************************************************)
EXTENDS MosquittoClient, TLAPS

\* The strengthening: what the caller's position says of the handle and of the
\* network thread, and that the flag can only be set while there is a thread
\* or a pending clear.
CallInv ==
    /\ net # "none" => loopRunning
    /\ mosq \in {"unborn", "null", "gone"} => call = "idle" /\ ~loopRunning
    /\ mosq = "dying" => call \in {"loop_stop", "clear", "destroy"}
    /\ call = "loop_start" => mosq = "live" /\ ~loopRunning
    /\ call = "loop_stop" => loopRunning
    /\ call \in {"clear", "destroy"} => ~loopRunning
    /\ call = "destroy" => mosq = "dying"
    /\ connected => loopRunning \/ call = "clear"

IInv == TypeOK /\ CallInv

LEMMA IInvInit == Init => IInv
<1>1. Init => TypeOK
  BY DEF Init, TypeOK, Calls, Links, Nets
<1>2. Init => CallInv
  BY DEF Init, CallInv
<1> QED
  BY <1>1, <1>2 DEF IInv

\* Types survive every step.
LEMMA TypeStep == TypeOK /\ [Next]_mqttVars => TypeOK'
<1> SUFFICES ASSUME TypeOK, [Next]_mqttVars
             PROVE  TypeOK'
  OBVIOUS
<1> USE DEF TypeOK, Ready, Calls, Links, Nets
<1>1. ASSUME NEW ok \in BOOLEAN, Construct(ok) \/ Connect(ok) PROVE TypeOK'
  BY <1>1 DEF Construct, Connect
<1>2. CASE Disconnect \/ Destructor
  BY <1>2 DEF Disconnect, Destructor, Hangup
<1>3. CASE CallStep
  BY <1>3 DEF CallStep, LoopStart, LoopStop, ClearConnected, Destroy, Hangup
<1>4. CASE NetSubscribed
  <2>1. CASE \E ok \in BOOLEAN : NetConnack(ok)
    BY <2>1 DEF NetConnack
  <2>2. CASE OnConnect \/ NetDrop \/ OnDisconnect \/ NetRetry
    BY <2>2 DEF OnConnect, NetDrop, OnDisconnect, NetRetry
  <2>3. CASE NetMessage \/ OnMessage
    BY <2>3 DEF NetMessage, OnMessage
  <2> QED
    BY <1>4, <2>1, <2>2, <2>3 DEF NetSubscribed, Net
<1>5. CASE Finished \/ UNCHANGED mqttVars
  BY <1>5 DEF Finished, mqttVars
<1> QED
  BY <1>1, <1>2, <1>3, <1>4, <1>5 DEF Next

\* So does the strengthening.
LEMMA CallInvStep == IInv /\ [Next]_mqttVars => CallInv'
<1> SUFFICES ASSUME TypeOK, CallInv, [Next]_mqttVars
             PROVE  CallInv'
  BY DEF IInv
<1> USE DEF CallInv, Ready
<1>1. ASSUME NEW ok \in BOOLEAN, Construct(ok) PROVE CallInv'
  BY <1>1 DEF Construct
<1>2. ASSUME NEW ok \in BOOLEAN, Connect(ok) PROVE CallInv'
  BY <1>2 DEF Connect
<1>3. CASE Disconnect
  BY <1>3 DEF Disconnect
<1>4. CASE Destructor
  BY <1>4 DEF Destructor
<1>5. CASE CallStep
  <2>1. ASSUME NEW ok \in BOOLEAN, LoopStart(ok) PROVE CallInv'
    BY <2>1 DEF LoopStart, TypeOK
  <2>2. CASE LoopStop
    BY <2>2 DEF LoopStop
  <2>3. CASE ClearConnected
    BY <2>3 DEF ClearConnected, TypeOK
  <2>4. CASE Destroy
    BY <2>4 DEF Destroy
  <2> QED
    BY <1>5, <2>1, <2>2, <2>3, <2>4 DEF CallStep
<1>6. CASE NetSubscribed
  BY <1>6 DEF NetSubscribed, Net, NetConnack, OnConnect, NetDrop, OnDisconnect,
              NetRetry, NetMessage, OnMessage
<1>7. CASE Finished \/ UNCHANGED mqttVars
  BY <1>7 DEF Finished, mqttVars
<1> QED
  BY <1>1, <1>2, <1>3, <1>4, <1>5, <1>6, <1>7 DEF Next

LEMMA Inductive == Spec => []IInv
BY IInvInit, TypeStep, CallInvStep, PTL DEF Spec, IInv

\* The type invariant of the client.
THEOREM TypeCorrect == Spec => []TypeOK
BY Inductive, PTL DEF IInv

\* After disconnect() no callback can run and the flag is down, for good.
THEOREM DisconnectIsFinal == Spec => []QuietAfterDisconnect
<1>1. IInv => QuietAfterDisconnect
  BY DEF IInv, TypeOK, CallInv, QuietAfterDisconnect
<1> QED
  BY <1>1, Inductive, PTL

\* No callback outlives the object whose address it was given.
THEOREM DestroyIsFinal == Spec => []NoCallbackAfterDestroy
<1>1. IInv => NoCallbackAfterDestroy
  BY DEF IInv, CallInv, NoCallbackAfterDestroy
<1> QED
  BY <1>1, Inductive, PTL

=============================================================================
