-------------------------- MODULE ModbusRTUProofs --------------------------
(***************************************************************************)
(* Proofs about ModbusRTU for any callers, slaves, timeouts, frames and    *)
(* number of contexts: what mtx_ protects, although it protects no         *)
(* isConnected(), and what the CRC of a raw answer tells the caller.       *)
(***************************************************************************)
EXTENDS ModbusRTU, TLAPS

Proved == INSTANCE CRC16Proofs

\* mtx_ is held exactly from the first line of a call to its return.
MutexInv == \A t \in Threads : pc[t] \in Held <=> mtx = t

Using == {"slave", "request", "send_raw"} \cup Waiting

\* A context is open, announced and up to date, except while connect() makes
\* one; and what is about to be used is there.
ContextInv ==
    /\ ctx # Null =>
          \/ ctx \in opened /\ connected /\ limit[ctx] = timeout
          \/ \E t \in Threads : pc[t] = "open"
          \/ \E t \in Threads : pc[t] = "apply" /\ ctx \in opened
    /\ \A t \in Threads : pc[t] \in {"open", "apply"} \cup Using => ctx # Null

\* Between the two library calls of a transaction the slave stays set.
RequestInv ==
    /\ \A t \in Threads : pc[t] = "request" => slave[ctx] = asked[t]
    /\ OwnRequest

\* A slave is named from the lock on, and only for a transaction.
AskedInv ==
    \A t \in Threads :
        /\ pc[t] \in Outside => asked[t] = None
        /\ pc[t] \in {"check", "check_raw"} \cup Using => asked[t] \in Slaves

\* Which frame a thread has in hand after sendRawPacket() got an answer.
RawInv ==
    \A t \in Threads :
        /\ pc[t] \in {"verify", "accept"} => frame \in RawAnswers \cup {<<>>}
        /\ pc[t] = "accept" => frame # <<>>
        /\ pc[t] = "reject" => frame = <<>>

IInv ==
    TypeOK /\ MutexInv /\ ContextInv /\ RequestInv /\ AskedInv /\ RawInv

LEMMA ContextRange == TypeOK => (ctx # Null => ctx \in Contexts)
BY ContextsAssumption DEF TypeOK, Contexts, Null

LEMMA IInvInit == Init => IInv
<1>1. Init => TypeOK
  <2>1. 0 \in 0..0 /\ 0 \in 0..MaxContexts /\ <<>> \in Seq(SUBSET (0..7))
    BY ContextsAssumption
  <2> QED
    BY <2>1, TimeoutsAssumption DEF Init, TypeOK, Null, Outside
<1>2. Init => MutexInv /\ ContextInv /\ RequestInv /\ AskedInv /\ RawInv
  BY CallersAssumption
  DEF Init, MutexInv, ContextInv, RequestInv, AskedInv, RawInv, OwnRequest,
      Outside, Held, Using, Waiting
<1> QED
  BY <1>1, <1>2 DEF IInv

\* A packet with its two CRCs is a frame, and noise leaves a frame one.
LEMMA FrameTypes ==
    /\ \A packet \in RawRequests :
          CRC!Appended(CRC!Appended(packet)) \in Seq(SUBSET (0..7))
    /\ \A f \in RawAnswers, e \in Noise : Disturbed(f, e) \in Seq(SUBSET (0..7))
<1>1. ASSUME NEW packet \in RawRequests
      PROVE  CRC!Appended(CRC!Appended(packet)) \in Seq(SUBSET (0..7))
  <2>1. \A w : CRC!Low(w) \in SUBSET (0..7) /\ CRC!High(w) \in SUBSET (0..7)
    BY DEF CRC!Low, CRC!High
  <2>2. \A f \in Seq(SUBSET (0..7)) : \A lo, hi \in SUBSET (0..7) :
           f \o <<lo, hi>> \in Seq(SUBSET (0..7))
    OBVIOUS
  <2>3. \A f \in Seq(SUBSET (0..7)) : CRC!Appended(f) \in Seq(SUBSET (0..7))
    BY <2>1, <2>2 DEF CRC!Appended
  <2>4. packet \in Seq(SUBSET (0..7))
    BY FramesAssumption
  <2> QED
    BY <2>3, <2>4
<1>2. ASSUME NEW f \in RawAnswers, NEW e \in Noise
      PROVE  Disturbed(f, e) \in Seq(SUBSET (0..7))
  <2>1. f \in Seq(SUBSET (0..7)) /\ DOMAIN f = 1..Len(f) /\ Len(f) \in Nat
    BY FramesAssumption
  <2>2. \A x, y \in SUBSET (0..7) : CRC!Xor(x, y) \in SUBSET (0..7)
    BY DEF CRC!Xor
  <2>3. \A k \in 1..Len(f) : Disturbed(f, e)[k] \in SUBSET (0..7)
    BY <2>1, <2>2 DEF Disturbed
  <2> QED
    BY <2>1, <2>3 DEF Disturbed
<1> QED
  BY <1>1, <1>2

-----------------------------------------------------------------------------
\* What is proved about the CRC is true of the one ModbusRTU uses.

Frames == Seq(SUBSET (0..7))

LEMMA SameFrames == Proved!Frames = Frames
BY DEF Proved!Frames, Proved!Bytes, Frames

LEMMA SameSent == \A f : Proved!Sent(f) = CRC!Sent(f)
BY DEF Proved!Sent, CRC!Sent

LEMMA SameCodeword == \A f : Proved!Codeword(f) <=> CRC!Codeword(f)
BY DEF Proved!Codeword, Proved!Remainder, Proved!Reduced, Proved!Sent,
       Proved!Xor, CRC!Codeword, CRC!Remainder, CRC!Reduced, CRC!Sent, CRC!Xor

LEMMA SameCalculate == \A f : Proved!Calculate(f) = CRC!Calculate(f)
BY DEF Proved!Calculate, Proved!Byte, Proved!Shift, Proved!Poly, Proved!Xor,
       CRC!Calculate, CRC!Byte, CRC!Shift, CRC!Poly, CRC!Xor

LEMMA SameFunctions ==
    \A f : /\ Proved!Verify(f) <=> CRC!Verify(f)
           /\ Proved!Appended(f) = CRC!Appended(f)
BY SameCalculate
DEF Proved!Verify, Proved!Appended, Proved!Low, Proved!High,
    CRC!Verify, CRC!Appended, CRC!Low, CRC!High

\* The line changes the bits it disturbs, and no others.
LEMMA DisturbedBits ==
    ASSUME NEW f \in Frames, NEW e, e \subseteq Nat
    PROVE  /\ Disturbed(f, e) \in Frames
           /\ Len(Disturbed(f, e)) = Len(f)
           /\ \A b \in CRC!Xor(CRC!Sent(f), CRC!Sent(Disturbed(f, e))) : b \in e
<1> DEFINE g == Disturbed(f, e)
<1>1. Len(f) \in Nat /\ DOMAIN f = 1..Len(f)
      /\ \A k \in 1..Len(f) : f[k] \in SUBSET (0..7)
  BY DEF Frames
<1>2. \A k \in 1..Len(f) :
         g[k] = CRC!Xor(f[k], {b \in 0..7 : 8 * (k - 1) + b \in e})
  BY <1>1 DEF Disturbed
<1>3. \A k \in 1..Len(f) : g[k] \in SUBSET (0..7)
  BY <1>1, <1>2 DEF CRC!Xor
<1>4. g = [k \in 1..Len(f) |-> g[k]]
  BY <1>1 DEF Disturbed
<1> HIDE DEF g
<1>5. g \in Frames /\ Len(g) = Len(f)
  BY <1>1, <1>3, <1>4 DEF Frames
<1>6. ASSUME NEW b \in 0..8 * Len(f) - 1, b \notin e
      PROVE  b \in CRC!Sent(f) <=> b \in CRC!Sent(g)
  <2> DEFINE k == b \div 8 + 1
             r == b % 8
  <2>1. b \in Nat /\ b < 8 * Len(f) /\ k \in Int /\ r \in 0..7
    BY <1>1
  <2>2. 8 * (k - 1) + r = b
    BY <2>1
  <2>3. r \in f[k] <=> r \in g[k]
    <3> HIDE DEF k, r
    <3>1. k \in 1..Len(f)
      BY <1>1, <2>1, <2>2
    <3>2. g[k] = CRC!Xor(f[k], {c \in 0..7 : 8 * (k - 1) + c \in e})
      BY <1>2, <3>1
    <3>3. r \notin {c \in 0..7 : 8 * (k - 1) + c \in e}
      BY <1>6, <2>2
    <3> QED
      BY <3>2, <3>3 DEF CRC!Xor
  <2> QED
    BY <1>5, <2>3 DEF CRC!Sent
<1>7. CRC!Sent(f) \subseteq 0..8 * Len(f) - 1
      /\ CRC!Sent(g) \subseteq 0..8 * Len(f) - 1
  BY <1>5 DEF CRC!Sent
<1>8. \A b \in CRC!Xor(CRC!Sent(f), CRC!Sent(g)) : b \in e
  BY <1>6, <1>7 DEF CRC!Xor
<1> QED
  BY <1>5, <1>8 DEF g

\* The library passes on only what came through.
LEMMA AnswerChecked ==
    \A f \in RawAnswers, e \in Noise :
        CRC!Codeword(Disturbed(f, e)) => Disturbed(f, e) \in RawAnswers
<1> SUFFICES ASSUME NEW f \in RawAnswers, NEW e \in Noise,
                    CRC!Codeword(Disturbed(f, e))
             PROVE  Disturbed(f, e) = f
  OBVIOUS
<1> DEFINE g == Disturbed(f, e)
<1>1. f \in Frames /\ e \subseteq Nat /\ \A a, b \in e : a - b < 16
  BY FramesAssumption DEF Frames
<1>2. /\ g \in Frames /\ Len(f) = Len(g)
      /\ \A b \in CRC!Xor(CRC!Sent(f), CRC!Sent(g)) : b \in e
  BY <1>1, DisturbedBits
<1>3. Proved!Codeword(f) /\ Proved!Codeword(g)
  BY FramesAssumption, SameCodeword
<1> HIDE DEF g
<1>4. \A a, b \in Proved!Xor(Proved!Sent(f), Proved!Sent(g)) : a - b < 16
  BY <1>1, <1>2, SameSent DEF Proved!Xor, CRC!Xor
<1>5. g = f
  BY <1>1, <1>2, <1>3, <1>4, SameFrames, Proved!BurstsDetected
<1> QED
  BY <1>5 DEF g

\* verify() refuses no answer of a slave, and 0 bytes.
LEMMA AnswersVerified ==
    /\ \A f \in RawAnswers : CRC!Verify(f) /\ f # <<>>
    /\ ~CRC!Verify(<<>>)
<1>1. ASSUME NEW f \in RawAnswers PROVE CRC!Verify(f) /\ f # <<>>
  <2>1. f \in Proved!Frames /\ Proved!Codeword(f) /\ CRC!Codeword(f)
    BY FramesAssumption, SameFrames, SameCodeword DEF Frames
  <2>2. CRC!Verify(f)
    BY <2>1, SameFunctions, Proved!VerifyIsCodeword
  <2>3. f # <<>>
    BY <2>1 DEF CRC!Codeword
  <2> QED
    BY <2>2, <2>3
<1>2. ~CRC!Verify(<<>>)
  BY DEF CRC!Verify
<1> QED
  BY <1>1, <1>2

-----------------------------------------------------------------------------
\* One lemma per conjunct of the invariant.

LEMMA TypeStep == TypeOK /\ ContextInv /\ [Next]_vars => TypeOK'
<1> SUFFICES ASSUME TypeOK, ContextInv, [Next]_vars PROVE TypeOK'
  OBVIOUS
<1> USE ContextsAssumption, ContextRange
    DEF TypeOK, Goto, Outside, Held, Waiting, Null, Contexts
<1>1. ASSUME NEW t \in Threads,
             ConnectLock(t) \/ DisconnectLock(t) \/ TimeoutLock(t) \/ Look(t)
      PROVE  TypeOK'
  BY <1>1 DEF ConnectLock, DisconnectLock, TimeoutLock, Look, Enter
<1>2. ASSUME NEW t \in Threads, NEW s \in Slaves,
             TransactionLock(t, s) \/ RawLock(t, s)
      PROVE  TypeOK'
  BY <1>2 DEF TransactionLock, RawLock, Enter
<1>3. ASSUME NEW t \in Threads, NewContext(t) PROVE TypeOK'
  BY <1>3 DEF NewContext
<1>4. ASSUME NEW t \in Threads, OpenContext(t) PROVE TypeOK'
  <2>1. ctx \in 1..made
    BY <1>4 DEF OpenContext, ContextInv
  <2>2. /\ made' = made
        /\ ctx' \in {ctx, 0}
        /\ opened' = opened \/ opened' = opened \cup {ctx}
    BY <1>4 DEF OpenContext
  <2>3. opened' \subseteq 1..made'
    BY <2>1, <2>2
  <2>4. ctx' \in 0..made'
    BY <2>2
  <2> QED
    BY <1>4, <2>3, <2>4 DEF OpenContext
<1>5. ASSUME NEW t \in Threads, ApplyTimeout(t) \/ Close(t) PROVE TypeOK'
  <2>1. /\ made' = made
        /\ ctx' \in {ctx, 0}
        /\ opened' \subseteq opened
    BY <1>5 DEF ApplyTimeout, Close
  <2>2. opened' \subseteq 1..made' /\ ctx' \in 0..made'
    BY <2>1
  <2>3. limit' \in [Contexts -> Timeouts]
    BY <1>5 DEF ApplyTimeout, Close
  <2> QED
    BY <1>5, <2>2, <2>3 DEF ApplyTimeout, Close
<1>6. ASSUME NEW t \in Threads, NEW v \in Timeouts, SetTimeout(t, v)
      PROVE  TypeOK'
  BY <1>6 DEF SetTimeout
<1>7. ASSUME NEW t \in Threads, Check(t) \/ SetSlave(t) PROVE TypeOK'
  BY <1>7 DEF Check, SetSlave
<1>8. ASSUME NEW t \in Threads,
             Request(t) \/ Answer(t) \/ Verify(t) \/ Leave(t)
      PROVE  TypeOK'
  <2>1. CASE Request(t)
    BY <2>1 DEF Request, ContextInv, Using
  <2>2. CASE Answer(t) \/ Verify(t)
    BY <2>2 DEF Answer, Verify
  <2>3. CASE Leave(t)
    <3>1. <<>> \in Seq(SUBSET (0..7))
      OBVIOUS
    <3> QED
      BY <2>3, <3>1 DEF Leave
  <2> QED
    BY <1>8, <2>1, <2>2, <2>3
<1>9. ASSUME NEW t \in Threads, NEW packet \in RawRequests, SendRaw(t, packet)
      PROVE  TypeOK'
  BY <1>9, FrameTypes DEF SendRaw
<1>10. ASSUME NEW t \in Threads, RawAnswer(t) PROVE TypeOK'
  <2>1. <<>> \in Seq(SUBSET (0..7))
    OBVIOUS
  <2>2. frame' \in Seq(SUBSET (0..7))
    BY <1>10, <2>1, FrameTypes DEF RawAnswer
  <2> QED
    BY <1>10, <2>2 DEF RawAnswer
<1>11. CASE UNCHANGED vars
  BY <1>11 DEF vars
<1> QED
  BY <1>1, <1>2, <1>3, <1>4, <1>5, <1>6, <1>7, <1>8, <1>9, <1>10, <1>11
  DEF Next, Call, Inside, Transaction

\* A call is entered with the mutex free and goes on as the holder.
LEMMA MutexStep == TypeOK /\ MutexInv /\ [Next]_vars => MutexInv'
<1> SUFFICES ASSUME TypeOK, MutexInv, [Next]_vars PROVE MutexInv'
  OBVIOUS
<1> USE CallersAssumption DEF TypeOK, MutexInv, Goto, Outside, Held
<1>1. ASSUME NEW t \in Threads,
             ConnectLock(t) \/ DisconnectLock(t) \/ TimeoutLock(t) \/ Look(t)
      PROVE  MutexInv'
  BY <1>1 DEF ConnectLock, DisconnectLock, TimeoutLock, Look, Enter
<1>2. ASSUME NEW t \in Threads, NEW s \in Slaves,
             TransactionLock(t, s) \/ RawLock(t, s)
      PROVE  MutexInv'
  BY <1>2 DEF TransactionLock, RawLock, Enter
<1>3. ASSUME NEW t \in Threads,
             NewContext(t) \/ OpenContext(t) \/ ApplyTimeout(t) \/ Close(t)
      PROVE  MutexInv'
  BY <1>3 DEF NewContext, OpenContext, ApplyTimeout, Close
<1>4. ASSUME NEW t \in Threads, NEW v \in Timeouts, SetTimeout(t, v)
      PROVE  MutexInv'
  BY <1>4 DEF SetTimeout
<1>5. ASSUME NEW t \in Threads, Check(t) \/ SetSlave(t) \/ Request(t)
      PROVE  MutexInv'
  BY <1>5 DEF Check, SetSlave, Request
<1>6. ASSUME NEW t \in Threads, NEW packet \in RawRequests, SendRaw(t, packet)
      PROVE  MutexInv'
  BY <1>6 DEF SendRaw
<1>7. ASSUME NEW t \in Threads, Answer(t) \/ RawAnswer(t) \/ Verify(t)
      PROVE  MutexInv'
  BY <1>7 DEF Answer, RawAnswer, Verify
<1>8. ASSUME NEW t \in Threads, Leave(t) PROVE MutexInv'
  BY <1>8 DEF Leave
<1>9. CASE UNCHANGED vars
  BY <1>9 DEF vars
<1> QED
  BY <1>1, <1>2, <1>3, <1>4, <1>5, <1>6, <1>7, <1>8, <1>9
  DEF Next, Call, Inside, Transaction

\* Only the holder of the mutex touches the context.
LEMMA ContextStep == IInv /\ [Next]_vars => ContextInv'
<1> SUFFICES ASSUME TypeOK, MutexInv, ContextInv, [Next]_vars
             PROVE  ContextInv'
  BY DEF IInv
<1> USE CallersAssumption, ContextRange
    DEF TypeOK, MutexInv, ContextInv, Using, Goto, Outside, Held, Waiting, Null
<1>1. ASSUME NEW t \in Threads,
             ConnectLock(t) \/ DisconnectLock(t) \/ TimeoutLock(t) \/ Look(t)
      PROVE  ContextInv'
  BY <1>1 DEF ConnectLock, DisconnectLock, TimeoutLock, Look, Enter
<1>2. ASSUME NEW t \in Threads, NEW s \in Slaves,
             TransactionLock(t, s) \/ RawLock(t, s)
      PROVE  ContextInv'
  BY <1>2 DEF TransactionLock, RawLock, Enter
<1>3. ASSUME NEW t \in Threads, NewContext(t) PROVE ContextInv'
  BY <1>3 DEF NewContext
<1>4. ASSUME NEW t \in Threads, OpenContext(t) PROVE ContextInv'
  BY <1>4 DEF OpenContext
<1>5. ASSUME NEW t \in Threads, ApplyTimeout(t) PROVE ContextInv'
  BY <1>5 DEF ApplyTimeout
<1>6. ASSUME NEW t \in Threads, Close(t) PROVE ContextInv'
  BY <1>6 DEF Close
<1>7. ASSUME NEW t \in Threads, NEW v \in Timeouts, SetTimeout(t, v)
      PROVE  ContextInv'
  BY <1>7 DEF SetTimeout
<1>8. ASSUME NEW t \in Threads, Check(t) PROVE ContextInv'
  BY <1>8 DEF Check, Usable
<1>9. ASSUME NEW t \in Threads, SetSlave(t) \/ Request(t)
      PROVE  ContextInv'
  BY <1>9 DEF SetSlave, Request
<1>10. ASSUME NEW t \in Threads, NEW packet \in RawRequests,
              SendRaw(t, packet)
       PROVE  ContextInv'
  BY <1>10 DEF SendRaw
<1>11. ASSUME NEW t \in Threads,
              Answer(t) \/ RawAnswer(t) \/ Verify(t) \/ Leave(t)
       PROVE  ContextInv'
  BY <1>11 DEF Answer, RawAnswer, Verify, Leave
<1>12. CASE UNCHANGED vars
  BY <1>12 DEF vars
<1> QED
  BY <1>1, <1>2, <1>3, <1>4, <1>5, <1>6, <1>7, <1>8, <1>9, <1>10, <1>11, <1>12
  DEF Next, Call, Inside, Transaction

\* Only the holder of the mutex sets the slave or uses the line.
LEMMA RequestStep == IInv /\ [Next]_vars => RequestInv'
<1> SUFFICES ASSUME TypeOK, MutexInv, ContextInv, RequestInv, [Next]_vars
             PROVE  RequestInv'
  BY DEF IInv
<1> USE CallersAssumption, ContextRange
    DEF TypeOK, MutexInv, RequestInv, OwnRequest, Goto, Outside, Held, Waiting
<1>1. ASSUME NEW t \in Threads,
             ConnectLock(t) \/ DisconnectLock(t) \/ TimeoutLock(t) \/ Look(t)
      PROVE  RequestInv'
  BY <1>1 DEF ConnectLock, DisconnectLock, TimeoutLock, Look, Enter
<1>2. ASSUME NEW t \in Threads, NEW s \in Slaves,
             TransactionLock(t, s) \/ RawLock(t, s)
      PROVE  RequestInv'
  BY <1>2 DEF TransactionLock, RawLock, Enter
<1>3. ASSUME NEW t \in Threads,
             NewContext(t) \/ OpenContext(t) \/ ApplyTimeout(t) \/ Close(t)
      PROVE  RequestInv'
  BY <1>3 DEF NewContext, OpenContext, ApplyTimeout, Close
<1>4. ASSUME NEW t \in Threads, NEW v \in Timeouts, SetTimeout(t, v)
      PROVE  RequestInv'
  BY <1>4 DEF SetTimeout
<1>5. ASSUME NEW t \in Threads, Check(t) PROVE RequestInv'
  BY <1>5 DEF Check
<1>6. ASSUME NEW t \in Threads, SetSlave(t) PROVE RequestInv'
  BY <1>6 DEF SetSlave, ContextInv, Using
<1>7. ASSUME NEW t \in Threads, Request(t) PROVE RequestInv'
  BY <1>7 DEF Request
<1>8. ASSUME NEW t \in Threads, NEW packet \in RawRequests, SendRaw(t, packet)
      PROVE  RequestInv'
  BY <1>8 DEF SendRaw
<1>9. ASSUME NEW t \in Threads, Answer(t) \/ RawAnswer(t) PROVE RequestInv'
  BY <1>9 DEF Answer, RawAnswer
<1>10. ASSUME NEW t \in Threads, Verify(t) \/ Leave(t) PROVE RequestInv'
  BY <1>10 DEF Verify, Leave
<1>11. CASE UNCHANGED vars
  BY <1>11 DEF vars
<1> QED
  BY <1>1, <1>2, <1>3, <1>4, <1>5, <1>6, <1>7, <1>8, <1>9, <1>10, <1>11
  DEF Next, Call, Inside, Transaction

\* The slave asked for goes with the call.
LEMMA AskedStep == IInv /\ [Next]_vars => AskedInv'
<1> SUFFICES ASSUME TypeOK, AskedInv, [Next]_vars PROVE AskedInv'
  BY DEF IInv
<1> USE DEF TypeOK, AskedInv, Goto, Outside, Held, Using, Waiting
<1>1. ASSUME NEW t \in Threads,
             ConnectLock(t) \/ DisconnectLock(t) \/ TimeoutLock(t) \/ Look(t)
      PROVE  AskedInv'
  BY <1>1 DEF ConnectLock, DisconnectLock, TimeoutLock, Look, Enter
<1>2. ASSUME NEW t \in Threads, NEW s \in Slaves,
             TransactionLock(t, s) \/ RawLock(t, s)
      PROVE  AskedInv'
  BY <1>2 DEF TransactionLock, RawLock, Enter
<1>3. ASSUME NEW t \in Threads,
             NewContext(t) \/ OpenContext(t) \/ ApplyTimeout(t) \/ Close(t)
      PROVE  AskedInv'
  BY <1>3 DEF NewContext, OpenContext, ApplyTimeout, Close
<1>4. ASSUME NEW t \in Threads, NEW v \in Timeouts, SetTimeout(t, v)
      PROVE  AskedInv'
  BY <1>4 DEF SetTimeout
<1>5. ASSUME NEW t \in Threads,
             Check(t) \/ SetSlave(t) \/ Request(t) \/ Answer(t)
      PROVE  AskedInv'
  BY <1>5 DEF Check, SetSlave, Request, Answer
<1>6. ASSUME NEW t \in Threads, NEW packet \in RawRequests, SendRaw(t, packet)
      PROVE  AskedInv'
  BY <1>6 DEF SendRaw
<1>7. ASSUME NEW t \in Threads, RawAnswer(t) \/ Verify(t) \/ Leave(t)
      PROVE  AskedInv'
  BY <1>7 DEF RawAnswer, Verify, Leave
<1>8. CASE UNCHANGED vars
  BY <1>8 DEF vars
<1> QED
  BY <1>1, <1>2, <1>3, <1>4, <1>5, <1>6, <1>7, <1>8 DEF Next, Call, Inside, Transaction

\* Only the holder of the mutex has a frame in hand.
LEMMA RawStep == IInv /\ [Next]_vars => RawInv'
<1> SUFFICES ASSUME TypeOK, MutexInv, RawInv, [Next]_vars PROVE RawInv'
  BY DEF IInv
<1> USE CallersAssumption DEF TypeOK, MutexInv, RawInv, Goto, Outside, Held
<1>1. ASSUME NEW t \in Threads,
             ConnectLock(t) \/ DisconnectLock(t) \/ TimeoutLock(t) \/ Look(t)
      PROVE  RawInv'
  BY <1>1 DEF ConnectLock, DisconnectLock, TimeoutLock, Look, Enter
<1>2. ASSUME NEW t \in Threads, NEW s \in Slaves,
             TransactionLock(t, s) \/ RawLock(t, s)
      PROVE  RawInv'
  BY <1>2 DEF TransactionLock, RawLock, Enter
<1>3. ASSUME NEW t \in Threads,
             NewContext(t) \/ OpenContext(t) \/ ApplyTimeout(t) \/ Close(t)
      PROVE  RawInv'
  BY <1>3 DEF NewContext, OpenContext, ApplyTimeout, Close
<1>4. ASSUME NEW t \in Threads, NEW v \in Timeouts, SetTimeout(t, v)
      PROVE  RawInv'
  BY <1>4 DEF SetTimeout
<1>5. ASSUME NEW t \in Threads,
             Check(t) \/ SetSlave(t) \/ Request(t) \/ Answer(t)
      PROVE  RawInv'
  BY <1>5 DEF Check, SetSlave, Request, Answer
<1>6. ASSUME NEW t \in Threads, NEW packet \in RawRequests, SendRaw(t, packet)
      PROVE  RawInv'
  BY <1>6 DEF SendRaw
<1>7. ASSUME NEW t \in Threads, RawAnswer(t) PROVE RawInv'
  <2>1. pc'[t] = "verify" => frame' \in RawAnswers \cup {<<>>}
    BY <1>7, AnswerChecked DEF RawAnswer
  <2>2. /\ pc'[t] \in {"verify", "unlock"}
        /\ \A u \in Threads : u # t => pc'[u] \notin Held
    BY <1>7 DEF RawAnswer
  <2> QED
    BY <2>1, <2>2
<1>8. ASSUME NEW t \in Threads, Verify(t) PROVE RawInv'
  <2>1. pc[t] = "verify" /\ frame' = frame /\ \A u \in Threads :
           u # t => pc'[u] \notin Held
    BY <1>8 DEF Verify
  <2>2. frame \in RawAnswers \cup {<<>>}
    BY <2>1
  <2>3. CRC!Verify(frame) <=> frame # <<>>
    BY <2>2, AnswersVerified
  <2> QED
    BY <1>8, <2>1, <2>2, <2>3 DEF Verify
<1>9. ASSUME NEW t \in Threads, Leave(t) PROVE RawInv'
  BY <1>9 DEF Leave
<1>10. CASE UNCHANGED vars
  BY <1>10 DEF vars
<1> QED
  BY <1>1, <1>2, <1>3, <1>4, <1>5, <1>6, <1>7, <1>8, <1>9, <1>10
  DEF Next, Call, Inside, Transaction

LEMMA Inductive == Spec => []IInv
<1>1. IInv /\ [Next]_vars => IInv'
  BY TypeStep, MutexStep, ContextStep, RequestStep, AskedStep, RawStep DEF IInv
<1> QED
  BY <1>1, IInvInit, PTL DEF Spec

-----------------------------------------------------------------------------
\* The results.

\* The types of the context, the flag and the line hold in every state.
THEOREM TypeCorrect == Spec => []TypeOK
BY Inductive, PTL DEF IInv

\* Every member function with a lock_guard excludes every other.
THEOREM LockDiscipline == Spec => []MutexInv
BY Inductive, PTL DEF IInv

\* A transaction's request reaches the slave its caller named, alone on the
\* line, however many threads share the object.
THEOREM RequestsOwned == Spec => []OwnRequest
BY Inductive, PTL DEF IInv, RequestInv

\* The reads, the writes and sendRawPacket() never touch a freed context.
THEOREM NeverFreed == Spec => []OpenWhenUsed
<1>1. IInv => OpenWhenUsed
  BY CallersAssumption
  DEF IInv, MutexInv, ContextInv, OpenWhenUsed, Using, Held, Waiting
<1> QED
  BY <1>1, Inductive, PTL

\* setTimeout() is in force on every context, whenever it was called.
THEOREM TimeoutKept == Spec => []TimeoutInForce
<1>1. IInv => TimeoutInForce
  BY CallersAssumption
  DEF IInv, MutexInv, ContextInv, TimeoutInForce, Held
<1> QED
  BY <1>1, Inductive, PTL

\* sendRawPacket(): an answer reaches the caller as a slave sent it, whichever
\* burst of up to 16 bits disturbs the line, and verify() refuses none that the
\* library passed on.
THEOREM RawAnswersChecked == Spec => []RawAnswerIntact
<1>1. IInv => RawAnswerIntact
  BY DEF IInv, RawInv, RawAnswerIntact
<1> QED
  BY <1>1, Inductive, PTL

-----------------------------------------------------------------------------
\* The refinement of SerialMaster.

\* Who has the line is the holder of the mutex; the mutex belongs to one.
LEMMA OneInside ==
    ASSUME IInv, NEW t \in Threads, pc[t] \in Held
    PROVE  /\ mtx = t
           /\ \A u \in Threads : u # t => pc[u] \in Outside
           /\ line # None <=> pc[t] \in Waiting
<1>1. mtx = t /\ \A u \in Threads : u # t => pc[u] \notin Held
  BY DEF IInv, MutexInv
<1>2. \A u \in Threads : pc[u] \in Outside \cup Held
  BY DEF IInv, TypeOK
<1>3. \A u \in Threads : u # t => pc[u] \notin Waiting
  BY <1>1 DEF Held, Waiting
<1>4. pc[t] \in Waiting => line # None
  BY SlavesAssumption DEF IInv, RequestInv, OwnRequest, AskedInv, Using
<1>5. line # None => pc[t] \in Waiting
  BY <1>3 DEF IInv, RequestInv, OwnRequest
<1> QED
  BY <1>1, <1>2, <1>4, <1>5


LEMMA MasterStep == IInv /\ [Next]_vars => [Master!Next]_(Master!masterVars)
<1> SUFFICES ASSUME IInv, [Next]_vars
             PROVE  Master!Next \/ UNCHANGED Master!masterVars
  OBVIOUS
<1> USE DEF Goto, Master!masterVars
<1>1. ASSUME NEW t \in Threads,
             ConnectLock(t) \/ DisconnectLock(t) \/ TimeoutLock(t) \/ Look(t)
      PROVE  UNCHANGED Master!masterVars
  <2>1. UNCHANGED <<ctx, opened, line, limit, connected, timeout, asked>>
    BY <1>1 DEF ConnectLock, DisconnectLock, TimeoutLock, Look, Enter
  <2>2. line # None => mtx' = mtx
    BY <1>1, CallersAssumption
    DEF ConnectLock, DisconnectLock, TimeoutLock, Look, Enter, IInv, MutexInv,
        RequestInv, OwnRequest, Held, Waiting
  <2>3. \A u \in Threads : pc'[u] = "apply" <=> pc[u] = "apply"
    BY <1>1 DEF ConnectLock, DisconnectLock, TimeoutLock, Look, Enter, IInv,
                TypeOK
  <2> QED
    BY <2>1, <2>2, <2>3 DEF Open, Exchange
<1>2. ASSUME NEW t \in Threads, NEW s \in Slaves,
             TransactionLock(t, s) \/ RawLock(t, s)
      PROVE  Master!Ask(t, s)
  <2>1. /\ UNCHANGED <<ctx, opened, line, limit, connected, timeout>>
        /\ asked' = [asked EXCEPT ![t] = s] /\ pc[t] \in Outside
    BY <1>2 DEF TransactionLock, RawLock, Enter, Outside
  <2>2. asked[t] = None
    BY <2>1 DEF IInv, AskedInv
  <2>3. line = None
    BY <1>2, CallersAssumption
    DEF TransactionLock, RawLock, Enter, IInv, MutexInv, RequestInv, OwnRequest,
        Held, Waiting
  <2>4. \A u \in Threads : pc'[u] = "apply" <=> pc[u] = "apply"
    BY <1>2 DEF TransactionLock, RawLock, Enter, IInv, TypeOK
  <2> QED
    BY <2>1, <2>2, <2>3, <2>4 DEF Master!Ask, Open, Exchange
<1>3. ASSUME NEW t \in Threads, NewContext(t) \/ OpenContext(t)
      PROVE  Master!Abandon
  <2>1. /\ UNCHANGED <<mtx, line, limit, connected, timeout, asked>>
        /\ pc[t] \in {"new", "open"}
    BY <1>3 DEF NewContext, OpenContext
  <2>2. line = None
    BY <2>1, OneInside DEF Held, Waiting
  <2>3. ~Open'
    <3>1. CASE NewContext(t)
      BY <3>1, ContextsAssumption
      DEF NewContext, Open, IInv, TypeOK, Null
    <3>2. CASE OpenContext(t)
      <4>1. (ctx' = Null /\ opened' = opened) \/ pc'[t] = "apply"
        BY <3>2 DEF OpenContext, IInv, TypeOK
      <4> QED
        BY <4>1, ContextsAssumption DEF Open, IInv, TypeOK, Null
    <3> QED
      BY <1>3, <3>1, <3>2
  <2> QED
    BY <2>1, <2>2, <2>3 DEF Master!Abandon, Exchange, Open
<1>4. ASSUME NEW t \in Threads, ApplyTimeout(t)
      PROVE  Master!Establish
  <2>1. /\ UNCHANGED <<mtx, line, timeout, asked, ctx, opened>>
        /\ pc[t] = "apply" /\ connected' = TRUE
        /\ pc' = [pc EXCEPT ![t] = "unlock"]
    BY <1>4 DEF ApplyTimeout
  <2>2. line = None /\ \A u \in Threads : u # t => pc[u] \in Outside
    BY <2>1, OneInside DEF Held, Waiting
  <2>3. ~Open /\ ctx \in opened
    BY <2>1, <2>2, ContextRange
    DEF Open, IInv, ContextInv, TypeOK, Outside
  <2>4. Open'
    BY <2>1, <2>2, <2>3 DEF Open, IInv, TypeOK, Outside
  <2> QED
    BY <2>1, <2>2, <2>3, <2>4 DEF Master!Establish, Exchange
<1>5. ASSUME NEW t \in Threads, Close(t)
      PROVE  Master!Disconnect \/ UNCHANGED Master!masterVars
  <2>1. /\ UNCHANGED <<mtx, line, limit, timeout, asked>>
        /\ pc[t] = "close" /\ pc' = [pc EXCEPT ![t] = "unlock"]
    BY <1>5 DEF Close
  <2>2. line = None /\ \A u \in Threads : u # t => pc[u] \in Outside
    BY <2>1, OneInside DEF Held, Waiting
  <2>3. CASE ctx # Null
    <3>1. Open
      BY <2>1, <2>2, <2>3 DEF Open, IInv, ContextInv, Outside
    <3>2. ~Open' /\ connected' = FALSE
      BY <1>5, <2>3, ContextsAssumption DEF Close, Open, IInv, TypeOK, Null
    <3>3. Exchange = None /\ Exchange' = None
      BY <2>1, <2>2 DEF Exchange
    <3>4. Master!Disconnect
      BY <2>1, <3>1, <3>2, <3>3 DEF Master!Disconnect
    <3> QED
      BY <3>4
  <2>4. CASE ctx = Null
    <3>1. UNCHANGED <<ctx, opened, connected>>
      BY <1>5, <2>4 DEF Close
    <3>2. \A u \in Threads : pc'[u] = "apply" <=> pc[u] = "apply"
      BY <2>1 DEF IInv, TypeOK
    <3> QED
      BY <2>1, <3>1, <3>2 DEF Open, Exchange
  <2> QED
    BY <2>3, <2>4
<1>6. ASSUME NEW t \in Threads, NEW v \in Timeouts, SetTimeout(t, v)
      PROVE  Master!SetTimeout(v)
  <2>1. /\ UNCHANGED <<mtx, line, ctx, opened, connected, asked>>
        /\ timeout' = v
        /\ pc[t] = "set" /\ pc' = [pc EXCEPT ![t] = "unlock"]
    BY <1>6 DEF SetTimeout
  <2>2. line = None
    BY <2>1, OneInside DEF Held, Waiting
  <2>3. \A u \in Threads : pc'[u] = "apply" <=> pc[u] = "apply"
    BY <2>1 DEF IInv, TypeOK
  <2> QED
    BY <2>1, <2>2, <2>3 DEF Master!SetTimeout, Open, Exchange
<1>7. ASSUME NEW t \in Threads, Check(t) \/ SetSlave(t) \/ Verify(t)
      PROVE  UNCHANGED Master!masterVars
  <2>1. UNCHANGED <<mtx, line, limit, ctx, opened, connected, timeout, asked>>
    BY <1>7 DEF Check, SetSlave, Verify
  <2>2. \A u \in Threads : pc'[u] = "apply" <=> pc[u] = "apply"
    BY <1>7 DEF Check, SetSlave, Verify, IInv, TypeOK
  <2> QED
    BY <2>1, <2>2 DEF Open, Exchange
\* A request goes out by the holder of the mutex, on a context in order.
<1>8. ASSUME NEW t \in Threads, pc[t] \in {"request", "send_raw"},
             UNCHANGED <<mtx, limit, ctx, opened, connected, timeout, asked>>,
             line' = asked[t],
             \A u \in Threads : pc'[u] # "apply"
      PROVE  Master!Begin(t)
  <2>1. mtx = t /\ line = None /\ \A u \in Threads : u # t => pc[u] \in Outside
    BY <1>8, OneInside DEF Held, Waiting
  <2>2. asked[t] \in Slaves /\ asked[t] # None
    BY <1>8, SlavesAssumption DEF IInv, AskedInv, Using
  <2>3. ctx \in opened /\ connected /\ limit[ctx] = timeout
    BY <1>8, <2>1 DEF IInv, ContextInv, Using, Outside
  <2>4. Open /\ Open'
    BY <1>8, <2>1, <2>3 DEF Open, Outside
  <2> QED
    BY <1>8, <2>1, <2>2, <2>3, <2>4 DEF Master!Begin, Exchange
<1>9. ASSUME NEW t \in Threads, Request(t)
      PROVE  Master!Begin(t)
  <2>1. /\ pc[t] = "request" /\ pc' = [pc EXCEPT ![t] = "answer"]
        /\ UNCHANGED <<mtx, limit, ctx, opened, connected, timeout, asked>>
    BY <1>9 DEF Request
  <2>2. line' = asked[t]
    BY <1>9, <2>1 DEF Request, IInv, RequestInv
  <2>3. \A u \in Threads : pc'[u] # "apply"
    BY <2>1, OneInside DEF Held, Outside, IInv, TypeOK
  <2> QED
    BY <1>8, <2>1, <2>2, <2>3
<1>10. ASSUME NEW t \in Threads, NEW packet \in RawRequests, SendRaw(t, packet)
       PROVE  Master!Begin(t) \/ UNCHANGED Master!masterVars
  <2>1. /\ pc[t] = "send_raw"
        /\ UNCHANGED <<mtx, limit, ctx, opened, connected, timeout, asked>>
        /\ pc' \in {[pc EXCEPT ![t] = "raw_answer"], [pc EXCEPT ![t] = "unlock"]}
    BY <1>10 DEF SendRaw
  <2>2. \A u \in Threads : pc[u] # "apply" /\ pc'[u] # "apply"
    BY <2>1, OneInside DEF Held, Outside, IInv, TypeOK
  <2>3. CASE line' = asked[t]
    BY <1>8, <2>1, <2>2, <2>3
  <2>4. CASE line' = line
    BY <2>1, <2>2, <2>4 DEF Open, Exchange
  <2> QED
    BY <1>10, <2>3, <2>4 DEF SendRaw
<1>11. ASSUME NEW t \in Threads, Answer(t) \/ RawAnswer(t)
       PROVE  Master!End
  <2>1. /\ UNCHANGED <<mtx, limit, ctx, opened, connected, timeout, asked>>
        /\ line' = None
    BY <1>11 DEF Answer, RawAnswer
  <2>2. \A u \in Threads : pc'[u] = "apply" <=> pc[u] = "apply"
    BY <1>11 DEF Answer, RawAnswer, IInv, TypeOK
  <2> QED
    BY <2>1, <2>2 DEF Master!End, Open, Exchange
<1>12. ASSUME NEW t \in Threads, Leave(t)
       PROVE  Master!Return(t)
  <2>1. /\ pc[t] \in {"unlock", "accept", "reject"}
        /\ UNCHANGED <<ctx, opened, line, limit, connected, timeout>>
        /\ asked' = [asked EXCEPT ![t] = None]
    BY <1>12 DEF Leave
  <2>2. line = None
    BY <2>1, OneInside DEF Held, Waiting
  <2>3. \A u \in Threads : pc'[u] = "apply" <=> pc[u] = "apply"
    BY <1>12 DEF Leave, IInv, TypeOK
  <2> QED
    BY <2>1, <2>2, <2>3 DEF Master!Return, Open, Exchange
<1>13. CASE UNCHANGED vars
  BY <1>13 DEF vars, Open, Exchange
<1> QED
  BY <1>1, <1>2, <1>3, <1>4, <1>5, <1>6, <1>7, <1>9, <1>10, <1>11, <1>12, <1>13
  DEF Next, Call, Inside, Transaction, Master!Next

\* The lock makes of the calls of the library what SerialMaster has: exchanges
\* of one caller with the slave it named, which nothing comes into.
THEOREM Refinement == Spec => ImplementsSerialMaster
<1>1. Init => Master!Init
  <2> SUFFICES ASSUME Init PROVE Master!Init
    OBVIOUS
  <2>1. ~Open
    BY DEF Init, Open
  <2> QED
    BY <2>1 DEF Init, Master!Init, Exchange
<1> QED
  BY <1>1, Inductive, MasterStep, PTL
  DEF Spec, ImplementsSerialMaster, Master!Spec

=============================================================================
