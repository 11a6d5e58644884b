---------------------------- MODULE MCModbusRTU ----------------------------
(***************************************************************************)
(* ModbusRTU with two threads that each make any sequence of calls, two    *)
(* slaves to mix up, and two timeouts.  The raw request is for a function  *)
(* and each slave answers it with exception 2; the line disturbs one bit,  *)
(* or two that are at most 15 apart, anywhere but in the function's number *)
(* and the exception's.                                                    *)
(***************************************************************************)
EXTENDS ModbusRTU, TLC

CONSTANTS t1, t2, s1, s2, short, long

MCThreads  == {t1, t2}
MCSlaves   == {s1, s2}
MCTimeouts == {short, long}

Ones(n) == {k \in 0..7 : (n \div 2^k) % 2 = 1}

MCAddress == s1 :> Ones(1) @@ s2 :> Ones(2)
MCRawRequests == {<<Ones(1), Ones(3)>>, <<Ones(2), Ones(3)>>}
MCRawAnswers  ==
    {<<Ones(1), Ones(131), Ones(2), Ones(192), Ones(241)>>,
     <<Ones(2), Ones(131), Ones(2), Ones(48), Ones(241)>>}
MCNoise ==
    {{}} \cup {e \in {{a, b} : a, b \in (0..7) \cup (24..39)} :
                  \A a, b \in e : a - b < 16}

=============================================================================
