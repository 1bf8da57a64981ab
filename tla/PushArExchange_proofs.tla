------------------------ MODULE PushArExchange_proofs ------------------------
(***************************************************************************)
(* Proofs about PushArExchange.                                            *)
(***************************************************************************)
EXTENDS PushArExchange, TLAPS

(* The steps of each rank's own script, and how it may end.                *)
Ends == {"engaged"} \cup Fallback
At0 == {"setup", "bind", "accept", "send_mem", "recv_mem", "open_mem",
        "send_status", "recv_status", "agree", "shm", "create_pool",
        "send_pool", "events"} \cup Ends
At1 == {"setup", "connect", "recv_mem", "send_mem", "open_mem",
        "recv_status", "send_status", "agree", "shm", "recv_pool",
        "open_pool", "events"} \cup Ends

(* The steps of the exchange up to the opening of the handle.              *)
Early == {"setup", "bind", "accept", "connect", "send_mem", "recv_mem", "open_mem"}

(* Each rank stays on its own script, and the failed attempts at the       *)
(* handle stay below the limit while the rank still tries.                 *)
OnScript ==
  /\ at[0] \in At0 /\ at[1] \in At1
  /\ socket \in [Rank -> Seq(BOOLEAN)]
  /\ \A r \in Rank :
       at[r] \in Early => tries[r] < OpenAttempts

-----------------------------------------------------------------------------
(* While the barrier words are not initialised, rank 0 has sent at most    *)
(* two messages.  This many it may have sent, and so many rank 1 has read. *)
Sent0 ==
  IF at[0] \in {"setup", "bind", "accept", "send_mem", "no_peer"} THEN 0
  ELSE IF at[0] \in {"recv_mem", "open_mem", "send_status"} THEN 1
  ELSE 2

Read1 ==
  IF at[1] \in {"setup", "connect", "recv_mem"} THEN 0
  ELSE IF at[1] \in {"send_mem", "open_mem", "recv_status"} THEN 1
  ELSE 2

(* An uninitialised barrier: rank 0 is before the pool, no pool handle is  *)
(* on its way, and rank 1 has not received one.                            *)
BarrierOrder ==
  /\ ~bar => /\ at[0] \notin {"create_pool", "send_pool", "events", "engaged"}
             /\ at[1] \notin {"open_pool", "events", "engaged"}
             /\ at[1] \notin Fallback /\ ~status_io[1]
                  => Read1 + Len(socket[1]) <= Sent0
  /\ status_io[1] => at[1] \in {"send_status", "agree"} \cup Fallback
  /\ \A r \in Rank : transport[r] = "push" => at[r] = "engaged"

-----------------------------------------------------------------------------
(* The steps that can fail on one rank while its peer goes on to engage.   *)
Late == {"recv_status", "shm", "recv_pool", "open_pool", "events"}

(* What rank 1's status said, once it has been sent.                       *)
Status1 == IF at[0] = "recv_status" THEN socket[0][1] ELSE peer_open[0]
BothOpened == peer_open[1] /\ Status1

(* Rank 1 has sent its status.                                             *)
Answered == \/ at[1] = "agree" /\ ~status_io[1]
            \/ at[1] \in {"declined", "shm", "recv_pool", "open_pool", "events", "engaged"}

(* Before the statuses: where rank 0 can be, and what is on the socket,    *)
(* for each place of rank 1.                                               *)
BeforeStatus ==
  /\ at[1] \in {"setup", "connect", "no_peer"} =>
       /\ at[0] \in {"setup", "bind", "accept", "no_peer", "failed"}
       /\ Len(socket[0]) = 0 /\ Len(socket[1]) = 0
  /\ at[1] = "recv_mem" =>
       /\ at[0] \in {"accept", "send_mem", "recv_mem", "failed"}
       /\ Len(socket[0]) = 0
       /\ Len(socket[1]) <= 1
       /\ at[0] \in {"accept", "send_mem"} => Len(socket[1]) = 0
  /\ at[1] = "send_mem" =>
       /\ at[0] \in {"recv_mem", "failed"}
       /\ Len(socket[0]) = 0 /\ Len(socket[1]) = 0
  /\ at[1] \in {"open_mem", "recv_status"} =>
       /\ at[0] \in {"recv_mem", "open_mem", "send_status", "recv_status", "failed"}
       /\ at[0] = "recv_mem" => Len(socket[0]) = 1
       /\ at[0] \in {"open_mem", "send_status", "recv_status"} => Len(socket[0]) = 0
       /\ at[0] = "recv_status" /\ ~status_io[0] => Len(socket[1]) = 1 /\ socket[1][1] = opened[0]
       /\ at[0] # "recv_status" \/ status_io[0] => Len(socket[1]) = 0

(* Rank 1 knows rank 0's status, or will never know more of rank 0.        *)
StatusRead ==
  /\ at[1] = "send_status" =>
       /\ at[0] = "recv_status" /\ peer_open[1] = opened[0]
       /\ ~status_io[0]
       /\ Len(socket[0]) = 0 /\ Len(socket[1]) = 0
  /\ at[1] = "agree" /\ status_io[1] =>
       at[0] = "recv_status" /\ Len(socket[0]) = 0
  /\ at[1] = "failed" =>
       /\ at[0] \in {"accept", "send_mem", "recv_mem", "recv_status", "failed"}
       /\ Len(socket[0]) = 0
  /\ status_io[0] => at[0] = "recv_status"
  /\ status_io[1] => at[1] \in {"agree", "failed"}

(* After the statuses: both ranks decide from the same two values, and     *)
(* rank 1 goes past recv_pool only when rank 0 has nothing left to fail.   *)
AfterStatus ==
  Answered =>
    /\ at[0] \in {"recv_status", "agree", "declined", "shm", "create_pool",
                  "send_pool", "events", "engaged", "failed"}
    /\ ~status_io[0]
    /\ at[0] = "recv_status" => Len(socket[0]) = 1
    /\ at[0] # "recv_status" => Len(socket[0]) = 0
    /\ at[0] \in {"recv_status", "agree"} => opened[0] = peer_open[1]
    /\ at[1] = "agree" => opened[1] = Status1
    /\ at[0] = "declined" \/ at[1] = "declined" => ~BothOpened
    /\ at[0] \notin {"recv_status", "agree", "declined"} => BothOpened
    /\ at[1] \notin {"agree", "declined"} => BothOpened
    /\ at[0] \notin {"events", "engaged"} =>
         Len(socket[1]) = 0 /\ at[1] \notin {"open_pool", "events", "engaged"}
    /\ at[0] \in {"events", "engaged"} /\ at[1] \in {"agree", "shm", "recv_pool"}
         => Len(socket[1]) = 1

(* A rank that has entered a collective did so after it had decided.       *)
RouteTaken ==
  \A r \in Rank : transport[r] # "none" =>
    /\ tensor.fits => Decided(r)
    /\ transport[r] = Route(r)

Agreement == BeforeStatus /\ StatusRead /\ AfterStatus
-----------------------------------------------------------------------------
(* No step occurs twice in a script, so After returns the next one.        *)
LEMMA AfterStep ==
  ASSUME NEW r \in Rank, NEW k \in DOMAIN Script(r)
  PROVE  After(r, Script(r)[k]) =
           IF k = Len(Script(r)) THEN "engaged" ELSE Script(r)[k + 1]
<1>1. \A j, m \in DOMAIN Script(0) : Script(0)[j] = Script(0)[m] => j = m
  BY DEF Script
<1>2. \A j, m \in DOMAIN Script(1) : Script(1)[j] = Script(1)[m] => j = m
  BY DEF Script
<1>3. (CHOOSE j \in DOMAIN Script(r) : Script(r)[j] = Script(r)[k]) = k
  BY <1>1, <1>2 DEF Rank
<1> QED  BY <1>3 DEF After

(* The step that follows each step of a script.                            *)
LEMMA After0 ==
  /\ After(0, "setup") = "bind"
  /\ After(0, "bind") = "accept"
  /\ After(0, "accept") = "send_mem"
  /\ After(0, "send_mem") = "recv_mem"
  /\ After(0, "recv_mem") = "open_mem"
  /\ After(0, "open_mem") = "send_status"
  /\ After(0, "send_status") = "recv_status"
  /\ After(0, "recv_status") = "agree"
  /\ After(0, "agree") = "shm"
  /\ After(0, "shm") = "create_pool"
  /\ After(0, "create_pool") = "send_pool"
  /\ After(0, "send_pool") = "events"
  /\ After(0, "events") = "engaged"
<1>1. DOMAIN Script(0) = 1 .. 13 /\ Len(Script(0)) = 13
  BY DEF Script
<1>2. \A k \in 1 .. 13 : After(0, Script(0)[k]) =
                           IF k = 13 THEN "engaged" ELSE Script(0)[k + 1]
  BY <1>1, AfterStep DEF Rank
<1> QED  BY <1>2 DEF Script

LEMMA After1 ==
  /\ After(1, "setup") = "connect"
  /\ After(1, "connect") = "recv_mem"
  /\ After(1, "recv_mem") = "send_mem"
  /\ After(1, "send_mem") = "open_mem"
  /\ After(1, "open_mem") = "recv_status"
  /\ After(1, "recv_status") = "send_status"
  /\ After(1, "send_status") = "agree"
  /\ After(1, "agree") = "shm"
  /\ After(1, "shm") = "recv_pool"
  /\ After(1, "recv_pool") = "open_pool"
  /\ After(1, "open_pool") = "events"
  /\ After(1, "events") = "engaged"
<1>1. DOMAIN Script(1) = 1 .. 12 /\ Len(Script(1)) = 12
  BY DEF Script
<1>2. \A k \in 1 .. 12 : After(1, Script(1)[k]) =
                           IF k = 12 THEN "engaged" ELSE Script(1)[k + 1]
  BY <1>1, AfterStep DEF Rank
<1> QED  BY <1>2 DEF Script

(* The steps of the two scripts.                                           *)
LEMMA Scripts ==
  ScriptSteps = (At0 \cup At1) \ Ends
<1>1. {Script(0)[k] : k \in DOMAIN Script(0)} = At0 \ Ends
  BY DEF Script, At0, Ends, Fallback
<1>2. {Script(1)[k] : k \in DOMAIN Script(1)} = At1 \ Ends
  BY DEF Script, At1, Ends, Fallback
<1> QED  BY <1>1, <1>2 DEF ScriptSteps

-----------------------------------------------------------------------------
TypeInv == TypeOK /\ OnScript

LEMMA TypeInit == Init => TypeInv
<1> SUFFICES ASSUME Init PROVE TypeInv
  OBVIOUS
<1>1. at \in [Rank -> ScriptSteps \cup {"engaged"} \cup Fallback]
  BY Scripts DEF Init, At0, Ends, Fallback
<1>2. <<>> \in Seq(BOOLEAN) /\ 0 \in 0 .. OpenAttempts
  BY OpenAttemptsAssumption
<1>3. /\ opened \in [Rank -> BOOLEAN] /\ peer_open \in [Rank -> BOOLEAN]
      /\ status_io \in [Rank -> BOOLEAN] /\ bar \in BOOLEAN
  BY Zenon DEF Init
<1>4. TypeOK
  BY <1>1, <1>2, <1>3 DEF Init, TypeOK
<1>5. OnScript
  BY <1>2, OpenAttemptsAssumption DEF Init, OnScript, Rank, At0, At1, Early
<1> QED  BY <1>4, <1>5 DEF TypeInv

(* Where rank r may go when it is at a step of its script.                 *)
AtOK(f) ==
  /\ f \in [Rank -> ScriptSteps \cup {"engaged"} \cup Fallback]
  /\ f[0] \in At0 /\ f[1] \in At1

LEMMA Moves ==
  ASSUME TypeInv, NEW r \in Rank, at[r] \notin Ends
  PROVE  /\ AtOK([at EXCEPT ![r] = After(r, @)])
         /\ \A e \in Fallback : AtOK([at EXCEPT ![r] = e])
         /\ After(r, at[r]) \in Early => at[r] \in Early
<1> USE DEF TypeInv, TypeOK, OnScript, AtOK
<1>1. CASE r = 0
  BY <1>1, After0, Scripts DEF Rank, At0, Ends, Fallback, Early
<1>2. CASE r = 1
  BY <1>2, After1, Scripts DEF Rank, At1, Ends, Fallback, Early
<1> QED  BY <1>1, <1>2 DEF Rank

(* A step that leaves the handle alone.                                    *)
LEMMA TypeMove ==
  ASSUME TypeInv, NEW r \in Rank, at[r] \notin Ends,
         \/ Advance(r)
         \/ \E e \in Fallback : at' = [at EXCEPT ![r] = e],
         UNCHANGED tries
  PROVE  /\ AtOK(at)'
         /\ tries' \in [Rank -> 0 .. OpenAttempts]
         /\ \A q \in Rank : at'[q] \in Early => tries'[q] < OpenAttempts
<1>1. AtOK(at)'
  BY Moves DEF Advance
<1>2. \A q \in Rank : at'[q] \in Early => at[q] \in Early
  BY Moves DEF Advance, Early, Fallback, TypeInv, TypeOK
<1> QED  BY <1>1, <1>2 DEF TypeInv, TypeOK, OnScript, Early

(* A rank never leaves its own script.                                     *)
LEMMA TypeStep ==
  ASSUME TypeInv, NEW r \in Rank, Step(r)
  PROVE  TypeInv'
<1> USE DEF TypeInv, TypeOK, OnScript
<1>1. CASE Setup(r)
  BY <1>1, TypeMove DEF Setup, AtOK, Early, Ends, Fallback
<1>2. CASE Local(r)
  BY <1>2, TypeMove DEF Local, AtOK, Early, Ends, Fallback
<1>3. CASE Connect(r)
  BY <1>3, TypeMove DEF Connect, AtOK, Early, Ends, Fallback
<1>4. CASE Accept(r)
  BY <1>4, TypeMove DEF Accept, AtOK, Early, Ends, Fallback
<1>5. CASE Send(r)
  <2>1. Message(r) \in BOOLEAN
    BY DEF Message
  <2>2. socket' \in [Rank -> Seq(BOOLEAN)]
    BY <1>5, <2>1 DEF Send, Peer, Rank
  <2> QED  BY <1>5, <2>2, TypeMove DEF Send, AtOK, Early, Ends, Fallback
<1>6. CASE Recv(r)
  <2>1. Head(socket[r]) \in BOOLEAN /\ Tail(socket[r]) \in Seq(BOOLEAN)
    BY <1>6 DEF Recv
  <2>2. socket' \in [Rank -> Seq(BOOLEAN)]
    BY <1>6, <2>1 DEF Recv
  <2>3. peer_open' \in [Rank -> BOOLEAN]
    <3>1. CASE at[r] = "recv_status"
      BY <1>6, <2>1, <3>1 DEF Recv
    <3>2. CASE at[r] # "recv_status"
      BY <1>6, <3>2 DEF Recv
    <3> QED  BY <3>1, <3>2
  <2> QED  BY <1>6, <2>2, <2>3, TypeMove DEF Recv, AtOK, Early, Ends, Fallback
<1>7. CASE OpenMem(r)
  <2>1. opened' \in [Rank -> BOOLEAN]
    BY <1>7 DEF OpenMem
  <2>2. CASE UNCHANGED tries /\ Advance(r)
    BY <1>7, <2>1, <2>2, TypeMove DEF OpenMem, AtOK, Early, Ends, Fallback
  <2>3. CASE tries' = [tries EXCEPT ![r] = @ + 1]
    <3>1. tries[r] \in 0 .. OpenAttempts - 1
      BY <1>7, OpenAttemptsAssumption DEF OpenMem, Early
    <3>2. tries' \in [Rank -> 0 .. OpenAttempts]
      BY <2>3, <3>1, OpenAttemptsAssumption
    <3>3. AtOK(at)'
      <4>1. CASE UNCHANGED at
        BY <4>1 DEF AtOK
      <4>2. CASE Advance(r)
        BY <1>7, <4>2, Moves DEF OpenMem, Advance, Ends, Fallback
      <4> QED  BY <1>7, <4>1, <4>2 DEF OpenMem
    <3>4. \A q \in Rank : at'[q] \in Early => tries'[q] < OpenAttempts
      <4>1. at[r] = "open_mem" /\ After(r, "open_mem") \notin Early
        BY <1>7, After0, After1 DEF OpenMem, Rank, Early
      <4>2. CASE tries[r] + 1 = OpenAttempts /\ Advance(r)
        BY <4>1, <4>2, <2>3 DEF Advance, Early
      <4>3. CASE tries[r] + 1 # OpenAttempts /\ UNCHANGED at
        BY <4>1, <4>3, <2>3, <3>1, OpenAttemptsAssumption DEF Early
      <4> QED  BY <1>7, <2>3, <4>2, <4>3, <3>1 DEF OpenMem
    <3> QED  BY <1>7, <2>1, <3>2, <3>3, <3>4 DEF OpenMem, AtOK, Early
  <2> QED  BY <1>7, <2>2, <2>3 DEF OpenMem
<1>8. CASE StatusFails(r)
  BY <1>8, TypeMove DEF StatusFails, AtOK, Early, Ends, Fallback
<1>9. CASE Agree(r)
  <2>1. opened' = opened \/ opened' = [opened EXCEPT ![r] = FALSE]
    BY <1>9, Zenon DEF Agree
  <2>2. opened' \in [Rank -> BOOLEAN]
    BY <2>1
  <2>3. Advance(r) \/ \E e \in Fallback : at' = [at EXCEPT ![r] = e]
    BY <1>9, Zenon DEF Agree, Fallback
  <2> QED  BY <1>9, <2>2, <2>3, TypeMove DEF Agree, AtOK, Early, Ends, Fallback
<1>10. CASE Shm(r)
  BY <1>10, TypeMove DEF Shm, AtOK, Early, Ends, Fallback
<1>11. CASE Fail(r)
  <2>1. \E e \in Fallback : at' = [at EXCEPT ![r] = e]
    BY <1>11 DEF Fail, Fallback
  <2>2. at[r] \notin Ends
    BY <1>11, Scripts, FaultsAssumption DEF Fail
  <2> QED  BY <1>11, <2>1, <2>2, TypeMove DEF Fail, AtOK, Early
<1>12. CASE AllReduceCall(r)
  BY <1>12 DEF AllReduceCall, Route
<1> QED  BY <1>1, <1>2, <1>3, <1>4, <1>5, <1>6, <1>7, <1>8, <1>9, <1>10, <1>11, <1>12 DEF Step

(* Every variable keeps its type, each rank follows its own script, and    *)
(* the attempts to open the peer's handle stay within the limit of the     *)
(* loop around zeMemOpenIpcHandle, whatever fails.                         *)
THEOREM TypeCorrect == Spec => []TypeOK
<1>1. TypeInv /\ [Next]_vars => TypeInv'
  <2> SUFFICES ASSUME TypeInv, [Next]_vars PROVE TypeInv'
    OBVIOUS
  <2>1. CASE Next
    BY <2>1, TypeStep DEF Next
  <2>2. CASE UNCHANGED vars
    BY <2>2 DEF vars, TypeInv, TypeOK, OnScript
  <2> QED  BY <2>1, <2>2
<1>2. TypeInv => TypeOK
  BY DEF TypeInv
<1> QED  BY TypeInit, <1>1, <1>2, PTL DEF Spec

-----------------------------------------------------------------------------
LEMMA BarrierInit == Init => BarrierOrder
  BY DEF Init, BarrierOrder, Rank, Read1, Sent0, Fallback

(* Rank 0 initialises the barrier words between its second and its third   *)
(* message, and rank 1 uses them after it has read three.                  *)
LEMMA BarrierStep ==
  ASSUME TypeInv, BarrierOrder, NEW r \in Rank, Step(r)
  PROVE  BarrierOrder'
<1> USE DEF TypeInv, TypeOK, OnScript, BarrierOrder, Sent0, Read1, Rank, Peer, Fallback, At0, At1, Ends
<1>1. CASE Setup(r)
  <2>1. CASE r = 0
    BY <1>1, <2>1, After0 DEF Setup, Advance
  <2>2. CASE r = 1
    BY <1>1, <2>2, After1 DEF Setup, Advance
  <2> QED  BY <2>1, <2>2
<1>2. CASE Local(r)
  <2>1. CASE r = 0
    BY <1>2, <2>1, After0 DEF Local, Advance
  <2>2. CASE r = 1
    BY <1>2, <2>2, After1 DEF Local, Advance
  <2> QED  BY <2>1, <2>2
<1>3. CASE Connect(r)
  <2>1. CASE r = 0
    BY <1>3, <2>1, After0 DEF Connect, Advance
  <2>2. CASE r = 1
    BY <1>3, <2>2, After1 DEF Connect, Advance
  <2> QED  BY <2>1, <2>2
<1>4. CASE Accept(r)
  <2>1. CASE r = 0
    BY <1>4, <2>1, After0 DEF Accept, Advance
  <2>2. CASE r = 1
    BY <1>4, <2>2, After1 DEF Accept, Advance
  <2> QED  BY <2>1, <2>2
<1>5. CASE Send(r)
  <2>1. CASE r = 0
    BY <1>5, <2>1, After0 DEF Send, Advance, Message
  <2>2. CASE r = 1
    BY <1>5, <2>2, After1 DEF Send, Advance, Message
  <2> QED  BY <2>1, <2>2
<1>6. CASE Recv(r)
  <2>1. CASE r = 0
    BY <1>6, <2>1, After0 DEF Recv, Advance
  <2>2. CASE r = 1
    BY <1>6, <2>2, After1 DEF Recv, Advance
  <2> QED  BY <2>1, <2>2
<1>7. CASE OpenMem(r)
  <2>1. CASE r = 0
    BY <1>7, <2>1, After0 DEF OpenMem, Advance
  <2>2. CASE r = 1
    BY <1>7, <2>2, After1 DEF OpenMem, Advance
  <2> QED  BY <2>1, <2>2
<1>8. CASE StatusFails(r)
  <2>1. CASE r = 0
    BY <1>8, <2>1, After0 DEF StatusFails, Advance
  <2>2. CASE r = 1
    BY <1>8, <2>2, After1 DEF StatusFails, Advance
  <2> QED  BY <2>1, <2>2
<1>9. CASE Agree(r)
  <2>1. CASE r = 0
    BY <1>9, <2>1, After0 DEF Agree, Advance
  <2>2. CASE r = 1
    BY <1>9, <2>2, After1 DEF Agree, Advance
  <2> QED  BY <2>1, <2>2
<1>10. CASE Shm(r)
  <2>1. CASE r = 0
    BY <1>10, <2>1, After0 DEF Shm, Advance
  <2>2. CASE r = 1
    BY <1>10, <2>2, After1 DEF Shm, Advance
  <2> QED  BY <2>1, <2>2
<1>11. CASE Fail(r)
  <2>0. at[r] \notin Ends
    BY <1>11, Scripts, FaultsAssumption DEF Fail
  <2>1. CASE r = 0
    BY <1>11, <2>1, <2>0, After0 DEF Fail
  <2>2. CASE r = 1
    BY <1>11, <2>2, <2>0, After1 DEF Fail
  <2> QED  BY <2>1, <2>2
<1>12. CASE AllReduceCall(r)
  <2>1. CASE r = 0
    BY <1>12, <2>1, After0 DEF AllReduceCall, Advance, Route, Ready
  <2>2. CASE r = 1
    BY <1>12, <2>2, After1 DEF AllReduceCall, Advance, Route, Ready
  <2> QED  BY <2>1, <2>2
<1> QED  BY <1>1, <1>2, <1>3, <1>4, <1>5, <1>6, <1>7, <1>8, <1>9, <1>10, <1>11, <1>12 DEF Step

(* Whatever fails in the exchange, a rank that enters the host-barrier     *)
(* collective finds the barrier words of the shared memory initialised.    *)
THEOREM BarrierReady == Spec => []BarrierReadyBeforeUse
<1> DEFINE IInv == TypeInv /\ BarrierOrder
<1>1. Init => IInv
  BY TypeInit, BarrierInit
<1>2. IInv /\ [Next]_vars => IInv'
  <2> SUFFICES ASSUME IInv, [Next]_vars PROVE IInv'
    OBVIOUS
  <2>1. CASE Next
    BY <2>1, TypeStep, BarrierStep DEF Next
  <2>2. CASE UNCHANGED vars
    BY <2>2 DEF vars, TypeInv, TypeOK, OnScript, BarrierOrder, Sent0, Read1
  <2> QED  BY <2>1, <2>2
<1>3. IInv => BarrierReadyBeforeUse
  BY DEF TypeInv, TypeOK, BarrierOrder, BarrierReadyBeforeUse, Rank
<1> QED  BY <1>1, <1>2, <1>3, PTL DEF Spec

-----------------------------------------------------------------------------
LEMMA AgreementInit == Init => Agreement
  BY DEF Init, Agreement, BeforeStatus, StatusRead, AfterStatus, Answered, Rank

(* What each kind of step does to the place of a rank and to the sockets.  *)
LEMMA AdvanceFacts ==
  ASSUME TypeInv, NEW r \in Rank, Advance(r)
  PROVE  at'[r] = After(r, at[r]) /\ at'[Peer(r)] = at[Peer(r)]
  BY DEF TypeInv, TypeOK, Advance, Rank, Peer

LEMMA SendFacts ==
  ASSUME TypeInv, NEW r \in Rank, Send(r)
  PROVE  /\ Len(socket'[Peer(r)]) = Len(socket[Peer(r)]) + 1
         /\ Len(socket[Peer(r)]) = 0 => socket'[Peer(r)][1] = Message(r)
         /\ socket'[r] = socket[r]
<1>1. Peer(r) \in Rank /\ Peer(r) # r
  BY DEF Rank, Peer
<1>2. socket' = [socket EXCEPT ![Peer(r)] = Append(@, Message(r))]
  BY DEF Send
<1>3. socket[Peer(r)] \in Seq(BOOLEAN) /\ Message(r) \in BOOLEAN
  BY <1>1 DEF TypeInv, TypeOK, OnScript, Message
<1>4. socket'[Peer(r)] = Append(socket[Peer(r)], Message(r)) /\ socket'[r] = socket[r]
  BY <1>1, <1>2 DEF TypeInv, OnScript
<1> QED  BY <1>3, <1>4

LEMMA RecvFacts ==
  ASSUME TypeInv, NEW r \in Rank, Recv(r)
  PROVE  /\ Len(socket[r]) > 0
         /\ Len(socket'[r]) = Len(socket[r]) - 1
         /\ socket'[Peer(r)] = socket[Peer(r)]
         /\ at[r] = "recv_status" => peer_open'[r] = socket[r][1]
         /\ at[r] # "recv_status" => peer_open'[r] = peer_open[r]
         /\ peer_open'[Peer(r)] = peer_open[Peer(r)]
<1>1. Peer(r) \in Rank /\ Peer(r) # r
  BY DEF Rank, Peer
<1>2. socket' = [socket EXCEPT ![r] = Tail(@)] /\ socket[r] # <<>>
  BY DEF Recv
<1>3. socket[r] \in Seq(BOOLEAN)
  BY DEF TypeInv, OnScript
<1>4. Len(socket[r]) > 0 /\ Len(Tail(socket[r])) = Len(socket[r]) - 1
  BY <1>2, <1>3
<1>5. socket'[r] = Tail(socket[r]) /\ socket'[Peer(r)] = socket[Peer(r)]
  BY <1>1, <1>2 DEF TypeInv, OnScript
<1>6. CASE at[r] = "recv_status"
  <2>1. peer_open' = [peer_open EXCEPT ![r] = Head(socket[r])]
    BY <1>6 DEF Recv
  <2>2. Head(socket[r]) = socket[r][1]
    BY <1>2, <1>3
  <2> QED  BY <1>1, <1>4, <1>5, <1>6, <2>1, <2>2 DEF TypeInv, TypeOK
<1>7. CASE at[r] # "recv_status"
  BY <1>1, <1>4, <1>5, <1>7 DEF Recv
<1> QED  BY <1>6, <1>7

(* The ranks never disagree, as long as no step fails that a rank takes    *)
(* after it has read the peer's status, nor the reading itself.            *)
LEMMA AgreementStep ==
  ASSUME Faults \cap Late = {}, TypeInv, Agreement, NEW r \in Rank, Step(r)
  PROVE  Agreement'
<1>0. Peer(0) = 1 /\ Peer(1) = 0 /\ r \in {0, 1} /\ 0 \in Rank /\ 1 \in Rank
  BY DEF Peer, Rank
<1> USE DEF Agreement, BeforeStatus, StatusRead, AfterStatus, Answered, Status1,
            BothOpened, TypeInv, TypeOK, OnScript, At0, At1, Ends, Fallback
<1>1. CASE Setup(r)
  <2>1. CASE r = 0
    <3>1. at'[0] = After(0, at[0]) /\ at'[1] = at[1]
      BY <1>0, <1>1, <2>1, AdvanceFacts DEF Setup
    <3> QED  BY <1>0, <1>1, <2>1, <3>1, After0 DEF Setup
  <2>2. CASE r = 1
    <3>1. at'[1] = After(1, at[1]) /\ at'[0] = at[0]
      BY <1>0, <1>1, <2>2, AdvanceFacts DEF Setup
    <3> QED  BY <1>0, <1>1, <2>2, <3>1, After1 DEF Setup
  <2> QED  BY <1>0, <2>1, <2>2
<1>2. CASE Local(r)
  <2>1. CASE r = 0
    <3>1. at'[0] = After(0, at[0]) /\ at'[1] = at[1]
      BY <1>0, <1>2, <2>1, AdvanceFacts DEF Local
    <3> QED  BY <1>0, <1>2, <2>1, <3>1, After0 DEF Local
  <2>2. CASE r = 1
    <3>1. at'[1] = After(1, at[1]) /\ at'[0] = at[0]
      BY <1>0, <1>2, <2>2, AdvanceFacts DEF Local
    <3> QED  BY <1>0, <1>2, <2>2, <3>1, After1 DEF Local
  <2> QED  BY <1>0, <2>1, <2>2
<1>3. CASE Connect(r)
  <2>1. CASE r = 0
    <3>1. at'[0] = After(0, at[0]) /\ at'[1] = at[1]
      BY <1>0, <1>3, <2>1, AdvanceFacts DEF Connect
    <3> QED  BY <1>0, <1>3, <2>1, <3>1, After0 DEF Connect
  <2>2. CASE r = 1
    <3>1. at'[1] = After(1, at[1]) /\ at'[0] = at[0]
      BY <1>0, <1>3, <2>2, AdvanceFacts DEF Connect
    <3> QED  BY <1>0, <1>3, <2>2, <3>1, After1 DEF Connect
  <2> QED  BY <1>0, <2>1, <2>2
<1>4. CASE Accept(r)
  <2>1. CASE r = 0
    <3>1. at'[0] = After(0, at[0]) /\ at'[1] = at[1]
      BY <1>0, <1>4, <2>1, AdvanceFacts DEF Accept
    <3> QED  BY <1>0, <1>4, <2>1, <3>1, After0 DEF Accept
  <2>2. CASE r = 1
    <3>1. at'[1] = After(1, at[1]) /\ at'[0] = at[0]
      BY <1>0, <1>4, <2>2, AdvanceFacts DEF Accept
    <3> QED  BY <1>0, <1>4, <2>2, <3>1, After1 DEF Accept
  <2> QED  BY <1>0, <2>1, <2>2
<1>5. CASE Send(r)
  <2>1. CASE r = 0
    <3>0. /\ Len(socket'[1]) = Len(socket[1]) + 1
          /\ Len(socket[1]) = 0 => socket'[1][1] = Message(0)
          /\ socket'[0] = socket[0]
      BY <1>0, <1>5, <2>1, SendFacts
    <3>1. CASE at[0] = "send_mem"
      <4>1. at'[0] = "recv_mem" /\ at'[1] = at[1]
        BY <1>0, <1>5, <2>1, <3>1, After0, AdvanceFacts DEF Send
      <4> QED  BY <1>0, <1>5, <2>1, <3>0, <3>1, <4>1 DEF Send, Message
    <3>2. CASE at[0] = "send_status"
      <4>1. at'[0] = "recv_status" /\ at'[1] = at[1]
        BY <1>0, <1>5, <2>1, <3>2, After0, AdvanceFacts DEF Send
      <4> QED  BY <1>0, <1>5, <2>1, <3>0, <3>2, <4>1 DEF Send, Message
    <3>3. CASE at[0] = "send_pool"
      <4>1. at'[0] = "events" /\ at'[1] = at[1]
        BY <1>0, <1>5, <2>1, <3>3, After0, AdvanceFacts DEF Send
      <4> QED  BY <1>0, <1>5, <2>1, <3>0, <3>3, <4>1 DEF Send, Message
    <3> QED  BY <1>5, <2>1, <3>1, <3>2, <3>3 DEF Send
  <2>2. CASE r = 1
    <3>0. /\ Len(socket'[0]) = Len(socket[0]) + 1
          /\ Len(socket[0]) = 0 => socket'[0][1] = Message(1)
          /\ socket'[1] = socket[1]
      BY <1>0, <1>5, <2>2, SendFacts
    <3>1. CASE at[1] = "send_mem"
      <4>1. at'[1] = "open_mem" /\ at'[0] = at[0]
        BY <1>0, <1>5, <2>2, <3>1, After1, AdvanceFacts DEF Send
      <4> QED  BY <1>0, <1>5, <2>2, <3>0, <3>1, <4>1 DEF Send, Message
    <3>2. CASE at[1] = "send_status"
      <4>1. at'[1] = "agree" /\ at'[0] = at[0]
        BY <1>0, <1>5, <2>2, <3>2, After1, AdvanceFacts DEF Send
      <4> QED  BY <1>0, <1>5, <2>2, <3>0, <3>2, <4>1 DEF Send, Message
    <3> QED  BY <1>5, <2>2, <3>1, <3>2 DEF Send
  <2> QED  BY <1>0, <2>1, <2>2
<1>6. CASE Recv(r)
  <2>1. CASE r = 0
    <3>0. /\ Len(socket[0]) > 0 /\ Len(socket'[0]) = Len(socket[0]) - 1
          /\ socket'[1] = socket[1]
          /\ at[0] = "recv_status" => peer_open'[0] = socket[0][1]
          /\ at[0] # "recv_status" => peer_open'[0] = peer_open[0]
          /\ peer_open'[1] = peer_open[1]
      BY <1>0, <1>6, <2>1, RecvFacts
    <3>1. CASE at[0] = "recv_mem"
      <4>1. at'[0] = "open_mem" /\ at'[1] = at[1]
        BY <1>0, <1>6, <2>1, <3>1, After0, AdvanceFacts DEF Recv
      <4> QED  BY <1>0, <1>6, <2>1, <3>0, <3>1, <4>1 DEF Recv
    <3>2. CASE at[0] = "recv_status"
      <4>1. at'[0] = "agree" /\ at'[1] = at[1]
        BY <1>0, <1>6, <2>1, <3>2, After0, AdvanceFacts DEF Recv
      <4> QED  BY <1>0, <1>6, <2>1, <3>0, <3>2, <4>1 DEF Recv
    <3> QED  BY <1>6, <2>1, <3>1, <3>2 DEF Recv
  <2>2. CASE r = 1
    <3>0. /\ Len(socket[1]) > 0 /\ Len(socket'[1]) = Len(socket[1]) - 1
          /\ socket'[0] = socket[0]
          /\ at[1] = "recv_status" => peer_open'[1] = socket[1][1]
          /\ at[1] # "recv_status" => peer_open'[1] = peer_open[1]
          /\ peer_open'[0] = peer_open[0]
      BY <1>0, <1>6, <2>2, RecvFacts
    <3>1. CASE at[1] = "recv_mem"
      <4>1. at'[1] = "send_mem" /\ at'[0] = at[0]
        BY <1>0, <1>6, <2>2, <3>1, After1, AdvanceFacts DEF Recv
      <4> QED  BY <1>0, <1>6, <2>2, <3>0, <3>1, <4>1 DEF Recv
    <3>2. CASE at[1] = "recv_status"
      <4>1. at'[1] = "send_status" /\ at'[0] = at[0]
        BY <1>0, <1>6, <2>2, <3>2, After1, AdvanceFacts DEF Recv
      <4> QED  BY <1>0, <1>6, <2>2, <3>0, <3>2, <4>1 DEF Recv
    <3>3. CASE at[1] = "recv_pool"
      <4>1. at'[1] = "open_pool" /\ at'[0] = at[0]
        BY <1>0, <1>6, <2>2, <3>3, After1, AdvanceFacts DEF Recv
      <4> QED  BY <1>0, <1>6, <2>2, <3>0, <3>3, <4>1 DEF Recv
    <3> QED  BY <1>6, <2>2, <3>1, <3>2, <3>3 DEF Recv
  <2> QED  BY <1>0, <2>1, <2>2
<1>7. CASE OpenMem(r)
  <2>1. CASE r = 0
    BY <1>0, <1>7, <2>1, After0 DEF OpenMem, Advance, Late
  <2>2. CASE r = 1
    BY <1>0, <1>7, <2>2, After1 DEF OpenMem, Advance, Late
  <2> QED  BY <1>0, <2>1, <2>2
<1>8. CASE StatusFails(r)
  <2>1. CASE r = 0
    BY <1>0, <1>8, <2>1, After0 DEF StatusFails, Advance, Late
  <2>2. CASE r = 1
    BY <1>0, <1>8, <2>2, After1 DEF StatusFails, Advance, Late
  <2> QED  BY <1>0, <2>1, <2>2
<1>9. CASE Agree(r)
  <2>1. CASE r = 0
    BY <1>0, <1>9, <2>1, After0 DEF Agree, Advance, Late
  <2>2. CASE r = 1
    BY <1>0, <1>9, <2>2, After1 DEF Agree, Advance, Late
  <2> QED  BY <1>0, <2>1, <2>2
<1>10. CASE Shm(r)
  <2>1. CASE r = 0
    <3>1. at'[0] = After(0, at[0]) /\ at'[1] = at[1]
      BY <1>0, <1>10, <2>1, AdvanceFacts DEF Shm
    <3> QED  BY <1>0, <1>10, <2>1, <3>1, After0 DEF Shm
  <2>2. CASE r = 1
    <3>1. at'[1] = After(1, at[1]) /\ at'[0] = at[0]
      BY <1>0, <1>10, <2>2, AdvanceFacts DEF Shm
    <3> QED  BY <1>0, <1>10, <2>2, <3>1, After1 DEF Shm
  <2> QED  BY <1>0, <2>1, <2>2
<1>11. CASE Fail(r)
  <2>1. CASE r = 0
    <3>1. /\ at[0] \notin Ends /\ at[0] \notin Late /\ at[0] \notin {"accept", "agree"}
          /\ at[0] \notin {"open_mem", "send_status"}
      BY <1>11, <2>1, Scripts, FaultsAssumption DEF Fail
    <3>2. /\ at'[0] = IF at[0] \in {"setup", "connect"} THEN "no_peer" ELSE "failed"
          /\ at'[1] = at[1]
      BY <1>0, <1>11, <2>1 DEF Fail
    <3> QED  BY <1>11, <2>1, <3>1, <3>2 DEF Fail, Late
  <2>2. CASE r = 1
    <3>1. /\ at[1] \notin Ends /\ at[1] \notin Late /\ at[1] \notin {"accept", "agree"}
          /\ at[1] \notin {"open_mem", "send_status"}
      BY <1>11, <2>2, Scripts, FaultsAssumption DEF Fail
    <3>2. /\ at'[1] = IF at[1] \in {"setup", "connect"} THEN "no_peer" ELSE "failed"
          /\ at'[0] = at[0]
      BY <1>0, <1>11, <2>2 DEF Fail
    <3> QED  BY <1>11, <2>2, <3>1, <3>2 DEF Fail, Late
  <2> QED  BY <1>0, <2>1, <2>2
<1>12. CASE AllReduceCall(r)
  <2>1. CASE r = 0
    BY <1>0, <1>12, <2>1, After0 DEF AllReduceCall, Advance, Late
  <2>2. CASE r = 1
    BY <1>0, <1>12, <2>2, After1 DEF AllReduceCall, Advance, Late
  <2> QED  BY <1>0, <2>1, <2>2
<1> QED  BY <1>1, <1>2, <1>3, <1>4, <1>5, <1>6, <1>7, <1>8, <1>9, <1>10, <1>11, <1>12 DEF Step

(* A decided rank stays decided, so the collective it entered stays the    *)
(* one its exchange calls for.                                             *)
LEMMA RouteStep ==
  ASSUME TypeInv, RouteTaken, NEW r \in Rank, Step(r)
  PROVE  RouteTaken'
<1>1. UNCHANGED tensor
  BY DEF Step, Setup, Local, Connect, Accept, Send, Recv, OpenMem, StatusFails,
         Agree, Shm, Fail, AllReduceCall
<1>2. ASSUME NEW q \in Rank, Decided(q)  PROVE at'[q] = at[q]
  <2>1. at \in [Rank -> ScriptSteps \cup {"engaged"} \cup Fallback]
    BY DEF TypeInv, TypeOK
  <2>2. q = r /\ ~AllReduceCall(r) => FALSE
    BY <1>2, Scripts, FaultsAssumption
       DEF Step, Setup, Local, Connect, Accept, Send, Recv, OpenMem, StatusFails,
           Agree, Shm, Fail, Decided, Ends, Fallback
  <2>3. q # r => at'[q] = at[q]
    BY <2>1 DEF Step, Setup, Local, Connect, Accept, Send, Recv, OpenMem, StatusFails,
                Agree, Shm, Fail, AllReduceCall, Advance
  <2> QED  BY <2>2, <2>3 DEF AllReduceCall
<1>3. CASE AllReduceCall(r)
  BY <1>3 DEF AllReduceCall, RouteTaken, Route, Decided, Ready, TypeInv, TypeOK
<1>4. CASE ~AllReduceCall(r)
  <2>1. UNCHANGED transport
    BY <1>4 DEF Step, Setup, Local, Connect, Accept, Send, Recv, OpenMem, StatusFails,
                Agree, Shm, Fail
  <2> SUFFICES ASSUME NEW q \in Rank, transport[q] # "none"
               PROVE  /\ tensor.fits => Decided(q)'
                      /\ transport[q] = Route(q)'
    BY <1>1, <2>1 DEF RouteTaken
  <2>2. CASE tensor.fits
    BY <1>1, <1>2, <2>2 DEF RouteTaken, Route, Decided, Ready
  <2>3. CASE ~tensor.fits
    BY <1>1, <2>3 DEF RouteTaken, Route
  <2> QED  BY <2>2, <2>3
<1> QED  BY <1>3, <1>4

ExchangeInv == TypeInv /\ Agreement /\ RouteTaken

LEMMA ExchangeInvariant ==
  ASSUME Faults \cap Late = {}
  PROVE  Spec => []ExchangeInv
<1>1. Init => ExchangeInv
  BY TypeInit, AgreementInit DEF Init, ExchangeInv, RouteTaken
<1>2. ExchangeInv /\ [Next]_vars => ExchangeInv'
  <2> SUFFICES ASSUME ExchangeInv, [Next]_vars PROVE ExchangeInv'
    OBVIOUS
  <2>1. CASE Next
    BY <2>1, TypeStep, AgreementStep, RouteStep DEF Next, ExchangeInv
  <2>2. CASE UNCHANGED vars
    <3>1. TypeInv'
      BY <2>2 DEF vars, ExchangeInv, TypeInv, TypeOK, OnScript
    <3>2. Agreement'
      BY <2>2 DEF vars, ExchangeInv, Agreement, BeforeStatus, StatusRead,
                  AfterStatus, Answered, Status1, BothOpened
    <3>3. RouteTaken'
      BY <2>2 DEF vars, ExchangeInv, RouteTaken, Route, Decided, Ready
    <3> QED  BY <3>1, <3>2, <3>3 DEF ExchangeInv
  <2> QED  BY <2>1, <2>2
<1> QED  BY <1>1, <1>2, PTL DEF Spec

LEMMA InvAgrees == ExchangeInv => EngagedTogether
  BY DEF ExchangeInv, TypeInv, TypeOK, OnScript, Agreement, BeforeStatus, StatusRead,
         AfterStatus, Answered, EngagedTogether, Rank, Peer, Fallback, At0, At1, Ends

(* A rank never engages the push all-reduce while its peer falls back to   *)
(* oneCCL, whichever of the steps before the statuses, or of the making    *)
(* and sending of the pool, fail on either rank.                           *)
THEOREM ExchangeAgrees ==
  ASSUME Faults \cap Late = {}
  PROVE  Spec => []EngagedTogether
  BY ExchangeInvariant, InvAgrees, PTL

(* Under the same failures both ranks enter the same collective with the   *)
(* same tensor.                                                            *)
THEOREM CollectivesMatch ==
  ASSUME Faults \cap Late = {}
  PROVE  Spec => []SameTransport
<1>1. ExchangeInv => SameTransport
  <2> SUFFICES ASSUME ExchangeInv, NEW r \in Rank,
                      transport[r] # "none", transport[Peer(r)] # "none"
               PROVE  transport[r] = transport[Peer(r)]
    BY DEF SameTransport
  <2>1. Peer(r) \in Rank /\ Peer(Peer(r)) = r
    BY DEF Peer, Rank
  <2>2. tensor.fits => Decided(r) /\ Decided(Peer(r))
    BY <2>1 DEF ExchangeInv, RouteTaken
  <2>3. tensor.fits => (Ready(r) <=> Ready(Peer(r)))
    BY <2>1, <2>2, InvAgrees DEF EngagedTogether, Decided, Ready, Fallback
  <2> QED  BY <2>1, <2>3 DEF ExchangeInv, RouteTaken, Route
<1> QED  BY <1>1, ExchangeInvariant, PTL

=============================================================================
