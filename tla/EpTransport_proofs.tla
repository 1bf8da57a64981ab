-------------------------- MODULE EpTransport_proofs --------------------------
(***************************************************************************)
(* Safety of the expert-parallel sidecar with dispatch on the main stream, *)
(* for every number of layers, counter range and number of calls.          *)
(*                                                                         *)
(* As long as no wait has timed out, card 1 has finished the call card 0   *)
(* is in or the one before it.  The doorbell words of a layer then differ  *)
(* by at most one, exactly for the layer of the call in progress, which is *)
(* what the wrapping comparison can tell; the shared regions are handed    *)
(* over with them.                                                         *)
(***************************************************************************)
EXTENDS EpTransport, TLAPS

(* How far each stream is in what the host has queued.                     *)
QueueInv ==
  /\ returns <= calls
  /\ host = "begun" => calls = returns + 1
  /\ host # "begun" => returns = calls
  /\ n1 <= calls /\ (pc1 # "bump" => n1 < calls)
  /\ n0 <= returns /\ (pc0 # "wait" => n0 < returns)
  /\ nd <= calls /\ (pcd # "bump" => nd < calls)
  /\ nd = n0 \/ nd = n0 + 1
  /\ pcd # "bump" => nd = n0
  /\ pc0 # "wait" => nd = n0 + 1

(* A flag follows the counter of the card that stores it.                  *)
FlagInv ==
  \A l \in Layer :
    /\ IF pcd # "bump" /\ l = layer(nd)
       THEN ctr0[l] = Inc(flag_in[l]) ELSE ctr0[l] = flag_in[l]
    /\ IF pc1 # "bump" /\ l = layer(n1)
       THEN ctr1[l] = Inc(flag_ret[l]) ELSE ctr1[l] = flag_ret[l]

(* While no wait has timed out: where the cards are, what the flags say of *)
(* it, and what the regions hold.                                          *)
LockStep ==
  /\ n1 = n0 \/ n1 = n0 + 1
  /\ nd = n1 \/ nd = n1 + 1
  /\ pc1 \notin {"bump", "wait"} => nd = n1 + 1
  /\ pc0 \in {"add", "adding"} => n1 = n0 + 1
  /\ pc0 # "wait" => want = ctr0[layer(n0)]

Doorbells ==
  \A l \in Layer :
    IF nd = n1 + 1 /\ l = layer(n1)
    THEN flag_in[l] = Inc(flag_ret[l]) ELSE flag_in[l] = flag_ret[l]

Payloads ==
  /\ pc1 \in {"copying", "push", "pushing"} => x1 = n1
  /\ pc1 # "pushing" /\ n1 > 0 => psum = n1 - 1
  /\ pc0 = "adding" => acc = n0
  /\ LastSumIsRight

CleanInv == ~AnyError => LockStep /\ Doorbells /\ Payloads

InboxInv == pcd # "dispatching" /\ nd > 0 => inbox = nd - 1

(* An eager call finds the words of all layers clear, and the two cards    *)
(* then write those of its own layer only.                                 *)
HostInv ==
  /\ host = "synced" \/ (mode = "eager" /\ host = "idle") => Drained /\ ~AnyError
  /\ mode = "eager" /\ host \in {"begun", "waiting"} =>
       /\ calls > 0 /\ n1 >= calls - 1 /\ n0 >= calls - 1
       /\ \A l \in Layer : Failed(l) => l = layer(calls - 1)
  /\ host = "waiting" => mode = "eager"

IInv == TypeOK /\ QueueInv /\ FlagInv /\ InboxInv /\ CleanInv /\ HostInv

-----------------------------------------------------------------------------
(* Counters stay in their range, and the doorbell comparison tells a flag  *)
(* that has reached its counter from one that is one behind.               *)
LEMMA Comparison ==
  ASSUME NEW v \in Word
  PROVE  /\ Inc(v) \in Word
         /\ Ahead(v, v)
         /\ ~Ahead(v, Inc(v))
<1>1. Half \in Nat /\ Half > 0 /\ v \in Nat /\ v < 2 * Half
  BY HalfAssumption DEF Word
<1>2. CASE v + 1 < 2 * Half
  <2>1. Inc(v) = v + 1
    BY <1>1, <1>2 DEF Inc
  <2>2. (v - (v + 1)) % (2 * Half) = 2 * Half - 1
    BY <1>1
  <2>3. (v - v) % (2 * Half) = 0
    BY <1>1
  <2>. QED
    BY <1>1, <1>2, <2>1, <2>2, <2>3 DEF Ahead, Word
<1>3. CASE v + 1 = 2 * Half
  <2>1. Inc(v) = 0
    BY <1>1, <1>3 DEF Inc
  <2>2. (v - 0) % (2 * Half) = v
    BY <1>1, <1>3
  <2>3. (v - v) % (2 * Half) = 0
    BY <1>1
  <2>. QED
    BY <1>1, <1>3, <2>1, <2>2, <2>3 DEF Ahead, Word
<1>. QED
  BY <1>1, <1>2, <1>3

(* Every call has a layer.                                                 *)
LEMMA LayerType == ASSUME NEW k \in Nat PROVE layer(k) \in Layer
BY NLayersAssumption DEF layer, Layer

(* The invariant holds initially.                                          *)
LEMMA InitIInv == Init => IInv
<1>. SUFFICES ASSUME Init PROVE IInv
  OBVIOUS
<1>1. TypeOK
  BY MaxCallsAssumption, HalfAssumption DEF Init, TypeOK, Word, Zero, Clear, None
<1>2. QueueInv /\ FlagInv /\ InboxInv
  BY DEF Init, QueueInv, FlagInv, InboxInv, Zero
<1>3. ~AnyError
  BY DEF Init, AnyError, Failed, Clear
<1>4. CleanInv /\ HostInv
  BY <1>3 DEF Init, CleanInv, LockStep, Doorbells, Payloads, LastSumIsRight, HostInv,
              Drained, Zero
<1>. QED
  BY <1>1, <1>2, <1>4 DEF IInv

(* Every step keeps the types, whichever stream dispatches.                *)
LEMMA StepTypeOK ==
  ASSUME TypeOK, [Next]_vars
  PROVE  TypeOK'
<1>0. /\ MaxCalls \in Nat
      /\ \A v \in Word : Inc(v) \in Word
      /\ layer(n1) \in Layer /\ layer(nd) \in Layer /\ layer(n0) \in Layer
  BY MaxCallsAssumption, Comparison, LayerType DEF TypeOK
<1>1. CASE Host
  BY <1>0, <1>1 DEF Host, Begin, BeginRaises, End, EagerWait, Sync, TypeOK, card1Vars,
     pushVars, addVars
<1>2. CASE Bump1
  BY <1>0, <1>2 DEF Bump1, TypeOK, None, hostVars, pushVars, addVars
<1>3. CASE Wait1
  BY <1>0, <1>3 DEF Wait1, TypeOK, None, hostVars, pushVars, addVars
<1>4. CASE Timeout1
  BY <1>0, <1>4 DEF Timeout1, TypeOK, None, hostVars, pushVars, addVars
<1>5. CASE CopyBegin
  BY <1>0, <1>5 DEF CopyBegin, TypeOK, None, hostVars, pushVars, addVars
<1>6. CASE CopyEnd
  BY <1>0, <1>6 DEF CopyEnd, TypeOK, None, hostVars, pushVars, addVars
<1>7. CASE PushBegin
  BY <1>0, <1>7 DEF PushBegin, TypeOK, None, hostVars, pushVars, addVars
<1>8. CASE PushEnd
  BY <1>0, <1>8 DEF PushEnd, TypeOK, None, hostVars, pushVars, addVars
<1>9. CASE Bump0
  BY <1>0, <1>9 DEF Bump0, TypeOK, None, hostVars, card1Vars, addVars
<1>10. CASE DispatchBegin
  BY <1>0, <1>10 DEF DispatchBegin, TypeOK, None, hostVars, card1Vars, addVars
<1>11. CASE DispatchEnd
  BY <1>0, <1>11 DEF DispatchEnd, TypeOK, None, hostVars, card1Vars, addVars
<1>12. CASE Wait0Begin
  BY <1>0, <1>12 DEF Wait0Begin, TypeOK, None, hostVars, card1Vars, pushVars
<1>13. CASE Wait0End
  BY <1>0, <1>13 DEF Wait0End, TypeOK, None, hostVars, card1Vars, pushVars
<1>14. CASE Timeout0
  BY <1>0, <1>14 DEF Timeout0, TypeOK, None, hostVars, card1Vars, pushVars
<1>15. CASE AddBegin
  BY <1>0, <1>15 DEF AddBegin, TypeOK, None, hostVars, card1Vars, pushVars
<1>16. CASE AddEnd
  BY <1>0, <1>16 DEF AddEnd, TypeOK, None, hostVars, card1Vars, pushVars
<1>17. CASE UNCHANGED vars
  BY <1>17 DEF vars, TypeOK, hostVars, card1Vars, pushVars, addVars
<1>. QED
  BY <1>1, <1>2, <1>3, <1>4, <1>5, <1>6, <1>7, <1>8, <1>9, <1>10, <1>11, <1>12, <1>13, <1>14, <1>15, <1>16, <1>17 DEF Next, Card1, Card0

-----------------------------------------------------------------------------
(* An error word stays set.                                                *)
LEMMA ErrorsStay ==
  ASSUME TypeOK, Card1 \/ Card0, ~AnyError'
  PROVE  ~AnyError
<1>1. layer(n1) \in Layer /\ layer(n0) \in Layer
  BY LayerType DEF TypeOK
<1>2. \A l \in Layer : Failed(l) => Failed(l)'
  <2>1. CASE Bump1
    BY <1>1, <2>1 DEF Bump1, TypeOK, Failed, hostVars, pushVars, addVars
  <2>2. CASE Wait1
    BY <1>1, <2>2 DEF Wait1, TypeOK, Failed, hostVars, pushVars, addVars
  <2>3. CASE Timeout1
    BY <1>1, <2>3 DEF Timeout1, TypeOK, Failed, hostVars, pushVars, addVars
  <2>4. CASE CopyBegin
    BY <1>1, <2>4 DEF CopyBegin, TypeOK, Failed, hostVars, pushVars, addVars
  <2>5. CASE CopyEnd
    BY <1>1, <2>5 DEF CopyEnd, TypeOK, Failed, hostVars, pushVars, addVars
  <2>6. CASE PushBegin
    BY <1>1, <2>6 DEF PushBegin, TypeOK, Failed, hostVars, pushVars, addVars
  <2>7. CASE PushEnd
    BY <1>1, <2>7 DEF PushEnd, TypeOK, Failed, hostVars, pushVars, addVars
  <2>8. CASE Bump0
    BY <1>1, <2>8 DEF Bump0, TypeOK, Failed, hostVars, card1Vars, addVars
  <2>9. CASE DispatchBegin
    BY <1>1, <2>9 DEF DispatchBegin, TypeOK, Failed, hostVars, card1Vars, addVars
  <2>10. CASE DispatchEnd
    BY <1>1, <2>10 DEF DispatchEnd, TypeOK, Failed, hostVars, card1Vars, addVars
  <2>11. CASE Wait0Begin
    BY <1>1, <2>11 DEF Wait0Begin, TypeOK, Failed, hostVars, card1Vars, pushVars
  <2>12. CASE Wait0End
    BY <1>1, <2>12 DEF Wait0End, TypeOK, Failed, hostVars, card1Vars, pushVars
  <2>13. CASE Timeout0
    BY <1>1, <2>13 DEF Timeout0, TypeOK, Failed, hostVars, card1Vars, pushVars
  <2>14. CASE AddBegin
    BY <1>1, <2>14 DEF AddBegin, TypeOK, Failed, hostVars, card1Vars, pushVars
  <2>15. CASE AddEnd
    BY <1>1, <2>15 DEF AddEnd, TypeOK, Failed, hostVars, card1Vars, pushVars
  <2>. QED
    BY <2>1, <2>2, <2>3, <2>4, <2>5, <2>6, <2>7, <2>8, <2>9, <2>10, <2>11, <2>12, <2>13, <2>14, <2>15 DEF Card1, Card0
<1>. QED
  BY <1>2 DEF AnyError

(* The steps of the cards keep the invariant.                              *)
LEMMA CardIInv ==
  ASSUME PushSide = FALSE, IInv, Card1 \/ Card0
  PROVE  IInv'
<1>. USE DEF IInv
<1>0. TypeOK'
  BY StepTypeOK DEF Next
<1>a. /\ calls \in Nat /\ returns \in Nat /\ n0 \in Nat /\ n1 \in Nat /\ nd \in Nat
      /\ layer(n1) \in Layer /\ layer(nd) \in Layer /\ layer(n0) \in Layer
  BY LayerType, MaxCallsAssumption DEF TypeOK
<1>b. ~AnyError' => ~AnyError
  BY ErrorsStay
<1>c. \A v \in Word : Inc(v) \in Word /\ Ahead(v, v) /\ ~Ahead(v, Inc(v))
  BY Comparison
<1>1. CASE Bump1
  <2>1. QueueInv' /\ InboxInv'
    BY <1>1, <1>a DEF Bump1, TypeOK, QueueInv, InboxInv, hostVars, pushVars, addVars
  <2>2. FlagInv'
    BY <1>1, <1>a, <1>c DEF Bump1, TypeOK, FlagInv, hostVars, pushVars, addVars
  <2>3. ASSUME ~AnyError' PROVE LockStep'
    BY <1>1, <1>a, <1>b, <1>c, <2>3 DEF Bump1, TypeOK, QueueInv, FlagInv, CleanInv, LockStep,
       Doorbells, hostVars, pushVars, addVars
  <2>4. ASSUME ~AnyError' PROVE Doorbells'
    BY <1>1, <1>a, <1>b, <2>4 DEF Bump1, TypeOK, QueueInv, FlagInv, CleanInv, LockStep,
       Doorbells, hostVars, pushVars, addVars
  <2>5. ASSUME ~AnyError' PROVE Payloads'
    BY <1>1, <1>a, <1>b, <2>5 DEF Bump1, TypeOK, QueueInv, InboxInv, CleanInv, LockStep, Payloads,
       LastSumIsRight, hostVars, pushVars, addVars
  <2>6. HostInv'
    BY <1>1, <1>a DEF Bump1, TypeOK, QueueInv, HostInv, Drained, AnyError, Failed,
       hostVars, pushVars, addVars
  <2>. QED
    BY <1>0, <2>1, <2>2, <2>3, <2>4, <2>5, <2>6 DEF CleanInv
<1>2. CASE Wait1
  <2>1. QueueInv' /\ InboxInv'
    BY <1>2, <1>a DEF Wait1, TypeOK, QueueInv, InboxInv, hostVars, pushVars, addVars
  <2>2. FlagInv'
    BY <1>2, <1>a, <1>c DEF Wait1, TypeOK, FlagInv, hostVars, pushVars, addVars
  <2>3. ASSUME ~AnyError' PROVE LockStep'
    BY <1>2, <1>a, <1>b, <1>c, <2>3 DEF Wait1, TypeOK, QueueInv, FlagInv, CleanInv, LockStep,
       Doorbells, hostVars, pushVars, addVars
  <2>4. ASSUME ~AnyError' PROVE Doorbells'
    BY <1>2, <1>a, <1>b, <2>4 DEF Wait1, TypeOK, QueueInv, FlagInv, CleanInv, LockStep,
       Doorbells, hostVars, pushVars, addVars
  <2>5. ASSUME ~AnyError' PROVE Payloads'
    BY <1>2, <1>a, <1>b, <2>5 DEF Wait1, TypeOK, QueueInv, InboxInv, CleanInv, LockStep, Payloads,
       LastSumIsRight, hostVars, pushVars, addVars
  <2>6. HostInv'
    BY <1>2, <1>a DEF Wait1, TypeOK, QueueInv, HostInv, Drained, AnyError, Failed,
       hostVars, pushVars, addVars
  <2>. QED
    BY <1>0, <2>1, <2>2, <2>3, <2>4, <2>5, <2>6 DEF CleanInv
<1>3. CASE Timeout1
  <2>1. QueueInv' /\ InboxInv'
    BY <1>3, <1>a DEF Timeout1, TypeOK, QueueInv, InboxInv, hostVars, pushVars, addVars
  <2>2. FlagInv'
    BY <1>3, <1>a, <1>c DEF Timeout1, TypeOK, FlagInv, hostVars, pushVars, addVars
  <2>3. \E l \in Layer : Failed(l)'
    BY <1>3, <1>a DEF Timeout1, TypeOK, Failed, hostVars, pushVars, addVars
  <2>4. CleanInv'
    BY <2>3 DEF CleanInv, AnyError
  <2>5. HostInv'
    BY <1>3, <1>a DEF Timeout1, TypeOK, QueueInv, HostInv, Drained, AnyError, Failed,
       hostVars, pushVars, addVars
  <2>. QED
    BY <1>0, <2>1, <2>2, <2>4, <2>5
<1>4. CASE CopyBegin
  <2>1. QueueInv' /\ InboxInv'
    BY <1>4, <1>a DEF CopyBegin, TypeOK, QueueInv, InboxInv, hostVars, pushVars, addVars
  <2>2. FlagInv'
    BY <1>4, <1>a, <1>c DEF CopyBegin, TypeOK, FlagInv, hostVars, pushVars, addVars
  <2>3. ASSUME ~AnyError' PROVE LockStep'
    BY <1>4, <1>a, <1>b, <1>c, <2>3 DEF CopyBegin, TypeOK, QueueInv, FlagInv, CleanInv, LockStep,
       Doorbells, hostVars, pushVars, addVars
  <2>4. ASSUME ~AnyError' PROVE Doorbells'
    BY <1>4, <1>a, <1>b, <2>4 DEF CopyBegin, TypeOK, QueueInv, FlagInv, CleanInv, LockStep,
       Doorbells, hostVars, pushVars, addVars
  <2>5. ASSUME ~AnyError' PROVE Payloads'
    BY <1>4, <1>a, <1>b, <2>5 DEF CopyBegin, TypeOK, QueueInv, InboxInv, CleanInv, LockStep, Payloads,
       LastSumIsRight, hostVars, pushVars, addVars
  <2>6. HostInv'
    BY <1>4, <1>a DEF CopyBegin, TypeOK, QueueInv, HostInv, Drained, AnyError, Failed,
       hostVars, pushVars, addVars
  <2>. QED
    BY <1>0, <2>1, <2>2, <2>3, <2>4, <2>5, <2>6 DEF CleanInv
<1>5. CASE CopyEnd
  <2>1. QueueInv' /\ InboxInv'
    BY <1>5, <1>a DEF CopyEnd, TypeOK, QueueInv, InboxInv, hostVars, pushVars, addVars
  <2>2. FlagInv'
    BY <1>5, <1>a, <1>c DEF CopyEnd, TypeOK, FlagInv, hostVars, pushVars, addVars
  <2>3. ASSUME ~AnyError' PROVE LockStep'
    BY <1>5, <1>a, <1>b, <1>c, <2>3 DEF CopyEnd, TypeOK, QueueInv, FlagInv, CleanInv, LockStep,
       Doorbells, hostVars, pushVars, addVars
  <2>4. ASSUME ~AnyError' PROVE Doorbells'
    BY <1>5, <1>a, <1>b, <2>4 DEF CopyEnd, TypeOK, QueueInv, FlagInv, CleanInv, LockStep,
       Doorbells, hostVars, pushVars, addVars
  <2>5. ASSUME ~AnyError' PROVE Payloads'
    BY <1>5, <1>a, <1>b, <2>5 DEF CopyEnd, TypeOK, QueueInv, InboxInv, CleanInv, LockStep, Payloads,
       LastSumIsRight, hostVars, pushVars, addVars
  <2>6. HostInv'
    BY <1>5, <1>a DEF CopyEnd, TypeOK, QueueInv, HostInv, Drained, AnyError, Failed,
       hostVars, pushVars, addVars
  <2>. QED
    BY <1>0, <2>1, <2>2, <2>3, <2>4, <2>5, <2>6 DEF CleanInv
<1>6. CASE PushBegin
  <2>1. QueueInv' /\ InboxInv'
    BY <1>6, <1>a DEF PushBegin, TypeOK, QueueInv, InboxInv, hostVars, pushVars, addVars
  <2>2. FlagInv'
    BY <1>6, <1>a, <1>c DEF PushBegin, TypeOK, FlagInv, hostVars, pushVars, addVars
  <2>3. ASSUME ~AnyError' PROVE LockStep'
    BY <1>6, <1>a, <1>b, <1>c, <2>3 DEF PushBegin, TypeOK, QueueInv, FlagInv, CleanInv, LockStep,
       Doorbells, hostVars, pushVars, addVars
  <2>4. ASSUME ~AnyError' PROVE Doorbells'
    BY <1>6, <1>a, <1>b, <2>4 DEF PushBegin, TypeOK, QueueInv, FlagInv, CleanInv, LockStep,
       Doorbells, hostVars, pushVars, addVars
  <2>5. ASSUME ~AnyError' PROVE Payloads'
    BY <1>6, <1>a, <1>b, <2>5 DEF PushBegin, TypeOK, QueueInv, InboxInv, CleanInv, LockStep, Payloads,
       LastSumIsRight, hostVars, pushVars, addVars
  <2>6. HostInv'
    BY <1>6, <1>a DEF PushBegin, TypeOK, QueueInv, HostInv, Drained, AnyError, Failed,
       hostVars, pushVars, addVars
  <2>. QED
    BY <1>0, <2>1, <2>2, <2>3, <2>4, <2>5, <2>6 DEF CleanInv
<1>7. CASE PushEnd
  <2>1. QueueInv' /\ InboxInv'
    BY <1>7, <1>a DEF PushEnd, TypeOK, QueueInv, InboxInv, hostVars, pushVars, addVars
  <2>2. FlagInv'
    BY <1>7, <1>a, <1>c DEF PushEnd, TypeOK, FlagInv, hostVars, pushVars, addVars
  <2>3. ASSUME ~AnyError' PROVE LockStep'
    BY <1>7, <1>a, <1>b, <1>c, <2>3 DEF PushEnd, TypeOK, QueueInv, FlagInv, CleanInv, LockStep,
       Doorbells, hostVars, pushVars, addVars
  <2>4. ASSUME ~AnyError' PROVE Doorbells'
    BY <1>7, <1>a, <1>b, <2>4 DEF PushEnd, TypeOK, QueueInv, FlagInv, CleanInv, LockStep,
       Doorbells, hostVars, pushVars, addVars
  <2>5. ASSUME ~AnyError' PROVE Payloads'
    BY <1>7, <1>a, <1>b, <2>5 DEF PushEnd, TypeOK, QueueInv, InboxInv, CleanInv, LockStep, Payloads,
       LastSumIsRight, hostVars, pushVars, addVars
  <2>6. HostInv'
    BY <1>7, <1>a DEF PushEnd, TypeOK, QueueInv, HostInv, Drained, AnyError, Failed,
       hostVars, pushVars, addVars
  <2>. QED
    BY <1>0, <2>1, <2>2, <2>3, <2>4, <2>5, <2>6 DEF CleanInv
<1>8. CASE Bump0
  <2>1. QueueInv' /\ InboxInv'
    BY <1>8, <1>a DEF Bump0, TypeOK, QueueInv, InboxInv, hostVars, card1Vars, addVars
  <2>2. FlagInv'
    BY <1>8, <1>a, <1>c DEF Bump0, TypeOK, FlagInv, hostVars, card1Vars, addVars
  <2>3. ASSUME ~AnyError' PROVE LockStep'
    BY <1>8, <1>a, <1>b, <1>c, <2>3 DEF Bump0, TypeOK, QueueInv, FlagInv, CleanInv, LockStep,
       Doorbells, hostVars, card1Vars, addVars
  <2>4. ASSUME ~AnyError' PROVE Doorbells'
    BY <1>8, <1>a, <1>b, <2>4 DEF Bump0, TypeOK, QueueInv, FlagInv, CleanInv, LockStep,
       Doorbells, hostVars, card1Vars, addVars
  <2>5. ASSUME ~AnyError' PROVE Payloads'
    BY <1>8, <1>a, <1>b, <2>5 DEF Bump0, TypeOK, QueueInv, InboxInv, CleanInv, LockStep, Payloads,
       LastSumIsRight, hostVars, card1Vars, addVars
  <2>6. HostInv'
    BY <1>8, <1>a DEF Bump0, TypeOK, QueueInv, HostInv, Drained, AnyError, Failed,
       hostVars, card1Vars, addVars
  <2>. QED
    BY <1>0, <2>1, <2>2, <2>3, <2>4, <2>5, <2>6 DEF CleanInv
<1>9. CASE DispatchBegin
  <2>1. QueueInv' /\ InboxInv'
    BY <1>9, <1>a DEF DispatchBegin, TypeOK, QueueInv, InboxInv, hostVars, card1Vars, addVars
  <2>2. FlagInv'
    BY <1>9, <1>a, <1>c DEF DispatchBegin, TypeOK, FlagInv, hostVars, card1Vars, addVars
  <2>3. ASSUME ~AnyError' PROVE LockStep'
    BY <1>9, <1>a, <1>b, <1>c, <2>3 DEF DispatchBegin, TypeOK, QueueInv, FlagInv, CleanInv, LockStep,
       Doorbells, hostVars, card1Vars, addVars
  <2>4. ASSUME ~AnyError' PROVE Doorbells'
    BY <1>9, <1>a, <1>b, <2>4 DEF DispatchBegin, TypeOK, QueueInv, FlagInv, CleanInv, LockStep,
       Doorbells, hostVars, card1Vars, addVars
  <2>5. ASSUME ~AnyError' PROVE Payloads'
    BY <1>9, <1>a, <1>b, <2>5 DEF DispatchBegin, TypeOK, QueueInv, InboxInv, CleanInv, LockStep, Payloads,
       LastSumIsRight, hostVars, card1Vars, addVars
  <2>6. HostInv'
    BY <1>9, <1>a DEF DispatchBegin, TypeOK, QueueInv, HostInv, Drained, AnyError, Failed,
       hostVars, card1Vars, addVars
  <2>. QED
    BY <1>0, <2>1, <2>2, <2>3, <2>4, <2>5, <2>6 DEF CleanInv
<1>10. CASE DispatchEnd
  <2>1. QueueInv' /\ InboxInv'
    BY <1>10, <1>a DEF DispatchEnd, TypeOK, QueueInv, InboxInv, hostVars, card1Vars, addVars
  <2>2. FlagInv'
    BY <1>10, <1>a, <1>c DEF DispatchEnd, TypeOK, FlagInv, hostVars, card1Vars, addVars
  <2>3. ASSUME ~AnyError' PROVE LockStep'
    BY <1>10, <1>a, <1>b, <1>c, <2>3 DEF DispatchEnd, TypeOK, QueueInv, FlagInv, CleanInv, LockStep,
       Doorbells, hostVars, card1Vars, addVars
  <2>4. ASSUME ~AnyError' PROVE Doorbells'
    BY <1>10, <1>a, <1>b, <2>4 DEF DispatchEnd, TypeOK, QueueInv, FlagInv, CleanInv, LockStep,
       Doorbells, hostVars, card1Vars, addVars
  <2>5. ASSUME ~AnyError' PROVE Payloads'
    BY <1>10, <1>a, <1>b, <2>5 DEF DispatchEnd, TypeOK, QueueInv, InboxInv, CleanInv, LockStep, Payloads,
       LastSumIsRight, hostVars, card1Vars, addVars
  <2>6. HostInv'
    BY <1>10, <1>a DEF DispatchEnd, TypeOK, QueueInv, HostInv, Drained, AnyError, Failed,
       hostVars, card1Vars, addVars
  <2>. QED
    BY <1>0, <2>1, <2>2, <2>3, <2>4, <2>5, <2>6 DEF CleanInv
<1>11. CASE Wait0Begin
  <2>1. QueueInv' /\ InboxInv'
    BY <1>11, <1>a DEF Wait0Begin, TypeOK, QueueInv, InboxInv, hostVars, card1Vars, pushVars
  <2>2. FlagInv'
    BY <1>11, <1>a, <1>c DEF Wait0Begin, TypeOK, FlagInv, hostVars, card1Vars, pushVars
  <2>3. ASSUME ~AnyError' PROVE LockStep'
    BY <1>11, <1>a, <1>b, <1>c, <2>3 DEF Wait0Begin, TypeOK, QueueInv, FlagInv, CleanInv, LockStep,
       Doorbells, hostVars, card1Vars, pushVars
  <2>4. ASSUME ~AnyError' PROVE Doorbells'
    BY <1>11, <1>a, <1>b, <2>4 DEF Wait0Begin, TypeOK, QueueInv, FlagInv, CleanInv, LockStep,
       Doorbells, hostVars, card1Vars, pushVars
  <2>5. ASSUME ~AnyError' PROVE Payloads'
    BY <1>11, <1>a, <1>b, <2>5 DEF Wait0Begin, TypeOK, QueueInv, InboxInv, CleanInv, LockStep, Payloads,
       LastSumIsRight, hostVars, card1Vars, pushVars
  <2>6. HostInv'
    BY <1>11, <1>a DEF Wait0Begin, TypeOK, QueueInv, HostInv, Drained, AnyError, Failed,
       hostVars, card1Vars, pushVars
  <2>. QED
    BY <1>0, <2>1, <2>2, <2>3, <2>4, <2>5, <2>6 DEF CleanInv
<1>12. CASE Wait0End
  <2>1. QueueInv' /\ InboxInv'
    BY <1>12, <1>a DEF Wait0End, TypeOK, QueueInv, InboxInv, hostVars, card1Vars, pushVars
  <2>2. FlagInv'
    BY <1>12, <1>a, <1>c DEF Wait0End, TypeOK, FlagInv, hostVars, card1Vars, pushVars
  <2>3. ASSUME ~AnyError' PROVE LockStep'
    BY <1>12, <1>a, <1>b, <1>c, <2>3 DEF Wait0End, TypeOK, QueueInv, FlagInv, CleanInv, LockStep,
       Doorbells, hostVars, card1Vars, pushVars
  <2>4. ASSUME ~AnyError' PROVE Doorbells'
    BY <1>12, <1>a, <1>b, <2>4 DEF Wait0End, TypeOK, QueueInv, FlagInv, CleanInv, LockStep,
       Doorbells, hostVars, card1Vars, pushVars
  <2>5. ASSUME ~AnyError' PROVE Payloads'
    BY <1>12, <1>a, <1>b, <2>5 DEF Wait0End, TypeOK, QueueInv, InboxInv, CleanInv, LockStep, Payloads,
       LastSumIsRight, hostVars, card1Vars, pushVars
  <2>6. HostInv'
    BY <1>12, <1>a DEF Wait0End, TypeOK, QueueInv, HostInv, Drained, AnyError, Failed,
       hostVars, card1Vars, pushVars
  <2>. QED
    BY <1>0, <2>1, <2>2, <2>3, <2>4, <2>5, <2>6 DEF CleanInv
<1>13. CASE Timeout0
  <2>1. QueueInv' /\ InboxInv'
    BY <1>13, <1>a DEF Timeout0, TypeOK, QueueInv, InboxInv, hostVars, card1Vars, pushVars
  <2>2. FlagInv'
    BY <1>13, <1>a, <1>c DEF Timeout0, TypeOK, FlagInv, hostVars, card1Vars, pushVars
  <2>3. \E l \in Layer : Failed(l)'
    BY <1>13, <1>a DEF Timeout0, TypeOK, Failed, hostVars, card1Vars, pushVars
  <2>4. CleanInv'
    BY <2>3 DEF CleanInv, AnyError
  <2>5. HostInv'
    BY <1>13, <1>a DEF Timeout0, TypeOK, QueueInv, HostInv, Drained, AnyError, Failed,
       hostVars, card1Vars, pushVars
  <2>. QED
    BY <1>0, <2>1, <2>2, <2>4, <2>5
<1>14. CASE AddBegin
  <2>1. QueueInv' /\ InboxInv'
    BY <1>14, <1>a DEF AddBegin, TypeOK, QueueInv, InboxInv, hostVars, card1Vars, pushVars
  <2>2. FlagInv'
    BY <1>14, <1>a, <1>c DEF AddBegin, TypeOK, FlagInv, hostVars, card1Vars, pushVars
  <2>3. ASSUME ~AnyError' PROVE LockStep'
    BY <1>14, <1>a, <1>b, <1>c, <2>3 DEF AddBegin, TypeOK, QueueInv, FlagInv, CleanInv, LockStep,
       Doorbells, hostVars, card1Vars, pushVars
  <2>4. ASSUME ~AnyError' PROVE Doorbells'
    BY <1>14, <1>a, <1>b, <2>4 DEF AddBegin, TypeOK, QueueInv, FlagInv, CleanInv, LockStep,
       Doorbells, hostVars, card1Vars, pushVars
  <2>5. ASSUME ~AnyError' PROVE Payloads'
    BY <1>14, <1>a, <1>b, <2>5 DEF AddBegin, TypeOK, QueueInv, InboxInv, CleanInv, LockStep, Payloads,
       LastSumIsRight, hostVars, card1Vars, pushVars
  <2>6. HostInv'
    BY <1>14, <1>a DEF AddBegin, TypeOK, QueueInv, HostInv, Drained, AnyError, Failed,
       hostVars, card1Vars, pushVars
  <2>. QED
    BY <1>0, <2>1, <2>2, <2>3, <2>4, <2>5, <2>6 DEF CleanInv
<1>15. CASE AddEnd
  <2>1. QueueInv' /\ InboxInv'
    BY <1>15, <1>a DEF AddEnd, TypeOK, QueueInv, InboxInv, hostVars, card1Vars, pushVars
  <2>2. FlagInv'
    BY <1>15, <1>a, <1>c DEF AddEnd, TypeOK, FlagInv, hostVars, card1Vars, pushVars
  <2>3. ASSUME ~AnyError' PROVE LockStep'
    BY <1>15, <1>a, <1>b, <1>c, <2>3 DEF AddEnd, TypeOK, QueueInv, FlagInv, CleanInv, LockStep,
       Doorbells, hostVars, card1Vars, pushVars
  <2>4. ASSUME ~AnyError' PROVE Doorbells'
    BY <1>15, <1>a, <1>b, <2>4 DEF AddEnd, TypeOK, QueueInv, FlagInv, CleanInv, LockStep,
       Doorbells, hostVars, card1Vars, pushVars
  <2>5. ASSUME ~AnyError' PROVE Payloads'
    BY <1>15, <1>a, <1>b, <2>5 DEF AddEnd, TypeOK, QueueInv, InboxInv, CleanInv, LockStep, Payloads,
       LastSumIsRight, hostVars, card1Vars, pushVars
  <2>6. HostInv'
    BY <1>15, <1>a DEF AddEnd, TypeOK, QueueInv, HostInv, Drained, AnyError, Failed,
       hostVars, card1Vars, pushVars
  <2>. QED
    BY <1>0, <2>1, <2>2, <2>3, <2>4, <2>5, <2>6 DEF CleanInv
<1>. QED
  BY <1>1, <1>2, <1>3, <1>4, <1>5, <1>6, <1>7, <1>8, <1>9, <1>10, <1>11, <1>12, <1>13, <1>14, <1>15 DEF Card1, Card0

(* The steps of the host keep the invariant.                               *)
LEMMA HostIInv ==
  ASSUME IInv, Host
  PROVE  IInv'
<1>. USE DEF IInv
<1>0. TypeOK'
  BY StepTypeOK DEF Next
<1>a. calls \in Nat /\ returns \in Nat /\ n0 \in Nat /\ n1 \in Nat /\ nd \in Nat
  BY MaxCallsAssumption DEF TypeOK
<1>b. UNCHANGED <<card1Vars, pushVars, addVars>>
  BY DEF Host, Begin, BeginRaises, End, EagerWait, Sync
<1>1. QueueInv'
  <2>1. CASE Begin \/ BeginRaises \/ End
    BY <2>1, <1>a, <1>b DEF Begin, BeginRaises, End, TypeOK, QueueInv, card1Vars, pushVars,
       addVars
  <2>2. CASE EagerWait \/ Sync
    <3>1. host # "begun" /\ host' # "begun" /\ UNCHANGED <<calls, returns>>
      BY <2>2 DEF EagerWait, Sync
    <3>. QED
      BY <3>1, <1>a, <1>b DEF QueueInv, card1Vars, pushVars, addVars
  <2>. QED
    BY <2>1, <2>2 DEF Host
<1>2. FlagInv' /\ InboxInv'
  BY <1>b DEF FlagInv, InboxInv, card1Vars, pushVars
<1>3. AnyError' <=> AnyError
  BY <1>b DEF AnyError, Failed, card1Vars, addVars
<1>4. CleanInv'
  BY <1>b, <1>3 DEF CleanInv, LockStep, Doorbells, Payloads, LastSumIsRight, card1Vars, pushVars,
     addVars
<1>5. HostInv'
  <2>1. CASE Begin
    BY <2>1, <1>a, <1>b, <1>3 DEF Begin, TypeOK, HostInv, Drained, AnyError, Failed, card1Vars, addVars
  <2>2. CASE BeginRaises
    BY <2>2, <1>a, <1>b, <1>3 DEF BeginRaises, TypeOK, HostInv
  <2>3. CASE End
    BY <2>3, <1>a, <1>b, <1>3 DEF End, TypeOK, HostInv, Drained, Failed, card1Vars, addVars
  <2>4. CASE EagerWait
    BY <2>4, <1>a, <1>b, <1>3 DEF EagerWait, TypeOK, HostInv, Drained, AnyError, Failed, card1Vars,
       addVars
  <2>5. CASE Sync
    BY <2>5, <1>a, <1>b, <1>3 DEF Sync, TypeOK, HostInv, Drained, card1Vars, addVars
  <2>. QED
    BY <2>1, <2>2, <2>3, <2>4, <2>5 DEF Host
<1>. QED
  BY <1>0, <1>1, <1>2, <1>4, <1>5

-----------------------------------------------------------------------------
(* Every reachable state of the sidecar has the declared types, whichever  *)
(* stream dispatches.                                                      *)
THEOREM EpTypeCorrect == Spec => []TypeOK
<1>1. Init => TypeOK
  BY InitIInv DEF IInv
<1>2. TypeOK /\ [Next]_vars => TypeOK'
  BY StepTypeOK
<1>. QED
  BY <1>1, <1>2, PTL DEF Spec

(* With dispatch on the main stream the invariant holds of every state.    *)
LEMMA EpInvariance == ASSUME PushSide = FALSE PROVE Spec => []IInv
<1>1. Init => IInv
  BY InitIInv
<1>2. IInv /\ [Next]_vars => IInv'
  <2>. SUFFICES ASSUME IInv, [Next]_vars PROVE IInv'
    OBVIOUS
  <2>1. CASE Host
    BY <2>1, HostIInv
  <2>2. CASE Card1 \/ Card0
    BY <2>2, CardIInv
  <2>3. CASE UNCHANGED vars
    BY <2>3 DEF vars, hostVars, card1Vars, pushVars, addVars, IInv, TypeOK, QueueInv, FlagInv,
       InboxInv, CleanInv, LockStep, Doorbells, Payloads, LastSumIsRight, HostInv, Drained,
       AnyError, Failed
  <2>. QED
    BY <2>1, <2>2, <2>3 DEF Next
<1>. QED
  BY <1>1, <1>2, PTL DEF Spec

(* A wrong sum is never silent: while no error word is set, the sum that   *)
(* ep_add_uncached writes is that of its own call.                         *)
THEOREM EpSumsItsOwnCall == ASSUME PushSide = FALSE PROVE Spec => []SumsItsOwnCall
<1>1. IInv => SumsItsOwnCall
  BY DEF IInv, CleanInv, Payloads, SumsItsOwnCall
<1>. QED
  BY <1>1, EpInvariance, PTL

(* The one inbox and the one psum of all layers are never read and written *)
(* at the same time while no error word is set.                            *)
THEOREM EpRegionsExclusive == ASSUME PushSide = FALSE PROVE Spec => []RegionsExclusive
<1>1. IInv => RegionsExclusive
  <2>. SUFFICES ASSUME IInv, ~AnyError PROVE RegionsExclusive
    BY DEF RegionsExclusive
  <2>1. n0 \in Nat /\ n1 \in Nat /\ nd \in Nat
    BY DEF IInv, TypeOK
  <2>. QED
    BY <2>1 DEF IInv, CleanInv, LockStep, QueueInv, RegionsExclusive
<1>. QED
  BY <1>1, EpInvariance, PTL

(* An eager ep_moe that returns, and an ep_prefill_sync that does not      *)
(* throw, leave the sum of their own call although waits time out.         *)
THEOREM EpReturnsOwnSum == ASSUME PushSide = FALSE PROVE Spec => []ReturnsOwnSum
<1>1. IInv => ReturnsOwnSum
  BY DEF IInv, HostInv, CleanInv, Payloads, ReturnsOwnSum
<1>. QED
  BY <1>1, EpInvariance, PTL
=============================================================================
