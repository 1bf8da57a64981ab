------------------------ MODULE EagerAllReduce_proofs ------------------------
(***************************************************************************)
(* Safety of the eager-async push all-reduce for every number of calls and *)
(* every ring of at least two slots.                                       *)
(*                                                                         *)
(* The argument counts.  For each rank let S be the signals it issued, K   *)
(* the signals of its peer it consumed (reset), P the payloads it pushed   *)
(* and F the calls it reduced.  A rank signals call c only after consuming *)
(* call c-1, and consumes only what was signalled, so S of one rank        *)
(* exceeds K of the other by at most two; a rank signals call c only after *)
(* its queue went past the reduce of call c-1, so P of one rank exceeds F  *)
(* of the other by at most two.  At most two consecutive calls are in a    *)
(* ring at a time, and two slots keep consecutive calls apart.             *)
(***************************************************************************)
EXTENDS EagerAllReduce, TLAPS

Consumed(r) ==
  IF host[r] = "input"
     \/ imm[r] \in {"wait_input", "copy", "copying", "signal", "wait", "reset"}
    THEN Cur(r)
    ELSE g_call[r]

(* Where the three engines of a rank can be with respect to each other.    *)
EnginesOf(r) ==
  /\ g_call[r] = 0 => host[r] = "idle"
  /\ host[r] = "idle" => qsub[r] = 2 * g_call[r]
  /\ host[r] # "idle" => qsub[r] = 2 * g_call[r] - 1
  /\ host[r] # "sync" => imm[r] = "idle" /\ ~g_done[r]
  /\ host[r] = "sync" => (imm[r] = "idle" <=> g_done[r])
  /\ qdone[r] <= qsub[r]
  /\ host[r] = "idle" => qdone[r] >= qsub[r] - 1
  /\ host[r] # "idle" => qdone[r] >= qsub[r] - 2
  /\ imm[r] \notin {"idle", "wait_input"} => qdone[r] = qsub[r]
  /\ g_done[r] => qdone[r] = qsub[r]
  /\ reducing[r] => qdone[r] < qsub[r] /\ qdone[r] % 2 = 1
EnginesInv == \A r \in Rank : EnginesOf(r)

(* Which latches are set: those of the calls signalled and not consumed.   *)
EventsOf(r) ==
  /\ Consumed(Peer(r)) <= Signalled(r)
  /\ imm[Peer(r)] = "reset" => Consumed(Peer(r)) < Signalled(r)
  /\ \A i \in Slot :
       ev[r][i] <=>
         \/ Consumed(Peer(r)) < Signalled(r) /\ i = SlotOf(Consumed(Peer(r)))
         \/ Consumed(Peer(r)) + 1 < Signalled(r) /\ i = SlotOf(Consumed(Peer(r)) + 1)
EventsInv == \A r \in Rank : EventsOf(r)

(* Which payloads are whole: those pushed and not yet reduced.             *)
PayloadsOf(r) ==
  /\ Reduced(r) < Pushed(Peer(r)) => scratch[r][SlotOf(Reduced(r))] = Reduced(r)
  /\ Reduced(r) + 1 < Pushed(Peer(r)) =>
       scratch[r][SlotOf(Reduced(r) + 1)] = Reduced(r) + 1
PayloadsInv == \A r \in Rank : PayloadsOf(r)

IInv == TypeOK /\ EnginesInv /\ EventsInv /\ PayloadsInv

-----------------------------------------------------------------------------
(* Slots.                                                                  *)

(* A call uses a slot of the ring.                                         *)
LEMMA SlotInRing ==
  ASSUME NEW c \in Nat
  PROVE  SlotOf(c) \in Slot
BY RingAssumption DEF SlotOf, Slot

(* Consecutive calls use different slots of a ring of two or more.         *)
LEMMA ConsecutiveSlots ==
  ASSUME Ring >= 2, NEW c \in Nat
  PROVE  SlotOf(c) # SlotOf(c + 1)
<1>1. SUFFICES ASSUME c % Ring = (c + 1) % Ring
              PROVE  FALSE
  BY DEF SlotOf
<1>2. PICK a \in Int, b \in Int :
        /\ c = Ring * a + (c % Ring)
        /\ c + 1 = Ring * b + ((c + 1) % Ring)
  <2>1. c = Ring * (c \div Ring) + (c % Ring) /\ c \div Ring \in Int
    BY RingAssumption
  <2>2. c + 1 = Ring * ((c + 1) \div Ring) + ((c + 1) % Ring) /\ (c + 1) \div Ring \in Int
    BY RingAssumption
  <2>. QED
    BY <2>1, <2>2
<1>3. Ring * b - Ring * a = 1
  BY <1>1, <1>2, RingAssumption
<1>4. Ring * (b - a) = 1
  BY <1>3, RingAssumption
<1>. QED
  BY <1>4, RingAssumption

-----------------------------------------------------------------------------
(* Types.                                                                  *)

(* Initially the variables have their types.                               *)
LEMMA TypeInit == Init => TypeOK
BY MaxCallsAssumption DEF Init, TypeOK, None

(* Every step of a rank keeps the types.                                   *)
LEMMA TypeStep ==
  ASSUME TypeOK, NEW q \in Rank, Step(q)
  PROVE  TypeOK'
<1>0. /\ Cur(q) \in Nat \cup {None}
      /\ Peer(q) \in Rank
      /\ CallOf(qdone[q]) \in Nat
  BY DEF TypeOK, Cur, Peer, Rank, CallOf, None
<1>1. CASE BeginCall(q)
  <2>1. g_call' \in [Rank -> 0 .. MaxCalls] /\ qsub' \in [Rank -> Nat]
    BY <1>1, MaxCallsAssumption DEF BeginCall, TypeOK
  <2>2. host' \in [Rank -> {"idle", "input", "sync"}]
    BY <1>1 DEF BeginCall, TypeOK
  <2>3. imm' \in [Rank -> {"idle", "wait_input", "copy", "copying", "signal", "wait",
                           "reset", "done"}]
    BY <1>1 DEF BeginCall, TypeOK
  <2>. QED
    BY <1>1, <2>1, <2>2, <2>3 DEF BeginCall, TypeOK
<1>2. CASE HostInputReady(q)
  BY <1>2 DEF HostInputReady, TypeOK
<1>3. CASE HostHandoff(q)
  BY <1>3 DEF HostHandoff, TypeOK
<1>4. CASE ImmWaitInput(q)
  BY <1>4 DEF ImmWaitInput, TypeOK
<1>5. CASE ImmCopyBegin(q)
  BY <1>5, <1>0 DEF ImmCopyBegin, TypeOK
<1>6. CASE ImmCopyEnd(q)
  BY <1>6, <1>0 DEF ImmCopyEnd, TypeOK
<1>7. CASE ImmSignal(q)
  BY <1>7, <1>0 DEF ImmSignal, TypeOK
<1>8. CASE ImmWaitPeer(q)
  BY <1>8 DEF ImmWaitPeer, TypeOK
<1>9. CASE ImmReset(q)
  BY <1>9, <1>0 DEF ImmReset, TypeOK
<1>10. CASE ImmSignalDone(q)
  BY <1>10 DEF ImmSignalDone, TypeOK
<1>11. CASE QueueBarrier(q)
  BY <1>11 DEF QueueBarrier, TypeOK
<1>12. CASE ReduceBegin(q)
  BY <1>12 DEF ReduceBegin, TypeOK
<1>13. CASE ReduceEnd(q)
  <2>1. scratch[q][SlotOf(CallOf(qdone[q]))] \in Nat \cup {None}
    BY <1>0, SlotInRing DEF TypeOK
  <2>2. summed' \in [Rank -> [Rank -> Nat \cup {None}]]
    BY <1>13, <1>0, <2>1 DEF ReduceEnd, TypeOK
  <2>. QED
    BY <1>13, <2>2 DEF ReduceEnd, TypeOK
<1>14. CASE Die(q)
  BY <1>14 DEF Die, TypeOK
<1>. QED
  BY <1>1, <1>2, <1>3, <1>4, <1>5, <1>6, <1>7, <1>8, <1>9, <1>10, <1>11, <1>12, <1>13, <1>14 DEF Step, Host, Imm, Queue

(* The variables keep their types, whatever the ring.                      *)
THEOREM TypeCorrect == Spec => []TypeOK
<1>1. TypeOK /\ [Next]_vars => TypeOK'
  <2>1. TypeOK /\ UNCHANGED vars => TypeOK'
    BY DEF TypeOK, vars
  <2>. QED
    BY <2>1, TypeStep DEF Next
<1>. QED
  BY TypeInit, <1>1, PTL DEF Spec

-----------------------------------------------------------------------------
(* The engines of one rank.                                                *)

(* The counters of a rank are natural numbers.                             *)
LEMMA Counters ==
  ASSUME TypeOK, NEW r \in Rank
  PROVE  g_call[r] \in Nat /\ qsub[r] \in Nat /\ qdone[r] \in Nat
BY MaxCallsAssumption DEF TypeOK

(* A step of one rank leaves the engines of the other alone.               *)
LEMMA OtherRank ==
  ASSUME TypeOK, NEW q \in Rank, Step(q), NEW r \in Rank, r # q
  PROVE  /\ g_call'[r] = g_call[r] /\ host'[r] = host[r] /\ imm'[r] = imm[r]
         /\ g_done'[r] = g_done[r] /\ qsub'[r] = qsub[r] /\ qdone'[r] = qdone[r]
         /\ reducing'[r] = reducing[r]
<1>1. CASE BeginCall(q)
  BY <1>1 DEF BeginCall, TypeOK
<1>2. CASE HostInputReady(q)
  BY <1>2 DEF HostInputReady, TypeOK
<1>3. CASE HostHandoff(q)
  BY <1>3 DEF HostHandoff, TypeOK
<1>4. CASE ImmWaitInput(q)
  BY <1>4 DEF ImmWaitInput, TypeOK
<1>5. CASE ImmCopyBegin(q)
  BY <1>5 DEF ImmCopyBegin, TypeOK
<1>6. CASE ImmCopyEnd(q)
  BY <1>6 DEF ImmCopyEnd, TypeOK
<1>7. CASE ImmSignal(q)
  BY <1>7 DEF ImmSignal, TypeOK
<1>8. CASE ImmWaitPeer(q)
  BY <1>8 DEF ImmWaitPeer, TypeOK
<1>9. CASE ImmReset(q)
  BY <1>9 DEF ImmReset, TypeOK
<1>10. CASE ImmSignalDone(q)
  BY <1>10 DEF ImmSignalDone, TypeOK
<1>11. CASE QueueBarrier(q)
  BY <1>11 DEF QueueBarrier, TypeOK
<1>12. CASE ReduceBegin(q)
  BY <1>12 DEF ReduceBegin, TypeOK
<1>13. CASE ReduceEnd(q)
  BY <1>13 DEF ReduceEnd, TypeOK
<1>14. CASE Die(q)
  BY <1>14 DEF Die, TypeOK
<1>. QED
  BY <1>1, <1>2, <1>3, <1>4, <1>5, <1>6, <1>7, <1>8,
     <1>9, <1>10, <1>11, <1>12, <1>13, <1>14 DEF Step, Host, Imm, Queue

(* Every step keeps the engines of every rank in step with each other.     *)
LEMMA EnginesStep ==
  ASSUME TypeOK, EnginesInv, NEW q \in Rank, Step(q)
  PROVE  EnginesInv'
<1>. SUFFICES EnginesOf(q)'
  BY OtherRank DEF EnginesInv, EnginesOf
<1>. EnginesOf(q)
  BY DEF EnginesInv
<1>. /\ g_call[q] \in Nat /\ qsub[q] \in Nat /\ qdone[q] \in Nat
  BY Counters
<1>1. CASE BeginCall(q)
  <2>1. /\ g_call'[q] = g_call[q] + 1 /\ qsub'[q] = qsub[q] + 1
        /\ \/ host'[q] = "input" /\ imm'[q] = "idle"
           \/ host'[q] = "sync" /\ imm'[q] = "wait_input"
    BY <1>1 DEF BeginCall, TypeOK, EnginesOf
  <2>. QED
    BY <1>1, <2>1 DEF BeginCall, EnginesOf
<1>2. CASE HostInputReady(q)
  <2>1. host'[q] = "sync" /\ imm'[q] = "copy"
    BY <1>2 DEF HostInputReady, TypeOK
  <2>. QED
    BY <1>2, <2>1 DEF HostInputReady, EnginesOf, BarrierFired, BarrierOf, Cur
<1>3. CASE HostHandoff(q)
  BY <1>3 DEF HostHandoff, EnginesOf, TypeOK
<1>4. CASE ImmWaitInput(q)
  <2>1. imm'[q] = "copy"
    BY <1>4 DEF ImmWaitInput, TypeOK
  <2>. QED
    BY <1>4, <2>1 DEF ImmWaitInput, EnginesOf, BarrierFired, BarrierOf, Cur
<1>5. CASE ImmCopyBegin(q)
  BY <1>5 DEF ImmCopyBegin, EnginesOf, TypeOK
<1>6. CASE ImmCopyEnd(q)
  BY <1>6 DEF ImmCopyEnd, EnginesOf, TypeOK
<1>7. CASE ImmSignal(q)
  BY <1>7 DEF ImmSignal, EnginesOf, TypeOK
<1>8. CASE ImmWaitPeer(q)
  BY <1>8 DEF ImmWaitPeer, EnginesOf, TypeOK
<1>9. CASE ImmReset(q)
  BY <1>9 DEF ImmReset, EnginesOf, TypeOK
<1>10. CASE ImmSignalDone(q)
  BY <1>10 DEF ImmSignalDone, EnginesOf, TypeOK
<1>11. CASE QueueBarrier(q)
  <2>1. qdone'[q] = qdone[q] + 1
    BY <1>11 DEF QueueBarrier, TypeOK
  <2>. QED
    BY <1>11, <2>1 DEF QueueBarrier, EnginesOf, IsBarrier
<1>12. CASE ReduceBegin(q)
  <2>1. reducing'[q] = TRUE
    BY <1>12 DEF ReduceBegin, TypeOK
  <2>. QED
    BY <1>12, <2>1 DEF ReduceBegin, EnginesOf, IsBarrier
<1>13. CASE ReduceEnd(q)
  <2>1. qdone'[q] = qdone[q] + 1 /\ reducing'[q] = FALSE
    BY <1>13 DEF ReduceEnd, TypeOK
  <2>. QED
    BY <1>13, <2>1 DEF ReduceEnd, EnginesOf
<1>14. CASE Die(q)
  BY <1>14 DEF Die, EnginesOf, TypeOK
<1>. QED
  BY <1>1, <1>2, <1>3, <1>4, <1>5, <1>6, <1>7, <1>8,
     <1>9, <1>10, <1>11, <1>12, <1>13, <1>14 DEF Step, Host, Imm, Queue

-----------------------------------------------------------------------------
(* The four counts of a rank.                                              *)

(* Command k + 1 of Q_t belongs to the call of command k if k is even.     *)
LEMMA HalfOfOdd ==
  ASSUME NEW k \in Nat, k % 2 = 0
  PROVE  (k + 1) \div 2 = k \div 2
OBVIOUS

(* Past the barrier of its g-th call, a queue has reduced g - 1 calls.     *)
LEMMA CallOfBarrier ==
  ASSUME NEW d \in Nat, NEW g \in Nat, d = 2 * g - 1
  PROVE  d \div 2 = g - 1
<1>1. PICK m \in Nat : g = m + 1
  <2>1. g - 1 \in Nat
    OBVIOUS
  <2>. QED
    BY <2>1
<1>2. d = 2 * m + 1
  BY <1>1
<1>3. d \div 2 = m
  BY <1>2
<1>. QED
  BY <1>1, <1>3

(* How the counts of one rank are ordered.                                 *)
LEMMA CountFacts ==
  ASSUME TypeOK, EnginesInv, NEW r \in Rank
  PROVE  /\ Signalled(r) \in Nat /\ Consumed(r) \in Nat
         /\ Pushed(r) \in Nat /\ Reduced(r) \in Nat
         /\ Consumed(r) <= Signalled(r) /\ Signalled(r) <= Pushed(r)
         /\ Pushed(r) <= Consumed(r) + 1
         /\ Signalled(r) <= Reduced(r) + 1
         /\ Reduced(r) <= Consumed(r)
         /\ qdone[r] < qsub[r] /\ ~IsBarrier(qdone[r]) => Reduced(r) < Consumed(r)
<1>. EnginesOf(r)
  BY DEF EnginesInv
<1>. /\ g_call[r] \in Nat /\ qsub[r] \in Nat /\ qdone[r] \in Nat
  BY Counters
<1>. host[r] \in {"idle", "input", "sync"}
  BY DEF TypeOK
<1>. imm[r] \in {"idle", "wait_input", "copy", "copying", "signal", "wait", "reset", "done"}
  BY DEF TypeOK
<1>. USE DEF EnginesOf, Signalled, Consumed, Pushed, Reduced, Cur, IsBarrier
<1>1. CASE host[r] = "idle"
  BY <1>1
<1>2. CASE host[r] = "input"
  BY <1>2
<1>3. CASE host[r] = "sync"
  BY <1>3
<1>. QED
  BY <1>1, <1>2, <1>3

SameCounts(r) ==
  /\ Signalled(r)' = Signalled(r)
  /\ Consumed(r)' = Consumed(r)
  /\ Pushed(r)' = Pushed(r)
  /\ Reduced(r)' = Reduced(r)

(* Of the four counts of the rank that steps, a signal, a reset, the end   *)
(* of a copy and the end of a reduce advance one each; no other step       *)
(* advances any, and only these and the start of a copy touch the events   *)
(* and the scratch.                                                        *)
LEMMA CountStep ==
  ASSUME TypeOK, EnginesInv, NEW q \in Rank, Step(q)
  PROVE  \/ /\ ImmSignal(q) /\ Signalled(q) = Cur(q) /\ Signalled(q)' = Cur(q) + 1
            /\ Consumed(q) = Cur(q) /\ Consumed(q)' = Cur(q) /\ Pushed(q)' = Pushed(q) /\ Reduced(q)' = Reduced(q)
         \/ /\ ImmReset(q) /\ Consumed(q) = Cur(q) /\ Consumed(q)' = Cur(q) + 1
            /\ Signalled(q)' = Signalled(q) /\ Pushed(q)' = Pushed(q) /\ Reduced(q)' = Reduced(q)
         \/ /\ ImmCopyEnd(q) /\ Pushed(q) = Cur(q) /\ Pushed(q)' = Cur(q) + 1
            /\ Signalled(q)' = Signalled(q) /\ Consumed(q)' = Consumed(q) /\ Reduced(q)' = Reduced(q)
         \/ /\ ReduceEnd(q) /\ Reduced(q)' = Reduced(q) + 1
            /\ Signalled(q)' = Signalled(q) /\ Consumed(q)' = Consumed(q) /\ Pushed(q)' = Pushed(q)
         \/ ImmCopyBegin(q) /\ Pushed(q) = Cur(q) /\ SameCounts(q)
         \/ SameCounts(q) /\ UNCHANGED <<ev, scratch>>
<1>. EnginesOf(q)
  BY DEF EnginesInv
<1>. /\ g_call[q] \in Nat /\ qsub[q] \in Nat /\ qdone[q] \in Nat
  BY Counters
<1>. USE DEF EnginesOf, Signalled, Consumed, Pushed, Reduced, Cur, SameCounts
<1>1. CASE BeginCall(q)
  <2>1. /\ g_call'[q] = g_call[q] + 1 /\ qsub'[q] = qsub[q] + 1
        /\ \/ host'[q] = "input" /\ imm'[q] = "idle"
           \/ host'[q] = "sync" /\ imm'[q] = "wait_input"
    BY <1>1 DEF BeginCall, TypeOK
  <2>. QED
    BY <1>1, <2>1 DEF BeginCall
<1>2. CASE HostInputReady(q)
  <2>1. host[q] = "input" /\ host'[q] = "sync" /\ imm'[q] = "copy"
    BY <1>2 DEF HostInputReady, TypeOK
  <2>. QED
    BY <1>2, <2>1 DEF HostInputReady
<1>3. CASE HostHandoff(q)
  BY <1>3 DEF HostHandoff, TypeOK
<1>4. CASE ImmWaitInput(q)
  BY <1>4 DEF ImmWaitInput, TypeOK
<1>5. CASE ImmCopyBegin(q)
  BY <1>5 DEF ImmCopyBegin, TypeOK
<1>6. CASE ImmCopyEnd(q)
  BY <1>6 DEF ImmCopyEnd, TypeOK
<1>7. CASE ImmSignal(q)
  BY <1>7 DEF ImmSignal, TypeOK
<1>8. CASE ImmWaitPeer(q)
  BY <1>8 DEF ImmWaitPeer, TypeOK
<1>9. CASE ImmReset(q)
  BY <1>9 DEF ImmReset, TypeOK
<1>10. CASE ImmSignalDone(q)
  BY <1>10 DEF ImmSignalDone, TypeOK
<1>11. CASE QueueBarrier(q)
  <2>1. qdone'[q] = qdone[q] + 1 /\ qdone[q] % 2 = 0
    BY <1>11 DEF QueueBarrier, TypeOK, IsBarrier
  <2>2. qdone'[q] \div 2 = qdone[q] \div 2
    BY <2>1, HalfOfOdd
  <2>. QED
    BY <1>11, <2>2 DEF QueueBarrier
<1>12. CASE ReduceBegin(q)
  BY <1>12 DEF ReduceBegin, TypeOK
<1>13. CASE ReduceEnd(q)
  <2>1. qdone'[q] = qdone[q] + 1 /\ qdone[q] % 2 = 1
    BY <1>13 DEF ReduceEnd, TypeOK
  <2>. QED
    BY <1>13, <2>1 DEF ReduceEnd
<1>14. CASE Die(q)
  BY <1>14 DEF Die, TypeOK
<1>. QED
  BY <1>1, <1>2, <1>3, <1>4, <1>5, <1>6, <1>7, <1>8,
     <1>9, <1>10, <1>11, <1>12, <1>13, <1>14 DEF Step, Host, Imm, Queue

(* The counts of the rank that does not step stay.                         *)
LEMMA OtherCounts ==
  ASSUME TypeOK, NEW q \in Rank, Step(q), NEW r \in Rank, r # q
  PROVE  SameCounts(r)
BY OtherRank DEF SameCounts, Signalled, Consumed, Pushed, Reduced, Cur

-----------------------------------------------------------------------------
(* The cross-card events.                                                  *)

(* A step keeps the latches set exactly for the calls signalled and not    *)
(* consumed.  Two consecutive calls may be latched at a time, which is     *)
(* where the second slot is needed.                                        *)
LEMMA EventsStep ==
  ASSUME Ring >= 2, TypeOK, EnginesInv, EventsInv, NEW q \in Rank, Step(q)
  PROVE  EventsInv'
<1>. DEFINE p == Peer(q)
<1>1. p \in Rank /\ p # q /\ Peer(q) = p /\ Peer(p) = q /\ \A r \in Rank : r = q \/ r = p
  BY DEF Peer, Rank
<1>2. SameCounts(p) /\ imm'[p] = imm[p]
  BY <1>1, OtherCounts, OtherRank
<1>3. EventsOf(q) /\ EventsOf(p)
  BY <1>1 DEF EventsInv
<1>4. SUFFICES EventsOf(q)' /\ EventsOf(p)'
  BY <1>1 DEF EventsInv
<1>5. /\ Signalled(q) \in Nat /\ Consumed(q) \in Nat
      /\ Signalled(p) \in Nat /\ Consumed(p) \in Nat
      /\ Signalled(p) <= Consumed(p) + 1 /\ Signalled(q) <= Consumed(q) + 1
  BY <1>1, CountFacts
<1>6. Peer(q)' = p /\ Peer(p)' = q
  BY <1>1 DEF Peer
<1>. HIDE DEF p
<1>7. CASE /\ ImmSignal(q) /\ Signalled(q) = Cur(q) /\ Signalled(q)' = Cur(q) + 1
           /\ Consumed(q) = Cur(q) /\ Consumed(q)' = Cur(q)
  <2>1. Cur(q) \in Nat /\ SlotOf(Cur(q)) \in Slot
    BY <1>5, <1>7, SlotInRing
  <2>2. /\ ev'[p] = ev[p]
        /\ \A i \in Slot : ev'[q][i] <=> (i = SlotOf(Cur(q)) \/ ev[q][i])
    BY <1>1, <1>7, <2>1 DEF ImmSignal, TypeOK
  <2>3. imm[q] # "reset" /\ imm'[q] # "reset"
    BY <1>7 DEF ImmSignal, TypeOK
  <2>4. Consumed(p) = Cur(q) \/ Consumed(p) + 1 = Cur(q)
    BY <1>1, <1>3, <1>5, <1>7 DEF EventsOf
  <2>5. EventsOf(q)'
    <3>1. \A i \in Slot :
            ev'[q][i] <=>
              \/ Consumed(p) < Cur(q) + 1 /\ i = SlotOf(Consumed(p))
              \/ Consumed(p) + 1 < Cur(q) + 1 /\ i = SlotOf(Consumed(p) + 1)
      <4>1. CASE Consumed(p) = Cur(q)
        <5>1. \A i \in Slot : ~ev[q][i]
          BY <1>1, <1>3, <1>5, <1>7, <2>1, <4>1 DEF EventsOf
        <5>. QED
          BY <2>1, <2>2, <4>1, <5>1
      <4>2. CASE Consumed(p) + 1 = Cur(q)
        <5>1. \A i \in Slot : ev[q][i] <=> i = SlotOf(Consumed(p))
          BY <1>1, <1>3, <1>5, <1>7, <2>1, <4>2 DEF EventsOf
        <5>. QED
          BY <1>5, <2>1, <2>2, <4>2, <5>1
      <4>. QED
        BY <2>4, <4>1, <4>2
    <3>. QED
      BY <1>1, <1>2, <1>3, <1>5, <1>6, <1>7, <2>4, <3>1 DEF EventsOf, SameCounts, SlotOf
  <2>6. EventsOf(p)'
    BY <1>1, <1>2, <1>3, <1>5, <1>6, <1>7, <2>2, <2>3 DEF EventsOf, SameCounts, SlotOf
  <2>. QED
    BY <2>5, <2>6
<1>8. CASE /\ ImmReset(q) /\ Consumed(q) = Cur(q) /\ Consumed(q)' = Cur(q) + 1
           /\ Signalled(q)' = Signalled(q)
  <2>1. /\ Cur(q) \in Nat /\ SlotOf(Cur(q)) \in Slot
        /\ SlotOf(Cur(q)) # SlotOf(Cur(q) + 1)
    BY <1>5, <1>8, SlotInRing, ConsecutiveSlots
  <2>2. /\ ev'[q] = ev[q]
        /\ \A i \in Slot : ev'[p][i] = IF i = SlotOf(Cur(q)) THEN FALSE ELSE ev[p][i]
    BY <1>1, <1>8, <2>1 DEF ImmReset, TypeOK, p
  <2>3. imm[q] = "reset" /\ imm'[q] # "reset"
    BY <1>8 DEF ImmReset, TypeOK
  <2>4. Signalled(p) = Cur(q) + 1 \/ Signalled(p) = Cur(q) + 2
    BY <1>1, <1>3, <1>5, <1>8, <2>3 DEF EventsOf
  <2>5. EventsOf(q)'
    BY <1>1, <1>2, <1>3, <1>5, <1>6, <1>8, <2>2 DEF EventsOf, SameCounts, SlotOf
  <2>6. EventsOf(p)'
    <3>1. \A i \in Slot :
            ev'[p][i] <=> Cur(q) + 1 < Signalled(p) /\ i = SlotOf(Cur(q) + 1)
      <4>1. CASE Signalled(p) = Cur(q) + 1
        BY <1>1, <1>3, <1>5, <1>8, <2>1, <2>2, <4>1 DEF EventsOf
      <4>2. CASE Signalled(p) = Cur(q) + 2
        BY <1>1, <1>3, <1>5, <1>8, <2>1, <2>2, <4>2 DEF EventsOf
      <4>. QED
        BY <2>4, <4>1, <4>2
    <3>2. ~(Cur(q) + 2 < Signalled(p))
      BY <2>1, <2>4
    <3>. QED
      BY <1>1, <1>2, <1>3, <1>5, <1>6, <1>8, <2>1, <2>3, <2>4, <3>1, <3>2 DEF EventsOf, SameCounts, SlotOf
  <2>. QED
    BY <2>5, <2>6
<1>9. CASE /\ Signalled(q)' = Signalled(q) /\ Consumed(q)' = Consumed(q)
           /\ UNCHANGED ev
  <2>1. imm'[q] = "reset" => Consumed(q) < Signalled(p)
    <3>1. CASE ImmWaitPeer(q)
      <4>1. Consumed(q) = Cur(q) /\ ev[p][SlotOf(Cur(q))]
        BY <1>1, <3>1 DEF ImmWaitPeer, Consumed
      <4>2. SlotOf(Cur(q)) \in Slot
        BY <1>5, <4>1, SlotInRing
      <4>. QED
        BY <1>1, <1>3, <1>5, <4>1, <4>2 DEF EventsOf
    <3>2. CASE ~ImmWaitPeer(q)
      <4>1. imm'[q] = "reset" => imm[q] = "reset"
        BY <3>2 DEF Step, Host, Imm, Queue, BeginCall, HostInputReady, HostHandoff,
             ImmWaitInput, ImmCopyBegin, ImmCopyEnd, ImmSignal, ImmReset,
             ImmSignalDone, QueueBarrier, ReduceBegin, ReduceEnd, Die, TypeOK
      <4>. QED
        BY <1>1, <1>3, <4>1 DEF EventsOf
    <3>. QED
      BY <3>1, <3>2
  <2>2. EventsOf(q)'
    BY <1>1, <1>2, <1>3, <1>6, <1>9 DEF EventsOf, SameCounts, SlotOf
  <2>3. EventsOf(p)'
    BY <1>1, <1>2, <1>3, <1>6, <1>9, <2>1 DEF EventsOf, SameCounts, SlotOf
  <2>. QED
    BY <2>2, <2>3
<1>10. QED
  BY <1>7, <1>8, <1>9, CountStep DEF SameCounts, ImmCopyEnd, ReduceEnd, ImmCopyBegin

-----------------------------------------------------------------------------
(* The scratch ring.                                                       *)

(* A rank that is copying call c has consumed the signal of call c - 1,    *)
(* which its peer issued after reducing call c - 2.                        *)
LEMMA CopyIsNear ==
  ASSUME TypeOK, EnginesInv, EventsInv, NEW q \in Rank,
         imm[q] \in {"copy", "copying"}
  PROVE  /\ Cur(q) \in Nat
         /\ Reduced(Peer(q)) = Cur(q) \/ Reduced(Peer(q)) + 1 = Cur(q)
<1>1. Peer(q) \in Rank /\ Peer(Peer(q)) = q
  BY DEF Peer, Rank
<1>2. Consumed(q) = Cur(q) /\ Signalled(q) = Cur(q)
  BY DEF Consumed, Signalled
<1>3. Consumed(q) <= Signalled(Peer(q)) /\ Consumed(Peer(q)) <= Signalled(q)
  BY <1>1 DEF EventsInv, EventsOf
<1>4. /\ Signalled(Peer(q)) \in Nat /\ Consumed(Peer(q)) \in Nat /\ Reduced(Peer(q)) \in Nat
      /\ Signalled(Peer(q)) <= Reduced(Peer(q)) + 1
      /\ Reduced(Peer(q)) <= Consumed(Peer(q))
      /\ Consumed(q) \in Nat
  BY <1>1, CountFacts
<1>. QED
  BY <1>2, <1>3, <1>4

(* A rank never pushes more than two calls ahead of the peer's reduce.     *)
LEMMA PushIsNear ==
  ASSUME TypeOK, EnginesInv, EventsInv, NEW q \in Rank
  PROVE  Pushed(q) <= Reduced(Peer(q)) + 2
<1>1. Peer(q) \in Rank /\ Peer(Peer(q)) = q
  BY DEF Peer, Rank
<1>2. Consumed(q) <= Signalled(Peer(q))
  BY <1>1 DEF EventsInv, EventsOf
<1>3. /\ Consumed(q) \in Nat /\ Pushed(q) \in Nat /\ Pushed(q) <= Consumed(q) + 1
      /\ Signalled(Peer(q)) \in Nat /\ Reduced(Peer(q)) \in Nat
      /\ Signalled(Peer(q)) <= Reduced(Peer(q)) + 1
  BY <1>1, CountFacts
<1>. QED
  BY <1>2, <1>3

(* A step keeps every payload that was pushed and not yet reduced.         *)
LEMMA PayloadsStep ==
  ASSUME Ring >= 2, TypeOK, EnginesInv, EventsInv, PayloadsInv,
         NEW q \in Rank, Step(q)
  PROVE  PayloadsInv'
<1>. DEFINE p == Peer(q)
<1>1. /\ p \in Rank /\ p # q /\ Peer(q) = p /\ Peer(p) = q
      /\ \A r \in Rank : r = q \/ r = p
  BY DEF Peer, Rank
<1>2. SameCounts(p)
  BY <1>1, OtherCounts
<1>3. PayloadsOf(q) /\ PayloadsOf(p)
  BY <1>1 DEF PayloadsInv
<1>4. SUFFICES PayloadsOf(q)' /\ PayloadsOf(p)'
  BY <1>1 DEF PayloadsInv
<1>5. /\ Pushed(q) \in Nat /\ Reduced(q) \in Nat
      /\ Pushed(p) \in Nat /\ Reduced(p) \in Nat
      /\ Pushed(p) <= Reduced(q) + 2 /\ Pushed(q) <= Reduced(p) + 2
  BY <1>1, CountFacts, PushIsNear
<1>6. Peer(q)' = p /\ Peer(p)' = q
  BY <1>1 DEF Peer
<1>. HIDE DEF p
<1>7. CASE /\ Pushed(q)' = Pushed(q) /\ Reduced(q)' = Reduced(q)
           /\ UNCHANGED scratch
  BY <1>1, <1>2, <1>3, <1>6, <1>7 DEF PayloadsOf, SameCounts, SlotOf
<1>8. CASE ImmCopyBegin(q) /\ Pushed(q) = Cur(q) /\ SameCounts(q)
  <2>1. /\ Cur(q) \in Nat
        /\ Reduced(p) = Cur(q) \/ Reduced(p) + 1 = Cur(q)
    BY <1>1, <1>8, CopyIsNear DEF ImmCopyBegin
  <2>2. scratch'[q] = scratch[q]
    BY <1>1, <1>8 DEF ImmCopyBegin, TypeOK
  <2>3. PayloadsOf(q)'
    BY <1>1, <1>2, <1>3, <1>6, <1>8, <2>2 DEF PayloadsOf, SameCounts, SlotOf
  <2>4. Reduced(p) < Pushed(q) => scratch'[p][SlotOf(Reduced(p))] = Reduced(p)
    <3>1. CASE Reduced(p) + 1 = Cur(q)
      <4>1. SlotOf(Reduced(p)) # SlotOf(Cur(q)) /\ SlotOf(Reduced(p)) \in Slot
        BY <1>5, <3>1, ConsecutiveSlots, SlotInRing
      <4>2. scratch'[p][SlotOf(Reduced(p))] = scratch[p][SlotOf(Reduced(p))]
        BY <1>1, <1>8, <4>1 DEF ImmCopyBegin, TypeOK
      <4>. QED
        BY <1>1, <1>3, <1>5, <1>8, <3>1, <4>2 DEF PayloadsOf
    <3>. QED
      BY <1>5, <1>8, <2>1, <3>1
  <2>5. PayloadsOf(p)'
    BY <1>1, <1>2, <1>5, <1>6, <1>8, <2>1, <2>4 DEF PayloadsOf, SameCounts, SlotOf
  <2>. QED
    BY <2>3, <2>5
<1>9. CASE /\ ImmCopyEnd(q) /\ Pushed(q) = Cur(q) /\ Pushed(q)' = Cur(q) + 1
           /\ Reduced(q)' = Reduced(q)
  <2>1. /\ Cur(q) \in Nat
        /\ Reduced(p) = Cur(q) \/ Reduced(p) + 1 = Cur(q)
    BY <1>1, <1>9, CopyIsNear DEF ImmCopyEnd
  <2>2. scratch'[q] = scratch[q]
    BY <1>1, <1>9 DEF ImmCopyEnd, TypeOK
  <2>3. PayloadsOf(q)'
    BY <1>1, <1>2, <1>3, <1>6, <1>9, <2>2 DEF PayloadsOf, SameCounts, SlotOf
  <2>4. scratch'[p][SlotOf(Cur(q))] = Cur(q)
    BY <1>1, <1>9, <2>1, SlotInRing DEF ImmCopyEnd, TypeOK
  <2>5. Reduced(p) + 1 = Cur(q) => scratch'[p][SlotOf(Reduced(p))] = Reduced(p)
    <3>. SUFFICES ASSUME Reduced(p) + 1 = Cur(q)
                  PROVE  scratch'[p][SlotOf(Reduced(p))] = Reduced(p)
      OBVIOUS
    <3>1. SlotOf(Reduced(p)) # SlotOf(Cur(q)) /\ SlotOf(Reduced(p)) \in Slot
      BY <1>5, ConsecutiveSlots, SlotInRing
    <3>2. scratch'[p][SlotOf(Reduced(p))] = scratch[p][SlotOf(Reduced(p))]
      BY <1>1, <1>9, <3>1 DEF ImmCopyEnd, TypeOK
    <3>. QED
      BY <1>1, <1>3, <1>5, <1>9, <3>2 DEF PayloadsOf
  <2>6. PayloadsOf(p)'
    BY <1>1, <1>2, <1>5, <1>6, <1>9, <2>1, <2>4, <2>5 DEF PayloadsOf, SameCounts, SlotOf
  <2>. QED
    BY <2>3, <2>6
<1>10. CASE ReduceEnd(q) /\ Reduced(q)' = Reduced(q) + 1 /\ Pushed(q)' = Pushed(q)
  <2>1. UNCHANGED scratch
    BY <1>10 DEF ReduceEnd
  <2>2. PayloadsOf(q)'
    BY <1>1, <1>2, <1>3, <1>5, <1>6, <1>10, <2>1 DEF PayloadsOf, SameCounts, SlotOf
  <2>3. PayloadsOf(p)'
    BY <1>1, <1>2, <1>3, <1>6, <1>10, <2>1 DEF PayloadsOf, SameCounts, SlotOf
  <2>. QED
    BY <2>2, <2>3
<1>. QED
  BY <1>7, <1>8, <1>9, <1>10, CountStep DEF SameCounts, ImmSignal, ImmReset

-----------------------------------------------------------------------------
(* The invariant and what follows from it.                                 *)

(* The initial states satisfy the invariant.                               *)
LEMMA InvInit == Init => IInv
<1>. SUFFICES ASSUME Init
              PROVE  IInv
  OBVIOUS
<1>1. TypeOK
  BY TypeInit
<1>2. EnginesInv
  BY DEF EnginesInv, EnginesOf, Init
<1>3. \A r \in Rank : /\ Peer(r) \in Rank
                     /\ Signalled(r) = 0 /\ Consumed(r) = 0
                     /\ Pushed(r) = 0 /\ Reduced(r) = 0
  BY DEF Init, Rank, Peer, Signalled, Consumed, Pushed, Reduced, Cur
<1>4. EventsInv
  BY <1>3 DEF EventsInv, EventsOf, Init
<1>5. PayloadsInv
  BY <1>3 DEF PayloadsInv, PayloadsOf
<1>. QED
  BY <1>1, <1>2, <1>4, <1>5 DEF IInv

(* With two slots or more, every step keeps the invariant.                 *)
LEMMA InvStep ==
  ASSUME Ring >= 2
  PROVE  IInv /\ [Next]_vars => IInv'
<1>1. IInv /\ UNCHANGED vars => IInv'
  BY DEF IInv, TypeOK, EnginesInv, EnginesOf, EventsInv, EventsOf, PayloadsInv,
         PayloadsOf, Signalled, Consumed, Pushed, Reduced, Cur, vars, Peer, SlotOf
<1>2. ASSUME IInv, NEW q \in Rank, Step(q)
      PROVE  IInv'
  BY <1>2, TypeStep, EnginesStep, EventsStep, PayloadsStep DEF IInv
<1>. QED
  BY <1>1, <1>2 DEF Next

(* With two slots or more, the invariant holds throughout.                 *)
THEOREM Invariance ==
  ASSUME Ring >= 2
  PROVE  Spec => []IInv
BY InvInit, InvStep, PTL DEF Spec

(* In the terms of do_ea: a rank waiting on g_wait[i] for a signal already *)
(* sent finds it, so no consumer reset ever wipes the signal of a later    *)
(* call.                                                                   *)
THEOREM NoSignalLostHolds ==
  ASSUME Ring >= 2
  PROVE  Spec => []NoSignalLost
<1>1. IInv => NoSignalLost
  <2>. SUFFICES ASSUME IInv, NEW r \in Rank, imm[r] = "wait",
                       Signalled(Peer(r)) >= g_call[r]
                PROVE  ev[Peer(r)][SlotOf(Cur(r))]
    BY DEF NoSignalLost
  <2>1. Peer(r) \in Rank /\ Peer(Peer(r)) = r
    BY DEF Peer, Rank
  <2>2. Consumed(r) = Cur(r) /\ g_call[r] \in Nat /\ g_call[r] = Cur(r) + 1
    BY Counters DEF Consumed, Cur, IInv
  <2>3. Consumed(r) \in Nat /\ Signalled(Peer(r)) \in Nat
    BY <2>1, CountFacts DEF IInv
  <2>4. SlotOf(Cur(r)) \in Slot
    BY <2>2, <2>3, SlotInRing
  <2>5. EventsOf(Peer(r))
    BY <2>1 DEF IInv, EventsInv
  <2>. QED
    BY <2>1, <2>2, <2>3, <2>4, <2>5 DEF EventsOf
<1>. QED
  BY <1>1, Invariance, PTL

(* The reduce kernel, which the host never waits for, reads the payload of *)
(* its own call from beginning to end.                                     *)
THEOREM ReducesItsOwnCallHolds ==
  ASSUME Ring >= 2
  PROVE  Spec => []ReducesItsOwnCall
<1>1. IInv => ReducesItsOwnCall
  <2>. SUFFICES ASSUME IInv, NEW r \in Rank, reducing[r]
                PROVE  scratch[r][SlotOf(Reduced(r))] = Reduced(r)
    BY DEF ReducesItsOwnCall, Reduced, CallOf
  <2>1. Peer(r) \in Rank /\ Peer(Peer(r)) = r
    BY DEF Peer, Rank
  <2>2. Reduced(r) < Consumed(r)
    BY CountFacts DEF IInv, EnginesInv, EnginesOf, IsBarrier
  <2>3. Consumed(r) <= Signalled(Peer(r))
    BY <2>1 DEF IInv, EventsInv, EventsOf
  <2>4. /\ Reduced(r) \in Nat /\ Consumed(r) \in Nat /\ Signalled(Peer(r)) \in Nat
        /\ Pushed(Peer(r)) \in Nat /\ Signalled(Peer(r)) <= Pushed(Peer(r))
    BY <2>1, CountFacts DEF IInv
  <2>5. Reduced(r) < Pushed(Peer(r))
    BY <2>2, <2>3, <2>4
  <2>. QED
    BY <2>5 DEF IInv, PayloadsInv, PayloadsOf
<1>. QED
  BY <1>1, Invariance, PTL

(* The push of a call reads inout after torch's write and before the       *)
(* rank's own reduce.  This needs no second slot: it rests on the order of *)
(* one rank's engines alone.                                               *)
THEOREM PushReadsUnreducedInputHolds == Spec => []PushReadsUnreducedInput
<1>1. Init => TypeOK /\ EnginesInv
  BY InvInit DEF IInv
<1>2. TypeOK /\ EnginesInv /\ [Next]_vars => TypeOK' /\ EnginesInv'
  <2>1. TypeOK /\ EnginesInv /\ UNCHANGED vars => TypeOK' /\ EnginesInv'
    BY DEF TypeOK, EnginesInv, EnginesOf, vars
  <2>. QED
    BY <2>1, TypeStep, EnginesStep DEF Next
<1>3. TypeOK /\ EnginesInv => PushReadsUnreducedInput
  <2>. SUFFICES ASSUME TypeOK, EnginesInv, NEW r \in Rank, imm[r] = "copying"
                PROVE  qdone[r] = BarrierOf(Cur(r)) + 1 /\ ~reducing[r]
    BY DEF PushReadsUnreducedInput
  <2>1. g_call[r] \in Nat /\ qsub[r] \in Nat /\ qdone[r] \in Nat
    BY Counters
  <2>2. EnginesOf(r)
    BY DEF EnginesInv
  <2>3. qdone[r] = qsub[r] /\ qsub[r] = 2 * g_call[r] - 1
    BY <2>2 DEF EnginesOf
  <2>4. ~reducing[r]
    BY <2>1, <2>2, <2>3 DEF EnginesOf
  <2>. QED
    BY <2>1, <2>3, <2>4 DEF BarrierOf, Cur
<1>. QED
  BY <1>1, <1>2, <1>3, PTL DEF Spec

(* The ranks are never more than one call apart.                           *)
THEOREM RanksWithinOneCallHolds ==
  ASSUME Ring >= 2
  PROVE  Spec => []RanksWithinOneCall
<1>1. IInv => RanksWithinOneCall
  <2>. SUFFICES ASSUME IInv, NEW r \in Rank
                PROVE  g_call[r] <= g_call[Peer(r)] + 1
    BY DEF RanksWithinOneCall
  <2>1. Peer(r) \in Rank /\ Peer(Peer(r)) = r
    BY DEF Peer, Rank
  <2>2. g_call[r] \in Nat /\ g_call[Peer(r)] \in Nat
    BY <2>1, Counters DEF IInv
  <2>3. g_call[r] <= Consumed(r) + 1 /\ Signalled(Peer(r)) <= g_call[Peer(r)]
    BY <2>2 DEF Consumed, Signalled, Cur
  <2>4. Consumed(r) <= Signalled(Peer(r)) /\ Consumed(r) \in Nat /\ Signalled(Peer(r)) \in Nat
    BY <2>1, CountFacts DEF IInv, EventsInv, EventsOf
  <2>. QED
    BY <2>2, <2>3, <2>4
<1>. QED
  BY <1>1, Invariance, PTL

-----------------------------------------------------------------------------
(* The transport implements the all-reduce contract.                       *)

(* The reduce at the head of a rank's queue belongs to a call that both    *)
(* ranks have published.                                                   *)
LEMMA ReducePublished ==
  ASSUME IInv, NEW r \in Rank, reducing[r]
  PROVE  /\ Reduced(r) \in Nat
         /\ \A q \in Rank : Reduced(r) < Pushed(q)
         /\ scratch[r][SlotOf(Reduced(r))] = Reduced(r)
<1>1. Peer(r) \in Rank /\ Peer(Peer(r)) = r /\ \A q \in Rank : q = r \/ q = Peer(r)
  BY DEF Peer, Rank
<1>2. Reduced(r) < Consumed(r)
  BY CountFacts DEF IInv, EnginesInv, EnginesOf, IsBarrier
<1>3. Consumed(r) <= Signalled(Peer(r))
  BY <1>1 DEF IInv, EventsInv, EventsOf
<1>4. /\ Reduced(r) \in Nat /\ Consumed(r) \in Nat /\ Signalled(r) \in Nat
      /\ Pushed(r) \in Nat /\ Consumed(r) <= Signalled(r) /\ Signalled(r) <= Pushed(r)
      /\ Signalled(Peer(r)) \in Nat /\ Pushed(Peer(r)) \in Nat
      /\ Signalled(Peer(r)) <= Pushed(Peer(r))
  BY <1>1, CountFacts DEF IInv
<1>5. Reduced(r) < Pushed(Peer(r)) /\ Reduced(r) < Pushed(r)
  BY <1>2, <1>3, <1>4
<1>6. scratch[r][SlotOf(Reduced(r))] = Reduced(r)
  BY <1>5 DEF IInv, PayloadsInv, PayloadsOf
<1>. QED
  BY <1>1, <1>4, <1>5, <1>6

(* Every step is a Publish, a Finish or a stutter of the contract.         *)
LEMMA RefinementStep ==
  ASSUME IInv, NEW q \in Rank, Step(q)
  PROVE  Contract!Next \/ UNCHANGED Contract!vars
<1>. DEFINE pub == [r \in Rank |-> Pushed(r)]
            fin == [r \in Rank |-> Reduced(r)]
<1>1. TypeOK /\ EnginesInv
  BY DEF IInv
<1>2. \A r \in Rank : r # q => SameCounts(r)
  BY <1>1, OtherCounts
<1>3. CASE ImmCopyEnd(q) /\ Pushed(q)' = Cur(q) + 1 /\ Reduced(q)' = Reduced(q) /\ Pushed(q) = Cur(q)
  <2>1. Pushed(q) = Reduced(q)
    <3>1. g_call[q] \in Nat /\ qsub[q] \in Nat /\ qdone[q] \in Nat /\ EnginesOf(q)
      BY <1>1, Counters DEF EnginesInv
    <3>2. qdone[q] = 2 * g_call[q] - 1
      BY <1>3, <3>1 DEF EnginesOf, ImmCopyEnd
    <3>3. qdone[q] \div 2 = g_call[q] - 1
      BY <3>1, <3>2, CallOfBarrier
    <3>. QED
      BY <1>3, <3>3 DEF Cur, Reduced
  <2>2. pub' = [pub EXCEPT ![q] = @ + 1]
    BY <1>2, <1>3 DEF SameCounts
  <2>3. fin' = fin
    BY <1>2, <1>3 DEF SameCounts
  <2>4. UNCHANGED summed
    BY <1>3 DEF ImmCopyEnd
  <2>5. Contract!Publish(q)
    BY <2>1, <2>2, <2>3, <2>4 DEF Contract!Publish
  <2>. QED
    BY <2>5 DEF Contract!Next
<1>4. CASE ReduceEnd(q) /\ Reduced(q)' = Reduced(q) + 1 /\ Pushed(q)' = Pushed(q)
  <2>1. /\ Reduced(q) \in Nat
        /\ \A r \in Rank : Pushed(r) > Reduced(q)
        /\ scratch[q][SlotOf(Reduced(q))] = Reduced(q)
    <3>1. reducing[q]
      BY <1>4 DEF ReduceEnd
    <3>2. \A r \in Rank : Pushed(r) \in Nat
      BY <1>1, CountFacts
    <3>. QED
      BY <3>1, <3>2, ReducePublished
  <2>2. pub' = pub
    BY <1>2, <1>4 DEF SameCounts
  <2>3. fin' = [fin EXCEPT ![q] = @ + 1]
    BY <1>2, <1>4 DEF SameCounts
  <2>4. summed' = [summed EXCEPT ![q] = [r \in Rank |-> Reduced(q)]]
    BY <1>4, <2>1 DEF ReduceEnd, CallOf, Reduced
  <2>5. Contract!Finish(q)
    BY <2>1, <2>2, <2>3, <2>4 DEF Contract!Finish
  <2>. QED
    BY <2>5 DEF Contract!Next
<1>5. CASE Pushed(q)' = Pushed(q) /\ Reduced(q)' = Reduced(q) /\ UNCHANGED summed
  <2>1. pub' = pub /\ fin' = fin
    BY <1>2, <1>5 DEF SameCounts
  <2>. QED
    BY <1>5, <2>1 DEF Contract!vars
<1>6. UNCHANGED summed \/ ReduceEnd(q)
  BY DEF Step, Host, Imm, Queue, BeginCall, HostInputReady, HostHandoff,
         ImmWaitInput, ImmCopyBegin, ImmCopyEnd, ImmSignal, ImmWaitPeer, ImmReset,
         ImmSignalDone, QueueBarrier, ReduceBegin, Die
<1>7. ReduceEnd(q) => Reduced(q)' = Reduced(q) + 1 /\ Pushed(q)' = Pushed(q)
  <2>. SUFFICES ASSUME ReduceEnd(q)
                PROVE  Reduced(q)' = Reduced(q) + 1 /\ Pushed(q)' = Pushed(q)
    OBVIOUS
  <2>1. qdone[q] \in Nat /\ qdone[q] % 2 = 1
    BY <1>1, Counters DEF ReduceEnd, EnginesInv, EnginesOf
  <2>2. qdone'[q] = qdone[q] + 1
    BY <1>1 DEF ReduceEnd, TypeOK
  <2>3. Reduced(q)' = Reduced(q) + 1
    BY <2>1, <2>2 DEF Reduced
  <2>. QED
    BY <2>3 DEF ReduceEnd, Pushed, Cur
<1>. QED
  BY <1>1, <1>3, <1>4, <1>5, <1>6, <1>7, CountStep DEF SameCounts

(* The eager-async transport implements the all-reduce contract: each call *)
(* sums the two inputs given to that call.                                 *)
THEOREM Refinement ==
  ASSUME Ring >= 2
  PROVE  Spec => ImplementsAllReduce
<1>1. Init => Contract!Init
  BY DEF Init, Contract!Init, Pushed, Reduced, Rank, None, Contract!None
<1>2. IInv /\ [Next]_vars => [Contract!Next]_(Contract!vars)
  <2>1. UNCHANGED vars => UNCHANGED Contract!vars
    BY DEF vars, Contract!vars, Pushed, Reduced, Cur
  <2>. QED
    BY <2>1, RefinementStep DEF Next
<1>. QED
  BY <1>1, <1>2, Invariance, PTL DEF Spec, ImplementsAllReduce, Contract!Spec

=============================================================================
