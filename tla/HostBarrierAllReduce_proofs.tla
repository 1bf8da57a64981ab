--------------------- MODULE HostBarrierAllReduce_proofs ---------------------
(***************************************************************************)
(* Safety of the host-barrier all-reduce for every number of calls.        *)
(*                                                                         *)
(* The argument counts passages of the barrier.  The ranks are never more  *)
(* than one passage apart, and the one behind is then still spinning, so   *)
(* the two words of the barrier are reused for the next call only by the   *)
(* rank that is ahead.  The sense tells exactly whether a spinning rank    *)
(* is behind.                                                              *)
(***************************************************************************)
EXTENDS HostBarrierAllReduce, TLAPS

(* Passages of the barrier by rank r.                                      *)
Passed(r) == IF pc[r] \in {"idle", "reduce", "reducing"} THEN calls[r] ELSE Cur(r)

(* Rank r is counted in the barrier both ranks have to pass next.          *)
Waiting(r) == pc[r] = "spin" /\ Passed(r) >= Passed(Peer(r))

(* One rank is between its arrival and its store to the sense.             *)
Opening(r) == pc[r] \in {"clear", "release"}

PassagesOf(r) ==
  /\ calls[r] = 0 => pc[r] = "idle"
  /\ Passed(r) <= Passed(Peer(r)) + 1
  /\ Passed(r) > Passed(Peer(r)) => pc[Peer(r)] = "spin"
  /\ Opening(r) => pc[Peer(r)] = "spin" /\ Passed(r) = Passed(Peer(r))
  /\ pc[r] = "spin" /\ pc[Peer(r)] = "spin" => Passed(r) # Passed(Peer(r))
PassagesInv == \A r \in Rank : PassagesOf(r)

SenseOf(r) ==
  g_local_sense[r] = IF Passed(r) < Passed(Peer(r)) THEN 1 - sense ELSE sense
SenseInv == \A r \in Rank : SenseOf(r)

CountInv ==
  /\ \A r \in Rank : pc[r] = "clear" => count = 2
  /\ \A r \in Rank : pc[r] = "release" => count = 0
  /\ (\A r \in Rank : ~Opening(r)) =>
       /\ (\E r \in Rank : Waiting(r)) => count = 1
       /\ (\A r \in Rank : ~Waiting(r)) => count = 0

(* A scratch that is not being pushed to holds the last payload pushed.    *)
ScratchOf(r) == pc[Peer(r)] # "pushing" => scratch[r] = Cur(Peer(r))
ScratchInv == \A r \in Rank : ScratchOf(r)

IInv == TypeOK /\ PassagesInv /\ SenseInv /\ CountInv /\ ScratchInv

-----------------------------------------------------------------------------
(* The invariant holds initially.                                          *)
LEMMA InitIInv == Init => IInv
<1>. SUFFICES ASSUME Init PROVE IInv
  OBVIOUS
<1>1. TypeOK
  BY MaxCallsAssumption DEF Init, TypeOK, None
<1>2. PassagesInv /\ SenseInv /\ CountInv /\ ScratchInv
  BY DEF Init, PassagesInv, PassagesOf, SenseInv, SenseOf, CountInv, ScratchInv,
         ScratchOf, Passed, Waiting, Opening, Rank, Peer, Cur, None
<1>. QED
  BY <1>1, <1>2 DEF IInv

(* The two ranks.                                                          *)
LEMMA TwoRanks ==
  ASSUME NEW q \in Rank
  PROVE  /\ Peer(q) \in Rank /\ Peer(q) # q /\ Peer(Peer(q)) = q
         /\ \A r \in Rank : r = q \/ r = Peer(q)
BY DEF Rank, Peer

(* What IInv says of a rank q and its peer p, with the barrier's counts.   *)
Pair(q, p) ==
  /\ PassagesOf(q) /\ PassagesOf(p)
  /\ SenseOf(q) /\ SenseOf(p)
  /\ pc[q] = "clear" \/ pc[p] = "clear" => count = 2
  /\ pc[q] = "release" \/ pc[p] = "release" => count = 0
  /\ ~Opening(q) /\ ~Opening(p) =>
       /\ Waiting(q) \/ Waiting(p) => count = 1
       /\ ~Waiting(q) /\ ~Waiting(p) => count = 0
  /\ ScratchOf(q) /\ ScratchOf(p)

(* IInv is the type invariant and what Pair says of the two ranks.         *)
LEMMA PairIsInv ==
  ASSUME NEW q \in Rank, TypeOK
  PROVE  IInv <=> Pair(q, Peer(q))
BY TwoRanks DEF IInv, Pair, PassagesInv, SenseInv, CountInv, ScratchInv

(* The same of the next state.                                             *)
LEMMA PairIsInvNext ==
  ASSUME NEW q \in Rank, TypeOK'
  PROVE  IInv' <=> Pair(q, Peer(q))'
BY TwoRanks DEF IInv, Pair, PassagesInv, SenseInv, CountInv, ScratchInv, Peer

(* Every step of a rank keeps the invariant.                               *)
LEMMA StepIInv ==
  ASSUME IInv, NEW q \in Rank, PushBegin(q) \/ InCall(q)
  PROVE  IInv'
<1>. DEFINE p == Peer(q)
<1>0. /\ TypeOK /\ Pair(q, p)
      /\ p \in Rank /\ p # q /\ Peer(p) = q /\ Peer(q) = p
  BY PairIsInv, TwoRanks DEF IInv
<1>. HIDE DEF p
<1>1. CASE PushBegin(q)
  <2>1. TypeOK'
    BY <1>1, <1>0, MaxCallsAssumption DEF PushBegin, TypeOK, None
  <2>2. Pair(q, p)'
    BY <1>1, <1>0, <2>1 DEF PushBegin, TypeOK, Pair, PassagesOf, SenseOf, ScratchOf,
       Opening, Waiting, Passed, Cur
  <2>. QED
    BY <2>1, <2>2, PairIsInvNext DEF p
<1>2. CASE PushEnd(q)
  <2>1. TypeOK'
    <3>1. Cur(q) \in Nat
      <4>1. calls[q] \in Nat
        BY <1>0, MaxCallsAssumption DEF TypeOK
      <4>2. calls[q] # 0
        BY <1>2, <1>0 DEF PushEnd, Pair, PassagesOf
      <4>. QED
        BY <4>1, <4>2 DEF Cur
    <3>. QED
      BY <1>2, <1>0, <3>1 DEF PushEnd, TypeOK
  <2>2. Pair(q, p)'
    BY <1>2, <1>0, <2>1 DEF PushEnd, TypeOK, Pair, PassagesOf, SenseOf, ScratchOf,
       Opening, Waiting, Passed, Cur
  <2>. QED
    BY <2>1, <2>2, PairIsInvNext DEF p
<1>3. CASE Arrive(q)
  <2>1. TypeOK'
    BY <1>3, <1>0 DEF Arrive, TypeOK, Pair, PassagesOf, Opening, Waiting
  <2>2. Pair(q, p)'
    BY <1>3, <1>0, <2>1 DEF Arrive, TypeOK, Pair, PassagesOf, SenseOf, ScratchOf,
       Opening, Waiting, Passed, Cur
  <2>. QED
    BY <2>1, <2>2, PairIsInvNext DEF p
<1>4. CASE Clear(q)
  <2>1. TypeOK'
    BY <1>4, <1>0 DEF Clear, TypeOK
  <2>2. Pair(q, p)'
    BY <1>4, <1>0, <2>1 DEF Clear, TypeOK, Pair, PassagesOf, SenseOf, ScratchOf,
       Opening, Waiting, Passed, Cur
  <2>. QED
    BY <2>1, <2>2, PairIsInvNext DEF p
<1>5. CASE Release(q)
  <2>1. TypeOK'
    BY <1>5, <1>0 DEF Release, TypeOK, my
  <2>2. Pair(q, p)'
    BY <1>5, <1>0, <2>1 DEF Release, TypeOK, Pair, PassagesOf, SenseOf, ScratchOf,
       Opening, Waiting, Passed, Cur, my
  <2>. QED
    BY <2>1, <2>2, PairIsInvNext DEF p
<1>6. CASE Spin(q)
  <2>1. TypeOK'
    BY <1>6, <1>0 DEF Spin, TypeOK, my
  <2>2. Pair(q, p)'
    BY <1>6, <1>0, <2>1 DEF Spin, TypeOK, Pair, PassagesOf, SenseOf, ScratchOf,
       Opening, Waiting, Passed, Cur, my
  <2>. QED
    BY <2>1, <2>2, PairIsInvNext DEF p
<1>7. CASE ReduceBegin(q)
  <2>1. TypeOK'
    BY <1>7, <1>0 DEF ReduceBegin, TypeOK
  <2>2. Pair(q, p)'
    BY <1>7, <1>0, <2>1 DEF ReduceBegin, TypeOK, Pair, PassagesOf, SenseOf, ScratchOf,
       Opening, Waiting, Passed, Cur
  <2>. QED
    BY <2>1, <2>2, PairIsInvNext DEF p
<1>8. CASE ReduceEnd(q)
  <2>1. TypeOK'
    <3>1. Cur(q) \in Nat
      <4>1. calls[q] \in Nat
        BY <1>0, MaxCallsAssumption DEF TypeOK
      <4>2. calls[q] # 0
        BY <1>8, <1>0 DEF ReduceEnd, Pair, PassagesOf
      <4>. QED
        BY <4>1, <4>2 DEF Cur
    <3>2. summed' \in [Rank -> [Rank -> Nat \cup {None}]]
      BY <1>8, <1>0, <3>1 DEF ReduceEnd, TypeOK
    <3>. QED
      BY <1>8, <1>0, <3>2 DEF ReduceEnd, TypeOK
  <2>2. Pair(q, p)'
    BY <1>8, <1>0, <2>1 DEF ReduceEnd, TypeOK, Pair, PassagesOf, SenseOf, ScratchOf,
       Opening, Waiting, Passed, Cur
  <2>. QED
    BY <2>1, <2>2, PairIsInvNext DEF p
<1>. QED
  BY <1>1, <1>2, <1>3, <1>4, <1>5, <1>6, <1>7, <1>8 DEF InCall

(* The invariant is inductive.                                             *)
LEMMA NextIInv == IInv /\ [Next]_vars => IInv'
<1>. SUFFICES ASSUME IInv, [Next]_vars PROVE IInv'
  OBVIOUS
<1>1. CASE Next
  BY <1>1, StepIInv DEF Next
<1>2. CASE UNCHANGED vars
  BY <1>2 DEF vars, IInv, TypeOK, PassagesInv, PassagesOf, SenseInv, SenseOf, CountInv,
              ScratchInv, ScratchOf, Passed, Waiting, Opening, Cur
<1>. QED
  BY <1>1, <1>2

(* The invariant holds in every behaviour.                                 *)
LEMMA IInvHolds == Spec => []IInv
BY InitIInv, NextIInv, PTL DEF Spec

-----------------------------------------------------------------------------
(* The variables have their types; in particular at most two arrivals are  *)
(* counted however often the barrier's words are reused.                   *)
THEOREM TypeCorrect == Spec => []TypeOK
<1>1. IInv => TypeOK
  BY DEF IInv
<1>. QED
  BY <1>1, IInvHolds, PTL

(* A rank that is through the barrier of a call finds the peer's push of   *)
(* that call complete, for any number of calls through ar_barrier.         *)
THEOREM NobodyPassesEarlyHolds == Spec => []NobodyPassesEarly
<1>1. IInv => NobodyPassesEarly
  BY TwoRanks DEF IInv, TypeOK, PassagesInv, PassagesOf, NobodyPassesEarly, Pushed, Passed, Cur
<1>. QED
  BY <1>1, IInvHolds, PTL

(* The reduce of do_ar never adds the payload of an earlier call.          *)
THEOREM NeverReducesOldPayloadHolds == Spec => []NeverReducesOldPayload
<1>1. IInv => NeverReducesOldPayload
  BY TwoRanks DEF IInv, TypeOK, PassagesInv, PassagesOf, ScratchInv, ScratchOf,
                  NeverReducesOldPayload, Passed, Cur
<1>. QED
  BY <1>1, IInvHolds, PTL

(* One barrier per call keeps the ranks within one call of each other.     *)
THEOREM RanksWithinOneCallHolds == Spec => []RanksWithinOneCall
<1>1. IInv => RanksWithinOneCall
  BY TwoRanks DEF IInv, TypeOK, PassagesInv, PassagesOf, RanksWithinOneCall, Passed, Cur
<1>. QED
  BY <1>1, IInvHolds, PTL
=============================================================================
