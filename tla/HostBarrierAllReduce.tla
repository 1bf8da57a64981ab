------------------------- MODULE HostBarrierAllReduce -------------------------
(***************************************************************************)
(* The host-barrier push all-reduce, do_ar and ar_barrier of               *)
(* src/vllm/contrib/vllm_push_allreduce/118_xpu_push_ar_graph.cpp, as      *)
(* all_reduce of _push_ar_patch.py calls it for eager tensors.             *)
(*                                                                         *)
(* A call pushes its input into the peer's scratch and waits for the push, *)
(* passes a sense-reversing barrier in shared memory, and adds its own     *)
(* scratch to its tensor and waits for that.  Each rank has one scratch    *)
(* buffer, and a call passes the barrier once.                             *)
(*                                                                         *)
(* A payload is the number of the call it belongs to.  A push and a reduce *)
(* take two steps each; while a push runs, the scratch it writes holds     *)
(* None.                                                                   *)
(***************************************************************************)
EXTENDS Integers

CONSTANT MaxCalls     \* bound: the calls a rank makes in one behaviour

ASSUME MaxCallsAssumption == MaxCalls \in Nat

Rank == {0, 1}
Peer(r) == 1 - r
None == -1

VARIABLES
  calls,           \* calls[r]: calls begun by rank r
  pc,              \* where rank r is in do_ar
  count,           \* g_bar->count
  sense,           \* g_bar->sense
  g_local_sense,   \* g_local_sense[r]
  scratch,         \* scratch[r]: the payload in rank r's scratch
  summed           \* summed[r][q]: the payload of q in r's last result

vars == <<calls, pc, count, sense, g_local_sense, scratch, summed>>

Cur(r) == calls[r] - 1

(* Fault: the sense is not reversed from call to call.                     *)
SameSense(r) == 1

(* The sense that lets rank r out of the barrier it is in.                 *)
my(r) == 1 - g_local_sense[r]

Init ==
  /\ calls = [r \in Rank |-> 0]
  /\ pc = [r \in Rank |-> "idle"]
  /\ count = 0
  /\ sense = 0
  /\ g_local_sense = [r \in Rank |-> 0]
  /\ scratch = [r \in Rank |-> None]
  /\ summed = [r \in Rank |-> [q \in Rank |-> None]]

-----------------------------------------------------------------------------
(* do_ar starts the push into the peer's scratch ...                       *)
PushBegin(r) ==
  /\ pc[r] = "idle"
  /\ calls[r] < MaxCalls
  /\ calls' = [calls EXCEPT ![r] = @ + 1]
  /\ pc' = [pc EXCEPT ![r] = "pushing"]
  /\ scratch' = [scratch EXCEPT ![Peer(r)] = None]
  /\ UNCHANGED <<count, sense, g_local_sense, summed>>

(* ... and its wait() returns.                                             *)
PushEnd(r) ==
  /\ pc[r] = "pushing"
  /\ pc' = [pc EXCEPT ![r] = "arrive"]
  /\ scratch' = [scratch EXCEPT ![Peer(r)] = Cur(r)]
  /\ UNCHANGED <<calls, count, sense, g_local_sense, summed>>

(* Fault: the first rank to arrive opens the barrier.                      *)
ArriveFirst(r) ==
  /\ pc[r] = "arrive"
  /\ count' = count + 1
  /\ pc' = [pc EXCEPT ![r] = IF count + 1 = 1 THEN "clear" ELSE "spin"]
  /\ UNCHANGED <<calls, sense, g_local_sense, scratch, summed>>

(* ar_barrier: the second rank to arrive opens the barrier.                *)
Arrive(r) ==
  /\ pc[r] = "arrive"
  /\ count' = count + 1
  /\ pc' = [pc EXCEPT ![r] = IF count + 1 = 2 THEN "clear" ELSE "spin"]
  /\ UNCHANGED <<calls, sense, g_local_sense, scratch, summed>>

(* Fault: the count is left at two.                                        *)
ClearNothing(r) ==
  /\ pc[r] = "clear"
  /\ pc' = [pc EXCEPT ![r] = "release"]
  /\ UNCHANGED <<calls, count, sense, g_local_sense, scratch, summed>>

Clear(r) ==
  /\ pc[r] = "clear"
  /\ count' = 0
  /\ pc' = [pc EXCEPT ![r] = "release"]
  /\ UNCHANGED <<calls, sense, g_local_sense, scratch, summed>>

Release(r) ==
  /\ pc[r] = "release"
  /\ sense' = my(r)
  /\ g_local_sense' = [g_local_sense EXCEPT ![r] = my(r)]
  /\ pc' = [pc EXCEPT ![r] = "reduce"]
  /\ UNCHANGED <<calls, count, scratch, summed>>

(* Fault: a rank that had to spin keeps its old local sense.               *)
SpinKeepsSense(r) ==
  /\ pc[r] = "spin"
  /\ sense = my(r)
  /\ pc' = [pc EXCEPT ![r] = "reduce"]
  /\ UNCHANGED <<calls, count, sense, g_local_sense, scratch, summed>>

Spin(r) ==
  /\ pc[r] = "spin"
  /\ sense = my(r)
  /\ g_local_sense' = [g_local_sense EXCEPT ![r] = my(r)]
  /\ pc' = [pc EXCEPT ![r] = "reduce"]
  /\ UNCHANGED <<calls, count, sense, scratch, summed>>

(* The reduce kernel starts, and its wait() returns.                       *)
ReduceBegin(r) ==
  /\ pc[r] = "reduce"
  /\ pc' = [pc EXCEPT ![r] = "reducing"]
  /\ UNCHANGED <<calls, count, sense, g_local_sense, scratch, summed>>

ReduceEnd(r) ==
  /\ pc[r] = "reducing"
  /\ pc' = [pc EXCEPT ![r] = "idle"]
  /\ summed' = [summed EXCEPT ![r] =
                  [q \in Rank |-> IF q = r THEN Cur(r) ELSE scratch[r]]]
  /\ UNCHANGED <<calls, count, sense, g_local_sense, scratch>>

-----------------------------------------------------------------------------
InCall(r) == \/ PushEnd(r) \/ Arrive(r) \/ Clear(r) \/ Release(r) \/ Spin(r)
             \/ ReduceBegin(r) \/ ReduceEnd(r)

Next == \E r \in Rank : PushBegin(r) \/ InCall(r)

(* A rank that has begun a call keeps executing it; nothing obliges it to  *)
(* begin one.                                                              *)
Fairness == \A r \in Rank : WF_vars(InCall(r))

Spec == Init /\ [][Next]_vars
FairSpec == Spec /\ Fairness

-----------------------------------------------------------------------------
TypeOK ==
  /\ calls \in [Rank -> 0 .. MaxCalls]
  /\ pc \in [Rank -> {"idle", "pushing", "arrive", "clear", "release", "spin",
                      "reduce", "reducing"}]
  /\ count \in 0 .. 2
  /\ sense \in {0, 1}
  /\ g_local_sense \in [Rank -> {0, 1}]
  /\ scratch \in [Rank -> Nat \cup {None}]
  /\ summed \in [Rank -> [Rank -> Nat \cup {None}]]

(* Calls whose payload rank r has delivered to its peer.                   *)
Pushed(r) == IF pc[r] = "pushing" THEN Cur(r) ELSE calls[r]

(* Nobody leaves the barrier of a call before the other rank's push of     *)
(* that call is complete, however often the two words are reused.          *)
NobodyPassesEarly ==
  \A r \in Rank : pc[r] \in {"reduce", "reducing"} => Pushed(Peer(r)) >= calls[r]

(* A reduce never adds the payload of an earlier call.                     *)
NeverReducesOldPayload ==
  \A r \in Rank :
    pc[r] = "reducing" =>
      \/ scratch[r] >= Cur(r)
      \/ pc[Peer(r)] = "pushing" /\ calls[Peer(r)] > calls[r]

(* The barrier keeps the ranks within one call of each other.              *)
RanksWithinOneCall == \A r \in Rank : calls[r] <= calls[Peer(r)] + 1

(* Once both ranks have begun a call it returns on both: the reused words  *)
(* never leave a rank spinning.                                            *)
CallReturns ==
  \A r \in Rank :
    (pc[r] # "idle" /\ calls[Peer(r)] >= calls[r]) ~> pc[r] = "idle"

(* A running reduce reads the payload of its own call.  The code does not  *)
(* have this property: a rank that is through with a call may push the     *)
(* next one while its peer still has to reduce.                            *)
ReducesItsOwnCall ==
  \A r \in Rank : pc[r] = "reducing" => scratch[r] = Cur(r)
=============================================================================
