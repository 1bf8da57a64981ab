----------------------------- MODULE EpTransport -----------------------------
(***************************************************************************)
(* The expert-parallel sidecar: enqueue_moe, ep_moe and ep_replay_submit   *)
(* of src/vllm/flashnext/plugins/b70_ep_xpu/csrc/moe_ep.cpp (decode), the  *)
(* ops of prefill_ep.cpp with _apply of prefill_ep.py (prefill), and the   *)
(* kernels of ep_kernels.cpp both are made of.                             *)
(*                                                                         *)
(* A call sends the hidden states from card 0 to card 1 and card 1's       *)
(* partial sum back.  The cards execute what the host has queued; doorbell *)
(* words order them, one pair per layer, while one inbox and one psum      *)
(* region serve every layer.  A wait that has spun for too long writes an  *)
(* error word and goes on with what the region holds.                      *)
(*                                                                         *)
(* A payload is the number of the call it belongs to.  A kernel that       *)
(* writes or reads a region takes two steps; a region being written holds  *)
(* None, and a read that overlaps a write yields None.                     *)
(***************************************************************************)
EXTENDS Integers

CONSTANTS
  NLayers,    \* MoE layers; successive calls go through them in turn
  Half,       \* half the range of a counter: 2^31 in the code
  MaxCalls,   \* bound: calls queued in one behaviour
  PushSide    \* B70_EP_PREFILL_PUSH=side: dispatch on a stream of its own

ASSUME NLayersAssumption == NLayers \in Nat \ {0}
ASSUME HalfAssumption == Half \in Nat \ {0}
ASSUME MaxCallsAssumption == MaxCalls \in Nat
ASSUME PushSideAssumption == PushSide \in BOOLEAN

Layer == 0 .. NLayers - 1
layer(k) == k % NLayers
None == -1
Word == 0 .. 2 * Half - 1

VARIABLES
  mode,       \* how calls are made: "eager", "prefill" or "replay"
  host,       \* the thread that queues them
  calls,      \* calls whose dispatch is queued
  returns,    \* calls whose return is queued
  pc1, n1,    \* card 1: its next kernel, and the call it belongs to
  pcd, nd,    \* card 0, the dispatching stream
  pc0, n0,    \* card 0, the stream that waits and adds
  want,       \* the counter value card 0's wait has read
  x1,         \* what card 1 has copied from the inbox
  acc,        \* what the running add has read of psum
  ctr0, ctr1, flag_in, flag_ret, err0, err1,   \* one word per layer
  inbox, psum,
  summed      \* the payload of card 1 in the last result

hostVars == <<mode, host, calls, returns>>
card1Vars == <<pc1, n1, x1, ctr1, flag_ret, err1, psum>>
pushVars == <<pcd, nd, ctr0, flag_in, inbox>>
addVars == <<pc0, n0, want, acc, err0, summed>>
vars == <<hostVars, card1Vars, pushVars, addVars>>

Zero == [l \in Layer |-> 0]
Clear == [l \in Layer |-> FALSE]

(* reset_epochs and pf_init: counters, flags and error words are zero.     *)
Init ==
  /\ mode \in {"eager", "prefill", "replay"}
  /\ PushSide => mode = "prefill"
  /\ host = "idle" /\ calls = 0 /\ returns = 0
  /\ pc1 = "bump" /\ n1 = 0 /\ x1 = None
  /\ pcd = "bump" /\ nd = 0
  /\ pc0 = "wait" /\ n0 = 0 /\ want = 0 /\ acc = None
  /\ ctr0 = Zero /\ ctr1 = Zero /\ flag_in = Zero /\ flag_ret = Zero
  /\ err0 = Clear /\ err1 = Clear
  /\ inbox = None /\ psum = None /\ summed = None

-----------------------------------------------------------------------------
(* The host.  check_errors of prefill and the check at the head of ep_moe  *)
(* look at the words of one layer; a replayed graph checks nothing.        *)
Failed(l) == err0[l] \/ err1[l]
AnyError == \E l \in Layer : Failed(l)

(* q1 and the current stream of card 0 have executed all that is queued.   *)
Drained == n1 = calls /\ n0 = calls

(* ep_moe_begin, the first part of ep_moe, or ep_prefill_dispatch.         *)
Begin ==
  /\ host \in {"idle", "synced"}
  /\ calls < MaxCalls
  /\ mode = "replay" \/ ~Failed(layer(calls))
  /\ host' = "begun"
  /\ calls' = calls + 1
  /\ UNCHANGED <<mode, returns, card1Vars, pushVars, addVars>>

BeginRaises ==
  /\ host \in {"idle", "synced"}
  /\ calls < MaxCalls
  /\ mode # "replay" /\ Failed(layer(calls))
  /\ host' = "raised"
  /\ UNCHANGED <<mode, calls, returns, card1Vars, pushVars, addVars>>

(* ep_moe_end, the rest of ep_moe, or ep_prefill_return: the eager call    *)
(* waits for both queues, the others return at once.                       *)
End ==
  /\ host = "begun"
  /\ host' = IF mode = "eager" THEN "waiting" ELSE "idle"
  /\ returns' = returns + 1
  /\ UNCHANGED <<mode, calls, card1Vars, pushVars, addVars>>

(* Fault: only card 0's error word is looked at after the wait.            *)
EagerWaitChecksCard0 ==
  /\ host = "waiting"
  /\ Drained
  /\ host' = IF err0[layer(calls - 1)] THEN "raised" ELSE "idle"
  /\ UNCHANGED <<mode, calls, returns, card1Vars, pushVars, addVars>>

(* ep_moe after q1->wait and q0().wait: the words of the call's own layer. *)
EagerWait ==
  /\ host = "waiting"
  /\ Drained
  /\ host' = IF Failed(layer(calls - 1)) THEN "raised" ELSE "idle"
  /\ UNCHANGED <<mode, calls, returns, card1Vars, pushVars, addVars>>

(* ep_prefill_sync: wait for both streams and look at every layer.         *)
Sync ==
  /\ mode = "prefill" /\ host = "idle"
  /\ Drained
  /\ host' = IF AnyError THEN "raised" ELSE "synced"
  /\ UNCHANGED <<mode, calls, returns, card1Vars, pushVars, addVars>>

-----------------------------------------------------------------------------
(* Fault: the doorbell comparison is unsigned.                             *)
AheadUnsigned(flag, v) == flag >= v

(* The test of ep_wait: (int32_t)(flag - want) >= 0.                       *)
Ahead(flag, v) == (flag - v) % (2 * Half) < Half

(* Fault: a counter that does not wrap.                                   *)
IncWide(c) == c + 1

Inc(c) == (c + 1) % (2 * Half)

(* Card 1 executes ep_bump ...                                             *)
Bump1 ==
  /\ pc1 = "bump" /\ n1 < calls
  /\ ctr1' = [ctr1 EXCEPT ![layer(n1)] = Inc(@)]
  /\ pc1' = "wait"
  /\ UNCHANGED <<hostVars, n1, x1, flag_ret, err1, psum, pushVars, addVars>>

(* ... ep_wait for the inbox, which may give up ...                        *)
Wait1 ==
  /\ pc1 = "wait"
  /\ Ahead(flag_in[layer(n1)], ctr1[layer(n1)])
  /\ pc1' = "copy"
  /\ UNCHANGED <<hostVars, n1, x1, ctr1, flag_ret, err1, psum, pushVars, addVars>>

Timeout1 ==
  /\ pc1 = "wait"
  /\ ~Ahead(flag_in[layer(n1)], ctr1[layer(n1)])
  /\ err1' = [err1 EXCEPT ![layer(n1)] = TRUE]
  /\ pc1' = "copy"
  /\ UNCHANGED <<hostVars, n1, x1, ctr1, flag_ret, psum, pushVars, addVars>>

(* ... the copy of the inbox, and its experts ...                          *)
CopyBegin ==
  /\ pc1 = "copy"
  /\ x1' = inbox
  /\ pc1' = "copying"
  /\ UNCHANGED <<hostVars, n1, ctr1, flag_ret, err1, psum, pushVars, addVars>>

CopyEnd ==
  /\ pc1 = "copying"
  /\ x1' = IF inbox = x1 THEN x1 ELSE None
  /\ pc1' = "push"
  /\ UNCHANGED <<hostVars, n1, ctr1, flag_ret, err1, psum, pushVars, addVars>>

(* ... and ep_push_ctr of its partial sum, which prefill queues with the   *)
(* return and decode with the dispatch.                                    *)
PushBegin ==
  /\ pc1 = "push"
  /\ mode = "prefill" => n1 < returns
  /\ psum' = None
  /\ pc1' = "pushing"
  /\ UNCHANGED <<hostVars, n1, x1, ctr1, flag_ret, err1, pushVars, addVars>>

PushEnd ==
  /\ pc1 = "pushing"
  /\ psum' = x1
  /\ flag_ret' = [flag_ret EXCEPT ![layer(n1)] = ctr1[layer(n1)]]
  /\ n1' = n1 + 1
  /\ pc1' = "bump"
  /\ UNCHANGED <<hostVars, x1, ctr1, err1, pushVars, addVars>>

Card1 == \/ Bump1 \/ Wait1 \/ Timeout1 \/ CopyBegin \/ CopyEnd
         \/ PushBegin \/ PushEnd

-----------------------------------------------------------------------------
(* Fault: the dispatch is not ordered after the previous call's add.       *)
Bump0Early ==
  /\ pcd = "bump" /\ nd < calls
  /\ ctr0' = [ctr0 EXCEPT ![layer(nd)] = Inc(@)]
  /\ pcd' = "dispatch"
  /\ UNCHANGED <<hostVars, card1Vars, nd, flag_in, inbox, addVars>>

(* Card 0 executes ep_bump after all that was queued for earlier calls     *)
(* (a side stream waits for the main stream first) ...                     *)
Bump0 ==
  /\ pcd = "bump" /\ nd < calls
  /\ n0 >= nd
  /\ ctr0' = [ctr0 EXCEPT ![layer(nd)] = Inc(@)]
  /\ pcd' = "dispatch"
  /\ UNCHANGED <<hostVars, card1Vars, nd, flag_in, inbox, addVars>>

(* ... and ep_dispatch; ep_route_dispatch is the two in one kernel.        *)
DispatchBegin ==
  /\ pcd = "dispatch"
  /\ inbox' = None
  /\ pcd' = "dispatching"
  /\ UNCHANGED <<hostVars, card1Vars, nd, ctr0, flag_in, addVars>>

DispatchEnd ==
  /\ pcd = "dispatching"
  /\ inbox' = nd
  /\ flag_in' = [flag_in EXCEPT ![layer(nd)] = ctr0[layer(nd)]]
  /\ nd' = nd + 1
  /\ pcd' = "bump"
  /\ UNCHANGED <<hostVars, card1Vars, ctr0, addVars>>

(* ep_wait for the partial sum reads the counter when it starts.  On the   *)
(* stream that dispatched it comes after the dispatch, on another stream   *)
(* nothing orders the two.                                                 *)
Wait0Begin ==
  /\ pc0 = "wait" /\ n0 < returns
  /\ PushSide \/ nd > n0
  /\ want' = ctr0[layer(n0)]
  /\ pc0' = "spin"
  /\ UNCHANGED <<hostVars, card1Vars, pushVars, n0, acc, err0, summed>>

Wait0End ==
  /\ pc0 = "spin"
  /\ Ahead(flag_ret[layer(n0)], want)
  /\ pc0' = "add"
  /\ UNCHANGED <<hostVars, card1Vars, pushVars, n0, want, acc, err0, summed>>

(* Fault: the spin has no bound.                                           *)
Timeout0Never == FALSE /\ UNCHANGED vars

Timeout0 ==
  /\ pc0 = "spin"
  /\ ~Ahead(flag_ret[layer(n0)], want)
  /\ err0' = [err0 EXCEPT ![layer(n0)] = TRUE]
  /\ pc0' = "add"
  /\ UNCHANGED <<hostVars, card1Vars, pushVars, n0, want, acc, summed>>

(* ep_add_uncached: the result of the call.                                *)
AddBegin ==
  /\ pc0 = "add"
  /\ acc' = psum
  /\ pc0' = "adding"
  /\ UNCHANGED <<hostVars, card1Vars, pushVars, n0, want, err0, summed>>

AddEnd ==
  /\ pc0 = "adding"
  /\ summed' = IF psum = acc THEN acc ELSE None
  /\ n0' = n0 + 1
  /\ pc0' = "wait"
  /\ UNCHANGED <<hostVars, card1Vars, pushVars, want, acc, err0>>

Card0 == \/ Bump0 \/ DispatchBegin \/ DispatchEnd
         \/ Wait0Begin \/ Wait0End \/ Timeout0 \/ AddBegin \/ AddEnd

-----------------------------------------------------------------------------
Host == Begin \/ BeginRaises \/ End \/ EagerWait \/ Sync

Next == Host \/ Card1 \/ Card0

(* Card 0 executes what is queued on it; card 1 may stop at any kernel.    *)
Fairness == WF_vars(Card0)

Spec == Init /\ [][Next]_vars
FairSpec == Spec /\ Fairness

-----------------------------------------------------------------------------
TypeOK ==
  /\ mode \in {"eager", "prefill", "replay"}
  /\ host \in {"idle", "begun", "waiting", "synced", "raised"}
  /\ calls \in 0 .. MaxCalls /\ returns \in Nat
  /\ pc1 \in {"bump", "wait", "copy", "copying", "push", "pushing"}
  /\ pcd \in {"bump", "dispatch", "dispatching"}
  /\ pc0 \in {"wait", "spin", "add", "adding"}
  /\ n1 \in Nat /\ nd \in Nat /\ n0 \in Nat
  /\ want \in Word
  /\ ctr0 \in [Layer -> Word] /\ ctr1 \in [Layer -> Word]
  /\ flag_in \in [Layer -> Word] /\ flag_ret \in [Layer -> Word]
  /\ err0 \in [Layer -> BOOLEAN] /\ err1 \in [Layer -> BOOLEAN]
  /\ {x1, acc, inbox, psum, summed} \subseteq Nat \cup {None}

(* The last result added card 1's partial sum of its own call.             *)
LastSumIsRight == n0 > 0 => summed = n0 - 1

(* A result that is not the sum of its own call never goes unrecorded: as  *)
(* long as no error word is set every result is right, whatever layers     *)
(* share the regions and however often the 32-bit counters have wrapped.   *)
SumsItsOwnCall == ~AnyError => LastSumIsRight

(* With no error word set the shared regions are never read while the      *)
(* other card writes them.                                                 *)
RegionsExclusive ==
  ~AnyError =>
    /\ ~(pcd = "dispatching" /\ pc1 \in {"copying", "push", "pushing"})
    /\ ~(pc1 = "pushing" /\ pc0 \in {"add", "adding"})

(* What the host may rely on although waits time out: an eager call that   *)
(* returns, and a prefill that has been synchronised, have the right sum.  *)
(* For the eager call the words of its own layer are enough.               *)
ReturnsOwnSum ==
  (mode = "eager" /\ host = "idle") \/ host = "synced" => LastSumIsRight

(* Card 0 never hangs: the bounded spin brings every queued return to its  *)
(* end even if card 1 stops for good.                                      *)
QueuedReturnsFinish ==
  \A k \in 1 .. MaxCalls : returns >= k ~> n0 >= k
=============================================================================
