---------------------------- MODULE EagerAllReduce ----------------------------
(***************************************************************************)
(* The eager-async push all-reduce of                                      *)
(* src/vllm/contrib/vllm_push_allreduce/119_xpu_push_ar_eager_async.cpp.   *)
(*                                                                         *)
(* Each rank runs three engines at once: the host thread inside do_ea, the *)
(* in-order immediate command list g_imm, and torch's in-order queue Q_t.  *)
(* The k-th call uses slot k % ring of the scratch ring and of the ring of *)
(* cross-card events.  On g_imm a call is                                  *)
(*    wait(input) ; copy inout -> peer scratch ; signal mine ;             *)
(*    wait(peer) ; reset peer ; signal g_done                              *)
(* and on Q_t it is  barrier ; reduce , the reduce being submitted by the  *)
(* host after g_done and never waited for.                                 *)
(*                                                                         *)
(* A payload is the number of the call it belongs to.  A copy and a reduce *)
(* take two steps each; while a copy runs, the slot it writes holds None.  *)
(* The nbytes and dtype arguments, the keep-alive ring g_ew and the other  *)
(* work torch puts on Q_t are left out: Q_t is in order, so that work only *)
(* delays the commands modelled here.                                      *)
(***************************************************************************)
EXTENDS Integers

CONSTANTS
  Ring,       \* g_ring, PUSH_AR_ASYNC_RING (4 by default)
  MaxCalls    \* bound: the calls a rank makes in one behaviour

Rank == {0, 1}
Slot == 0 .. Ring - 1

(* ar_ea_setup accepts any ring and turns one below 1 into 1.  The         *)
(* protocol needs two slots: the theorems say so, see README for one slot. *)
ASSUME RingAssumption == Ring \in Nat \ {0}
ASSUME MaxCallsAssumption == MaxCalls \in Nat

VARIABLES
  g_call,           \* g_call[r]: calls begun by rank r
  hostwait,         \* g_hostwait_input[r]
  host,             \* where rank r's host thread is in do_ea
  imm,              \* the next (or running) command of g_imm of rank r
  g_done,           \* the result-ready event of rank r
  ev,               \* ev[r][i]: the cross-card event of slot i that r signals
  scratch,          \* scratch[r][i]: the payload in slot i of r's scratch ring
  qsub,             \* commands rank r has submitted to Q_t
  qdone,            \* commands Q_t of rank r has completed
  reducing,         \* reducing[r]: the reduce at the head of Q_t is running
  summed,           \* summed[r][q]: the payload of q in r's last result
  alive             \* rank r's process and its device queues are running

vars == <<g_call, hostwait, host, imm, g_done, ev, scratch, qsub, qdone,
          reducing, summed, alive>>

None == -1

Peer(r) == 1 - r
(* Fault: a single slot, used by every call.                               *)
OneSlotOf(c) == 0

SlotOf(c) == c % Ring

(* The call rank r is in, or made last.                                    *)
Cur(r) == g_call[r] - 1

(* Q_t of a rank holds the barrier of call 0, its reduce, the barrier of   *)
(* call 1, its reduce, ...: command k belongs to call k \div 2.            *)
BarrierOf(c) == 2 * c
IsBarrier(k) == k % 2 = 0
CallOf(k) == k \div 2
BarrierFired(r) == qdone[r] > BarrierOf(Cur(r))

-----------------------------------------------------------------------------
Init ==
  /\ g_call   = [r \in Rank |-> 0]
  /\ hostwait \in [Rank -> BOOLEAN]
  /\ host     = [r \in Rank |-> "idle"]
  /\ imm      = [r \in Rank |-> "idle"]
  /\ g_done   = [r \in Rank |-> FALSE]
  /\ ev       = [r \in Rank |-> [i \in Slot |-> FALSE]]
  /\ scratch  = [r \in Rank |-> [i \in Slot |-> None]]
  /\ qsub     = [r \in Rank |-> 0]
  /\ qdone    = [r \in Rank |-> 0]
  /\ reducing = [r \in Rank |-> FALSE]
  /\ summed   = [r \in Rank |-> [q \in Rank |-> None]]
  /\ alive    = [r \in Rank |-> TRUE]

-----------------------------------------------------------------------------
(* The host thread.                                                        *)

(* Fault: a call is retried from its start and counted twice.              *)
BeginCallRetried(r) ==
  /\ host[r] = "idle"
  /\ g_call[r] < MaxCalls
  /\ g_call' = [g_call EXCEPT ![r] = @ + 2]
  /\ qsub' = [qsub EXCEPT ![r] = @ + 3]
  /\ host' = [host EXCEPT ![r] = "sync"]
  /\ imm' = [imm EXCEPT ![r] = "wait_input"]
  /\ UNCHANGED <<hostwait, g_done, ev, scratch, qdone, reducing, summed, alive>>

(* do_ea up to the host sync: submit the input barrier on Q_t and, unless  *)
(* the host itself waits for the barrier, append the batch to g_imm.       *)
BeginCall(r) ==
  /\ host[r] = "idle"
  /\ g_call[r] < MaxCalls
  /\ g_call' = [g_call EXCEPT ![r] = @ + 1]
  /\ qsub' = [qsub EXCEPT ![r] = @ + 1]
  /\ \/ /\ hostwait[r]
        /\ host' = [host EXCEPT ![r] = "input"]
        /\ UNCHANGED imm
     \/ /\ ~hostwait[r]
        /\ host' = [host EXCEPT ![r] = "sync"]
        /\ imm' = [imm EXCEPT ![r] = "wait_input"]
  /\ UNCHANGED <<hostwait, g_done, ev, scratch, qdone, reducing, summed, alive>>

(* ASYNC_HOSTWAIT_INPUT=1: ew.wait() returns and the batch, which then has *)
(* no input wait of its own, is appended to g_imm.                         *)
HostInputReady(r) ==
  /\ host[r] = "input"
  /\ BarrierFired(r)
  /\ host' = [host EXCEPT ![r] = "sync"]
  /\ imm' = [imm EXCEPT ![r] = "copy"]
  /\ UNCHANGED <<g_call, hostwait, g_done, ev, scratch, qsub, qdone, reducing,
                 summed, alive>>

(* Fault: the reduce is submitted without waiting for g_done.              *)
HandoffUnsynced(r) ==
  /\ host[r] = "sync"
  /\ g_done' = [g_done EXCEPT ![r] = FALSE]
  /\ qsub' = [qsub EXCEPT ![r] = @ + 1]
  /\ host' = [host EXCEPT ![r] = "idle"]
  /\ UNCHANGED <<g_call, hostwait, imm, ev, scratch, qdone, reducing, summed,
                 alive>>

(* zeEventHostSynchronize(g_done) returns; the host resets g_done, submits *)
(* the reduce to Q_t without waiting for it, and do_ea returns.            *)
HostHandoff(r) ==
  /\ host[r] = "sync"
  /\ g_done[r]
  /\ g_done' = [g_done EXCEPT ![r] = FALSE]
  /\ qsub' = [qsub EXCEPT ![r] = @ + 1]
  /\ host' = [host EXCEPT ![r] = "idle"]
  /\ UNCHANGED <<g_call, hostwait, imm, ev, scratch, qdone, reducing, summed,
                 alive>>

-----------------------------------------------------------------------------
(* The immediate command list g_imm.                                       *)

(* Fault: the push does not wait for the input barrier.                    *)
NoInputWait(r) ==
  /\ imm[r] = "wait_input"
  /\ imm' = [imm EXCEPT ![r] = "copy"]
  /\ UNCHANGED <<g_call, hostwait, host, g_done, ev, scratch, qsub, qdone,
                 reducing, summed, alive>>

ImmWaitInput(r) ==
  /\ imm[r] = "wait_input"
  /\ BarrierFired(r)
  /\ imm' = [imm EXCEPT ![r] = "copy"]
  /\ UNCHANGED <<g_call, hostwait, host, g_done, ev, scratch, qsub, qdone,
                 reducing, summed, alive>>

(* The push starts: from here the peer's slot holds neither payload whole. *)
ImmCopyBegin(r) ==
  /\ imm[r] = "copy"
  /\ imm' = [imm EXCEPT ![r] = "copying"]
  /\ scratch' = [scratch EXCEPT ![Peer(r)][SlotOf(Cur(r))] = None]
  /\ UNCHANGED <<g_call, hostwait, host, g_done, ev, qsub, qdone, reducing,
                 summed, alive>>

ImmCopyEnd(r) ==
  /\ imm[r] = "copying"
  /\ imm' = [imm EXCEPT ![r] = "signal"]
  /\ scratch' = [scratch EXCEPT ![Peer(r)][SlotOf(Cur(r))] = Cur(r)]
  /\ UNCHANGED <<g_call, hostwait, host, g_done, ev, qsub, qdone, reducing,
                 summed, alive>>

ImmSignal(r) ==
  /\ imm[r] = "signal"
  /\ imm' = [imm EXCEPT ![r] = "wait"]
  /\ ev' = [ev EXCEPT ![r][SlotOf(Cur(r))] = TRUE]
  /\ UNCHANGED <<g_call, hostwait, host, g_done, scratch, qsub, qdone, reducing,
                 summed, alive>>

(* Fault: the rank does not wait for its peer.                             *)
NoPeerWait(r) ==
  /\ imm[r] = "wait"
  /\ imm' = [imm EXCEPT ![r] = "reset"]
  /\ UNCHANGED <<g_call, hostwait, host, g_done, ev, scratch, qsub, qdone,
                 reducing, summed, alive>>

(* An event is a latch: a wait passes when it is set and leaves it set.    *)
ImmWaitPeer(r) ==
  /\ imm[r] = "wait"
  /\ ev[Peer(r)][SlotOf(Cur(r))]
  /\ imm' = [imm EXCEPT ![r] = "reset"]
  /\ UNCHANGED <<g_call, hostwait, host, g_done, ev, scratch, qsub, qdone,
                 reducing, summed, alive>>

(* Fault: the producer resets its own event.                               *)
ResetOwnEvent(r) ==
  /\ imm[r] = "reset"
  /\ imm' = [imm EXCEPT ![r] = "done"]
  /\ ev' = [ev EXCEPT ![r][SlotOf(Cur(r))] = FALSE]
  /\ UNCHANGED <<g_call, hostwait, host, g_done, scratch, qsub, qdone, reducing,
                 summed, alive>>

ImmReset(r) ==
  /\ imm[r] = "reset"
  /\ imm' = [imm EXCEPT ![r] = "done"]
  /\ ev' = [ev EXCEPT ![Peer(r)][SlotOf(Cur(r))] = FALSE]
  /\ UNCHANGED <<g_call, hostwait, host, g_done, scratch, qsub, qdone, reducing,
                 summed, alive>>

ImmSignalDone(r) ==
  /\ imm[r] = "done"
  /\ imm' = [imm EXCEPT ![r] = "idle"]
  /\ g_done' = [g_done EXCEPT ![r] = TRUE]
  /\ UNCHANGED <<g_call, hostwait, host, ev, scratch, qsub, qdone, reducing,
                 summed, alive>>

-----------------------------------------------------------------------------
(* Torch's in-order queue Q_t.                                             *)

QueueBarrier(r) ==
  /\ qdone[r] < qsub[r]
  /\ IsBarrier(qdone[r])
  /\ qdone' = [qdone EXCEPT ![r] = @ + 1]
  /\ UNCHANGED <<g_call, hostwait, host, imm, g_done, ev, scratch, qsub,
                 reducing, summed, alive>>

ReduceBegin(r) ==
  /\ qdone[r] < qsub[r]
  /\ ~IsBarrier(qdone[r])
  /\ ~reducing[r]
  /\ reducing' = [reducing EXCEPT ![r] = TRUE]
  /\ UNCHANGED <<g_call, hostwait, host, imm, g_done, ev, scratch, qsub, qdone,
                 summed, alive>>

(* src[k] += scr[k] is complete: the result holds r's own input of this    *)
(* call and whatever payload the slot held.                                *)
ReduceEnd(r) ==
  /\ reducing[r]
  /\ reducing' = [reducing EXCEPT ![r] = FALSE]
  /\ qdone' = [qdone EXCEPT ![r] = @ + 1]
  /\ summed' = [summed EXCEPT ![r] =
       [q \in Rank |-> IF q = r THEN CallOf(qdone[r])
                       ELSE scratch[r][SlotOf(CallOf(qdone[r]))]]]
  /\ UNCHANGED <<g_call, hostwait, host, imm, g_done, ev, scratch, qsub, alive>>

-----------------------------------------------------------------------------
Host(r)  == BeginCall(r) \/ HostInputReady(r) \/ HostHandoff(r)
Imm(r)   == \/ ImmWaitInput(r) \/ ImmCopyBegin(r) \/ ImmCopyEnd(r) \/ ImmSignal(r)
            \/ ImmWaitPeer(r) \/ ImmReset(r) \/ ImmSignalDone(r)
Queue(r) == QueueBarrier(r) \/ ReduceBegin(r) \/ ReduceEnd(r)

(* A rank's process dies, and everything it had on its queues with it.     *)
Die(r) ==
  /\ alive' = [alive EXCEPT ![r] = FALSE]
  /\ UNCHANGED <<g_call, hostwait, host, imm, g_done, ev, scratch, qsub, qdone,
                 reducing, summed>>

Step(r) == alive[r] /\ (Host(r) \/ Imm(r) \/ Queue(r) \/ Die(r))

Next == \E r \in Rank : Step(r)

(* The devices of a living rank execute what was submitted to them, and    *)
(* its host thread returns from a wait that is over.  Nothing obliges a    *)
(* rank to make another call, or to live.                                  *)
Fairness ==
  \A r \in Rank :
    /\ WF_vars(alive[r] /\ Imm(r))
    /\ WF_vars(alive[r] /\ Queue(r))
    /\ WF_vars(alive[r] /\ (HostInputReady(r) \/ HostHandoff(r)))

Spec == Init /\ [][Next]_vars
FairSpec == Spec /\ Fairness

-----------------------------------------------------------------------------
TypeOK ==
  /\ g_call \in [Rank -> 0 .. MaxCalls]
  /\ hostwait \in [Rank -> BOOLEAN]
  /\ host \in [Rank -> {"idle", "input", "sync"}]
  /\ imm \in [Rank -> {"idle", "wait_input", "copy", "copying", "signal", "wait",
                       "reset", "done"}]
  /\ g_done \in [Rank -> BOOLEAN]
  /\ ev \in [Rank -> [Slot -> BOOLEAN]]
  /\ scratch \in [Rank -> [Slot -> Nat \cup {None}]]
  /\ qsub \in [Rank -> Nat]
  /\ qdone \in [Rank -> Nat]
  /\ reducing \in [Rank -> BOOLEAN]
  /\ summed \in [Rank -> [Rank -> Nat \cup {None}]]
  /\ alive \in [Rank -> BOOLEAN]

(* Signals rank r has issued on its events.                                *)
Signalled(r) ==
  IF host[r] = "input" \/ imm[r] \in {"wait_input", "copy", "copying", "signal"}
    THEN Cur(r)
    ELSE g_call[r]

(* No signal is lost: a rank that waits for a signal its peer has already  *)
(* issued finds the latch set.  A consumer reset that wiped the signal of  *)
(* a later call would leave it waiting for ever (the lost-signal deadlock  *)
(* of the file's WEDGE SAFETY comment).                                    *)
NoSignalLost ==
  \A r \in Rank :
    (imm[r] = "wait" /\ Signalled(Peer(r)) >= g_call[r])
      => ev[Peer(r)][SlotOf(Cur(r))]

(* A running reduce never reads a slot that is being overwritten or was    *)
(* overwritten for a later call, although the host never waits for it.     *)
ReducesItsOwnCall ==
  \A r \in Rank :
    reducing[r] => scratch[r][SlotOf(CallOf(qdone[r]))] = CallOf(qdone[r])

(* The push of a call reads inout after torch wrote it and before the      *)
(* rank's own reduce adds the peer's payload to it, although the two run   *)
(* on different streams.                                                   *)
PushReadsUnreducedInput ==
  \A r \in Rank :
    imm[r] = "copying" => qdone[r] = BarrierOf(Cur(r)) + 1 /\ ~reducing[r]

(* The host sync of each call keeps the ranks within one call.             *)
RanksWithinOneCall ==
  \A r \in Rank : g_call[r] <= g_call[Peer(r)] + 1

(* Once both ranks have begun a call it returns on both, unless a rank    *)
(* dies: the rendezvous cannot wedge.                                      *)
CallReturns ==
  \A r \in Rank :
    (host[r] # "idle" /\ g_call[Peer(r)] >= g_call[r])
      ~> (host[r] = "idle" \/ \E q \in Rank : ~alive[q])

-----------------------------------------------------------------------------
(* The contract this transport implements.  A call is published once its   *)
(* payload is whole in the peer's scratch.                                 *)
Pushed(r) ==
  IF host[r] = "input" \/ imm[r] \in {"wait_input", "copy", "copying"}
    THEN Cur(r)
    ELSE g_call[r]
Reduced(r) == qdone[r] \div 2

Contract == INSTANCE AllReduce WITH
  published <- [r \in Rank |-> Pushed(r)],
  finished  <- [r \in Rank |-> Reduced(r)]

(* Every behaviour of the transport is one of the contract: each call sums *)
(* exactly the two inputs given to that call, and a rank obtains the sum   *)
(* only after both were published.                                         *)
ImplementsAllReduce == Contract!Spec
=============================================================================
