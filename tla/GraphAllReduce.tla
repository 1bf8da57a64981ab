---------------------------- MODULE GraphAllReduce ----------------------------
(***************************************************************************)
(* The capturable push all-reduce, do_ar_graph of                          *)
(* src/vllm/contrib/vllm_push_allreduce/118_xpu_push_ar_graph.cpp, as the  *)
(* replayed decode graphs run it.                                          *)
(*                                                                         *)
(* On each rank's in-order stream a call is                                *)
(*    push -> peer scratch ; signal mine ; wait peer ; reset peer ;        *)
(*    reduce                                                               *)
(* and the next one, of the same graph or of the next replay, follows      *)
(* without the host.  Each rank has one scratch buffer and one event.      *)
(* Payloads are call numbers, as in EagerAllReduce.                        *)
(***************************************************************************)
EXTENDS Integers

CONSTANT MaxCalls     \* bound: the calls a rank's stream executes

Rank == {0, 1}
Peer(r) == 1 - r
None == -1

VARIABLES
  calls,       \* calls[r]: calls rank r's stream has begun
  pc,          \* the next (or running) command of the call
  ev,          \* ev[r]: the event rank r signals
  scratch,     \* scratch[r]: the payload in rank r's scratch
  summed       \* summed[r][q]: the payload of q in r's last result

vars == <<calls, pc, ev, scratch, summed>>

Cur(r) == calls[r] - 1

Init ==
  /\ calls = [r \in Rank |-> 0]
  /\ pc = [r \in Rank |-> "idle"]
  /\ ev = [r \in Rank |-> FALSE]
  /\ scratch = [r \in Rank |-> None]
  /\ summed = [r \in Rank |-> [q \in Rank |-> None]]

-----------------------------------------------------------------------------
PushBegin(r) ==
  /\ pc[r] = "idle"
  /\ calls[r] < MaxCalls
  /\ calls' = [calls EXCEPT ![r] = @ + 1]
  /\ pc' = [pc EXCEPT ![r] = "pushing"]
  /\ scratch' = [scratch EXCEPT ![Peer(r)] = None]
  /\ UNCHANGED <<ev, summed>>

PushEnd(r) ==
  /\ pc[r] = "pushing"
  /\ pc' = [pc EXCEPT ![r] = "signal"]
  /\ scratch' = [scratch EXCEPT ![Peer(r)] = Cur(r)]
  /\ UNCHANGED <<calls, ev, summed>>

Signal(r) ==
  /\ pc[r] = "signal"
  /\ pc' = [pc EXCEPT ![r] = "wait"]
  /\ ev' = [ev EXCEPT ![r] = TRUE]
  /\ UNCHANGED <<calls, scratch, summed>>

WaitPeer(r) ==
  /\ pc[r] = "wait"
  /\ ev[Peer(r)]
  /\ pc' = [pc EXCEPT ![r] = "reset"]
  /\ UNCHANGED <<calls, ev, scratch, summed>>

(* consumer-reset for next replay                                          *)
Reset(r) ==
  /\ pc[r] = "reset"
  /\ pc' = [pc EXCEPT ![r] = "reduce"]
  /\ ev' = [ev EXCEPT ![Peer(r)] = FALSE]
  /\ UNCHANGED <<calls, scratch, summed>>

ReduceBegin(r) ==
  /\ pc[r] = "reduce"
  /\ pc' = [pc EXCEPT ![r] = "reducing"]
  /\ UNCHANGED <<calls, ev, scratch, summed>>

ReduceEnd(r) ==
  /\ pc[r] = "reducing"
  /\ pc' = [pc EXCEPT ![r] = "idle"]
  /\ summed' = [summed EXCEPT ![r] =
                  [q \in Rank |-> IF q = r THEN Cur(r) ELSE scratch[r]]]
  /\ UNCHANGED <<calls, ev, scratch>>

Next ==
  \E r \in Rank : \/ PushBegin(r) \/ PushEnd(r) \/ Signal(r) \/ WaitPeer(r)
                  \/ Reset(r) \/ ReduceBegin(r) \/ ReduceEnd(r)

Spec == Init /\ [][Next]_vars

-----------------------------------------------------------------------------
(* Signals rank r has issued.                                              *)
Signalled(r) == IF pc[r] \in {"pushing", "signal"} THEN Cur(r) ELSE calls[r]

(* The consumer reset is race-free: a rank that waits for a signal its     *)
(* peer has already issued finds the event set.                            *)
NoSignalLost ==
  \A r \in Rank :
    (pc[r] = "wait" /\ Signalled(Peer(r)) >= calls[r]) => ev[Peer(r)]
=============================================================================
