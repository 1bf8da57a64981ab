---------------------------- MODULE PushArExchange ----------------------------
(***************************************************************************)
(* How two tensor-parallel ranks agree to use the push all-reduce:         *)
(* _lazy_init and all_reduce of                                            *)
(* src/vllm/contrib/vllm_push_allreduce/_push_ar_patch.py, with            *)
(* ar_setup_torch and ar_exchange of 118_xpu_push_ar_graph.cpp.            *)
(*                                                                         *)
(* Each rank runs a fixed script of steps over one socket.  A step that    *)
(* fails makes the exchange return a non-zero code, the rank caches        *)
(* _push_ar_ready = False and uses oneCCL from then on.  Only the result   *)
(* of opening the peer's memory handle is exchanged.                       *)
(***************************************************************************)
EXTENDS Integers, Sequences

CONSTANTS
  Faults,          \* steps that may fail in this instance
  OpenAttempts     \* tries of zeMemOpenIpcHandle before giving up (25 in the code)

ASSUME OpenAttemptsAssumption == OpenAttempts \in Nat \ {0}

Rank == {0, 1}
Peer(r) == 1 - r

(* Fault: rank 0 initialises the barrier words after it sent the pool.     *)
LateBarrierScript(r) ==
  IF r = 0
    THEN <<"setup", "bind", "accept", "send_mem", "recv_mem", "open_mem",
           "send_status", "recv_status", "agree", "create_pool",
           "send_pool", "shm", "events">>
    ELSE <<"setup", "connect", "recv_mem", "send_mem", "open_mem",
           "recv_status", "send_status", "agree", "shm", "recv_pool",
           "open_pool", "events">>

Script(r) ==
  IF r = 0
    THEN <<"setup", "bind", "accept", "send_mem", "recv_mem", "open_mem",
           "send_status", "recv_status", "agree", "shm", "create_pool",
           "send_pool", "events">>
    ELSE <<"setup", "connect", "recv_mem", "send_mem", "open_mem",
           "recv_status", "send_status", "agree", "shm", "recv_pool",
           "open_pool", "events">>

ScriptSteps == {Script(0)[k] : k \in DOMAIN Script(0)}
               \cup {Script(1)[k] : k \in DOMAIN Script(1)}
ASSUME FaultsAssumption == Faults \subseteq ScriptSteps \ {"accept", "agree"}

After(r, s) ==
  LET k == CHOOSE k \in DOMAIN Script(r) : Script(r)[k] = s
  IN  IF k = Len(Script(r)) THEN "engaged" ELSE Script(r)[k + 1]

(* What all_reduce asks of a tensor.  Both ranks reduce tensors of the     *)
(* same shape in the same order.                                           *)
Tensors == [fits : BOOLEAN, capturing : BOOLEAN, big : BOOLEAN]

VARIABLES
  at,           \* at[r]: the step rank r is at, or how its exchange ended
  socket,       \* socket[r]: messages on their way to rank r
  tries,        \* tries[r]: failed attempts to open the peer's handle
  opened,       \* opened[r]: g_peerScratch is mapped
  peer_open,    \* peer_open[r]: the peer's status was 0
  status_io,    \* status_io[r]: sending or receiving the status failed
  bar,          \* the barrier words in shared memory have been initialised
  tensor,       \* the tensor both ranks reduce first
  transport     \* transport[r]: the collective rank r has entered with it

vars == <<at, socket, tries, opened, peer_open, status_io, bar, tensor, transport>>

Init ==
  /\ at = [r \in Rank |-> "setup"]
  /\ socket = [r \in Rank |-> <<>>]
  /\ tries = [r \in Rank |-> 0]
  /\ opened = [r \in Rank |-> FALSE]
  /\ peer_open = [r \in Rank |-> FALSE]
  /\ status_io = [r \in Rank |-> FALSE]
  /\ bar = FALSE
  /\ tensor \in Tensors
  /\ transport = [r \in Rank |-> "none"]

Advance(r) == at' = [at EXCEPT ![r] = After(r, @)]

-----------------------------------------------------------------------------
(* all_reduce starts the exchange only for a tensor that could use it.     *)
Setup(r) ==
  /\ at[r] = "setup"
  /\ tensor.fits
  /\ Advance(r)
  /\ UNCHANGED <<socket, tries, opened, peer_open, status_io, bar, tensor, transport>>

Local(r) ==
  /\ at[r] \in {"bind", "create_pool", "open_pool", "events"}
  /\ Advance(r)
  /\ UNCHANGED <<socket, tries, opened, peer_open, status_io, bar, tensor, transport>>

Connect(r) ==
  /\ at[r] = "connect"
  /\ at[Peer(r)] = "accept"
  /\ Advance(r)
  /\ UNCHANGED <<socket, tries, opened, peer_open, status_io, bar, tensor, transport>>

Accept(r) ==
  /\ at[r] = "accept"
  /\ at[Peer(r)] \notin {"setup", "connect", "no_peer"}
  /\ Advance(r)
  /\ UNCHANGED <<socket, tries, opened, peer_open, status_io, bar, tensor, transport>>

(* A handle carries nothing the model reads; a status says whether the     *)
(* sender opened its peer's memory.                                        *)
Message(r) == IF at[r] = "send_status" THEN opened[r] ELSE TRUE

Send(r) ==
  /\ at[r] \in {"send_mem", "send_status", "send_pool"}
  /\ socket' = [socket EXCEPT ![Peer(r)] = Append(@, Message(r))]
  /\ Advance(r)
  /\ UNCHANGED <<tries, opened, peer_open, status_io, bar, tensor, transport>>

Recv(r) ==
  /\ at[r] \in {"recv_mem", "recv_status", "recv_pool"}
  /\ socket[r] # <<>>
  /\ socket' = [socket EXCEPT ![r] = Tail(@)]
  /\ peer_open' = IF at[r] = "recv_status"
                    THEN [peer_open EXCEPT ![r] = Head(socket[r])]
                    ELSE peer_open
  /\ Advance(r)
  /\ UNCHANGED <<tries, opened, status_io, bar, tensor, transport>>

(* Fault: one attempt too many.                                            *)
OpenMemOnceMore(r) ==
  /\ at[r] = "open_mem"
  /\ \/ /\ opened' = [opened EXCEPT ![r] = TRUE]
        /\ Advance(r)
        /\ UNCHANGED tries
     \/ /\ "open_mem" \in Faults
        /\ tries' = [tries EXCEPT ![r] = @ + 1]
        /\ IF tries[r] = OpenAttempts THEN Advance(r) ELSE UNCHANGED at
        /\ UNCHANGED opened
  /\ UNCHANGED <<socket, peer_open, status_io, bar, tensor, transport>>

(* Fault: the last failure returns at once, without telling the peer.      *)
OpenMemSilent(r) ==
  /\ at[r] = "open_mem"
  /\ \/ /\ opened' = [opened EXCEPT ![r] = TRUE]
        /\ Advance(r)
        /\ UNCHANGED tries
     \/ /\ "open_mem" \in Faults
        /\ tries' = [tries EXCEPT ![r] = OpenAttempts]
        /\ at' = [at EXCEPT ![r] = "declined"]
        /\ UNCHANGED opened
  /\ UNCHANGED <<socket, peer_open, status_io, bar, tensor, transport>>

(* zeMemOpenIpcHandle is retried; after the last failure the rank goes on  *)
(* to report it.                                                           *)
OpenMem(r) ==
  /\ at[r] = "open_mem"
  /\ \/ /\ opened' = [opened EXCEPT ![r] = TRUE]
        /\ Advance(r)
        /\ UNCHANGED tries
     \/ /\ "open_mem" \in Faults
        /\ tries' = [tries EXCEPT ![r] = @ + 1]
        /\ IF tries[r] + 1 = OpenAttempts THEN Advance(r) ELSE UNCHANGED at
        /\ UNCHANGED opened
  /\ UNCHANGED <<socket, peer_open, status_io, bar, tensor, transport>>

(* status_io |= ...: a failed send or receive of the status is only looked *)
(* at after both were tried.                                               *)
StatusFails(r) ==
  /\ at[r] \in {"send_status", "recv_status"} \cap Faults
  /\ status_io' = [status_io EXCEPT ![r] = TRUE]
  /\ Advance(r)
  /\ UNCHANGED <<socket, tries, opened, peer_open, bar, tensor, transport>>

(* Fault: the peer's status is not looked at.                              *)
AgreeAlone(r) ==
  /\ at[r] = "agree"
  /\ at' = [at EXCEPT ![r] = IF opened[r] THEN After(r, @) ELSE "declined"]
  /\ UNCHANGED <<socket, tries, opened, peer_open, status_io, bar, tensor, transport>>

(* Both opened: go on.  Otherwise close what was opened and return 14.     *)
Agree(r) ==
  /\ at[r] = "agree"
  /\ \/ /\ status_io[r]
        /\ at' = [at EXCEPT ![r] = "failed"]
        /\ UNCHANGED opened
     \/ /\ ~status_io[r] /\ opened[r] /\ peer_open[r]
        /\ Advance(r)
        /\ UNCHANGED opened
     \/ /\ ~status_io[r] /\ ~(opened[r] /\ peer_open[r])
        /\ at' = [at EXCEPT ![r] = "declined"]
        /\ opened' = [opened EXCEPT ![r] = FALSE]
  /\ UNCHANGED <<socket, tries, peer_open, status_io, bar, tensor, transport>>

(* The shared-memory barrier; rank 0 sets count and sense to zero.         *)
Shm(r) ==
  /\ at[r] = "shm"
  /\ bar' = (bar \/ r = 0)
  /\ Advance(r)
  /\ UNCHANGED <<socket, tries, opened, peer_open, status_io, tensor, transport>>

(* Any other step that fails returns its error code at once, connect after *)
(* 2000 tries.  The socket stays open, so the peer is not told.            *)
Fail(r) ==
  /\ at[r] \in Faults \ {"open_mem", "send_status", "recv_status"}
  /\ at[r] = "setup" => tensor.fits
  /\ at' = [at EXCEPT ![r] = IF @ \in {"setup", "connect"} THEN "no_peer" ELSE "failed"]
  /\ UNCHANGED <<socket, tries, opened, peer_open, status_io, bar, tensor, transport>>

(* How an exchange that did not engage has ended: without ever reaching    *)
(* the peer, with an error, or by agreement with the peer.                 *)
Fallback == {"no_peer", "failed", "declined"}

-----------------------------------------------------------------------------
(* _push_ar_ready, once _lazy_init has returned.                           *)
Ready(r) == at[r] = "engaged"
Decided(r) == at[r] \in {"engaged"} \cup Fallback

(* all_reduce: the collective rank r enters.                               *)
Route(r) ==
  IF tensor.fits /\ Ready(r)
    THEN IF tensor.capturing THEN "graph"
         ELSE IF tensor.big THEN "push" ELSE "ccl"
    ELSE "ccl"

(* Fault: a call made while the exchange runs does not wait for it.        *)
CallUndecided(r) ==
  /\ transport[r] = "none"
  /\ transport' = [transport EXCEPT ![r] = Route(r)]
  /\ UNCHANGED <<at, socket, tries, opened, peer_open, status_io, bar, tensor>>

AllReduceCall(r) ==
  /\ transport[r] = "none"
  /\ tensor.fits => Decided(r)
  /\ transport' = [transport EXCEPT ![r] = Route(r)]
  /\ UNCHANGED <<at, socket, tries, opened, peer_open, status_io, bar, tensor>>

-----------------------------------------------------------------------------
Step(r) == \/ Setup(r) \/ Local(r) \/ Connect(r) \/ Accept(r) \/ Send(r) \/ Recv(r)
           \/ OpenMem(r) \/ StatusFails(r) \/ Agree(r) \/ Shm(r) \/ Fail(r)
           \/ AllReduceCall(r)

Next == \E r \in Rank : Step(r)

(* A rank keeps executing the straight-line code of its exchange.          *)
Fairness == \A r \in Rank : WF_vars(Step(r))

Spec == Init /\ [][Next]_vars
FairSpec == Spec /\ Fairness

-----------------------------------------------------------------------------
TypeOK ==
  /\ at \in [Rank -> ScriptSteps \cup {"engaged"} \cup Fallback]
  /\ \A r \in Rank : socket[r] \in Seq(BOOLEAN)
  /\ tries \in [Rank -> 0 .. OpenAttempts]
  /\ opened \in [Rank -> BOOLEAN]
  /\ peer_open \in [Rank -> BOOLEAN]
  /\ status_io \in [Rank -> BOOLEAN]
  /\ bar \in BOOLEAN
  /\ tensor \in Tensors
  /\ transport \in [Rank -> {"none", "push", "graph", "ccl"}]

(* One rank never engages the push all-reduce while its peer falls back to *)
(* oneCCL, which would leave each waiting for the other in a different     *)
(* collective for ever.                                                    *)
EngagedTogether ==
  \A r \in Rank : at[r] = "engaged" => at[Peer(r)] \notin Fallback

(* Both ranks enter the same collective with the same tensor.              *)
SameTransport ==
  \A r \in Rank :
    transport[r] # "none" /\ transport[Peer(r)] # "none"
      => transport[r] = transport[Peer(r)]

(* A rank that enters the host-barrier collective finds the barrier words  *)
(* initialised: rank 0 sets them before it sends the pool handle that      *)
(* rank 1 waits for.                                                       *)
BarrierReadyBeforeUse ==
  \A r \in Rank : transport[r] = "push" => bar

(* Every rank gets past its first all_reduce, engaged or not, unless a     *)
(* step other than opening the handle failed: a refused memory handle      *)
(* alone never leaves a rank waiting on the socket.                        *)
EveryRankDecides ==
  \A r \in Rank :
    <>\/ transport[r] # "none"
      \/ \E q \in Rank : at[q] \in {"no_peer", "failed"} \/ status_io[q]
=============================================================================
