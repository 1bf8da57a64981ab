---------------------------- MODULE EagerExchange ----------------------------
(***************************************************************************)
(* ar_ea_exchange of 119_xpu_push_ar_eager_async.cpp in front of the       *)
(* all-reduces of EagerAllReduce: how the two ranks connect, trade the     *)
(* scratch handles and the event pool, and create the cross-card events.   *)
(* _lazy_init_async of _push_ar_patch.py runs it inside the first gather,  *)
(* so a rank whose exchange returns 0 goes straight on to its first call.  *)
(*                                                                         *)
(* Each rank creates a handle for every event of the shared pool and       *)
(* resets it from the host, one slot after the other.  Nothing makes the   *)
(* ranks wait for each other between that and their first call.            *)
(***************************************************************************)
EXTENDS EagerAllReduce, Sequences

VARIABLES
  at,        \* at[r]: the step of ar_ea_exchange rank r is at
  socket,    \* socket[r]: the messages on their way to rank r
  made       \* made[r]: slots whose two events rank r has created and reset

xvars == <<at, socket, made>>

(* The steps of ar_ea_exchange, in the order each rank takes them.         *)
Steps(r) ==
  IF r = 0
    THEN <<"bind", "accept", "send_mem", "recv_mem", "open_mem", "create_pool",
           "send_pool", "events">>
    ELSE <<"connect", "recv_mem", "send_mem", "open_mem", "recv_pool",
           "open_pool", "events">>

StepNames == {Steps(r)[k] : r \in Rank, k \in 1 .. 7} \cup {"events"}

(* The step that follows step s of rank r.                                 *)
After(r, s) ==
  LET k == CHOOSE k \in DOMAIN Steps(r) : Steps(r)[k] = s
  IN  IF k = Len(Steps(r)) THEN "ready" ELSE Steps(r)[k + 1]

Advance(r) == at' = [at EXCEPT ![r] = After(r, at[r])]

ExchangeInit ==
  /\ Init
  /\ at = [r \in Rank |-> Steps(r)[1]]
  /\ socket = [r \in Rank |-> <<>>]
  /\ made = [r \in Rank |-> 0]

-----------------------------------------------------------------------------
Local(r) ==
  /\ at[r] \in {"bind", "open_mem", "create_pool", "open_pool"}
  /\ Advance(r)
  /\ UNCHANGED <<socket, made, vars>>

(* accept returns once rank 1 has connected; a connect succeeds once       *)
(* rank 0 listens.                                                         *)
Accept(r) ==
  /\ at[r] = "accept"
  /\ at[Peer(r)] \notin {"connect", "no_peer"}
  /\ Advance(r)
  /\ UNCHANGED <<socket, made, vars>>

Connect(r) ==
  /\ at[r] = "connect"
  /\ at[Peer(r)] = "accept"
  /\ Advance(r)
  /\ UNCHANGED <<socket, made, vars>>

Send(r) ==
  /\ at[r] \in {"send_mem", "send_pool"}
  /\ socket' = [socket EXCEPT ![Peer(r)] = Append(@, at[r])]
  /\ Advance(r)
  /\ UNCHANGED <<made, vars>>

Recv(r) ==
  /\ at[r] \in {"recv_mem", "recv_pool"}
  /\ socket[r] # <<>>
  /\ socket' = [socket EXCEPT ![r] = Tail(@)]
  /\ Advance(r)
  /\ UNCHANGED <<made, vars>>

(* zeEventCreate and zeEventHostReset of both events of the next slot.     *)
CreateEvents(r) ==
  /\ at[r] = "events"
  /\ made' = [made EXCEPT ![r] = @ + 1]
  /\ ev' = [q \in Rank |-> [ev[q] EXCEPT ![made[r]] = FALSE]]
  /\ IF made[r] + 1 = Ring THEN Advance(r) ELSE UNCHANGED at
  /\ UNCHANGED <<socket, g_call, hostwait, host, imm, g_done, scratch, qsub,
                 qdone, reducing, summed, alive>>

(* A step returns an error code, connect after 2000 tries: the rank stays  *)
(* on its other transports and leaves the socket open behind it.           *)
Fail(r) ==
  /\ at[r] \in StepNames \ {"accept"}
  /\ at' = [at EXCEPT ![r] = IF @ = "connect" THEN "no_peer" ELSE "failed"]
  /\ UNCHANGED <<socket, made, vars>>

Exchange(r) ==
  Local(r) \/ Accept(r) \/ Connect(r) \/ Send(r) \/ Recv(r) \/ CreateEvents(r) \/ Fail(r)

Call(r) == at[r] = "ready" /\ Step(r) /\ UNCHANGED xvars

ExchangeNext == \E r \in Rank : Exchange(r) \/ Call(r)

ExchangeSpec == ExchangeInit /\ [][ExchangeNext]_<<vars, xvars>>
=============================================================================
