------------------------------ MODULE AllReduce ------------------------------
(***************************************************************************)
(* What a two-rank SUM all-reduce promises its callers, whatever transport *)
(* carries it (oneCCL, or one of the push transports of                    *)
(* src/vllm/contrib/vllm_push_allreduce).                                  *)
(*                                                                         *)
(* The k-th call of one rank is matched with the k-th call of every other  *)
(* rank.  A payload is abstracted to the number of the call it was         *)
(* published for: a call is correct exactly when every contribution it     *)
(* sums carries its own number.                                            *)
(***************************************************************************)
EXTENDS Integers

CONSTANT Rank          \* the ranks of the tensor-parallel group

VARIABLES
  published,           \* published[r]: calls whose input rank r has handed to its peers
  finished,            \* finished[r]: calls whose result is in rank r's tensor
  summed               \* summed[r][q]: the call that q's term of r's last result belongs to

vars == <<published, finished, summed>>

None == -1             \* no call yet

Init ==
  /\ published = [r \in Rank |-> 0]
  /\ finished  = [r \in Rank |-> 0]
  /\ summed    = [r \in Rank |-> [q \in Rank |-> None]]

(* A rank hands over the input of its next call once its last call is over. *)
Publish(r) ==
  /\ published[r] = finished[r]
  /\ published' = [published EXCEPT ![r] = @ + 1]
  /\ UNCHANGED <<finished, summed>>

(* A rank obtains the sum of the inputs that every rank gave to this call. *)
Finish(r) ==
  /\ \A q \in Rank : published[q] > finished[r]
  /\ finished' = [finished EXCEPT ![r] = @ + 1]
  /\ summed' = [summed EXCEPT ![r] = [q \in Rank |-> finished[r]]]
  /\ UNCHANGED published

Next == \E r \in Rank : Publish(r) \/ Finish(r)

Spec == Init /\ [][Next]_vars
=============================================================================
