--------------------------- MODULE ParkingScheduler ---------------------------
(***************************************************************************)
(* ParkingScheduler of src/vllm/flashnext/kvoffload/parking.py on top of   *)
(* the park index (ParkIndex) and of the CPU pool with the eviction of     *)
(* ConversationCachePolicy (policy.py).                                    *)
(*                                                                         *)
(* One thread calls the operations.  A request asks for a parked tail and  *)
(* loads it, runs, and offers its own tail when it finishes; the tail is   *)
(* stored by the next _build_connector_meta.  Copies run in a worker and   *)
(* are reported later.                                                     *)
(*                                                                         *)
(* vLLM's part is external: which requests come, whether blocks can be     *)
(* allocated, how far the ordinary offload cache hits, when copies end.    *)
(* The request has no prefix on the GPU and no limit on its new tokens,    *)
(* and the pool of GPU blocks is bound before the first request comes.     *)
(* LRU order of the pool is left open: vLLM touches it on every lookup.    *)
(* The content of a chunk is the tokens it was computed from.              *)
(***************************************************************************)
EXTENDS Integers, Sequences, FiniteSets, SequencesExt, FiniteSetsExt

CONSTANTS
  Req,            \* the requests of a behaviour
  prompt, turn,   \* prompt[r], and turn[r]: the prompt with the reply
  slots,          \* conversations the index may hold
  budget_bytes,   \* chunks of the CPU pool
  block_size      \* tokens of a KV block

ASSUME SchedulerAssumption ==
  /\ slots \in Nat \ {0} /\ budget_bytes \in Nat \ {0} /\ block_size \in Nat \ {0}
  /\ IsFiniteSet(Req)
  /\ prompt \in [Req -> Seq(Nat)] /\ turn \in [Req -> Seq(Nat)]
  /\ \A r \in Req : /\ IsStrictPrefix(prompt[r], turn[r])
                    /\ Len(turn[r]) >= block_size /\ Len(turn[r]) > 1

VARIABLES
  rec, by_tail, by_parent, by_conv, entry, running,   \* the park index
  st,             \* st[r]: where request r is in vLLM's scheduler
  _req_conv,      \* the requests whose conversation is noted as running
  _tail_choice,   \* _tail_choice[r]: the key of the tail r wants, or <<>>
  _pending,       \* requests whose tails wait to be stored
  building,       \* where _prepare_pending_tails is, "no" outside of it
  _plans,         \* the tail keys with a load plan
  tail_pins,      \* tail_pins[r]: holds on the GPU blocks of r's tail
  stores, loads,  \* the copies under way: their request and keys
  chunks,         \* the resident chunks of the pool
  bound           \* the keys the policy has bound to their conversation

index == <<rec, by_tail, by_parent, by_conv, entry, running>>
pool == <<chunks, bound>>
vars == <<index, st, _req_conv, _tail_choice, _pending, building, _plans, tail_pins,
          stores, loads, pool>>

Turns == {turn[r] : r \in Req}

Index == INSTANCE ParkIndex WITH Prompts <- {prompt[r] : r \in Req},
                                 MaxStores <- Cardinality(Req), MaxPins <- Cardinality(Req)

conv(r) == Index!conv_id(turn[r])
TailKey(i) == Index!Key(rec[i].turn)

(* The chunks of a key's load plan, which lives as long as its record.     *)
Keys(key) == UNION {Index!new_keys(rec[i].turn) : i \in {j \in by_tail : TailKey(j) = key}}

KeysOfConv(c) == UNION {Index!new_keys(turn[r]) : r \in {s \in Req : conv(s) = c}}

Init ==
  /\ Index!Init
  /\ st = [r \in Req |-> "new"]
  /\ _req_conv = {} /\ _tail_choice = [r \in Req |-> <<>>]
  /\ _pending = <<>> /\ building = "no" /\ _plans = {}
  /\ tail_pins = [r \in Req |-> 0]
  /\ stores = {} /\ loads = {}
  /\ chunks = <<>> /\ bound = {}

-----------------------------------------------------------------------------
(* The CPU pool.  A chunk of a copy under way is not evictable: it is not  *)
(* ready while it is stored, and counted while it is loaded.               *)
Resident == DOMAIN chunks
InUse(k) == ~chunks[k].ready \/ \E j \in loads : k \in j.keys
Evictable(k) == k \in Resident /\ ~InUse(k)
Exchange(gone, new) ==
  [k \in (Resident \ gone) \cup DOMAIN new |-> IF k \in DOMAIN new THEN new[k] ELSE chunks[k]]

ConvChunks(c) == KeysOfConv(c) \cap bound \cap Resident

(* Fault: the chunks of a conversation that are idle are taken alone.      *)
IdleChunksReady(c, protected) == \E k \in ConvChunks(c) : Evictable(k)

(* _conv_ready: a conversation with a protected or a busy chunk is left.   *)
_conv_ready(c, protected) ==
  /\ KeysOfConv(c) \cap bound \cap protected = {}
  /\ ConvChunks(c) # {}
  /\ \A k \in ConvChunks(c) : Evictable(k)

(* Fault: evict promises room it has not made.                             *)
EvictNothing(n, protected) == {{}}

(* evict: the sets of keys that may go to free n chunks: conversations in  *)
(* some order until it is enough, then single chunks that belong to none.  *)
evict(n, protected) ==
  LET ready    == {c \in Index!Convs : _conv_ready(c, protected)}
      taken(S) == {k \in UNION {ConvChunks(c) : c \in S} : Evictable(k)}
      size(S)  == Cardinality(taken(S))
      loose    == {k \in Resident \ (bound \cup protected) : Evictable(k)}
  IN  IF n <= 0 THEN {{}}
      ELSE {taken(S) : S \in {T \in SUBSET ready :
                                size(T) >= n /\ \E c \in T : size(T \ {c}) < n}}
           \cup (IF size(ready) >= n THEN {}
                 ELSE {taken(ready) \cup U : U \in kSubset(n - size(ready), loose)})

(* prepare_store of the upstream manager: resident keys are left alone,    *)
(* room is made for the others.                                            *)
ToStore(ks) == ks \ Resident
Room(ks, protected) ==
  evict(Cardinality(ToStore(ks)) + Cardinality(Resident) - budget_bytes, protected)

-----------------------------------------------------------------------------
(* Fault: requests of one conversation are not counted.                    *)
RunningAfterAny(r) == running \ {conv(r)}

(* _note_running: a conversation runs while any of its requests does.      *)
RunningAfter(r) ==
  IF \E s \in _req_conv \ {r} : conv(s) = conv(r) THEN running ELSE running \ {conv(r)}

(* on_new_request: a prompt shorter than a block has no conversation yet.  *)
on_new_request(r) ==
  /\ building = "no" /\ st[r] = "new"
  /\ st' = [st EXCEPT ![r] = "waiting"]
  /\ IF Len(prompt[r]) >= block_size
     THEN _req_conv' = _req_conv \cup {r} /\ running' = running \cup {conv(r)}
     ELSE UNCHANGED <<_req_conv, running>>
  /\ UNCHANGED <<rec, by_tail, by_parent, by_conv, entry, _tail_choice, _pending, building,
                 _plans, tail_pins, stores, loads, pool>>

(* _release_tail_pin: the pin is given back to the record the key names.   *)
Released(key) ==
  LET held == {i \in by_tail : TailKey(i) = key /\ rec[i].pinned > 0}
  IN  [i \in DOMAIN rec |->
         IF i \in held THEN [rec[i] EXCEPT !.pinned = @ - 1] ELSE rec[i]]

(* _waiting_on_pending compares the tail tokens at their place.            *)
_waiting_on_pending(r) ==
  \E s \in Range(_pending) :
    LET e == Index!end(turn[s])
        p == Len(Index!parent_hash(turn[s]))
    IN  e < Len(prompt[r]) /\ SubSeq(prompt[r], p + 1, e) = SubSeq(turn[s], p + 1, e)

(* Fault: chunks that are still being stored count as a hit.               *)
ResidentIsHit(i) ==
  IF TailKey(i) \notin _plans \/ ~(Keys(TailKey(i)) \subseteq Resident) THEN "miss" ELSE "hit"

_tail_status(i) ==
  IF TailKey(i) \notin _plans \/ ~(Keys(TailKey(i)) \subseteq Resident) THEN "miss"
  ELSE IF \A k \in Keys(TailKey(i)) : chunks[k].ready THEN "hit" ELSE "pending"

(* Upstream hits: whole blocks, the chunks of which are all complete.      *)
UpstreamKeys(r, n) == {Index!full_key(SubSeq(prompt[r], 1, m * block_size)) : m \in 1 .. n}
UpstreamHits(r) ==
  {n * block_size : n \in {m \in 0 .. (Len(prompt[r]) - 1) \div block_size :
     \A k \in UpstreamKeys(r, m) : k \in Resident /\ chunks[k].ready}}

(* What get_num_new_matched_tokens finds beyond an upstream hit of b.      *)
Found(r) == Index!find(prompt[r])
Better(r, b) == Found(r) # 0 /\ Index!end(rec[Found(r)].turn) > b
Hit(r, b) == Better(r, b) /\ _tail_status(Found(r)) = "hit"
Touched(r) ==
  IF Found(r) = 0 THEN by_conv ELSE Index!MoveToEnd(by_conv, Index!conv_id(rec[Found(r)].turn))

(* get_num_new_matched_tokens, for a request that cannot be allocated now  *)
(* or is told to ask again: a tail that hits is pinned for it.             *)
get_num_new_matched_tokens(r, b) ==
  LET i    == Found(r)
      prev == _tail_choice[r]
  IN  /\ building = "no" /\ st[r] = "waiting"
      /\ ~_waiting_on_pending(r)
      /\ by_conv' = Touched(r)
      /\ IF Hit(r, b)
         THEN /\ _tail_choice' = [_tail_choice EXCEPT ![r] = TailKey(i)]
              /\ rec' = IF prev = TailKey(i) THEN rec
                        ELSE [Released(prev) EXCEPT ![i].pinned = @ + 1]
         ELSE UNCHANGED <<_tail_choice, rec>>
      /\ UNCHANGED <<by_tail, by_parent, entry, running, st, _req_conv, _pending, building,
                     _plans, tail_pins, stores, loads, pool>>

(* The tail update_state_after_alloc loads: the one just found, or one     *)
(* chosen in an earlier step that happens to end where upstream hits.      *)
Chosen(r, b) ==
  IF Hit(r, b) THEN TailKey(Found(r))
  ELSE IF b > 0 /\ Len(_tail_choice[r]) = b THEN _tail_choice[r] ELSE <<>>

(* The same followed by update_state_after_alloc in one scheduling step:   *)
(* upstream loads what it hit, or the chosen tail is loaded.  The pin      *)
(* taken or found is given back once the load is prepared.  seen says of a *)
(* load whether this step looked its chunks up.                            *)
update_state_after_alloc(r, b) ==
  /\ building = "no" /\ st[r] = "waiting"
  /\ ~_waiting_on_pending(r)
  /\ Better(r, b) => _tail_status(Found(r)) # "pending"
  /\ by_conv' = Touched(r)
  /\ rec' = Released(_tail_choice[r])
  /\ _tail_choice' = [_tail_choice EXCEPT ![r] = <<>>]
  /\ \/ /\ Chosen(r, b) = <<>> /\ b = 0
        /\ st' = [st EXCEPT ![r] = "running"] /\ UNCHANGED loads
     \/ /\ Chosen(r, b) = <<>> /\ b > 0
        /\ st' = [st EXCEPT ![r] = "loading"]
        /\ loads' = loads \cup {[req |-> r, key |-> <<>>, seen |-> TRUE,
                                keys |-> UpstreamKeys(r, b \div block_size)]}
     \/ /\ Chosen(r, b) # <<>> /\ Chosen(r, b) \in _plans
        /\ st' = [st EXCEPT ![r] = "loading"]
        /\ loads' = loads \cup {[req |-> r, key |-> Chosen(r, b), seen |-> Hit(r, b),
                                keys |-> Keys(Chosen(r, b))]}
     \/ /\ Chosen(r, b) # <<>> /\ Chosen(r, b) \notin _plans
        /\ st' = [st EXCEPT ![r] = "raised"] /\ UNCHANGED loads
  /\ UNCHANGED <<by_tail, by_parent, entry, running, _req_conv, _pending, building, _plans,
                 tail_pins, stores, pool>>

(* A load is reported done.                                                *)
LoadDone(j) ==
  /\ building = "no" /\ j \in loads
  /\ loads' = loads \ {j}
  /\ st' = [st EXCEPT ![j.req] = IF @ = "loading" THEN "running" ELSE @]
  /\ UNCHANGED <<index, _req_conv, _tail_choice, _pending, building, _plans, tail_pins, stores,
                 pool>>

(* The parent stores full blocks of a running request (upstream).          *)
StoreFullBlocks(r) ==
  LET ks == ToStore(Index!full_keys(turn[r]))
  IN  /\ building = "no" /\ st[r] = "running" /\ ks # {}
      /\ \E gone \in Room(ks, ks) :
           /\ chunks' = Exchange(gone, [k \in ks |-> [of |-> k[2], ready |-> TRUE]])
           /\ bound' = bound \ gone
      /\ UNCHANGED <<index, st, _req_conv, _tail_choice, _pending, building, _plans, tail_pins,
                     stores, loads>>

-----------------------------------------------------------------------------
(* Fault: the blocks are not given back.                                   *)
StillPinned(r) == tail_pins

(* _release_pin of the blocks of a tail.                                   *)
_release_pin(r) == [tail_pins EXCEPT ![r] = @ - 1]

(* Fault: the blocks are given back when the job is submitted.             *)
GivenBack(r) == _release_pin(r)

(* _pin_holds keeps them until the job is done.                            *)
HeldUntilDone(r) == tail_pins

(* A request ends: register_tail if it ran and is not skipped (host memory *)
(* floor, tokens in flight), then request_finished.                        *)
request_finished(r, park) ==
  /\ building = "no"
  /\ st[r] = "running" \/ (~park /\ st[r] \in {"waiting", "loading"})
  /\ st' = [st EXCEPT ![r] = "done"]
  /\ _pending' = IF park THEN Append(_pending, r) ELSE _pending
  /\ tail_pins' = [tail_pins EXCEPT ![r] = IF park THEN @ + 1 ELSE @]
  /\ rec' = Released(_tail_choice[r])
  /\ _tail_choice' = [_tail_choice EXCEPT ![r] = <<>>]
  /\ running' = IF r \in _req_conv THEN RunningAfter(r) ELSE running
  /\ _req_conv' = _req_conv \ {r}
  /\ UNCHANGED <<by_tail, by_parent, by_conv, entry, building, _plans, stores, loads, pool>>

(* _prepare_pending_tails takes the tails in turn; nothing else runs until *)
(* it is through.  _prepare_one gives up on a tail whose request status is *)
(* gone, or that does not fit the park ...                                 *)
Advance ==
  /\ _pending' = Tail(_pending)
  /\ building' = IF Len(_pending) = 1 THEN "no" ELSE "next"

PrepareGivesUp ==
  /\ Advance
  /\ tail_pins' = _release_pin(Head(_pending))

PrepareDrops ==
  /\ building \in {"no", "next"} /\ _pending # <<>>
  /\ PrepareGivesUp
  /\ UNCHANGED <<index, st, _req_conv, _tail_choice, _plans, stores, loads, pool>>

(* take_evictable frees idle chunks only.                                  *)
take_evictable(ks) == {k \in ks : Evictable(k)}

(* ... and otherwise stores it in the index, frees what that released, and *)
(* binds its keys ...                                                      *)
PrepareIndexes ==
  LET t     == turn[Head(_pending)]
      freed == take_evictable(Index!released_keys(t))
  IN  /\ building \in {"no", "next"} /\ _pending # <<>>
      /\ Index!store(t)
      /\ chunks' = Exchange(freed, <<>>)
      /\ bound' = (bound \ freed) \cup Index!new_keys(t)
      /\ _plans' = {k \in _plans : \E i \in by_tail' : TailKey(i)' = k} \cup {Index!Key(t)}
      /\ building' = "store"
      /\ UNCHANGED <<st, _req_conv, _tail_choice, _pending, tail_pins, stores, loads>>

(* ... then, if its chunks are already resident, that is all,              *)
PrepareResident ==
  /\ building = "store"
  /\ ToStore(Index!tail_keys(turn[Head(_pending)])) = {}
  /\ PrepareGivesUp
  /\ UNCHANGED <<index, st, _req_conv, _tail_choice, _plans, stores, loads, pool>>

(* if room can be made for them, a job copies them,                        *)
PrepareStores ==
  LET r  == Head(_pending)
      ks == ToStore(Index!tail_keys(turn[r]))
  IN  /\ building = "store" /\ ks # {}
      /\ \E gone \in Room(ks, Index!new_keys(turn[r])) :
           /\ chunks' = Exchange(gone, [k \in ks |-> [of |-> Index!Key(turn[r]), ready |-> FALSE]])
           /\ bound' = bound \ gone
      /\ stores' = stores \cup {[req |-> r, keys |-> ks]}
      /\ Advance
      /\ tail_pins' = HeldUntilDone(r)
      /\ UNCHANGED <<index, st, _req_conv, _tail_choice, _plans, loads>>

(* and if prepare_store returns None for want of room, or raises whatever  *)
(* it may, _abort_tail takes the record and the bindings back.             *)
PrepareAborts ==
  LET t  == turn[Head(_pending)]
      i  == CHOOSE j \in by_tail : TailKey(j) = Index!Key(t)
  IN  /\ building = "store"
      /\ Index!discard(i)
      /\ _plans' = _plans \ {TailKey(i)}
      /\ bound' = bound \ KeysOfConv(Index!conv_id(t))
      /\ PrepareGivesUp
      /\ UNCHANGED <<st, _req_conv, _tail_choice, stores, loads, chunks>>

(* _update_connector_output: the worker has finished a store, or failed    *)
(* it; the blocks are unpinned either way.                                 *)
StoreDone(j) ==
  /\ building = "no" /\ j \in stores
  /\ stores' = stores \ {j}
  /\ tail_pins' = _release_pin(j.req)
  /\ \/ /\ chunks' = Exchange({}, [k \in j.keys |-> [chunks[k] EXCEPT !.ready = TRUE]])
        /\ UNCHANGED bound
     \/ chunks' = Exchange(j.keys, <<>>) /\ bound' = bound \ j.keys
  /\ UNCHANGED <<index, st, _req_conv, _tail_choice, _pending, building, _plans, loads>>

-----------------------------------------------------------------------------
Prepare == \/ PrepareDrops \/ PrepareIndexes \/ PrepareResident
           \/ PrepareStores \/ PrepareAborts

Next ==
  \/ \E r \in Req : \/ on_new_request(r)
                    \/ StoreFullBlocks(r)
                    \/ \E park \in BOOLEAN : request_finished(r, park)
                    \/ \E b \in UpstreamHits(r) : \/ get_num_new_matched_tokens(r, b)
                                                  \/ update_state_after_alloc(r, b)
  \/ Prepare
  \/ \E j \in loads : LoadDone(j)
  \/ \E j \in stores : StoreDone(j)

(* has_pending_push_work keeps the engine stepping while tails are queued, *)
(* and the worker finishes the copies it was given.                        *)
Fairness == WF_vars(Prepare) /\ WF_vars(\E j \in stores : StoreDone(j))

Spec == Init /\ [][Next]_vars
FairSpec == Spec /\ Fairness

-----------------------------------------------------------------------------
TypeOK ==
  /\ Index!TypeOK
  /\ st \in [Req -> {"new", "waiting", "loading", "running", "done", "raised"}]
  /\ _req_conv \subseteq Req
  /\ _tail_choice \in [Req -> {Index!Key(t) : t \in Turns} \cup {<<>>}]
  /\ _pending \in Seq(Req) /\ IsInjective(_pending)
  /\ building \in {"no", "next", "store"}
  /\ tail_pins \in [Req -> {0, 1}]
  /\ bound \subseteq UNION {Index!new_keys(t) : t \in Turns}
  /\ Cardinality(Resident) <= budget_bytes

(* The blocks of a tail are held as long as a copy still reads them, also  *)
(* after the request that owned them is gone.                              *)
CopiedBlocksAreHeld == \A j \in stores : tail_pins[j.req] > 0

(* What get_num_new_matched_tokens found when the load was admitted is     *)
(* there, complete, until the load ends: no store of another request       *)
(* evicts it or releases it under the load.  Only a tail that ends with a  *)
(* block is ever loaded without having been found in the same step.        *)
LoadsReadWhatWasFound ==
  \A j \in loads : j.seen \/ Len(j.key) % block_size # 0 =>
    \A k \in j.keys : k \in Resident /\ chunks[k].ready

(* "A hybrid conversation is invalid if its GDN page is gone and its       *)
(* attention blocks remain": no load reads a chunk that is not there.  The *)
(* code does not have this property: a choice made in an earlier step is   *)
(* loaded without a look at its chunks when upstream hits up to its end.   *)
LoadsReadResidentChunks ==
  \A j \in loads : \A k \in j.keys : k \in Resident /\ chunks[k].ready

(* Making room in the pool takes a conversation's chunks together: one     *)
(* that stays parked and is not the one being stored keeps all of them or  *)
(* loses all of them.                                                      *)
EvictsWholeConversations ==
  [][\A c \in Index!Parked :
       /\ c \in Index!Parked'
       /\ entry'[c] = entry[c]
       /\ \A j \in stores : j \in stores'
       /\ \E k \in ConvChunks(c) : k \notin Resident'
       => ConvChunks(c)' = {}]_vars

(* The store of a tail never makes the park drop a conversation one of     *)
(* whose requests is in flight, whatever other requests of it have ended.  *)
RunningConversationsStay ==
  [][\A r \in _req_conv : conv(r) \in Index!Parked /\ building' = "store"
       => conv(r) \in Index!Parked']_vars

(* A queued tail always gives its blocks back: whether it is stored, found *)
(* resident, refused or failed.                                            *)
TailBlocksReleased == \A r \in Req : tail_pins[r] > 0 ~> tail_pins[r] = 0

(* "A hit requires the tail token ids to match": a load fills the blocks   *)
(* of a request with what was computed from its own prompt.  The code does *)
(* not have this property: the keys of a tail name its conversation and    *)
(* its end, not its tokens.                                                *)
LoadsItsOwnTokens ==
  \A j \in loads : \A k \in j.keys \cap Resident : IsPrefix(chunks[k].of, prompt[j.req])
=============================================================================
