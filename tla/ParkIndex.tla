------------------------------ MODULE ParkIndex ------------------------------
(***************************************************************************)
(* The exact-tail conversation index of                                    *)
(* src/vllm/flashnext/kvoffload/index.py, fed as ParkingScheduler of       *)
(* parking.py feeds it.                                                    *)
(*                                                                         *)
(* A turn is the whole token sequence of a finished request.  Its last     *)
(* token was sampled and never fed, so the turn parks all tokens but that  *)
(* one.  A block hash covers every token up to the end of its block, so it *)
(* is modelled by that prefix; the conversation of a turn is its first     *)
(* block.  A record is a turn with a pin count, and is named by its place  *)
(* in rec: the code compares records by identity.  The OrderedDict by_conv *)
(* is its keys with their order, and a sum over entries or records is the  *)
(* number of pairs it counts.                                              *)
(*                                                                         *)
(* A store that raises ValueError changes nothing and is not an action.    *)
(***************************************************************************)
EXTENDS Integers, Sequences, FiniteSets, SequencesExt, FiniteSetsExt

CONSTANTS
  Turns,          \* the turns that may be parked
  Prompts,        \* the prompts that may be looked up
  slots,          \* conversations the index may hold
  budget_bytes,   \* chunks of the CPU pool
  block_size,     \* tokens of a KV block
  MaxStores,      \* bound: stores in one behaviour
  MaxPins         \* bound: pins held on one record at once

ASSUME IndexAssumption ==
  /\ slots \in Nat \ {0} /\ budget_bytes \in Nat \ {0} /\ block_size \in Nat \ {0}
  /\ MaxStores \in Nat /\ MaxPins \in Nat
  /\ Turns \subseteq Seq(Nat) /\ Prompts \subseteq Seq(Nat)
  /\ \A t \in Turns : Len(t) >= block_size /\ Len(t) > 1

VARIABLES
  rec,            \* every TailRecord made, in order
  by_tail,        \* the records by_tail maps their keys to
  by_parent,      \* the records in the buckets of by_parent
  by_conv,        \* by_conv[c]: the conversations used less recently than a parked c
  entry,          \* entry[c]: the ConversationEntry of a parked conversation
  running         \* _running

vars == <<rec, by_tail, by_parent, by_conv, entry, running>>

-----------------------------------------------------------------------------
(* What _build_pending derives from a finished request.                    *)
conv_id(t) == SubSeq(t, 1, block_size)
Convs == {conv_id(t) : t \in Turns}

(* The key (parent_hash, tail_ids) of a turn identifies its parked tokens. *)
Key(t) == SubSeq(t, 1, Len(t) - 1)
end(t) == Len(t) - 1
parent_hash(t) == SubSeq(t, 1, (end(t) \div block_size) * block_size)

full_key(prefix) == <<"full", prefix>>

full_keys(t) == {full_key(SubSeq(t, 1, k * block_size)) : k \in 1 .. end(t) \div block_size}

(* The recurrent state, and the partial attention block if there is one.   *)
tail_keys(t) ==
  {<<kind, conv_id(t), end(t)>> :
     kind \in IF end(t) % block_size = 0 THEN {"gdn"} ELSE {"gdn", "attn"}}

new_keys(t) == full_keys(t) \cup tail_keys(t)
nbytes(t) == Cardinality(new_keys(t))

-----------------------------------------------------------------------------
Parked == DOMAIN by_conv

(* Fault: a conversation that is touched again also keeps its old place.   *)
AppendAgain(s, c) == [d \in DOMAIN s \cup {c} |-> IF d = c THEN DOMAIN s ELSE s[d]]

MoveToEnd(s, c) ==
  [d \in DOMAIN s \cup {c} |-> IF d = c THEN DOMAIN s \ {c} ELSE s[d] \ {c}]

Without(s, cs) == [d \in DOMAIN s \ cs |-> s[d] \ cs]

used_bytes(cs) == Cardinality(UNION {{c} \X (1 .. entry[c].nbytes) : c \in cs})

(* ConversationEntry.pinned, which also counts superseded records.         *)
pinned(c) == \E i \in entry[c].records : rec[i].pinned > 0

(* Fault: pins are not looked at.                                          *)
OnlyRunning(c) == c \in running

(* _plan_victims passes over these.                                        *)
Protected(c) == c \in running \/ pinned(c)

(* The conversations _plan_victims may choose.                             *)
Candidates(incoming) == {c \in Parked \ {incoming} : ~Protected(c)}

(* Fault: the incoming conversation is not counted.                        *)
FitsOthers(t, dropped) ==
  LET others == (Parked \ {conv_id(t)}) \ dropped
  IN  /\ Cardinality(others) <= slots
      /\ used_bytes(others) + nbytes(t) <= budget_bytes

(* Dropping these conversations makes room for the incoming turn.          *)
Fits(t, dropped) ==
  LET others == (Parked \ {conv_id(t)}) \ dropped
  IN  /\ Cardinality(others) + 1 <= slots
      /\ used_bytes(others) + nbytes(t) <= budget_bytes

(* Fault: the most recently used conversation goes first.                  *)
NewestFirst(t) ==
  LET cands == Candidates(conv_id(t))
  IN  {c \in cands : ~Fits(t, {d \in cands : c \in by_conv[d]})}

(* The loop takes candidates from the old end until the turn fits: one is  *)
(* chosen when dropping the older ones was not enough.                     *)
_plan_victims(t) ==
  LET cands == Candidates(conv_id(t))
  IN  {c \in cands : ~Fits(t, cands \cap by_conv[c])}

(* Fault: the keys of a superseded tail are forgotten.                     *)
VictimKeys(t) == UNION {entry[v].full_keys : v \in _plan_victims(t)}

(* StoreResult.released_keys: what the victims owned, and what the older   *)
(* record of the conversation owned and the new chain does not.            *)
released_keys(t) ==
  (UNION {entry[v].full_keys : v \in _plan_victims(t)})
    \cup (UNION {entry[c].full_keys \ new_keys(t) : c \in {conv_id(t)} \cap Parked})

(* The checks of store that raise ValueError, _check_tail's included.  The *)
(* others hold of every turn.                                              *)
Admitted(t) ==
  /\ nbytes(t) <= budget_bytes
  /\ \A i \in by_tail : Key(rec[i].turn) = Key(t) => conv_id(rec[i].turn) = conv_id(t)
  /\ Fits(t, Candidates(conv_id(t)))

(* _unlink_record for each record of R: by_tail loses whatever record the  *)
(* key maps to, by_parent loses the record itself.                         *)
TailsWithout(R) == {i \in by_tail : \A j \in R : Key(rec[i].turn) # Key(rec[j].turn)}

(* Fault: the bucket keeps the record.                                     *)
ParentsWith(R) == by_parent

ParentsWithout(R) == by_parent \ R

-----------------------------------------------------------------------------
Init ==
  /\ rec = <<>>
  /\ by_tail = {} /\ by_parent = {}
  /\ by_conv = <<>>
  /\ entry = <<>>
  /\ running = {}

(* store: evict, then supersede the conversation's older record.  Older    *)
(* records are unlinked but stay in entry.records.                         *)
store(t) ==
  LET c       == conv_id(t)
      victims == _plan_victims(t)
      old     == IF c \in Parked THEN entry[c].records ELSE {}
      gone    == old \cup UNION {entry[v].records : v \in victims}
      new     == Len(rec) + 1
  IN  /\ Len(rec) < MaxStores
      /\ Admitted(t)
      /\ rec' = Append(rec, [turn |-> t, pinned |-> 0])
      /\ by_conv' = MoveToEnd(Without(by_conv, victims), c)
      /\ entry' = [d \in (Parked \ victims) \cup {c} |->
                     IF d = c THEN [records   |-> old \cup {new},
                                    full_keys |-> new_keys(t),
                                    nbytes    |-> nbytes(t)]
                              ELSE entry[d]]
      /\ by_tail' = TailsWithout(gone) \cup {new}
      /\ by_parent' = ParentsWithout(gone) \cup {new}
      /\ running' = running \ victims

(* discard: a store that did not reach host RAM is taken back.  What is    *)
(* left of the conversation is recomputed from entry.records.              *)
discard(i) ==
  LET c    == conv_id(rec[i].turn)
      left == entry[c].records \ {i}
  IN  /\ i \in by_tail
      /\ rec[i].pinned = 0
      /\ by_tail' = TailsWithout({i})
      /\ by_parent' = ParentsWithout({i})
      /\ by_conv' = IF left = {} THEN Without(by_conv, {c}) ELSE by_conv
      /\ entry' = [d \in Parked' |->
                     IF d = c THEN [records   |-> left,
                                    full_keys |-> UNION {new_keys(rec[j].turn) : j \in left},
                                    nbytes    |-> Cardinality(UNION {{j} \X new_keys(rec[j].turn) : j \in left})]
                              ELSE entry[d]]
      /\ UNCHANGED <<rec, running>>

-----------------------------------------------------------------------------
(* Fault: a tail that covers the whole prompt is a hit.                    *)
MatchesWhole(p, k) ==
  {i \in by_parent :
     /\ parent_hash(rec[i].turn) = SubSeq(p, 1, k * block_size)
     /\ end(rec[i].turn) <= Len(p)
     /\ Key(rec[i].turn) = SubSeq(p, 1, end(rec[i].turn))}

(* find: records after k full blocks of the prompt, k from the last down   *)
(* to 0, stopping at the first k with a match.                             *)
Matches(p, k) ==
  {i \in by_parent :
     /\ parent_hash(rec[i].turn) = SubSeq(p, 1, k * block_size)
     /\ end(rec[i].turn) < Len(p)
     /\ Key(rec[i].turn) = SubSeq(p, 1, end(rec[i].turn))}

find(p) ==
  LET ks   == {k \in 0 .. Len(p) \div block_size : Matches(p, k) # {}}
      hits == Matches(p, Max(ks))
      far  == Max({end(rec[i].turn) : i \in hits})
  IN  IF ks = {} THEN 0 ELSE Min({i \in hits : end(rec[i].turn) = far})

(* find moves the conversation it hits to the recent end.                  *)
Find(p) ==
  /\ find(p) # 0
  /\ by_conv' = MoveToEnd(by_conv, conv_id(rec[find(p)].turn))
  /\ UNCHANGED <<rec, by_tail, by_parent, entry, running>>

(* get_num_new_matched_tokens pins the record it is going to load.         *)
FindAndPin(p) ==
  LET i == find(p)
  IN  /\ i # 0
      /\ rec[i].pinned < MaxPins
      /\ rec' = [rec EXCEPT ![i].pinned = @ + 1]
      /\ by_conv' = MoveToEnd(by_conv, conv_id(rec[i].turn))
      /\ UNCHANGED <<by_tail, by_parent, entry, running>>

lookup_key(i) ==
  /\ i \in by_tail
  /\ \E p \in Prompts : end(rec[i].turn) < Len(p)
  /\ by_conv' = MoveToEnd(by_conv, conv_id(rec[i].turn))
  /\ UNCHANGED <<rec, by_tail, by_parent, entry, running>>

unpin(i) ==
  /\ rec[i].pinned > 0
  /\ rec' = [rec EXCEPT ![i].pinned = @ - 1]
  /\ UNCHANGED <<by_tail, by_parent, by_conv, entry, running>>

set_running(c) ==
  /\ running' = IF c \in running THEN running \ {c} ELSE running \cup {c}
  /\ UNCHANGED <<rec, by_tail, by_parent, by_conv, entry>>

Next ==
  \/ \E t \in Turns : store(t)
  \/ \E i \in DOMAIN rec : discard(i) \/ unpin(i) \/ lookup_key(i)
  \/ \E p \in Prompts : Find(p) \/ FindAndPin(p)
  \/ \E c \in Convs : set_running(c)

Spec == Init /\ [][Next]_vars

-----------------------------------------------------------------------------
TypeOK ==
  /\ rec \in Seq([turn : Turns, pinned : Nat])
  /\ by_tail \subseteq DOMAIN rec /\ by_parent \subseteq DOMAIN rec
  /\ Parked \subseteq Convs /\ by_conv \in [Parked -> SUBSET Parked]
  /\ \A c, d \in Parked : c \in by_conv[d] <=> c # d /\ d \notin by_conv[c]
  /\ \A c, d \in Parked : c \in by_conv[d] => by_conv[c] \subseteq by_conv[d]
  /\ DOMAIN entry = Parked
  /\ \A c \in Parked : /\ entry[c].records \subseteq DOMAIN rec
                        /\ entry[c].nbytes \in Nat
  /\ running \subseteq Convs

Stored == Len(rec') > Len(rec)
Owned == UNION {entry[c].full_keys : c \in Parked}

(* A store ends with at most slots conversations under the byte budget,    *)
(* whatever earlier stores, discards and refusals left behind.             *)
StoreMakesRoom ==
  [][Stored => /\ Cardinality(Parked') <= slots
               /\ used_bytes(Parked)' <= budget_bytes]_vars

(* Making room never drops a running conversation, nor one with a pinned   *)
(* record, be it a record that was superseded while it was being loaded.   *)
ProtectedConversationsStay ==
  [][\A c \in Parked : pinned(c) \/ (Stored /\ c \in running) => c \in Parked']_vars

(* A conversation is only evicted when every one used less recently is     *)
(* evicted too, is protected, or is the one being stored.                  *)
EvictsOldestFirst ==
  [][Stored =>
       \A c \in Parked \ Parked' : \A d \in by_conv[c] :
         d \in Parked' => Protected(d) \/ d = conv_id(Last(rec').turn)]_vars

(* The keys a store reports as released, which the scheduler frees in the  *)
(* CPU pool, are exactly those no conversation owns any more: none leaks,  *)
(* and none is freed under a conversation that can still be resumed.       *)
ReleasesWhatItDrops ==
  [][Stored => released_keys(Last(rec').turn) = Owned \ Owned']_vars

(* A record that find or lookup_key can return belongs to a conversation   *)
(* that is still parked (move_to_end would raise otherwise).               *)
ReachableIsParked ==
  /\ by_tail \subseteq by_parent
  /\ \A i \in by_parent : LET c == conv_id(rec[i].turn)
                          IN  c \in Parked /\ i \in entry[c].records

(* find's block-by-block search returns the longest parked tail that is a  *)
(* strict prefix of the prompt: never the whole prompt, whose last token   *)
(* would be applied to the recurrent state twice.                          *)
FindsLongestStrictPrefix ==
  \A p \in Prompts :
    LET fitting == {i \in by_parent : IsStrictPrefix(Key(rec[i].turn), p)}
    IN  IF fitting = {} THEN find(p) = 0
        ELSE /\ find(p) \in fitting
             /\ \A i \in fitting : end(rec[i].turn) <= end(rec[find(p)].turn)

(* "A parked conversation is the full-block chain plus one tail record":   *)
(* a conversation that holds a slot can be resumed.  The code loses this   *)
(* when the store of a later turn is discarded.                            *)
ParkedConversationHasTail ==
  \A c \in Parked : entry[c].records \cap by_parent # {}
=============================================================================
