------------------------ MODULE ParkingScheduler_proofs ------------------------
(***************************************************************************)
(* Proofs about ParkingScheduler.  The park index it drives is the one of  *)
(* ParkIndex, so what ParkIndex_proofs shows of a store, a discard and a   *)
(* find is used here through an instance.                                  *)
(***************************************************************************)
EXTENDS ParkingScheduler, FiniteSetTheorems, SequenceTheorems, TLAPS

P == INSTANCE ParkIndex_proofs WITH Prompts <- {prompt[r] : r \in Req},
                                    MaxStores <- Cardinality(Req), MaxPins <- Cardinality(Req)

-----------------------------------------------------------------------------
(* The queue of tails, by its members.                                     *)
In(q, r) == \E n \in DOMAIN q : q[n] = r

(* Each request has its tail in at most one place: in the queue, or in one *)
(* store job; and its blocks are held exactly while it is there.           *)
TailsHeld ==
  /\ st \in [Req -> {"new", "waiting", "loading", "running", "done", "raised"}]
  /\ _pending \in Seq(Req) /\ IsInjective(_pending)
  /\ building \in {"no", "next", "store"} /\ (building # "no" => _pending # <<>>)
  /\ tail_pins \in [Req -> {0, 1}]
  /\ \A j \in stores : j.req \in Req /\ st[j.req] = "done" /\ ~In(_pending, j.req)
  /\ \A i, j \in stores : i.req = j.req => i = j
  /\ \A r \in Req : In(_pending, r) => st[r] = "done"
  /\ \A r \in Req : tail_pins[r] = 1 <=> In(_pending, r) \/ \E j \in stores : j.req = r

(* A conversation is marked running while one of its requests is noted.    *)
NotedRun ==
  /\ _req_conv \subseteq Req
  /\ \A r \in _req_conv : P!conv_id(turn[r]) \in running

AllKeys == UNION {P!new_keys(t) : t \in Turns}

Chunk == [of : Seq(Nat), ready : BOOLEAN]

(* The pool: its size, and the jobs that write to it.                      *)
PoolInv ==
  /\ \A k \in Resident : chunks[k] \in Chunk
  /\ IsFiniteSet(Resident) /\ Cardinality(Resident) <= budget_bytes
  /\ bound \subseteq AllKeys
  /\ \A j \in stores : \A k \in j.keys : k \in Resident /\ ~chunks[k].ready
  /\ \A i, j \in stores : i # j => i.keys \cap j.keys = {}

(* Only keys of tails are chosen and loaded; the load of upstream has none.*)
ChoicesOK ==
  /\ _tail_choice \in [Req -> {P!Key(t) : t \in Turns} \cup {<<>>}]
  /\ \A j \in loads : j.req \in Req /\ j.key \in {P!Key(t) : t \in Turns} \cup {<<>>}

SchedulerInv ==
  P!IndexInv /\ TailsHeld /\ NotedRun /\ PoolInv /\ ChoicesOK /\ LoadsReadWhatWasFound
-----------------------------------------------------------------------------
(* The two instances of the index have the same definitions.               *)
LEMMA SameNames ==
  /\ P!Parked = Index!Parked
  /\ \A t : /\ P!conv_id(t) = Index!conv_id(t) /\ P!Key(t) = Index!Key(t)
            /\ P!end(t) = Index!end(t) /\ P!new_keys(t) = Index!new_keys(t)
            /\ P!full_keys(t) = Index!full_keys(t) /\ P!tail_keys(t) = Index!tail_keys(t)
            /\ P!full_key(t) = Index!full_key(t)
  BY DEF P!Parked, Index!Parked, P!conv_id, Index!conv_id, P!Key, Index!Key,
         P!end, Index!end, P!full_key, Index!full_key, P!full_keys, Index!full_keys,
         P!tail_keys, Index!tail_keys, P!new_keys, Index!new_keys

LEMMA SameTouch ==
  ASSUME NEW s, NEW c
  PROVE  P!MoveToEnd(s, c) = Index!MoveToEnd(s, c)
  BY DEF P!MoveToEnd, Index!MoveToEnd

LEMMA SameFind ==
  ASSUME NEW p
  PROVE  P!find(p) = Index!find(p)
  BY DEF P!find, Index!find, P!Matches, Index!Matches, P!Max, Index!Max, P!Min, Index!Min,
         P!conv_id, Index!conv_id, P!Key, Index!Key, P!end, Index!end,
         P!parent_hash, Index!parent_hash

LEMMA SameStore ==
  ASSUME NEW t
  PROVE  P!store(t) = Index!store(t)
  BY DEF P!store, Index!store, P!conv_id, Index!conv_id, P!Key, Index!Key, P!end, Index!end,
         P!full_key, Index!full_key, P!full_keys, Index!full_keys,
         P!tail_keys, Index!tail_keys, P!new_keys, Index!new_keys, P!nbytes, Index!nbytes,
         P!Parked, Index!Parked, P!MoveToEnd, Index!MoveToEnd, P!Without, Index!Without,
         P!used_bytes, Index!used_bytes, P!pinned, Index!pinned,
         P!Protected, Index!Protected, P!Candidates, Index!Candidates, P!Fits, Index!Fits,
         P!_plan_victims, Index!_plan_victims, P!Admitted, Index!Admitted,
         P!TailsWithout, Index!TailsWithout, P!ParentsWithout, Index!ParentsWithout,
         P!Cardinality, Index!Cardinality

LEMMA SameDiscard ==
  ASSUME NEW i
  PROVE  P!discard(i) = Index!discard(i)
  BY DEF P!discard, Index!discard, P!conv_id, Index!conv_id, P!Key, Index!Key,
         P!end, Index!end, P!full_key, Index!full_key, P!full_keys, Index!full_keys,
         P!tail_keys, Index!tail_keys, P!new_keys, Index!new_keys, P!nbytes, Index!nbytes,
         P!Parked, Index!Parked, P!MoveToEnd, Index!MoveToEnd, P!Without, Index!Without,
         P!used_bytes, Index!used_bytes, P!pinned, Index!pinned,
         P!Protected, Index!Protected, P!Candidates, Index!Candidates, P!Fits, Index!Fits,
         P!_plan_victims, Index!_plan_victims, P!Admitted, Index!Admitted,
         P!TailsWithout, Index!TailsWithout, P!ParentsWithout, Index!ParentsWithout,
         P!Cardinality, Index!Cardinality

LEMMA SameReleased ==
  ASSUME NEW t
  PROVE  P!released_keys(t) = Index!released_keys(t)
  BY DEF P!released_keys, Index!released_keys, P!conv_id, Index!conv_id, P!Key, Index!Key,
         P!end, Index!end, P!full_key, Index!full_key, P!full_keys, Index!full_keys,
         P!tail_keys, Index!tail_keys, P!new_keys, Index!new_keys, P!nbytes, Index!nbytes,
         P!Parked, Index!Parked, P!MoveToEnd, Index!MoveToEnd, P!Without, Index!Without,
         P!used_bytes, Index!used_bytes, P!pinned, Index!pinned,
         P!Protected, Index!Protected, P!Candidates, Index!Candidates, P!Fits, Index!Fits,
         P!_plan_victims, Index!_plan_victims, P!Admitted, Index!Admitted,
         P!TailsWithout, Index!TailsWithout, P!ParentsWithout, Index!ParentsWithout,
         P!Cardinality, Index!Cardinality

LEMMA SameSets ==
  ASSUME NEW S
  PROVE  P!IsFiniteSet(S) = IsFiniteSet(S) /\ P!Cardinality(S) = Cardinality(S)
  BY DEF P!IsFiniteSet, IsFiniteSet, P!Cardinality, Cardinality

LEMMA SameInit == P!Init = Index!Init
  BY DEF P!Init, Index!Init

LEMMA SameType == P!TypeOK = Index!TypeOK
  BY DEF P!TypeOK, Index!TypeOK, P!Parked, Index!Parked, P!Convs, Index!Convs, P!conv_id,
         Index!conv_id

(* The assumption of the index follows from that of the scheduler.         *)
LEMMA IndexAssumed == P!IndexAssumption
<1>1. Cardinality(Req) \in Nat
  BY SchedulerAssumption, FS_CardinalityType
<1> QED  BY <1>1, SchedulerAssumption DEF P!IndexAssumption, Turns

-----------------------------------------------------------------------------
(* Joining the queue, and leaving it at the head.                          *)
LEMMA JoinsQueue ==
  ASSUME NEW q \in Seq(Req), IsInjective(q), NEW r \in Req, ~In(q, r)
  PROVE  /\ Append(q, r) \in Seq(Req) /\ IsInjective(Append(q, r))
         /\ \A s : In(Append(q, r), s) <=> In(q, s) \/ s = r
<1> DEFINE a == Append(q, r)
<1>1. /\ a \in Seq(Req) /\ DOMAIN a = 1 .. Len(q) + 1 /\ DOMAIN q = 1 .. Len(q)
      /\ Len(q) \in Nat /\ a[Len(q) + 1] = r /\ \A n \in 1 .. Len(q) : a[n] = q[n]
  OBVIOUS
<1> HIDE DEF a
<1>2. IsInjective(a)
  BY <1>1 DEF IsInjective, In
<1>3. \A s : In(a, s) <=> In(q, s) \/ s = r
  BY <1>1 DEF In
<1> QED  BY <1>1, <1>2, <1>3 DEF a

LEMMA LeavesQueue ==
  ASSUME NEW q \in Seq(Req), IsInjective(q), q # <<>>
  PROVE  /\ Head(q) \in Req /\ In(q, Head(q)) /\ Tail(q) \in Seq(Req) /\ IsInjective(Tail(q))
         /\ \A s : In(Tail(q), s) <=> In(q, s) /\ s # Head(q)
         /\ Len(q) # 1 => Tail(q) # <<>>
<1> DEFINE a == Tail(q)
<1>1. /\ a \in Seq(Req) /\ DOMAIN a = 1 .. Len(q) - 1 /\ DOMAIN q = 1 .. Len(q)
      /\ Len(q) \in Nat \ {0} /\ Head(q) = q[1] /\ \A n \in 1 .. Len(q) - 1 : a[n] = q[n + 1]
      /\ Len(a) = Len(q) - 1
  OBVIOUS
<1> HIDE DEF a
<1>2. IsInjective(a)
  <2> SUFFICES ASSUME NEW m \in DOMAIN a, NEW n \in DOMAIN a, a[m] = a[n]  PROVE m = n
    BY DEF IsInjective
  <2>1. m + 1 \in DOMAIN q /\ n + 1 \in DOMAIN q /\ q[m + 1] = q[n + 1]
    BY <1>1
  <2>2. m + 1 = n + 1
    BY <2>1, Zenon DEF IsInjective
  <2> QED  BY <1>1, <2>2
<1>3. \A s : In(a, s) => In(q, s) /\ s # Head(q)
  BY <1>1 DEF In, IsInjective
<1>4. ASSUME NEW s, In(q, s), s # Head(q)  PROVE In(a, s)
  <2>1. PICK n \in 1 .. Len(q) : q[n] = s
    BY <1>1, <1>4 DEF In
  <2>2. n - 1 \in 1 .. Len(q) - 1 /\ a[n - 1] = s
    BY <1>1, <1>4, <2>1
  <2> QED  BY <1>1, <2>2 DEF In
<1>5. In(q, Head(q)) /\ Head(q) \in Req
  BY <1>1 DEF In
<1>6. Len(q) # 1 => a # <<>>
  BY <1>1
<1> QED  BY <1>1, <1>2, <1>3, <1>4, <1>5, <1>6 DEF a

-----------------------------------------------------------------------------
(* The park index under the operations of the scheduler.                   *)
Record == [turn : Turns, pinned : Nat]

LEMMA RecordFacts ==
  ASSUME P!IndexInv
  PROVE  /\ rec \in Seq(Record) /\ by_tail \subseteq DOMAIN rec /\ by_parent \subseteq DOMAIN rec
         /\ \A i \in DOMAIN rec : rec[i] \in Record /\ rec[i].turn \in Turns
                                  /\ rec[i].pinned \in Nat
<1>1. rec \in Seq(Record) /\ by_tail \subseteq DOMAIN rec /\ by_parent \subseteq DOMAIN rec
  BY DEF P!IndexInv, P!RecordsOK, Record
<1>2. \A i \in DOMAIN rec : rec[i] \in Record
  BY <1>1
<1> QED  BY <1>1, <1>2 DEF Record

(* Giving a pin back, and taking another, changes pin counts only.         *)
LEMMA ReleasedKeeps ==
  ASSUME P!IndexInv, NEW key
  PROVE  /\ Released(key) \in Seq(Record) /\ DOMAIN Released(key) = DOMAIN rec
         /\ \A i \in DOMAIN rec : /\ Released(key)[i] \in Record
                                  /\ Released(key)[i].turn = rec[i].turn
<1> DEFINE f == Released(key)
           held == {i \in by_tail : TailKey(i) = key /\ rec[i].pinned > 0}
<1>1. f = [i \in DOMAIN rec |-> IF i \in held THEN [rec[i] EXCEPT !.pinned = @ - 1] ELSE rec[i]]
  BY DEF Released
<1>2. ASSUME NEW i \in DOMAIN rec  PROVE f[i] \in Record /\ f[i].turn = rec[i].turn
  <2>1. rec[i] \in Record
    BY RecordFacts
  <2>2. CASE i \in held
    <3>1. rec[i].pinned - 1 \in Nat
      BY <2>1, <2>2 DEF Record
    <3>2. f[i] = [rec[i] EXCEPT !.pinned = rec[i].pinned - 1]
      BY <1>1, <2>2
    <3> QED  BY <2>1, <3>1, <3>2 DEF Record
  <2>3. CASE i \notin held
    BY <1>1, <2>1, <2>3
  <2> QED  BY <2>2, <2>3
<1>3. DOMAIN f = DOMAIN rec
  BY <1>1
<1>4. f \in Seq(Record)
  <2>1. DOMAIN rec = 1 .. Len(rec) /\ Len(rec) \in Nat
    BY RecordFacts
  <2>2. f = [i \in 1 .. Len(rec) |-> f[i]]
    BY <1>1, <2>1
  <2> HIDE DEF f
  <2> QED  BY <1>2, <2>1, <2>2
<1> QED  BY <1>2, <1>3, <1>4

LEMMA PinKeeps ==
  ASSUME NEW f \in Seq(Record), NEW i \in DOMAIN f
  PROVE  LET g == [f EXCEPT ![i].pinned = @ + 1]
         IN  /\ g \in Seq(Record) /\ DOMAIN g = DOMAIN f
             /\ \A j \in DOMAIN f : g[j].turn = f[j].turn
<1> DEFINE g == [f EXCEPT ![i].pinned = @ + 1]
           x == [f[i] EXCEPT !.pinned = f[i].pinned + 1]
<1>1. f[i] \in Record
  OBVIOUS
<1>2. x \in Record /\ x.turn = f[i].turn
  BY <1>1 DEF Record
<1>3. g = [f EXCEPT ![i] = x]
  OBVIOUS
<1> HIDE DEF g, x
<1>4. g \in Seq(Record) /\ DOMAIN g = DOMAIN f /\ \A j \in DOMAIN f : g[j].turn = f[j].turn
  BY <1>2, <1>3
<1> QED  BY <1>4 DEF g

(* find returns a record of a parked conversation, and touching it keeps   *)
(* the order.                                                              *)
LEMMA FoundFacts ==
  ASSUME P!IndexInv, NEW r \in Req, Found(r) # 0
  PROVE  /\ Found(r) \in by_parent /\ Found(r) \in DOMAIN rec
         /\ P!conv_id(rec[Found(r)].turn) \in P!Parked
<1>1. Found(r) = P!find(prompt[r]) /\ prompt[r] \in {prompt[s] : s \in Req}
  BY SameFind DEF Found
<1> QED  BY <1>1, IndexAssumed, P!FindReachable

LEMMA TouchedKeeps ==
  ASSUME P!IndexInv, NEW r \in Req, by_conv' = Touched(r)
  PROVE  P!OrderOK(by_conv)' /\ P!Parked' = P!Parked
<1>1. CASE Found(r) = 0
  <2>1. by_conv' = by_conv
    BY <1>1 DEF Touched
  <2> QED  BY <2>1 DEF P!IndexInv, P!OrderOK, P!Parked
<1>2. CASE Found(r) # 0
  <2>1. by_conv' = P!MoveToEnd(by_conv, P!conv_id(rec[Found(r)].turn))
    BY <1>2, SameTouch, SameNames DEF Touched
  <2> QED  BY <1>2, <2>1, FoundFacts, IndexAssumed, P!TouchKeeps
<1> QED  BY <1>1, <1>2

LEMMA RunningType ==
  ASSUME NEW r \in Req
  PROVE  conv(r) = P!conv_id(turn[r]) /\ conv(r) \in P!Convs
<1>1. turn[r] \in Turns /\ conv(r) = P!conv_id(turn[r])
  BY SameNames DEF conv, Turns
<1> QED  BY <1>1, IndexAssumed, P!ConvOfTurn

(* An operation that stores nothing keeps the invariant of the index.      *)
LEMMA IndexKept ==
  ASSUME P!IndexInv,
         rec' \in Seq(Record), DOMAIN rec' = DOMAIN rec,
         \A i \in DOMAIN rec : rec'[i].turn = rec[i].turn,
         UNCHANGED <<by_tail, by_parent, entry>>,
         by_conv' = by_conv \/ \E r \in Req : by_conv' = Touched(r),
         running' \subseteq P!Convs
  PROVE  P!IndexInv'
<1>1. P!OrderOK(by_conv)' /\ P!Parked' = P!Parked
  <2>1. CASE by_conv' = by_conv
    BY <2>1 DEF P!IndexInv, P!OrderOK, P!Parked
  <2> QED  BY <2>1, TouchedKeeps
<1> QED  BY <1>1, IndexAssumed, P!SameEntries DEF Record

-----------------------------------------------------------------------------
(* Making room.                                                            *)
LEMMA TurnKeys ==
  ASSUME NEW r \in Req
  PROVE  turn[r] \in Turns /\ IsFiniteSet(P!new_keys(turn[r])) /\ P!new_keys(turn[r]) \subseteq AllKeys
<1>1. turn[r] \in Turns
  BY DEF Turns
<1> QED  BY <1>1, IndexAssumed, P!KeysFinite, SameSets DEF AllKeys

(* The keys of two conversations are disjoint.                             *)
LEMMA KeysApart ==
  ASSUME NEW c, NEW d, NEW k, k \in KeysOfConv(c), k \in KeysOfConv(d)
  PROVE  c = d
<1>1. PICK r \in Req : P!conv_id(turn[r]) = c /\ k \in P!new_keys(turn[r])
  BY SameNames DEF KeysOfConv, conv
<1>2. PICK s \in Req : P!conv_id(turn[s]) = d /\ k \in P!new_keys(turn[s])
  BY SameNames DEF KeysOfConv, conv
<1>3. turn[r] \in Turns /\ turn[s] \in Turns
  BY DEF Turns
<1>4. P!new_keys(turn[r]) \cap P!new_keys(turn[s]) # {}
  BY <1>1, <1>2
<1> QED  BY <1>1, <1>2, <1>3, <1>4, IndexAssumed, P!KeysNameConversation

(* evict takes whole conversations, and then chunks that belong to none.   *)
LEMMA EvictShape ==
  ASSUME NEW n \in Int, NEW protected, NEW gone \in evict(n, protected), IsFiniteSet(Resident)
  PROVE  \E S, U :
           /\ \A c \in S : _conv_ready(c, protected)
           /\ \A k \in U : k \notin bound /\ Evictable(k)
           /\ gone = {k \in UNION {ConvChunks(c) : c \in S} : Evictable(k)} \cup U
           /\ Cardinality(gone) >= n
<1> DEFINE ready    == {c \in Index!Convs : _conv_ready(c, protected)}
           taken(S) == {k \in UNION {ConvChunks(c) : c \in S} : Evictable(k)}
           loose    == {k \in Resident \ (bound \cup protected) : Evictable(k)}
           Shape(S, U) == /\ \A c \in S : _conv_ready(c, protected)
                          /\ \A k \in U : k \notin bound /\ Evictable(k)
                          /\ gone = taken(S) \cup U
                          /\ Cardinality(gone) >= n
<1> SUFFICES \E S, U : Shape(S, U)
  OBVIOUS
<1>1. \/ n <= 0 /\ gone = {}
      \/ \E S \in SUBSET ready : gone = taken(S) /\ Cardinality(taken(S)) >= n
      \/ \E U \in SUBSET loose : /\ gone = taken(ready) \cup U
                                 /\ Cardinality(U) = n - Cardinality(taken(ready))
  BY DEF evict, kSubset
<1>2. CASE n <= 0 /\ gone = {}
  <2>1. Cardinality(gone) = 0
    BY <1>2, FS_EmptySet
  <2>2. Shape({}, {})
    BY <1>2, <2>1
  <2> HIDE DEF Shape
  <2> QED  BY <2>2
<1>3. CASE \E S \in SUBSET ready : gone = taken(S) /\ Cardinality(taken(S)) >= n
  <2>1. PICK S \in SUBSET ready : gone = taken(S) /\ Cardinality(taken(S)) >= n
    BY <1>3
  <2>2. Shape(S, {})
    BY <2>1
  <2> HIDE DEF Shape
  <2> QED  BY <2>2
<1>4. CASE \E U \in SUBSET loose : /\ gone = taken(ready) \cup U
                                   /\ Cardinality(U) = n - Cardinality(taken(ready))
  <2>1. PICK U \in SUBSET loose : /\ gone = taken(ready) \cup U
                                  /\ Cardinality(U) = n - Cardinality(taken(ready))
    BY <1>4
  <2> DEFINE T == taken(ready)
  <2>2. T \subseteq Resident /\ T \cap U = {} /\ U \subseteq Resident
    BY DEF ConvChunks
  <2>3. IsFiniteSet(T) /\ IsFiniteSet(U)
    BY <2>2, FS_Subset
  <2>4. \A k \in U : k \notin bound /\ Evictable(k)
    OBVIOUS
  <2>5. \A c \in ready : _conv_ready(c, protected)
    OBVIOUS
  <2> HIDE DEF T
  <2>6. T \cap U = {} /\ Cardinality(T \cap U) = 0
    BY <2>2, FS_EmptySet
  <2>7. Cardinality(T \cup U) = Cardinality(T) + Cardinality(U) - 0
    BY <2>3, <2>6, FS_Union
  <2>8. Cardinality(T) \in Nat /\ Cardinality(U) \in Nat
    BY <2>3, FS_CardinalityType
  <2>9. Cardinality(gone) >= n /\ gone = T \cup U
    BY <2>1, <2>7, <2>8 DEF T
  <2>10. Shape(ready, U)
    BY <2>4, <2>5, <2>9 DEF T
  <2> HIDE DEF Shape
  <2> QED  BY <2>10
<1> QED  BY <1>1, <1>2, <1>3, <1>4

LEMMA EvictFacts ==
  ASSUME NEW n \in Int, NEW protected, NEW gone \in evict(n, protected), IsFiniteSet(Resident)
  PROVE  /\ gone \subseteq Resident /\ \A k \in gone : Evictable(k)
         /\ IsFiniteSet(gone) /\ Cardinality(gone) >= n
<1>1. (\A k \in gone : Evictable(k)) /\ Cardinality(gone) >= n
  BY EvictShape
<1>2. gone \subseteq Resident
  BY <1>1 DEF Evictable
<1> QED  BY <1>1, <1>2, FS_Subset

(* A conversation that loses a chunk to it loses all, and had none that    *)
(* was protected.                                                          *)
LEMMA EvictsWhole ==
  ASSUME NEW n \in Int, NEW protected, NEW gone \in evict(n, protected), IsFiniteSet(Resident),
         NEW c, NEW k \in ConvChunks(c), k \in gone
  PROVE  ConvChunks(c) \subseteq gone /\ KeysOfConv(c) \cap bound \cap protected = {}
<1>1. PICK S, U : /\ \A d \in S : _conv_ready(d, protected)
                  /\ \A x \in U : x \notin bound /\ Evictable(x)
                  /\ gone = {x \in UNION {ConvChunks(d) : d \in S} : Evictable(x)} \cup U
                  /\ Cardinality(gone) >= n
  BY EvictShape
<1>2. k \in bound /\ k \in KeysOfConv(c)
  BY DEF ConvChunks
<1>3. PICK d \in S : k \in ConvChunks(d)
  BY <1>1, <1>2
<1>4. d = c
  BY <1>2, <1>3, KeysApart DEF ConvChunks
<1>5. _conv_ready(c, protected)
  BY <1>1, <1>3, <1>4
<1>6. \A x \in ConvChunks(c) : x \in gone
  <2>1. \A x \in ConvChunks(c) : Evictable(x)
    BY <1>5 DEF _conv_ready
  <2> QED  BY <1>1, <1>3, <1>4, <2>1
<1> QED  BY <1>5, <1>6 DEF _conv_ready

LEMMA ExchangeFacts ==
  ASSUME NEW gone, NEW new, chunks' = Exchange(gone, new)
  PROVE  /\ Resident' = (Resident \ gone) \cup DOMAIN new
         /\ \A k \in DOMAIN new : chunks'[k] = new[k]
         /\ \A k \in (Resident \ gone) \ DOMAIN new : chunks'[k] = chunks[k]
  BY DEF Exchange, Resident

(* What Room frees is enough for the new chunks.                           *)
LEMMA RoomFits ==
  ASSUME PoolInv, NEW ks, ks \cap Resident = {}, IsFiniteSet(ks),
         NEW protected, NEW gone \in Room(ks, protected)
  PROVE  /\ \A k \in gone : Evictable(k)
         /\ IsFiniteSet((Resident \ gone) \cup ks)
         /\ Cardinality((Resident \ gone) \cup ks) <= budget_bytes
         /\ \E n \in Int : gone \in evict(n, protected)
<1> DEFINE n == Cardinality(ks) + Cardinality(Resident) - budget_bytes
           left == Resident \ gone
<1>1. ToStore(ks) = ks
  BY DEF ToStore
<1>2. Cardinality(ks) \in Nat /\ Cardinality(Resident) \in Nat /\ budget_bytes \in Nat /\ n \in Int
  BY SchedulerAssumption, FS_CardinalityType DEF PoolInv
<1>3. gone \in evict(n, protected)
  BY <1>1 DEF Room
<1>4. /\ gone \subseteq Resident /\ \A k \in gone : Evictable(k)
      /\ IsFiniteSet(gone) /\ Cardinality(gone) >= n
  <2> HIDE DEF n
  <2> QED  BY <1>2, <1>3, EvictFacts DEF PoolInv
<1>5. IsFiniteSet(left) /\ Cardinality(left) = Cardinality(Resident) - Cardinality(gone)
  <2>1. Resident \cap gone = gone
    BY <1>4
  <2> QED  BY <2>1, FS_Difference DEF PoolInv
<1>6. left \cap ks = {} /\ Cardinality(left \cap ks) = 0
  <2>1. left \cap ks = {}
    OBVIOUS
  <2> QED  BY <2>1, FS_EmptySet
<1> HIDE DEF left
<1>7. IsFiniteSet(left \cup ks) /\ Cardinality(left \cup ks) = Cardinality(left) + Cardinality(ks) - 0
  BY <1>5, <1>6, FS_Union
<1>8. Cardinality(gone) \in Nat
  BY <1>4, FS_CardinalityType
<1>9. Cardinality(left \cup ks) <= budget_bytes
  BY <1>2, <1>4, <1>5, <1>7, <1>8
<1> HIDE DEF n
<1> QED  BY <1>2, <1>3, <1>4, <1>7, <1>9 DEF left

(* Chunks that come and go never touch a chunk of a copy under way.        *)
LEMMA CopiesUntouched ==
  ASSUME PoolInv, LoadsReadWhatWasFound, NEW gone, NEW new, chunks' = Exchange(gone, new),
         \A k \in gone : Evictable(k), DOMAIN new \cap Resident = {},
         \A k \in DOMAIN new : new[k] \in Chunk
  PROVE  /\ \A k \in Resident' : chunks'[k] \in Chunk
         /\ \A j \in stores : \A k \in j.keys : k \in Resident' /\ ~chunks'[k].ready
         /\ \A j \in loads : j.seen \/ Len(j.key) % block_size # 0 =>
              \A k \in j.keys : k \in Resident' /\ chunks'[k].ready
<1>1. /\ Resident' = (Resident \ gone) \cup DOMAIN new
      /\ \A k \in DOMAIN new : chunks'[k] = new[k]
      /\ \A k \in (Resident \ gone) \ DOMAIN new : chunks'[k] = chunks[k]
  BY ExchangeFacts
<1>2. ASSUME NEW k \in Resident, InUse(k)
      PROVE  k \in Resident' /\ chunks'[k] = chunks[k]
  BY <1>1, <1>2 DEF Evictable
<1>3. \A k \in Resident' : chunks'[k] \in Chunk
  BY <1>1 DEF PoolInv
<1>4. ASSUME NEW j \in stores, NEW k \in j.keys
      PROVE  k \in Resident' /\ ~chunks'[k].ready
  <2>1. k \in Resident /\ ~chunks[k].ready
    BY DEF PoolInv
  <2> QED  BY <1>2, <2>1 DEF InUse
<1>5. ASSUME NEW j \in loads, j.seen \/ Len(j.key) % block_size # 0, NEW k \in j.keys
      PROVE  k \in Resident' /\ chunks'[k].ready
  <2>1. k \in Resident /\ chunks[k].ready
    BY <1>5 DEF LoadsReadWhatWasFound
  <2> QED  BY <1>2, <2>1 DEF InUse
<1> QED  BY <1>3, <1>4, <1>5

-----------------------------------------------------------------------------
(* What an operation leaves alone.                                         *)
LEMMA TailsKept ==
  ASSUME TailsHeld, UNCHANGED <<_pending, building, tail_pins, stores>>,
         st' \in [Req -> {"new", "waiting", "loading", "running", "done", "raised"}],
         \A r \in Req : st[r] = "done" => st'[r] = "done"
  PROVE  TailsHeld'
  BY DEF TailsHeld

LEMMA PoolKept ==
  ASSUME PoolInv, UNCHANGED <<chunks, bound, stores>>
  PROVE  PoolInv'
  BY DEF PoolInv, Resident

LEMMA LoadsKept ==
  ASSUME LoadsReadWhatWasFound, UNCHANGED chunks, loads' \subseteq loads
  PROVE  LoadsReadWhatWasFound'
  BY DEF LoadsReadWhatWasFound, Resident

LEMMA StType ==
  ASSUME TailsHeld, NEW r \in Req, st[r] # "done",
         NEW x \in {"new", "waiting", "loading", "running", "done", "raised"},
         st' = [st EXCEPT ![r] = x]
  PROVE  /\ st' \in [Req -> {"new", "waiting", "loading", "running", "done", "raised"}]
         /\ \A s \in Req : st[s] = "done" => st'[s] = "done"
         /\ st'[r] = x /\ \A s \in Req \ {r} : st'[s] = st[s]
  BY DEF TailsHeld

(* The request at the head of the queue is taken from it and gives its     *)
(* blocks back.                                                            *)
LEMMA AdvanceKeeps ==
  ASSUME TailsHeld, _pending # <<>>, PrepareGivesUp, UNCHANGED <<st, stores>>
  PROVE  TailsHeld'
<1> DEFINE r == Head(_pending)
<1>1. /\ _pending \in Seq(Req) /\ IsInjective(_pending)
      /\ tail_pins \in [Req -> {0, 1}]
  BY DEF TailsHeld
<1>2. /\ _pending' = Tail(_pending) /\ tail_pins' = [tail_pins EXCEPT ![r] = @ - 1]
      /\ building' = IF Len(_pending) = 1 THEN "no" ELSE "next"
  BY DEF PrepareGivesUp, Advance, _release_pin
<1>3. /\ r \in Req /\ In(_pending, r) /\ _pending' \in Seq(Req) /\ IsInjective(_pending')
      /\ \A s : In(_pending', s) <=> In(_pending, s) /\ s # r
      /\ Len(_pending) # 1 => _pending' # <<>>
  BY <1>1, <1>2, LeavesQueue
<1> HIDE DEF r
<1>4. tail_pins[r] = 1
  BY <1>3 DEF TailsHeld
<1>5. /\ tail_pins' \in [Req -> {0, 1}] /\ tail_pins'[r] = 0
      /\ \A s \in Req \ {r} : tail_pins'[s] = tail_pins[s]
  BY <1>1, <1>2, <1>3, <1>4
<1>6. \A s \in Req : tail_pins'[s] = 1 <=> In(_pending', s) \/ \E j \in stores' : j.req = s
  BY <1>3, <1>5 DEF TailsHeld
<1>7. building' \in {"no", "next", "store"} /\ (building' # "no" => _pending' # <<>>)
  BY <1>2, <1>3
<1> QED  BY <1>3, <1>5, <1>6, <1>7 DEF TailsHeld

-----------------------------------------------------------------------------
(* The steps of a request.                                                 *)
LEMMA InvNew ==
  ASSUME SchedulerInv, NEW r \in Req, on_new_request(r)
  PROVE  SchedulerInv'
<1> USE DEF SchedulerInv
<1>1. TailsHeld'
  BY StType, TailsKept DEF on_new_request
<1>2. running \subseteq P!Convs
  BY DEF P!IndexInv
<1>3. /\ running' = running \/ running' = running \cup {conv(r)}
      /\ _req_conv' = _req_conv \/ (_req_conv' = _req_conv \cup {r} /\ conv(r) \in running')
  BY DEF on_new_request
<1>4. running' \subseteq P!Convs
  BY <1>2, <1>3, RunningType
<1>5. P!IndexInv'
  BY <1>4, RecordFacts, IndexKept DEF on_new_request
<1>6. NotedRun'
  BY <1>3, RunningType DEF NotedRun
<1>7. PoolInv' /\ LoadsReadWhatWasFound' /\ ChoicesOK'
  BY PoolKept, LoadsKept DEF on_new_request, pool, ChoicesOK
<1> QED  BY <1>1, <1>5, <1>6, <1>7

LEMMA InvMatched ==
  ASSUME SchedulerInv, NEW r \in Req, NEW b, get_num_new_matched_tokens(r, b)
  PROVE  SchedulerInv'
<1> USE DEF SchedulerInv
<1> DEFINE i == Found(r)
<1>1. /\ UNCHANGED <<by_tail, by_parent, entry, running, st, _req_conv, _pending, building,
                     _plans, tail_pins, stores, loads, pool>>
      /\ by_conv' = Touched(r)
  BY DEF get_num_new_matched_tokens
<1>2. \/ UNCHANGED <<_tail_choice, rec>>
      \/ /\ i # 0 /\ _tail_choice' = [_tail_choice EXCEPT ![r] = TailKey(i)]
         /\ \/ rec' = rec
            \/ rec' = [Released(_tail_choice[r]) EXCEPT ![i].pinned = @ + 1]
  BY DEF get_num_new_matched_tokens, Hit, Better
<1>3. i # 0 => i \in DOMAIN rec /\ TailKey(i) \in {P!Key(t) : t \in Turns}
  BY FoundFacts, RecordFacts, SameNames DEF TailKey
<1> HIDE DEF i
<1>4. /\ rec' \in Seq(Record) /\ DOMAIN rec' = DOMAIN rec
      /\ \A j \in DOMAIN rec : rec'[j].turn = rec[j].turn
  <2>1. CASE rec' = rec
    BY <2>1, RecordFacts
  <2>2. CASE i # 0 /\ rec' = [Released(_tail_choice[r]) EXCEPT ![i].pinned = @ + 1]
    <3> DEFINE f == Released(_tail_choice[r])
    <3>1. /\ f \in Seq(Record) /\ DOMAIN f = DOMAIN rec
          /\ \A j \in DOMAIN rec : f[j].turn = rec[j].turn
      BY ReleasedKeeps
    <3>2. i \in DOMAIN f
      BY <1>3, <2>2, <3>1
    <3> HIDE DEF f
    <3>3. /\ [f EXCEPT ![i].pinned = @ + 1] \in Seq(Record)
          /\ DOMAIN [f EXCEPT ![i].pinned = @ + 1] = DOMAIN f
          /\ \A j \in DOMAIN f : [f EXCEPT ![i].pinned = @ + 1][j].turn = f[j].turn
      BY <3>1, <3>2, PinKeeps
    <3>4. rec' = [f EXCEPT ![i].pinned = @ + 1]
      BY <2>2 DEF f
    <3> QED  BY <3>1, <3>3, <3>4
  <2> QED  BY <1>2, <2>1, <2>2
<1>5. P!IndexInv'
  <2>1. running' \subseteq P!Convs
    BY <1>1 DEF P!IndexInv
  <2> QED  BY <1>1, <1>4, <2>1, IndexKept
<1>6. ChoicesOK'
  BY <1>1, <1>2, <1>3 DEF ChoicesOK
<1>7. TailsHeld' /\ PoolInv' /\ LoadsReadWhatWasFound' /\ NotedRun'
  BY <1>1, TailsKept, PoolKept, LoadsKept DEF pool, TailsHeld, NotedRun
<1> QED  BY <1>5, <1>6, <1>7

(* Upstream hits whole blocks.                                             *)
LEMMA WholeBlocks ==
  ASSUME NEW k \in Nat, NEW d \in Nat, d > 0
  PROVE  (k * d) % d = 0 /\ (k * d) \div d = k
  OBVIOUS

LEMMA HitsAligned ==
  ASSUME NEW r \in Req, NEW b \in UpstreamHits(r)
  PROVE  /\ b % block_size = 0
         /\ \A k \in UpstreamKeys(r, b \div block_size) : k \in Resident /\ chunks[k].ready
<1>1. PICK n \in 0 .. (Len(prompt[r]) - 1) \div block_size :
        /\ b = n * block_size
        /\ \A k \in UpstreamKeys(r, n) : k \in Resident /\ chunks[k].ready
  BY DEF UpstreamHits
<1>2. n \in Nat /\ block_size \in Nat /\ block_size > 0
  BY <1>1, SchedulerAssumption
<1>3. (n * block_size) % block_size = 0 /\ (n * block_size) \div block_size = n
  BY <1>2, WholeBlocks
<1> QED  BY <1>1, <1>3

(* The tail that is loaded was seen complete in this step, unless it was   *)
(* chosen earlier and ends with the blocks upstream hits.                  *)
LEMMA ChosenFacts ==
  ASSUME NEW r \in Req, NEW b \in UpstreamHits(r), Chosen(r, b) # <<>>,
         Hit(r, b) \/ Len(Chosen(r, b)) % block_size # 0
  PROVE  \A k \in Keys(Chosen(r, b)) : k \in Resident /\ chunks[k].ready
<1>1. CASE Hit(r, b)
  <2>1. Chosen(r, b) = TailKey(Found(r)) /\ _tail_status(Found(r)) = "hit"
    BY <1>1 DEF Chosen, Hit
  <2> QED  BY <2>1 DEF _tail_status
<1>2. CASE ~Hit(r, b)
  <2>1. Len(Chosen(r, b)) = b
    BY <1>2 DEF Chosen
  <2> QED  BY <1>2, <2>1, HitsAligned
<1> QED  BY <1>1, <1>2

LEMMA InvAlloc ==
  ASSUME SchedulerInv, NEW r \in Req, NEW b \in UpstreamHits(r), update_state_after_alloc(r, b)
  PROVE  SchedulerInv'
<1> USE DEF SchedulerInv
<1> DEFINE key == Chosen(r, b)
           up  == [req |-> r, key |-> <<>>, seen |-> TRUE,
                   keys |-> UpstreamKeys(r, b \div block_size)]
           job == [req |-> r, key |-> key, seen |-> Hit(r, b), keys |-> Keys(key)]
<1>1. /\ UNCHANGED <<by_tail, by_parent, entry, running, _req_conv, _pending, building, _plans,
                     tail_pins, stores, pool>>
      /\ by_conv' = Touched(r) /\ rec' = Released(_tail_choice[r])
      /\ _tail_choice' = [_tail_choice EXCEPT ![r] = <<>>]
      /\ st[r] = "waiting"
  BY DEF update_state_after_alloc
<1>2. /\ \E x \in {"running", "loading", "raised"} : st' = [st EXCEPT ![r] = x]
      /\ \/ loads' = loads
         \/ loads' = loads \cup {up}
         \/ key # <<>> /\ loads' = loads \cup {job}
  BY DEF update_state_after_alloc
<1>3. TailsHeld'
  <2>1. PICK x \in {"running", "loading", "raised"} : st' = [st EXCEPT ![r] = x]
    BY <1>2
  <2>2. st[r] # "done" /\ x \in {"new", "waiting", "loading", "running", "done", "raised"}
    BY <1>1
  <2> QED  BY <1>1, <2>1, <2>2, StType, TailsKept
<1>4. P!IndexInv'
  <2>1. running' \subseteq P!Convs
    BY <1>1 DEF P!IndexInv
  <2> QED  BY <1>1, <2>1, ReleasedKeeps, IndexKept
<1>5. /\ job.key = key /\ job.req = r /\ job.keys = Keys(key) /\ job.seen = Hit(r, b)
      /\ up.key = <<>> /\ up.req = r /\ up.keys = UpstreamKeys(r, b \div block_size)
  OBVIOUS
<1> HIDE DEF job, up
<1>6. LoadsReadWhatWasFound'
  <2>1. Resident' = Resident /\ chunks' = chunks
    BY <1>1 DEF pool, Resident
  <2>2. key # <<>> /\ (job.seen \/ Len(job.key) % block_size # 0) =>
          \A k \in job.keys : k \in Resident /\ chunks[k].ready
    BY <1>5, ChosenFacts
  <2>3. \A k \in up.keys : k \in Resident /\ chunks[k].ready
    BY <1>5, HitsAligned
  <2> HIDE DEF key
  <2> QED  BY <1>2, <2>1, <2>2, <2>3 DEF LoadsReadWhatWasFound
<1>7. ChoicesOK'
  <2>1. key # <<>> => key \in {P!Key(t) : t \in Turns}
    <3>1. CASE Hit(r, b)
      <4>1. key = TailKey(Found(r)) /\ Found(r) # 0
        BY <3>1 DEF Chosen, Hit, Better
      <4> QED  BY <4>1, FoundFacts, RecordFacts, SameNames DEF TailKey
    <3>2. CASE ~Hit(r, b)
      BY <3>2 DEF Chosen, ChoicesOK
    <3> QED  BY <3>1, <3>2
  <2> HIDE DEF key
  <2> QED  BY <1>1, <1>2, <1>5, <2>1 DEF ChoicesOK
<1>8. PoolInv' /\ NotedRun'
  BY <1>1, PoolKept DEF pool, NotedRun
<1> QED  BY <1>3, <1>4, <1>6, <1>7, <1>8

LEMMA InvLoadDone ==
  ASSUME SchedulerInv, NEW j \in loads, LoadDone(j)
  PROVE  SchedulerInv'
<1> USE DEF SchedulerInv
<1>1. /\ UNCHANGED <<rec, by_tail, by_parent, by_conv, entry, running, _req_conv, _tail_choice,
                     _pending, building, _plans, tail_pins, stores, chunks, bound>>
      /\ loads' \subseteq loads
      /\ st' = [st EXCEPT ![j.req] = IF @ = "loading" THEN "running" ELSE @]
  BY DEF LoadDone, index, pool
<1>2. j.req \in Req
  BY DEF ChoicesOK
<1>3. /\ st' \in [Req -> {"new", "waiting", "loading", "running", "done", "raised"}]
      /\ \A r \in Req : st[r] = "done" => st'[r] = "done"
  BY <1>1, <1>2 DEF TailsHeld
<1>4. P!IndexInv'
  BY <1>1, RecordFacts, IndexKept DEF P!IndexInv
<1>5. TailsHeld' /\ PoolInv' /\ LoadsReadWhatWasFound' /\ NotedRun' /\ ChoicesOK'
  BY <1>1, <1>3, TailsKept, PoolKept, LoadsKept DEF NotedRun, ChoicesOK
<1> QED  BY <1>4, <1>5

(* A request ends, and may queue its tail.                                 *)
LEMMA InvFinished ==
  ASSUME SchedulerInv, NEW r \in Req, NEW park \in BOOLEAN, request_finished(r, park)
  PROVE  SchedulerInv'
<1> USE DEF SchedulerInv
<1>1. /\ UNCHANGED <<by_tail, by_parent, by_conv, entry, building, _plans, stores, loads, pool>>
      /\ building = "no" /\ st[r] # "done" /\ st' = [st EXCEPT ![r] = "done"]
      /\ rec' = Released(_tail_choice[r])
      /\ _tail_choice' = [_tail_choice EXCEPT ![r] = <<>>]
      /\ _req_conv' = _req_conv \ {r}
  BY DEF request_finished
<1>2. /\ _pending' = IF park THEN Append(_pending, r) ELSE _pending
      /\ tail_pins' = [tail_pins EXCEPT ![r] = IF park THEN @ + 1 ELSE @]
      /\ running' = IF r \in _req_conv THEN RunningAfter(r) ELSE running
  BY DEF request_finished
<1>3. running' \subseteq running
  BY <1>2 DEF RunningAfter
<1>4. NotedRun'
  <2> SUFFICES ASSUME NEW s \in _req_conv, s # r  PROVE P!conv_id(turn[s]) \in running'
    BY <1>1 DEF NotedRun
  <2>1. P!conv_id(turn[s]) \in running /\ conv(s) = P!conv_id(turn[s])
    BY RunningType DEF NotedRun
  <2> QED  BY <1>2, <2>1 DEF RunningAfter
<1>5. P!IndexInv'
  <2>1. running' \subseteq P!Convs
    BY <1>3 DEF P!IndexInv
  <2> QED  BY <1>1, <2>1, ReleasedKeeps, IndexKept
<1>6. TailsHeld'
  <2>1. /\ st' \in [Req -> {"new", "waiting", "loading", "running", "done", "raised"}]
        /\ \A s \in Req : st[s] = "done" => st'[s] = "done"
        /\ st'[r] = "done"
    BY <1>1, StType
  <2>2. CASE ~park
    <3>1. _pending' = _pending /\ tail_pins' = tail_pins
      BY <1>2, <2>2 DEF TailsHeld
    <3> QED  BY <1>1, <2>1, <3>1, TailsKept
  <2>3. CASE park
    <3>1. ~In(_pending, r) /\ \A j \in stores : j.req # r
      BY <1>1 DEF TailsHeld
    <3>2. tail_pins \in [Req -> {0, 1}] /\ tail_pins[r] = 0
      BY <3>1 DEF TailsHeld
    <3>3. /\ tail_pins' \in [Req -> {0, 1}] /\ tail_pins'[r] = 1
          /\ \A s \in Req \ {r} : tail_pins'[s] = tail_pins[s]
      BY <1>2, <2>3, <3>2
    <3>4. /\ _pending' \in Seq(Req) /\ IsInjective(_pending')
          /\ \A s : In(_pending', s) <=> In(_pending, s) \/ s = r
      BY <1>2, <2>3, <3>1, JoinsQueue DEF TailsHeld
    <3>5. stores' = stores /\ building' = "no"
      BY <1>1
    <3> QED  BY <2>1, <3>1, <3>3, <3>4, <3>5 DEF TailsHeld
  <2> QED  BY <2>2, <2>3
<1>7. PoolInv' /\ LoadsReadWhatWasFound' /\ ChoicesOK'
  BY <1>1, PoolKept, LoadsKept DEF pool, ChoicesOK
<1> QED  BY <1>4, <1>5, <1>6, <1>7

-----------------------------------------------------------------------------
(* The steps that change the pool.                                         *)
LEMMA InvFullBlocks ==
  ASSUME SchedulerInv, NEW r \in Req, StoreFullBlocks(r)
  PROVE  SchedulerInv'
<1> USE DEF SchedulerInv
<1> DEFINE ks  == ToStore(Index!full_keys(turn[r]))
           new == [k \in ks |-> [of |-> k[2], ready |-> TRUE]]
<1>1. UNCHANGED <<rec, by_tail, by_parent, by_conv, entry, running, st, _req_conv, _tail_choice,
                  _pending, building, _plans, tail_pins, stores, loads>>
  BY DEF StoreFullBlocks, index
<1>2. PICK gone \in Room(ks, ks) : chunks' = Exchange(gone, new) /\ bound' = bound \ gone
  BY DEF StoreFullBlocks
<1>3. ks \subseteq P!full_keys(turn[r]) /\ ks \cap Resident = {}
  BY SameNames DEF ToStore
<1>4. IsFiniteSet(ks)
  BY <1>3, TurnKeys, FS_Subset DEF P!new_keys
<1>5. \A k \in ks : new[k] \in Chunk
  <2> SUFFICES ASSUME NEW k \in ks  PROVE k[2] \in Seq(Nat)
    BY DEF Chunk
  <2>1. PICK m \in 1 .. P!end(turn[r]) \div block_size :
          k = <<"full", SubSeq(turn[r], 1, m * block_size)>>
    BY <1>3 DEF P!full_keys, P!full_key
  <2>2. turn[r] \in Turns /\ turn[r] \in Seq(Nat) /\ block_size \in Nat
    BY TurnKeys, SchedulerAssumption
  <2>3. m * block_size \in block_size .. Len(turn[r])
    BY <2>2, IndexAssumed, P!WholeBlocks
  <2>4. m * block_size \in 0 .. Len(turn[r])
    BY <2>2, <2>3
  <2>5. SubSeq(turn[r], 1, m * block_size) \in Seq(Nat)
    BY <2>2, <2>4, IndexAssumed, P!Prefix
  <2> QED  BY <2>1, <2>5
<1>6. DOMAIN new = ks
  OBVIOUS
<1> HIDE DEF ks, new
<1>7. /\ \A k \in gone : Evictable(k)
      /\ IsFiniteSet((Resident \ gone) \cup ks)
      /\ Cardinality((Resident \ gone) \cup ks) <= budget_bytes
  BY <1>2, <1>3, <1>4, RoomFits
<1>8. /\ \A k \in Resident' : chunks'[k] \in Chunk
      /\ \A j \in stores : \A k \in j.keys : k \in Resident' /\ ~chunks'[k].ready
      /\ \A j \in loads : j.seen \/ Len(j.key) % block_size # 0 =>
           \A k \in j.keys : k \in Resident' /\ chunks'[k].ready
  BY <1>2, <1>3, <1>5, <1>6, <1>7, CopiesUntouched
<1>9. Resident' = (Resident \ gone) \cup ks
  BY <1>2, <1>6, ExchangeFacts
<1>10. PoolInv'
  BY <1>1, <1>2, <1>7, <1>8, <1>9 DEF PoolInv
<1>11. LoadsReadWhatWasFound'
  BY <1>1, <1>8 DEF LoadsReadWhatWasFound
<1>12. P!IndexInv'
  BY <1>1, RecordFacts, IndexKept DEF P!IndexInv
<1>13. TailsHeld' /\ NotedRun' /\ ChoicesOK'
  BY <1>1 DEF TailsHeld, NotedRun, ChoicesOK
<1> QED  BY <1>10, <1>11, <1>12, <1>13

(* A tail that is given up, or found resident, only leaves the queue.      *)
LEMMA InvGivesUp ==
  ASSUME SchedulerInv, PrepareDrops \/ PrepareResident
  PROVE  SchedulerInv'
<1> USE DEF SchedulerInv
<1>1. /\ UNCHANGED <<rec, by_tail, by_parent, by_conv, entry, running, st, _req_conv, _tail_choice,
                     _plans, stores, loads, chunks, bound>>
      /\ PrepareGivesUp
      /\ building = "store" \/ _pending # <<>>
  BY DEF PrepareDrops, PrepareResident, index, pool
<1>2. TailsHeld'
  BY <1>1, AdvanceKeeps DEF TailsHeld
<1>3. P!IndexInv'
  BY <1>1, RecordFacts, IndexKept DEF P!IndexInv
<1>4. PoolInv' /\ LoadsReadWhatWasFound' /\ NotedRun' /\ ChoicesOK'
  BY <1>1, PoolKept, LoadsKept DEF NotedRun, ChoicesOK
<1> QED  BY <1>2, <1>3, <1>4

(* The tail at the head of the queue is stored in the index.               *)
LEMMA InvIndexes ==
  ASSUME SchedulerInv, PrepareIndexes
  PROVE  SchedulerInv'
<1> USE DEF SchedulerInv
<1> DEFINE r     == Head(_pending)
           t     == turn[r]
           freed == take_evictable(Index!released_keys(t))
<1>1. /\ UNCHANGED <<st, _req_conv, _tail_choice, _pending, tail_pins, stores, loads>>
      /\ building' = "store" /\ _pending # <<>>
      /\ chunks' = Exchange(freed, <<>>)
      /\ bound' = (bound \ freed) \cup P!new_keys(t)
      /\ P!store(t)
  BY SameNames, SameStore DEF PrepareIndexes
<1>2. r \in Req /\ t \in Turns /\ P!new_keys(t) \subseteq AllKeys
  <2>1. r \in Req
    BY <1>1, LeavesQueue DEF TailsHeld
  <2> QED  BY <2>1, TurnKeys
<1>3. \A k \in freed : Evictable(k)
  BY DEF take_evictable
<1> HIDE DEF r, t, freed
<1>4. P!IndexInv'
  BY <1>1, <1>2, IndexAssumed, P!InvStore
<1>5. NotedRun'
  <2>1. running' = running \ P!_plan_victims(t)
    BY <1>1 DEF P!store
  <2>2. \A v \in P!_plan_victims(t) : v \notin running
    BY IndexAssumed, P!VictimFacts DEF P!Protected
  <2> QED  BY <1>1, <2>1, <2>2 DEF NotedRun
<1>6. /\ \A k \in Resident' : chunks'[k] \in Chunk
      /\ \A j \in stores : \A k \in j.keys : k \in Resident' /\ ~chunks'[k].ready
      /\ \A j \in loads : j.seen \/ Len(j.key) % block_size # 0 =>
           \A k \in j.keys : k \in Resident' /\ chunks'[k].ready
  BY <1>1, <1>3, CopiesUntouched
<1>7. PoolInv'
  <2>1. Resident' = Resident \ freed
    BY <1>1, ExchangeFacts
  <2>2. IsFiniteSet(Resident') /\ Cardinality(Resident') <= Cardinality(Resident)
    BY <2>1, FS_Subset DEF PoolInv
  <2>3. Cardinality(Resident') \in Nat /\ Cardinality(Resident) \in Nat /\ budget_bytes \in Nat
    BY <2>2, FS_CardinalityType, SchedulerAssumption DEF PoolInv
  <2>4. Cardinality(Resident') <= budget_bytes
    BY <2>2, <2>3 DEF PoolInv
  <2> QED  BY <1>1, <1>2, <1>6, <2>2, <2>4 DEF PoolInv
<1>8. TailsHeld' /\ ChoicesOK' /\ LoadsReadWhatWasFound'
  BY <1>1, <1>6 DEF TailsHeld, ChoicesOK, LoadsReadWhatWasFound
<1> QED  BY <1>4, <1>5, <1>7, <1>8

(* A job is started that copies the tail at the head of the queue.         *)
LEMMA InvStores ==
  ASSUME SchedulerInv, PrepareStores
  PROVE  SchedulerInv'
<1> USE DEF SchedulerInv
<1> DEFINE r   == Head(_pending)
           ks  == ToStore(Index!tail_keys(turn[r]))
           key == Index!Key(turn[r])
           new == [k \in ks |-> [of |-> key, ready |-> FALSE]]
           job == [req |-> r, keys |-> ks]
<1>1. /\ UNCHANGED <<rec, by_tail, by_parent, by_conv, entry, running, st, _req_conv, _tail_choice,
                     _plans, loads>>
      /\ building = "store" /\ stores' = stores \cup {job} /\ tail_pins' = tail_pins
      /\ _pending' = Tail(_pending)
      /\ building' = IF Len(_pending) = 1 THEN "no" ELSE "next"
  BY DEF PrepareStores, index, Advance, HeldUntilDone
<1>2. PICK gone \in Room(ks, Index!new_keys(turn[r])) :
        chunks' = Exchange(gone, new) /\ bound' = bound \ gone
  BY DEF PrepareStores
<1>3. /\ _pending \in Seq(Req) /\ IsInjective(_pending) /\ _pending # <<>>
      /\ tail_pins \in [Req -> {0, 1}]
  BY <1>1 DEF TailsHeld
<1>4. /\ r \in Req /\ In(_pending, r) /\ _pending' \in Seq(Req) /\ IsInjective(_pending')
      /\ \A s : In(_pending', s) <=> In(_pending, s) /\ s # r
      /\ Len(_pending) # 1 => _pending' # <<>>
  BY <1>1, <1>3, LeavesQueue
<1>5. job.req = r /\ job.keys = ks
  OBVIOUS
<1>6. ks \subseteq P!tail_keys(turn[r]) /\ ks \cap Resident = {}
  BY SameNames DEF ToStore
<1>7. IsFiniteSet(ks)
  BY <1>4, <1>6, TurnKeys, FS_Subset DEF P!new_keys
<1>8. key \in Seq(Nat)
  BY <1>4, TurnKeys, SameNames, IndexAssumed, P!TurnFacts
<1>9. /\ DOMAIN new = ks /\ \A k \in ks : new[k].ready = FALSE
      /\ \A k \in DOMAIN new : new[k] \in Chunk
  <2> HIDE DEF key, ks
  <2> QED  BY <1>8 DEF Chunk
<1> HIDE DEF r, ks, key, new, job
<1>10. TailsHeld'
  <2>1. \A s \in Req : tail_pins'[s] = 1 <=> In(_pending', s) \/ \E j \in stores' : j.req = s
    BY <1>1, <1>4, <1>5 DEF TailsHeld
  <2>2. building' \in {"no", "next", "store"} /\ (building' # "no" => _pending' # <<>>)
    BY <1>1, <1>4
  <2>3. \A j \in stores' : j.req \in Req /\ st'[j.req] = "done" /\ ~In(_pending', j.req)
    BY <1>1, <1>4, <1>5 DEF TailsHeld
  <2>4. \A i, j \in stores' : i.req = j.req => i = j
    BY <1>1, <1>4, <1>5 DEF TailsHeld
  <2>5. \A s \in Req : In(_pending', s) => st'[s] = "done"
    BY <1>1, <1>4 DEF TailsHeld
  <2> QED  BY <1>1, <1>4, <2>1, <2>2, <2>3, <2>4, <2>5 DEF TailsHeld
<1>11. /\ \A k \in gone : Evictable(k)
       /\ IsFiniteSet((Resident \ gone) \cup ks)
       /\ Cardinality((Resident \ gone) \cup ks) <= budget_bytes
  BY <1>2, <1>6, <1>7, RoomFits
<1>12. /\ \A k \in Resident' : chunks'[k] \in Chunk
       /\ \A j \in stores : \A k \in j.keys : k \in Resident' /\ ~chunks'[k].ready
       /\ \A j \in loads : j.seen \/ Len(j.key) % block_size # 0 =>
            \A k \in j.keys : k \in Resident' /\ chunks'[k].ready
  BY <1>2, <1>6, <1>9, <1>11, CopiesUntouched
<1>13. /\ Resident' = (Resident \ gone) \cup ks
       /\ \A k \in ks : chunks'[k] = new[k]
  BY <1>2, <1>9, ExchangeFacts
<1>14. PoolInv'
  <2>1. \A j \in stores' : \A k \in j.keys : k \in Resident' /\ ~chunks'[k].ready
    BY <1>1, <1>5, <1>9, <1>12, <1>13
  <2>2. \A j \in stores : j.keys \cap ks = {}
    BY <1>6 DEF PoolInv
  <2>3. \A i, j \in stores' : i # j => i.keys \cap j.keys = {}
    BY <1>1, <1>5, <2>2 DEF PoolInv
  <2> QED  BY <1>2, <1>11, <1>12, <1>13, <2>1, <2>3 DEF PoolInv
<1>15. P!IndexInv'
  BY <1>1, RecordFacts, IndexKept DEF P!IndexInv
<1>16. LoadsReadWhatWasFound' /\ NotedRun' /\ ChoicesOK'
  BY <1>1, <1>12 DEF LoadsReadWhatWasFound, NotedRun, ChoicesOK
<1> QED  BY <1>10, <1>14, <1>15, <1>16

(* It cannot be stored, and its record is taken back.                      *)
LEMMA InvAborts ==
  ASSUME SchedulerInv, PrepareAborts
  PROVE  SchedulerInv'
<1> USE DEF SchedulerInv
<1> DEFINE i == CHOOSE j \in by_tail : TailKey(j) = Index!Key(turn[Head(_pending)])
<1>1. /\ UNCHANGED <<st, _req_conv, _tail_choice, stores, loads, chunks>>
      /\ building = "store" /\ PrepareGivesUp
      /\ bound' \subseteq bound
      /\ Index!discard(i)
  BY DEF PrepareAborts
<1>2. i \in DOMAIN rec /\ P!discard(i)
  <2>1. i \in by_tail
    BY <1>1 DEF Index!discard
  <2> QED  BY <1>1, <2>1, SameDiscard, RecordFacts
<1> HIDE DEF i
<1>3. P!IndexInv' /\ running' = running
  <2>1. P!IndexInv'
    BY <1>2, IndexAssumed, P!InvDiscard
  <2> QED  BY <1>2, <2>1 DEF P!discard
<1>4. TailsHeld'
  BY <1>1, AdvanceKeeps DEF TailsHeld
<1>5. PoolInv' /\ LoadsReadWhatWasFound' /\ NotedRun' /\ ChoicesOK'
  BY <1>1, <1>3, LoadsKept DEF PoolInv, Resident, NotedRun, ChoicesOK
<1> QED  BY <1>3, <1>4, <1>5

(* A job ends.  Its chunks were nobody else's.                             *)
LEMMA InvStoreDone ==
  ASSUME SchedulerInv, NEW j \in stores, StoreDone(j)
  PROVE  SchedulerInv'
<1> USE DEF SchedulerInv
<1> DEFINE r   == j.req
           new == [k \in j.keys |-> [chunks[k] EXCEPT !.ready = TRUE]]
<1>1. /\ UNCHANGED <<rec, by_tail, by_parent, by_conv, entry, running, st, _req_conv, _tail_choice,
                     _pending, building, _plans, loads>>
      /\ stores' = stores \ {j} /\ tail_pins' = [tail_pins EXCEPT ![r] = @ - 1]
      /\ building = "no"
      /\ \/ chunks' = Exchange({}, new) /\ bound' = bound
         \/ chunks' = Exchange(j.keys, <<>>) /\ bound' = bound \ j.keys
  BY DEF StoreDone, index, _release_pin
<1>2. TailsHeld'
  <2>1. r \in Req /\ tail_pins \in [Req -> {0, 1}] /\ tail_pins[r] = 1 /\ ~In(_pending, r)
    BY DEF TailsHeld
  <2>2. /\ tail_pins' \in [Req -> {0, 1}] /\ tail_pins'[r] = 0
        /\ \A s \in Req \ {r} : tail_pins'[s] = tail_pins[s]
    BY <1>1, <2>1
  <2>3. \A s \in Req : tail_pins'[s] = 1 <=> In(_pending', s) \/ \E i \in stores' : i.req = s
    BY <1>1, <2>1, <2>2 DEF TailsHeld
  <2> QED  BY <1>1, <2>2, <2>3 DEF TailsHeld
<1>3. \A k \in j.keys : k \in Resident /\ chunks[k] \in Chunk /\ ~chunks[k].ready
  BY DEF PoolInv
<1>4. \A i \in stores' : i \in stores /\ i.keys \cap j.keys = {}
  BY <1>1 DEF PoolInv
<1>5. IsFiniteSet(Resident) /\ Cardinality(Resident) <= budget_bytes /\ budget_bytes \in Nat
  BY SchedulerAssumption DEF PoolInv
<1>6. CASE chunks' = Exchange({}, new) /\ bound' = bound
  <2>1. DOMAIN new = j.keys
    OBVIOUS
  <2>2. \A k \in j.keys : new[k] \in Chunk /\ new[k].ready
    BY <1>3 DEF Chunk
  <2> HIDE DEF new
  <2>3. /\ Resident' = Resident /\ \A k \in j.keys : chunks'[k] = new[k]
        /\ \A k \in Resident \ j.keys : chunks'[k] = chunks[k]
    BY <1>3, <1>6, <2>1, ExchangeFacts
  <2>4. PoolInv'
    <3>1. \A k \in Resident' : chunks'[k] \in Chunk
      BY <2>2, <2>3 DEF PoolInv
    <3>2. \A i \in stores' : \A k \in i.keys : k \in Resident' /\ ~chunks'[k].ready
      BY <1>4, <2>3 DEF PoolInv
    <3> QED  BY <1>1, <1>5, <1>6, <2>3, <3>1, <3>2 DEF PoolInv
  <2>5. LoadsReadWhatWasFound'
    BY <1>1, <2>2, <2>3 DEF LoadsReadWhatWasFound
  <2> QED  BY <2>4, <2>5, <1>1, <1>2, RecordFacts, IndexKept DEF P!IndexInv, NotedRun, ChoicesOK
<1>7. CASE chunks' = Exchange(j.keys, <<>>) /\ bound' = bound \ j.keys
  <2>1. /\ Resident' = Resident \ j.keys
        /\ \A k \in Resident \ j.keys : chunks'[k] = chunks[k]
    BY <1>7, ExchangeFacts
  <2>2. PoolInv'
    <3>1. \A k \in Resident' : chunks'[k] \in Chunk
      BY <2>1 DEF PoolInv
    <3>2. \A i \in stores' : \A k \in i.keys : k \in Resident' /\ ~chunks'[k].ready
      BY <1>4, <2>1 DEF PoolInv
    <3>3. IsFiniteSet(Resident') /\ Cardinality(Resident') <= Cardinality(Resident)
      BY <1>5, <2>1, FS_Subset
    <3>4. Cardinality(Resident') \in Nat /\ Cardinality(Resident) \in Nat
      BY <1>5, <3>3, FS_CardinalityType
    <3>5. Cardinality(Resident') <= budget_bytes
      BY <1>5, <3>3, <3>4
    <3> QED  BY <1>1, <1>7, <3>1, <3>2, <3>3, <3>5 DEF PoolInv
  <2>3. LoadsReadWhatWasFound'
    BY <1>1, <1>3, <2>1 DEF LoadsReadWhatWasFound
  <2> QED  BY <2>2, <2>3, <1>1, <1>2, RecordFacts, IndexKept DEF P!IndexInv, NotedRun, ChoicesOK
<1> QED  BY <1>1, <1>6, <1>7

-----------------------------------------------------------------------------
LEMMA InvInit == Init => SchedulerInv
<1> SUFFICES ASSUME Init PROVE SchedulerInv
  OBVIOUS
<1>1. P!IndexInv
  BY IndexAssumed, P!InvInit, SameInit DEF Init
<1>2. TailsHeld
  BY DEF Init, TailsHeld, In, IsInjective
<1>3. Resident = {} /\ Cardinality(Resident) = 0 /\ IsFiniteSet(Resident)
  <2>1. Resident = {}
    BY DEF Init, Resident
  <2> QED  BY <2>1, FS_EmptySet
<1>4. PoolInv
  BY <1>3, SchedulerAssumption DEF Init, PoolInv
<1> QED  BY <1>1, <1>2, <1>4 DEF Init, SchedulerInv, NotedRun, ChoicesOK, LoadsReadWhatWasFound

LEMMA InvNext ==
  ASSUME SchedulerInv, [Next]_vars
  PROVE  SchedulerInv'
<1>1. CASE Next
  BY <1>1, InvNew, InvMatched, InvAlloc, InvLoadDone, InvFinished, InvFullBlocks, InvGivesUp,
     InvIndexes, InvStores, InvAborts, InvStoreDone DEF Next, Prepare
<1>2. CASE UNCHANGED vars
  <2>1. /\ UNCHANGED <<rec, by_tail, by_parent, by_conv, entry, running>>
        /\ UNCHANGED <<st, _req_conv, _tail_choice, _pending, building, tail_pins, stores, loads>>
        /\ UNCHANGED <<chunks, bound>>
    BY <1>2 DEF vars, index, pool
  <2>2. P!IndexInv'
    BY <2>1, RecordFacts, IndexKept DEF P!IndexInv, SchedulerInv
  <2> QED  BY <2>1, <2>2 DEF SchedulerInv, TailsHeld, NotedRun, PoolInv, ChoicesOK, LoadsReadWhatWasFound, Resident
<1> QED  BY <1>1, <1>2

LEMMA SchedulerInvariant == Spec => []SchedulerInv
  BY InvInit, InvNext, PTL DEF Spec

(* The state of the scheduler stays well typed, and the pool within its    *)
(* size: every eviction of ConversationCachePolicy frees what was asked,   *)
(* for every set of requests, whatever their turns and the pool's size.    *)
THEOREM TypeCorrect == Spec => []TypeOK
<1>1. SchedulerInv => TypeOK
  <2> SUFFICES ASSUME SchedulerInv PROVE TypeOK
    OBVIOUS
  <2>1. Index!TypeOK
    BY IndexAssumed, P!InvType, SameType DEF SchedulerInv
  <2>2. {P!Key(t) : t \in Turns} = {Index!Key(t) : t \in Turns}
    BY SameNames
  <2>3. AllKeys = UNION {Index!new_keys(t) : t \in Turns}
    BY SameNames DEF AllKeys
  <2> QED  BY <2>1, <2>2, <2>3 DEF SchedulerInv, TypeOK, TailsHeld, NotedRun, PoolInv, ChoicesOK
<1> QED  BY <1>1, SchedulerInvariant, PTL

(* The GPU blocks of a tail stay pinned from the moment it is queued until *)
(* the job that copies it is done, whatever happens to other tails.        *)
THEOREM CopiesHeld == Spec => []CopiedBlocksAreHeld
<1>1. SchedulerInv => CopiedBlocksAreHeld
  BY DEF SchedulerInv, TailsHeld, CopiedBlocksAreHeld
<1> QED  BY <1>1, SchedulerInvariant, PTL

(* Every load that was admitted on a lookup, of upstream or of a tail,     *)
(* reads resident and complete chunks until it ends, and so does every     *)
(* load of a tail that ends inside a block.  What is left is a tail chosen *)
(* in an earlier step, which is loaded without another look when upstream  *)
(* hits up to its end, a whole number of blocks.                           *)
THEOREM LoadsFound == Spec => []LoadsReadWhatWasFound
<1>1. SchedulerInv => LoadsReadWhatWasFound
  BY DEF SchedulerInv
<1> QED  BY <1>1, SchedulerInvariant, PTL

(* Storing a tail never drops from the park a conversation with a request  *)
(* in flight: _note_running counts them, and a victim is never running.    *)
THEOREM RunningStay == Spec => RunningConversationsStay
<1>1. ASSUME SchedulerInv, [Next]_vars, NEW r \in _req_conv,
             conv(r) \in Index!Parked, building' = "store"
      PROVE  conv(r) \in Index!Parked'
  <2>1. r \in Req /\ conv(r) = P!conv_id(turn[r]) /\ conv(r) \in running
    <3>1. r \in Req /\ P!conv_id(turn[r]) \in running
      BY <1>1 DEF SchedulerInv, NotedRun
    <3> QED  BY <3>1, RunningType
  <2>2. Index!Parked = P!Parked /\ Index!Parked' = P!Parked'
    BY DEF P!Parked, Index!Parked
  <2>3. CASE PrepareIndexes
    <3> DEFINE t == turn[Head(_pending)]
    <3>1. P!store(t) /\ _pending # <<>>
      BY <2>3, SameStore DEF PrepareIndexes
    <3>2. t \in Turns
      BY <1>1, <3>1, LeavesQueue, TurnKeys DEF SchedulerInv, TailsHeld
    <3> HIDE DEF t
    <3>3. P!Parked' = (P!Parked \ P!_plan_victims(t)) \cup {P!conv_id(t)}
      BY <1>1, <3>1, <3>2, IndexAssumed, P!StoreEffect DEF SchedulerInv
    <3>4. conv(r) \notin P!_plan_victims(t)
      BY <2>1, IndexAssumed, P!VictimFacts DEF P!Protected
    <3> QED  BY <1>1, <2>2, <3>3, <3>4
  <2>4. CASE UNCHANGED by_conv
    BY <1>1, <2>2, <2>4 DEF P!Parked
  <2>5. UNCHANGED by_conv \/ PrepareIndexes
    <3>1. CASE UNCHANGED vars
      BY <3>1 DEF vars, index
    <3>2. CASE Next
      BY <1>1, <3>2 DEF Next, Prepare, on_new_request, StoreFullBlocks, request_finished,
           get_num_new_matched_tokens, update_state_after_alloc, LoadDone, StoreDone,
           PrepareDrops, PrepareResident, PrepareStores, PrepareAborts, PrepareGivesUp, Advance
    <3> QED  BY <1>1, <3>1, <3>2
  <2> QED  BY <2>3, <2>4, <2>5
<1>2. SchedulerInv /\ [Next]_vars =>
        [\A r \in _req_conv : conv(r) \in Index!Parked /\ building' = "store"
           => conv(r) \in Index!Parked']_vars
  BY <1>1
<1> QED  BY <1>2, SchedulerInvariant, PTL DEF Spec, RunningConversationsStay

(* Making room in the pool, for a tail or for full blocks, takes all the   *)
(* chunks of a conversation or none, and nothing that a store releases     *)
(* belongs to a conversation that stays as it was.                         *)
THEOREM WholeConversationsGo == Spec => EvictsWholeConversations
<1>1. ASSUME NEW n \in Int, NEW protected, NEW gone \in evict(n, protected), SchedulerInv,
             NEW new, chunks' = Exchange(gone, new), bound' = bound \ gone,
             DOMAIN new \subseteq protected,
             NEW c, NEW k \in ConvChunks(c), k \notin Resident'
      PROVE  ConvChunks(c)' = {}
  <2>1. Resident' = (Resident \ gone) \cup DOMAIN new
    BY <1>1, ExchangeFacts
  <2>2. k \in gone
    BY <1>1, <2>1 DEF ConvChunks
  <2>3. ConvChunks(c) \subseteq gone /\ KeysOfConv(c) \cap bound \cap protected = {}
    BY <1>1, <2>2, EvictsWhole DEF SchedulerInv, PoolInv
  <2>4. ConvChunks(c)' = KeysOfConv(c) \cap bound' \cap Resident'
    BY DEF ConvChunks, KeysOfConv, conv
  <2>5. ConvChunks(c) = KeysOfConv(c) \cap bound \cap Resident
    BY DEF ConvChunks
  <2> QED  BY <1>1, <2>1, <2>3, <2>4, <2>5
<1>2. ASSUME SchedulerInv, [Next]_vars, NEW c \in Index!Parked, c \in Index!Parked',
             entry'[c] = entry[c], \A j \in stores : j \in stores',
             \E k \in ConvChunks(c) : k \notin Resident'
      PROVE  ConvChunks(c)' = {}
  <2>1. PICK k \in ConvChunks(c) : k \notin Resident'
    BY <1>2
  <2>2. k \in KeysOfConv(c) /\ k \in Resident
    BY DEF ConvChunks
  <2>3. chunks' # chunks
    BY <2>1, <2>2 DEF Resident
  <2>4. CASE \E r \in Req : StoreFullBlocks(r)
    <3>1. PICK r \in Req : StoreFullBlocks(r)
      BY <2>4
    <3> DEFINE ks  == ToStore(Index!full_keys(turn[r]))
               new == [x \in ks |-> [of |-> x[2], ready |-> TRUE]]
    <3>2. PICK gone \in Room(ks, ks) : chunks' = Exchange(gone, new) /\ bound' = bound \ gone
      BY <3>1 DEF StoreFullBlocks
    <3>3. IsFiniteSet(ks) /\ ks \cap Resident = {} /\ DOMAIN new = ks
      BY TurnKeys, SameNames, FS_Subset DEF ToStore, P!new_keys
    <3> HIDE DEF ks, new
    <3>4. PICK n \in Int : gone \in evict(n, ks)
      BY <1>2, <3>2, <3>3, RoomFits DEF SchedulerInv
    <3> QED  BY <1>1, <1>2, <2>1, <3>2, <3>3, <3>4
  <2>5. CASE PrepareStores
    <3> DEFINE r   == Head(_pending)
               ks  == ToStore(Index!tail_keys(turn[r]))
               new == [x \in ks |-> [of |-> Index!Key(turn[r]), ready |-> FALSE]]
               protected == Index!new_keys(turn[r])
    <3>1. PICK gone \in Room(ks, protected) : chunks' = Exchange(gone, new) /\ bound' = bound \ gone
      BY <2>5 DEF PrepareStores
    <3>2. r \in Req
      BY <1>2, <2>5, LeavesQueue DEF PrepareStores, SchedulerInv, TailsHeld
    <3>3. IsFiniteSet(ks) /\ ks \cap Resident = {} /\ DOMAIN new = ks /\ ks \subseteq protected
      BY <3>2, TurnKeys, SameNames, FS_Subset DEF ToStore, P!new_keys
    <3> HIDE DEF ks, new, protected
    <3>4. PICK n \in Int : gone \in evict(n, protected)
      BY <1>2, <3>1, <3>3, RoomFits DEF SchedulerInv
    <3> QED  BY <1>1, <1>2, <2>1, <3>1, <3>3, <3>4
  <2>6. CASE PrepareIndexes
    <3> DEFINE t     == turn[Head(_pending)]
               freed == take_evictable(Index!released_keys(t))
    <3>1. P!store(t) /\ _pending # <<>> /\ chunks' = Exchange(freed, <<>>)
      BY <2>6, SameStore DEF PrepareIndexes
    <3>2. t \in Turns
      BY <1>2, <3>1, LeavesQueue, TurnKeys DEF SchedulerInv, TailsHeld
    <3>3. freed \subseteq P!released_keys(t)
      BY SameReleased DEF take_evictable
    <3> HIDE DEF t, freed
    <3>4. k \in freed
      BY <2>1, <2>2, <3>1, ExchangeFacts
    <3>5. PICK d \in P!Parked : /\ k \in entry[d].full_keys
                                /\ d \in P!_plan_victims(t) \/ d = P!conv_id(t)
      BY <3>3, <3>4, IndexAssumed, P!VictimFacts DEF P!released_keys
    <3>6. PICK u \in Turns : P!conv_id(u) = d /\ k \in P!new_keys(u)
      BY <1>2, <3>5 DEF SchedulerInv, P!IndexInv, P!EntriesOK
    <3>7. k \in KeysOfConv(d)
      BY <3>6, SameNames DEF KeysOfConv, conv, Turns
    <3>8. d = c
      BY <2>2, <3>7, KeysApart
    <3>9. c \in P!Parked'
      BY <1>2 DEF P!Parked, Index!Parked
    <3>10. CASE c \in P!_plan_victims(t)
      <4>1. P!Parked' = (P!Parked \ P!_plan_victims(t)) \cup {P!conv_id(t)}
        BY <1>2, <3>1, <3>2, IndexAssumed, P!StoreEffect DEF SchedulerInv
      <4>2. c # P!conv_id(t)
        BY <3>10, IndexAssumed, P!VictimFacts
      <4> QED  BY <3>9, <3>10, <4>1, <4>2
    <3>11. CASE c = P!conv_id(t)
      <4>1. entry'[c].records # entry[c].records
        <5> DEFINE own  == P!conv_id(t)
                   new == Len(rec) + 1
                   old == IF own \in P!Parked THEN entry[own].records ELSE {}
                   e   == [records |-> old \cup {new}, full_keys |-> P!new_keys(t),
                           nbytes |-> P!nbytes(t)]
        <5>1. entry'[own] = e /\ new \notin DOMAIN rec
          BY <1>2, <3>1, <3>2, IndexAssumed, P!StoreShape DEF SchedulerInv
        <5>2. new \in e.records
          OBVIOUS
        <5>3. new \in entry'[c].records
          BY <3>11, <5>1, <5>2
        <5>4. entry[c].records \subseteq DOMAIN rec
          BY <1>2, <3>5, <3>8 DEF SchedulerInv, P!IndexInv, P!EntriesOK
        <5> HIDE DEF e, new
        <5> QED  BY <5>1, <5>3, <5>4
      <4> QED  BY <1>2, <4>1
    <3> QED  BY <3>5, <3>8, <3>10, <3>11
  <2>7. CASE \E j \in stores : StoreDone(j)
    BY <1>2, <2>7 DEF StoreDone
  <2>8. \/ UNCHANGED chunks
        \/ \E r \in Req : StoreFullBlocks(r)
        \/ PrepareStores \/ PrepareIndexes
        \/ \E j \in stores : StoreDone(j)
    <3>1. CASE UNCHANGED vars
      BY <3>1 DEF vars, pool
    <3>2. CASE Next
      BY <3>2 DEF Next, Prepare, on_new_request, request_finished, get_num_new_matched_tokens,
           update_state_after_alloc, LoadDone, PrepareDrops, PrepareResident, PrepareAborts, pool
    <3> QED  BY <1>2, <3>1, <3>2
  <2> QED  BY <2>3, <2>4, <2>5, <2>6, <2>7, <2>8
<1>3. SchedulerInv /\ [Next]_vars =>
        [\A c \in Index!Parked :
           /\ c \in Index!Parked'
           /\ entry'[c] = entry[c]
           /\ \A j \in stores : j \in stores'
           /\ \E k \in ConvChunks(c) : k \notin Resident'
           => ConvChunks(c)' = {}]_vars
  BY <1>2
<1> QED  BY <1>3, SchedulerInvariant, PTL DEF Spec, EvictsWholeConversations

=============================================================================
