-------------------------- MODULE CatalogCache_proofs --------------------------
(***************************************************************************)
(* What is shown is never older than BoundedStaleness says, for any number *)
(* of requests, instances and writes and any life of an entry.             *)
(*                                                                         *)
(* BoundedStaleness is not inductive: an entry is as old as the copy it    *)
(* was made of, and a copy as what it was read from.  So the bound runs    *)
(* along that way.  A copy on its way into Redis came out of the row after *)
(* the call began (Fresh); one from Redis has a life more behind it        *)
(* (Modest); and what an entry has left counts as age already (RemoteAge,  *)
(* LocalAge).                                                              *)
(*                                                                         *)
(* That a quiet write is seen needs to know what the calls under way have  *)
(* still to do (SeenInv).                                                  *)
(***************************************************************************)
EXTENDS CacheProperties, SequenceTheorems, TLAPS

Kinds == {"load_redis", "read_row", "save_local", "save_redis", "drop_local", "drop_redis"}

Accesses == [what : Kinds, key : Keys]

Calls == [at : Instances \cup {None}, todo : Seq(Accesses), copy : Copies,
          ticks : 0 .. CallTime, writes : BOOLEAN, alone : BOOLEAN]

Does(todo, what) == \E k \in 1 .. Len(todo) : todo[k].what = what

Fresh(c) == Does(c.todo, "save_redis") => c.copy.past <= c.ticks

Modest(c) == c.copy.past <= TTL + CallTime + c.ticks

CallOK(c) == c \in Calls /\ Fresh(c) /\ Modest(c)

RemoteAge(e) == Valid(e) => e.past + e.left <= TTL + CallTime

LocalAge(e) == Valid(e) => e.past + e.left <= 2 * TTL + 2 * CallTime

CacheTypes ==
  /\ kind \in {"product", "sku"}
  /\ row \in Versions
  /\ local \in [Instances -> [Keys -> Entries]]
  /\ remote \in [Keys -> Entries]
  /\ call \in [Callers -> Calls]
  /\ quiet \in [Instances -> Versions]

Ages ==
  /\ \A k \in Keys : RemoteAge(remote[k])
  /\ \A i \in Instances, k \in Keys : LocalAge(local[i][k])
  /\ \A p \in Callers : Fresh(call[p]) /\ Modest(call[p])

StalenessInv == CacheTypes /\ Ages

-----------------------------------------------------------------------------
(* The parts of a call *)

LEMMA Parameters == TTL \in Nat /\ CallTime \in Nat /\ MaxWrites \in Nat
BY CacheAssumption

LEMMA Bounds == Ancient \in Nat /\ Ancient = 2 * TTL + 2 * CallTime + 1
BY Parameters DEF Ancient

LEMMA Constants ==
  /\ Nothing \in Copies
  /\ Miss \in Entries /\ ~Valid(Miss)
  /\ Idle \in Calls /\ Fresh(Idle) /\ Modest(Idle)
<1>1. 0 \in Versions /\ 0 \in 0 .. Ancient
  BY Parameters, Bounds DEF Versions
<1>2. Nothing \in Copies
  BY <1>1 DEF Nothing, Copies
<1>3. Miss \in Entries /\ ~Valid(Miss)
  BY <1>1, Parameters DEF Miss, Entries, Valid
<1>4. Idle \in Calls
  BY <1>2, Parameters DEF Idle, Calls
<1>5. Fresh(Idle) /\ Modest(Idle)
  BY Parameters DEF Fresh, Modest, Does, Idle, Nothing
<1> QED
  BY <1>2, <1>3, <1>4, <1>5

\* An entry made of a copy.
LEMMA HitOf ==
  ASSUME NEW copy \in Copies
  PROVE  /\ Hit(copy) \in Entries
         /\ Hit(copy).past = copy.past /\ Hit(copy).left = TTL /\ Hit(copy).v = copy.v
BY Parameters DEF Hit, Copies, Entries

\* Doing what is left, or less of it.
LEMMA TailDoes ==
  ASSUME NEW todo \in Seq(Accesses), todo # << >>, NEW what \in Kinds
  PROVE  /\ Tail(todo) \in Seq(Accesses)
         /\ Does(Tail(todo), what) => Does(todo, what)
<1>1. Tail(todo) \in Seq(Accesses) /\ Len(Tail(todo)) = Len(todo) - 1
      /\ \A k \in 1 .. Len(Tail(todo)) : Tail(todo)[k] = todo[k + 1]
  BY HeadTailProperties
<1>2. Len(todo) \in Nat
  BY LenProperties
<1>3. ASSUME NEW k \in 1 .. Len(Tail(todo)), Tail(todo)[k].what = what
      PROVE  \E l \in 1 .. Len(todo) : todo[l].what = what
  <2>1. k + 1 \in 1 .. Len(todo)
    BY <1>1, <1>2
  <2> QED
    BY <2>1, <1>1, <1>3
<1> QED
  BY <1>1, <1>3 DEF Does

LEMMA HeadOf ==
  ASSUME NEW todo \in Seq(Accesses), todo # << >>
  PROVE  /\ Head(todo) \in Accesses
         /\ Head(todo).what \in Kinds /\ Head(todo).key \in Keys
         /\ Does(todo, Head(todo).what)
<1>1. Head(todo) \in Accesses /\ Head(todo) = todo[1]
  BY HeadTailProperties, ElementOfSeq, EmptySeq, LenProperties
<1>2. 1 \in 1 .. Len(todo)
  BY EmptySeq, LenProperties
<1> QED
  BY <1>1, <1>2 DEF Does, Accesses

-----------------------------------------------------------------------------
(* What every call does *)

LEMMA BeginTypes ==
  ASSUME CacheTypes, NEW p \in Callers, NEW i \in Instances, NEW todo \in Seq(Accesses),
         NEW copy \in Copies, NEW writes \in BOOLEAN, Begin(p, i, todo, copy, writes)
  PROVE  /\ call' \in [Callers -> Calls]
         /\ call'[p].todo = todo /\ call'[p].copy = copy /\ call'[p].ticks = 0
         /\ \A q \in Callers \ {p} :
              /\ call'[q].todo = call[q].todo
              /\ call'[q].copy = call[q].copy
              /\ call'[q].ticks = call[q].ticks
<1> DEFINE alone == {q \in Callers : Busy(q)} = {}
<1> DEFINE new == [at |-> i, todo |-> todo, copy |-> copy, ticks |-> 0, writes |-> writes, alone |-> alone]
<1>1. call' = [q \in Callers |-> IF q = p THEN new ELSE [call[q] EXCEPT !.alone = FALSE]]
  BY DEF Begin
<1>2. alone \in BOOLEAN
  OBVIOUS
<1> HIDE DEF alone
<1>3. new \in Calls
  BY <1>2, Parameters DEF Calls
<1>4. \A q \in Callers : call[q] \in Calls /\ [call[q] EXCEPT !.alone = FALSE] \in Calls
  BY DEF Calls, CacheTypes
<1>5. \A q \in Callers : /\ [call[q] EXCEPT !.alone = FALSE].todo = call[q].todo
                         /\ [call[q] EXCEPT !.alone = FALSE].copy = call[q].copy
                         /\ [call[q] EXCEPT !.alone = FALSE].ticks = call[q].ticks
  BY <1>4 DEF Calls
<1> QED
  BY <1>1, <1>3, <1>4, <1>5

\* A call begins with nothing read, or with what it has just written.
LEMMA BeginKeeps ==
  ASSUME StalenessInv, NEW p \in Callers, NEW i \in Instances, NEW todo \in Seq(Accesses),
         NEW copy \in Copies, copy.past = 0, NEW writes \in BOOLEAN, row' \in Versions,
         Begin(p, i, todo, copy, writes)
  PROVE  StalenessInv'
<1>1. UNCHANGED <<kind, local, remote, quiet>>
  BY DEF Begin
<1>2. CacheTypes'
  BY <1>1, BeginTypes DEF StalenessInv, CacheTypes
<1>3. ASSUME NEW q \in Callers PROVE Fresh(call'[q]) /\ Modest(call'[q])
  <2>1. CASE q = p
    BY <2>1, BeginTypes, Parameters DEF StalenessInv, Fresh, Modest
  <2>2. CASE q # p
    BY <2>2, BeginTypes DEF StalenessInv, Ages, Fresh, Modest
  <2> QED
    BY <2>1, <2>2
<1> QED
  BY <1>1, <1>2, <1>3 DEF StalenessInv, Ages

\* The record of a call that goes on.
LEMMA ContinueTypes ==
  ASSUME CacheTypes, NEW p \in Callers, NEW todo \in Seq(Accesses), NEW copy \in Copies,
         NEW alone \in BOOLEAN, Continue(p, todo, copy, alone)
  PROVE  /\ call' \in [Callers -> Calls]
         /\ quiet' \in [Instances -> Versions]
         /\ \/ call'[p] = Idle
            \/ call'[p].todo = todo /\ call'[p].copy = copy /\ call'[p].ticks = call[p].ticks
         /\ \A q \in Callers \ {p} : call'[q] = call[q]
<1> DEFINE new == [call[p] EXCEPT !.todo = todo, !.copy = copy, !.alone = alone]
<1>1. call[p] \in Calls
  BY DEF CacheTypes
<1>2. new \in Calls /\ new.todo = todo /\ new.copy = copy /\ new.ticks = call[p].ticks
  BY <1>1 DEF Calls
<1>3. call' = [call EXCEPT ![p] = IF todo = << >> THEN Idle ELSE new]
  BY DEF Continue
<1>4. call[p].copy.v \in Versions
  BY <1>1 DEF Calls, Copies
<1>5. quiet' \in [Instances -> Versions]
  BY <1>4 DEF Continue, CacheTypes
<1> HIDE DEF new
<1> QED
  BY <1>2, <1>3, <1>5, Constants DEF CacheTypes

LEMMA ContinueKeeps ==
  ASSUME StalenessInv, NEW p \in Callers, NEW todo \in Seq(Accesses), NEW copy \in Copies,
         NEW alone \in BOOLEAN, Continue(p, todo, copy, alone),
         Does(todo, "save_redis") => copy.past <= call[p].ticks,
         copy.past <= TTL + CallTime + call[p].ticks,
         local' \in [Instances -> [Keys -> Entries]], remote' \in [Keys -> Entries],
         \A k \in Keys : RemoteAge(remote'[k]),
         \A i \in Instances, k \in Keys : LocalAge(local'[i][k])
  PROVE  StalenessInv'
<1>1. UNCHANGED <<kind, row>>
  BY DEF Continue
<1>2. CacheTypes'
  BY <1>1, ContinueTypes DEF StalenessInv, CacheTypes
<1>3. ASSUME NEW q \in Callers PROVE Fresh(call'[q]) /\ Modest(call'[q])
  <2>1. CASE q = p
    BY <2>1, ContinueTypes, Constants DEF StalenessInv, Fresh, Modest
  <2>2. CASE q # p
    BY <2>2, ContinueTypes DEF StalenessInv, Ages
  <2> QED
    BY <2>1, <2>2
<1> QED
  BY <1>2, <1>3 DEF StalenessInv, Ages

\* The call's copy and what is left of it when its first access is done.
LEMMA RestOfCall ==
  ASSUME StalenessInv, NEW p \in Callers, Busy(p)
  PROVE  /\ call[p].todo \in Seq(Accesses) /\ Tail(call[p].todo) \in Seq(Accesses)
         /\ call[p].copy \in Copies /\ call[p].alone \in BOOLEAN /\ call[p].ticks \in 0 .. CallTime
         /\ Todo(p).key \in Keys
         /\ Does(call[p].todo, Todo(p).what)
         /\ Does(Tail(call[p].todo), "save_redis") => call[p].copy.past <= call[p].ticks
         /\ Does(call[p].todo, "save_redis") => call[p].copy.past <= call[p].ticks
         /\ call[p].copy.past <= TTL + CallTime + call[p].ticks
<1>1. call[p] \in Calls /\ call[p].todo # << >> /\ Fresh(call[p]) /\ Modest(call[p])
  BY DEF StalenessInv, CacheTypes, Ages, Busy
<1>2. call[p].todo \in Seq(Accesses)
  BY <1>1 DEF Calls
<1>3. Todo(p).key \in Keys /\ Does(call[p].todo, Todo(p).what)
  BY <1>1, <1>2, HeadOf DEF Todo
<1>4. /\ Tail(call[p].todo) \in Seq(Accesses)
      /\ Does(Tail(call[p].todo), "save_redis") => Does(call[p].todo, "save_redis")
  BY <1>1, <1>2, TailDoes DEF Kinds
<1> QED
  BY <1>1, <1>2, <1>3, <1>4 DEF Calls, Fresh, Modest

\* An access that leaves the call's copy alone.
LEMMA GoOnKeeps ==
  ASSUME StalenessInv, NEW p \in Callers, Busy(p), GoOn(p) \/ FailOn(p),
         local' \in [Instances -> [Keys -> Entries]], remote' \in [Keys -> Entries],
         \A k \in Keys : RemoteAge(remote'[k]),
         \A i \in Instances, k \in Keys : LocalAge(local'[i][k])
  PROVE  StalenessInv'
<1>1. PICK alone \in BOOLEAN : Continue(p, Tail(call[p].todo), call[p].copy, alone)
  BY RestOfCall DEF GoOn, FailOn
<1> QED
  BY <1>1, RestOfCall, ContinueKeeps

-----------------------------------------------------------------------------
(* The calls *)

LEMMA ReadKeeps ==
  ASSUME StalenessInv, NEW p \in Callers, NEW i \in Instances, NEW key \in Keys,
         NEW filled \in Seq(Accesses), Read(p, i, key, filled)
  PROVE  StalenessInv'
<1> DEFINE first == <<Access("load_redis", key), Access("read_row", key),
                      Access("save_local", key), Access("save_redis", key)>>
<1>1. first \in Seq(Accesses)
  BY DEF Access, Accesses, Kinds
<1>2. first \o filled \in Seq(Accesses)
  BY <1>1, ConcatProperties
<1>3. Begin(p, i, first \o filled, Nothing, FALSE) /\ row' = row
  BY DEF Read
<1> HIDE DEF first
<1>4. Nothing.past = 0
  BY DEF Nothing
<1> QED
  BY <1>2, <1>3, <1>4, Constants, BeginKeeps DEF StalenessInv, CacheTypes

LEMMA WriteKeeps ==
  ASSUME StalenessInv, NEW p \in Callers, NEW i \in Instances, NEW todo \in Seq(Accesses),
         WriteRow, Begin(p, i, todo, Current(row + 1), TRUE)
  PROVE  StalenessInv'
<1>1. row' \in Versions /\ row' = row + 1
  BY Parameters DEF WriteRow, Versions, StalenessInv, CacheTypes
<1>2. Current(row + 1) \in Copies /\ Current(row + 1).past = 0
  BY <1>1, Bounds DEF Current, Copies
<1> QED
  BY <1>1, <1>2, BeginKeeps

LEMMA AccessLists ==
  ASSUME NEW key \in Keys, NEW other \in Keys
  PROVE  /\ Invalidate(key) \in Seq(Accesses) /\ SaveBoth(key) \in Seq(Accesses)
         /\ SaveBoth(key) \o Invalidate(other) \in Seq(Accesses)
         /\ Invalidate(key) \o Invalidate(other) \in Seq(Accesses)
<1>1. ASSUME NEW k \in Keys PROVE Invalidate(k) \in Seq(Accesses) /\ SaveBoth(k) \in Seq(Accesses)
  BY DEF Invalidate, SaveBoth, Access, Accesses, Kinds
<1> QED
  BY <1>1, ConcatProperties

LEMMA CallsKeep ==
  ASSUME StalenessInv, NEW p \in Callers, NEW i \in Instances,
         \/ GetProduct(p, i) \/ GetSKU(p, i) \/ ListSKUsByProduct(p, i)
         \/ SaveProduct(p, i) \/ SaveSKU(p, i) \/ SaveOrderWithInventoryLocks(p, i)
  PROVE  StalenessInv'
<1> {"product", "sku", "list"} = Keys
  BY DEF Keys
<1>1. CASE GetProduct(p, i)
  BY <1>1, ReadKeeps, EmptySeq DEF GetProduct
<1>2. CASE GetSKU(p, i)
  BY <1>2, ReadKeeps, EmptySeq DEF GetSKU
<1>3. CASE ListSKUsByProduct(p, i)
  <2>1. <<Access("save_local", "sku")>> \in Seq(Accesses)
    BY DEF Access, Accesses, Kinds
  <2> QED
    BY <1>3, <2>1, ReadKeeps DEF ListSKUsByProduct
<1>4. CASE SaveProduct(p, i)
  BY <1>4, AccessLists, WriteKeeps DEF SaveProduct
<1>5. CASE SaveSKU(p, i)
  BY <1>5, AccessLists, WriteKeeps DEF SaveSKU
<1>6. CASE SaveOrderWithInventoryLocks(p, i)
  BY <1>6, AccessLists, WriteKeeps DEF SaveOrderWithInventoryLocks
<1> QED
  BY <1>1, <1>2, <1>3, <1>4, <1>5, <1>6

LEMMA UpdateOrderStatusKeeps == StalenessInv /\ UpdateOrderStatus => StalenessInv'
<1> SUFFICES ASSUME StalenessInv, UpdateOrderStatus PROVE StalenessInv'
  OBVIOUS
<1>1. row' \in Versions
  BY Parameters DEF UpdateOrderStatus, WriteRow, Versions, StalenessInv, CacheTypes
<1> QED
  BY <1>1 DEF UpdateOrderStatus, StalenessInv, CacheTypes, Ages

-----------------------------------------------------------------------------
(* The accesses *)

\* An entry that is put into a cache, or taken out of it.
LEMMA PutLocal ==
  ASSUME StalenessInv, NEW e \in Entries, LocalAge(e), NEW i, NEW k \in Keys,
         local' = [local EXCEPT ![i][k] = e]
  PROVE  /\ local' \in [Instances -> [Keys -> Entries]]
         /\ \A j \in Instances, l \in Keys : LocalAge(local'[j][l])
BY DEF StalenessInv, CacheTypes, Ages

LEMMA PutRemote ==
  ASSUME StalenessInv, NEW e \in Entries, RemoteAge(e), NEW k \in Keys,
         remote' = [remote EXCEPT ![k] = e]
  PROVE  /\ remote' \in [Keys -> Entries]
         /\ \A l \in Keys : RemoteAge(remote'[l])
BY DEF StalenessInv, CacheTypes, Ages

\* Neither cache changes, and so no age.
LEMMA SameCaches ==
  ASSUME StalenessInv
  PROVE  /\ local' = local => /\ local' \in [Instances -> [Keys -> Entries]]
                             /\ \A i \in Instances, k \in Keys : LocalAge(local'[i][k])
         /\ remote' = remote => /\ remote' \in [Keys -> Entries]
                               /\ \A k \in Keys : RemoteAge(remote'[k])
BY DEF StalenessInv, CacheTypes, Ages

LEMMA LoadRedisKeeps ==
  ASSUME StalenessInv, NEW p \in Callers, LoadRedis(p)
  PROVE  StalenessInv'
<1> DEFINE e == remote[Todo(p).key]
<1>1. Busy(p) /\ UNCHANGED <<local, remote>>
  BY DEF LoadRedis, Doing
<1>2. e \in Entries /\ RemoteAge(e) /\ Todo(p).key \in Keys
  BY <1>1, RestOfCall DEF StalenessInv, CacheTypes, Ages
<1> DEFINE todo == <<Access("save_local", Todo(p).key)>>
<1> DEFINE copy == [v |-> e.v, past |-> e.past]
<1>3. CASE Valid(e) /\ Continue(p, todo, copy, call[p].alone)
  <2>1. todo \in Seq(Accesses)
    BY <1>2 DEF Access, Accesses, Kinds
  <2>2. ~Does(todo, "save_redis")
    BY DEF Does, Access
  <2>3. copy \in Copies /\ copy.past <= TTL + CallTime
    BY <1>2, <1>3, Parameters DEF Entries, Copies, RemoteAge, Valid
  <2> HIDE DEF todo, copy
  <2>4. copy.past <= TTL + CallTime + call[p].ticks
    BY <2>3, <1>1, RestOfCall, Parameters, Bounds DEF Copies
  <2> QED
    BY <1>1, <1>3, <2>1, <2>2, <2>3, <2>4, RestOfCall, SameCaches, ContinueKeeps
<1>4. CASE GoOn(p) \/ FailOn(p)
  BY <1>1, <1>4, GoOnKeeps, SameCaches
<1> QED
  BY <1>3, <1>4 DEF LoadRedis

LEMMA ReadRowKeeps ==
  ASSUME StalenessInv, NEW p \in Callers, ReadRow(p)
  PROVE  StalenessInv'
<1>1. /\ Busy(p) /\ UNCHANGED <<local, remote>>
      /\ Continue(p, Tail(call[p].todo), Current(row), call[p].alone)
  BY DEF ReadRow, Doing
<1>2. Current(row) \in Copies /\ Current(row).past = 0
  BY Bounds DEF Current, Copies, StalenessInv, CacheTypes
<1>3. 0 <= call[p].ticks /\ 0 <= TTL + CallTime + call[p].ticks
  BY <1>1, RestOfCall, Parameters
<1> QED
  BY <1>1, <1>2, <1>3, RestOfCall, SameCaches, ContinueKeeps

\* The copy of a call, in the local cache and in Redis.
LEMMA SaveLocalKeeps ==
  ASSUME StalenessInv, NEW p \in Callers, SaveLocal(p)
  PROVE  StalenessInv'
<1> DEFINE e == Hit(call[p].copy)
<1>1. /\ Busy(p) /\ GoOn(p) /\ remote' = remote
      /\ local' = [local EXCEPT ![call[p].at][Todo(p).key] = e]
  BY DEF SaveLocal, Doing
<1>2. e \in Entries /\ e.past = call[p].copy.past /\ e.left = TTL
  BY <1>1, RestOfCall, HitOf
<1> HIDE DEF e
<1>3. LocalAge(e)
  <2>1. /\ call[p].copy.past <= TTL + CallTime + call[p].ticks
        /\ call[p].copy.past \in Int /\ call[p].ticks \in 0 .. CallTime
    BY <1>1, RestOfCall, Bounds DEF Copies
  <2> QED
    BY <1>2, <2>1, Parameters DEF LocalAge
<1> QED
  BY <1>1, <1>2, <1>3, RestOfCall, PutLocal, SameCaches, GoOnKeeps

LEMMA SaveRedisKeeps ==
  ASSUME StalenessInv, NEW p \in Callers, SaveRedis(p)
  PROVE  StalenessInv'
<1> DEFINE e == Hit(call[p].copy)
<1>1. /\ Busy(p) /\ Todo(p).what = "save_redis" /\ (GoOn(p) \/ FailOn(p)) /\ local' = local
      /\ remote' = remote \/ remote' = [remote EXCEPT ![Todo(p).key] = e]
  BY DEF SaveRedis, Doing
<1>2. e \in Entries /\ e.past = call[p].copy.past /\ e.left = TTL
  BY <1>1, RestOfCall, HitOf
<1> HIDE DEF e
<1>3. RemoteAge(e)
  <2>1. /\ call[p].copy.past <= call[p].ticks
        /\ call[p].copy.past \in Int /\ call[p].ticks \in 0 .. CallTime
    BY <1>1, RestOfCall, Bounds DEF Copies
  <2> QED
    BY <1>2, <2>1, Parameters DEF RemoteAge
<1> QED
  BY <1>1, <1>2, <1>3, RestOfCall, PutRemote, SameCaches, GoOnKeeps

LEMMA DropKeeps ==
  ASSUME StalenessInv, NEW p \in Callers, DropLocal(p) \/ DropRedis(p)
  PROVE  StalenessInv'
<1>1. /\ Busy(p) /\ (GoOn(p) \/ FailOn(p))
      /\ local' = local \/ local' = [local EXCEPT ![call[p].at][Todo(p).key] = Miss]
      /\ remote' = remote \/ remote' = [remote EXCEPT ![Todo(p).key] = Miss]
  BY DEF DropLocal, DropRedis, Doing
<1>2. Miss \in Entries /\ RemoteAge(Miss) /\ LocalAge(Miss)
  BY Constants DEF RemoteAge, LocalAge
<1>3. /\ local' \in [Instances -> [Keys -> Entries]]
      /\ \A i \in Instances, k \in Keys : LocalAge(local'[i][k])
  BY <1>1, <1>2, RestOfCall, PutLocal DEF StalenessInv, CacheTypes, Ages
<1>4. remote' \in [Keys -> Entries] /\ \A k \in Keys : RemoteAge(remote'[k])
  BY <1>1, <1>2, RestOfCall, PutRemote DEF StalenessInv, CacheTypes, Ages
<1> QED
  BY <1>1, <1>3, <1>4, GoOnKeeps

-----------------------------------------------------------------------------
(* Time *)

LEMMA PastOf ==
  ASSUME NEW copy, copy.v \in Versions, copy.past \in 0 .. Ancient
  PROVE  Past(copy) \in 0 .. Ancient /\ Past(copy) <= copy.past + 1
BY Bounds DEF Past

LEMMA AgedEntry ==
  ASSUME NEW e \in Entries
  PROVE  /\ Aged(e) \in Entries
         /\ Valid(Aged(e)) => /\ Valid(e) /\ Aged(e).v = e.v
                              /\ Aged(e).past + Aged(e).left <= e.past + e.left
<1>1. Past(e) \in 0 .. Ancient /\ Past(e) <= e.past + 1
  BY PastOf DEF Entries
<1>2. CASE e.left > 0
  <2>1. Aged(e) = [e EXCEPT !.past = Past(e), !.left = @ - 1]
    BY <1>2 DEF Aged
  <2>2. /\ e = [v |-> e.v, past |-> e.past, left |-> e.left]
        /\ e.v \in Versions /\ e.past \in 0 .. Ancient /\ e.left \in -1 .. TTL
    BY DEF Entries
  <2>3. Aged(e) = [v |-> e.v, past |-> Past(e), left |-> e.left - 1]
    BY <2>1, <2>2
  <2>4. e.left - 1 \in -1 .. TTL
    BY <1>2, <2>2, Parameters
  <2>5. Aged(e) \in Entries
    BY <1>1, <2>2, <2>3, <2>4 DEF Entries
  <2>6. Past(e) + (e.left - 1) <= e.past + e.left
    BY <1>1, <2>2, Bounds, Parameters
  <2> QED
    BY <1>2, <2>2, <2>3, <2>5, <2>6, Parameters DEF Valid
<1>3. CASE ~(e.left > 0)
  BY <1>3, Constants DEF Aged
<1> QED
  BY <1>2, <1>3

\* A call that has been under way for another tick.
LEMMA OlderCall ==
  ASSUME NEW c \in Calls, Fresh(c), Modest(c), c.ticks < CallTime
  PROVE  /\ [c EXCEPT !.ticks = @ + 1, !.copy.past = Past(c.copy)] \in Calls
         /\ Fresh([c EXCEPT !.ticks = @ + 1, !.copy.past = Past(c.copy)])
         /\ Modest([c EXCEPT !.ticks = @ + 1, !.copy.past = Past(c.copy)])
<1> DEFINE d == [c EXCEPT !.ticks = @ + 1, !.copy.past = Past(c.copy)]
<1>1. c.copy \in Copies /\ c.ticks \in 0 .. CallTime
  BY DEF Calls
<1>2. Past(c.copy) \in 0 .. Ancient /\ Past(c.copy) <= c.copy.past + 1
  BY <1>1, PastOf DEF Copies
<1>3. d.copy = [c.copy EXCEPT !.past = Past(c.copy)] /\ d.ticks = c.ticks + 1 /\ d.todo = c.todo
  BY DEF Calls
<1>4. d.copy \in Copies /\ d.copy.past = Past(c.copy)
  BY <1>1, <1>2, <1>3 DEF Copies
<1>5. d.ticks \in 0 .. CallTime
  BY <1>1, <1>3, Parameters
<1>6. d \in Calls
  BY <1>3, <1>4, <1>5 DEF Calls
<1> HIDE DEF d
<1>7. Fresh(d)
  BY <1>1, <1>2, <1>3, <1>4, Bounds, Parameters DEF Fresh, Copies
<1>8. Modest(d)
  BY <1>1, <1>2, <1>3, <1>4, Bounds, Parameters DEF Modest, Copies
<1> QED
  BY <1>6, <1>7, <1>8 DEF d

LEMMA TickKeeps == StalenessInv /\ Tick => StalenessInv'
<1> SUFFICES ASSUME StalenessInv, Tick PROVE StalenessInv'
  OBVIOUS
<1>1. ASSUME NEW k \in Keys
      PROVE  remote'[k] \in Entries /\ RemoteAge(remote'[k])
  <2>1. remote[k] \in Entries /\ RemoteAge(remote[k]) /\ remote'[k] = Aged(remote[k])
    BY DEF Tick, StalenessInv, CacheTypes, Ages
  <2>2. remote[k].past \in Int /\ remote[k].left \in Int
    BY <2>1, Bounds, Parameters DEF Entries
  <2>3. Aged(remote[k]).past \in Int /\ Aged(remote[k]).left \in Int
    BY <2>1, AgedEntry, Bounds, Parameters DEF Entries
  <2> QED
    BY <2>1, <2>2, <2>3, AgedEntry, Parameters DEF RemoteAge
<1>2. ASSUME NEW i \in Instances, NEW k \in Keys
      PROVE  local'[i][k] \in Entries /\ LocalAge(local'[i][k])
  <2>1. local[i][k] \in Entries /\ LocalAge(local[i][k]) /\ local'[i][k] = Aged(local[i][k])
    BY DEF Tick, StalenessInv, CacheTypes, Ages
  <2>2. local[i][k].past \in Int /\ local[i][k].left \in Int
    BY <2>1, Bounds, Parameters DEF Entries
  <2>3. Aged(local[i][k]).past \in Int /\ Aged(local[i][k]).left \in Int
    BY <2>1, AgedEntry, Bounds, Parameters DEF Entries
  <2> QED
    BY <2>1, <2>2, <2>3, AgedEntry, Parameters DEF LocalAge
<1>3. ASSUME NEW p \in Callers
      PROVE  call'[p] \in Calls /\ Fresh(call'[p]) /\ Modest(call'[p])
  <2>1. call[p] \in Calls /\ Fresh(call[p]) /\ Modest(call[p])
    BY DEF StalenessInv, CacheTypes, Ages
  <2>2. CASE Busy(p)
    <3>1. /\ call[p].ticks < CallTime
          /\ call'[p] = [call[p] EXCEPT !.ticks = @ + 1, !.copy.past = Past(call[p].copy)]
      BY <2>2 DEF Tick
    <3> QED
      BY <2>1, <3>1, OlderCall
  <2>3. CASE ~Busy(p)
    BY <2>1, <2>3 DEF Tick
  <2> QED
    BY <2>2, <2>3
<1>4. /\ DOMAIN remote' = Keys /\ DOMAIN local' = Instances /\ DOMAIN call' = Callers
      /\ \A i \in Instances : DOMAIN local'[i] = Keys
      /\ remote' = [k \in Keys |-> remote'[k]] /\ call' = [p \in Callers |-> call'[p]]
      /\ local' = [i \in Instances |-> [k \in Keys |-> local'[i][k]]]
  BY DEF Tick
<1>5. CacheTypes'
  BY <1>1, <1>2, <1>3, <1>4 DEF Tick, StalenessInv, CacheTypes
<1> QED
  BY <1>1, <1>2, <1>3, <1>5 DEF StalenessInv, Ages

-----------------------------------------------------------------------------

LEMMA StalenessInit == Init => StalenessInv
<1> SUFFICES ASSUME Init PROVE StalenessInv
  OBVIOUS
<1>1. 0 \in Versions
  BY Parameters DEF Versions
<1>2. CacheTypes
  BY <1>1, Constants DEF Init, CacheTypes
<1> QED
  BY <1>2, Constants DEF Init, StalenessInv, Ages, RemoteAge, LocalAge

LEMMA StalenessNext == StalenessInv /\ [Next]_vars => StalenessInv'
<1> SUFFICES ASSUME StalenessInv, [Next]_vars PROVE StalenessInv'
  OBVIOUS
<1>1. CASE UNCHANGED vars
  BY <1>1 DEF vars, StalenessInv, CacheTypes, Ages
<1>2. ASSUME NEW p \in Callers,
             \/ LoadRedis(p) \/ ReadRow(p) \/ SaveLocal(p) \/ SaveRedis(p)
             \/ DropLocal(p) \/ DropRedis(p)
      PROVE  StalenessInv'
  BY <1>2, LoadRedisKeeps, ReadRowKeeps, SaveLocalKeeps, SaveRedisKeeps, DropKeeps
<1> QED
  BY <1>1, <1>2, CallsKeep, UpdateOrderStatusKeeps, TickKeeps DEF Next

THEOREM StalenessInvariance == Spec => []StalenessInv
BY StalenessInit, StalenessNext, PTL DEF Spec

\* Every variable of the caches keeps its type.
THEOREM CacheTypeTheorem == Spec => []CacheTypeOK
<1>1. StalenessInv => CacheTypeOK
  BY DEF StalenessInv, CacheTypes, CacheTypeOK, Calls
<1> QED
  BY <1>1, StalenessInvariance, PTL

\* No one is shown a product, SKU or list older than two lives of an entry and
\* two calls, however reads, writes, ticks and failures of Redis interleave.
THEOREM StalenessTheorem == Spec => []BoundedStaleness
<1>1. ASSUME StalenessInv PROVE BoundedStaleness
  <2>1. ASSUME NEW k \in Keys, Valid(remote[k]) PROVE remote[k].past <= TTL + CallTime
    <3>1. remote[k] \in Entries /\ RemoteAge(remote[k])
      BY <1>1 DEF StalenessInv, CacheTypes, Ages
    <3> QED
      BY <2>1, <3>1, Bounds, Parameters DEF RemoteAge, Valid, Entries
  <2>2. ASSUME NEW i \in Instances, NEW k \in Keys, Valid(local[i][k])
        PROVE  local[i][k].past <= 2 * TTL + 2 * CallTime
    <3>1. local[i][k] \in Entries /\ LocalAge(local[i][k])
      BY <1>1 DEF StalenessInv, CacheTypes, Ages
    <3> QED
      BY <2>2, <3>1, Bounds, Parameters DEF LocalAge, Valid, Entries
  <2> QED
    BY <2>1, <2>2 DEF BoundedStaleness
<1> QED
  BY <1>1, StalenessInvariance, PTL

-----------------------------------------------------------------------------
(* A quiet write is seen.  What a call puts into a cache was read after     *)
(* every quiet write had ended, or is newer (NotBehind); and a write that  *)
(* is alone has replaced, or has yet to replace, each entry of the row in  *)
(* Redis and in its own instance (Undisturbed).                            *)

Rows == IF kind = "product" THEN {"product"} ELSE {"sku", "list"}

OfRow ==
  /\ \A k \in Keys : Valid(remote[k]) => k \in Rows
  /\ \A i \in Instances, k \in Keys : Valid(local[i][k]) => k \in Rows
  /\ \A p \in Callers : \A n \in 1 .. Len(call[p].todo) : call[p].todo[n].key \in Rows

\* The row is read before anything is kept of it.
ReadsFirst(todo) ==
  \A n \in 1 .. Len(todo) :
    todo[n].what = "read_row" => n = 1 \/ (n = 2 /\ todo[1].what = "load_redis")

Replaces(todo, key, save, drop) ==
  \E n \in 1 .. Len(todo) : todo[n].key = key /\ todo[n].what \in {save, drop}

NotBehind(p) ==
  Busy(p) =>
    /\ call[p].at \in Instances
    /\ ReadsFirst(call[p].todo)
    /\ ~Does(call[p].todo, "read_row") => \A i \in Instances : call[p].copy.v >= quiet[i]
    /\ call[p].writes => /\ call[p].copy.v <= row
                         /\ ~Does(call[p].todo, "read_row") /\ ~Does(call[p].todo, "load_redis")

Undisturbed(p) ==
  Busy(p) /\ call[p].alone =>
    /\ \A q \in Callers \ {p} : ~Busy(q)
    /\ call[p].writes =>
         \A k \in Keys :
           /\ Valid(remote[k]) => \/ remote[k].v >= call[p].copy.v
                                  \/ Replaces(call[p].todo, k, "save_redis", "drop_redis")
           /\ Valid(local[call[p].at][k]) => \/ local[call[p].at][k].v >= call[p].copy.v
                                             \/ Replaces(call[p].todo, k, "save_local", "drop_local")

SeenInv ==
  /\ OfRow
  /\ \A i \in Instances : quiet[i] <= row
  /\ \A p \in Callers : NotBehind(p) /\ Undisturbed(p)
  /\ QuietWriteIsSeen

-----------------------------------------------------------------------------
(* Lists of accesses *)

LEMMA ElementsOf ==
  ASSUME NEW s \in Seq(Accesses), NEW t \in Seq(Accesses)
  PROVE  /\ s \o t \in Seq(Accesses)
         /\ \A n \in 1 .. Len(s \o t) : (\E m \in 1 .. Len(s) : m = n /\ (s \o t)[n] = s[m])
                                        \/ (\E m \in 1 .. Len(t) : n = Len(s) + m /\ (s \o t)[n] = t[m])
         /\ \A m \in 1 .. Len(s) : m \in 1 .. Len(s \o t) /\ (s \o t)[m] = s[m]
         /\ \A m \in 1 .. Len(t) : Len(s) + m \in 1 .. Len(s \o t) /\ (s \o t)[Len(s) + m] = t[m]
<1>1. s \o t \in Seq(Accesses) /\ Len(s \o t) = Len(s) + Len(t) /\ Len(s) \in Nat /\ Len(t) \in Nat
      /\ \A n \in 1 .. Len(s) + Len(t) : (s \o t)[n] = IF n <= Len(s) THEN s[n] ELSE t[n - Len(s)]
  BY ConcatProperties, LenProperties
<1>2. ASSUME NEW n \in 1 .. Len(s \o t), n > Len(s)
      PROVE  n - Len(s) \in 1 .. Len(t) /\ n = Len(s) + (n - Len(s)) /\ (s \o t)[n] = t[n - Len(s)]
  BY <1>1, <1>2
<1>3. ASSUME NEW m \in 1 .. Len(t)
      PROVE  Len(s) + m \in 1 .. Len(s \o t) /\ (s \o t)[Len(s) + m] = t[m]
  <2>1. Len(s) + m \in 1 .. Len(s) + Len(t) /\ ~(Len(s) + m <= Len(s)) /\ (Len(s) + m) - Len(s) = m
    BY <1>1
  <2>2. (s \o t)[Len(s) + m] = t[(Len(s) + m) - Len(s)]
    BY <1>1, <2>1
  <2> QED
    BY <1>1, <2>1, <2>2
<1>4. ASSUME NEW m \in 1 .. Len(s)
      PROVE  m \in 1 .. Len(s \o t) /\ (s \o t)[m] = s[m]
  BY <1>1
<1>5. ASSUME NEW n \in 1 .. Len(s \o t), ~(n > Len(s))
      PROVE  n \in 1 .. Len(s) /\ (s \o t)[n] = s[n]
  BY <1>1, <1>5
<1> QED
  BY <1>1, <1>2, <1>3, <1>4, <1>5

\* What the accesses of a list are about.
About(todo, keys, whats) ==
  \A n \in 1 .. Len(todo) : todo[n].key \in keys /\ todo[n].what \in whats

Puts == {"save_local", "save_redis", "drop_local", "drop_redis"}

LEMMA AboutBoth ==
  ASSUME NEW s \in Seq(Accesses), NEW t \in Seq(Accesses), NEW keys, NEW whats,
         About(s, keys, whats), About(t, keys, whats)
  PROVE  About(s \o t, keys, whats)
<1> SUFFICES ASSUME NEW n \in 1 .. Len(s \o t)
             PROVE  (s \o t)[n].key \in keys /\ (s \o t)[n].what \in whats
  BY DEF About
<1>1. (\E m \in 1 .. Len(s) : (s \o t)[n] = s[m]) \/ (\E m \in 1 .. Len(t) : (s \o t)[n] = t[m])
  BY ElementsOf
<1> QED
  BY <1>1, Zenon DEF About

LEMMA ReplacesEither ==
  ASSUME NEW s \in Seq(Accesses), NEW t \in Seq(Accesses), NEW k, NEW save, NEW drop,
         Replaces(s, k, save, drop) \/ Replaces(t, k, save, drop)
  PROVE  Replaces(s \o t, k, save, drop)
<1>1. ASSUME Replaces(s, k, save, drop) PROVE Replaces(s \o t, k, save, drop)
  <2>1. PICK m \in 1 .. Len(s) : s[m].key = k /\ s[m].what \in {save, drop}
    BY <1>1 DEF Replaces
  <2>2. m \in 1 .. Len(s \o t) /\ (s \o t)[m] = s[m]
    BY ElementsOf
  <2> QED
    BY <2>1, <2>2, Zenon DEF Replaces
<1>2. ASSUME Replaces(t, k, save, drop) PROVE Replaces(s \o t, k, save, drop)
  <2>1. PICK m \in 1 .. Len(t) : t[m].key = k /\ t[m].what \in {save, drop}
    BY <1>2 DEF Replaces
  <2>2. Len(s) + m \in 1 .. Len(s \o t) /\ (s \o t)[Len(s) + m] = t[m]
    BY ElementsOf
  <2> QED
    BY <2>1, <2>2, Zenon DEF Replaces
<1> QED
  BY <1>1, <1>2

\* Replaced in Redis and in the local cache.
Renews(todo, k) ==
  Replaces(todo, k, "save_redis", "drop_redis") /\ Replaces(todo, k, "save_local", "drop_local")

LEMMA WriteLists ==
  ASSUME NEW key \in Keys
  PROVE  /\ About(Invalidate(key), {key}, Puts) /\ Renews(Invalidate(key), key)
         /\ About(SaveBoth(key), {key}, Puts) /\ Renews(SaveBoth(key), key)
<1>1. /\ Len(Invalidate(key)) = 2 /\ Invalidate(key)[1] = Access("drop_local", key)
      /\ Invalidate(key)[2] = Access("drop_redis", key)
  BY DEF Invalidate
<1>2. /\ Len(SaveBoth(key)) = 2 /\ SaveBoth(key)[1] = Access("save_local", key)
      /\ SaveBoth(key)[2] = Access("save_redis", key)
  BY DEF SaveBoth
<1>3. \A n \in 1 .. 2 : n = 1 \/ n = 2
  OBVIOUS
<1>4. 1 \in 1 .. 2 /\ 2 \in 1 .. 2
  OBVIOUS
<1>5. About(Invalidate(key), {key}, Puts) /\ About(SaveBoth(key), {key}, Puts)
  BY <1>1, <1>2, <1>3 DEF About, Access, Puts
<1>6. \A w \in Puts : Access(w, key).what = w /\ Access(w, key).key = key
  BY DEF Access
<1>7. Renews(Invalidate(key), key)
  BY <1>1, <1>4, <1>6 DEF Renews, Replaces, Puts
<1>8. Renews(SaveBoth(key), key)
  BY <1>2, <1>4, <1>6 DEF Renews, Replaces, Puts
<1> QED
  BY <1>5, <1>7, <1>8

\* Writing two entries.
LEMMA RenewsTwo ==
  ASSUME NEW s \in Seq(Accesses), NEW t \in Seq(Accesses), NEW k, NEW l,
         About(s, {k}, Puts), Renews(s, k), About(t, {l}, Puts), Renews(t, l)
  PROVE  About(s \o t, {k, l}, Puts) /\ Renews(s \o t, k) /\ Renews(s \o t, l)
<1>1. About(s, {k, l}, Puts) /\ About(t, {k, l}, Puts)
  BY DEF About
<1> QED
  BY <1>1, AboutBoth, ReplacesEither DEF Renews

\* A list that only puts reads nothing, and is not empty when it renews.
LEMMA PutsDoNotRead ==
  ASSUME NEW todo \in Seq(Accesses), NEW keys, About(todo, keys, Puts)
  PROVE  ~Does(todo, "read_row") /\ ~Does(todo, "load_redis") /\ ReadsFirst(todo)
BY DEF About, Does, ReadsFirst, Puts

\* What is left when the first access is done.
LEMMA TailFacts ==
  ASSUME NEW todo \in Seq(Accesses), todo # << >>, ReadsFirst(todo)
  PROVE  /\ Tail(todo) \in Seq(Accesses) /\ ReadsFirst(Tail(todo))
         /\ \A keys : (\A n \in 1 .. Len(todo) : todo[n].key \in keys) =>
                      Head(todo).key \in keys /\ \A n \in 1 .. Len(Tail(todo)) : Tail(todo)[n].key \in keys
         /\ Does(Tail(todo), "read_row") => Head(todo).what = "load_redis"
         /\ Does(todo, "read_row") => Does(Tail(todo), "read_row") \/ Head(todo).what = "read_row"
         /\ \A k, save, drop : Replaces(todo, k, save, drop) =>
              \/ Replaces(Tail(todo), k, save, drop)
              \/ Head(todo).key = k /\ Head(todo).what \in {save, drop}
<1> DEFINE rest == Tail(todo)
<1>1. /\ rest \in Seq(Accesses) /\ Len(rest) = Len(todo) - 1 /\ Len(todo) \in Nat /\ Len(todo) # 0
      /\ \A n \in 1 .. Len(rest) : rest[n] = todo[n + 1]
      /\ Head(todo) = todo[1]
  BY HeadTailProperties, LenProperties, EmptySeq
<1> HIDE DEF rest
<1>2. 1 \in 1 .. Len(todo)
  BY <1>1
<1>3. ASSUME NEW n \in 1 .. Len(rest) PROVE n + 1 \in 1 .. Len(todo) /\ rest[n] = todo[n + 1]
  BY <1>1
<1>4. ASSUME NEW n \in 1 .. Len(todo), n # 1 PROVE n - 1 \in 1 .. Len(rest) /\ rest[n - 1] = todo[n]
  <2>1. n - 1 \in 1 .. Len(rest) /\ (n - 1) + 1 = n
    BY <1>1, <1>4
  <2> QED
    BY <1>1, <2>1
<1>5. ASSUME NEW n \in 1 .. Len(rest), rest[n].what = "read_row"
      PROVE  n = 1 /\ todo[1].what = "load_redis"
  <2>1. n + 1 \in 1 .. Len(todo) /\ todo[n + 1].what = "read_row"
    BY <1>3, <1>5
  <2>2. n + 1 = 1 \/ (n + 1 = 2 /\ todo[1].what = "load_redis")
    BY <2>1 DEF ReadsFirst
  <2> QED
    BY <2>2
<1>6. ReadsFirst(rest) /\ (Does(rest, "read_row") => Head(todo).what = "load_redis")
  BY <1>1, <1>5 DEF ReadsFirst, Does
<1>7. ASSUME NEW k, NEW save, NEW drop, Replaces(todo, k, save, drop)
      PROVE  \/ Replaces(rest, k, save, drop)
             \/ Head(todo).key = k /\ Head(todo).what \in {save, drop}
  <2>1. PICK n \in 1 .. Len(todo) : todo[n].key = k /\ todo[n].what \in {save, drop}
    BY <1>7 DEF Replaces
  <2>2. CASE n = 1
    BY <1>1, <2>1, <2>2
  <2>3. CASE n # 1
    <3>1. n - 1 \in 1 .. Len(rest) /\ rest[n - 1] = todo[n]
      BY <1>4, <2>3
    <3> QED
      BY <2>1, <3>1, Zenon DEF Replaces
  <2> QED
    BY <2>2, <2>3
<1>8. ASSUME NEW keys, \A n \in 1 .. Len(todo) : todo[n].key \in keys
      PROVE  Head(todo).key \in keys /\ \A n \in 1 .. Len(rest) : rest[n].key \in keys
  BY <1>1, <1>2, <1>3, <1>8
<1>9. Does(todo, "read_row") => Does(rest, "read_row") \/ Head(todo).what = "read_row"
  <2> SUFFICES ASSUME NEW n \in 1 .. Len(todo), todo[n].what = "read_row", n # 1
               PROVE  Does(rest, "read_row")
    BY <1>1 DEF Does
  <2>1. n - 1 \in 1 .. Len(rest) /\ rest[n - 1] = todo[n]
    BY <1>4
  <2> QED
    BY <2>1, Zenon DEF Does
<1> QED
  BY <1>1, <1>6, <1>7, <1>8, <1>9 DEF rest

-----------------------------------------------------------------------------
(* A call begins *)

\* The new call, and what it takes from the others.
LEMMA BeginIs ==
  ASSUME CacheTypes, NEW p \in Callers, NEW i \in Instances, NEW todo \in Seq(Accesses),
         NEW copy \in Copies, NEW writes \in BOOLEAN, Begin(p, i, todo, copy, writes)
  PROVE  /\ ~Busy(p)
         /\ call'[p].at = i /\ call'[p].todo = todo /\ call'[p].copy = copy
         /\ call'[p].writes = writes
         /\ call'[p].alone => \A q \in Callers : ~Busy(q)
         /\ \A q \in Callers \ {p} :
              /\ call'[q].at = call[q].at /\ call'[q].todo = call[q].todo
              /\ call'[q].copy = call[q].copy /\ call'[q].writes = call[q].writes
              /\ ~call'[q].alone
         /\ UNCHANGED <<kind, local, remote, quiet>>
<1> DEFINE alone == {q \in Callers : Busy(q)} = {}
<1> DEFINE new == [at |-> i, todo |-> todo, copy |-> copy, ticks |-> 0, writes |-> writes, alone |-> alone]
<1>1. /\ call' = [q \in Callers |-> IF q = p THEN new ELSE [call[q] EXCEPT !.alone = FALSE]]
      /\ ~Busy(p) /\ UNCHANGED <<kind, local, remote, quiet>>
  BY DEF Begin
<1>2. alone => \A q \in Callers : ~Busy(q)
  BY Zenon
<1>3. /\ new.at = i /\ new.todo = todo /\ new.copy = copy /\ new.writes = writes /\ new.alone = alone
  OBVIOUS
<1> HIDE DEF new, alone
<1>4. ASSUME NEW c \in Calls, NEW other, other = [c EXCEPT !.alone = FALSE]
      PROVE  /\ other.at = c.at /\ other.todo = c.todo /\ other.copy = c.copy
             /\ other.writes = c.writes /\ ~other.alone
  BY <1>4 DEF Calls
<1>5. ASSUME NEW q \in Callers \ {p}
      PROVE  /\ call'[q].at = call[q].at /\ call'[q].todo = call[q].todo
             /\ call'[q].copy = call[q].copy /\ call'[q].writes = call[q].writes
             /\ ~call'[q].alone
  <2>1. call[q] \in Calls /\ call'[q] = [call[q] EXCEPT !.alone = FALSE]
    BY <1>1 DEF CacheTypes
  <2> QED
    BY <1>4, <2>1
<1>6. call'[p] = new
  BY <1>1
<1> QED
  BY <1>1, <1>2, <1>3, <1>5, <1>6

LEMMA SeenBegins ==
  ASSUME StalenessInv, SeenInv, NEW p \in Callers, NEW i \in Instances, NEW todo \in Seq(Accesses),
         NEW copy \in Copies, NEW writes \in BOOLEAN, Begin(p, i, todo, copy, writes),
         row' = row \/ row' = row + 1,
         \A n \in 1 .. Len(todo) : todo[n].key \in Rows,
         ReadsFirst(todo),
         ~Does(todo, "read_row") => \A j \in Instances : copy.v >= quiet[j],
         writes => /\ copy.v <= row' /\ ~Does(todo, "read_row") /\ ~Does(todo, "load_redis")
                   /\ \A k \in Rows : Renews(todo, k)
  PROVE  SeenInv'
<1> USE DEF StalenessInv
<1>0. row \in Int /\ (\A j \in Instances : quiet[j] \in Int) /\ row <= row'
      /\ \A q \in Callers : call[q].copy.v \in Int
  <2>1. row \in Int /\ row <= row'
    BY Parameters DEF CacheTypes, Versions
  <2>2. \A j \in Instances : quiet[j] \in Int
    BY Parameters DEF CacheTypes, Versions
  <2>3. ASSUME NEW q \in Callers PROVE call[q].copy.v \in Int
    <3>1. call[q] \in Calls
      BY DEF CacheTypes
    <3>2. call[q].copy \in Copies
      BY <3>1 DEF Calls
    <3> QED
      BY <3>2, Parameters DEF Copies, Versions
  <2> QED
    BY <2>1, <2>2, <2>3
<1>1. /\ ~Busy(p)
      /\ call'[p].at = i /\ call'[p].todo = todo /\ call'[p].copy = copy
      /\ call'[p].writes = writes
      /\ call'[p].alone => \A q \in Callers : ~Busy(q)
      /\ \A q \in Callers \ {p} :
           /\ call'[q].at = call[q].at /\ call'[q].todo = call[q].todo
           /\ call'[q].copy = call[q].copy /\ call'[q].writes = call[q].writes
           /\ ~call'[q].alone
      /\ UNCHANGED <<kind, local, remote, quiet>>
  BY BeginIs
<1>2. Rows' = Rows
  BY <1>1 DEF Rows
<1>3. OfRow'
  <2>1. ASSUME NEW q \in Callers PROVE \A n \in 1 .. Len(call'[q].todo) : call'[q].todo[n].key \in Rows
    BY <1>1 DEF SeenInv, OfRow
  <2> QED
    BY <1>1, <1>2, <2>1 DEF SeenInv, OfRow
<1>4. \A j \in Instances : quiet'[j] <= row'
  BY <1>0, <1>1 DEF SeenInv
<1>5. ASSUME NEW q \in Callers PROVE NotBehind(q)'
  <2>1. CASE q = p
    BY <1>1, <2>1 DEF NotBehind
  <2>2. CASE q # p
    BY <1>0, <1>1, <2>2 DEF NotBehind, Busy, SeenInv
  <2> QED
    BY <2>1, <2>2
<1>6. ASSUME NEW q \in Callers PROVE Undisturbed(q)'
  <2>1. CASE q = p
    <3> SUFFICES ASSUME call'[p].alone
                 PROVE  /\ \A r \in Callers \ {p} : ~(call'[r].todo # << >>)
                        /\ writes => \A k \in Keys :
                             /\ Valid(remote[k]) => Replaces(todo, k, "save_redis", "drop_redis")
                             /\ Valid(local[i][k]) => Replaces(todo, k, "save_local", "drop_local")
      BY <1>1, <2>1 DEF Undisturbed, Busy
    <3>1. \A r \in Callers \ {p} : ~(call'[r].todo # << >>)
      BY <1>1 DEF Busy
    <3> QED
      BY <3>1 DEF SeenInv, OfRow, Renews
  <2>2. CASE q # p
    BY <1>1, <2>2 DEF Undisturbed
  <2> QED
    BY <2>1, <2>2
<1>7. QuietWriteIsSeen'
  BY <1>1 DEF SeenInv, QuietWriteIsSeen
<1> QED
  BY <1>3, <1>4, <1>5, <1>6, <1>7 DEF SeenInv

LEMMA ReadSeen ==
  ASSUME StalenessInv, SeenInv, NEW p \in Callers, NEW i \in Instances, NEW key \in Rows,
         NEW filled \in Seq(Accesses), About(filled, Rows, Puts), Read(p, i, key, filled)
  PROVE  SeenInv'
<1> DEFINE first == <<Access("load_redis", key), Access("read_row", key),
                      Access("save_local", key), Access("save_redis", key)>>
           todo == first \o filled
<1>1. key \in Keys
  BY DEF Rows, Keys
<1>2. /\ first \in Seq(Accesses) /\ Len(first) = 4
      /\ first[1].what = "load_redis" /\ first[2].what = "read_row"
      /\ first[3].what = "save_local" /\ first[4].what = "save_redis"
      /\ \A n \in 1 .. 4 : first[n].key = key
  BY <1>1 DEF Access, Accesses, Kinds
<1>3. Begin(p, i, todo, Nothing, FALSE) /\ row' = row
  BY DEF Read
<1> HIDE DEF first
<1>4. todo \in Seq(Accesses)
  BY <1>2, ElementsOf
<1>5. ASSUME NEW n \in 1 .. Len(todo)
      PROVE  todo[n].key \in Rows /\ (todo[n].what = "read_row" => n = 2)
  <2>1. CASE \E m \in 1 .. Len(first) : m = n /\ todo[n] = first[m]
    <3>1. n \in 1 .. 4 /\ todo[n] = first[n]
      BY <1>2, <2>1
    <3>2. n = 1 \/ n = 2 \/ n = 3 \/ n = 4
      BY <3>1
    <3> QED
      BY <1>2, <3>1, <3>2
  <2>2. CASE \E m \in 1 .. Len(filled) : n = Len(first) + m /\ todo[n] = filled[m]
    BY <2>2 DEF About, Puts
  <2> QED
    BY <1>2, <2>1, <2>2, ElementsOf
<1>6. 1 \in 1 .. Len(first) /\ 2 \in 1 .. Len(first)
  BY <1>2
<1>7. todo[1] = first[1] /\ todo[2] = first[2] /\ 2 \in 1 .. Len(todo)
  BY <1>2, <1>6, ElementsOf
<1> HIDE DEF todo
<1>8. ReadsFirst(todo) /\ Does(todo, "read_row")
  BY <1>2, <1>5, <1>7 DEF ReadsFirst, Does
<1> QED
  BY <1>3, <1>4, <1>5, <1>8, Constants, SeenBegins

\* A write begins with the newest version, and renews each entry of the row.
LEMMA WriteSeen ==
  ASSUME StalenessInv, SeenInv, NEW p \in Callers, NEW i \in Instances, NEW todo \in Seq(Accesses),
         WriteRow, Begin(p, i, todo, Current(row + 1), TRUE),
         About(todo, Rows, Puts), \A k \in Rows : Renews(todo, k)
  PROVE  SeenInv'
<1>1. row' = row + 1 /\ row' \in Versions /\ row \in Int
  BY Parameters DEF WriteRow, Versions, StalenessInv, CacheTypes
<1>2. Current(row + 1) \in Copies /\ Current(row + 1).v = row + 1
  BY <1>1, Bounds DEF Current, Copies
<1>3. \A j \in Instances : quiet[j] \in Int /\ quiet[j] <= row
  BY Parameters DEF SeenInv, StalenessInv, CacheTypes, Versions
<1>4. ~Does(todo, "read_row") /\ ~Does(todo, "load_redis") /\ ReadsFirst(todo)
  BY PutsDoNotRead
<1>5. \A n \in 1 .. Len(todo) : todo[n].key \in Rows
  BY DEF About
<1>6. (\A j \in Instances : row + 1 >= quiet[j]) /\ row + 1 <= row'
  BY <1>1, <1>3
<1> QED
  BY <1>1, <1>2, <1>4, <1>5, <1>6, SeenBegins

LEMMA CallsSeen ==
  ASSUME StalenessInv, SeenInv, NEW p \in Callers, NEW i \in Instances,
         \/ GetProduct(p, i) \/ GetSKU(p, i) \/ ListSKUsByProduct(p, i)
         \/ SaveProduct(p, i) \/ SaveSKU(p, i) \/ SaveOrderWithInventoryLocks(p, i)
  PROVE  SeenInv'
<1>1. "product" \in Keys /\ "sku" \in Keys /\ "list" \in Keys
  BY DEF Keys
<1>2. << >> \in Seq(Accesses) /\ About(<< >>, Rows, Puts)
  BY EmptySeq DEF About
<1>3. CASE GetProduct(p, i)
  BY <1>2, <1>3, ReadSeen DEF GetProduct, Rows
<1>4. CASE GetSKU(p, i)
  BY <1>2, <1>4, ReadSeen DEF GetSKU, Rows
<1>5. CASE ListSKUsByProduct(p, i)
  <2>1. Rows = {"sku", "list"}
    BY <1>5 DEF ListSKUsByProduct, Rows
  <2>2. <<Access("save_local", "sku")>> \in Seq(Accesses)
    BY <1>1 DEF Access, Accesses, Kinds
  <2>3. About(<<Access("save_local", "sku")>>, Rows, Puts)
    BY <2>1 DEF About, Access, Puts
  <2>4. Read(p, i, "list", <<Access("save_local", "sku")>>)
    BY <1>5 DEF ListSKUsByProduct
  <2> QED
    BY <2>1, <2>2, <2>3, <2>4, ReadSeen
<1>6. CASE SaveProduct(p, i)
  <2>1. Rows = {"product"} /\ WriteRow /\ Begin(p, i, SaveBoth("product"), Current(row + 1), TRUE)
    BY <1>6 DEF SaveProduct, Rows
  <2>2. /\ SaveBoth("product") \in Seq(Accesses)
        /\ About(SaveBoth("product"), Rows, Puts) /\ \A k \in Rows : Renews(SaveBoth("product"), k)
    BY <1>1, <2>1, AccessLists, WriteLists
  <2> QED
    BY <2>1, <2>2, WriteSeen
<1>7. CASE SaveSKU(p, i)
  <2> DEFINE todo == SaveBoth("sku") \o Invalidate("list")
  <2>1. Rows = {"sku", "list"} /\ WriteRow /\ Begin(p, i, todo, Current(row + 1), TRUE)
    BY <1>7 DEF SaveSKU, Rows
  <2>2. /\ SaveBoth("sku") \in Seq(Accesses) /\ Invalidate("list") \in Seq(Accesses)
        /\ todo \in Seq(Accesses)
    BY <1>1, AccessLists
  <2>3. About(todo, {"sku", "list"}, Puts) /\ Renews(todo, "sku") /\ Renews(todo, "list")
    BY <1>1, <2>2, WriteLists, RenewsTwo
  <2> HIDE DEF todo
  <2> QED
    BY <2>1, <2>2, <2>3, WriteSeen
<1>8. CASE SaveOrderWithInventoryLocks(p, i)
  <2> DEFINE todo == Invalidate("sku") \o Invalidate("list")
  <2>1. Rows = {"sku", "list"} /\ WriteRow /\ Begin(p, i, todo, Current(row + 1), TRUE)
    BY <1>8 DEF SaveOrderWithInventoryLocks, Rows
  <2>2. /\ Invalidate("sku") \in Seq(Accesses) /\ Invalidate("list") \in Seq(Accesses)
        /\ todo \in Seq(Accesses)
    BY <1>1, AccessLists
  <2>3. About(todo, {"sku", "list"}, Puts) /\ Renews(todo, "sku") /\ Renews(todo, "list")
    BY <1>1, <2>2, WriteLists, RenewsTwo
  <2> HIDE DEF todo
  <2> QED
    BY <2>1, <2>2, <2>3, WriteSeen
<1> QED
  BY <1>3, <1>4, <1>5, <1>6, <1>7, <1>8

LEMMA UpdateOrderStatusSeen ==
  ASSUME StalenessInv, SeenInv, UpdateOrderStatus
  PROVE  SeenInv'
<1>1. row' = row + 1 /\ UNCHANGED <<kind, local, remote, call, quiet>>
  BY DEF UpdateOrderStatus, WriteRow
<1>2. row \in Int /\ (\A j \in Instances : quiet[j] \in Int) /\ \A q \in Callers : call[q].copy.v \in Int
  BY Parameters DEF StalenessInv, CacheTypes, Versions, Calls, Copies
<1>3. OfRow' /\ QuietWriteIsSeen'
  BY <1>1 DEF SeenInv, OfRow, Rows, QuietWriteIsSeen
<1>4. \A j \in Instances : quiet'[j] <= row'
  BY <1>1, <1>2 DEF SeenInv
<1>5. ASSUME NEW p \in Callers PROVE NotBehind(p)' /\ Undisturbed(p)'
  <2>1. NotBehind(p) /\ Undisturbed(p)
    BY DEF SeenInv
  <2>2. NotBehind(p)'
    BY <1>1, <1>2, <2>1 DEF NotBehind, Busy
  <2>3. Undisturbed(p)'
    BY <1>1, <2>1 DEF Undisturbed, Busy
  <2> QED
    BY <2>2, <2>3
<1> QED
  BY <1>3, <1>4, <1>5 DEF SeenInv

-----------------------------------------------------------------------------
(* A call goes on *)

LEMMA ContinueIs ==
  ASSUME CacheTypes, NEW p \in Callers, Busy(p), NEW todo \in Seq(Accesses), NEW copy \in Copies,
         NEW alone \in BOOLEAN, Continue(p, todo, copy, alone)
  PROVE  /\ \A q \in Callers \ {p} : call'[q] = call[q]
         /\ call'[p].todo = todo
         /\ todo # << >> => /\ call'[p].at = call[p].at /\ call'[p].copy = copy
                            /\ call'[p].alone = alone /\ call'[p].writes = call[p].writes
         /\ quiet' = IF todo = << >> /\ call[p].writes /\ alone
                     THEN [quiet EXCEPT ![call[p].at] = call[p].copy.v] ELSE quiet
         /\ UNCHANGED <<kind, row>>
<1> DEFINE new == [call[p] EXCEPT !.todo = todo, !.copy = copy, !.alone = alone]
<1>1. /\ call' = [call EXCEPT ![p] = IF todo = << >> THEN Idle ELSE new]
      /\ quiet' = IF todo = << >> /\ call[p].writes /\ alone
                  THEN [quiet EXCEPT ![call[p].at] = call[p].copy.v] ELSE quiet
      /\ UNCHANGED <<kind, row>>
  BY DEF Continue
<1>2. call[p] \in Calls /\ call \in [Callers -> Calls]
  BY DEF CacheTypes
<1>3. /\ new.at = call[p].at /\ new.todo = todo /\ new.copy = copy
      /\ new.alone = alone /\ new.writes = call[p].writes
  BY <1>2 DEF Calls
<1>4. Idle.todo = << >>
  BY DEF Idle
<1> HIDE DEF new
<1>5. /\ call'[p] = IF todo = << >> THEN Idle ELSE new
      /\ \A q \in Callers \ {p} : call'[q] = call[q]
  BY <1>1, <1>2
<1> QED
  BY <1>1, <1>3, <1>4, <1>5

LEMMA SeenContinues ==
  ASSUME StalenessInv, SeenInv, NEW p \in Callers, Busy(p), NEW todo \in Seq(Accesses),
         NEW copy \in Copies, NEW alone \in BOOLEAN, Continue(p, todo, copy, alone),
         alone => call[p].alone,
         \A n \in 1 .. Len(todo) : todo[n].key \in Rows,
         ReadsFirst(todo),
         ~Does(todo, "read_row") => \A i \in Instances : copy.v >= quiet[i],
         call[p].writes => copy = call[p].copy /\ ~Does(todo, "read_row") /\ ~Does(todo, "load_redis"),
         \A k \in Keys : Valid(remote'[k]) =>
            /\ k \in Rows /\ \A i \in Instances : remote'[k].v >= quiet[i]
            /\ alone /\ call[p].writes =>
                 remote'[k].v >= copy.v \/ Replaces(todo, k, "save_redis", "drop_redis"),
         \A i \in Instances, k \in Keys : Valid(local'[i][k]) =>
            /\ k \in Rows /\ local'[i][k].v >= quiet[i]
            /\ alone /\ call[p].writes /\ i = call[p].at =>
                 local'[i][k].v >= copy.v \/ Replaces(todo, k, "save_local", "drop_local")
  PROVE  SeenInv'
<1>1. /\ \A q \in Callers \ {p} : call'[q] = call[q]
      /\ call'[p].todo = todo
      /\ todo # << >> => /\ call'[p].at = call[p].at /\ call'[p].copy = copy
                         /\ call'[p].alone = alone /\ call'[p].writes = call[p].writes
      /\ quiet' = IF todo = << >> /\ call[p].writes /\ alone
                  THEN [quiet EXCEPT ![call[p].at] = call[p].copy.v] ELSE quiet
      /\ UNCHANGED <<kind, row>>
  BY ContinueIs DEF StalenessInv
<1>2. NotBehind(p) /\ Undisturbed(p)
  BY DEF SeenInv
<1>3. call[p].at \in Instances /\ quiet \in [Instances -> Versions]
  BY <1>2 DEF NotBehind, StalenessInv, CacheTypes
<1>4. Rows' = Rows
  BY <1>1 DEF Rows
<1>5. OfRow'
  <2>1. ASSUME NEW q \in Callers PROVE \A n \in 1 .. Len(call'[q].todo) : call'[q].todo[n].key \in Rows
    BY <1>1 DEF SeenInv, OfRow
  <2> QED
    BY <1>4, <2>1 DEF OfRow
<1>6. CASE todo = << >> /\ call[p].writes /\ alone
  <2> DEFINE i == call[p].at
             v == call[p].copy.v
  <2>1. /\ quiet'[i] = v /\ \A j \in Instances \ {i} : quiet'[j] = quiet[j]
        /\ copy = call[p].copy /\ v <= row
    BY <1>1, <1>2, <1>3, <1>6 DEF NotBehind
  <2>2. \A q \in Callers : ~(call'[q].todo # << >>)
    BY <1>1, <1>2, <1>6 DEF Undisturbed, Busy
  <2>3. \A q \in Callers : NotBehind(q)' /\ Undisturbed(q)'
    BY <2>2 DEF NotBehind, Undisturbed, Busy
  <2>4. \A k, save, drop : ~Replaces(todo, k, save, drop)
    BY <1>6 DEF Replaces
  <2> HIDE DEF i, v
  <2>5. \A j \in Instances : quiet'[j] <= row'
    BY <1>1, <2>1 DEF SeenInv
  <2>6. \A k \in Keys : Valid(remote'[k]) => \A j \in Instances : remote'[k].v >= quiet'[j]
    <3> SUFFICES ASSUME NEW k \in Keys, Valid(remote'[k]), NEW j \in Instances
                 PROVE  remote'[k].v >= quiet'[j]
      OBVIOUS
    <3>1. CASE j = i
      BY <1>6, <2>1, <2>4, <3>1 DEF v
    <3>2. CASE j # i
      BY <2>1, <3>2
    <3> QED
      BY <3>1, <3>2
  <2>7. \A j \in Instances, k \in Keys : Valid(local'[j][k]) => local'[j][k].v >= quiet'[j]
    <3> SUFFICES ASSUME NEW j \in Instances, NEW k \in Keys, Valid(local'[j][k])
                 PROVE  local'[j][k].v >= quiet'[j]
      OBVIOUS
    <3>1. CASE j = i
      BY <1>6, <2>1, <2>4, <3>1 DEF i, v
    <3>2. CASE j # i
      BY <2>1, <3>2
    <3> QED
      BY <3>1, <3>2
  <2> QED
    BY <1>5, <2>3, <2>5, <2>6, <2>7 DEF SeenInv, QuietWriteIsSeen
<1>7. CASE ~(todo = << >> /\ call[p].writes /\ alone)
  <2>1. quiet' = quiet
    BY <1>1, <1>7
  <2>2. \A j \in Instances : quiet'[j] <= row'
    BY <1>1, <2>1 DEF SeenInv
  <2>3. QuietWriteIsSeen'
    BY <2>1 DEF QuietWriteIsSeen
  <2>4. ASSUME NEW q \in Callers PROVE NotBehind(q)'
    <3>1. CASE q = p
      BY <1>1, <1>2, <2>1, <3>1 DEF NotBehind, Busy
    <3>2. CASE q # p
      <4>1. call'[q] = call[q] /\ NotBehind(q)
        BY <1>1, <3>2 DEF SeenInv
      <4> QED
        BY <1>1, <2>1, <4>1 DEF NotBehind, Busy
    <3> QED
      BY <3>1, <3>2
  <2>5. ASSUME NEW q \in Callers PROVE Undisturbed(q)'
    <3>1. CASE q = p
      <4> SUFFICES ASSUME todo # << >>, alone
                   PROVE  /\ \A r \in Callers \ {p} : ~(call[r].todo # << >>)
                          /\ call[p].writes => \A k \in Keys :
                               /\ Valid(remote'[k]) =>
                                    remote'[k].v >= copy.v \/ Replaces(todo, k, "save_redis", "drop_redis")
                               /\ Valid(local'[call[p].at][k]) =>
                                    \/ local'[call[p].at][k].v >= copy.v
                                    \/ Replaces(todo, k, "save_local", "drop_local")
        BY <1>1, <3>1 DEF Undisturbed, Busy
      <4>1. \A r \in Callers \ {p} : ~(call[r].todo # << >>)
        BY <1>2 DEF Undisturbed, Busy
      <4> QED
        BY <1>3, <4>1
    <3>2. CASE q # p
      <4>1. call'[q] = call[q] /\ (call[q].todo # << >> => ~call[q].alone)
        BY <1>1, <3>2 DEF SeenInv, Undisturbed, Busy
      <4> QED
        BY <4>1 DEF Undisturbed, Busy
    <3> QED
      BY <3>1, <3>2
  <2> QED
    BY <1>5, <2>2, <2>3, <2>4, <2>5 DEF SeenInv
<1> QED
  BY <1>6, <1>7

-----------------------------------------------------------------------------
(* The accesses *)

\* What an access does to the caches, apart from loading and reading: an entry
\* stays as it was, unless a call that stays alone was to renew it, or is made
\* of the call's copy.
KeepsRemote(p, alone, k) ==
  Valid(remote'[k]) =>
    \/ /\ remote'[k] = remote[k]
       /\ ~(alone /\ k = Todo(p).key /\ Todo(p).what \in {"save_redis", "drop_redis"})
    \/ k = Todo(p).key /\ Todo(p).what = "save_redis" /\ remote'[k].v = call[p].copy.v

KeepsLocal(p, alone, i, k) ==
  Valid(local'[i][k]) =>
    \/ /\ local'[i][k] = local[i][k]
       /\ ~(alone /\ i = call[p].at /\ k = Todo(p).key /\ Todo(p).what \in {"save_local", "drop_local"})
    \/ i = call[p].at /\ k = Todo(p).key /\ Todo(p).what = "save_local" /\ local'[i][k].v = call[p].copy.v

LEMMA SeenGoesOn ==
  ASSUME StalenessInv, SeenInv, NEW p \in Callers, Busy(p), NEW alone \in BOOLEAN,
         alone => call[p].alone, Todo(p).what # "read_row",
         Continue(p, Tail(call[p].todo), call[p].copy, alone),
         \A k \in Keys : KeepsRemote(p, alone, k),
         \A i \in Instances, k \in Keys : KeepsLocal(p, alone, i, k)
  PROVE  SeenInv'
<1> DEFINE todo == call[p].todo
           rest == Tail(todo)
           v == call[p].copy.v
<1>1. /\ todo \in Seq(Accesses) /\ todo # << >> /\ call[p].copy \in Copies
      /\ NotBehind(p) /\ Undisturbed(p) /\ ReadsFirst(todo)
      /\ \A n \in 1 .. Len(todo) : todo[n].key \in Rows
  BY RestOfCall DEF Busy, SeenInv, NotBehind, OfRow
<1>2. /\ rest \in Seq(Accesses) /\ ReadsFirst(rest)
      /\ Todo(p).key \in Rows /\ \A n \in 1 .. Len(rest) : rest[n].key \in Rows
      /\ Does(rest, "read_row") => Todo(p).what = "load_redis"
      /\ Does(todo, "read_row") => Does(rest, "read_row")
      /\ \A k, save, drop : Replaces(todo, k, save, drop) =>
           \/ Replaces(rest, k, save, drop)
           \/ Todo(p).key = k /\ Todo(p).what \in {save, drop}
  BY <1>1, TailFacts DEF Todo
<1>3. \A what \in Kinds : Does(rest, what) => Does(todo, what)
  BY <1>1, TailDoes
<1>4. v \in Int /\ (\A i \in Instances : quiet[i] \in Int)
  BY <1>1, Parameters DEF Copies, Versions, StalenessInv, CacheTypes
<1>5. ~Does(rest, "read_row") => \A i \in Instances : v >= quiet[i]
  BY <1>1, <1>2 DEF NotBehind
<1>6. Todo(p).what \in {"save_redis", "save_local"} => \A i \in Instances : v >= quiet[i]
  BY <1>2, <1>5
<1>7. call[p].writes => ~Does(rest, "read_row") /\ ~Does(rest, "load_redis")
  BY <1>1, <1>3 DEF NotBehind, Kinds
<1> HIDE DEF rest, todo
<1>8. ASSUME NEW k \in Keys, Valid(remote'[k])
      PROVE  /\ k \in Rows /\ \A i \in Instances : remote'[k].v >= quiet[i]
             /\ alone /\ call[p].writes =>
                  remote'[k].v >= v \/ Replaces(rest, k, "save_redis", "drop_redis")
  <2>1. CASE /\ remote'[k] = remote[k]
             /\ ~(alone /\ k = Todo(p).key /\ Todo(p).what \in {"save_redis", "drop_redis"})
    <3>1. k \in Rows /\ \A i \in Instances : remote[k].v >= quiet[i]
      BY <1>8, <2>1 DEF SeenInv, OfRow, QuietWriteIsSeen
    <3>2. alone /\ call[p].writes => remote[k].v >= v \/ Replaces(todo, k, "save_redis", "drop_redis")
      BY <1>1, <1>8, <2>1 DEF Undisturbed, todo
    <3> QED
      BY <1>2, <2>1, <3>1, <3>2
  <2>2. CASE k = Todo(p).key /\ Todo(p).what = "save_redis" /\ remote'[k].v = v
    BY <1>2, <1>4, <1>6, <2>2
  <2> QED
    BY <1>8, <2>1, <2>2 DEF KeepsRemote
<1>9. ASSUME NEW i \in Instances, NEW k \in Keys, Valid(local'[i][k])
      PROVE  /\ k \in Rows /\ local'[i][k].v >= quiet[i]
             /\ alone /\ call[p].writes /\ i = call[p].at =>
                  local'[i][k].v >= v \/ Replaces(rest, k, "save_local", "drop_local")
  <2>1. CASE /\ local'[i][k] = local[i][k]
             /\ ~(alone /\ i = call[p].at /\ k = Todo(p).key /\ Todo(p).what \in {"save_local", "drop_local"})
    <3>1. k \in Rows /\ local[i][k].v >= quiet[i]
      BY <1>9, <2>1 DEF SeenInv, OfRow, QuietWriteIsSeen
    <3>2. alone /\ call[p].writes /\ i = call[p].at =>
            local[i][k].v >= v \/ Replaces(todo, k, "save_local", "drop_local")
      BY <1>1, <1>9, <2>1 DEF Undisturbed, todo
    <3> QED
      BY <1>2, <2>1, <3>1, <3>2
  <2>2. CASE /\ i = call[p].at /\ k = Todo(p).key /\ Todo(p).what = "save_local"
             /\ local'[i][k].v = v
    BY <1>2, <1>4, <1>6, <2>2
  <2> QED
    BY <1>9, <2>1, <2>2 DEF KeepsLocal
<1>10. Continue(p, rest, call[p].copy, alone)
  BY DEF rest, todo
<1> QED
  BY <1>1, <1>2, <1>5, <1>7, <1>8, <1>9, <1>10, SeenContinues

LEMMA LoadRedisSeen ==
  ASSUME StalenessInv, SeenInv, NEW p \in Callers, LoadRedis(p)
  PROVE  SeenInv'
<1> DEFINE key == Todo(p).key
           e == remote[key]
           todo == <<Access("save_local", key)>>
           copy == [v |-> e.v, past |-> e.past]
<1>1. Busy(p) /\ Todo(p).what = "load_redis" /\ UNCHANGED <<local, remote>>
  BY DEF LoadRedis, Doing
<1>2. /\ key \in Keys /\ call[p].alone \in BOOLEAN /\ e \in Entries
      /\ Does(call[p].todo, "load_redis")
  BY <1>1, RestOfCall DEF StalenessInv, CacheTypes
<1>3. ~call[p].writes
  BY <1>1, <1>2 DEF SeenInv, NotBehind
<1>4. CASE Valid(e) /\ Continue(p, todo, copy, call[p].alone)
  <2>1. copy \in Copies /\ copy.v = e.v
    BY <1>2 DEF Entries, Copies
  <2>2. key \in Rows /\ \A i \in Instances : e.v >= quiet[i]
    BY <1>2, <1>4 DEF SeenInv, OfRow, QuietWriteIsSeen
  <2>3. /\ todo \in Seq(Accesses) /\ ReadsFirst(todo)
        /\ \A n \in 1 .. Len(todo) : todo[n].key \in Rows
    BY <1>2, <2>2 DEF Access, Accesses, Kinds, ReadsFirst
  <2> HIDE DEF key, e, todo, copy
  <2>4. \A k \in Keys : Valid(remote[k]) => k \in Rows /\ \A i \in Instances : remote[k].v >= quiet[i]
    BY DEF SeenInv, OfRow, QuietWriteIsSeen
  <2>5. \A i \in Instances, k \in Keys : Valid(local[i][k]) => k \in Rows /\ local[i][k].v >= quiet[i]
    BY DEF SeenInv, OfRow, QuietWriteIsSeen
  <2>6. \A i \in Instances : copy.v >= quiet[i]
    BY <2>1, <2>2
  <2> QED
    BY <1>1, <1>2, <1>3, <1>4, <2>1, <2>3, <2>4, <2>5, <2>6, SeenContinues
<1>5. CASE GoOn(p) \/ FailOn(p)
  <2>1. PICK alone \in BOOLEAN : /\ Continue(p, Tail(call[p].todo), call[p].copy, alone)
                                 /\ alone => call[p].alone
    BY <1>2, <1>5 DEF GoOn, FailOn
  <2>2. \A k \in Keys : KeepsRemote(p, alone, k)
    BY <1>1 DEF KeepsRemote
  <2>3. \A i \in Instances, k \in Keys : KeepsLocal(p, alone, i, k)
    BY <1>1 DEF KeepsLocal
  <2> QED
    BY <1>1, <2>1, <2>2, <2>3, SeenGoesOn
<1> QED
  BY <1>4, <1>5 DEF LoadRedis

LEMMA ReadRowSeen ==
  ASSUME StalenessInv, SeenInv, NEW p \in Callers, ReadRow(p)
  PROVE  SeenInv'
<1> DEFINE todo == call[p].todo
           rest == Tail(todo)
<1>1. /\ Busy(p) /\ Todo(p).what = "read_row" /\ UNCHANGED <<local, remote>>
      /\ Continue(p, rest, Current(row), call[p].alone)
  BY DEF ReadRow, Doing
<1>2. /\ call[p].alone \in BOOLEAN /\ Does(todo, "read_row")
      /\ todo \in Seq(Accesses) /\ todo # << >>
  BY <1>1, RestOfCall DEF Busy
<1>3. /\ NotBehind(p) /\ ReadsFirst(todo) /\ ~call[p].writes
      /\ \A n \in 1 .. Len(todo) : todo[n].key \in Rows
  BY <1>1, <1>2 DEF SeenInv, NotBehind, OfRow
<1>4. /\ rest \in Seq(Accesses) /\ ReadsFirst(rest)
      /\ \A n \in 1 .. Len(rest) : rest[n].key \in Rows
  BY <1>2, <1>3, TailFacts
<1>5. Current(row) \in Copies /\ Current(row).v = row
  BY Bounds DEF Current, Copies, StalenessInv, CacheTypes
<1>6. \A i \in Instances : row >= quiet[i]
  BY Parameters DEF SeenInv, StalenessInv, CacheTypes, Versions
<1> HIDE DEF todo, rest
<1>7. \A k \in Keys : Valid(remote[k]) => k \in Rows /\ \A i \in Instances : remote[k].v >= quiet[i]
  BY DEF SeenInv, OfRow, QuietWriteIsSeen
<1>8. \A i \in Instances, k \in Keys : Valid(local[i][k]) => k \in Rows /\ local[i][k].v >= quiet[i]
  BY DEF SeenInv, OfRow, QuietWriteIsSeen
<1> QED
  BY <1>1, <1>2, <1>3, <1>4, <1>5, <1>6, <1>7, <1>8, SeenContinues

\* Saving and dropping an entry.
LEMMA PutsSeen ==
  ASSUME StalenessInv, SeenInv, NEW p \in Callers,
         SaveLocal(p) \/ SaveRedis(p) \/ DropLocal(p) \/ DropRedis(p)
  PROVE  SeenInv'
<1> DEFINE key == Todo(p).key
           what == Todo(p).what
<1>1. Busy(p) /\ what \in Puts
  BY DEF SaveLocal, SaveRedis, DropLocal, DropRedis, Doing, Puts
<1>2. /\ call[p].alone \in BOOLEAN /\ key \in Keys /\ ~Valid(Miss)
      /\ Hit(call[p].copy).v = call[p].copy.v
      /\ local \in [Instances -> [Keys -> Entries]] /\ remote \in [Keys -> Entries]
  BY <1>1, RestOfCall, HitOf, Constants DEF StalenessInv, CacheTypes
<1>3. PICK alone \in BOOLEAN :
        /\ Continue(p, Tail(call[p].todo), call[p].copy, alone)
        /\ alone => call[p].alone
        /\ alone => \/ what = "save_local" \/ what = "drop_local"
                    \/ what = "save_redis" /\ remote' = [remote EXCEPT ![key] = Hit(call[p].copy)]
                    \/ what = "drop_redis" /\ remote' = [remote EXCEPT ![key] = Miss]
  <2>1. CASE GoOn(p) /\ (\/ what = "save_local" \/ what = "drop_local"
                         \/ what = "save_redis" /\ remote' = [remote EXCEPT ![key] = Hit(call[p].copy)]
                         \/ what = "drop_redis" /\ remote' = [remote EXCEPT ![key] = Miss])
    BY <1>2, <2>1 DEF GoOn
  <2>2. CASE FailOn(p)
    BY <2>2 DEF FailOn
  <2> QED
    BY <2>1, <2>2 DEF SaveLocal, SaveRedis, DropLocal, DropRedis, Doing
<1>4. \/ remote' = remote
      \/ what = "save_redis" /\ remote' = [remote EXCEPT ![key] = Hit(call[p].copy)]
      \/ what = "drop_redis" /\ remote' = [remote EXCEPT ![key] = Miss]
  BY DEF SaveLocal, SaveRedis, DropLocal, DropRedis, Doing
<1>5. \/ local' = local /\ what \notin {"save_local", "drop_local"}
      \/ what = "save_local" /\ local' = [local EXCEPT ![call[p].at][key] = Hit(call[p].copy)]
      \/ what = "drop_local" /\ local' = [local EXCEPT ![call[p].at][key] = Miss]
  BY DEF SaveLocal, SaveRedis, DropLocal, DropRedis, Doing
<1>6. ASSUME NEW k \in Keys PROVE KeepsRemote(p, alone, k)
  <2>1. CASE k = key
    BY <1>2, <1>3, <1>4, <2>1 DEF KeepsRemote
  <2>2. CASE k # key
    BY <1>2, <1>4, <2>2 DEF KeepsRemote
  <2> QED
    BY <2>1, <2>2
<1>7. ASSUME NEW i \in Instances, NEW k \in Keys PROVE KeepsLocal(p, alone, i, k)
  <2>1. CASE k = key /\ i = call[p].at
    BY <1>2, <1>5, <2>1 DEF KeepsLocal
  <2>2. CASE ~(k = key /\ i = call[p].at)
    <3>1. local'[i][k] = local[i][k]
      BY <1>2, <1>5, <2>2
    <3> QED
      BY <2>2, <3>1 DEF KeepsLocal
  <2> QED
    BY <2>1, <2>2
<1>8. what # "read_row"
  BY <1>1 DEF Puts
<1> QED
  BY <1>1, <1>3, <1>6, <1>7, <1>8, SeenGoesOn

-----------------------------------------------------------------------------
(* Time, and the theorem *)

LEMMA TickSeen ==
  ASSUME StalenessInv, SeenInv, Tick
  PROVE  SeenInv'
<1>1. UNCHANGED <<kind, row, quiet>>
  BY DEF Tick
<1>2. ASSUME NEW k \in Keys, Valid(remote'[k])
      PROVE  Valid(remote[k]) /\ remote'[k].v = remote[k].v
  <2>1. remote[k] \in Entries /\ remote'[k] = Aged(remote[k])
    BY DEF Tick, StalenessInv, CacheTypes
  <2> QED
    BY <1>2, <2>1, AgedEntry
<1>3. ASSUME NEW i \in Instances, NEW k \in Keys, Valid(local'[i][k])
      PROVE  Valid(local[i][k]) /\ local'[i][k].v = local[i][k].v
  <2>1. local[i][k] \in Entries /\ local'[i][k] = Aged(local[i][k])
    BY DEF Tick, StalenessInv, CacheTypes
  <2> QED
    BY <1>3, <2>1, AgedEntry
<1>4. ASSUME NEW p \in Callers
      PROVE  /\ call'[p].at = call[p].at /\ call'[p].todo = call[p].todo
             /\ call'[p].copy.v = call[p].copy.v
             /\ call'[p].writes = call[p].writes /\ call'[p].alone = call[p].alone
  <2>1. call[p] \in Calls
    BY DEF StalenessInv, CacheTypes
  <2>2. CASE Busy(p)
    <3>1. call'[p] = [call[p] EXCEPT !.ticks = @ + 1, !.copy.past = Past(call[p].copy)]
      BY <2>2 DEF Tick
    <3> QED
      BY <2>1, <3>1 DEF Calls, Copies
  <2>3. CASE ~Busy(p)
    BY <2>3 DEF Tick
  <2> QED
    BY <2>2, <2>3
<1>5. Rows' = Rows
  BY <1>1 DEF Rows
<1>6. OfRow'
  BY <1>2, <1>3, <1>4, <1>5 DEF SeenInv, OfRow
<1>7. QuietWriteIsSeen'
  BY <1>1, <1>2, <1>3 DEF SeenInv, QuietWriteIsSeen
<1>8. ASSUME NEW p \in Callers PROVE NotBehind(p)'
  BY <1>1, <1>4 DEF SeenInv, NotBehind, Busy
<1>9. ASSUME NEW p \in Callers PROVE Undisturbed(p)'
  <2> SUFFICES ASSUME call[p].todo # << >>, call[p].alone
               PROVE  /\ \A q \in Callers \ {p} : ~(call[q].todo # << >>)
                      /\ call[p].writes => \A k \in Keys :
                           /\ Valid(remote'[k]) =>
                                \/ remote'[k].v >= call[p].copy.v
                                \/ Replaces(call[p].todo, k, "save_redis", "drop_redis")
                           /\ Valid(local'[call[p].at][k]) =>
                                \/ local'[call[p].at][k].v >= call[p].copy.v
                                \/ Replaces(call[p].todo, k, "save_local", "drop_local")
    BY <1>4 DEF Undisturbed, Busy
  <2>1. Undisturbed(p) /\ call[p].at \in Instances
    BY DEF SeenInv, NotBehind, Busy
  <2> QED
    BY <1>2, <1>3, <2>1 DEF Undisturbed, Busy
<1> QED
  BY <1>1, <1>6, <1>7, <1>8, <1>9 DEF SeenInv

LEMMA SeenInit == Init => SeenInv
<1> SUFFICES ASSUME Init PROVE SeenInv
  OBVIOUS
<1>1. ~Valid(Miss) /\ Idle.todo = << >> /\ Len(<< >>) = 0
  BY DEF Valid, Miss, Idle
<1>2. OfRow /\ QuietWriteIsSeen
  BY <1>1 DEF Init, OfRow, QuietWriteIsSeen
<1>3. \A p \in Callers : NotBehind(p) /\ Undisturbed(p)
  BY <1>1 DEF Init, NotBehind, Undisturbed, Busy
<1>4. \A i \in Instances : quiet[i] <= row
  BY DEF Init
<1> QED
  BY <1>2, <1>3, <1>4 DEF SeenInv

LEMMA SeenNext ==
  ASSUME StalenessInv, SeenInv, [Next]_vars
  PROVE  SeenInv'
<1>1. CASE UNCHANGED vars
  BY <1>1 DEF vars, SeenInv, OfRow, Rows, NotBehind, Undisturbed, Busy, QuietWriteIsSeen
<1>2. ASSUME NEW p \in Callers,
             \/ LoadRedis(p) \/ ReadRow(p) \/ SaveLocal(p) \/ SaveRedis(p)
             \/ DropLocal(p) \/ DropRedis(p)
      PROVE  SeenInv'
  BY <1>2, LoadRedisSeen, ReadRowSeen, PutsSeen
<1> QED
  BY <1>1, <1>2, CallsSeen, UpdateOrderStatusSeen, TickSeen DEF Next

\* A save or a checkout that nothing disturbed is seen from then on, in Redis and
\* on its instance, for a SKU and for the list it is in (SaveProduct, SaveSKU,
\* SaveOrderWithInventoryLocks, the read-through of Get and List).
THEOREM QuietWriteTheorem == Spec => []QuietWriteIsSeen
<1>1. SeenInv => QuietWriteIsSeen
  BY DEF SeenInv
<1> QED
  BY <1>1, StalenessInvariance, SeenInit, SeenNext, PTL DEF Spec

=============================================================================
