----------------------------- MODULE CatalogCache -----------------------------
(***************************************************************************)
(* The two caches over the catalog: redis/catalog_cache_repository.go.     *)
(*                                                                         *)
(* Every API instance has a local cache in memory, and all share Redis.    *)
(* Entries are products, SKUs and a product's list of SKUs.  A behaviour   *)
(* follows one row, a product or a SKU with the list it is in, since rows  *)
(* do not meet in the caches.  The row is its version: the number of its   *)
(* writes.                                                                 *)
(*                                                                         *)
(* A call is its list of cache accesses, and the accesses of all calls     *)
(* interleave.  Time goes by in ticks: an entry lives TTL of them, and a   *)
(* call takes CallTime of them at most.  An access to Redis ends in time,  *)
(* for it has a timeout; that a statement of PostgreSQL does is assumed.   *)
(* An access to Redis may fail, which the code ignores.                    *)
(***************************************************************************)
EXTENDS Integers, Sequences, FiniteSets

CONSTANTS
  Callers,        \* requests in progress
  Instances,      \* API processes
  None,           \* no instance
  TTL,            \* the life of an entry
  CallTime,       \* bounds the ticks a call takes
  MaxWrites       \* bounds the writes of the row

ASSUME CacheAssumption ==
  /\ TTL \in Nat
  /\ CallTime \in Nat
  /\ MaxWrites \in Nat
  /\ None \notin Instances

VARIABLES
  kind,           \* the row followed: "product" or "sku"
  row,            \* its version in PostgreSQL
  local,          \* the local cache of an instance
  remote,         \* Redis
  call,           \* the call a caller is in
  quiet           \* an instance's newest write that nothing disturbed

vars == <<kind, row, local, remote, call, quiet>>

Keys == {"product", "sku", "list"}
Versions == 0 .. MaxWrites

\* An entry: a version, the ticks since that version was overwritten, which
\* are history, and the ticks the entry has left; or no entry.
Miss == [v |-> 0, past |-> 0, left |-> -1]

\* Mutant: an entry gets more than the configured life.
Hit_Longer(copy) == [v |-> copy.v, past |-> copy.past, left |-> TTL + 1]

Hit(copy) == [v |-> copy.v, past |-> copy.past, left |-> TTL]

Valid(entry) == entry.left >= 0

\* What a call has read of the row or of an entry.
Nothing == [v |-> 0, past |-> 0]
Current(v) == [v |-> v, past |-> 0]

\* A call without accesses left is over.
Idle == [at |-> None, todo |-> << >>, copy |-> Nothing, ticks |-> 0,
         writes |-> FALSE, alone |-> FALSE]
Busy(p) == call[p].todo # << >>

Access(what, key) == [what |-> what, key |-> key]

Init ==
  /\ kind \in {"product", "sku"}
  /\ row = 0
  /\ local = [i \in Instances |-> [k \in Keys |-> Miss]]
  /\ remote = [k \in Keys |-> Miss]
  /\ call = [p \in Callers |-> Idle]
  /\ quiet = [i \in Instances |-> 0]

-----------------------------------------------------------------------------
(* Calls *)

\* Caller p begins a call on instance i with the given accesses.  It is alone
\* as long as there is no other.
Begin(p, i, todo, copy, writes) ==
  /\ ~Busy(p)
  /\ LET others == {q \in Callers : Busy(q)}
     IN  call' = [q \in Callers |->
                    IF q = p THEN [at |-> i, todo |-> todo, copy |-> copy, ticks |-> 0,
                                   writes |-> writes, alone |-> others = {}]
                             ELSE [call[q] EXCEPT !.alone = FALSE]]
  /\ UNCHANGED <<kind, local, remote, quiet>>

\* A read returns what the local cache has, and nothing changes; else it goes
\* down the levels to the first that has the entry, and fills those above it.
Read(p, i, key, filled) ==
  /\ ~Valid(local[i][key])
  /\ Begin(p, i, <<Access("load_redis", key), Access("read_row", key),
                   Access("save_local", key), Access("save_redis", key)>> \o filled,
           Nothing, FALSE)
  /\ UNCHANGED row

GetProduct(p, i) == kind = "product" /\ Read(p, i, "product", << >>)

GetSKU(p, i) == kind = "sku" /\ Read(p, i, "sku", << >>)

\* The SKUs of a list that came from PostgreSQL are kept in the local cache.
ListSKUsByProduct(p, i) == kind = "sku" /\ Read(p, i, "list", <<Access("save_local", "sku")>>)

Invalidate(key) == <<Access("drop_local", key), Access("drop_redis", key)>>

SaveBoth(key) == <<Access("save_local", key), Access("save_redis", key)>>

WriteRow == row < MaxWrites /\ row' = row + 1

SaveProduct(p, i) ==
  kind = "product" /\ WriteRow /\ Begin(p, i, SaveBoth("product"), Current(row + 1), TRUE)

\* Mutant: the list keeps the old SKU.
SaveSKU_KeepsList(p, i) ==
  kind = "sku" /\ WriteRow /\ Begin(p, i, SaveBoth("sku"), Current(row + 1), TRUE)

SaveSKU(p, i) ==
  /\ kind = "sku"
  /\ WriteRow
  /\ Begin(p, i, SaveBoth("sku") \o Invalidate("list"), Current(row + 1), TRUE)

\* A checkout: the SKU's locked_stock is written in its transaction.
SaveOrderWithInventoryLocks(p, i) ==
  /\ kind = "sku"
  /\ WriteRow
  /\ Begin(p, i, Invalidate("sku") \o Invalidate("list"), Current(row + 1), TRUE)

\* A payment, cancellation or refund writes the SKU and leaves the caches.
UpdateOrderStatus ==
  /\ kind = "sku"
  /\ WriteRow
  /\ UNCHANGED <<kind, local, remote, call, quiet>>

-----------------------------------------------------------------------------
(* Accesses *)

Todo(p) == Head(call[p].todo)

Doing(p, what) == Busy(p) /\ Todo(p).what = what

\* Caller p goes on with the given accesses; a write that ends alone is quiet.
Continue(p, todo, copy, alone) ==
  /\ call' = [call EXCEPT ![p] =
                IF todo = << >> THEN Idle
                                ELSE [@ EXCEPT !.todo = todo, !.copy = copy, !.alone = alone]]
  /\ quiet' = IF todo = << >> /\ call[p].writes /\ alone
              THEN [quiet EXCEPT ![call[p].at] = call[p].copy.v] ELSE quiet
  /\ UNCHANGED <<kind, row>>

GoOn(p) == Continue(p, Tail(call[p].todo), call[p].copy, call[p].alone)
FailOn(p) == Continue(p, Tail(call[p].todo), call[p].copy, FALSE)

\* A hit in Redis is kept in the local cache only, and for a whole TTL.
LoadRedis(p) ==
  /\ Doing(p, "load_redis")
  /\ LET key == Todo(p).key
     IN  \/ /\ Valid(remote[key])
            /\ Continue(p, <<Access("save_local", key)>>, [v |-> remote[key].v, past |-> remote[key].past], call[p].alone)
         \/ ~Valid(remote[key]) /\ GoOn(p)
         \/ FailOn(p)
  /\ UNCHANGED <<local, remote>>

\* The query succeeds.  One for a product or a SKU that fails fills nothing; one
\* for a list is answered with less, which is kept as the list and has no
\* version: left out.
ReadRow(p) ==
  /\ Doing(p, "read_row")
  /\ Continue(p, Tail(call[p].todo), Current(row), call[p].alone)
  /\ UNCHANGED <<local, remote>>

SaveLocal(p) ==
  /\ Doing(p, "save_local")
  /\ local' = [local EXCEPT ![call[p].at][Todo(p).key] = Hit(call[p].copy)]
  /\ GoOn(p)
  /\ UNCHANGED remote

SaveRedis(p) ==
  /\ Doing(p, "save_redis")
  /\ \/ remote' = [remote EXCEPT ![Todo(p).key] = Hit(call[p].copy)] /\ GoOn(p)
     \/ FailOn(p) /\ UNCHANGED remote
  /\ UNCHANGED local

DropLocal(p) ==
  /\ Doing(p, "drop_local")
  /\ local' = [local EXCEPT ![call[p].at][Todo(p).key] = Miss]
  /\ GoOn(p)
  /\ UNCHANGED remote

DropRedis(p) ==
  /\ Doing(p, "drop_redis")
  /\ \/ remote' = [remote EXCEPT ![Todo(p).key] = Miss] /\ GoOn(p)
     \/ FailOn(p) /\ UNCHANGED remote
  /\ UNCHANGED local

-----------------------------------------------------------------------------
(* Time *)

\* The ticks after which nothing tells how old a version is.
Ancient == 2 * TTL + 2 * CallTime + 1

Past(copy) == IF copy.v < row /\ copy.past < Ancient THEN copy.past + 1 ELSE copy.past

\* Mutant: an entry is kept for ever.
Aged_Forever(entry) == [entry EXCEPT !.past = Past(entry)]

Aged(entry) ==
  IF entry.left > 0 THEN [entry EXCEPT !.past = Past(entry), !.left = @ - 1] ELSE Miss

Tick ==
  /\ \A p \in Callers : Busy(p) => call[p].ticks < CallTime
  /\ local' = [i \in Instances |-> [k \in Keys |-> Aged(local[i][k])]]
  /\ remote' = [k \in Keys |-> Aged(remote[k])]
  /\ call' = [p \in Callers |->
                IF Busy(p) THEN [call[p] EXCEPT !.ticks = @ + 1, !.copy.past = Past(call[p].copy)]
                           ELSE call[p]]
  /\ UNCHANGED <<kind, row, quiet>>

Next ==
  \/ \E p \in Callers, i \in Instances :
       \/ GetProduct(p, i) \/ GetSKU(p, i) \/ ListSKUsByProduct(p, i)
       \/ SaveProduct(p, i) \/ SaveSKU(p, i) \/ SaveOrderWithInventoryLocks(p, i)
  \/ \E p \in Callers :
       \/ LoadRedis(p) \/ ReadRow(p) \/ SaveLocal(p) \/ SaveRedis(p)
       \/ DropLocal(p) \/ DropRedis(p)
  \/ UpdateOrderStatus
  \/ Tick

Spec == Init /\ [][Next]_vars

=============================================================================
