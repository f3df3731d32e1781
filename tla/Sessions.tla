------------------------------- MODULE Sessions -------------------------------
(***************************************************************************)
(* Accounts and sessions: application/service_auth.go over                 *)
(* redis/session_repository.go.                                            *)
(*                                                                         *)
(* A session is a pair of tokens, for access and for refreshing.  Redis has *)
(* a record of the pair under each of them, and every API instance keeps   *)
(* what it was told of a token, also that it is unknown, in memory.  It    *)
(* keeps the shop of a user as well, without an end.  A behaviour follows  *)
(* one account of a merchant; whether two sessions are one account's makes *)
(* no difference to their tokens.                                          *)
(*                                                                         *)
(* A call is its list of accesses, and the accesses of all calls           *)
(* interleave.  Time goes by in ticks, and a call takes CallTime of them   *)
(* at most.  An access to Redis or a query may fail, and the code goes on. *)
(***************************************************************************)
EXTENDS Integers, Sequences, FiniteSets

CONSTANTS
  Callers,        \* requests in progress
  Instances,      \* API processes
  None,           \* no instance, no token
  AccessTTL, RefreshTTL,   \* the ticks a token lives, with its jitter
  CallTime,       \* bounds the ticks a call takes
  MaxCalls,       \* bounds the calls
  MaxPairs,       \* bounds the pairs of tokens
  MaxFaults       \* bounds the failures and restarts

Pairs == 1 .. MaxPairs
Tokens == 1 .. 2 * MaxPairs

ASSUME SessionAssumption ==
  /\ {AccessTTL, RefreshTTL, CallTime, MaxCalls, MaxPairs, MaxFaults} \subseteq Nat
  /\ None \notin Instances \cup Tokens

Access(n) == 2 * n - 1
Refresh(n) == 2 * n
PairOf(t) == (t + 1) \div 2
IsAccess(t) == t = Access(PairOf(t))
Both(t) == {Access(PairOf(t)), Refresh(PairOf(t))}

VARIABLES
  account,        \* the account in PostgreSQL: "none", "user", "merchant"
  redis,          \* the ticks a token's record has left; -1 without a record
  record,         \* the shop in the records of a pair
  local,          \* an instance's entry of a token
  shops,          \* what an instance keeps of the account's shop
  call,           \* the call a caller is in
  calls,          \* how many there have been
  pairs,          \* the pairs made
  given,          \* those a client has been given
  gone,           \* the ticks since a token's record was deleted; or -1
  ended,          \* the pairs an instance has ended undisturbed
  misled,         \* the shop was looked for too early or in vain
  faults

stores == <<account, redis, record>>
caches == <<local, shops>>
history == <<gone, ended, misled>>
vars == <<stores, caches, call, calls, pairs, given, history, faults>>

Life(t) == IF IsAccess(t) THEN AccessTTL ELSE RefreshTTL

\* An entry: the token is found or unknown, and the ticks left; or none.  An
\* entry of an unknown token lives a tenth of an access token: until a tick.
Miss == [found |-> FALSE, left |-> -1]
Negative == [found |-> FALSE, left |-> 0]

\* Mutant: an entry gets more than a life.
Found_Longer(left) == [found |-> TRUE, left |-> left + 1]

Found(left) == [found |-> TRUE, left |-> left]

Valid(entry) == entry.left >= 0

\* The call's token, the pair it makes and the shop it has read; whether it has
\* found a record to delete, and whether nothing has disturbed it.
Idle == [at |-> None, todo |-> << >>, token |-> None, pair |-> 0, shop |-> "none",
         ticks |-> 0, ends |-> FALSE, quiet |-> FALSE]
Busy(p) == call[p].todo # << >>

Do(what, t) == <<[what |-> what, token |-> t]>>
Has(todo, what) == \E k \in DOMAIN todo : todo[k].what = what

Init ==
  /\ account = "none"
  /\ redis = [t \in Tokens |-> -1]
  /\ record = [n \in Pairs |-> "none"]
  /\ local = [i \in Instances |-> [t \in Tokens |-> Miss]]
  /\ shops = [i \in Instances |-> "unknown"]
  /\ call = [p \in Callers |-> Idle]
  /\ calls = 0
  /\ pairs = 0
  /\ given = {}
  /\ gone = [t \in Tokens |-> -1]
  /\ ended = [i \in Instances |-> {}]
  /\ misled = FALSE
  /\ faults = 0

-----------------------------------------------------------------------------
(* Calls *)

\* Caller p begins a call.  One that deletes is quiet while there is no other.
Begin(p, i, t, todo) ==
  /\ ~Busy(p)
  /\ calls < MaxCalls /\ calls' = calls + 1
  /\ todo # << >>
  /\ LET others == {q \in Callers : Busy(q)}
     IN  call' = [q \in Callers |->
                    IF q = p THEN [Idle EXCEPT !.at = i, !.todo = todo, !.token = t,
                                               !.quiet = others = {} /\ Has(todo, "find")]
                             ELSE [call[q] EXCEPT !.quiet = FALSE]]
  /\ UNCHANGED <<redis, record, caches, pairs, given, gone, ended>>

\* Failures and restarts are few, and so are logins before there is a shop.
Fault == faults < MaxFaults /\ faults' = faults + 1

MayMakePair ==
  LET makers == {p \in Callers : Has(call[p].todo, "read_owner")}
  IN  pairs + Cardinality(makers) < MaxPairs

\* issueSession: the shop is read and kept, then the pair.
Issue == Do("read_owner", None) \o Do("save_shop", None) \o Do("save_pair", None)

\* Mutant: the shop is created after the session.
Register_ShopLast(p, i) ==
  /\ account = "none" /\ MayMakePair
  /\ Begin(p, i, None, Issue \o Do("create_shop", None))
  /\ account' = "user"
  /\ UNCHANGED <<misled, faults>>

\* A second user with the phone is a conflict.
Register(p, i) ==
  /\ account = "none" /\ MayMakePair
  /\ Begin(p, i, None, Do("create_shop", None) \o Issue)
  /\ account' = "user"
  /\ UNCHANGED <<misled, faults>>

Login(p, i) ==
  /\ account # "none" /\ MayMakePair
  /\ Begin(p, i, None, Issue)
  /\ \/ account = "merchant" /\ UNCHANGED <<misled, faults>>
     \/ account = "user" /\ misled' = TRUE /\ Fault
  /\ UNCHANGED account

\* DeleteSession begins with its own instance's entry.
Delete(t) == Do("drop_local", t) \o Do("find", t)

Logout(p, i, t) ==
  /\ Begin(p, i, t, Delete(t))
  /\ UNCHANGED <<account, misled, faults>>

\* GetUserByToken: the local cache answers at once, also that it knows the
\* token to be unknown; the call goes on with what is to do for a known one.
GetUserByToken(p, i, t, accepted) ==
  /\ \/ local[i][t].found /\ Begin(p, i, t, accepted)
     \/ ~Valid(local[i][t]) /\ Begin(p, i, t, Do("get", t) \o accepted)
  /\ UNCHANGED <<account, misled, faults>>

\* Me does the same.
Authenticate(p, i, t) ==
  GetUserByToken(p, i, t, IF IsAccess(t) THEN Do("load_shop", None) ELSE << >>)

RefreshSession(p, i, t) ==
  /\ MayMakePair
  /\ GetUserByToken(p, i, t, IF ~IsAccess(t) THEN Delete(t) \o Issue ELSE << >>)

-----------------------------------------------------------------------------
(* Accesses *)

Todo(p) == Head(call[p].todo)
Rest(p) == Tail(call[p].todo)
Doing(p, what) == Busy(p) /\ Todo(p).what = what

\* Caller p goes on with the given accesses and call record.  A call that is
\* over gives its pair away, and may have ended one undisturbed.
Continue(p, todo, now) ==
  LET over == todo = << >>
  IN  /\ call' = [call EXCEPT ![p] = IF over THEN Idle ELSE [now EXCEPT !.todo = todo]]
      /\ given' = IF over /\ now.pair # 0 THEN given \cup {now.pair} ELSE given
      /\ ended' = IF over /\ now.ends /\ now.quiet
                  THEN [ended EXCEPT ![now.at] = @ \cup {PairOf(now.token)}] ELSE ended
      /\ UNCHANGED calls

GoOn(p) == Continue(p, Rest(p), call[p]) /\ UNCHANGED <<pairs, faults>>
FailOn(p) == Continue(p, Rest(p), [call[p] EXCEPT !.quiet = FALSE]) /\ Fault /\ UNCHANGED pairs
Stop(p) == Continue(p, << >>, call[p]) /\ Fault /\ UNCHANGED pairs

CreateShop(p) ==
  /\ Doing(p, "create_shop")
  /\ \/ account' = "merchant" /\ GoOn(p)
     \/ Stop(p) /\ UNCHANGED account
  /\ UNCHANGED <<redis, record, caches, gone, misled>>

Shop == IF account = "merchant" THEN "shop" ELSE "none"

\* A query that fails is taken for an account without a shop.
ReadShop(p, todo, n) ==
  \/ /\ Continue(p, todo, [call[p] EXCEPT !.shop = Shop, !.pair = n])
     /\ UNCHANGED <<misled, faults>>
  \/ /\ Continue(p, todo, [call[p] EXCEPT !.shop = "none", !.pair = n])
     /\ misled' = TRUE
     /\ Fault

\* SaveSession reads the user and the shop.  Without the user it saves nothing,
\* and the pair is given away all the same.
ReadOwner(p) ==
  /\ Doing(p, "read_owner")
  /\ pairs' = pairs + 1
  /\ \/ ReadShop(p, Rest(p), pairs + 1)
     \/ /\ Continue(p, Do("load_shop", None), [call[p] EXCEPT !.pair = pairs + 1, !.quiet = FALSE])
        /\ Fault
        /\ UNCHANGED misled
  /\ UNCHANGED <<stores, caches, gone>>

\* GetMerchantByUserID: one caller of an instance at a time.
LoadShop(p) ==
  /\ Doing(p, "load_shop")
  /\ \/ shops[call[p].at] # "unknown" /\ GoOn(p) /\ UNCHANGED misled
     \/ /\ shops[call[p].at] = "unknown"
        /\ \A q \in Callers : call[q].at = call[p].at => ~Doing(q, "fill_shop")
        /\ ReadShop(p, Do("fill_shop", None), call[p].pair)
        /\ UNCHANGED pairs
  /\ UNCHANGED <<stores, caches, gone>>

SaveShop(p) ==
  /\ Doing(p, "save_shop") \/ Doing(p, "fill_shop")
  /\ shops' = [shops EXCEPT ![call[p].at] = call[p].shop]
  /\ GoOn(p)
  /\ UNCHANGED <<stores, local, gone, misled>>

\* SaveSession writes each token to Redis, which it lets fail, and to the local
\* cache.  Nobody has the tokens before the call is over: it is one step.
SavePair(p) ==
  /\ Doing(p, "save_pair")
  /\ LET n == call[p].pair
     IN  /\ \E set \in SUBSET {Access(n), Refresh(n)} :
              /\ redis' = [t \in Tokens |-> IF t \in set THEN Life(t) ELSE redis[t]]
              /\ IF set = {Access(n), Refresh(n)} THEN GoOn(p) ELSE FailOn(p)
         /\ record' = [record EXCEPT ![n] = call[p].shop]
         /\ local' = [local EXCEPT ![call[p].at] = [t \in Tokens |->
                         IF PairOf(t) = n THEN Found(Life(t)) ELSE @[t]]]
  /\ UNCHANGED <<account, shops, gone, misled>>

KeepLocal(p, entry) ==
  local' = [local EXCEPT ![call[p].at][Todo(p).token] = entry]

\* What Redis told: the token for a whole life, and the shop.
SaveLocal(p) ==
  /\ Doing(p, "save_local")
  /\ KeepLocal(p, Found(Life(Todo(p).token)))
  /\ shops' = [shops EXCEPT ![call[p].at] = call[p].shop]
  /\ GoOn(p)
  /\ UNCHANGED <<stores, gone, misled>>

SaveNegative(p) ==
  /\ Doing(p, "save_negative")
  /\ KeepLocal(p, Negative)
  /\ GoOn(p)
  /\ UNCHANGED <<stores, shops, gone, misled>>

DropLocal(p) ==
  /\ Doing(p, "drop_local")
  /\ KeepLocal(p, Miss)
  /\ GoOn(p)
  /\ UNCHANGED <<stores, shops, gone, misled>>

GetRecord(p) ==
  /\ Doing(p, "get")
  /\ LET t == Todo(p).token
     IN  \/ /\ redis[t] >= 0
            /\ Continue(p, Do("save_local", t) \o Rest(p), [call[p] EXCEPT !.shop = record[PairOf(t)]])
            /\ UNCHANGED <<pairs, faults>>
         \/ /\ redis[t] < 0
            /\ Continue(p, Do("save_negative", t), call[p])
            /\ UNCHANGED <<pairs, faults>>
         \/ Stop(p)
  /\ UNCHANGED <<stores, caches, gone, misled>>

DropBoth(p) ==
  /\ Doing(p, "drop_both")
  /\ local' = [local EXCEPT ![call[p].at] = [t \in Tokens |->
                 IF PairOf(t) = PairOf(Todo(p).token) THEN Miss ELSE @[t]]]
  /\ GoOn(p)
  /\ UNCHANGED <<stores, shops, gone, misled>>

\* Mutant: the other token of the pair stays in the instance's cache.
FindRecord_KeepsOther(p) ==
  /\ Doing(p, "find")
  /\ LET t == Todo(p).token
     IN  \/ /\ redis[t] >= 0
            /\ Continue(p, Do("delete_both", t) \o Rest(p), [call[p] EXCEPT !.ends = TRUE])
            /\ UNCHANGED <<pairs, faults>>
         \/ /\ redis[t] < 0
            /\ Continue(p, Do("delete", t) \o Rest(p), call[p])
            /\ UNCHANGED <<pairs, faults>>
         \/ Continue(p, Do("delete", t) \o Rest(p), call[p]) /\ Fault /\ UNCHANGED pairs
  /\ UNCHANGED <<stores, caches, gone, misled>>

\* DeleteSession finds the pair in the record; without it, it deletes what it
\* can name.
FindRecord(p) ==
  /\ Doing(p, "find")
  /\ LET t == Todo(p).token
     IN  \/ /\ redis[t] >= 0
            /\ Continue(p, Do("delete_both", t) \o Do("drop_both", t) \o Rest(p),
                        [call[p] EXCEPT !.ends = TRUE])
            /\ UNCHANGED <<pairs, faults>>
         \/ /\ redis[t] < 0
            /\ Continue(p, Do("delete", t) \o Rest(p), call[p])
            /\ UNCHANGED <<pairs, faults>>
         \/ Continue(p, Do("delete", t) \o Rest(p), call[p]) /\ Fault /\ UNCHANGED pairs
  /\ UNCHANGED <<stores, caches, gone, misled>>

\* DEL of the keys, which may fail.
DeleteRecords(p) ==
  /\ Doing(p, "delete_both") \/ Doing(p, "delete")
  /\ LET keys == IF Doing(p, "delete") THEN {Todo(p).token} ELSE Both(Todo(p).token)
     IN  \/ /\ redis' = [t \in Tokens |-> IF t \in keys THEN -1 ELSE redis[t]]
            /\ gone' = [t \in Tokens |-> IF t \in keys /\ gone[t] < 0 THEN 0 ELSE gone[t]]
            /\ GoOn(p)
         \/ FailOn(p) /\ UNCHANGED <<redis, gone>>
  /\ UNCHANGED <<account, record, caches, misled>>

-----------------------------------------------------------------------------
(* Time and crashes *)

\* The longest that an instance honours a token whose record was deleted.
Grace(t) == Life(t) + CallTime

\* Mutant: an entry does not expire.
Aged_Never(entry) == entry

Aged(entry) == IF entry.left > 0 THEN [entry EXCEPT !.left = @ - 1] ELSE Miss

Tick ==
  /\ \A p \in Callers : Busy(p) => call[p].ticks < CallTime
  /\ redis' = [t \in Tokens |-> IF redis[t] >= 0 THEN redis[t] - 1 ELSE -1]
  /\ local' = [i \in Instances |-> [t \in Tokens |-> Aged(local[i][t])]]
  /\ call' = [p \in Callers |-> IF Busy(p) THEN [call[p] EXCEPT !.ticks = @ + 1] ELSE call[p]]
  /\ gone' = [t \in Tokens |-> IF gone[t] \in 0 .. Grace(t) THEN gone[t] + 1 ELSE gone[t]]
  /\ UNCHANGED <<account, record, shops, calls, pairs, given, ended, misled, faults>>

\* loadCache deletes an entry that it has seen expired; by then it may be a newer
\* one.
DropExpired(i, t) ==
  /\ Valid(local[i][t])
  /\ local' = [local EXCEPT ![i][t] = Miss]
  /\ Fault
  /\ UNCHANGED <<stores, shops, call, calls, pairs, given, history>>

\* An instance restarts, and its calls are over.
Restart(i) ==
  /\ Fault
  /\ local' = [local EXCEPT ![i] = [t \in Tokens |-> Miss]]
  /\ shops' = [shops EXCEPT ![i] = "unknown"]
  /\ call' = [p \in Callers |-> IF call[p].at = i THEN Idle ELSE call[p]]
  /\ UNCHANGED <<stores, calls, pairs, given, history>>

Next ==
  \/ \E p \in Callers, i \in Instances :
       \/ Register(p, i) \/ Login(p, i)
       \/ \E t \in {t \in Tokens : PairOf(t) \in given} :
            Logout(p, i, t) \/ Authenticate(p, i, t) \/ RefreshSession(p, i, t)
  \/ \E p \in Callers :
       \/ CreateShop(p) \/ ReadOwner(p) \/ LoadShop(p) \/ SaveShop(p) \/ SavePair(p)
       \/ SaveLocal(p) \/ SaveNegative(p) \/ DropLocal(p) \/ DropBoth(p)
       \/ GetRecord(p) \/ FindRecord(p) \/ DeleteRecords(p)
  \/ Tick
  \/ \E i \in Instances : Restart(i) \/ \E t \in Tokens : DropExpired(i, t)

Spec == Init /\ [][Next]_vars

=============================================================================
