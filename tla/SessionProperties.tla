-------------------------- MODULE SessionProperties ---------------------------
(***************************************************************************)
(* What Sessions is checked for.                                           *)
(***************************************************************************)
EXTENDS Sessions

Whats == {"create_shop", "read_owner", "save_shop", "save_pair", "load_shop", "fill_shop", "get",
          "save_local", "save_negative", "drop_local", "drop_both", "find", "delete", "delete_both"}

Accesses == [what : Whats, token : Tokens \cup {None}]

Calls == [at : Instances \cup {None}, todo : Seq(Accesses), token : Tokens \cup {None},
          pair : 0 .. MaxPairs, shop : {"none", "shop"}, ticks : 0 .. CallTime,
          ends : BOOLEAN, quiet : BOOLEAN]

\* Every variable has its type; no record and no entry has more than a life left,
\* and the tokens made are within their bound.
SessionTypeOK ==
  /\ account \in {"none", "user", "merchant"}
  /\ redis \in [Tokens -> Int] /\ \A t \in Tokens : redis[t] \in -1 .. Life(t)
  /\ record \in [Pairs -> {"none", "shop"}]
  /\ local \in [Instances -> [Tokens -> [found : BOOLEAN, left : Int]]]
  /\ \A i \in Instances, t \in Tokens : local[i][t].left \in -1 .. Life(t)
  /\ shops \in [Instances -> {"unknown", "none", "shop"}]
  /\ call \in [Callers -> Calls]
  /\ calls \in 0 .. MaxCalls /\ faults \in 0 .. MaxFaults
  /\ pairs \in 0 .. MaxPairs
  /\ given \subseteq Pairs
  /\ gone \in [Tokens -> Int] /\ \A t \in Tokens : gone[t] \in -1 .. Grace(t) + 1
  /\ ended \in [Instances -> SUBSET Pairs]
  /\ misled \in BOOLEAN

Honoured(i, t) == local[i][t].found

\* Once DEL has taken a token's record out of Redis, no instance honours the
\* token for longer than one more life and the time of a call: what an instance
\* remembers of it was read from Redis before.
RevocationIsBounded ==
  \A t \in Tokens : gone[t] >= 0 =>
    /\ redis[t] < 0
    /\ \A i \in Instances : Honoured(i, t) => gone[t] <= Grace(t)

\* A logout or a rotation that found the record, while no other call was in
\* progress and nothing failed, ends both tokens of the pair: Redis and the
\* instance that did it know neither from then on.
QuietEndIsFinal ==
  \A i \in Instances, t \in Tokens :
    PairOf(t) \in ended[i] => redis[t] < 0 /\ ~Honoured(i, t)

\* A merchant who has a shop is not taken for one without, which would last as
\* long as the process, unless he logged in before registration had made the
\* shop, or a query failed.
ShopIsNotForgotten ==
  account = "merchant" /\ ~misled =>
    /\ \A i \in Instances : shops[i] # "none"
    /\ \A t \in Tokens : redis[t] >= 0 => record[PairOf(t)] = "shop"

=============================================================================
