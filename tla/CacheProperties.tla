--------------------------- MODULE CacheProperties ----------------------------
(***************************************************************************)
(* What CatalogCache is checked for.                                       *)
(***************************************************************************)
EXTENDS CatalogCache

Copies == [v : Versions, past : 0 .. Ancient]
Entries == [v : Versions, past : 0 .. Ancient, left : -1 .. TTL]

\* Every variable has its type.
CacheTypeOK ==
  /\ kind \in {"product", "sku"}
  /\ row \in Versions
  /\ local \in [Instances -> [Keys -> Entries]]
  /\ remote \in [Keys -> Entries]
  /\ \A p \in Callers :
       /\ call[p].at \in Instances \cup {None}
       /\ call[p].copy \in Copies
       /\ call[p].ticks \in 0 .. CallTime
  /\ quiet \in [Instances -> Versions]

\* No one is shown a product, SKU or list that was overwritten longer ago than
\* two lives of an entry and the time two calls take: a value goes into Redis
\* once, from there into local caches once, and never back.
BoundedStaleness ==
  /\ \A k \in Keys : Valid(remote[k]) => remote[k].past <= TTL + CallTime
  /\ \A i \in Instances, k \in Keys :
       Valid(local[i][k]) => local[i][k].past <= 2 * TTL + 2 * CallTime

\* A save or a checkout that no other call and no failure of Redis disturbed
\* is seen from then on: neither Redis nor the cache of its instance has an
\* entry, a SKU's or its list's, from before it.
QuietWriteIsSeen ==
  \A i \in Instances, k \in Keys :
    /\ Valid(remote[k]) => remote[k].v >= quiet[i]
    /\ Valid(local[i][k]) => local[i][k].v >= quiet[i]

=============================================================================
