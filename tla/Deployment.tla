------------------------------ MODULE Deployment ------------------------------
(***************************************************************************)
(* The relay as cmd/api starts it: main asks the repository that           *)
(* repository_factory.go has put together whether it implements the        *)
(* interface of the relay.  A repository is the set of the interfaces it   *)
(* implements.                                                             *)
(***************************************************************************)
EXTENDS OutboxProperties

Postgres == {"application.Repository", "event.Outbox", "event.OutboxRelayStore"}

\* A decorator embeds the application.Repository interface, and so has its
\* methods and those declared for itself, and no other of what it wraps.
Decorate(base, own) == (base \cap {"application.Repository"}) \cup own

\* wrapRepositoryWithRedisSession: the sessions around the catalog cache.
Repo == Decorate(Decorate(Postgres, {"event.Outbox"}), {"event.Outbox"})

\* main starts the relay when the assertion to event.OutboxRelayStore holds.
RunMain(r) == "event.OutboxRelayStore" \in Repo /\ Start(r)

DeployedNext ==
  \/ \E e \in Events : Record(e)
  \/ \E r \in Relays : RunMain(r) \/ Tick(r) \/ Wake(r, "tick") \/ Crash(r)

DeployedSpec ==
  /\ Init /\ [][DeployedNext]_vars
  /\ \A r \in Relays : WF_vars(RunMain(r) \/ Tick(r) \/ Wake(r, "tick"))

=============================================================================
