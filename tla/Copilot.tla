-------------------------------- MODULE Copilot --------------------------------
(***************************************************************************)
(* The AI handlers of the merchants behind the rate limiter:               *)
(* httpapi/middleware_ratelimit.go, application/service_ai.go.             *)
(*                                                                         *)
(* A request that is let through inserts a task, asks the provider, writes *)
(* what came of it back, and answers; a task can be read at any time.  The *)
(* request carries the shop of its user as the session knows it, which may *)
(* be no shop at all.  A surface is generated without a task.              *)
(***************************************************************************)
EXTENDS RateLimiter, FiniteSets

CONSTANTS
  Callers,        \* requests in progress
  Others,         \* merchants who make no requests, but read tasks
  None,           \* no shop
  MaxCalls,       \* bounds the requests
  MaxTasks,       \* bounds the tasks
  MaxFaults       \* bounds the statements and calls that fail

ASSUME CopilotAssumption ==
  /\ None \notin Users \cup Others
  /\ Users \cap Others = {}
  /\ {MaxCalls, MaxTasks, MaxFaults} \subseteq Nat

VARIABLES
  tasks,          \* ai_generation_tasks
  call,           \* what a caller's request does next
  calls,
  faults,
  hint,           \* when a refused user may come again; -1 for no such time
  vain,           \* the users refused although they waited
  lost            \* the tasks whose outcome a failure kept from the table

requests == <<call, calls, faults>>
history == <<hint, vain, lost>>
vars == <<limiter, tasks, requests, history>>

Idle == [step |-> "none"]
Doing(p, step) == call[p].step = step

\* A merchant has one shop, which goes by its owner's name; a session may not
\* know it.
Shops(u) == {u, None}

Init ==
  /\ LimiterInit
  /\ tasks = << >>
  /\ call = [p \in Callers |-> Idle]
  /\ calls = 0
  /\ faults = 0
  /\ hint = [u \in Users |-> -1]
  /\ vain = {}
  /\ lost = {}

Fault == faults < MaxFaults /\ faults' = faults + 1

Continue(p, next) == call' = [call EXCEPT ![p] = next] /\ UNCHANGED <<calls, faults>>

-----------------------------------------------------------------------------
(* The limiter *)

\* A new request.
Begin(p, first) ==
  /\ Doing(p, "none")
  /\ calls < MaxCalls /\ calls' = calls + 1
  /\ call' = [call EXCEPT ![p] = first]
  /\ UNCHANGED <<tasks, lost>>

Making == {p \in Callers : Doing(p, "create")}

\* GenerateSellingPoints makes a task at once, GenerateBusinessReview after it
\* has read the dashboard.
Generate(u, shop) ==
  IF Len(tasks) + Cardinality(Making) < MaxTasks
  THEN {[step |-> "create", user |-> u, shop |-> shop]} ELSE {}

\* GenerateA2UISurface reads products and notes, asks the provider, and leaves
\* nothing behind, whatever fails.
Surface == Idle

First(u, shop) == {Surface} \cup Generate(u, shop)

\* The header counts in whole seconds and is never less than one.
retryAfterSeconds(wait) == Second * ((wait + Second - 1) \div Second)

LetThrough(p, u, shop) ==
  /\ \E now \in Clocks : Admit(u, now)
  /\ \E first \in First(u, shop) : Begin(p, first)
  /\ hint' = [hint EXCEPT ![u] = -1]
  /\ UNCHANGED <<faults, vain>>

\* 429: the first time told stands.
TurnAway(p, u) ==
  /\ Begin(p, Idle)
  /\ \E now \in Clocks :
       /\ Refuse(u, now)
       /\ hint' = [hint EXCEPT ![u] =
            IF @ < 0 THEN time + retryAfterSeconds(RetryAfter(u, now)) + Spread ELSE @]
  /\ vain' = IF hint[u] \in 0 .. time THEN vain \cup {u} ELSE vain
  /\ UNCHANGED faults

\* Without an answer of Redis the request goes on; the script may have run.
OpenGate(p, u, shop) ==
  /\ Fault
  /\ \E first \in First(u, shop) : Begin(p, first)
  /\ \/ UNCHANGED <<limiter, hint>>
     \/ (\E now \in Clocks : Refuse(u, now)) /\ UNCHANGED hint
     \/ /\ \E now \in Clocks : Admit(u, now)
        /\ hint' = [hint EXCEPT ![u] = -1]
  /\ UNCHANGED vain

-----------------------------------------------------------------------------
(* The handlers *)

Task(c) == [user |-> c.user, shop |-> c.shop, status |-> "pending"]

CreateAITask(p) ==
  /\ Doing(p, "create")
  /\ tasks' = Append(tasks, Task(call[p]))
  /\ Continue(p, [step |-> "ask", task |-> Len(tasks')])
  /\ UNCHANGED <<limiter, hint, vain, lost>>

\* Mutant: a failure of the provider is answered at once.
AskProvider_KeepsFailure(p) ==
  /\ Doing(p, "ask")
  /\ \/ Continue(p, [step |-> "write", task |-> call[p].task, status |-> "completed"])
     \/ Continue(p, Idle)
  /\ UNCHANGED <<limiter, tasks, history>>

\* The provider answers, or fails.
AskProvider(p) ==
  /\ Doing(p, "ask")
  /\ \E outcome \in {"completed", "failed"} :
       Continue(p, [step |-> "write", task |-> call[p].task, status |-> outcome])
  /\ UNCHANGED <<limiter, tasks, history>>

\* The error of the update is ignored.
UpdateAITask(p) ==
  /\ Doing(p, "write")
  /\ tasks' = [tasks EXCEPT ![call[p].task].status = call[p].status]
  /\ Continue(p, Idle)
  /\ UNCHANGED <<limiter, history>>

\* Mutant: merchants without a shop count as one.
CanReadAITask_AnyShop(shop, t) == tasks[t].shop = shop

\* GetAITask reads a task for a merchant whose session has the given shop.  (Other
\* users read tasks of their own, and make none.)
CanReadAITask(shop, t) == shop # None /\ tasks[t].shop = shop

\* A statement fails, or the process dies: the request is over.
Fail(p) ==
  /\ ~Doing(p, "none")
  /\ Fault
  /\ call' = [call EXCEPT ![p] = Idle]
  /\ lost' = IF Doing(p, "create") THEN lost ELSE lost \cup {call[p].task}
  /\ UNCHANGED <<limiter, tasks, calls, hint, vain>>

\* A statement takes no time to speak of; the provider may.
Tick ==
  /\ \A p \in Callers : Doing(p, "none") \/ Doing(p, "ask")
  /\ LimiterTick
  /\ UNCHANGED <<tasks, requests, history>>

Next ==
  \/ \E p \in Callers :
       \/ \E u \in Users : \E shop \in Shops(u) : LetThrough(p, u, shop) \/ OpenGate(p, u, shop)
       \/ \E u \in Users : TurnAway(p, u)
       \/ CreateAITask(p) \/ AskProvider(p) \/ UpdateAITask(p) \/ Fail(p)
  \/ Tick

Spec == Init /\ [][Next]_vars

=============================================================================
