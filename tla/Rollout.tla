------------------------------- MODULE Rollout -------------------------------
(***************************************************************************)
(* Staged agent updates: the releases the server publishes and numbers     *)
(* (src/auto_update.rs), the deployments it assigns                        *)
(* (src/server_fleet.rs), the heartbeat handler that follows them up,      *)
(* promotes them from ring to ring and takes them back                     *)
(* (handle_agent_heartbeat, src/server_agents.rs), and the agent that      *)
(* looks for updates, installs them and is restarted                       *)
(* (src/agent_client.rs).                                                  *)
(*                                                                         *)
(* Every server handler runs under the AppState lock and is one step.  The *)
(* agent has two threads that update: the heartbeat thread, right after an *)
(* answer that names a target, and a thread that asks periodically.  Here  *)
(* an agent is busy with at most one update at a time; two at once are     *)
(* module AgentUpdate.  All agents have one platform, a version is         *)
(* published at most once, in any order, and versions are numbers that     *)
(* compare as compare_versions does.  Releases and deployments are saved   *)
(* after each change, so a restart of the server finds them again.         *)
(***************************************************************************)
EXTENDS Integers, FiniteSets, Sequences, SequencesExt

CONSTANTS
  Agent,         \* agent ids
  MaxVersion,    \* versions are 1..MaxVersion; agents start with 1
  CanarySoak,    \* canary_soak_secs, in ticks
  Ring1Soak,     \* ring1_soak_secs, in ticks
  MaxFailures,   \* max_failures
  Signed,        \* releases carry a signature and an update counter
  Ask,           \* rollout groups operators ask for
  MaxOps,        \* bound: requests of operators
  MaxRestart     \* bound: restarts of agents

ASSUME RolloutAssumption ==
  /\ IsFiniteSet(Agent)
  /\ MaxVersion \in Nat \ {0} /\ MaxOps \in Nat /\ MaxRestart \in Nat
  /\ CanarySoak \in Nat \ {0} /\ Ring1Soak \in Nat \ {0} /\ MaxFailures \in Nat \ {0}
  /\ Signed \in BOOLEAN
  /\ Ask \subseteq {"direct", "canary", "ring-1", "ring-2"}

VARIABLES
  place,   \* of each version: its place in the order of publication, or 0
  \* the server: reported version, Online or not, deployment of each agent
  known, online, dep,
  \* the agent: program running, program on disk, update_state, the update
  \* under way, last_accepted_update_counter, target_version last heard
  running, installed, upd, job, counter, told,
  ops, restarts,   \* requests of operators and restarts so far
  \* history: versions that failed, and where; how long the deployment of each
  \* agent has been applied without a break
  failedAt, applied

serverVars == <<known, online, dep>>
agentVars == <<running, installed, upd, job, counter, told>>
histVars == <<failedAt, applied>>
vars == <<place, serverVars, agentVars, ops, restarts, histVars>>

Version == 1..MaxVersion
Group == {"direct", "canary", "ring-1", "ring-2"}
Status == {"assigned", "applying", "restart_pending", "failed", "mismatch",
           "applied", "cancelled", "rollback_pending"}
\* An age nothing tells apart from a longer one.
SoakCap == IF CanarySoak >= Ring1Soak THEN CanarySoak ELSE Ring1Soak
Never == -1
Older(t) == IF t \in {Never, SoakCap} THEN t ELSE t + 1

\* AgentDeployment; done is the age of completed_at.
Deployment == [version : Version, group : Group, status : Status,
               downgrade : BOOLEAN, done : {Never} \cup 0..SoakCap]
NoDep == [version |-> 0, group |-> "none", status |-> "none",
          downgrade |-> FALSE, done |-> Never]
Job == [version : Version, downgrade : BOOLEAN, thread : {"heartbeat", "periodic"}]
NoJob == [version |-> 0, downgrade |-> FALSE, thread |-> "none"]

Assigned(v, g, down) ==
  [version |-> v, group |-> g, status |-> "assigned", downgrade |-> down, done |-> Never]

-----------------------------------------------------------------------------
Init ==
  /\ place = [v \in Version |-> 0]
  /\ known = [a \in Agent |-> 1]
  /\ online = Agent
  /\ dep = [a \in Agent |-> NoDep]
  /\ running = [a \in Agent |-> 1] /\ installed = [a \in Agent |-> 1]
  /\ upd = [a \in Agent |-> "none"]
  /\ job = [a \in Agent |-> NoJob]
  /\ counter = [a \in Agent |-> 0]
  /\ told = [a \in Agent |-> 0]
  /\ ops = 0 /\ restarts = 0
  /\ failedAt = {}
  /\ applied = [a \in Agent |-> Never]

-----------------------------------------------------------------------------
(* The operator *)

Published == {v \in Version : place[v] # 0}

\* The update_counter of a release, and of the deployment of one: none where
\* there is no signature, and none where there is no deployment.
UpdateCounter(v) == IF Signed /\ v \in Version THEN place[v] ELSE 0

\* Mutant: the counter of a release is not compared.
TrustedAnyCounter(v, current, last, down) == down \/ v >= current

\* verify_release_artifact: neither a downgrade nor a replayed counter, unless
\* the downgrade was asked for.
Trusted(v, current, last, down) ==
  down \/ (v >= current /\ (Signed => UpdateCounter(v) > last))

\* handle_update_publish: next_update_counter is one more than any before,
\* whatever the versions.
Publish(v) ==
  /\ place[v] = 0
  /\ place' = [place EXCEPT ![v] = Cardinality(Published) + 1]
  /\ UNCHANGED <<serverVars, agentVars, ops, restarts, histVars>>

\* handle_update_deploy
Deploy(a, v, g, down) ==
  /\ ops < MaxOps /\ ops' = ops + 1 /\ v \in Published
  /\ down \/ (v >= known[a] /\ v >= dep[a].version)
  /\ Trusted(v, known[a], UpdateCounter(dep[a].version), down)
  /\ dep' = [dep EXCEPT ![a] = Assigned(v, g, down)]
  /\ applied' = [applied EXCEPT ![a] = Never]
  /\ UNCHANGED <<place, known, online, agentVars, restarts, failedAt>>

\* Mutant: the release before the one named, without looking whether it exists.
RollbackBefore(a, v) ==
  /\ ops < MaxOps /\ ops' = ops + 1
  /\ dep' = [dep EXCEPT ![a] = Assigned(v - 1, "direct", TRUE)]
  /\ applied' = [applied EXCEPT ![a] = Never]
  /\ UNCHANGED <<place, known, online, agentVars, restarts, failedAt>>

\* handle_update_rollback
Rollback(a, v) ==
  /\ ops < MaxOps /\ ops' = ops + 1 /\ v \in Published
  /\ Trusted(v, known[a], 0, TRUE)
  /\ dep' = [dep EXCEPT ![a] = Assigned(v, "direct", TRUE)]
  /\ applied' = [applied EXCEPT ![a] = Never]
  /\ UNCHANGED <<place, known, online, agentVars, restarts, failedAt>>

\* handle_update_cancel
Cancel(a) ==
  /\ ops < MaxOps /\ ops' = ops + 1
  /\ dep[a].status \notin {"none", "applied", "cancelled"}
  /\ dep' = [dep EXCEPT ![a].status = "cancelled", ![a].done = 0]
  /\ applied' = [applied EXCEPT ![a] = Never]
  /\ UNCHANGED <<place, known, online, agentVars, restarts, failedAt>>

-----------------------------------------------------------------------------
(* The heartbeat *)

\* Mutant: a deployment counts as applied when the agent says so.
FollowedUpOnWord(a) ==
  LET d == dep[a]
      s == IF upd[a] = "none" THEN d ELSE [d EXCEPT !.status = upd[a]]
  IN IF d = NoDep THEN d
     ELSE IF upd[a] = "restart_pending" THEN [s EXCEPT !.status = "applied", !.done = 0]
     ELSE s

\* The deployment of the agent heard from: its update_state is taken over, and
\* a deployment of the version it runs is applied, with completed_at = now.
FollowedUp(a) ==
  LET d == dep[a]
      s == IF upd[a] = "none" THEN d
           ELSE [d EXCEPT !.status = upd[a],
                          !.done = IF upd[a] = "restart_pending" THEN 0 ELSE @]
  IN IF d = NoDep THEN d
     ELSE IF d.version = running[a] THEN [s EXCEPT !.status = "applied", !.done = 0]
     ELSE s

\* Mutant: ring-1 follows on a canary whatever its age.
PromotionsAtOnce(D) ==
  {<<D[a].version, "ring-1">> : a \in {b \in Agent :
      D[b].status = "applied" /\ D[b].group = "canary"}}

\* progress_candidates: versions whose canary or ring-1 deployment has been
\* complete for the soak time, with the ring that is next.
Promotions(D) ==
  LET ready(g, soak) == {b \in Agent : /\ D[b].status = "applied"
                                       /\ D[b].group = g /\ D[b].done >= soak}
  IN {<<D[b].version, "ring-1">> : b \in ready("canary", CanarySoak)}
       \cup {<<D[b].version, "ring-2">> : b \in ready("ring-1", Ring1Soak)}

Failed(D, v) == {b \in Agent : D[b].version = v /\ D[b].status = "failed"}

\* The auto-rollback: deployments that failed, of a version that failed
\* max_failures times.  A failed one never carries the mark that it was
\* scheduled before: the heartbeat writes reason and status together.
TakenBack(D) ==
  [b \in Agent |->
     IF b \in Failed(D, D[b].version) /\ Cardinality(Failed(D, D[b].version)) >= MaxFailures
       THEN [D[b] EXCEPT !.status = "rollback_pending"] ELSE D[b]]

\* One promotion p = <<version, ring>>: every agent that is Online and has
\* another version assigned, or none, whatever ring it was in.
Promoted(D, p, heard) ==
  [b \in Agent |->
     IF /\ b \in online \cup {heard} /\ D[b].version # p[1]
        /\ Trusted(p[1], IF b = heard THEN running[b] ELSE known[b],
                   UpdateCounter(D[b].version), FALSE)
       THEN Assigned(p[1], p[2], FALSE) ELSE D[b]]

\* The promotions of order, one after the other.
AllPromoted(D, order, heard) ==
  LET E[i \in 0..Len(order)] == IF i = 0 THEN D ELSE Promoted(E[i - 1], order[i], heard)
  IN E[Len(order)]

\* handle_agent_heartbeat, with automatic progression and rollback enabled.
\* The promotions come in the order of a hash map.
Heartbeat(a) ==
  LET D == [dep EXCEPT ![a] = FollowedUp(a)]
  IN /\ told[a] = 0 /\ job[a].thread # "heartbeat"
     /\ known' = [known EXCEPT ![a] = running[a]]
     /\ online' = online \cup {a}
     /\ told' = [told EXCEPT ![a] =
                   IF D[a].version # running[a] THEN D[a].version ELSE 0]
     /\ \E order \in SetToSeqs(Promotions(D)) : dep' = AllPromoted(TakenBack(D), order, a)
     /\ failedAt' = IF D[a].status = "failed"
                      THEN failedAt \cup {<<a, D[a].version>>} ELSE failedAt
     /\ applied' = [b \in Agent |-> IF dep'[b].status # "applied" THEN Never
                                    ELSE IF applied[b] = Never THEN 0 ELSE applied[b]]
     /\ UNCHANGED <<place, running, installed, upd, job, counter, ops, restarts>>

\* refresh_staleness finds the agent silent for too long.
GoesStale(a) ==
  /\ a \in online
  /\ online' = online \ {a}
  /\ UNCHANGED <<place, known, dep, agentVars, ops, restarts, histVars>>

\* Time passes.
Tick ==
  /\ dep' = [a \in Agent |-> [dep[a] EXCEPT !.done = Older(@)]]
  /\ applied' = [a \in Agent |-> Older(applied[a])]
  /\ UNCHANGED <<place, known, online, agentVars, ops, restarts, failedAt>>

-----------------------------------------------------------------------------
(* The agent *)

\* handle_agent_update_check: the deployment, whatever its status, when it
\* requires an action, and else the newest release above the running version.
\* The answer to an agent that is up to date does not parse: version 0.
Offer(a) ==
  LET d == dep[a]
      newer == {v \in Published : v > running[a]}
  IN IF d.version > running[a] \/ (d.version < running[a] /\ d.downgrade)
       THEN [version |-> d.version, downgrade |-> d.downgrade]
     ELSE IF newer # {} THEN [version |-> Max(newer), downgrade |-> FALSE]
     ELSE [version |-> 0, downgrade |-> FALSE]

\* process_update up to the answer of the server.
StartUpdate(a, thread) ==
  /\ job[a] = NoJob
  /\ IF thread = "heartbeat" THEN told[a] # 0 ELSE told[a] = 0
  /\ told' = [told EXCEPT ![a] = 0]
  /\ \/ /\ Offer(a).version = 0
        /\ upd' = [upd EXCEPT ![a] = "failed"]
        /\ UNCHANGED job
     \/ /\ Offer(a).version # 0 /\ told[a] \notin {0, Offer(a).version}
        /\ upd' = [upd EXCEPT ![a] = "mismatch"]
        /\ UNCHANGED job
     \/ /\ Offer(a).version # 0 /\ told[a] \in {0, Offer(a).version}
        /\ upd' = [upd EXCEPT ![a] = "applying"]
        /\ job' = [job EXCEPT ![a] = [version |-> Offer(a).version,
                                      downgrade |-> Offer(a).downgrade, thread |-> thread]]
  /\ UNCHANGED <<place, serverVars, running, installed, counter, ops, restarts, histVars>>

\* The rest of process_update: verified and installed.
FinishUpdate(a) ==
  /\ job[a] # NoJob
  /\ Trusted(job[a].version, running[a], counter[a], job[a].downgrade)
  /\ installed' = [installed EXCEPT ![a] = job[a].version]
  /\ counter' = [counter EXCEPT ![a] = IF Signed THEN UpdateCounter(job[a].version) ELSE @]
  /\ upd' = [upd EXCEPT ![a] = "restart_pending"]
  /\ job' = [job EXCEPT ![a] = NoJob]
  /\ UNCHANGED <<place, serverVars, running, told, ops, restarts, histVars>>

\* The download, the verification or the installation fails.
FailUpdate(a) ==
  /\ job[a] # NoJob
  /\ upd' = [upd EXCEPT ![a] = "failed"]
  /\ job' = [job EXCEPT ![a] = NoJob]
  /\ UNCHANGED <<place, serverVars, running, installed, counter, told, ops, restarts, histVars>>

\* The agent is restarted: the counter it accepted was never stored.
Restart(a) ==
  /\ restarts < MaxRestart /\ restarts' = restarts + 1
  /\ running' = [running EXCEPT ![a] = installed[a]]
  /\ upd' = [upd EXCEPT ![a] = "none"]
  /\ job' = [job EXCEPT ![a] = NoJob]
  /\ counter' = [counter EXCEPT ![a] = 0]
  /\ told' = [told EXCEPT ![a] = 0]
  /\ UNCHANGED <<place, serverVars, installed, ops, histVars>>

-----------------------------------------------------------------------------
Next ==
  \/ \E v \in Version : Publish(v)
  \/ \E a \in Agent, v \in Version, g \in Ask, down \in BOOLEAN : Deploy(a, v, g, down)
  \/ \E a \in Agent, v \in Version : Rollback(a, v)
  \/ \E a \in Agent : Cancel(a)
  \/ \E a \in Agent : Heartbeat(a)
  \/ \E a \in Agent : GoesStale(a)
  \/ Tick
  \/ \E a \in Agent, t \in {"heartbeat", "periodic"} : StartUpdate(a, t)
  \/ \E a \in Agent : FinishUpdate(a)
  \/ \E a \in Agent : FailUpdate(a)
  \/ \E a \in Agent : Restart(a)

Spec == Init /\ [][Next]_vars

\* Every agent's thread keeps sending heartbeats, and time keeps passing.
LiveSpec == Spec /\ WF_vars(Tick) /\ \A a \in Agent : SF_vars(Heartbeat(a))

-----------------------------------------------------------------------------
(* Properties *)

\* Every variable has its type.
TypeOK ==
  /\ place \in [Version -> 0..MaxVersion]
  /\ known \in [Agent -> Version] /\ running \in [Agent -> Version]
  /\ installed \in [Agent -> Version] /\ counter \in [Agent -> 0..MaxVersion]
  /\ online \subseteq Agent
  /\ dep \in [Agent -> Deployment \cup {NoDep}]
  /\ upd \in [Agent -> {"none"} \cup Status]
  /\ job \in [Agent -> Job \cup {NoJob}]
  /\ told \in [Agent -> {0} \cup Version]
  /\ ops \in 0..MaxOps /\ restarts \in 0..MaxRestart
  /\ failedAt \subseteq Agent \X Version
  /\ applied \in [Agent -> {Never} \cup 0..SoakCap]

\* A deployment comes to be called applied only while its agent runs that
\* very version: neither an installation that waits for a restart, nor a late
\* or repeated report of an update state, nor a promotion makes one.
AppliedRuns ==
  [][\A a \in Agent :
       dep'[a].status = "applied" /\ dep'[a] # dep[a] =>
          \/ running[a] = dep'[a].version
          \/ dep[a].status = "applied" /\ dep'[a] = [dep[a] EXCEPT !.done = Older(@)]]_vars

\* An assignment is undone on purpose only: where no downgrade was allowed,
\* an operator's request and the promotions of a heartbeat, in whatever order
\* they come, leave an agent with a version lower than the one it was assigned
\* only if the lower one was published later, and is not below the version that
\* the agent runs.  That much is so: a release that was published after a newer
\* version replaces its assignment when the rings promote it.  This is about
\* signed releases: what an unsigned one is compared with is the version that
\* the agent runs, and nothing else.
AssignedNotRolledBack ==
  [][\A a \in Agent :
       dep'[a].version < dep[a].version /\ ~dep'[a].downgrade =>
          /\ place[dep'[a].version] > place[dep[a].version]
          /\ dep'[a].version >= known'[a]]_vars

\* A deployment of version v in ring g that has been applied for the time soak
\* without a break.
SoakedIn(v, g, soak) ==
  \E b \in Agent : dep[b].version = v /\ dep[b].group = g /\ applied[b] >= soak

\* A version comes to ring-2 or ring-1 by itself only while some deployment of it
\* in the ring before is applied and has been for the time that ring has to
\* soak, not cancelled, replaced, taken back or failed since; restarts of agents
\* and silent ones change nothing of that.
PromotedSoaked ==
  [][\A a \in Agent :
       dep'[a] # dep[a] /\ ops' = ops /\ dep'[a].status = "assigned" =>
          \/ dep'[a].group = "ring-1" /\ SoakedIn(dep'[a].version, "canary", CanarySoak)
          \/ dep'[a].group = "ring-2" /\ SoakedIn(dep'[a].version, "ring-1", Ring1Soak)]_vars

\* A version that failed on max_failures agents is promoted no further.
FailuresBlock ==
  [][\A a \in Agent :
       dep'[a] # dep[a] /\ ops' = ops /\ dep'[a].status = "assigned" =>
          Cardinality({f \in failedAt : f[2] = dep'[a].version}) < MaxFailures]_vars

\* A canary that has applied its version and stays healthy is promoted: in the
\* end every agent that is online has the version assigned, or a later one.
HealthyCanaryPromoted ==
  \A a \in Agent, v \in Version :
     <>[](dep[a].version = v /\ dep[a].status = "applied" /\ dep[a].group = "canary")
        => <>(\A b \in online : dep[b].version >= v)
=============================================================================
