# A TLA+ development of SentinelEdge (Wardex)

Models, model checks and proofs for the parts of the server and the agent whose
correctness depends on the order of events: the high-availability cluster, the
response orchestrator, the event spool, staged rollouts and the agent's own
update, the agent registry, live response, escalations, playbooks, the audit
chain, the event stream, change reviews and console sessions. Source paths are
relative to the repository root, so `src/cluster.rs` is the Rust module.

## 1. Inventory

The program is one binary that runs as a server (HTTP API, admin console), as
an agent, or from the command line. The server keeps nearly all of its state in
one `AppState` behind a mutex; a handler locks it, calls a component, and
answers. Threads that are not handlers: the cluster driver, the schedulers of
hunts, feeds and retention, the local monitor, the alert analysis, and the
agent's own loops. A component is interesting for a model where a call leaves
the lock (HTTP between cluster nodes, an entry taken from the spool), where a
clock is read before the lock, where a later call depends on what an earlier
one left behind (approvals, retries, sessions, rollouts), or where the process
may end, or a save may fail, in between.

| Component | State | Operations | Interacts with | What is hard | What makes it correct |
|---|---|---|---|---|---|
| HA cluster (`cluster.rs`, `server_cluster.rs`) | term, role, vote, leader, log, commit index, peer indexes; the driver's vote count | elections, appends, commits, snapshots, compaction, replacement | other nodes over HTTP, one blocking call at a time | handlers run while the driver waits; lost, late and stale messages; a node replaced by an empty one | one vote and one leader per term, matching logs, commits on a majority |
| Response orchestrator (`response.rs`) | requests, protected assets, audit ledger; the server's approval log | submit, approve, deny, expire_stale, execute_approved | API, hunts, first-run proof; enforcement engines | decisions of several people in any order, repeated executions, expiry | only what was authorized is enforced, once, and the ledger tells it |
| Event spool (`spool.rs`) | queue, counters, sequence number, key | enqueue, dequeue, drains, nack, persist, restore | callers that deliver and hand back | retries against a bound, restarts from an old image, a changed key | nothing is counted twice or lost silently, order |
| Staged rollout (`server_agents.rs`, `server_fleet.rs`, `auto_update.rs`, `update_trust.rs`) | releases with their counters, a deployment per agent, versions reported | publish, deploy, roll back, cancel, heartbeat with promotion and automatic rollback, update check | agents' heartbeats and downloads | reports older than the deployment, promotions against new assignments, counters against versions | applied means running, a ring soaks, nothing is set back but by a later release |
| Agent update (`agent_client.rs`) | executable, backup, accepted counter | verify, back up, write, restore, remember | file system, two threads | a kill or a full disk between two file operations, two threads at once | a whole program is left, nothing older replaces what was accepted |
| Agent registry (`enrollment.rs`, `server_agents.rs`) | tokens with uses, agents, the database and the file of earlier releases | create_token, enroll, heartbeat, age, deregister, save, load | agents | saves that fail whole or by a row, rows a start does not read, migration | uses bounded, no agent lost but by its own row |
| Live response (`live_response.rs`) | sessions, commands | open, submit, deny, complete, time out, close | API | clocks read before the lock | a timeout means what it says |
| Escalation (`escalation.rs`) | policies, active escalations | start, acknowledge, resolve, check_sla | notifications | late and bunched checks, a policy replaced meanwhile | every level is told, an escalation under ascending levels ends |
| Playbooks (`playbook.rs`) | playbooks, executions | register, execute, approve, resume | approvals | gates against re-registration | no step before its gates, an approved execution ends while its gate stands |
| Audit chain (`audit.rs`) | records with hashes, checkpoints | record, apply_retention, verify_chain | all handlers | retention rewrites the head, records rewritten in storage | a change under a standing tip is told, an untouched chain verifies |
| Event stream (`ws_stream.rs`) | ring of events, subscriber queues, counters | publish, poll, subscribe, sweep | API clients | slow subscribers at the limit | every loss is counted |
| Change reviews (`remediation.rs`) | the stored list of reviews | record, sign, roll back | API, storage | changes of mind, recording again, saves that fail | what ran was approved |
| Console sessions (`auth.rs`, `server_core_helpers.rs`) | sessions in memory and in the database | create, validate, reload, destroy, expire | every request | best-effort saves, reloads that bring sessions back | a live session is let in, no other is |

The components that are not modelled are in section 7. `PROJECT.json` lists
every component with its files and status, and every known hazard with its
source line and the properties about it.

## 2. Modules

| Module | Contents |
|---|---|
| `Cluster` | the nodes' state machines, their driver loops and the network |
| `ClusterLife` | extends `Cluster` by replacement of nodes, snapshots and compaction |
| `ClusterProofs` | theorems on types, elections and logs, of `Cluster` and `ClusterLife` |
| `ClusterCommitProofs` | theorems on what is committed |
| `Response` | the orchestrator with its API handlers |
| `Approval` | abstract: what the orchestrator promises |
| `ResponseApproval` | the refinement mapping from `Response` to `Approval` |
| `ResponseProofs` | theorems on authorization, the ledger and the refinement |
| `Spool` | the spool, its callers, crashes and restarts |
| `SpoolProofs` | its theorems |
| `Rollout` | the server's deployments and the agents that follow them |
| `RolloutProofs` | theorems on it |
| `AgentUpdate` | the agent's replacement of its own program |
| `Agents` | the registry of agents and tokens with its storage |
| `LiveResponse`, `Escalation`, `Playbook` | the three engines of those names |
| `Endpoints` | `Agents`, `AgentUpdate` and `LiveResponse` side by side |
| `EndpointsProofs` | theorems on these three |
| `AuditChain`, `EventBus`, `ChangeReview`, `Sessions` | the four stores |
| `Records` | the four stores side by side |
| `Workflows` | `Escalation` and `Playbook` side by side |
| `RecordsProofs` | theorems on the four stores, on `Playbook` and on `Escalation` |
| `Ascending` | the order in which a loop meets the positions it acts on |
| `AscendingProofs` | lemmas on it: extrema, existence and order of listings |
| `MCCluster`, `MCClusterLife`, `MCResponseApproval`, `MCSpool`, `MCRollout`, `MCAuditChain`, `MCEndpoints`, `MCWorkflows`, `MCRecords` | TLC instances |

`Endpoints`, `Records` and `Workflows` put components side by side that share no
state: each is behind the same lock or in another process, and none calls the
other. What one of them does cannot depend on another, so a behaviour takes the
steps of one, chosen at
the start, and the properties of all are checked.

A definition that starts with a `Mutant:` comment is the form a plausible bug
would give the definition after it; nothing in a specification uses it.
`PROJECT.json` pairs each property with the mutant that breaks it. Variables
marked *history* are read by properties only, never by a guard.

### Cluster

One value per node for each field of `ClusterNodeInner` (`term`, `role`,
`votedFor`, `leaderId`, `log`, `commitIndex`, and per peer `nextIndex`,
`matchIndex`), the locals of the driver loop (`electing`, `round` for its
VoteRequest, `todo` for the peers not called yet, `ballots` for its count), and
the HTTP traffic (`calls` being made, `replies` on their way back, `late`
requests whose caller has given up).

- Each method of `ClusterNode` runs under the node's mutex and is one step. The
  driver holds no lock between calls, so sending, handling and receiving are
  three steps, and any handler of the same node may run in between.
- `StartElection`, `SendVote`, `RecvVote`, `FinishElection`, `SendAppend`,
  `RecvAppend` are the driver; `AnswerVote`, `AnswerAppend` and their late forms
  are the API handlers; `AppendEntry` is a client of the leader; `CallFails` and
  `CallOutlivesCaller` are the network.
- A call may be handled and answered, fail before it is handled, fail after it
  is handled, or fail for the caller and be handled later. Nothing is handled
  twice: an HTTP request is sent once.
- The loop calls its peers in order; the model lets it take any order, a
  superset. A deadline may have passed at any time, as time has no other effect.
- `grants`, `won`, `led` and `faults` are history: votes given, rounds won,
  leaderships taken, and which of three known faults were met (`late_win`, a
  `become_leader` after the term moved on; `foreign_tail`, an acknowledgement of
  entries the request did not cover; `stale_commit`, a commit by a node that is
  not leader).

`ClusterLife` adds `Replace` (a restart, or the configuration routes that assign
`ClusterNode::new(..)`): the new node knows nothing, and what the old driver has
still to send may reach the peers. `TakeSnapshot`, `InstallSnapshot` and
`CompactLog` cut the front of a log, after which positions and indexes part;
`cut` remembers it. Left out: reachability flags, contact times, regions and
`last_applied`, which feed only the health report.

### Response

`requests` in order of submission (the position is the id), `protectedAssets`,
`auditLedger`, the server's `approvalLog`, a clock, and as history `effects`,
the calls of the enforcement engines. Each handler holds the `AppState` lock
throughout and is one step, all its audit entries included: `Submit` (enforced
at once, simulated or queued by tier), `Decide` (approve or deny, then the
approval log), `FirstRunProof` (submit and approve in one handler),
`ExpireStale`, `ExecuteApproved` (for one id and for all),
`RegisterProtectedAsset`. An engine is the set of outcomes it can report for a
kind of action. The whole tier table is modelled. `ExpireStale` and
`RegisterProtectedAsset` are public operations that the server does not call at
this commit; they are in the model because the properties should hold with them.

`Approval` knows no tiers, ledgers, clocks or engines: an item is asked for,
backed, closed or carried out. `ResponseApproval` maps a request to an item (its
backers are the approvers on it, its tries the calls of the engines for it), and
`ImplementsApproval` says that every step of every handler is a step of
`Approval` or changes none of what it speaks of. That a decision is final and
that an action is enforced at most once are part of it.

### Spool

`queue`, `key`, the sequence number and three counters of `EncryptedSpool`, the
entries callers hold, the bytes `persist` wrote last, and as history how many
entries were handed back and how many a tenant's drain erased. The cipher is
modelled by what it does: an entry carries the key it was written under, and
under another key it does not parse. A restart loses what callers hold and
starts with any key, from the saved image or empty (no image, or one that
`restore` refuses).

### Rollout and AgentUpdate

`Rollout`: on the server, the releases in the order they were published, and for
each agent the version it reported, whether it is online and its deployment; on
the agent the program running, the program on disk, the update under way, the
accepted counter and the target it heard last. A release is published with a
counter one above all before it (`src/auto_update.rs:402`), whatever its
version, so an older version published later has the higher counter; a version
is published at most once here. Operators publish, deploy, roll back and cancel;
a heartbeat is one handler that follows the deployment up, promotes versions
from ring to ring and takes them back, and is one action. `applied` is history:
how long the deployment of each agent has been applied without a break. An agent
fetches, installs, fails, reports and is restarted. Times are ages up to the
longest soak. An agent is busy with one update at a time here.

`AgentUpdate` is the same update seen from the agent, file operation by file
operation, by the two threads `run_agent` starts, with kills and failing writes
between any two. `updateMishaps` remembers the two things the code does not
guard against: that both threads install at once, and a backup that could not be
copied back. The server side (versions offered) is any release; `CounterOf` is
the order in which the releases were published, any order at all.

### Agents

`mem`, `db` and `legacy` are three copies of the registry: in memory, in the
database and in the JSON file of earlier releases. Every operation saves the
whole registry in one transaction, which fails whole or is committed without the
rows whose INSERT failed (`src/enrollment.rs:429`, `437`). `Load` takes the rows
of the database that read and parse, any of them (`src/enrollment.rs:458`,
`472`), or migrates the file when it got none, or, when the store cannot be
read, starts empty. `lost` remembers the agents whose row was lost in one of
these ways and not written again since. Labels, scopes, groups and health
payloads are left out.

### LiveResponse, Escalation, Playbook

A route reads the clock and then waits for the lock, so in `LiveResponse` and
`Escalation` a call is served with a time up to `MaxWait` old and calls overtake
each other. `Escalation` has one policy that is replaced, disabled or removed
while escalations run; its levels may have any numbers in any order, as the
route takes them. `Playbook` has one playbook id whose definition is registered
anew while executions wait at a gate; a run goes from gate to gate in one step.
An execution goes on behind its gate in the definition registered now, by the
gate's id, so `GatesApproved` is claimed of definitions that keep the gates
before each gate (`SameGates`). Two of the three definitions of the run differ
in the order of the work between the gates, and the third has dropped one, so
that executions wait at a gate that is no longer there (`GateStands`). Left out:
on-call schedules (queries), `update_step` and `finish_execution` (no caller),
the on-failure jump, which no step can take because `dispatch_step` never fails.

### AuditChain, EventBus, ChangeReview, Sessions

`AuditChain`: a hash is the pair of what was hashed, so hashes are equal exactly
when their inputs are; `Rewrite` puts any content, any link and either the old
hash or the one that fits in the place of a stored record, behind the log's
back. Only what no hash covers is left out: the sequence number, and where the
bar between category and summary stands.
`EventBus`: events are numbers; queues, ring and counters are as in the code.
`ChangeReview`: the list is loaded, changed and saved in each handler, and the
save may fail; a digest is what was digested. `Sessions`: the store in memory,
the row in the database, saves and loads that may fail, and the reload that
every unknown token causes.

## 3. Runs

Counts are of distinct states. Every bound is a named constant of a module.

| Run | Shows | Bounds, and why they are enough |
|---|---|---|
| `election` | `ElectionInv`, `OneVotePerTerm`, `OneWinnerPerRound`, `LeaderIdLed`, `SplitOnlyByLateWin` | 3 nodes, 2 terms: two candidacies of one term, and one that is overtaken by the next, overlap in every way; 1 request that outlives its caller, handled in either term. An odd set has real majorities. 854 000 states. |
| `replication` | `TypeOK`, `LogMatching`, `CommitDurable`, `LeaderReachesPeers` | 3 nodes, 2 terms, logs of 2, batches of 2: an entry of a deposed leader is overwritten by its successor. The constraint admits one election at a time and stops at the first known fault, past which the last three claim nothing. 1.1 million states. |
| `restart` | `WellFormedUnlessCut`, `CommitNeverBack` | 2 nodes, 2 terms, logs of 2, 1 request that outlives its caller, 1 replacement, 1 snapshot: a replaced node is reached by its old self's requests, and a snapshot by appends. The constraint keeps snapshots apart from replacements. A million states. |
| `approval` | `ApprovalInv`, `LedgerTells`, `ImpactControlled`, `ImplementsApproval` | 2 requests, 3 actors (a requester and the two approvers the dual tier asks for), four action kinds that between them reach every tier, an asset protected at any point, one tick with an SLA of one. 475 000 states. |
| `delivery` | `TypeOK` with the bounds on retries and length, `SeqsIdentify`, `Balanced`, `FirstTriesInOrder`, `ReadableNotLost` | 3 events through a spool of 2 (so it overflows), 1 retry, a tenant and none, 2 keys, any number of crashes. 3.3 million states. |
| `rings` | `TypeOK`, `AppliedRuns`, `PromotedSoaked`, `AssignedNotRolledBack` | 2 agents, so that one promotes the other; 2 versions, the first installed at the start, both signed, published in either order or not at all, so that a promotion does set a newer assignment back; soaks of one tick; 2 requests of operators asking for a canary or ring-1, 1 restart, so that both promotions happen and a soak is broken off. The constraint lets agents fall silent only before the last request. 1.4 million states. |
| `endpoints` | `EndpointsTypeOK`, `TokenBound`, `KeptUnlessLost`, `Recoverable`, `InstalledAsVerified`, `TimeoutKept` | a token of 1 use and 3 agents, one of them in the old file, so that a use given back lets a second agent in; 3 starts, with any rows lost at each; 2 threads and 3 releases, version 2 published last, so that one is newer and one older than what the other thread installs, by version and by counter apart; 2 sessions, 2 commands, a timeout and a wait of one tick. 752 000 states. |
| `people` | `WorkflowsTypeOK`, `GatesApproved`, `ExpiredAllNotified`, `EveryEscalationEnds`, `ApprovedEnds` | 1 escalation and 2 executions, as no action of one reads another; five policies: of three levels, of two with a number left out, of none, of two levels of the same number, and with the levels in another order; a playbook with two gates in two orders of the work between them, and one that has dropped a gate; ages up to the longest deadline and wait. 45 000 states, liveness included. |
| `kept` | `TamperEvident`, `DropsCounted`, `RunsBacked`, `SessionsHonoured` | 4 records, a checkpoint every 3, retention of 2, 2 of them rewritten in place, which is what it takes to forge a record and the one that follows; 4 events, buffers of 2, 2 subscribers; 2 of 3 reviews kept, 1 or 2 approvers, 3 signatures, 1 rollback; 3 tokens, 2 ticks, failing saves and loads. 309 000 states. |
| `retention` | violation of `UntouchedVerifies` | 3 records, 2 kept, 1 rewritten in other behaviours |
| `soak` | violation of `HealthyCanaryPromoted` | 2 agents, a soak of 2 ticks |
| `failures` | violation of `FailuresBlock` | 2 agents, one failure allowed |

Node, actor, agent, tenant, key and token names are interchangeable in the
specifications, so the safety runs use symmetry where it is declared; the runs
with liveness properties do not. The runs other than `delivery` do not check for
deadlock because their counters are bounded and the behaviour ends there; the
spool never stops and is checked.

Three runs use a VIEW that leaves out history none of their properties reads.

### What the violations mean

- `retention`: `apply_retention` relinks the first record it keeps to the
  genesis hash and leaves its own hash (`src/audit.rs:245`), so a trimmed log
  that nobody touched is reported as tampered. `TamperEvident` shows that the
  links of the records behind it still tell every change. `apply_retention` has
  no caller at this commit.
- `soak`: every heartbeat of an agent that runs its assigned version sets
  `completed_at` anew (`src/server_agents.rs:306`), and the promotion waits for
  the age of that time: a healthy canary whose heartbeats come more often than
  the soak is never promoted.
- `failures`: the failures of a version are counted for the automatic rollback;
  the promotion does not look at them (`src/server_agents.rs:374`).

### Conditional properties

Some properties hold but for events that the code does not guard against. The
event is a history variable, or a condition on the state or on a constant; the
property says that it is the only exception, and the runs reach states with and
without it unless the entry says otherwise.

- Two leaders of one term (`SplitOnlyByLateWin`): `become_leader` is called on
  the vote count alone (`src/server_cluster.rs:266`), after a handler may have
  moved the node to a term nobody elected it for.
- `CommitDurable`, `LogMatching`, `LeaderReachesPeers`: a follower answers
  `match_index = log.len()` (`src/cluster.rs:558`), which may count entries of a
  deposed leader; the new leader then commits an entry only it has, or sets
  `next_index` past its own log, where `prepare_append` yields nothing and the
  peer hears no heartbeat. A node that is no longer leader still commits by late
  answers (`src/cluster.rs:622`).
- `WellFormedUnlessCut`, `CommitNeverBack`: after a compaction or an installed
  snapshot the code still takes an index for a position. A replaced node forgets
  its vote and its commits (`src/cluster.rs:271`); no election property is
  claimed across a replacement. `CommitNeverBack` excepts the steps after one of
  the three faults of `Cluster`, after a log was cut, and after a snapshot was
  installed that is ahead of the log of the node (`ahead`), and after a node
  was replaced. One replacement is enough, in a cluster of two as well: see
  "What the proofs changed".
- `TypeOK` of `Spool`: `nack` pushes without the capacity test of `enqueue`
  (`src/spool.rs:239`), so the queue outgrows `max_entries` by what is handed
  back. `ReadableNotLost` speaks of readable entries because any tenant's drain
  removes the others (`src/spool.rs:272`).
- `Recoverable`, `InstalledAsVerified`: the result of copying the backup back is
  ignored (`src/agent_client.rs:920`), and no lock spans the verification and
  the write of the two threads (`src/agent_client.rs:261`).
- `KeptUnlessLost`: a start that cannot read the store runs with an empty
  registry and saves it (`src/enrollment.rs:449`), one that cannot read or parse a
  row runs without it and saves that (`src/enrollment.rs:458`, `472`), an INSERT
  that fails is ignored and the others are committed (`src/enrollment.rs:429`,
  `437`), and the migration renames the old file whether or not its save worked
  (`src/enrollment.rs:499`). The property is about every agent whose own row met
  none of these.
- `AssignedNotRolledBack`: the promotion of a release compares its counter with
  that of the assignment and its version with the one the agent runs
  (`src/server_agents.rs:413-424`), and counters follow the order of
  publication. A release published after a newer version therefore replaces the
  assignment of the newer one where it was not applied yet, while the deploy
  route refuses the same ("deployment would roll back an already assigned
  version", `src/server_fleet.rs:312`). The property says that nothing else sets
  an assignment back, and never below the version the agent runs.
- `TamperEvident`: a record rewritten together with its hash fits the chain when
  it is the last, until the next record is written (`TipStands`), and retention
  makes the log go on from it (`misled`); nothing is claimed there, nor of the
  link of the first record of a trimmed log.
- `EveryEscalationEnds`: the route takes levels with any numbers
  (`src/server_dynamic_routes.rs:1831`) and `check_sla` finds the current level by
  its number, at the first place that has it (`src/escalation.rs:304`), so among
  levels 1, 1 the second is reached for ever, and a reordered policy may lead
  back. The property is claimed while the policy stands and its numbers ascend
  (`Leads`).
- `ApprovedEnds`: a definition that drops or renames the gate an execution waits
  at makes each approval fail (`src/playbook.rs:448-452`); the property is claimed
  until that happens (`GateStands`).
- `ExpiredAllNotified`: `start_escalation` takes the first level to be number 1
  (`src/escalation.rs:232`); where it is not, the first check ends the escalation.
- `GatesApproved`: an execution goes on in the definition registered now
  (`src/playbook.rs:409`) and never comes back to a gate put in front of the one
  it waits at. The definitions of the run keep the gates before each gate
  (`SameGates`).
- `RunsBacked`: a review may be recorded as approved (`src/remediation.rs:1326`).
- `SessionsHonoured`: a logout whose save failed is undone by the reload
  (`src/auth.rs:244`).

### What the code does without a property against it

- `approve` does not look at the age of a request, and `expire_stale` has no
  caller; the tier of a request is the one at its submission, and protecting the
  asset later does not raise it. A denial needs no right: the requester may
  deny, and so may someone who approved.
- An isolation is reported as executed when its backend has only described the
  rule (`src/enforcement.rs:305`); the model takes the outcome at its word.
- `Balanced` counts an entry that could not be read as delivered, because
  `dequeue` does.
- A heartbeat makes a deregistered agent Online again; a cancelled deployment is
  still offered by the update check.
- An automatic promotion of an unsigned release, or of a signed one published
  later, undoes the assignment of a newer version that its agent has not applied
  yet (`AssignmentsStand` says that of signed releases nothing else does).
- A deployment stays applied, and its soak goes on, when its agent reports another
  version and no update state.
- `verify_chain` does not look at sequence numbers, at where the bar between
  category and summary stands in what was hashed, or at whether the last record
  is the one the log goes on from.
- `complete_command` overwrites the status of any command, a denied one too, and
  nothing calls `check_timeouts`: an idle session ends at its next command.
- A gate that a new definition of a playbook puts in front of the one an
  execution waits at is never asked for in that execution (`SameGates`).
- A conditional playbook step names its branch in its result, and the run goes
  on with the next step of the list.
- Evictions from the ring of recent events count as drops, though no subscriber
  lost anything (`DropsCounted` says so).

### Fairness

- `Polled` (`people`): time passes and somebody keeps calling the check-sla
  route, each weakly fair. Nothing in the server calls `check_sla` by itself, so
  the property is about a deployment in which a client polls, and says so.
- `Approving` (`people`): approvers keep approving the step an execution waits
  at. Without approvers an execution waits, as it should.
- `LiveSpec` of `Rollout` (`soak`): time is weakly fair and heartbeats strongly
  fair, as an agent's loop sends one per interval for as long as it runs. The
  counterexample uses both.

The cluster has no liveness property: nothing justifies fairness of delivery, as
`ureq` is used without a timeout and a call may hang. Its liveness hazard is
stated as the state in which a peer is cut off (`LeaderReachesPeers`).

## 4. Proofs

All are for any finite set of nodes, any actors, tokens, keys and contents, and
any bounds, under the assumptions named in the modules: `Node` finite and `Nil`
not in it, natural bounds, actions among the nine kinds, the demo host a host,
`"nobody"` no token. `PROJECT.json` lists the theorems with what each
establishes. What follows is why each property needs more than itself.

### The cluster

`ClusterProofs`, on elections:
- `TypeCorrect`. The lemmas on `Truncate`, `LogAfter`, `PreparedAppend` and
  `AdvancedCommit` carry it.
- `VotesUnique`: a new vote must be compared with the old ones.
  `VotesRemembered` (a vote is of a term its voter has reached, and is the one
  `voted_for` holds while the term lasts) makes it inductive. It is the point at
  issue, because `handle_append` raises the term and leaves `voted_for` behind:
  a vote of an older term can block one in the new, and never doubles one.
- `RoundsUnique`: a vote call in flight belongs to the round its caller is in
  (`CallsOfRound`: the driver waits for one call at a time), so a granting
  answer (`AnswersGranted`) and a vote counted (`BallotsGranted`) are votes
  given in that term, a win has a majority of them (`WinsBacked`), and two
  majorities of a finite set meet.
- `ElectionInvariant`, `ReportedLeaderLed`, `SplitNeedsLateWin`: with
  `LeadersLed` and `LedBySuccess` the conjunction `ElectionInv` is inductive
  relative to `TypeOK`.

On logs:
- `LogsMatch` (`LogMatching`). Two logs cannot be compared by themselves: the
  invariant `LogInv` says that there is a set of logs, those that leaders have
  written (`History`), of which every log is a beginning and every append
  request a slice, and that logs of the set with the same term at a position
  agree up to it. A leader that writes replaces its log in the set; a follower
  that accepts a request has a beginning of the sender's log, or keeps a longer
  one of its own that agrees with it. It needs that no term had two leaders, so
  it stops at a late win.
- `LeadersReach` (`LeaderReachesPeers`): `ReachInv` follows what a leader has
  sent, what it was answered and what it means to send next within its log,
  until a foreign tail is counted.
- `LogsFormedUnlessCut` (`WellFormedUnlessCut`), of `ClusterLife`: `LifeInv`
  keeps positions and indexes together through replacements until a log is cut.

`ClusterCommitProofs`:
- `CommitsKept` (`CommitDurable`). The invariant `CommitInv` says that, unless
  one of the three faults was met, there is a *ledger* that fits the state: for
  each term that had a leader the log it was elected with, the log it has
  written, who voted for it, and who acknowledged how much of it in that term.
  `ChosenHeld` is leader completeness: an entry that a majority acknowledged in
  its leader's term is in the log of every later leader, because some voter
  acknowledged it (`VoteKept`), by least term at which it could fail. Then what
  is committed was chosen (`LedgerCommits`), and stays. No variable holds the
  ledger; each step shows the ledger after it.
- `CommitsStay` (`CommitNeverBack`), of `ClusterLife`, from the same ledger
  while nothing broke the cluster's invariant (`Unbroken`).

### The response orchestrator

`ResponseProofs`:
- `ApprovalsInvariant` (`ApprovalInv`): each request is well typed
  and `ApprovalsSound`: approvals of different people other than the requester,
  no denial behind a pending request, no pending request of the automatic tier,
  and what is approved or enforced is authorized. The last alone is
  not inductive: that the approval which reaches the required number counts
  different people has to be known of the pending request.
- `ImpactNeedsPeople` (`ImpactControlled`): `TiersKept` says that a request has
  the tier of its action and of the protection its target had at submission;
  with it the number of people follows from the kind of action.
- `LedgerIsTheStory` (`LedgerTells`): `LedgerInv` says that some increasing list
  of positions names the executions in the ledger, and pairs them with the calls
  of the engines (`Paired`). Each handler appends a stretch of entries and a
  stretch of calls (`LedgerGrowth`), and the list grows by the stretch's own.
- `OneCallPerRequest` and `OrchestratorImplementsApproval`
  (`ImplementsApproval`): the items of `Approval` are a function of the requests
  and the calls (`Mapping`). `EffectsOnce` (the engines were called once for
  every request that was enforced, and for no other) turns calls into tries;
  then each handler is one step of `Approval` (`ExecuteApproved` and
  `ExpireStale` over all requests are one with many items) or a stutter.

### The spool

`SpoolProofs`: `SpoolTypes`, `NumbersIdentify`, `CountersBalance`,
`FirstTriesKeepOrder`, `NothingReadableLost` from one invariant, `SpoolInv`. A
restart brings back what `persist` wrote, so the same things are said of the
queue and of the image (`ImageSound`); the entries in the hands of callers,
which share no number with the queue (`HandsSound`), are gone after it. The
operations that take
entries out do one thing: some positions go, the others keep their order
(`Leaves`), and the lemmas are about that.

### The endpoints

`EndpointsProofs`:
- `ProgramRecoverable` (`Recoverable`) and `InstallsWhatWasVerified`
  (`InstalledAsVerified`) from `UpdateInv`: two threads install at once only
  after the mishap that names it, what a thread works with was verified against
  what is still so, and a program that is torn has a whole backup
  (`BackupFirst`).
- `TimeoutsKept` (`TimeoutKept`): `ActivityDated` bounds how far the stored
  `last_activity` is from the true one, as clocks read earlier overwrite it.
- `TokensBounded` (`TokenBound`) and `StoredAgentsKept` (`KeptUnlessLost`):
  `AgentsInv` says the same (`Backed`) of the registry in memory and of the one
  stored, since each replaces the other, whole or in part (`RowsBacked`);
  `KeptInv` says where the agents are whose rows were not lost (`SavedRows`).
- `EndpointsAreParts`: a behaviour of `Endpoints`, which the run checks, is one of
  each part, so what is proved of the parts holds of it; `EndpointTypesHold`
  (`EndpointsTypeOK`) is the first such consequence.

### The rollout

`RolloutProofs`, from `RolloutInv`: besides types it says what an agent can report
(`Report`), that a deployment that waits has no age, and that one that is applied
is no older than the time it has been so without a break (`Soaks`). A
heartbeat makes promotions one after the other, each on what the one before left;
`AllPromotedFacts` shows, by least position at which it could fail, that in any
order each agent ends with what it had or with one promotion's deployment
(`Outcome`), and with a signed release with none lower than what it runs or
published before what it had (`Follows`, `Current`).
- `AppliedIsRunning` (`AppliedRuns`), `PromotionsSoak` (`PromotedSoaked`): what a
  heartbeat, a request and time may do to a deployment (`DepChanges`,
  `HeartbeatFacts`, `TickFacts`).
- `AssignmentsStand` (`AssignedNotRolledBack`), for releases published in any
  order, needs `Signed`: an unsigned release
  has no counter, and the promotion of it is compared only with the version the
  agent runs (`src/update_trust.rs:120`). With unsigned releases a canary of
  version 1 that has soaked takes an agent back whose assignment of version 2 was
  not applied yet; the configuration describes unsigned updates as an override for
  laboratories (`docs/CONFIGURATION.md:71`).

### Records and playbooks

`RecordsProofs`:
- `SessionsAreHonoured`: what memory or the database holds was issued as it is
  held and not ended (`Genuine`), and while nothing failed it holds all that
  lives (`Complete`).
- `ApprovalsBackRuns` (`RunsBacked`): `SoundReview` is kept by signing,
  recording again and rolling back, and a run keeps the review it ran on.
- `DropsAreCounted` (`DropsCounted`): a subscriber's losses are told by its
  queue, what it took and when it came (`SoundSub`); publishing costs each full
  queue exactly its first event (`SubPushed`), and the sum over subscribers is
  the cardinality of pairs of subscriber and event (`Losses`).
- `TamperingShows` (`TamperEvident`): there is exactly one chain of hashes for
  what was recorded (`IsChain`; it is kept as the log grows, which stands in for
  an induction over the recursive function `Chain`), and the records held, as
  they were written, are on it (`OnChain`), wherever retention cut. What stands in
  the log is compared with it from the last record, whose hash is the one the log
  goes on from, towards the first: a link that holds passes that on
  (`HashesFollow`).
- `PlaybookTypesHold` of any definitions and `GatesHold` (`GatesApproved`), under
  `SameGates`, from one invariant (`PlaybookInv`): the gates in front of the
  one an execution waits at are approved in whatever definition it waits from.
- `EscalationTypesHold` and `ExpiredTellsAll` (`ExpiredAllNotified`): the level
  notified last is the current
  one (`FollowsOn`), except that start_escalation calls the first level 1;
  check_sla ends an escalation only at a level nothing comes after, or at one the
  policy does not have (`CheckedCases`).
- `RecordsAreParts` and `WorkflowsAreParts`: as for the endpoints, a behaviour
  of a composition is one of each part; `WorkflowTypesHold` (`WorkflowsTypeOK`).

### What the proofs changed

Trying to prove a property shows what the model says beyond what a run reaches.

- `CommitNeverBack` did not hold when an installed snapshot goes ahead of the log
  it is put on, which the bounds of the run hid: `ahead` names that event.
- Nor did it hold of two nodes after one replacement, for which no invariant could
  be found. With three terms and logs of three, TLC follows a node that leads
  term 1 with an entry nobody else has, wins term 3, and is replaced while an
  append request that names that entry is on its way. The new node campaigns up
  to term 3, where its peer's vote is still for it, and replicates and commits
  three new entries. The late request then empties the peer's log, and the next
  append, which has one entry, sets the peer's commit index to one.
- `AssignedNotRolledBack`, which the run checks with signed releases, is false of
  unsigned ones; the theorem names the condition. In its first form, that no
  promotion lowers an assignment, it held only as long as counters were taken to
  grow with versions.
- The age past which an escalation does not count was the greatest deadline,
  which need not exist among infinitely many policies; it is a constant
  (`AgeCap`), assumed to be past them all.
- `"nobody"`, the holder of old agents, must not be a token. Two `CASE`
  expressions had overlapping guards.
- Loops that filter (`retain`, the drains, the entries above a snapshot) are
  stated by the positions they keep (`Ascending`), because a recursively defined
  filter cannot be reasoned about.

## 5. What is only model-checked

Liveness (`EveryEscalationEnds`, `ApprovedEnds`), as the proof system does not
handle fairness. The three runs that find violations have nothing to prove.

Induction over data is out of the provers' reach in general. Where a proof
needs it, it goes through the least element of a set of naturals
(`LeastNatural`) or through an invariant that carries the witness along.

## 6. Plan

1. Further modules: the SIEM queue (bounded, retried, dropped by halves), policy
   distribution (versions against restarts), the store of forwarded events and
   its triage, the storage's own audit chain.

## 7. Not modelled

Most of the source lines are outside any state machine, and a model of them
would restate them: handlers that read and format (`server.rs`,
`server_operator.rs`, `server_api_handlers.rs`, `openapi*.rs`, reports), text
made for a reader (the plans of `remediation.rs`), collectors and monitors (I/O
against the operating system), detectors, correlation and machine learning
(numerical heuristics, where what is right is a matter of statistics), parsers,
the admin console and the client libraries, and tests. Of what keeps state, the
following is left out:

- incidents, cases, hunts, licences, metering, flags: records whose fields an
  operator changes one at a time under one lock, without a protocol;
- roles and identity: a lookup in a constant table, and calls to a provider;
- `AtomicUpdater` of `auto_update.rs` (no caller outside its tests; what
  publishes and numbers releases there is in `Rollout`), `pipeline.rs` (no
  caller in the server), `edge_cloud.rs` (read and never written), swarm
  coordination (exercised by tests only);
- enforcement and quarantine: `Response` sees an engine as an outcome; their
  tables are lists nothing reads back;
- storage and backup: database calls, which the modules that use them model by
  what they can do (succeed, fail, lose a restart);
- `playbook_dsl.rs`, OIDC, the tracker of failed logins, the migration of the
  session file.
