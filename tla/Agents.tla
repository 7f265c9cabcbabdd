------------------------------- MODULE Agents --------------------------------
(***************************************************************************)
(* The registry of agents and enrollment tokens (AgentRegistry,            *)
(* src/enrollment.rs), as the routes of the server use it.                 *)
(*                                                                         *)
(* The registry lives in memory and is written whole, in one transaction,  *)
(* after every change.  A transaction that fails is reported on stderr and *)
(* forgotten; a row whose INSERT fails is left out and the others are      *)
(* committed.  A start reads the rows back and passes over those it cannot *)
(* read or parse; when it gets none, it takes the JSON file that earlier   *)
(* releases kept.  Every operation holds the AppState lock, so it is one   *)
(* step with its save.                                                     *)
(***************************************************************************)
EXTENDS Integers, FiniteSets

CONSTANTS
  Token,       \* enrollment tokens an operator creates
  MaxUses,     \* max_uses of a token
  AgentId,     \* ids the server generates
  Old,         \* the agents in the JSON file of an earlier release
  MaxBoots     \* bound: restarts of the server

ASSUME AgentsAssumption ==
  /\ IsFiniteSet(AgentId) /\ Old \subseteq AgentId /\ "nobody" \notin Token
  /\ MaxUses \in Nat \ {0} /\ MaxBoots \in Nat

VARIABLES
  mem, db, legacy,   \* registries: in memory, in the database, in the JSON file
  expired,           \* tokens past their expires_at
  boots,             \* restarts so far
  \* history: the token every agent was enrolled with, tokens ever created,
  \* agents the database or the JSON file once held, and those of whom an
  \* INSERT, a start or the migration lost the row, until it is written again
  by, created, kept, lost

agentsVars == <<mem, db, legacy, expired, boots, by, created, kept, lost>>

Status == {"none", "Online", "Stale", "Deregistered"}
NoToken == -1
\* recent: last_seen is within the staleness threshold.
Registry == [status : [AgentId -> Status], recent : [AgentId -> BOOLEAN],
             uses : [Token -> {NoToken} \cup 0..MaxUses]]

Registered(r) == {a \in AgentId : r.status[a] # "none"}
Known(r) == {k \in Token : r.uses[k] # NoToken}
Only(A) == [status |-> [a \in AgentId |-> IF a \in A THEN "Online" ELSE "none"],
            recent |-> [a \in AgentId |-> a \in A],
            uses |-> [k \in Token |-> NoToken]]
Empty == Only({})

\* The rows of the agents A and of the tokens K, out of a registry.
Rows(r, A, K) ==
  [status |-> [a \in AgentId |-> IF a \in A THEN r.status[a] ELSE "none"],
   recent |-> [a \in AgentId |-> a \in A /\ r.recent[a]],
   uses |-> [k \in Token |-> IF k \in K THEN r.uses[k] ELSE NoToken]]

\* The server runs with a new database: the old agents, if there are any, are
\* in the JSON file, and the first start is about to read it.
AgentsInit ==
  /\ mem = Empty /\ db = Empty /\ legacy = Only(Old)
  /\ expired = {} /\ boots = 0
  /\ by = [a \in AgentId |-> "nobody"]
  /\ created = {} /\ kept = Old /\ lost = {}

-----------------------------------------------------------------------------
\* Mutant: the agents are written, the tokens are not.
SaveAgentsOnly(r, gone) ==
  /\ db' = [r EXCEPT !.uses = [k \in Token |-> IF db.uses[k] = NoToken THEN @[k] ELSE db.uses[k]]]
  /\ kept' = kept \cup Registered(r) /\ lost' = gone

\* Mutant: no transaction: the tables are cleared before a save fails.
SaveUnprotected(r, gone) ==
  \/ db' = r /\ kept' = kept \cup Registered(r) /\ lost' = gone \ Registered(r)
  \/ db' = Empty /\ kept' = kept /\ lost' = gone

\* save: nothing, or both tables, without the rows whose INSERT failed.  gone
\* are the agents whose rows were lost before.
Save(r, gone) ==
  \/ UNCHANGED <<db, kept>> /\ lost' = gone
  \/ \E A \in SUBSET Registered(r), K \in SUBSET Known(r) :
       /\ db' = Rows(r, A, K)
       /\ kept' = kept \cup Registered(db')
       /\ lost' = (gone \cup Registered(r)) \ Registered(db')

\* create_token and create_token_with_ttl
CreateToken(k) ==
  /\ k \notin created /\ created' = created \cup {k}
  /\ mem' = [mem EXCEPT !.uses[k] = MaxUses]
  /\ Save(mem', lost)
  /\ UNCHANGED <<legacy, expired, boots, by>>

\* The time to live of a token ends.
Expire(k) ==
  /\ k \in created \ expired
  /\ expired' = expired \cup {k}
  /\ UNCHANGED <<mem, db, legacy, boots, by, created, kept, lost>>

\* is_valid
Valid(k) == mem.uses[k] > 0 /\ k \notin expired

\* enroll: the id is random, never one that was given before.
Enroll(k, a) ==
  /\ by[a] = "nobody" /\ a \notin Old
  /\ Valid(k)
  /\ by' = [by EXCEPT ![a] = k]
  /\ mem' = [mem EXCEPT !.uses[k] = IF @ > 0 THEN @ - 1 ELSE @,
                        !.status[a] = "Online", !.recent[a] = TRUE]
  /\ Save(mem', lost)
  /\ UNCHANGED <<legacy, expired, boots, created>>

\* heartbeat, from an agent whose token matches: agent_token_matches asks for
\* no status.
Heartbeat(a) ==
  /\ mem.status[a] # "none"
  /\ mem' = [mem EXCEPT !.status[a] = "Online", !.recent[a] = TRUE]
  /\ Save(mem', lost)
  /\ UNCHANGED <<legacy, expired, boots, by, created>>

\* deregister
Deregister(a) ==
  /\ mem.status[a] # "none"
  /\ mem' = [mem EXCEPT !.status[a] = "Deregistered"]
  /\ Save(mem', lost)
  /\ UNCHANGED <<legacy, expired, boots, by, created>>

\* set_monitor_scope: the scope itself is not modelled, the save is.
SetMonitorScope(a) ==
  /\ mem.status[a] # "none"
  /\ Save(mem, lost)
  /\ UNCHANGED <<mem, legacy, expired, boots, by, created>>

\* An agent is silent for the staleness threshold.
Silence(a) ==
  /\ mem.recent[a] \/ db.recent[a] \/ legacy.recent[a]
  /\ mem' = [mem EXCEPT !.recent[a] = FALSE]
  /\ db' = [db EXCEPT !.recent[a] = FALSE]
  /\ legacy' = [legacy EXCEPT !.recent[a] = FALSE]
  /\ UNCHANGED <<expired, boots, by, created, kept, lost>>

\* The status refresh_staleness gives to one agent.
Aged(a) ==
  IF mem.status[a] \in {"none", "Deregistered"} THEN mem.status[a]
  ELSE IF mem.recent[a] THEN "Online" ELSE "Stale"

\* refresh_staleness: not saved.
RefreshStaleness ==
  /\ mem' = [mem EXCEPT !.status = [a \in AgentId |-> Aged(a)]]
  /\ UNCHANGED <<db, legacy, expired, boots, by, created, kept, lost>>

-----------------------------------------------------------------------------
HasRecords(r) == Registered(r) # {} \/ Known(r) # {}

\* load: the rows of the database that read and parse, or else the JSON file,
\* which is renamed after the save, whether or not the save, or the renaming,
\* worked.  Where nothing is read, the registry is empty: the database does not
\* open, or the two queries fail and there is no file.
Load ==
  \/ /\ mem' = Empty
     /\ lost' = lost \cup Registered(db) \cup Registered(legacy)
     /\ UNCHANGED <<db, legacy, kept>>
  \/ \E A \in SUBSET Registered(db), K \in SUBSET Known(db) :
       /\ mem' = Rows(db, A, K) /\ HasRecords(mem')
       /\ lost' = (lost \cup Registered(db)) \ Registered(mem')
       /\ UNCHANGED <<db, legacy, kept>>
  \/ /\ HasRecords(legacy)
     /\ mem' = legacy
     /\ legacy' \in {legacy, Empty}
     /\ Save(legacy, lost \cup Registered(db) \cup (IF legacy' = Empty THEN Registered(legacy) ELSE {}))

\* The server stops or crashes, and starts.
ServerRestart ==
  /\ boots < MaxBoots /\ boots' = boots + 1
  /\ Load
  /\ UNCHANGED <<expired, by, created>>

AgentsNext ==
  \/ ServerRestart
  \/ /\ boots > 0   \* the first start has read the store
     /\ \/ \E k \in Token : CreateToken(k)
        \/ \E k \in Token : Expire(k)
        \/ \E k \in Token, a \in AgentId : Enroll(k, a)
        \/ \E a \in AgentId : Heartbeat(a)
        \/ \E a \in AgentId : Deregister(a)
        \/ \E a \in AgentId : SetMonitorScope(a)
        \/ \E a \in AgentId : Silence(a)
        \/ RefreshStaleness

AgentsSpec == AgentsInit /\ [][AgentsNext]_agentsVars

-----------------------------------------------------------------------------
(* Properties *)

\* Every variable has its type.
AgentsTypeOK ==
  /\ mem \in Registry /\ db \in Registry /\ legacy \in Registry
  /\ expired \subseteq created /\ created \subseteq Token
  /\ boots \in 0..MaxBoots
  /\ by \in [AgentId -> Token \cup {"nobody"}]
  /\ kept \subseteq AgentId /\ lost \subseteq AgentId

\* The uses a token has left, if the registry knows it.
Left(r, k) == IF r.uses[k] = NoToken THEN 0 ELSE r.uses[k]

\* A token lets in at most max_uses agents: those registered with it and the
\* uses it has left never exceed them together, in memory and in the database,
\* across saves that fail or lose rows and starts that bring an older registry
\* back, or part of one.
TokenBound ==
  \A r \in {mem, db}, k \in Token :
     Cardinality({a \in Registered(r) : by[a] = k}) + Left(r, k) <= MaxUses

\* An agent that was once stored is stored, in the database or in the JSON
\* file, and the server knows it, however many transactions failed since: what
\* can part with it is the loss of its own row.  A start may not read the row,
\* or the whole store, and the next save writes the database without it; its
\* INSERT may fail in a save that commits; and the JSON file may be renamed
\* though its save did not work.
KeptUnlessLost ==
  /\ kept \ lost \subseteq Registered(db) \cup Registered(legacy)
  /\ boots > 0 => kept \ lost \subseteq Registered(mem)
=============================================================================
