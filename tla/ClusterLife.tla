----------------------------- MODULE ClusterLife -----------------------------
(***************************************************************************)
(* The events in the life of a ClusterNode that module Cluster leaves out: *)
(* the replacement of the node by a new one (a restart of the process, or  *)
(* /api/config/reload and /api/config/save, which assign                   *)
(* ClusterNode::new(..) to AppState.cluster), snapshots and compaction.    *)
(*                                                                         *)
(* Nothing of a node is stored, so the new node knows no term, vote or log.*)
(* After a reload the driver thread still holds a clone of the old node    *)
(* until its tick ends: what the old tick has still to send reaches the    *)
(* peers, and what comes back changes a node nobody asks any more.         *)
(***************************************************************************)
EXTENDS Cluster, Ascending

CONSTANTS
  MaxReset,    \* bound: replacements of a node
  MaxSnap      \* bound: snapshots and compactions

VARIABLES
  resets,      \* replacements so far
  snaps,       \* InstallSnapshot requests made from create_snapshot
  compactions, \* compactions so far
  cut,         \* history: some log lost entries at its front
  ahead        \* history: a snapshot put some commit index past the log

lifeVars == <<resets, snaps, compactions, cut, ahead>>
allVars == <<vars, lifeVars>>

InitLife ==
  /\ Init
  /\ resets = 0 /\ snaps = {} /\ compactions = 0
  /\ cut = FALSE /\ ahead = FALSE

\* Every step of Cluster.
Living == Next /\ UNCHANGED lifeVars

-----------------------------------------------------------------------------
\* The requests of n's tick that may be handled although n was replaced: the
\* call being made, and the ones the old tick has still to make.
Orphans(n) ==
  LET sent == {c \in calls : c.req.from = n}
      votes == {[to |-> p, req |-> round[n]] : p \in todo[n]}
      appends == IF role[n] = "leader" /\ ~electing[n] /\ Waiting(n)
                   THEN {[to |-> p, req |-> PreparedAppend(n, p)] :
                           p \in {q \in Peers(n) : HasPrev(n, q)}}
                   ELSE {}
  IN sent \cup (IF electing[n] THEN votes ELSE {}) \cup appends

\* Mutant: the log survives the replacement, the term does not.
FreshNodeKeepsLog(n) ==
  /\ term' = [term EXCEPT ![n] = 0]
  /\ role' = [role EXCEPT ![n] = "follower"]
  /\ votedFor' = [votedFor EXCEPT ![n] = Nil]
  /\ leaderId' = [leaderId EXCEPT ![n] = Nil]
  /\ commitIndex' = [commitIndex EXCEPT ![n] = 0]
  /\ nextIndex' = [nextIndex EXCEPT ![n] = [p \in Node |-> 1]]
  /\ matchIndex' = [matchIndex EXCEPT ![n] = [p \in Node |-> 0]]
  /\ UNCHANGED log

\* ClusterNode::new in place of node n.
FreshNode(n) ==
  /\ term' = [term EXCEPT ![n] = 0]
  /\ role' = [role EXCEPT ![n] = "follower"]
  /\ votedFor' = [votedFor EXCEPT ![n] = Nil]
  /\ leaderId' = [leaderId EXCEPT ![n] = Nil]
  /\ log' = [log EXCEPT ![n] = << >>]
  /\ commitIndex' = [commitIndex EXCEPT ![n] = 0]
  /\ nextIndex' = [nextIndex EXCEPT ![n] = [p \in Node |-> 1]]
  /\ matchIndex' = [matchIndex EXCEPT ![n] = [p \in Node |-> 0]]

\* A restart, a reload or a save of the configuration on node n.  grants keeps
\* the votes of the nodes that are there, so those of the old n go with it.
Replace(n) ==
  /\ resets < MaxReset
  /\ resets' = resets + 1
  /\ \E S \in SUBSET Orphans(n) :
        /\ Cardinality(late \cup S) <= MaxLate
        /\ late' = late \cup S
  /\ FreshNode(n)
  /\ electing' = [electing EXCEPT ![n] = FALSE]
  /\ round' = [round EXCEPT ![n] = NoRound(n)]
  /\ todo' = [todo EXCEPT ![n] = {}]
  /\ ballots' = [ballots EXCEPT ![n] = {}]
  /\ calls' = {c \in calls : c.req.from # n}
  /\ replies' = {a \in replies : a.req.from # n}
  /\ grants' = {g \in grants : g[1] # n}
  /\ UNCHANGED <<won, led, faults, snaps, compactions, cut, ahead>>

-----------------------------------------------------------------------------
\* create_snapshot on a leader, put into a request as the tests do: the server
\* has the endpoint that takes one and no code that sends one.
TakeSnapshot(n) ==
  /\ role[n] = "leader" /\ Cardinality(snaps) < MaxSnap
  /\ \E i \in 1..Len(log[n]) :
        /\ log[n][i].index <= commitIndex[n]
        /\ \A j \in 1..Len(log[n]) : log[n][j].index <= commitIndex[n] => j <= i
        /\ snaps' = snaps \cup {[term |-> term[n], leader |-> n, last |-> log[n][i].index]}
  /\ UNCHANGED <<vars, resets, compactions, cut, ahead>>

\* Vec::retain of the entries above an index.
Above(l, k) ==
  LET kept == InOrder({i \in 1..Len(l) : l[i].index > k})
  IN [j \in 1..Len(kept) |-> l[kept[j]]]

\* handle_install_snapshot on node d, for a request that is not stale.
InstallSnapshot(d, r) ==
  /\ r \in snaps /\ d # r.leader /\ r.term >= term[d]
  /\ term' = [term EXCEPT ![d] = r.term]
  /\ role' = [role EXCEPT ![d] = IF r.term > term[d] THEN "follower" ELSE @]
  /\ votedFor' = [votedFor EXCEPT ![d] = IF r.term > term[d] THEN Nil ELSE @]
  /\ log' = [log EXCEPT ![d] = Above(@, r.last)]
  /\ commitIndex' = [commitIndex EXCEPT ![d] = IF r.last > @ THEN r.last ELSE @]
  /\ leaderId' = [leaderId EXCEPT ![d] = r.leader]
  /\ cut' = (cut \/ log'[d] # log[d])
  /\ ahead' = (ahead \/ commitIndex'[d] > Len(log'[d]))
  /\ UNCHANGED <<nextIndex, matchIndex, driverVars, netVars, histVars, resets, snaps,
                 compactions>>

\* compact_log up to an entry a snapshot of n covers.
CompactLog(n) ==
  /\ compactions < MaxSnap
  /\ compactions' = compactions + 1
  /\ \E r \in snaps : r.leader = n /\ log' = [log EXCEPT ![n] = Above(@, r.last)]
  /\ cut' = (cut \/ log'[n] # log[n])
  /\ UNCHANGED <<term, role, votedFor, leaderId, commitIndex, nextIndex, matchIndex,
                 driverVars, netVars, histVars, resets, snaps, ahead>>

NextLife ==
  \/ Living
  \/ \E n \in Node : Replace(n)
  \/ \E n \in Node : TakeSnapshot(n)
  \/ \E d \in Node : \E r \in snaps : InstallSnapshot(d, r)
  \/ \E n \in Node : CompactLog(n)

SpecLife == InitLife /\ [][NextLife]_allVars

-----------------------------------------------------------------------------
(* Properties *)

\* As long as no log was cut at its front, replacing a node that forgets
\* everything leaves every log a contiguous run of indexes with terms in
\* order, requests of its old self that are handled late included.
WellFormedUnlessCut == ~cut => LogWellFormed

\* A commit index goes back only when its node is replaced, or once a node
\* was replaced, a log was cut, a snapshot put a commit index past its log, or
\* a fault of the election or of an acknowledgement was met.  One replacement
\* is enough: the node that forgot its log can be elected in the term its old
\* self led, and a request of the old self, handled late, then cuts entries
\* that are committed out of a log.
CommitNeverBack ==
  [][\A n \in Node :
       commitIndex'[n] < commitIndex[n] =>
          resets' # resets \/ resets > 0 \/ cut \/ ahead \/ faults # {}]_allVars
=============================================================================
