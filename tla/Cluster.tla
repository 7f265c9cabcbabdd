------------------------------- MODULE Cluster -------------------------------
(***************************************************************************)
(* High-availability clustering: ClusterNode (src/cluster.rs) driven by    *)
(* the per-node loop of spawn_cluster_runtime_loop (src/server_cluster.rs).*)
(*                                                                         *)
(* Every ClusterNode method runs under the node's own mutex, so each is    *)
(* one atomic step.  The driver loop holds no lock between those calls: it *)
(* makes one blocking HTTP call at a time, and the node's HTTP handlers    *)
(* run in other threads while it waits.  A call may be answered, fail      *)
(* before it is handled, fail after it is handled (the answer is lost), or *)
(* fail for the caller and still be handled later (late).                  *)
(*                                                                         *)
(* Time is not a variable.  should_start_election only asks whether a      *)
(* deadline has passed, waiting changes nothing else, so the deadline of a *)
(* node that is not leader may be taken to have passed between any two     *)
(* steps.  Reachability flags, contact times, regions and last_applied     *)
(* feed only the health report and are left out.                           *)
(***************************************************************************)
EXTENDS Integers, Sequences, FiniteSets

CONSTANTS
  Node,        \* node ids; the peers of a node are all the others
  Value,       \* payloads of replicated entries
  Nil,         \* Option::None of voted_for and leader_id
  BatchSize,   \* replication_batch_size
  MaxTerm,     \* bound: elections stop at this term
  MaxLog,      \* bound: append_entry stops at this log length
  MaxLate      \* bound: requests that outlive their caller's interest

ASSUME NodeAssumption == IsFiniteSet(Node) /\ Nil \notin Node
ASSUME BatchAssumption == BatchSize \in Nat
ASSUME BoundAssumption == MaxTerm \in Nat /\ MaxLog \in Nat /\ MaxLate \in Nat

VARIABLES
  \* ClusterNodeInner of every node
  term, role, votedFor, leaderId, log, commitIndex, nextIndex, matchIndex,
  \* locals of the driver loop: inside the election branch, its VoteRequest,
  \* the peers it has still to call, the nodes whose votes it has counted
  electing, round, todo, ballots,
  \* HTTP calls being made, answers on their way back, requests left behind
  calls, replies, late,
  \* history: votes given, rounds won, leaderships held, hazards met
  grants, won, led, faults

nodeVars == <<term, role, votedFor, leaderId, log, commitIndex, nextIndex, matchIndex>>
driverVars == <<electing, round, todo, ballots>>
netVars == <<calls, replies, late>>
histVars == <<grants, won, led, faults>>
vars == <<nodeVars, driverVars, netVars, histVars>>

-----------------------------------------------------------------------------
Role == {"follower", "candidate", "leader"}
Entry == [index : Nat \ {0}, term : Nat, data : Value]
VoteRequest == [kind : {"vote"}, from : Node, term : Nat,
                lastLogIndex : Nat, lastLogTerm : Nat]
AppendRequest == [kind : {"append"}, from : Node, term : Nat,
                  prevLogIndex : Nat, prevLogTerm : Nat,
                  entries : Seq(Entry), leaderCommit : Nat]
Call == [to : Node, req : VoteRequest \cup AppendRequest]
\* VoteResponse (ok is vote_granted, match is unused) and AppendResponse
Response == [term : Nat, ok : BOOLEAN, match : Nat]
Reply == [to : Node, req : VoteRequest \cup AppendRequest, resp : Response]

Peers(n) == Node \ {n}
\* Mutant: a tie is a win.
VoteHalf == (Cardinality(Node) - 1 + 1) \div 2
\* the driver's majority, config.peers.len().div_ceil(2) + 1
VoteMajority == ((Cardinality(Node) - 1 + 1) \div 2) + 1
\* Mutant: half of the nodes is enough to commit.
CommitHalf == Cardinality(Node) \div 2
\* try_advance_commit's majority, (peer_status.len() + 1) / 2 + 1
CommitMajority == (Cardinality(Node) \div 2) + 1

Min2(a, b) == IF a <= b THEN a ELSE b
LastIndex(l) == IF l = << >> THEN 0 ELSE l[Len(l)].index
LastTerm(l) == IF l = << >> THEN 0 ELSE l[Len(l)].term
\* Vec::truncate keeps the first k entries, or all when there are fewer.
Truncate(l, k) == SubSeq(l, 1, Min2(k, Len(l)))

\* The driver thread of n is blocked in ureq.
Waiting(n) == \E c \in calls \cup replies : c.req.from = n
\* The driver of n is between two calls or elections.
Idle(n) == ~electing[n] /\ ~Waiting(n)

-----------------------------------------------------------------------------
\* The locals of the election branch before it is entered and after it is left.
NoRound(n) == [kind |-> "vote", from |-> n, term |-> 0,
               lastLogIndex |-> 0, lastLogTerm |-> 0]

\* ClusterNode::new on every node
Init ==
  /\ term = [n \in Node |-> 0]
  /\ role = [n \in Node |-> "follower"]
  /\ votedFor = [n \in Node |-> Nil]
  /\ leaderId = [n \in Node |-> Nil]
  /\ log = [n \in Node |-> << >>]
  /\ commitIndex = [n \in Node |-> 0]
  /\ nextIndex = [n \in Node |-> [p \in Node |-> 1]]
  /\ matchIndex = [n \in Node |-> [p \in Node |-> 0]]
  /\ electing = [n \in Node |-> FALSE]
  /\ round = [n \in Node |-> NoRound(n)]
  /\ todo = [n \in Node |-> {}]
  /\ ballots = [n \in Node |-> {}]
  /\ calls = {} /\ replies = {} /\ late = {}
  /\ grants = {} /\ won = {} /\ led = {} /\ faults = {}

-----------------------------------------------------------------------------
(* Elections *)

\* start_election, and the loop entering its election branch.
StartElection(n) ==
  /\ Idle(n) /\ Peers(n) # {}
  /\ role[n] # "leader"
  /\ term[n] < MaxTerm
  /\ term' = [term EXCEPT ![n] = @ + 1]
  /\ role' = [role EXCEPT ![n] = "candidate"]
  /\ leaderId' = [leaderId EXCEPT ![n] = Nil]
  /\ votedFor' = [votedFor EXCEPT ![n] = n]
  /\ electing' = [electing EXCEPT ![n] = TRUE]
  /\ round' = [round EXCEPT ![n] =
                 [kind |-> "vote", from |-> n, term |-> term[n] + 1,
                  lastLogIndex |-> LastIndex(log[n]), lastLogTerm |-> LastTerm(log[n])]]
  /\ todo' = [todo EXCEPT ![n] = Peers(n)]
  /\ ballots' = [ballots EXCEPT ![n] = {n}]
  /\ grants' = grants \cup {<<n, term[n] + 1, n>>}
  /\ UNCHANGED <<log, commitIndex, nextIndex, matchIndex, netVars, won, led, faults>>

\* The for loop posts the round's request to its next peer.
SendVote(n, p) ==
  /\ electing[n] /\ p \in todo[n] /\ ~Waiting(n)
  /\ calls' = calls \cup {[to |-> p, req |-> round[n]]}
  /\ todo' = [todo EXCEPT ![n] = @ \ {p}]
  /\ UNCHANGED <<nodeVars, electing, round, ballots, replies, late, histVars>>

CandidateLogOk(d, r) ==
  \/ log[d] = << >>
  \/ r.lastLogTerm > LastTerm(log[d])
  \/ r.lastLogTerm = LastTerm(log[d]) /\ r.lastLogIndex >= LastIndex(log[d])

\* Mutant: an earlier vote of the term is not remembered.
CanVoteAgain(d, r) == TRUE

CanVote(d, r) ==
  \/ r.term > term[d]                \* voted_for was just cleared
  \/ votedFor[d] \in {Nil, r.from}

Granted(d, r) == r.term >= term[d] /\ CanVote(d, r) /\ CandidateLogOk(d, r)

\* Mutant: a new term does not clear leader_id.
LeaderKept(d, r) == leaderId[d]

\* leader_id after handle_vote_request: unknown in a newer term.
LeaderAfterVote(d, r) == IF r.term > term[d] THEN Nil ELSE leaderId[d]

\* handle_vote_request on node d.
HandleVoteRequest(d, r) ==
  LET newer == r.term > term[d]
      granted == Granted(d, r)
  IN /\ term' = [term EXCEPT ![d] = IF newer THEN r.term ELSE @]
     /\ role' = [role EXCEPT ![d] = IF newer THEN "follower" ELSE @]
     /\ leaderId' = [leaderId EXCEPT ![d] = LeaderAfterVote(d, r)]
     /\ votedFor' = [votedFor EXCEPT ![d] = IF granted THEN r.from
                                             ELSE IF newer THEN Nil ELSE @]
     /\ grants' = IF granted THEN grants \cup {<<d, r.term, r.from>>} ELSE grants
     /\ UNCHANGED <<log, commitIndex, nextIndex, matchIndex, won, led, faults>>

VoteResponse(d, r) ==
  [term |-> IF r.term > term[d] THEN r.term ELSE term[d],
   ok |-> Granted(d, r), match |-> 0]

\* POST /api/cluster/vote while the caller waits for the answer.
AnswerVote(c) ==
  /\ c \in calls /\ c.req.kind = "vote"
  /\ HandleVoteRequest(c.to, c.req)
  /\ calls' = calls \ {c}
  /\ replies' = replies \cup {[to |-> c.to, req |-> c.req, resp |-> VoteResponse(c.to, c.req)]}
  /\ UNCHANGED <<driverVars, late>>

\* The same request reaching the handler after the caller gave up on it.
AnswerLateVote(c) ==
  /\ c \in late /\ c.req.kind = "vote"
  /\ HandleVoteRequest(c.to, c.req)
  /\ late' = late \ {c}
  /\ UNCHANGED <<driverVars, calls, replies>>

\* The loop counts the vote; the term of the answer is not looked at.
RecvVote(a) ==
  LET n == a.req.from
  IN /\ a \in replies /\ a.req.kind = "vote"
     /\ replies' = replies \ {a}
     /\ ballots' = [ballots EXCEPT ![n] = IF a.resp.ok THEN @ \cup {a.to} ELSE @]
     /\ UNCHANGED <<nodeVars, electing, round, todo, calls, late, histVars>>

\* become_leader
BecomeLeader(n) ==
  /\ role' = [role EXCEPT ![n] = "leader"]
  /\ leaderId' = [leaderId EXCEPT ![n] = n]
  /\ nextIndex' = [nextIndex EXCEPT ![n] = [p \in Node |-> Len(log[n]) + 1]]
  /\ matchIndex' = [matchIndex EXCEPT ![n] = [p \in Node |-> 0]]
  /\ UNCHANGED <<term, votedFor, log, commitIndex>>

\* The votes are in: become_leader is called on the count alone, whatever
\* the node's term and role have become while the calls were made.
FinishElection(n) ==
  /\ electing[n] /\ todo[n] = {} /\ ~Waiting(n)
  /\ electing' = [electing EXCEPT ![n] = FALSE]
  /\ \/ /\ Cardinality(ballots[n]) >= VoteMajority
        /\ BecomeLeader(n)
        /\ won' = won \cup {<<n, round[n].term>>}
        /\ led' = led \cup {<<n, term[n]>>}
        /\ faults' = IF term[n] = round[n].term THEN faults
                                                ELSE faults \cup {"late_win"}
     \/ /\ Cardinality(ballots[n]) < VoteMajority
        /\ UNCHANGED <<nodeVars, won, led, faults>>
  /\ round' = [round EXCEPT ![n] = NoRound(n)]
  /\ ballots' = [ballots EXCEPT ![n] = {}]
  /\ UNCHANGED <<todo, netVars, grants>>

-----------------------------------------------------------------------------
(* Replication *)

\* append_entry
AppendEntry(n, v) ==
  /\ role[n] = "leader"
  /\ Len(log[n]) < MaxLog
  /\ log' = [log EXCEPT ![n] =
               Append(@, [index |-> Len(@) + 1, term |-> term[n], data |-> v])]
  /\ UNCHANGED <<term, role, votedFor, leaderId, commitIndex, nextIndex, matchIndex,
                 driverVars, netVars, histVars>>

\* prepare_append finds an entry at prev_log_index, or needs none.
HasPrev(n, p) == nextIndex[n][p] - 1 <= Len(log[n])

PreparedAppend(n, p) ==
  LET next == nextIndex[n][p]
  IN [kind |-> "append", from |-> n, term |-> term[n],
      prevLogIndex |-> IF next > 1 THEN log[n][next - 1].index ELSE 0,
      prevLogTerm |-> IF next > 1 THEN log[n][next - 1].term ELSE 0,
      entries |-> SubSeq(log[n], next, Min2(Len(log[n]), next + BatchSize - 1)),
      leaderCommit |-> commitIndex[n]]

\* One turn of the leader branch: prepare_append returns Some and the request
\* is posted.  A peer for which it returns None is skipped.  The branch visits
\* every peer in each tick; visiting one at a time in any order has the same
\* effects, because a visit whose call fails unhandled has none.
SendAppend(n, p) ==
  /\ Idle(n) /\ p \in Peers(n)
  /\ role[n] = "leader" /\ HasPrev(n, p)
  /\ calls' = calls \cup {[to |-> p, req |-> PreparedAppend(n, p)]}
  /\ UNCHANGED <<nodeVars, driverVars, replies, late, histVars>>

PrevConflict(l, r) ==
  r.prevLogIndex \in 1..Len(l) /\ l[r.prevLogIndex].term # r.prevLogTerm
PrevMissing(l, r) == r.prevLogIndex > Len(l)
\* An entry past the end of the log; entries are contiguous, so only the
\* first one can be.
Gap(l, r) == r.entries # << >> /\ r.entries[1].index > Len(l) + 1
AppendOk(l, r) == ~PrevConflict(l, r) /\ ~PrevMissing(l, r) /\ ~Gap(l, r)

\* Mutant: an entry of another term is kept.
FreshPastEnd(l, r) == {j \in 1..Len(r.entries) : r.entries[j].index > Len(l)}

\* Positions of r.entries that are not in l already: past its end, or of
\* another term than the entry l has there.
Fresh(l, r) ==
  {j \in 1..Len(r.entries) :
      \/ r.entries[j].index > Len(l)
      \/ l[r.entries[j].index].term # r.entries[j].term}

\* The log after the loop over r.entries: everything from the first fresh
\* entry on is replaced.
Merged(l, r) ==
  IF Fresh(l, r) = {} THEN l
  ELSE LET j == CHOOSE i \in Fresh(l, r) : \A k \in Fresh(l, r) : i <= k
       IN Truncate(l, r.entries[j].index - 1) \o SubSeq(r.entries, j, Len(r.entries))

LogAfter(l, r) ==
  IF PrevConflict(l, r) THEN Truncate(l, r.prevLogIndex - 1)
  ELSE IF AppendOk(l, r) THEN Merged(l, r) ELSE l

\* The acknowledged log reaches past what the request covers, with entries
\* the sender's log does not hold there.
ForeignTail(d, r) ==
  LET l == LogAfter(log[d], r)
  IN /\ AppendOk(log[d], r)
     /\ \E i \in (r.prevLogIndex + Len(r.entries) + 1)..Len(l) :
           i > Len(log[r.from]) \/ log[r.from][i] # l[i]

\* Mutant: the sender's commit index is taken over, a lower one too.
CommitAfterAny(d, r) == Min2(r.leaderCommit, Len(LogAfter(log[d], r)))

\* commit_index after an append that succeeded.
CommitAfter(d, r) ==
  IF r.leaderCommit > commitIndex[d] THEN Min2(r.leaderCommit, Len(LogAfter(log[d], r)))
                                     ELSE commitIndex[d]

\* handle_append on node d.
HandleAppend(d, r) ==
  LET current == r.term >= term[d]
      l == LogAfter(log[d], r)
  IN /\ term' = [term EXCEPT ![d] = IF current THEN r.term ELSE @]
     /\ role' = [role EXCEPT ![d] = IF current THEN "follower" ELSE @]
     /\ leaderId' = [leaderId EXCEPT ![d] = IF current THEN r.from ELSE @]
     /\ log' = [log EXCEPT ![d] = IF current THEN l ELSE @]
     /\ commitIndex' = [commitIndex EXCEPT ![d] =
           IF current /\ AppendOk(log[d], r) THEN CommitAfter(d, r) ELSE @]
     /\ faults' = IF current /\ ForeignTail(d, r) THEN faults \cup {"foreign_tail"}
                                                  ELSE faults
     /\ UNCHANGED <<votedFor, nextIndex, matchIndex, grants, won, led>>

AppendResponse(d, r) ==
  IF r.term < term[d] THEN [term |-> term[d], ok |-> FALSE, match |-> 0]
  ELSE [term |-> r.term, ok |-> AppendOk(log[d], r), match |-> Len(LogAfter(log[d], r))]

\* POST /api/cluster/append while the caller waits for the answer.
AnswerAppend(c) ==
  /\ c \in calls /\ c.req.kind = "append"
  /\ HandleAppend(c.to, c.req)
  /\ calls' = calls \ {c}
  /\ replies' = replies \cup {[to |-> c.to, req |-> c.req, resp |-> AppendResponse(c.to, c.req)]}
  /\ UNCHANGED <<driverVars, late>>

\* The same request reaching the handler after the caller gave up on it.
AnswerLateAppend(c) ==
  /\ c \in late /\ c.req.kind = "append"
  /\ HandleAppend(c.to, c.req)
  /\ late' = late \ {c}
  /\ UNCHANGED <<driverVars, calls, replies>>

\* try_advance_commit: the last entry of the node's term that its match
\* indexes m put on a majority.
Committable(n, m) ==
  {i \in (commitIndex[n] + 1)..Len(log[n]) :
      /\ log[n][i].term = term[n]
      /\ 1 + Cardinality({p \in Peers(n) : m[p] >= i}) >= CommitMajority}

AdvancedCommit(n, m) ==
  IF Committable(n, m) = {} THEN commitIndex[n]
  ELSE CHOOSE i \in Committable(n, m) : \A k \in Committable(n, m) : i >= k

\* Mutant: next_index is decremented without the > 1 test.
BackedOffBelowOne(next) == next - 1

\* next_index after a refused append.
BackedOff(next) == IF next > 1 THEN next - 1 ELSE next

\* The match indexes of n after a response from p.
Acked(n, p, resp) ==
  [matchIndex[n] EXCEPT ![p] = IF resp.ok THEN resp.match ELSE @]

\* Mutant: one past the entry that is next.
NextAfterSkipping(n, p, resp) ==
  [nextIndex[n] EXCEPT ![p] = IF resp.ok THEN resp.match + 2 ELSE BackedOff(@)]

\* Its next indexes: past what p acknowledged, or one back.
NextAfter(n, p, resp) ==
  [nextIndex[n] EXCEPT ![p] = IF resp.ok THEN resp.match + 1 ELSE BackedOff(@)]

\* handle_append_response with a newer term.
StepDown(n, resp) ==
  /\ resp.term > term[n]
  /\ term' = [term EXCEPT ![n] = resp.term]
  /\ role' = [role EXCEPT ![n] = "follower"]
  /\ leaderId' = [leaderId EXCEPT ![n] = Nil]
  /\ UNCHANGED <<commitIndex, nextIndex, matchIndex, faults>>

\* The rest of handle_append_response, try_advance_commit included.  Neither
\* the node's role nor the term of the request is looked at.
TakeAck(n, p, resp) ==
  /\ resp.term <= term[n]
  /\ matchIndex' = [matchIndex EXCEPT ![n] = Acked(n, p, resp)]
  /\ nextIndex' = [nextIndex EXCEPT ![n] = NextAfter(n, p, resp)]
  /\ commitIndex' = [commitIndex EXCEPT ![n] = AdvancedCommit(n, Acked(n, p, resp))]
  /\ faults' = IF role[n] # "leader" /\ Committable(n, Acked(n, p, resp)) # {}
                 THEN faults \cup {"stale_commit"} ELSE faults
  /\ UNCHANGED <<term, role, leaderId>>

\* The loop hands its peer's answer to handle_append_response.
RecvAppend(a) ==
  /\ a \in replies /\ a.req.kind = "append"
  /\ replies' = replies \ {a}
  /\ StepDown(a.req.from, a.resp) \/ TakeAck(a.req.from, a.to, a.resp)
  /\ UNCHANGED <<votedFor, log, driverVars, calls, late, grants, won, led>>

-----------------------------------------------------------------------------
(* The network between two nodes *)

\* The call fails for its caller, and the request is never handled or its
\* answer is lost: the loop goes on to the next peer.
CallFails(c) ==
  /\ c \in calls \cup replies
  /\ calls' = calls \ {c}
  /\ replies' = replies \ {c}
  /\ UNCHANGED <<nodeVars, driverVars, late, histVars>>

\* The call fails for its caller while the request is still on its way.
CallOutlivesCaller(c) ==
  /\ c \in calls /\ Cardinality(late) < MaxLate
  /\ calls' = calls \ {c}
  /\ late' = late \cup {c}
  /\ UNCHANGED <<nodeVars, driverVars, replies, histVars>>

-----------------------------------------------------------------------------
Next ==
  \/ \E n \in Node : StartElection(n)
  \/ \E n \in Node : \E p \in Node : SendVote(n, p)
  \/ \E c \in calls : AnswerVote(c)
  \/ \E c \in late : AnswerLateVote(c)
  \/ \E a \in replies : RecvVote(a)
  \/ \E n \in Node : FinishElection(n)
  \/ \E n \in Node : \E v \in Value : AppendEntry(n, v)
  \/ \E n \in Node : \E p \in Node : SendAppend(n, p)
  \/ \E c \in calls : AnswerAppend(c)
  \/ \E c \in late : AnswerLateAppend(c)
  \/ \E a \in replies : RecvAppend(a)
  \/ \E c \in calls \cup replies : CallFails(c)
  \/ \E c \in calls : CallOutlivesCaller(c)

Spec == Init /\ [][Next]_vars

-----------------------------------------------------------------------------
(* Properties *)

\* Every variable has its type.
TypeOK ==
  /\ term \in [Node -> Nat]
  /\ role \in [Node -> Role]
  /\ votedFor \in [Node -> Node \cup {Nil}]
  /\ leaderId \in [Node -> Node \cup {Nil}]
  /\ log \in [Node -> Seq(Entry)]
  /\ commitIndex \in [Node -> Nat]
  /\ nextIndex \in [Node -> [Node -> Nat \ {0}]]
  /\ matchIndex \in [Node -> [Node -> Nat]]
  /\ electing \in [Node -> BOOLEAN]
  /\ round \in [Node -> VoteRequest]
  /\ todo \in [Node -> SUBSET Node]
  /\ ballots \in [Node -> SUBSET Node]
  /\ calls \subseteq Call /\ late \subseteq Call
  /\ replies \subseteq Reply
  /\ grants \subseteq Node \X Nat \X Node
  /\ won \subseteq Node \X Nat
  /\ led \subseteq Node \X Nat
  /\ faults \subseteq {"late_win", "foreign_tail", "stale_commit"}

\* A node never gives its vote to two candidates in one term, its own
\* candidacies included: handle_append and handle_append_response raise the
\* term without clearing voted_for, so the vote of an older term stays
\* behind, and requests may be handled late.
OneVotePerTerm ==
  \A g, h \in grants : g[1] = h[1] /\ g[2] = h[2] => g[3] = h[3]

\* At most one node collects a majority of votes for its VoteRequest of a
\* given term: the count the driver loop keeps over several failing calls
\* is never worth more than the votes given in that term.
OneWinnerPerRound ==
  \A w, x \in won : w[2] = x[2] => w[1] = x[1]

\* A leader_id a node reports (health, replication_state) names a node that
\* really took leadership in the term the reporting node is in, whatever
\* order votes, appends and answers arrive in.
LeaderIdLed ==
  \A n \in Node : leaderId[n] # Nil => <<leaderId[n], term[n]>> \in led

\* The only way two nodes come to lead one term is become_leader being
\* called after the node's term moved on from the one it was elected in.
SplitOnlyByLateWin ==
  "late_win" \notin faults => \A x, y \in led : x[2] = y[2] => x[1] = y[1]

\* The parts of ElectionInv.  A vote given is of a term the voter has reached,
\* and is the one voted_for remembers while the voter stays in that term.
VotesRemembered ==
  \A g \in grants :
     /\ g[2] <= term[g[1]]
     /\ g[2] = term[g[1]] => votedFor[g[1]] = g[3]
\* A vote call belongs to the round its caller's loop is in.
CallsOfRound ==
  \A c \in calls \cup replies :
     c.req.kind = "vote" => electing[c.req.from] /\ c.req = round[c.req.from]
RoundsOwned == \A n \in Node : round[n].from = n
\* A granting answer on its way back, and a vote counted, were given.
AnswersGranted ==
  \A a \in replies :
     a.req.kind = "vote" /\ a.resp.ok => <<a.to, a.req.term, a.req.from>> \in grants
BallotsGranted ==
  \A n \in Node : \A p \in ballots[n] : <<p, round[n].term, n>> \in grants
\* A round won has the votes of a majority.
WinsBacked ==
  \A w \in won :
     \E Q \in SUBSET Node : /\ 2 * Cardinality(Q) > Cardinality(Node)
                            /\ \A p \in Q : <<p, w[2], w[1]>> \in grants
\* What a node says of the leader, itself included, and what an append
\* request says of its sender, is a leadership held in that term.
LeadersLed ==
  /\ \A n \in Node : role[n] = "leader" => <<n, term[n]>> \in led
  /\ \A c \in calls \cup late :
        c.req.kind = "append" => <<c.req.from, c.req.term>> \in led
LedBySuccess == "late_win" \notin faults => led \subseteq won

\* The inductive invariant of elections: what the votes remembered, in
\* flight, counted and won have to do with each other at every point where
\* the driver loop and the request handlers interleave.
ElectionInv ==
  /\ VotesRemembered
  /\ RoundsOwned
  /\ CallsOfRound
  /\ AnswersGranted
  /\ BallotsGranted
  /\ WinsBacked
  /\ LeadersLed
  /\ LedBySuccess

\* Every log is a contiguous run of indexes from 1 whose terms never
\* decrease and never pass the node's own term: what prepare_append and
\* handle_append assume when they take an index for a position.
LogWellFormed ==
  \A n \in Node : \A i \in 1..Len(log[n]) :
     /\ log[n][i].index = i
     /\ log[n][i].term <= term[n]
     /\ i > 1 => log[n][i - 1].term <= log[n][i].term

\* Without a late win, two logs that have the same term at an index agree on
\* everything up to it, although handle_append compares terms only.
LogMatching ==
  "late_win" \notin faults =>
     \A n, m \in Node : \A i \in 1..Min2(Len(log[n]), Len(log[m])) :
        log[n][i].term = log[m][i].term => \A k \in 1..i : log[n][k] = log[m][k]

\* The nodes whose log holds entry e.
Holders(e) == {p \in Node : e.index <= Len(log[p]) /\ log[p][e.index] = e}

OnMajority(e) == 2 * Cardinality(Holders(e)) > Cardinality(Node)

\* What a node has committed is in its log and on a majority, and stays
\* there, unless one of the three hazards of the code was met before.
CommitDurable ==
  faults = {} =>
     \A n \in Node : \A i \in 1..commitIndex[n] :
        /\ i <= Len(log[n])
        /\ OnMajority(log[n][i])

\* A leader can always prepare the next append or heartbeat for a peer, so
\* that it is never silent to one it leads: next_index, taken from the answers
\* of peers whose logs may be longer, stays within reach of its own log,
\* unless one of the three hazards of the code was met before.
LeaderReachesPeers ==
  faults = {} =>
     \A n \in Node : role[n] = "leader" => \A p \in Peers(n) : HasPrev(n, p)
=============================================================================
