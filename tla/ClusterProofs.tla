---------------------------- MODULE ClusterProofs ----------------------------
(***************************************************************************)
(* Theorems about the elections and the replicated logs of Cluster and     *)
(* ClusterLife, for every set of nodes, every batch size and every bound.  *)
(***************************************************************************)
EXTENDS ClusterLife, AscendingProofs, SequenceTheorems, TLAPS

-----------------------------------------------------------------------------
(* Types of the operators on logs and requests. *)

\* Truncating a log leaves a log.
LEMMA TruncateType ==
  ASSUME NEW l \in Seq(Entry), NEW k \in Nat
  PROVE  Truncate(l, k) \in Seq(Entry)
<1> DEFINE m == Min2(k, Len(l))
<1>1. m \in Nat /\ m <= Len(l)
  BY DEF Min2
<1>2. \A i \in 1..m : l[i] \in Entry
  BY <1>1
<1> HIDE DEF m
<1>3. SubSeq(l, 1, m) \in Seq(Entry)
  BY <1>1, <1>2, SubSeqProperties
<1> QED BY <1>3 DEF Truncate, m

\* The loop of handle_append over the entries of a request leaves a log.
LEMMA LogAfterType ==
  ASSUME NEW l \in Seq(Entry), NEW r \in AppendRequest
  PROVE  LogAfter(l, r) \in Seq(Entry)
<1>1. r.entries \in Seq(Entry) /\ r.prevLogIndex \in Nat
  BY DEF AppendRequest
<1>2. CASE PrevConflict(l, r)
  <2>1. r.prevLogIndex - 1 \in Nat
    BY <1>1, <1>2 DEF PrevConflict
  <2> QED BY <2>1, <1>2, TruncateType DEF LogAfter
<1>3. ASSUME Fresh(l, r) # {} PROVE Merged(l, r) \in Seq(Entry)
  <2> DEFINE j == CHOOSE i \in Fresh(l, r) : \A k \in Fresh(l, r) : i <= k
  <2>1. Fresh(l, r) \in SUBSET Nat
    BY DEF Fresh
  <2>2. \E i \in Fresh(l, r) : \A k \in Fresh(l, r) : i <= k
    BY <2>1, <1>3, LeastNatural
  <2>3. j \in Fresh(l, r)
    BY <2>2
  <2>4. j \in 1..Len(r.entries)
    BY <2>3 DEF Fresh
  <2> HIDE DEF j
  <2> DEFINE e == r.entries[j]
  <2>5. e \in Entry
    BY <2>4, <1>1
  <2> HIDE DEF e
  <2>6. e.index - 1 \in Nat
    BY <2>5 DEF Entry
  <2>7. Truncate(l, r.entries[j].index - 1) \in Seq(Entry)
    BY <2>6, TruncateType DEF e
  <2>8. SubSeq(r.entries, j, Len(r.entries)) \in Seq(Entry)
    <3>1. \A i \in j..Len(r.entries) : r.entries[i] \in Entry
      BY <2>4, <1>1
    <3> QED BY <3>1, <2>4, <1>1, SubSeqProperties
  <2>9. Truncate(l, r.entries[j].index - 1) \o SubSeq(r.entries, j, Len(r.entries))
          \in Seq(Entry)
    BY <2>7, <2>8, ConcatProperties
  <2> QED BY <2>9, <1>3 DEF Merged, j
<1>4. Merged(l, r) \in Seq(Entry)
  BY <1>3 DEF Merged
<1> QED BY <1>2, <1>4 DEF LogAfter

\* prepare_append makes an AppendRequest.
LEMMA PreparedAppendType ==
  ASSUME TypeOK, NEW n \in Node, NEW p \in Node, HasPrev(n, p)
  PROVE  PreparedAppend(n, p) \in AppendRequest
<1> DEFINE next == nextIndex[n][p]
           last == Min2(Len(log[n]), next + BatchSize - 1)
<1>1. next \in Nat \ {0} /\ log[n] \in Seq(Entry) /\ term[n] \in Nat /\ commitIndex[n] \in Nat
  BY DEF TypeOK
<1>2. next - 1 <= Len(log[n])
  BY DEF HasPrev
<1>3. last \in Int /\ last <= Len(log[n])
  BY <1>1, BatchAssumption DEF Min2
<1> HIDE DEF next, last
<1>4. SubSeq(log[n], next, last) \in Seq(Entry)
  <2>1. \A i \in next..last : log[n][i] \in Entry
    BY <1>1, <1>3
  <2> QED BY <2>1, <1>1, <1>3, SubSeqProperties
<1>5. ASSUME next > 1 PROVE log[n][next - 1] \in Entry
  BY <1>1, <1>2, <1>5
<1>6. ASSUME next > 1
      PROVE  log[n][next - 1].index \in Nat /\ log[n][next - 1].term \in Nat
  BY <1>5, <1>6 DEF Entry
<1> QED BY <1>1, <1>4, <1>6 DEF PreparedAppend, AppendRequest, next, last

\* try_advance_commit leaves a natural number.
LEMMA AdvancedCommitType ==
  ASSUME TypeOK, NEW n \in Node, NEW m
  PROVE  AdvancedCommit(n, m) \in Nat
<1>1. commitIndex[n] \in Nat /\ Len(log[n]) \in Nat
  BY DEF TypeOK
<1>2. Committable(n, m) \in SUBSET Nat /\ \A k \in Committable(n, m) : k <= Len(log[n])
  BY <1>1 DEF Committable
<1>3. CASE Committable(n, m) # {}
  <2>1. \E i \in Committable(n, m) : \A k \in Committable(n, m) : i >= k
    BY <1>1, <1>2, <1>3, GreatestNatural
  <2> QED BY <2>1, <1>2, <1>3 DEF AdvancedCommit
<1> QED BY <1>1, <1>3 DEF AdvancedCommit

-----------------------------------------------------------------------------
(* Type correctness. *)

\* The last entry of a log gives the two numbers of a VoteRequest.
LEMMA LastType ==
  ASSUME NEW l \in Seq(Entry)
  PROVE  LastIndex(l) \in Nat /\ LastTerm(l) \in Nat
<1>1. CASE l = << >>
  BY <1>1 DEF LastIndex, LastTerm
<1>2. CASE l # << >>
  <2> DEFINE e == l[Len(l)]
  <2>1. e \in Entry
    BY <1>2
  <2> HIDE DEF e
  <2>2. e.index \in Nat /\ e.term \in Nat
    BY <2>1 DEF Entry
  <2> QED BY <1>2, <2>2 DEF LastIndex, LastTerm, e
<1> QED BY <1>1, <1>2

\* handle_vote_request keeps the types of what it writes, and its answer is
\* a Response.
LEMMA HandleVoteRequestType ==
  ASSUME TypeOK, NEW d \in Node, NEW r \in VoteRequest, HandleVoteRequest(d, r)
  PROVE  /\ term' \in [Node -> Nat]
         /\ role' \in [Node -> Role]
         /\ leaderId' \in [Node -> Node \cup {Nil}]
         /\ votedFor' \in [Node -> Node \cup {Nil}]
         /\ grants' \subseteq Node \X Nat \X Node
         /\ VoteResponse(d, r) \in Response
<1>1. r.term \in Nat /\ r.from \in Node
  BY DEF VoteRequest
<1>2. Granted(d, r) \in BOOLEAN
  BY DEF Granted
<1>3. term[d] \in Nat
  BY DEF TypeOK
<1>4. term' \in [Node -> Nat] /\ role' \in [Node -> Role]
  BY <1>1, <1>3 DEF TypeOK, HandleVoteRequest, Role
<1>5. leaderId' \in [Node -> Node \cup {Nil}]
  BY DEF TypeOK, HandleVoteRequest, LeaderAfterVote
<1>6. votedFor' \in [Node -> Node \cup {Nil}]
  BY <1>1 DEF TypeOK, HandleVoteRequest
<1>7. <<d, r.term, r.from>> \in Node \X Nat \X Node
  BY <1>1
<1>8. grants' \subseteq Node \X Nat \X Node
  BY <1>7 DEF TypeOK, HandleVoteRequest
<1>9. VoteResponse(d, r) \in Response
  BY <1>1, <1>2, <1>3 DEF VoteResponse, Response
<1> QED BY <1>4, <1>5, <1>6, <1>8, <1>9

\* handle_append keeps the types of what it writes, and its answer is a
\* Response.
LEMMA HandleAppendType ==
  ASSUME TypeOK, NEW d \in Node, NEW r \in AppendRequest, HandleAppend(d, r)
  PROVE  /\ term' \in [Node -> Nat]
         /\ role' \in [Node -> Role]
         /\ leaderId' \in [Node -> Node \cup {Nil}]
         /\ log' \in [Node -> Seq(Entry)]
         /\ commitIndex' \in [Node -> Nat]
         /\ faults' \subseteq {"late_win", "foreign_tail", "stale_commit"}
         /\ AppendResponse(d, r) \in Response
<1>1. r.term \in Nat /\ r.from \in Node /\ r.leaderCommit \in Nat
  BY DEF AppendRequest
<1>2. log[d] \in Seq(Entry)
  BY DEF TypeOK
<1>3. LogAfter(log[d], r) \in Seq(Entry)
  BY <1>2, LogAfterType
<1>4. Len(LogAfter(log[d], r)) \in Nat
  BY <1>3
<1>5. AppendOk(log[d], r) \in BOOLEAN
  BY DEF AppendOk
<1>6. AppendResponse(d, r) \in Response
  BY <1>1, <1>4, <1>5 DEF TypeOK, AppendResponse, Response
<1>7. CommitAfter(d, r) \in Nat
  BY <1>1, <1>4 DEF CommitAfter, Min2, TypeOK
<1> QED BY <1>1, <1>3, <1>6, <1>7 DEF TypeOK, HandleAppend, Role

\* handle_append_response keeps the types of what it writes.
LEMMA HandleAppendResponseType ==
  ASSUME TypeOK, NEW n \in Node, NEW p \in Node, NEW resp \in Response,
         StepDown(n, resp) \/ TakeAck(n, p, resp)
  PROVE  /\ term' \in [Node -> Nat]
         /\ role' \in [Node -> Role]
         /\ leaderId' \in [Node -> Node \cup {Nil}]
         /\ commitIndex' \in [Node -> Nat]
         /\ nextIndex' \in [Node -> [Node -> Nat \ {0}]]
         /\ matchIndex' \in [Node -> [Node -> Nat]]
         /\ faults' \subseteq {"late_win", "foreign_tail", "stale_commit"}
<1>1. resp.term \in Nat /\ resp.match \in Nat
  BY DEF Response
<1>2. CASE StepDown(n, resp)
  BY <1>1, <1>2 DEF StepDown, TypeOK, Role
<1>3. CASE TakeAck(n, p, resp)
  <2>1. Acked(n, p, resp) \in [Node -> Nat]
    BY <1>1 DEF Acked, TypeOK
  <2>2. AdvancedCommit(n, Acked(n, p, resp)) \in Nat
    BY AdvancedCommitType
  <2>3. matchIndex' \in [Node -> [Node -> Nat]] /\ commitIndex' \in [Node -> Nat]
    BY <1>3, <2>1, <2>2 DEF TakeAck, TypeOK
  <2>4. nextIndex[n] \in [Node -> Nat \ {0}]
    BY DEF TypeOK
  <2>5. BackedOff(nextIndex[n][p]) \in Nat \ {0}
    BY <2>4 DEF BackedOff
  <2>6. NextAfter(n, p, resp) \in [Node -> Nat \ {0}]
    BY <1>1, <2>4, <2>5 DEF NextAfter
  <2>7. nextIndex' \in [Node -> [Node -> Nat \ {0}]]
    BY <1>3, <2>6 DEF TakeAck, TypeOK
  <2> QED BY <1>3, <2>3, <2>7 DEF TakeAck, TypeOK
<1> QED BY <1>2, <1>3

\* The initial states have their types.
LEMMA InitType == Init => TypeOK
  BY DEF Init, TypeOK, NoRound, VoteRequest, Role

\* Every step of every node, driver and call keeps the types.
LEMMA NextType == TypeOK /\ [Next]_vars => TypeOK'
<1> SUFFICES ASSUME TypeOK, [Next]_vars PROVE TypeOK'
  OBVIOUS
<1>1. ASSUME NEW n \in Node, StartElection(n) PROVE TypeOK'
  <2>1. LastIndex(log[n]) \in Nat /\ LastTerm(log[n]) \in Nat
    BY LastType DEF TypeOK
  <2>2. round'[n] \in VoteRequest
    BY <1>1, <2>1 DEF StartElection, TypeOK, VoteRequest
  <2>3. round' \in [Node -> VoteRequest]
    BY <1>1, <2>2 DEF StartElection, TypeOK
  <2>4. <<n, term[n] + 1, n>> \in Node \X Nat \X Node
    BY DEF TypeOK
  <2>5. grants' \subseteq Node \X Nat \X Node
    BY <1>1, <2>4 DEF StartElection, TypeOK
  <2>6. /\ term' \in [Node -> Nat]
        /\ role' \in [Node -> Role]
        /\ leaderId' \in [Node -> Node \cup {Nil}]
        /\ votedFor' \in [Node -> Node \cup {Nil}]
    BY <1>1 DEF StartElection, TypeOK, Role
  <2>7. /\ electing' \in [Node -> BOOLEAN]
        /\ todo' \in [Node -> SUBSET Node]
        /\ ballots' \in [Node -> SUBSET Node]
    BY <1>1 DEF StartElection, TypeOK, Peers
  <2> QED BY <1>1, <2>3, <2>5, <2>6, <2>7 DEF StartElection, TypeOK, netVars
<1>2. ASSUME NEW n \in Node, NEW p \in Node, SendVote(n, p) PROVE TypeOK'
  <2>1. [to |-> p, req |-> round[n]] \in Call
    BY DEF TypeOK, Call
  <2> QED BY <1>2, <2>1 DEF SendVote, TypeOK, nodeVars, histVars
<1>3. ASSUME NEW c \in calls, AnswerVote(c) PROVE TypeOK'
  <2>1. c.to \in Node /\ c.req \in VoteRequest
    BY <1>3 DEF AnswerVote, TypeOK, Call, AppendRequest
  <2>2. HandleVoteRequest(c.to, c.req)
    BY <1>3 DEF AnswerVote
  <2>3. [to |-> c.to, req |-> c.req, resp |-> VoteResponse(c.to, c.req)] \in Reply
    BY <2>1, <2>2, HandleVoteRequestType DEF Reply
  <2>4. replies' \subseteq Reply /\ calls' \subseteq Call
    BY <1>3, <2>3 DEF AnswerVote, TypeOK
  <2> QED BY <1>3, <2>1, <2>2, <2>4, HandleVoteRequestType
        DEF AnswerVote, HandleVoteRequest, TypeOK, driverVars
<1>4. ASSUME NEW c \in late, AnswerLateVote(c) PROVE TypeOK'
  <2>1. c.to \in Node /\ c.req \in VoteRequest
    BY <1>4 DEF AnswerLateVote, TypeOK, Call, AppendRequest
  <2>2. HandleVoteRequest(c.to, c.req)
    BY <1>4 DEF AnswerLateVote
  <2> QED BY <1>4, <2>1, <2>2, HandleVoteRequestType
        DEF AnswerLateVote, HandleVoteRequest, TypeOK, driverVars
<1>5. ASSUME NEW a \in replies, RecvVote(a) PROVE TypeOK'
  <2>1. a.to \in Node
    BY DEF TypeOK, Reply
  <2> QED BY <1>5, <2>1 DEF RecvVote, TypeOK, nodeVars, histVars
<1>6. ASSUME NEW n \in Node, FinishElection(n) PROVE TypeOK'
  <2>1. round' \in [Node -> VoteRequest] /\ round[n].term \in Nat
    BY <1>6 DEF FinishElection, NoRound, TypeOK, VoteRequest
  <2>2. Len(log[n]) \in Nat
    BY DEF TypeOK
  <2>3. electing' \in [Node -> BOOLEAN] /\ ballots' \in [Node -> SUBSET Node]
    BY <1>6 DEF FinishElection, TypeOK
  <2>4. CASE Cardinality(ballots[n]) >= VoteMajority /\ BecomeLeader(n)
    <3>1. /\ role' \in [Node -> Role]
          /\ leaderId' \in [Node -> Node \cup {Nil}]
      BY <2>4 DEF BecomeLeader, TypeOK, Role
    <3>2. nextIndex' \in [Node -> [Node -> Nat \ {0}]]
      BY <2>4, <2>2 DEF BecomeLeader, TypeOK
    <3>3. matchIndex' \in [Node -> [Node -> Nat]]
      BY <2>4 DEF BecomeLeader, TypeOK
    <3>4. <<n, round[n].term>> \in Node \X Nat /\ <<n, term[n]>> \in Node \X Nat
      BY <2>1 DEF TypeOK
    <3>5. /\ won' \subseteq Node \X Nat
          /\ led' \subseteq Node \X Nat
          /\ faults' \subseteq {"late_win", "foreign_tail", "stale_commit"}
      BY <1>6, <2>4, <3>4 DEF FinishElection, TypeOK, histVars
    <3> QED BY <1>6, <2>1, <2>3, <2>4, <3>1, <3>2, <3>3, <3>5
          DEF FinishElection, BecomeLeader, TypeOK, netVars
  <2>5. CASE UNCHANGED <<nodeVars, won, led, faults>>
    BY <1>6, <2>1, <2>3, <2>5 DEF FinishElection, TypeOK, nodeVars, netVars
  <2> QED BY <1>6, <2>4, <2>5 DEF FinishElection
<1>7. ASSUME NEW n \in Node, NEW v \in Value, AppendEntry(n, v) PROVE TypeOK'
  <2> DEFINE e == [index |-> Len(log[n]) + 1, term |-> term[n], data |-> v]
  <2>1. e \in Entry
    BY DEF TypeOK, Entry
  <2> HIDE DEF e
  <2>2. Append(log[n], e) \in Seq(Entry)
    BY <2>1 DEF TypeOK
  <2>3. log' \in [Node -> Seq(Entry)]
    BY <1>7, <2>2 DEF AppendEntry, TypeOK, e
  <2> QED BY <1>7, <2>3 DEF AppendEntry, TypeOK, driverVars, netVars, histVars
<1>8. ASSUME NEW n \in Node, NEW p \in Node, SendAppend(n, p) PROVE TypeOK'
  <2>1. PreparedAppend(n, p) \in AppendRequest
    BY <1>8, PreparedAppendType DEF SendAppend
  <2>2. [to |-> p, req |-> PreparedAppend(n, p)] \in Call
    BY <2>1 DEF Call
  <2> QED BY <1>8, <2>2 DEF SendAppend, TypeOK, nodeVars, driverVars, histVars
<1>9. ASSUME NEW c \in calls, AnswerAppend(c) PROVE TypeOK'
  <2>1. c.to \in Node /\ c.req \in AppendRequest
    BY <1>9 DEF AnswerAppend, TypeOK, Call, VoteRequest
  <2>2. HandleAppend(c.to, c.req)
    BY <1>9 DEF AnswerAppend
  <2>3. [to |-> c.to, req |-> c.req, resp |-> AppendResponse(c.to, c.req)] \in Reply
    BY <2>1, <2>2, HandleAppendType DEF Reply
  <2>4. replies' \subseteq Reply /\ calls' \subseteq Call
    BY <1>9, <2>3 DEF AnswerAppend, TypeOK
  <2> QED BY <1>9, <2>1, <2>2, <2>4, HandleAppendType
        DEF AnswerAppend, HandleAppend, TypeOK, driverVars
<1>10. ASSUME NEW c \in late, AnswerLateAppend(c) PROVE TypeOK'
  <2>1. c.to \in Node /\ c.req \in AppendRequest
    BY <1>10 DEF AnswerLateAppend, TypeOK, Call, VoteRequest
  <2>2. HandleAppend(c.to, c.req)
    BY <1>10 DEF AnswerLateAppend
  <2> QED BY <1>10, <2>1, <2>2, HandleAppendType
        DEF AnswerLateAppend, HandleAppend, TypeOK, driverVars
<1>11. ASSUME NEW a \in replies, RecvAppend(a) PROVE TypeOK'
  <2>1. a.req.from \in Node /\ a.to \in Node /\ a.resp \in Response
    BY DEF TypeOK, Reply, VoteRequest, AppendRequest
  <2>2. /\ term' \in [Node -> Nat]
        /\ role' \in [Node -> Role]
        /\ leaderId' \in [Node -> Node \cup {Nil}]
        /\ commitIndex' \in [Node -> Nat]
        /\ nextIndex' \in [Node -> [Node -> Nat \ {0}]]
        /\ matchIndex' \in [Node -> [Node -> Nat]]
        /\ faults' \subseteq {"late_win", "foreign_tail", "stale_commit"}
    BY <1>11, <2>1, HandleAppendResponseType DEF RecvAppend
  <2> QED BY <1>11, <2>2 DEF RecvAppend, TypeOK, driverVars
<1>12. ASSUME NEW c \in calls \cup replies, CallFails(c) PROVE TypeOK'
  BY <1>12 DEF CallFails, TypeOK, nodeVars, driverVars, histVars
<1>13. ASSUME NEW c \in calls, CallOutlivesCaller(c) PROVE TypeOK'
  BY <1>13 DEF CallOutlivesCaller, TypeOK, nodeVars, driverVars, histVars
<1>14. CASE UNCHANGED vars
  BY <1>14 DEF vars, nodeVars, driverVars, netVars, histVars, TypeOK
<1> QED BY <1>1, <1>2, <1>3, <1>4, <1>5, <1>6, <1>7, <1>8, <1>9, <1>10, <1>11,
           <1>12, <1>13, <1>14 DEF Next

\* The model is well-typed for every cluster: in particular next_index never
\* falls to 0, which prepare_append would turn into an index underflow.
THEOREM TypeCorrect == Spec => []TypeOK
<1> QED BY InitType, NextType, PTL DEF Spec

-----------------------------------------------------------------------------
(* Elections. *)

\* The votes that make become_leader happen are more than half.
LEMMA VoteMajorityIsMajority ==
  ASSUME NEW Q \in SUBSET Node, Cardinality(Q) >= VoteMajority
  PROVE  2 * Cardinality(Q) > Cardinality(Node)
<1>1. Cardinality(Node) \in Nat /\ Cardinality(Q) \in Nat
  BY NodeAssumption, FS_CardinalityType, FS_Subset
<1> QED BY <1>1 DEF VoteMajority

\* A vote given by handle_vote_request or by start_election is remembered,
\* and is the only one of its term.
LEMMA NewGrant ==
  ASSUME TypeOK, VotesRemembered, OneVotePerTerm,
         NEW d \in Node, NEW t \in Nat, NEW c \in Node,
         t >= term[d], t > term[d] \/ votedFor[d] \in {Nil, c},
         term' = [term EXCEPT ![d] = t],
         votedFor' = [votedFor EXCEPT ![d] = c],
         grants' = grants \cup {<<d, t, c>>}
  PROVE  VotesRemembered' /\ OneVotePerTerm'
<1>1. \A g \in grants : g \in Node \X Nat \X Node
  BY DEF TypeOK
<1>2. term \in [Node -> Nat] /\ votedFor \in [Node -> Node \cup {Nil}]
  BY DEF TypeOK
<1>3. ASSUME NEW g \in grants, g[1] = d, g[2] = t PROVE g[3] = c
  BY <1>1, <1>2, <1>3, NodeAssumption DEF VotesRemembered
<1>4. VotesRemembered'
  <2> SUFFICES ASSUME NEW g \in grants'
               PROVE  /\ g[2] <= term'[g[1]]
                      /\ g[2] = term'[g[1]] => votedFor'[g[1]] = g[3]
    BY DEF VotesRemembered
  <2>1. CASE g = <<d, t, c>>
    BY <2>1, <1>2
  <2>2. CASE g \in grants
    <3>1. g[1] \in Node /\ g[2] \in Nat /\ g[3] \in Node
      BY <2>2, <1>1
    <3>2. g[2] <= term[g[1]] /\ (g[2] = term[g[1]] => votedFor[g[1]] = g[3])
      BY <2>2 DEF VotesRemembered
    <3> QED BY <3>1, <3>2, <1>2, <1>3, <2>2
  <2> QED BY <2>1, <2>2
<1>5. OneVotePerTerm'
  BY <1>3 DEF OneVotePerTerm
<1> QED BY <1>4, <1>5

\* A step that gives no vote and moves a node's term up or not at all
\* keeps what is known of the votes given.
LEMMA NoGrant ==
  ASSUME TypeOK, VotesRemembered, OneVotePerTerm,
         NEW d \in Node, NEW t \in Nat, t >= term[d],
         term' = [term EXCEPT ![d] = t],
         grants' = grants,
         \A n \in Node \ {d} : votedFor'[n] = votedFor[n],
         t = term[d] => votedFor'[d] = votedFor[d]
  PROVE  VotesRemembered' /\ OneVotePerTerm'
<1>1. \A g \in grants : g \in Node \X Nat \X Node
  BY DEF TypeOK
<1>2. term \in [Node -> Nat]
  BY DEF TypeOK
<1>3. ASSUME NEW g \in grants
      PROVE  /\ g[2] <= term'[g[1]]
             /\ g[2] = term'[g[1]] => votedFor'[g[1]] = g[3]
  <2>1. g[1] \in Node /\ g[2] \in Nat
    BY <1>1
  <2>2. g[2] <= term[g[1]] /\ (g[2] = term[g[1]] => votedFor[g[1]] = g[3])
    BY DEF VotesRemembered
  <2> QED BY <1>2, <2>1, <2>2
<1> QED BY <1>3 DEF VotesRemembered, OneVotePerTerm

\* handle_vote_request keeps what is known of the votes given.
LEMMA HandleVoteRequestVotes ==
  ASSUME TypeOK, VotesRemembered, OneVotePerTerm,
         NEW d \in Node, NEW r \in VoteRequest, HandleVoteRequest(d, r)
  PROVE  VotesRemembered' /\ OneVotePerTerm'
<1>1. r.term \in Nat /\ r.from \in Node /\ term \in [Node -> Nat] /\ votedFor \in [Node -> Node \cup {Nil}]
  BY DEF VoteRequest, TypeOK
<1>2. CASE Granted(d, r)
  <2>1. r.term >= term[d] /\ (r.term > term[d] \/ votedFor[d] \in {Nil, r.from})
    BY <1>2 DEF Granted, CanVote
  <2>2. term' = [term EXCEPT ![d] = r.term]
    <3>1. CASE r.term > term[d]
      BY <3>1 DEF HandleVoteRequest
    <3>2. CASE ~(r.term > term[d])
      <4>1. r.term = term[d]
        BY <1>1, <2>1, <3>2
      <4>2. term' = term
        BY <1>1, <3>2 DEF HandleVoteRequest
      <4> QED BY <1>1, <4>1, <4>2
    <3> QED BY <3>1, <3>2
  <2>3. votedFor' = [votedFor EXCEPT ![d] = r.from]
    BY <1>2 DEF HandleVoteRequest
  <2>4. grants' = grants \cup {<<d, r.term, r.from>>}
    BY <1>2 DEF HandleVoteRequest
  <2> QED BY <1>1, <2>1, <2>2, <2>3, <2>4, NewGrant
<1>3. CASE ~Granted(d, r)
  <2> DEFINE t == IF r.term > term[d] THEN r.term ELSE term[d]
  <2>1. t \in Nat /\ t >= term[d]
    BY <1>1
  <2>2. term' = [term EXCEPT ![d] = t]
    BY <1>1 DEF HandleVoteRequest
  <2>3. grants' = grants
    BY <1>3 DEF HandleVoteRequest
  <2>4. votedFor' = [votedFor EXCEPT ![d] = IF r.term > term[d] THEN Nil ELSE @]
    BY <1>3 DEF HandleVoteRequest
  <2>5. /\ \A n \in Node \ {d} : votedFor'[n] = votedFor[n]
        /\ t = term[d] => votedFor'[d] = votedFor[d]
    BY <1>1, <2>4
  <2> HIDE DEF t
  <2> QED BY <2>1, <2>2, <2>3, <2>5, NoGrant
<1> QED BY <1>2, <1>3

\* What is known of the votes while the driver loops and handlers interleave.
VoteInv == TypeOK /\ VotesRemembered /\ OneVotePerTerm

\* The initial states remember every vote: there is none.
LEMMA InitVotes == Init => VotesRemembered /\ OneVotePerTerm
  BY DEF Init, VotesRemembered, OneVotePerTerm

\* Every step keeps the votes given remembered and unique in their term.
LEMMA NextVotes == VoteInv /\ [Next]_vars => VotesRemembered' /\ OneVotePerTerm'
<1> SUFFICES ASSUME TypeOK, VotesRemembered, OneVotePerTerm, [Next]_vars
             PROVE  VotesRemembered' /\ OneVotePerTerm'
  BY DEF VoteInv
<1>0. term \in [Node -> Nat] /\ votedFor \in [Node -> Node \cup {Nil}]
  BY DEF TypeOK
<1>a. ASSUME term' = term, votedFor' = votedFor, grants' = grants
      PROVE  VotesRemembered' /\ OneVotePerTerm'
  BY <1>a DEF VotesRemembered, OneVotePerTerm
<1>1. ASSUME NEW n \in Node, StartElection(n) PROVE VotesRemembered' /\ OneVotePerTerm'
  <2>1. term[n] + 1 \in Nat /\ term[n] + 1 > term[n] /\ term[n] + 1 >= term[n]
    BY <1>0
  <2>2. /\ term' = [term EXCEPT ![n] = term[n] + 1]
        /\ votedFor' = [votedFor EXCEPT ![n] = n]
        /\ grants' = grants \cup {<<n, term[n] + 1, n>>}
    BY <1>1 DEF StartElection
  <2> QED BY <2>1, <2>2, NewGrant
<1>2. ASSUME NEW n \in Node, NEW p \in Node, SendVote(n, p)
      PROVE  VotesRemembered' /\ OneVotePerTerm'
  BY <1>2, <1>a DEF SendVote, nodeVars, histVars
<1>3. ASSUME NEW c \in calls, AnswerVote(c) PROVE VotesRemembered' /\ OneVotePerTerm'
  <2>1. c.to \in Node /\ c.req \in VoteRequest
    BY <1>3 DEF AnswerVote, TypeOK, Call, AppendRequest
  <2> QED BY <1>3, <2>1, HandleVoteRequestVotes DEF AnswerVote
<1>4. ASSUME NEW c \in late, AnswerLateVote(c) PROVE VotesRemembered' /\ OneVotePerTerm'
  <2>1. c.to \in Node /\ c.req \in VoteRequest
    BY <1>4 DEF AnswerLateVote, TypeOK, Call, AppendRequest
  <2> QED BY <1>4, <2>1, HandleVoteRequestVotes DEF AnswerLateVote
<1>5. ASSUME NEW a \in replies, RecvVote(a) PROVE VotesRemembered' /\ OneVotePerTerm'
  BY <1>5, <1>a DEF RecvVote, nodeVars, histVars
<1>6. ASSUME NEW n \in Node, FinishElection(n) PROVE VotesRemembered' /\ OneVotePerTerm'
  BY <1>6, <1>a DEF FinishElection, BecomeLeader, nodeVars
<1>7. ASSUME NEW n \in Node, NEW v \in Value, AppendEntry(n, v)
      PROVE  VotesRemembered' /\ OneVotePerTerm'
  BY <1>7, <1>a DEF AppendEntry, histVars
<1>8. ASSUME NEW n \in Node, NEW p \in Node, SendAppend(n, p)
      PROVE  VotesRemembered' /\ OneVotePerTerm'
  BY <1>8, <1>a DEF SendAppend, nodeVars, histVars
<1>b. ASSUME NEW d \in Node, NEW r \in AppendRequest, HandleAppend(d, r)
      PROVE  VotesRemembered' /\ OneVotePerTerm'
  <2> DEFINE t == IF r.term >= term[d] THEN r.term ELSE term[d]
  <2>1. r.term \in Nat
    BY DEF AppendRequest
  <2>2. t \in Nat /\ t >= term[d]
    BY <1>0, <2>1
  <2>3. term' = [term EXCEPT ![d] = t] /\ votedFor' = votedFor /\ grants' = grants
    BY <1>b DEF HandleAppend
  <2> HIDE DEF t
  <2> QED BY <2>2, <2>3, NoGrant
<1>9. ASSUME NEW c \in calls, AnswerAppend(c) PROVE VotesRemembered' /\ OneVotePerTerm'
  <2>1. c.to \in Node /\ c.req \in AppendRequest
    BY <1>9 DEF AnswerAppend, TypeOK, Call, VoteRequest
  <2> QED BY <1>9, <1>b, <2>1 DEF AnswerAppend
<1>10. ASSUME NEW c \in late, AnswerLateAppend(c) PROVE VotesRemembered' /\ OneVotePerTerm'
  <2>1. c.to \in Node /\ c.req \in AppendRequest
    BY <1>10 DEF AnswerLateAppend, TypeOK, Call, VoteRequest
  <2> QED BY <1>10, <1>b, <2>1 DEF AnswerLateAppend
<1>11. ASSUME NEW a \in replies, RecvAppend(a) PROVE VotesRemembered' /\ OneVotePerTerm'
  <2>1. a.req.from \in Node /\ a.resp.term \in Nat
    BY DEF TypeOK, Reply, VoteRequest, AppendRequest, Response
  <2>2. votedFor' = votedFor /\ grants' = grants
    BY <1>11 DEF RecvAppend
  <2>3. CASE StepDown(a.req.from, a.resp)
    <3>1. term' = [term EXCEPT ![a.req.from] = a.resp.term] /\ a.resp.term >= term[a.req.from]
      BY <1>0, <2>1, <2>3 DEF StepDown
    <3> QED BY <2>1, <2>2, <3>1, NoGrant
  <2>4. CASE TakeAck(a.req.from, a.to, a.resp)
    BY <2>2, <2>4, <1>a DEF TakeAck
  <2> QED BY <1>11, <2>3, <2>4 DEF RecvAppend
<1>12. ASSUME NEW c \in calls \cup replies, CallFails(c)
       PROVE  VotesRemembered' /\ OneVotePerTerm'
  BY <1>12, <1>a DEF CallFails, nodeVars, histVars
<1>13. ASSUME NEW c \in calls, CallOutlivesCaller(c) PROVE VotesRemembered' /\ OneVotePerTerm'
  BY <1>13, <1>a DEF CallOutlivesCaller, nodeVars, histVars
<1>14. CASE UNCHANGED vars
  BY <1>14, <1>a DEF vars, nodeVars, histVars
<1> QED BY <1>1, <1>2, <1>3, <1>4, <1>5, <1>6, <1>7, <1>8, <1>9, <1>10, <1>11,
           <1>12, <1>13, <1>14 DEF Next

\* No node ever gives two votes in a term, whatever the number of nodes and
\* terms and however late or lost the vote requests are.
THEOREM VotesUnique == Spec => []OneVotePerTerm
<1>1. Init => VoteInv
  BY InitType, InitVotes DEF VoteInv
<1>2. VoteInv /\ [Next]_vars => VoteInv'
  BY NextType, NextVotes DEF VoteInv
<1>3. VoteInv => OneVotePerTerm
  BY DEF VoteInv
<1> QED BY <1>1, <1>2, <1>3, PTL DEF Spec

\* What is known of a round: its calls, the votes counted, the rounds won.
RoundParts ==
  RoundsOwned /\ CallsOfRound /\ AnswersGranted /\ BallotsGranted /\ WinsBacked

\* Nothing is known of rounds initially, and nothing need be.
LEMMA InitRounds == Init => RoundParts
  BY DEF Init, NoRound, RoundParts, RoundsOwned, CallsOfRound, AnswersGranted,
         BallotsGranted, WinsBacked

\* A step that counts no vote, finishes no round and adds no call keeps what
\* is known of rounds, for it takes no vote back.
LEMMA RoundsKept ==
  ASSUME RoundParts, UNCHANGED <<electing, round, ballots, won>>,
         grants \subseteq grants', calls' \subseteq calls,
         \A a \in replies' : \/ a \in replies
                             \/ /\ [to |-> a.to, req |-> a.req] \in calls
                                /\ a.req.kind = "vote" /\ a.resp.ok
                                     => <<a.to, a.req.term, a.req.from>> \in grants'
  PROVE  RoundParts'
<1>1. RoundsOwned'
  BY DEF RoundParts, RoundsOwned
<1>2. CallsOfRound'
  <2> SUFFICES ASSUME NEW c \in calls' \cup replies', c.req.kind = "vote"
               PROVE  electing'[c.req.from] /\ c.req = round'[c.req.from]
    BY DEF CallsOfRound
  <2>1. CASE c \in calls \cup replies
    BY <2>1 DEF RoundParts, CallsOfRound
  <2>2. CASE [to |-> c.to, req |-> c.req] \in calls
    BY <2>2 DEF RoundParts, CallsOfRound
  <2> QED BY <2>1, <2>2
<1>3. AnswersGranted'
  BY DEF RoundParts, AnswersGranted
<1>4. BallotsGranted'
  BY DEF RoundParts, BallotsGranted
<1>5. WinsBacked'
  <2> SUFFICES ASSUME NEW w \in won
               PROVE  \E Q \in SUBSET Node : /\ 2 * Cardinality(Q) > Cardinality(Node)
                                             /\ \A p \in Q : <<p, w[2], w[1]>> \in grants'
    BY DEF WinsBacked
  <2> QED BY DEF RoundParts, WinsBacked
<1> QED BY <1>1, <1>2, <1>3, <1>4, <1>5 DEF RoundParts

\* A granting answer of handle_vote_request is a vote given.
LEMMA AnswerIsGrant ==
  ASSUME NEW d, NEW r, HandleVoteRequest(d, r)
  PROVE  /\ grants \subseteq grants'
         /\ VoteResponse(d, r).ok => <<d, r.term, r.from>> \in grants'
  BY DEF HandleVoteRequest, VoteResponse

\* Every step keeps what is known of rounds.
LEMMA NextRounds == TypeOK /\ RoundParts /\ [Next]_vars => RoundParts'
<1> SUFFICES ASSUME TypeOK, RoundParts, [Next]_vars PROVE RoundParts'
  OBVIOUS
<1>1. ASSUME NEW n \in Node, StartElection(n) PROVE RoundParts'
  <2>1. \A c \in calls \cup replies : c.req.from # n
    BY <1>1 DEF StartElection, Idle, Waiting
  <2>2. grants \subseteq grants' /\ <<n, term[n] + 1, n>> \in grants'
    BY <1>1 DEF StartElection
  <2>3. round'[n].from = n /\ round'[n].term = term[n] + 1 /\ ballots'[n] = {n}
    BY <1>1 DEF StartElection, TypeOK
  <2>4. \A m \in Node \ {n} : /\ round'[m] = round[m]
                              /\ ballots'[m] = ballots[m]
                              /\ electing'[m] = electing[m]
    BY <1>1 DEF StartElection, TypeOK
  <2>5. UNCHANGED <<calls, replies, won>>
    BY <1>1 DEF StartElection, netVars
  <2>6. RoundsOwned'
    BY <2>3, <2>4 DEF RoundParts, RoundsOwned
  <2>7. CallsOfRound'
    <3>1. \A c \in calls \cup replies : c.req.from \in Node \ {n}
      BY <2>1 DEF TypeOK, Call, Reply, VoteRequest, AppendRequest
    <3> QED BY <3>1, <2>4, <2>5 DEF RoundParts, CallsOfRound
  <2>8. AnswersGranted'
    BY <2>2, <2>5 DEF RoundParts, AnswersGranted
  <2>9. BallotsGranted'
    BY <2>2, <2>3, <2>4 DEF RoundParts, BallotsGranted
  <2>10. WinsBacked'
    BY <2>2, <2>5 DEF RoundParts, WinsBacked
  <2> QED BY <2>6, <2>7, <2>8, <2>9, <2>10 DEF RoundParts
<1>2. ASSUME NEW n \in Node, NEW p \in Node, SendVote(n, p) PROVE RoundParts'
  <2>1. UNCHANGED <<electing, round, ballots, replies, grants, won>>
    BY <1>2 DEF SendVote, histVars
  <2>2. CallsOfRound'
    <3> DEFINE k == [to |-> p, req |-> round[n]]
    <3>1. calls' = calls \cup {k} /\ electing[n]
      BY <1>2 DEF SendVote
    <3>2. k.req = round[n] /\ k.req.from = n
      BY DEF RoundParts, RoundsOwned
    <3> HIDE DEF k
    <3> QED BY <2>1, <3>1, <3>2 DEF RoundParts, CallsOfRound
  <2> QED BY <2>1, <2>2
        DEF RoundParts, RoundsOwned, AnswersGranted, BallotsGranted, WinsBacked
<1>3. ASSUME NEW c \in calls, AnswerVote(c) PROVE RoundParts'
  <2> DEFINE b == [to |-> c.to, req |-> c.req, resp |-> VoteResponse(c.to, c.req)]
  <2>1. HandleVoteRequest(c.to, c.req)
    BY <1>3 DEF AnswerVote
  <2>2. c = [to |-> c.to, req |-> c.req]
    BY DEF TypeOK, Call
  <2>3. replies' = replies \cup {b} /\ calls' \subseteq calls
    BY <1>3 DEF AnswerVote
  <2>4. UNCHANGED <<electing, round, ballots, won>>
    BY <1>3, <2>1 DEF AnswerVote, driverVars, HandleVoteRequest
  <2>5. b.to = c.to /\ b.req = c.req /\ b.resp = VoteResponse(c.to, c.req)
    OBVIOUS
  <2> HIDE DEF b
  <2>6. [to |-> b.to, req |-> b.req] \in calls
    BY <2>2, <2>5
  <2>7. grants \subseteq grants' /\ (b.resp.ok => <<b.to, b.req.term, b.req.from>> \in grants')
    BY <2>1, <2>5, AnswerIsGrant
  <2> QED BY <2>3, <2>4, <2>6, <2>7, RoundsKept
<1>4. ASSUME NEW c \in late, AnswerLateVote(c) PROVE RoundParts'
  <2>1. HandleVoteRequest(c.to, c.req)
    BY <1>4 DEF AnswerLateVote
  <2>2. UNCHANGED <<electing, round, ballots, won, calls, replies>>
    BY <1>4, <2>1 DEF AnswerLateVote, driverVars, HandleVoteRequest
  <2> QED BY <2>1, <2>2, AnswerIsGrant, RoundsKept
<1>5. ASSUME NEW a \in replies, RecvVote(a) PROVE RoundParts'
  <2> DEFINE n == a.req.from
  <2>1. n \in Node /\ a.req.kind = "vote"
    BY <1>5 DEF RecvVote, TypeOK, Reply, VoteRequest, AppendRequest
  <2>2. UNCHANGED <<electing, round, calls, grants, won>> /\ replies' \subseteq replies
    BY <1>5 DEF RecvVote, histVars
  <2>3. a.resp.ok => <<a.to, round[n].term, n>> \in grants
    BY <2>1 DEF RoundParts, CallsOfRound, AnswersGranted
  <2>4. \A m \in Node : \A p \in ballots'[m] :
           p \in ballots[m] \/ (m = n /\ p = a.to /\ a.resp.ok)
    BY <1>5, <2>1 DEF RecvVote, TypeOK
  <2> HIDE DEF n
  <2>5. BallotsGranted'
    BY <2>2, <2>3, <2>4 DEF RoundParts, BallotsGranted
  <2> QED BY <2>2, <2>5
        DEF RoundParts, RoundsOwned, CallsOfRound, AnswersGranted, WinsBacked
<1>6. ASSUME NEW n \in Node, FinishElection(n) PROVE RoundParts'
  <2>1. \A c \in calls \cup replies : c.req.from \in Node \ {n}
    BY <1>6 DEF FinishElection, Waiting, TypeOK, Call, Reply, VoteRequest, AppendRequest
  <2>2. UNCHANGED <<calls, replies, grants>>
    BY <1>6 DEF FinishElection, netVars
  <2>3. /\ round'[n].from = n /\ ballots'[n] = {}
        /\ \A m \in Node \ {n} : /\ round'[m] = round[m]
                                 /\ ballots'[m] = ballots[m]
                                 /\ electing'[m] = electing[m]
    BY <1>6 DEF FinishElection, NoRound, TypeOK
  <2>4. RoundsOwned' /\ CallsOfRound' /\ AnswersGranted'
    BY <2>1, <2>2, <2>3 DEF RoundParts, RoundsOwned, CallsOfRound, AnswersGranted
  <2>5. BallotsGranted'
    BY <2>2, <2>3 DEF RoundParts, BallotsGranted
  <2>6. WinsBacked'
    <3>1. CASE won' = won
      BY <2>2, <3>1 DEF RoundParts, WinsBacked
    <3>2. CASE Cardinality(ballots[n]) >= VoteMajority /\ won' = won \cup {<<n, round[n].term>>}
      <4>1. ballots[n] \in SUBSET Node
        BY DEF TypeOK
      <4>2. 2 * Cardinality(ballots[n]) > Cardinality(Node)
        BY <3>2, <4>1, VoteMajorityIsMajority
      <4>3. \A p \in ballots[n] : <<p, round[n].term, n>> \in grants
        BY DEF RoundParts, BallotsGranted
      <4>4. \E Q \in SUBSET Node : /\ 2 * Cardinality(Q) > Cardinality(Node)
                                   /\ \A p \in Q : <<p, round[n].term, n>> \in grants
        BY <4>1, <4>2, <4>3
      <4> QED BY <2>2, <3>2, <4>4 DEF RoundParts, WinsBacked
    <3> QED BY <1>6, <3>1, <3>2 DEF FinishElection
  <2> QED BY <2>4, <2>5, <2>6 DEF RoundParts
<1>7. ASSUME NEW n \in Node, NEW v \in Value, AppendEntry(n, v) PROVE RoundParts'
  BY <1>7, RoundsKept DEF AppendEntry, driverVars, netVars, histVars
<1>8. ASSUME NEW n \in Node, NEW p \in Node, SendAppend(n, p) PROVE RoundParts'
  <2>1. UNCHANGED <<electing, round, ballots, replies, grants, won>>
    BY <1>8 DEF SendAppend, driverVars, histVars
  <2>2. CallsOfRound'
    <3> DEFINE k == [to |-> p, req |-> PreparedAppend(n, p)]
    <3>1. calls' = calls \cup {k} /\ k.req.kind = "append"
      BY <1>8 DEF SendAppend, PreparedAppend
    <3> HIDE DEF k
    <3> QED BY <2>1, <3>1 DEF RoundParts, CallsOfRound
  <2> QED BY <2>1, <2>2
        DEF RoundParts, RoundsOwned, AnswersGranted, BallotsGranted, WinsBacked
<1>9. ASSUME NEW c \in calls, AnswerAppend(c) PROVE RoundParts'
  <2> DEFINE b == [to |-> c.to, req |-> c.req, resp |-> AppendResponse(c.to, c.req)]
  <2>1. c = [to |-> c.to, req |-> c.req] /\ c.req.kind = "append"
    BY <1>9 DEF AnswerAppend, TypeOK, Call
  <2>2. replies' = replies \cup {b} /\ calls' \subseteq calls
    BY <1>9 DEF AnswerAppend
  <2>3. UNCHANGED <<electing, round, ballots, won, grants>>
    BY <1>9 DEF AnswerAppend, driverVars, HandleAppend
  <2>4. b.to = c.to /\ b.req = c.req
    OBVIOUS
  <2> HIDE DEF b
  <2>5. [to |-> b.to, req |-> b.req] \in calls /\ b.req.kind # "vote"
    BY <2>1, <2>4
  <2> QED BY <2>2, <2>3, <2>5, RoundsKept
<1>10. ASSUME NEW c \in late, AnswerLateAppend(c) PROVE RoundParts'
  BY <1>10, RoundsKept DEF AnswerLateAppend, HandleAppend, driverVars
<1>11. ASSUME NEW a \in replies, RecvAppend(a) PROVE RoundParts'
  BY <1>11, RoundsKept DEF RecvAppend, driverVars
<1>12. ASSUME NEW c \in calls \cup replies, CallFails(c) PROVE RoundParts'
  BY <1>12, RoundsKept DEF CallFails, driverVars, histVars
<1>13. ASSUME NEW c \in calls, CallOutlivesCaller(c) PROVE RoundParts'
  BY <1>13, RoundsKept DEF CallOutlivesCaller, driverVars, histVars
<1>14. CASE UNCHANGED vars
  BY <1>14, RoundsKept DEF vars, driverVars, netVars, histVars
<1> QED BY <1>1, <1>2, <1>3, <1>4, <1>5, <1>6, <1>7, <1>8, <1>9, <1>10, <1>11,
           <1>12, <1>13, <1>14 DEF Next

\* Two majorities share a voter, and a voter votes once in a term.
LEMMA WinnersUnique ==
  ASSUME TypeOK, OneVotePerTerm, WinsBacked
  PROVE  OneWinnerPerRound
<1> SUFFICES ASSUME NEW w \in won, NEW x \in won, w[2] = x[2] PROVE w[1] = x[1]
  BY DEF OneWinnerPerRound
<1>1. PICK Q \in SUBSET Node : /\ 2 * Cardinality(Q) > Cardinality(Node)
                               /\ \A p \in Q : <<p, w[2], w[1]>> \in grants
  BY DEF WinsBacked
<1>2. PICK R \in SUBSET Node : /\ 2 * Cardinality(R) > Cardinality(Node)
                               /\ \A p \in R : <<p, x[2], x[1]>> \in grants
  BY DEF WinsBacked
<1>3. Cardinality(Q) \in Nat /\ Cardinality(R) \in Nat /\ Cardinality(Node) \in Nat
  BY NodeAssumption, FS_CardinalityType, FS_Subset
<1>4. Cardinality(Q) + Cardinality(R) > Cardinality(Node)
  BY <1>1, <1>2, <1>3
<1>5. PICK p \in Node : p \in Q /\ p \in R
  BY <1>4, NodeAssumption, FS_MajoritiesIntersect
<1>6. <<p, w[2], w[1]>> \in grants /\ <<p, x[2], x[1]>> \in grants
  BY <1>1, <1>2, <1>5
<1> QED BY <1>6 DEF OneVotePerTerm

\* In a cluster of any size, at most one node wins the vote of a term.
THEOREM RoundsUnique == Spec => []OneWinnerPerRound
<1> DEFINE Inv == VoteInv /\ RoundParts
<1>1. Init => Inv
  BY InitType, InitVotes, InitRounds DEF VoteInv
<1>2. Inv /\ [Next]_vars => Inv'
  BY NextType, NextVotes, NextRounds DEF VoteInv
<1>3. Inv => OneWinnerPerRound
  BY WinnersUnique DEF VoteInv, RoundParts
<1> QED BY <1>1, <1>2, <1>3, PTL DEF Spec

-----------------------------------------------------------------------------
(* Leadership. *)

\* What is known of leaders: what they hold, what is said of them, and when
\* their leadership was won.
LeadParts == LeadersLed /\ LeaderIdLed /\ LedBySuccess

\* Nobody leads initially.
LEMMA InitLeads == Init => LeadParts
  BY DEF Init, LeadParts, LeadersLed, LeaderIdLed, LedBySuccess

\* A step that changes one node's view of the leader at most, and sends no
\* append, keeps what is known of leaders if the new view is right.
LEMMA LeadsKept ==
  ASSUME LeadParts, UNCHANGED <<led, won>>, faults \subseteq faults',
         calls' \cup late' \subseteq calls \cup late,
         NEW d \in Node,
         \A n \in Node \ {d} : UNCHANGED <<term[n], role[n], leaderId[n]>>,
         role'[d] = "leader" => <<d, term'[d]>> \in led,
         leaderId'[d] # Nil => <<leaderId'[d], term'[d]>> \in led
  PROVE  LeadParts'
<1>1. LeadersLed'
  BY DEF LeadParts, LeadersLed
<1>2. LeaderIdLed'
  BY DEF LeadParts, LeaderIdLed
<1>3. LedBySuccess'
  BY DEF LeadParts, LedBySuccess
<1> QED BY <1>1, <1>2, <1>3 DEF LeadParts

\* handle_vote_request reports no leader in a term it has just entered.
LEMMA HandleVoteRequestLeads ==
  ASSUME TypeOK, LeadParts, NEW d \in Node, NEW r \in VoteRequest, HandleVoteRequest(d, r),
         calls' \cup late' \subseteq calls \cup late
  PROVE  LeadParts'
<1>1. /\ term' = [term EXCEPT ![d] = IF r.term > term[d] THEN r.term ELSE @]
      /\ role' = [role EXCEPT ![d] = IF r.term > term[d] THEN "follower" ELSE @]
      /\ leaderId' = [leaderId EXCEPT ![d] = IF r.term > term[d] THEN Nil ELSE leaderId[d]]
      /\ UNCHANGED <<led, won, faults>>
  BY DEF HandleVoteRequest, LeaderAfterVote
<1>2. \A n \in Node \ {d} : UNCHANGED <<term[n], role[n], leaderId[n]>>
  BY <1>1 DEF TypeOK
<1>3. /\ role'[d] = "leader" => <<d, term'[d]>> \in led
      /\ leaderId'[d] # Nil => <<leaderId'[d], term'[d]>> \in led
  <2>1. CASE r.term > term[d]
    BY <1>1, <2>1 DEF TypeOK
  <2>2. CASE ~(r.term > term[d])
    BY <1>1, <2>2 DEF TypeOK, LeadParts, LeadersLed, LeaderIdLed
  <2> QED BY <2>1, <2>2
<1> QED BY <1>1, <1>2, <1>3, LeadsKept

\* handle_append takes its leader from a request a leader of that term sent.
LEMMA HandleAppendLeads ==
  ASSUME TypeOK, LeadParts, NEW d \in Node, NEW r \in AppendRequest, HandleAppend(d, r),
         <<r.from, r.term>> \in led, calls' \cup late' \subseteq calls \cup late
  PROVE  LeadParts'
<1>1. /\ term' = [term EXCEPT ![d] = IF r.term >= term[d] THEN r.term ELSE @]
      /\ role' = [role EXCEPT ![d] = IF r.term >= term[d] THEN "follower" ELSE @]
      /\ leaderId' = [leaderId EXCEPT ![d] = IF r.term >= term[d] THEN r.from ELSE @]
      /\ UNCHANGED <<led, won>> /\ faults \subseteq faults'
  BY DEF HandleAppend
<1>2. \A n \in Node \ {d} : UNCHANGED <<term[n], role[n], leaderId[n]>>
  BY <1>1 DEF TypeOK
<1>3. /\ role'[d] = "leader" => <<d, term'[d]>> \in led
      /\ leaderId'[d] # Nil => <<leaderId'[d], term'[d]>> \in led
  <2>1. CASE r.term >= term[d]
    BY <1>1, <2>1 DEF TypeOK
  <2>2. CASE ~(r.term >= term[d])
    BY <1>1, <2>2 DEF TypeOK, LeadParts, LeadersLed, LeaderIdLed
  <2> QED BY <2>1, <2>2
<1> QED BY <1>1, <1>2, <1>3, LeadsKept

\* Every step keeps what is known of leaders.
LEMMA NextLeads == TypeOK /\ LeadParts /\ [Next]_vars => LeadParts'
<1> SUFFICES ASSUME TypeOK, LeadParts, [Next]_vars PROVE LeadParts'
  OBVIOUS
<1>a. ASSUME UNCHANGED <<term, role, leaderId, led, won, faults>>,
             calls' \cup late' \subseteq calls \cup late
      PROVE  LeadParts'
  BY <1>a DEF LeadParts, LeadersLed, LeaderIdLed, LedBySuccess
<1>1. ASSUME NEW n \in Node, StartElection(n) PROVE LeadParts'
  <2>1. /\ role'[n] = "candidate" /\ leaderId'[n] = Nil
        /\ \A m \in Node \ {n} : UNCHANGED <<term[m], role[m], leaderId[m]>>
        /\ UNCHANGED <<led, won, faults, calls, late>>
    BY <1>1 DEF StartElection, TypeOK, netVars
  <2> QED BY <2>1, LeadsKept
<1>2. ASSUME NEW n \in Node, NEW p \in Node, SendVote(n, p) PROVE LeadParts'
  <2> DEFINE k == [to |-> p, req |-> round[n]]
  <2>1. k.req.kind = "vote"
    BY DEF TypeOK, VoteRequest
  <2>2. calls' = calls \cup {k} /\ late' = late
        /\ UNCHANGED <<term, role, leaderId, led, won, faults>>
    BY <1>2 DEF SendVote, nodeVars, histVars
  <2> HIDE DEF k
  <2> QED BY <2>1, <2>2 DEF LeadParts, LeadersLed, LeaderIdLed, LedBySuccess
<1>3. ASSUME NEW c \in calls, AnswerVote(c) PROVE LeadParts'
  <2>1. c.to \in Node /\ c.req \in VoteRequest
    BY <1>3 DEF AnswerVote, TypeOK, Call, AppendRequest
  <2> QED BY <1>3, <2>1, HandleVoteRequestLeads DEF AnswerVote
<1>4. ASSUME NEW c \in late, AnswerLateVote(c) PROVE LeadParts'
  <2>1. c.to \in Node /\ c.req \in VoteRequest
    BY <1>4 DEF AnswerLateVote, TypeOK, Call, AppendRequest
  <2> QED BY <1>4, <2>1, HandleVoteRequestLeads DEF AnswerLateVote
<1>5. ASSUME NEW a \in replies, RecvVote(a) PROVE LeadParts'
  BY <1>5, <1>a DEF RecvVote, nodeVars, histVars
<1>6. ASSUME NEW n \in Node, FinishElection(n) PROVE LeadParts'
  <2>1. CASE UNCHANGED <<nodeVars, won, led, faults>>
    BY <1>6, <2>1, <1>a DEF FinishElection, nodeVars, netVars
  <2>2. CASE /\ BecomeLeader(n)
             /\ won' = won \cup {<<n, round[n].term>>}
             /\ led' = led \cup {<<n, term[n]>>}
             /\ faults' = IF term[n] = round[n].term THEN faults
                                                     ELSE faults \cup {"late_win"}
    <3>1. /\ term' = term /\ UNCHANGED <<calls, late>>
          /\ role' = [role EXCEPT ![n] = "leader"]
          /\ leaderId' = [leaderId EXCEPT ![n] = n]
      BY <1>6, <2>2 DEF FinishElection, BecomeLeader, netVars
    <3>2. LeadersLed'
      BY <2>2, <3>1 DEF LeadParts, LeadersLed, TypeOK
    <3>3. LeaderIdLed'
      BY <2>2, <3>1 DEF LeadParts, LeaderIdLed, TypeOK
    <3>4. LedBySuccess'
      BY <2>2 DEF LeadParts, LedBySuccess
    <3> QED BY <3>2, <3>3, <3>4 DEF LeadParts
  <2> QED BY <1>6, <2>1, <2>2 DEF FinishElection
<1>7. ASSUME NEW n \in Node, NEW v \in Value, AppendEntry(n, v) PROVE LeadParts'
  BY <1>7, <1>a DEF AppendEntry, netVars, histVars
<1>8. ASSUME NEW n \in Node, NEW p \in Node, SendAppend(n, p) PROVE LeadParts'
  <2> DEFINE k == [to |-> p, req |-> PreparedAppend(n, p)]
  <2>1. k.req.from = n /\ k.req.term = term[n]
    BY DEF PreparedAppend
  <2>2. calls' = calls \cup {k} /\ late' = late
        /\ UNCHANGED <<term, role, leaderId, led, won, faults>>
    BY <1>8 DEF SendAppend, nodeVars, histVars
  <2>3. <<n, term[n]>> \in led
    BY <1>8 DEF SendAppend, LeadParts, LeadersLed
  <2> HIDE DEF k
  <2> QED BY <2>1, <2>2, <2>3 DEF LeadParts, LeadersLed, LeaderIdLed, LedBySuccess
<1>9. ASSUME NEW c \in calls, AnswerAppend(c) PROVE LeadParts'
  <2>1. c.to \in Node /\ c.req \in AppendRequest
    BY <1>9 DEF AnswerAppend, TypeOK, Call, VoteRequest
  <2>2. <<c.req.from, c.req.term>> \in led
    BY <1>9 DEF AnswerAppend, LeadParts, LeadersLed
  <2> QED BY <1>9, <2>1, <2>2, HandleAppendLeads DEF AnswerAppend
<1>10. ASSUME NEW c \in late, AnswerLateAppend(c) PROVE LeadParts'
  <2>1. c.to \in Node /\ c.req \in AppendRequest
    BY <1>10 DEF AnswerLateAppend, TypeOK, Call, VoteRequest
  <2>2. <<c.req.from, c.req.term>> \in led
    BY <1>10 DEF AnswerLateAppend, LeadParts, LeadersLed
  <2> QED BY <1>10, <2>1, <2>2, HandleAppendLeads DEF AnswerLateAppend
<1>11. ASSUME NEW a \in replies, RecvAppend(a) PROVE LeadParts'
  <2>1. a.req.from \in Node
    BY DEF TypeOK, Reply, VoteRequest, AppendRequest
  <2>2. UNCHANGED <<led, won, calls, late>>
    BY <1>11 DEF RecvAppend
  <2>3. CASE StepDown(a.req.from, a.resp)
    <3>1. /\ role'[a.req.from] = "follower" /\ leaderId'[a.req.from] = Nil
          /\ \A m \in Node \ {a.req.from} : UNCHANGED <<term[m], role[m], leaderId[m]>>
          /\ faults' = faults
      BY <2>1, <2>3 DEF StepDown, TypeOK
    <3> QED BY <2>1, <2>2, <3>1, LeadsKept
  <2>4. CASE TakeAck(a.req.from, a.to, a.resp)
    <3>1. UNCHANGED <<term, role, leaderId>> /\ faults \subseteq faults'
      BY <2>4 DEF TakeAck
    <3> QED BY <2>2, <3>1 DEF LeadParts, LeadersLed, LeaderIdLed, LedBySuccess
  <2> QED BY <1>11, <2>3, <2>4 DEF RecvAppend
<1>12. ASSUME NEW c \in calls \cup replies, CallFails(c) PROVE LeadParts'
  BY <1>12, <1>a DEF CallFails, nodeVars, histVars
<1>13. ASSUME NEW c \in calls, CallOutlivesCaller(c) PROVE LeadParts'
  BY <1>13, <1>a DEF CallOutlivesCaller, nodeVars, histVars
<1>14. CASE UNCHANGED vars
  BY <1>14, <1>a DEF vars, nodeVars, netVars, histVars
<1> QED BY <1>1, <1>2, <1>3, <1>4, <1>5, <1>6, <1>7, <1>8, <1>9, <1>10, <1>11,
           <1>12, <1>13, <1>14 DEF Next

\* The whole election invariant is inductive, for every cluster.
THEOREM ElectionInvariant == Spec => []ElectionInv
<1> DEFINE Inv == VoteInv /\ RoundParts /\ LeadParts
<1>1. Init => Inv
  BY InitType, InitVotes, InitRounds, InitLeads DEF VoteInv
<1>2. Inv /\ [Next]_vars => Inv'
  BY NextType, NextVotes, NextRounds, NextLeads DEF VoteInv
<1>3. Inv => ElectionInv
  BY DEF VoteInv, RoundParts, LeadParts, ElectionInv
<1> QED BY <1>1, <1>2, <1>3, PTL DEF Spec

\* A leader a node reports did lead the term that node is in.
THEOREM ReportedLeaderLed == Spec => []LeaderIdLed
<1> DEFINE Inv == TypeOK /\ LeadParts
<1>1. Init => Inv
  BY InitType, InitLeads
<1>2. Inv /\ [Next]_vars => Inv'
  BY NextType, NextLeads
<1>3. Inv => LeaderIdLed
  BY DEF LeadParts
<1> QED BY <1>1, <1>2, <1>3, PTL DEF Spec

\* A term gets two leaders only after become_leader was called in a term
\* the caller was not elected in.
THEOREM SplitNeedsLateWin == Spec => []SplitOnlyByLateWin
<1> DEFINE Inv == VoteInv /\ RoundParts /\ LeadParts
<1>1. Init => Inv
  BY InitType, InitVotes, InitRounds, InitLeads DEF VoteInv
<1>2. Inv /\ [Next]_vars => Inv'
  BY NextType, NextVotes, NextRounds, NextLeads DEF VoteInv
<1>3. Inv => SplitOnlyByLateWin
  <2>1. Inv => OneWinnerPerRound
    BY WinnersUnique DEF VoteInv, RoundParts
  <2> QED BY <2>1 DEF LeadParts, LedBySuccess, OneWinnerPerRound, SplitOnlyByLateWin
<1> QED BY <1>1, <1>2, <1>3, PTL DEF Spec

-----------------------------------------------------------------------------
(* What handle_append makes of a log. *)

\* Log a is the beginning of log b, or all of it.
Begins(a, b) == Len(a) <= Len(b) /\ \A i \in 1..Len(a) : a[i] = b[i]

\* A log as prepare_append and handle_append assume it, at term t.
FormedLog(l, t) ==
  \A i \in 1..Len(l) : /\ l[i].index = i
                       /\ l[i].term <= t
                       /\ i > 1 => l[i - 1].term <= l[i].term

\* An append request that continues a log at its prev_log_index.
FormedRequest(r) ==
  \A j \in 1..Len(r.entries) :
     /\ r.entries[j].index = r.prevLogIndex + j
     /\ r.entries[j].term <= r.term
     /\ j = 1 => r.prevLogTerm <= r.entries[j].term
     /\ j > 1 => r.entries[j - 1].term <= r.entries[j].term

\* The last position a request speaks of.
Reach(r) == r.prevLogIndex + Len(r.entries)

\* Log l keeps its first m entries, and those of the request follow: position
\* m + 1 is the first one where l lacks an entry of the right term.
Replaced(l, r, la, m) ==
  /\ r.prevLogIndex <= m /\ m <= Len(l) /\ m < Reach(r)
  /\ Len(la) = Reach(r)
  /\ \A i \in 1..m : la[i] = l[i]
  /\ \A i \in (m + 1)..Len(la) : la[i] = r.entries[i - r.prevLogIndex]
  /\ \A i \in (r.prevLogIndex + 1)..m : l[i].term = r.entries[i - r.prevLogIndex].term
  /\ m < Len(l) => l[m + 1].term # r.entries[m + 1 - r.prevLogIndex].term

\* Log l has an entry of the right term at every position of the request.
Covers(l, r) ==
  /\ Reach(r) <= Len(l)
  /\ \A i \in (r.prevLogIndex + 1)..Reach(r) : l[i].term = r.entries[i - r.prevLogIndex].term

\* The entries of a log have terms.
LEMMA EntryTerm ==
  ASSUME NEW l \in Seq(Entry), NEW i \in 1..Len(l)
  PROVE  l[i] \in Entry /\ l[i].term \in Nat
<1> DEFINE e == l[i]
<1>1. e \in Entry
  OBVIOUS
<1> HIDE DEF e
<1>2. e.term \in Nat
  BY <1>1 DEF Entry
<1> QED BY <1>1, <1>2 DEF e

\* Truncating a log leaves its beginning.
LEMMA TruncateBegins ==
  ASSUME NEW l \in Seq(Entry), NEW k \in Nat
  PROVE  /\ Begins(Truncate(l, k), l)
         /\ Len(Truncate(l, k)) = Min2(k, Len(l))
<1> DEFINE m == Min2(k, Len(l))
<1>1. m \in Nat /\ m <= Len(l)
  BY DEF Min2
<1>2. \A i \in 1..m : l[i] \in Entry
  BY <1>1
<1> HIDE DEF m
<1>3. Len(SubSeq(l, 1, m)) = m /\ \A i \in 1..m : SubSeq(l, 1, m)[i] = l[i]
  BY <1>1, <1>2, SubSeqProperties
<1> QED BY <1>1, <1>3 DEF Truncate, Begins, m

\* The loop over the entries of an accepted request: nothing is written when
\* the log covers it, and otherwise everything from the first entry on that
\* the log does not have is replaced.
LEMMA MergedFacts ==
  ASSUME NEW l \in Seq(Entry), NEW r \in AppendRequest, FormedRequest(r),
         r.prevLogIndex <= Len(l)
  PROVE  \/ Merged(l, r) = l /\ Covers(l, r)
         \/ \E m \in Nat : Replaced(l, r, Merged(l, r), m)
<1> DEFINE es == r.entries
           p == r.prevLogIndex
<1>1. es \in Seq(Entry) /\ p \in Nat /\ Len(es) \in Nat /\ Len(l) \in Nat
  BY DEF AppendRequest
<1>2. \A j \in 1..Len(es) : es[j].index = p + j
  BY DEF FormedRequest
<1>3. CASE Fresh(l, r) = {}
  <2>1. ASSUME NEW j \in 1..Len(es) PROVE p + j <= Len(l) /\ l[p + j].term = es[j].term
    <3>1. ~(es[j].index > Len(l)) /\ l[es[j].index].term = es[j].term
      BY <1>3 DEF Fresh
    <3>2. es[j].index = p + j
      BY <1>2
    <3> HIDE DEF es, p
    <3> QED BY <1>1, <3>1, <3>2
  <2> HIDE DEF es, p
  <2>2. p + Len(es) <= Len(l)
    <3>1. CASE Len(es) = 0
      BY <1>1, <3>1 DEF p
    <3>2. CASE Len(es) # 0
      BY <1>1, <2>1, <3>2
    <3> QED BY <3>1, <3>2
  <2>3. ASSUME NEW i \in (p + 1)..(p + Len(es)) PROVE l[i].term = es[i - p].term
    <3>1. i - p \in 1..Len(es) /\ p + (i - p) = i
      BY <1>1
    <3> QED BY <3>1, <2>1
  <2>4. Covers(l, r)
    BY <2>2, <2>3 DEF Covers, Reach, es, p
  <2> QED BY <1>3, <2>4 DEF Merged
<1>4. CASE Fresh(l, r) # {}
  <2> DEFINE j == CHOOSE i \in Fresh(l, r) : \A k \in Fresh(l, r) : i <= k
  <2>1. Fresh(l, r) \in SUBSET Nat
    BY DEF Fresh
  <2>2. \E i \in Fresh(l, r) : \A k \in Fresh(l, r) : i <= k
    BY <2>1, <1>4, LeastNatural
  <2>3. j \in Fresh(l, r) /\ \A k \in Fresh(l, r) : j <= k
    BY <2>2
  <2>4. j \in 1..Len(es)
    BY <2>3 DEF Fresh
  <2>5. Merged(l, r) = Truncate(l, es[j].index - 1) \o SubSeq(es, j, Len(es))
    BY <1>4 DEF Merged
  <2> HIDE DEF j
  <2>6. es[j].index = p + j
    BY <1>2, <2>4
  <2>7. ASSUME NEW k \in 1..Len(es), k < j PROVE p + k <= Len(l) /\ l[p + k].term = es[k].term
    <3>1. k \notin Fresh(l, r)
      BY <2>3, <2>4, <2>7
    <3>2. ~(es[k].index > Len(l)) /\ l[es[k].index].term = es[k].term
      BY <3>1 DEF Fresh
    <3>3. es[k].index = p + k
      BY <1>2
    <3> HIDE DEF es, p
    <3> QED BY <1>1, <3>2, <3>3
  <2>p. p <= Len(l)
    OBVIOUS
  <2>q. es[j].index > Len(l) \/ l[es[j].index].term # es[j].term
    BY <2>3 DEF Fresh
  <2> HIDE DEF es, p
  <2> DEFINE m == p + j - 1
  <2>8. m \in Nat /\ p <= m /\ m <= Len(l) /\ m < p + Len(es)
    <3>1. CASE j = 1
      BY <1>1, <2>4, <3>1, <2>p
    <3>2. CASE j # 1
      <4>1. j - 1 \in 1..Len(es) /\ j - 1 < j
        BY <1>1, <2>4, <3>2
      <4>2. p + (j - 1) <= Len(l)
        BY <4>1, <2>7
      <4> QED BY <1>1, <2>4, <4>2
    <3> QED BY <3>1, <3>2
  <2>9. es[j].index - 1 = m
    BY <1>1, <2>4, <2>6
  <2> DEFINE a == Truncate(l, m)
             b == SubSeq(es, j, Len(es))
  <2> HIDE DEF m
  <2>10. Len(a) = m /\ a \in Seq(Entry) /\ \A i \in 1..m : a[i] = l[i]
    <3>1. a \in Seq(Entry) /\ Begins(a, l) /\ Len(a) = Min2(m, Len(l))
      BY <2>8, TruncateType, TruncateBegins
    <3>2. Min2(m, Len(l)) = m
      BY <1>1, <2>8 DEF Min2
    <3> QED BY <3>1, <3>2 DEF Begins
  <2>11. \A i \in j..Len(es) : es[i] \in Entry
    BY <1>1, <2>4
  <2>12. /\ b \in Seq(Entry) /\ Len(b) = Len(es) - j + 1
         /\ \A i \in 1..(Len(es) - j + 1) : b[i] = es[j + i - 1]
    BY <1>1, <2>4, <2>11, SubSeqProperties
  <2>13. Merged(l, r) = a \o b
    BY <2>5, <2>9
  <2> HIDE DEF a, b
  <2>14. /\ Len(a \o b) = Len(a) + Len(b)
         /\ \A i \in 1..(Len(a) + Len(b)) : (a \o b)[i] = IF i <= Len(a) THEN a[i] ELSE b[i - Len(a)]
    BY <2>10, <2>12, ConcatProperties
  <2>15. Len(a \o b) = p + Len(es)
    BY <1>1, <2>4, <2>10, <2>12, <2>14 DEF m
  <2>16. \A i \in 1..m : (a \o b)[i] = l[i]
    BY <1>1, <2>8, <2>10, <2>14, <2>15
  <2>17. ASSUME NEW i \in (m + 1)..(p + Len(es)) PROVE (a \o b)[i] = es[i - p]
    <3>0. /\ Len(a) = p + j - 1 /\ Len(b) = Len(es) - j + 1 /\ p \in Nat /\ j \in Nat
          /\ Len(es) \in Nat /\ i \in Nat /\ p + j <= i /\ i <= p + Len(es)
      BY <1>1, <2>4, <2>8, <2>10, <2>12 DEF m
    <3>1. i \in 1..(Len(a) + Len(b)) /\ ~(i <= Len(a)) /\ i - Len(a) \in 1..(Len(es) - j + 1)
      BY <3>0
    <3>2. j + (i - Len(a)) - 1 = i - p
      BY <1>1, <2>4, <2>10 DEF m
    <3> QED BY <3>1, <3>2, <2>12, <2>14
  <2>18. ASSUME NEW i \in (p + 1)..m PROVE l[i].term = es[i - p].term
    <3>1. i - p \in 1..Len(es) /\ i - p < j /\ p + (i - p) = i
      BY <1>1, <2>4, <2>8 DEF m
    <3> QED BY <3>1, <2>7
  <2>19. m < Len(l) => l[m + 1].term # es[m + 1 - p].term
    <3>1. m + 1 = p + j /\ m + 1 - p = j /\ ~(m < Len(l) /\ p + j > Len(l))
      BY <1>1, <2>4, <2>8 DEF m
    <3> QED BY <2>6, <2>q, <3>1
  <2>20. Replaced(l, r, Merged(l, r), m)
    BY <2>8, <2>13, <2>15, <2>16, <2>17, <2>18, <2>19 DEF Replaced, Reach, es, p
  <2> QED BY <2>8, <2>20
<1> QED BY <1>3, <1>4

\* The log handle_append leaves: the beginning of the old one when the
\* request is refused, and the outcome of the loop when it is not.
LEMMA LogAfterFacts ==
  ASSUME NEW l \in Seq(Entry), NEW r \in AppendRequest, FormedRequest(r)
  PROVE  /\ ~AppendOk(l, r) => Begins(LogAfter(l, r), l)
         /\ AppendOk(l, r) =>
              /\ r.prevLogIndex <= Len(l)
              /\ r.prevLogIndex >= 1 => l[r.prevLogIndex].term = r.prevLogTerm
              /\ \/ LogAfter(l, r) = l /\ Covers(l, r)
                 \/ \E m \in Nat : Replaced(l, r, LogAfter(l, r), m)
<1>1. r.prevLogIndex \in Nat /\ Len(l) \in Nat
  BY DEF AppendRequest
<1>2. ASSUME ~AppendOk(l, r) PROVE Begins(LogAfter(l, r), l)
  <2>1. CASE PrevConflict(l, r)
    <3>1. r.prevLogIndex - 1 \in Nat
      BY <1>1, <2>1 DEF PrevConflict
    <3> QED BY <2>1, <3>1, TruncateBegins DEF LogAfter
  <2>2. CASE ~PrevConflict(l, r)
    BY <1>2, <2>2 DEF LogAfter, Begins
  <2> QED BY <2>1, <2>2
<1>3. ASSUME AppendOk(l, r)
      PROVE  /\ r.prevLogIndex <= Len(l)
             /\ r.prevLogIndex >= 1 => l[r.prevLogIndex].term = r.prevLogTerm
             /\ LogAfter(l, r) = Merged(l, r)
  BY <1>1, <1>3 DEF AppendOk, PrevMissing, PrevConflict, LogAfter
<1>4. AppendOk(l, r) => \/ Merged(l, r) = l /\ Covers(l, r)
                        \/ \E m \in Nat : Replaced(l, r, Merged(l, r), m)
  BY <1>3, MergedFacts
<1> QED BY <1>2, <1>3, <1>4

\* What handle_append leaves of a well-formed log, at the request's term.
LEMMA LogAfterFormed ==
  ASSUME NEW l \in Seq(Entry), NEW r \in AppendRequest, FormedRequest(r),
         NEW t \in Nat, FormedLog(l, t), t <= r.term
  PROVE  FormedLog(LogAfter(l, r), r.term)
<1> DEFINE la == LogAfter(l, r)
           es == r.entries
           p == r.prevLogIndex
<1>1. /\ es \in Seq(Entry) /\ p \in Nat /\ Len(es) \in Nat /\ Len(l) \in Nat
      /\ r.term \in Nat /\ r.prevLogTerm \in Nat
      /\ la \in Seq(Entry) /\ Len(la) \in Nat
  BY LogAfterType DEF AppendRequest
<1>2. \A i \in 1..Len(l) : l[i] \in Entry /\ l[i].term \in Nat
  BY EntryTerm
<1>3. ASSUME Begins(la, l) PROVE FormedLog(la, r.term)
  <2> SUFFICES ASSUME NEW i \in 1..Len(la)
               PROVE  /\ la[i].index = i
                      /\ la[i].term <= r.term
                      /\ i > 1 => la[i - 1].term <= la[i].term
    BY DEF FormedLog
  <2> HIDE DEF la
  <2>1. i \in 1..Len(l) /\ la[i] = l[i] /\ (i > 1 => la[i - 1] = l[i - 1])
    BY <1>1, <1>3 DEF Begins
  <2>2. l[i].index = i /\ l[i].term <= t /\ (i > 1 => l[i - 1].term <= l[i].term)
    BY <2>1 DEF FormedLog
  <2> QED BY <1>1, <1>2, <2>1, <2>2
<1>4. ASSUME p <= Len(l), p >= 1 => l[p].term = r.prevLogTerm,
             NEW m \in Nat, Replaced(l, r, la, m)
      PROVE  FormedLog(la, r.term)
  <2> SUFFICES ASSUME NEW i \in 1..Len(la)
               PROVE  /\ la[i].index = i
                      /\ la[i].term <= r.term
                      /\ i > 1 => la[i - 1].term <= la[i].term
    BY DEF FormedLog
  <2>1. /\ p <= m /\ m <= Len(l) /\ m < p + Len(es) /\ Len(la) = p + Len(es)
        /\ \A k \in 1..m : la[k] = l[k]
        /\ \A k \in (m + 1)..Len(la) : la[k] = es[k - p]
        /\ \A k \in (p + 1)..m : l[k].term = es[k - p].term
    BY <1>4 DEF Replaced, Reach
  <2> HIDE DEF la
  <2>2. CASE i <= m
    <3>1. i \in 1..Len(l) /\ la[i] = l[i] /\ (i > 1 => la[i - 1] = l[i - 1])
      BY <1>1, <2>1, <2>2
    <3>2. l[i].index = i /\ l[i].term <= t /\ (i > 1 => l[i - 1].term <= l[i].term)
      BY <3>1 DEF FormedLog
    <3> QED BY <1>1, <1>2, <3>1, <3>2
  <2>3. CASE i > m
    <3>1. i - p \in 1..Len(es) /\ la[i] = es[i - p] /\ p + (i - p) = i
      <4>1. i \in (m + 1)..Len(la)
        BY <1>1, <2>3
      <4>2. la[i] = es[i - p]
        BY <2>1, <4>1
      <4>3. i - p \in 1..Len(es) /\ p + (i - p) = i
        BY <1>1, <2>1, <2>3
      <4> QED BY <4>2, <4>3
    <3>2. /\ es[i - p].index = p + (i - p) /\ es[i - p].term <= r.term
          /\ i - p = 1 => r.prevLogTerm <= es[i - p].term
          /\ i - p > 1 => es[(i - p) - 1].term <= es[i - p].term
      BY <3>1 DEF FormedRequest
    <3>3. ASSUME i > 1 PROVE la[i - 1].term <= la[i].term
      <4>1. CASE i - p = 1
        <5>1. i - 1 = p /\ p >= 1 /\ i - 1 \in 1..m
          BY <1>1, <2>1, <2>3, <3>3, <4>1
        <5>2. la[i - 1] = l[i - 1] /\ l[p].term = r.prevLogTerm
          BY <1>4, <2>1, <5>1
        <5>3. la[i - 1].term = r.prevLogTerm
          BY <5>1, <5>2
        <5> QED BY <3>1, <3>2, <4>1, <5>3
      <4>2. CASE i - p # 1
        <5>1. i - p > 1 /\ (i - p) - 1 = (i - 1) - p
          BY <1>1, <3>1, <4>2
        <5>2. es[(i - 1) - p].term <= es[i - p].term
          BY <3>2, <5>1
        <5>3. la[i - 1].term = es[(i - 1) - p].term
          <6>1. CASE i - 1 <= m
            <7>1. i - 1 \in 1..m /\ i - 1 \in (p + 1)..m
              BY <1>1, <2>1, <3>1, <5>1, <6>1
            <7> QED BY <2>1, <7>1
          <6>2. CASE i - 1 > m
            <7>1. i - 1 \in (m + 1)..Len(la)
              BY <1>1, <6>2
            <7> QED BY <2>1, <7>1
          <6> QED BY <1>1, <6>1, <6>2
        <5> QED BY <3>1, <5>2, <5>3
      <4> QED BY <4>1, <4>2
    <3> QED BY <3>1, <3>2, <3>3
  <2> QED BY <1>1, <2>2, <2>3
<1>5. CASE ~AppendOk(l, r)
  BY <1>3, <1>5, LogAfterFacts
<1>6. CASE AppendOk(l, r)
  <2>1. p <= Len(l) /\ (p >= 1 => l[p].term = r.prevLogTerm)
    BY <1>6, LogAfterFacts
  <2>2. CASE la = l
    <3>1. Begins(la, l)
      BY <2>2 DEF Begins
    <3> QED BY <1>3, <3>1
  <2>3. CASE \E m \in Nat : Replaced(l, r, la, m)
    BY <1>4, <2>1, <2>3
  <2> QED BY <1>6, <2>2, <2>3, LogAfterFacts
<1> QED BY <1>5, <1>6

-----------------------------------------------------------------------------
(* Logs and requests are well formed. *)

\* What a request says of a log: the term at prev_log_index, and entries.
SliceOf(r, g) ==
  /\ Reach(r) <= Len(g)
  /\ r.prevLogIndex >= 1 => g[r.prevLogIndex].term = r.prevLogTerm
  /\ \A i \in (r.prevLogIndex + 1)..Reach(r) : r.entries[i - r.prevLogIndex] = g[i]

\* prepare_append sends a slice of the leader's log.
LEMMA PreparedSlice ==
  ASSUME TypeOK, LogWellFormed, NEW n \in Node, NEW p \in Node, HasPrev(n, p)
  PROVE  SliceOf(PreparedAppend(n, p), log[n])
<1> DEFINE next == nextIndex[n][p]
           last == Min2(Len(log[n]), next + BatchSize - 1)
           r == PreparedAppend(n, p)
<1>1. next \in Nat \ {0} /\ log[n] \in Seq(Entry) /\ Len(log[n]) \in Nat
  BY DEF TypeOK
<1>2. next - 1 <= Len(log[n])
  BY DEF HasPrev
<1>3. last \in Int /\ last <= Len(log[n])
  BY <1>1, BatchAssumption DEF Min2
<1>4. r.entries = SubSeq(log[n], next, last)
  BY DEF PreparedAppend
<1>5. /\ r.prevLogIndex = IF next > 1 THEN log[n][next - 1].index ELSE 0
      /\ r.prevLogTerm = IF next > 1 THEN log[n][next - 1].term ELSE 0
  BY DEF PreparedAppend
<1> HIDE DEF next, last, r
<1>6. r.prevLogIndex = next - 1 /\ (next > 1 => log[n][next - 1].term = r.prevLogTerm)
  <2>1. CASE next > 1
    <3>1. next - 1 \in 1..Len(log[n])
      BY <1>1, <1>2, <2>1
    <3>2. log[n][next - 1].index = next - 1
      BY <3>1 DEF LogWellFormed
    <3> QED BY <1>5, <2>1, <3>2
  <2>2. CASE ~(next > 1)
    BY <1>1, <1>5, <2>2
  <2> QED BY <2>1, <2>2
<1>7. \A i \in next..last : log[n][i] \in Entry
  BY <1>1, <1>3
<1>8. /\ Len(r.entries) = IF next <= last THEN last - next + 1 ELSE 0
      /\ \A i \in 1..(last - next + 1) : r.entries[i] = log[n][next + i - 1]
  BY <1>1, <1>3, <1>4, <1>7, SubSeqProperties
<1>9. Reach(r) <= Len(log[n])
  BY <1>1, <1>2, <1>3, <1>6, <1>8 DEF Reach
<1>10. ASSUME NEW i \in (r.prevLogIndex + 1)..Reach(r)
       PROVE  r.entries[i - r.prevLogIndex] = log[n][i]
  <2>1. i - r.prevLogIndex \in 1..(last - next + 1)
    BY <1>1, <1>3, <1>6, <1>8 DEF Reach
  <2>2. next + (i - r.prevLogIndex) - 1 = i
    BY <1>1, <1>6
  <2> QED BY <1>8, <2>1, <2>2
<1>11. r.prevLogIndex >= 1 => log[n][r.prevLogIndex].term = r.prevLogTerm
  BY <1>1, <1>6
<1>12. SliceOf(r, log[n])
  BY <1>9, <1>10, <1>11 DEF SliceOf
<1> QED BY <1>12 DEF r

\* A request of prepare_append is well formed.
LEMMA PreparedFormed ==
  ASSUME TypeOK, LogWellFormed, NEW n \in Node, NEW p \in Node, HasPrev(n, p)
  PROVE  FormedRequest(PreparedAppend(n, p))
<1> DEFINE r == PreparedAppend(n, p)
<1>1. r \in AppendRequest /\ SliceOf(r, log[n])
  BY PreparedAppendType, PreparedSlice
<1>2. r.term = term[n] /\ (nextIndex[n][p] <= 1 => r.prevLogTerm = 0 /\ r.prevLogIndex = 0)
  BY DEF PreparedAppend, TypeOK
<1>3. log[n] \in Seq(Entry) /\ nextIndex[n][p] \in Nat
  BY DEF TypeOK
<1>4. r.prevLogIndex = 0 => r.prevLogTerm = 0
  <2>1. CASE nextIndex[n][p] > 1
    <3>1. nextIndex[n][p] - 1 \in 1..Len(log[n])
      BY <1>3, <2>1 DEF HasPrev
    <3>2. log[n][nextIndex[n][p] - 1].index = nextIndex[n][p] - 1
      BY <3>1 DEF LogWellFormed
    <3>3. r.prevLogIndex = nextIndex[n][p] - 1
      BY <2>1, <3>2 DEF PreparedAppend
    <3> QED BY <1>3, <2>1, <3>3
  <2> QED BY <1>2, <1>3, <2>1
<1> HIDE DEF r
<1> DEFINE q == r.prevLogIndex
<1>5. q \in Nat /\ Len(r.entries) \in Nat /\ r.prevLogTerm \in Nat
  BY <1>1 DEF AppendRequest
<1>6. \A i \in 1..Len(log[n]) : log[n][i].term \in Nat
  BY <1>3, EntryTerm
<1>7. ASSUME NEW j \in 1..Len(r.entries)
      PROVE  /\ r.entries[j].index = q + j
             /\ r.entries[j].term <= r.term
             /\ j = 1 => r.prevLogTerm <= r.entries[j].term
             /\ j > 1 => r.entries[j - 1].term <= r.entries[j].term
  <2>0. /\ \A i \in (q + 1)..(q + Len(r.entries)) : r.entries[i - q] = log[n][i]
        /\ q + Len(r.entries) <= Len(log[n])
        /\ q >= 1 => log[n][q].term = r.prevLogTerm
    BY <1>1 DEF SliceOf, Reach
  <2> HIDE DEF q
  <2>1. ASSUME NEW k \in 1..Len(r.entries)
        PROVE  r.entries[k] = log[n][q + k] /\ q + k \in 1..Len(log[n])
    <3>1. q + k \in (q + 1)..(q + Len(r.entries)) /\ (q + k) - q = k
      BY <1>5
    <3> QED BY <1>3, <1>5, <2>0, <3>1
  <2>2. /\ log[n][q + j].index = q + j /\ log[n][q + j].term <= term[n]
        /\ q + j > 1 => log[n][(q + j) - 1].term <= log[n][q + j].term
    BY <2>1 DEF LogWellFormed
  <2>3. ASSUME j > 1 PROVE r.entries[j - 1].term <= r.entries[j].term
    <3>1. j - 1 \in 1..Len(r.entries) /\ q + (j - 1) = (q + j) - 1 /\ q + j > 1
      BY <1>5, <2>3
    <3> QED BY <2>1, <2>2, <3>1
  <2>4. ASSUME j = 1 PROVE r.prevLogTerm <= r.entries[j].term
    <3>1. CASE q = 0
      BY <1>4, <1>6, <2>1, <2>4, <3>1 DEF q
    <3>2. CASE q # 0
      <4>1. q + 1 > 1 /\ (q + 1) - 1 = q /\ q >= 1
        BY <1>5, <3>2
      <4>2. log[n][(q + 1) - 1].term <= log[n][q + 1].term
        BY <2>1, <2>4, <4>1 DEF LogWellFormed
      <4> QED BY <2>0, <2>1, <2>4, <4>1, <4>2
    <3> QED BY <3>1, <3>2
  <2> QED BY <1>2, <2>1, <2>2, <2>3, <2>4
<1> QED BY <1>7 DEF FormedRequest, r

-----------------------------------------------------------------------------
(* The steps that logs, append requests and leaderships see. *)

\* A step that writes no log, sends no append and makes no leader.
QuietStep ==
  /\ log' = log
  /\ \A c \in calls' \cup late' : c.req.kind = "append" => c \in calls \cup late
  /\ led \subseteq led' /\ faults \subseteq faults'
  /\ \A n \in Node : /\ term[n] <= term'[n]
                     /\ role'[n] = "leader" => role[n] = "leader" /\ term'[n] = term[n]

\* Node n wins its round.
WinStep(n) ==
  /\ FinishElection(n) /\ BecomeLeader(n)
  /\ won' = won \cup {<<n, round[n].term>>}
  /\ led' = led \cup {<<n, term[n]>>}
  /\ faults' = IF term[n] = round[n].term THEN faults ELSE faults \cup {"late_win"}

\* Some node handles append request c.req.
TakeStep(c) ==
  /\ c \in calls \cup late /\ c.to \in Node /\ c.req \in AppendRequest
  /\ c.req.kind = "append"
  /\ HandleAppend(c.to, c.req)
  /\ calls' \cup late' \subseteq calls \cup late

\* handle_vote_request writes no log and makes no leader.
LEMMA HandleVoteRequestQuiet ==
  ASSUME TypeOK, NEW d \in Node, NEW r \in VoteRequest, HandleVoteRequest(d, r),
         calls' \cup late' \subseteq calls \cup late
  PROVE  QuietStep
<1>1. r.term \in Nat /\ term \in [Node -> Nat] /\ role \in [Node -> Role]
  BY DEF VoteRequest, TypeOK
<1>2. /\ term' = [term EXCEPT ![d] = IF r.term > term[d] THEN r.term ELSE @]
      /\ role' = [role EXCEPT ![d] = IF r.term > term[d] THEN "follower" ELSE @]
      /\ UNCHANGED <<log, led, faults>>
  BY DEF HandleVoteRequest
<1>3. \A n \in Node : /\ term[n] <= term'[n]
                      /\ role'[n] = "leader" => role[n] = "leader" /\ term'[n] = term[n]
  BY <1>1, <1>2
<1> QED BY <1>2, <1>3 DEF QuietStep

\* Every step is one of five for the logs.
LEMMA LogSteps ==
  ASSUME TypeOK, [Next]_vars
  PROVE  \/ QuietStep
         \/ \E n \in Node : WinStep(n)
         \/ \E n \in Node : \E v \in Value : AppendEntry(n, v)
         \/ \E n \in Node : \E p \in Node : SendAppend(n, p)
         \/ \E c \in calls \cup late : TakeStep(c)
<1>0. /\ term \in [Node -> Nat] /\ role \in [Node -> Role]
      /\ \A n \in Node : term[n] <= term[n]
  BY DEF TypeOK
<1>a. ASSUME UNCHANGED <<term, role, log, led>>, faults \subseteq faults',
             calls' \cup late' \subseteq calls \cup late
      PROVE  QuietStep
  BY <1>0, <1>a DEF QuietStep
<1>1. ASSUME NEW n \in Node, StartElection(n) PROVE QuietStep
  <2>1. /\ term' = [term EXCEPT ![n] = @ + 1] /\ role' = [role EXCEPT ![n] = "candidate"]
        /\ UNCHANGED <<log, led, faults, calls, late>>
    BY <1>1 DEF StartElection, netVars
  <2>2. \A m \in Node : /\ term[m] <= term'[m]
                        /\ role'[m] = "leader" => role[m] = "leader" /\ term'[m] = term[m]
    BY <1>0, <2>1
  <2> QED BY <2>1, <2>2 DEF QuietStep
<1>2. ASSUME NEW n \in Node, NEW p \in Node, SendVote(n, p) PROVE QuietStep
  <2> DEFINE k == [to |-> p, req |-> round[n]]
  <2>1. k.req.kind # "append"
    BY DEF TypeOK, VoteRequest
  <2>2. calls' = calls \cup {k} /\ UNCHANGED <<term, role, log, led, faults, late>>
    BY <1>2 DEF SendVote, nodeVars, histVars
  <2> HIDE DEF k
  <2> QED BY <1>0, <2>1, <2>2 DEF QuietStep
<1>3. ASSUME NEW c \in calls, AnswerVote(c) PROVE QuietStep
  <2>1. c.to \in Node /\ c.req \in VoteRequest
    BY <1>3 DEF AnswerVote, TypeOK, Call, AppendRequest
  <2> QED BY <1>3, <2>1, HandleVoteRequestQuiet DEF AnswerVote
<1>4. ASSUME NEW c \in late, AnswerLateVote(c) PROVE QuietStep
  <2>1. c.to \in Node /\ c.req \in VoteRequest
    BY <1>4 DEF AnswerLateVote, TypeOK, Call, AppendRequest
  <2> QED BY <1>4, <2>1, HandleVoteRequestQuiet DEF AnswerLateVote
<1>5. ASSUME NEW a \in replies, RecvVote(a) PROVE QuietStep
  BY <1>5, <1>a DEF RecvVote, nodeVars, histVars
<1>6. ASSUME NEW n \in Node, FinishElection(n) PROVE QuietStep \/ WinStep(n)
  <2>1. CASE UNCHANGED <<nodeVars, won, led, faults>>
    BY <1>6, <2>1, <1>a DEF FinishElection, nodeVars, netVars
  <2> QED BY <1>6, <2>1 DEF FinishElection, WinStep
<1>9. ASSUME NEW c \in calls, AnswerAppend(c) PROVE TakeStep(c)
  <2>1. c.to \in Node /\ c.req \in AppendRequest
    BY <1>9 DEF AnswerAppend, TypeOK, Call, VoteRequest
  <2> QED BY <1>9, <2>1 DEF AnswerAppend, TakeStep
<1>10. ASSUME NEW c \in late, AnswerLateAppend(c) PROVE TakeStep(c)
  <2>1. c.to \in Node /\ c.req \in AppendRequest
    BY <1>10 DEF AnswerLateAppend, TypeOK, Call, VoteRequest
  <2> QED BY <1>10, <2>1 DEF AnswerLateAppend, TakeStep
<1>11. ASSUME NEW a \in replies, RecvAppend(a) PROVE QuietStep
  <2>1. a.req.from \in Node /\ a.resp.term \in Nat
    BY DEF TypeOK, Reply, VoteRequest, AppendRequest, Response
  <2>2. UNCHANGED <<led, log, calls, late>>
    BY <1>11 DEF RecvAppend
  <2>3. CASE StepDown(a.req.from, a.resp)
    <3>1. /\ term' = [term EXCEPT ![a.req.from] = a.resp.term]
          /\ role' = [role EXCEPT ![a.req.from] = "follower"]
          /\ a.resp.term > term[a.req.from] /\ faults' = faults
      BY <2>3 DEF StepDown
    <3>2. \A m \in Node : /\ term[m] <= term'[m]
                          /\ role'[m] = "leader" => role[m] = "leader" /\ term'[m] = term[m]
      BY <1>0, <2>1, <3>1
    <3> QED BY <2>2, <3>1, <3>2 DEF QuietStep
  <2>4. CASE TakeAck(a.req.from, a.to, a.resp)
    <3>1. UNCHANGED <<term, role>> /\ faults \subseteq faults'
      BY <2>4 DEF TakeAck
    <3> QED BY <2>2, <3>1, <1>a
  <2> QED BY <1>11, <2>3, <2>4 DEF RecvAppend
<1>12. ASSUME NEW c \in calls \cup replies, CallFails(c) PROVE QuietStep
  BY <1>12, <1>a DEF CallFails, nodeVars, histVars
<1>13. ASSUME NEW c \in calls, CallOutlivesCaller(c) PROVE QuietStep
  BY <1>13, <1>a DEF CallOutlivesCaller, nodeVars, histVars
<1>14. CASE UNCHANGED vars
  BY <1>14, <1>a DEF vars, nodeVars, netVars, histVars
<1> QED BY <1>1, <1>2, <1>3, <1>4, <1>5, <1>6, <1>9, <1>10, <1>11,
           <1>12, <1>13, <1>14 DEF Next

\* What is known of logs and append requests, whatever hazards were met.
RequestsFormed ==
  \A c \in calls \cup late : c.req.kind = "append" => FormedRequest(c.req)

\* Every step keeps logs and requests well formed.
LEMMA NextFormed ==
  ASSUME TypeOK, LogWellFormed, RequestsFormed, [Next]_vars
  PROVE  LogWellFormed' /\ RequestsFormed'
<1>0. /\ term \in [Node -> Nat] /\ log \in [Node -> Seq(Entry)]
      /\ \A n \in Node : FormedLog(log[n], term[n])
  BY DEF TypeOK, LogWellFormed, FormedLog
<1>a. ASSUME NEW l \in Seq(Entry), NEW t \in Nat, NEW u \in Nat, t <= u, FormedLog(l, t)
      PROVE  FormedLog(l, u)
  <2>1. \A i \in 1..Len(l) : l[i].term \in Nat
    BY EntryTerm
  <2> QED BY <1>a, <2>1 DEF FormedLog
<1>b. ASSUME \A n \in Node : FormedLog(log'[n], term'[n]) PROVE LogWellFormed'
  BY <1>b DEF LogWellFormed, FormedLog
<1>t. TypeOK'
  BY NextType
<1>1. CASE QuietStep
  <2>1. RequestsFormed'
    BY <1>1 DEF QuietStep, RequestsFormed
  <2>2. term' \in [Node -> Nat]
    BY <1>t DEF TypeOK
  <2>3. \A n \in Node : FormedLog(log'[n], term'[n])
    BY <1>0, <1>1, <1>a, <2>2 DEF QuietStep
  <2> QED BY <1>b, <2>1, <2>3
<1>2. ASSUME NEW n \in Node, WinStep(n) PROVE LogWellFormed' /\ RequestsFormed'
  BY <1>2 DEF WinStep, FinishElection, BecomeLeader, netVars, LogWellFormed, RequestsFormed
<1>3. ASSUME NEW n \in Node, NEW v \in Value, AppendEntry(n, v)
      PROVE  LogWellFormed' /\ RequestsFormed'
  <2> DEFINE e == [index |-> Len(log[n]) + 1, term |-> term[n], data |-> v]
             l == Append(log[n], e)
  <2>1. e \in Entry /\ e.index = Len(log[n]) + 1 /\ e.term = term[n]
    BY <1>0 DEF Entry
  <2>2. log' = [log EXCEPT ![n] = l] /\ UNCHANGED <<term, calls, late>>
    BY <1>3 DEF AppendEntry, netVars
  <2> HIDE DEF e
  <2>3. /\ Len(l) = Len(log[n]) + 1 /\ l[Len(log[n]) + 1] = e
        /\ \A i \in 1..Len(log[n]) : l[i] = log[n][i]
    BY <1>0, <2>1, AppendProperties
  <2> HIDE DEF l
  <2>4. ASSUME NEW i \in 1..Len(l)
        PROVE  l[i].index = i /\ l[i].term <= term[n] /\ (i > 1 => l[i - 1].term <= l[i].term)
    <3>1. CASE i \in 1..Len(log[n])
      <4>1. l[i] = log[n][i] /\ (i > 1 => l[i - 1] = log[n][i - 1])
        BY <1>0, <2>3, <3>1
      <4> QED BY <1>0, <3>1, <4>1 DEF FormedLog
    <3>2. CASE i = Len(log[n]) + 1
      <4>1. ASSUME i > 1 PROVE l[i - 1].term <= term[n]
        <5>1. i - 1 \in 1..Len(log[n])
          BY <1>0, <3>2, <4>1
        <5> QED BY <1>0, <2>3, <5>1 DEF FormedLog
      <4> QED BY <1>0, <2>1, <2>3, <3>2, <4>1
    <3> QED BY <1>0, <2>3, <3>1, <3>2
  <2>5. FormedLog(l, term[n])
    BY <2>4 DEF FormedLog
  <2>6. \A m \in Node : FormedLog(log'[m], term'[m])
    BY <1>0, <2>2, <2>5
  <2>7. RequestsFormed'
    BY <2>2 DEF RequestsFormed
  <2> QED BY <1>b, <2>6, <2>7
<1>4. ASSUME NEW n \in Node, NEW p \in Node, SendAppend(n, p)
      PROVE  LogWellFormed' /\ RequestsFormed'
  <2> DEFINE k == [to |-> p, req |-> PreparedAppend(n, p)]
  <2>1. FormedRequest(k.req)
    BY <1>4, PreparedFormed DEF SendAppend
  <2>2. calls' = calls \cup {k} /\ UNCHANGED <<late, log, term>>
    BY <1>4 DEF SendAppend, nodeVars
  <2> HIDE DEF k
  <2> QED BY <2>1, <2>2 DEF LogWellFormed, RequestsFormed
<1>5. ASSUME NEW c \in calls \cup late, TakeStep(c) PROVE LogWellFormed' /\ RequestsFormed'
  <2> DEFINE d == c.to
             r == c.req
             l == LogAfter(log[d], r)
  <2>1. /\ d \in Node /\ r \in AppendRequest /\ r.kind = "append" /\ HandleAppend(d, r)
        /\ calls' \cup late' \subseteq calls \cup late
    BY <1>5 DEF TakeStep
  <2>2. FormedRequest(r) /\ r.term \in Nat
    BY <1>5, <2>1 DEF RequestsFormed, AppendRequest
  <2> HIDE DEF d, r
  <2>3. /\ term' = [term EXCEPT ![d] = IF r.term >= term[d] THEN r.term ELSE @]
        /\ log' = [log EXCEPT ![d] = IF r.term >= term[d] THEN l ELSE @]
    BY <2>1 DEF HandleAppend
  <2>4. ASSUME r.term >= term[d] PROVE FormedLog(l, r.term)
    BY <1>0, <2>1, <2>2, <2>4, LogAfterFormed
  <2> HIDE DEF l
  <2>5. \A m \in Node : FormedLog(log'[m], term'[m])
    <3>1. CASE r.term >= term[d]
      BY <1>0, <2>1, <2>3, <2>4, <3>1
    <3>2. CASE ~(r.term >= term[d])
      BY <1>0, <2>1, <2>3, <3>2
    <3> QED BY <3>1, <3>2
  <2>6. RequestsFormed'
    BY <2>1 DEF RequestsFormed
  <2> QED BY <1>b, <2>5, <2>6
<1> QED BY <1>1, <1>2, <1>3, <1>4, <1>5, LogSteps

-----------------------------------------------------------------------------
(* Terms and rounds. *)

\* No step takes a node back to an earlier term.
LEMMA NextTerms ==
  ASSUME TypeOK, [Next]_vars, NEW n \in Node
  PROVE  term[n] <= term'[n]
<1>0. term \in [Node -> Nat]
  BY DEF TypeOK
<1>1. CASE QuietStep
  BY <1>1 DEF QuietStep
<1>2. CASE term' = term
  BY <1>0, <1>2
<1>3. ASSUME NEW c \in calls \cup late, TakeStep(c) PROVE term[n] <= term'[n]
  <2> DEFINE d == c.to
             t == c.req.term
  <2>1. d \in Node /\ t \in Nat
    BY <1>3 DEF TakeStep, AppendRequest
  <2>2. term' = [term EXCEPT ![d] = IF t >= term[d] THEN t ELSE @]
    BY <1>3 DEF TakeStep, HandleAppend
  <2> HIDE DEF d, t
  <2> QED BY <1>0, <2>1, <2>2
<1>4. term' = term \/ QuietStep \/ \E c \in calls \cup late : TakeStep(c)
  BY LogSteps DEF WinStep, BecomeLeader, AppendEntry, SendAppend, nodeVars
<1> QED BY <1>1, <1>2, <1>3, <1>4

\* Only the two ends of an election branch touch rounds.
LEMMA RoundSteps ==
  ASSUME [Next]_vars
  PROVE  \/ UNCHANGED <<electing, round, won>>
         \/ \E n \in Node : StartElection(n) \/ FinishElection(n)
BY DEF Next, vars, SendVote, AnswerVote, AnswerLateVote, HandleVoteRequest, RecvVote,
       AppendEntry, SendAppend, AnswerAppend, AnswerLateAppend, HandleAppend, RecvAppend,
       CallFails, CallOutlivesCaller, driverVars, histVars

\* The rounds a node has won are of terms it has reached, and older than the
\* round its loop is in.
WinsPast ==
  /\ \A w \in won : /\ w[2] <= term[w[1]]
                    /\ electing[w[1]] => w[2] < round[w[1]].term
  /\ \A n \in Node : electing[n] => round[n].term <= term[n]

\* Every step keeps the rounds in the order of their terms.
LEMMA NextWins ==
  ASSUME TypeOK, WinsPast, [Next]_vars
  PROVE  WinsPast'
<1>0. /\ term \in [Node -> Nat] /\ electing \in [Node -> BOOLEAN]
      /\ round \in [Node -> VoteRequest] /\ won \subseteq Node \X Nat
  BY DEF TypeOK
<1>1. /\ \A w \in won : w[1] \in Node /\ w[2] \in Nat
      /\ \A n \in Node : term[n] \in Nat /\ term'[n] \in Nat /\ round[n].term \in Nat
  <2>1. \A r \in VoteRequest : r.term \in Nat
    BY DEF VoteRequest
  <2>2. term' \in [Node -> Nat]
    BY NextType DEF TypeOK
  <2> QED BY <1>0, <2>1, <2>2
<1>2. \A n \in Node : term[n] <= term'[n]
  BY NextTerms
<1>3. \A w \in won : w[2] <= term'[w[1]]
  BY <1>1, <1>2 DEF WinsPast
<1>4. CASE UNCHANGED <<electing, round, won>>
  BY <1>1, <1>2, <1>3, <1>4 DEF WinsPast
<1>5. ASSUME NEW n \in Node, StartElection(n) PROVE WinsPast'
  <2>1. /\ round' = [round EXCEPT ![n] =
              [kind |-> "vote", from |-> n, term |-> term[n] + 1,
               lastLogIndex |-> LastIndex(log[n]), lastLogTerm |-> LastTerm(log[n])]]
        /\ term' = [term EXCEPT ![n] = @ + 1] /\ won' = won
        /\ electing' = [electing EXCEPT ![n] = TRUE]
    BY <1>5 DEF StartElection
  <2>2. /\ round'[n].term = term[n] + 1 /\ term'[n] = term[n] + 1
        /\ \A m \in Node \ {n} : round'[m] = round[m] /\ electing'[m] = electing[m]
    BY <1>0, <2>1
  <2>3. ASSUME NEW w \in won, electing'[w[1]] PROVE w[2] < round'[w[1]].term
    <3>1. CASE w[1] = n
      BY <1>1, <2>2, <3>1 DEF WinsPast
    <3>2. CASE w[1] # n
      BY <1>1, <2>2, <2>3, <3>2 DEF WinsPast
    <3> QED BY <3>1, <3>2
  <2>4. ASSUME NEW m \in Node, electing'[m] PROVE round'[m].term <= term'[m]
    <3>1. CASE m = n
      BY <1>1, <2>2, <3>1
    <3>2. CASE m # n
      BY <1>1, <1>2, <2>2, <2>4, <3>2 DEF WinsPast
    <3> QED BY <3>1, <3>2
  <2> QED BY <1>3, <2>1, <2>3, <2>4 DEF WinsPast
<1>6. ASSUME NEW n \in Node, FinishElection(n) PROVE WinsPast'
  <2>1. /\ electing[n] /\ electing' = [electing EXCEPT ![n] = FALSE]
        /\ round' = [round EXCEPT ![n] = NoRound(n)]
        /\ won' = won \/ won' = won \cup {<<n, round[n].term>>}
    BY <1>6 DEF FinishElection
  <2>2. /\ ~electing'[n]
        /\ \A m \in Node \ {n} : round'[m] = round[m] /\ electing'[m] = electing[m]
    BY <1>0, <2>1
  <2>3. round[n].term <= term'[n]
    BY <1>1, <1>2, <2>1 DEF WinsPast
  <2>4. ASSUME NEW w \in won'
        PROVE  w[2] <= term'[w[1]] /\ (electing'[w[1]] => w[2] < round'[w[1]].term)
    <3>1. CASE w = <<n, round[n].term>>
      BY <2>2, <2>3, <3>1
    <3>2. CASE w \in won
      BY <1>1, <1>3, <2>2, <3>2 DEF WinsPast
    <3> QED BY <2>1, <3>1, <3>2
  <2>5. ASSUME NEW m \in Node, electing'[m] PROVE round'[m].term <= term'[m]
    BY <1>1, <1>2, <2>2, <2>5 DEF WinsPast
  <2> QED BY <2>4, <2>5 DEF WinsPast
<1> QED BY <1>4, <1>5, <1>6, RoundSteps

-----------------------------------------------------------------------------
(* Log matching. *)

\* Two logs with the same term at a position agree up to it.
Agree(g, h) ==
  \A i \in 1..Min2(Len(g), Len(h)) :
     g[i].term = h[i].term => \A k \in 1..i : g[k] = h[k]

\* G holds the logs leaders have written: every log is the beginning of one,
\* every append request a slice of one, and their entries come from leaders,
\* each of which has in its own log what was written in its term.
History(G) ==
  /\ \A g, h \in G : Agree(g, h)
  /\ \A n \in Node : \E g \in G : Begins(log[n], g)
  /\ \A c \in calls \cup late : c.req.kind = "append" => \E g \in G : SliceOf(c.req, g)
  /\ \A g \in G : \A i \in 1..Len(g) : \E m \in Node : <<m, g[i].term>> \in led
  /\ \A n \in Node : role[n] = "leader" =>
        \A g \in G : \A i \in 1..Len(g) : g[i].term = term[n] => i <= Len(log[n])

OneHistory == "late_win" \notin faults => \E G \in SUBSET Seq(Entry) : History(G)

\* What begins a beginning begins the whole.
LEMMA BeginsTransitive ==
  ASSUME NEW a \in Seq(Entry), NEW b \in Seq(Entry), NEW g \in Seq(Entry),
         Begins(a, b), Begins(b, g)
  PROVE  Begins(a, g)
BY DEF Begins

\* A slice of a beginning is a slice of the whole.
LEMMA SliceOfWhole ==
  ASSUME NEW b \in Seq(Entry), NEW g \in Seq(Entry), NEW r \in AppendRequest,
         SliceOf(r, b), Begins(b, g)
  PROVE  SliceOf(r, g)
<1>1. r.prevLogIndex \in Nat /\ Len(r.entries) \in Nat
  BY DEF AppendRequest
<1>2. r.prevLogIndex <= Reach(r) /\ Reach(r) \in Nat
  BY <1>1 DEF Reach
<1> QED BY <1>1, <1>2 DEF SliceOf, Begins

\* handle_append leaves the beginning of a log of the history: of the one the
\* node's log began, or of the one the request is a slice of.
LEMMA LogAfterBegins ==
  ASSUME NEW l \in Seq(Entry), NEW r \in AppendRequest, FormedRequest(r),
         NEW g \in Seq(Entry), Begins(l, g),
         NEW h \in Seq(Entry), SliceOf(r, h), Agree(g, h)
  PROVE  Begins(LogAfter(l, r), g) \/ Begins(LogAfter(l, r), h)
<1> DEFINE la == LogAfter(l, r)
           p == r.prevLogIndex
           es == r.entries
<1>1. p \in Nat /\ es \in Seq(Entry) /\ Len(es) \in Nat /\ la \in Seq(Entry)
  BY LogAfterType DEF AppendRequest
<1>2. CASE Begins(la, l)
  BY <1>1, <1>2, BeginsTransitive
<1>3. ASSUME p >= 1 => l[p].term = r.prevLogTerm, NEW m \in Nat, Replaced(l, r, la, m)
      PROVE  Begins(la, h)
  <2>1. /\ p <= m /\ m <= Len(l) /\ m < p + Len(es) /\ Len(la) = p + Len(es)
        /\ \A i \in 1..m : la[i] = l[i]
        /\ \A i \in (m + 1)..Len(la) : la[i] = es[i - p]
        /\ \A i \in (p + 1)..m : l[i].term = es[i - p].term
    BY <1>3 DEF Replaced, Reach
  <2>2. /\ p + Len(es) <= Len(h)
        /\ p >= 1 => h[p].term = r.prevLogTerm
        /\ \A i \in (p + 1)..(p + Len(es)) : es[i - p] = h[i]
    BY DEF SliceOf, Reach
  <2>3. Len(l) <= Len(g) /\ \A i \in 1..Len(l) : l[i] = g[i]
    BY DEF Begins
  <2> HIDE DEF la, p, es
  <2>4. \A i \in (m + 1)..Len(la) : la[i] = h[i]
    BY <1>1, <2>1, <2>2
  <2>5. \A i \in 1..m : la[i] = h[i]
    <3>1. CASE m = 0
      BY <3>1
    <3>2. CASE m # 0
      <4>1. m \in 1..Len(l) /\ m \in 1..Min2(Len(g), Len(h)) /\ Len(g) \in Nat /\ Len(h) \in Nat
        BY <1>1, <2>1, <2>2, <2>3, <3>2 DEF Min2
      <4>2. l[m].term = h[m].term
        <5>1. CASE m = p
          BY <1>3, <2>2, <3>2, <5>1 DEF p
        <5>2. CASE m # p
          <6>1. m \in (p + 1)..m /\ m \in (p + 1)..(p + Len(es))
            BY <1>1, <2>1, <5>2
          <6> QED BY <2>1, <2>2, <6>1
        <5> QED BY <5>1, <5>2
      <4>3. \A k \in 1..m : g[k] = h[k]
        BY <2>3, <4>1, <4>2 DEF Agree
      <4>4. ASSUME NEW i \in 1..m PROVE la[i] = h[i]
        <5>1. la[i] = l[i] /\ g[i] = h[i]
          BY <2>1, <4>3
        <5>2. i \in 1..Len(l)
          BY <2>1, <4>1
        <5> QED BY <2>3, <5>1, <5>2
      <4> QED BY <4>4
    <3> QED BY <3>1, <3>2
  <2>6. Len(la) \in Nat /\ Len(la) <= Len(h)
    BY <1>1, <2>1, <2>2
  <2> QED BY <1>1, <2>1, <2>4, <2>5, <2>6 DEF Begins
<1>4. CASE ~AppendOk(l, r)
  BY <1>2, <1>4, LogAfterFacts
<1>5. CASE AppendOk(l, r)
  <2>1. CASE la = l
    BY <1>2, <2>1 DEF Begins
  <2>2. CASE \E m \in Nat : Replaced(l, r, la, m)
    BY <1>3, <1>5, <2>2, LogAfterFacts
  <2> QED BY <1>5, <2>1, <2>2, LogAfterFacts
<1> QED BY <1>4, <1>5

\* The invariant of the logs, elections included.
LogInv ==
  /\ VoteInv /\ RoundParts /\ LeadParts
  /\ LogWellFormed /\ RequestsFormed
  /\ WinsPast /\ OneHistory

\* Without a late win, two leaderships of one term are the same.
LEMMA LeadershipsUnique ==
  ASSUME VoteInv, RoundParts, LeadParts, "late_win" \notin faults,
         NEW m \in Node, NEW n \in Node, NEW t \in Nat, <<m, t>> \in led, <<n, t>> \in led
  PROVE  m = n
<1>1. OneWinnerPerRound
  BY WinnersUnique DEF VoteInv, RoundParts
<1>2. <<m, t>> \in won /\ <<n, t>> \in won
  BY DEF LeadParts, LedBySuccess
<1>3. \A w, x \in won : w[2] = x[2] => w[1] = x[1]
  BY <1>1 DEF OneWinnerPerRound
<1>4. <<m, t>>[2] = <<n, t>>[2] => <<m, t>>[1] = <<n, t>>[1]
  BY <1>2, <1>3
<1> QED BY <1>4

\* A node that wins its round finds no entry of that term anywhere.
LEMMA WinHistory ==
  ASSUME LogInv, NEW n \in Node, WinStep(n), "late_win" \notin faults',
         OneWinnerPerRound', NEW G \in SUBSET Seq(Entry), History(G)
  PROVE  History(G)'
<1>1. /\ electing[n] /\ role' = [role EXCEPT ![n] = "leader"] /\ UNCHANGED <<term, log, calls, late>>
      /\ won' = won \cup {<<n, round[n].term>>} /\ led' = led \cup {<<n, term[n]>>}
  BY DEF WinStep, FinishElection, BecomeLeader, netVars
<1>2. term[n] = round[n].term /\ "late_win" \notin faults
  BY DEF WinStep
<1>3. term \in [Node -> Nat] /\ role \in [Node -> Role] /\ led \subseteq won
  BY <1>2 DEF LogInv, VoteInv, TypeOK, LeadParts, LedBySuccess
<1>4. ASSUME NEW g \in G, NEW i \in 1..Len(g) PROVE g[i].term # term[n]
  <2> SUFFICES ASSUME g[i].term = term[n] PROVE FALSE
    OBVIOUS
  <2>1. PICK m \in Node : <<m, g[i].term>> \in led
    BY DEF History
  <2>2. <<m, term[n]>> \in won
    BY <1>3, <2>1
  <2>3. <<m, term[n]>> \in won' /\ <<n, term[n]>> \in won'
    BY <1>1, <1>2, <2>2
  <2>4. <<m, term[n]>>[2] = <<n, term[n]>>[2] => <<m, term[n]>>[1] = <<n, term[n]>>[1]
    BY <2>3 DEF OneWinnerPerRound
  <2>5. m = n
    BY <2>4
  <2>6. <<n, term[n]>>[2] < round[<<n, term[n]>>[1]].term
    BY <1>1, <2>2, <2>5 DEF LogInv, WinsPast
  <2> QED BY <1>2, <1>3, <2>6
<1>5. ASSUME NEW m \in Node, role'[m] = "leader", NEW g \in G, NEW i \in 1..Len(g),
             g[i].term = term[m]
      PROVE  i <= Len(log[m])
  <2>1. m # n
    BY <1>4, <1>5
  <2>2. role[m] = "leader"
    BY <1>1, <1>3, <1>5, <2>1
  <2> QED BY <1>5, <2>2 DEF History
<1>6. \A m \in Node : role'[m] = "leader" =>
        \A g \in G : \A i \in 1..Len(g) : g[i].term = term'[m] => i <= Len(log'[m])
  BY <1>1, <1>5
<1>7. /\ \A m \in Node : \E g \in G : Begins(log'[m], g)
      /\ \A c \in calls' \cup late' : c.req.kind = "append" => \E g \in G : SliceOf(c.req, g)
      /\ \A g, h \in G : Agree(g, h)
      /\ \A g \in G : \A i \in 1..Len(g) : \E m \in Node : <<m, g[i].term>> \in led'
  BY <1>1 DEF History
<1> QED BY <1>6, <1>7 DEF History

\* A leader's new log agrees with every log of the history, for what was
\* written in its term is in its log already.
LEMMA AppendHistory ==
  ASSUME LogInv, "late_win" \notin faults, NEW n \in Node, NEW v \in Value, AppendEntry(n, v),
         NEW G \in SUBSET Seq(Entry), History(G)
  PROVE  \E H \in SUBSET Seq(Entry) : History(H)'
<1> DEFINE e == [index |-> Len(log[n]) + 1, term |-> term[n], data |-> v]
           l == Append(log[n], e)
           H == G \cup {l}
<1>1. /\ role[n] = "leader" /\ log' = [log EXCEPT ![n] = l]
      /\ UNCHANGED <<term, role, calls, late, led>>
  BY DEF AppendEntry, netVars, histVars
<1>2. /\ term \in [Node -> Nat] /\ log \in [Node -> Seq(Entry)] /\ log[n] \in Seq(Entry)
      /\ Len(log[n]) \in Nat
  BY DEF LogInv, VoteInv, TypeOK
<1>3. e \in Entry /\ e.term = term[n]
  BY <1>2 DEF Entry
<1> HIDE DEF e
<1>4. /\ l \in Seq(Entry) /\ Len(l) = Len(log[n]) + 1 /\ l[Len(log[n]) + 1] = e
      /\ \A i \in 1..Len(log[n]) : l[i] = log[n][i]
  BY <1>2, <1>3, AppendProperties
<1> HIDE DEF l
<1>5. PICK b \in G : Begins(log[n], b)
  BY DEF History
<1>6. \A i \in 1..Len(log[n]) : l[i] = b[i] /\ i \in 1..Len(b)
  BY <1>2, <1>4, <1>5 DEF Begins
<1>7. <<n, term[n]>> \in led
  BY <1>1 DEF LogInv, LeadParts, LeadersLed
<1>8. ASSUME NEW g \in G, NEW i \in Nat, i \in 1..Len(l), i \in 1..Len(g), g[i].term = l[i].term
      PROVE  \A k \in 1..i : g[k] = l[k]
  <2>1. CASE i \in 1..Len(log[n])
    <3>1. l[i] = b[i] /\ i \in 1..Len(b)
      BY <1>6, <2>1
    <3>2. i \in 1..Min2(Len(g), Len(b)) /\ g[i].term = b[i].term
      BY <1>8, <3>1 DEF Min2
    <3>3. Agree(g, b)
      BY <1>5 DEF History
    <3>4. \A k \in 1..i : g[k] = b[k]
      BY <3>2, <3>3 DEF Agree
    <3>5. \A k \in 1..i : k \in 1..Len(log[n])
      BY <1>2, <2>1
    <3> QED BY <1>6, <3>4, <3>5
  <2>2. CASE i = Len(log[n]) + 1
    <3>1. g[i].term = term[n]
      BY <1>3, <1>4, <1>8, <2>2
    <3>2. i <= Len(log[n])
      BY <1>1, <1>8, <3>1 DEF History
    <3> QED BY <1>2, <2>2, <3>2
  <2> QED BY <1>2, <1>4, <1>8, <2>1, <2>2
<1>9. ASSUME NEW g \in H, NEW h \in H PROVE Agree(g, h)
  <2> SUFFICES ASSUME NEW i \in 1..Min2(Len(g), Len(h)), g[i].term = h[i].term
               PROVE  \A k \in 1..i : g[k] = h[k]
    BY DEF Agree
  <2>0. g \in Seq(Entry) /\ h \in Seq(Entry) /\ Len(g) \in Nat /\ Len(h) \in Nat
    BY <1>4
  <2>1. i \in Nat /\ i \in 1..Len(g) /\ i \in 1..Len(h)
    BY <2>0 DEF Min2
  <2>2. CASE g \in G /\ h \in G
    BY <2>2 DEF History, Agree
  <2>3. CASE g \in G /\ h = l
    BY <1>8, <2>1, <2>3
  <2>4. CASE g = l /\ h \in G
    BY <1>8, <2>1, <2>4
  <2>5. CASE g = l /\ h = l
    BY <2>5
  <2> QED BY <2>2, <2>3, <2>4, <2>5
<1>10. ASSUME NEW m \in Node PROVE \E g \in H : Begins(log'[m], g)
  <2>1. CASE m = n
    <3>1. log'[m] = l
      BY <1>1, <1>2, <2>1
    <3>2. Begins(l, l)
      BY <1>4 DEF Begins
    <3> QED BY <3>1, <3>2
  <2>2. CASE m # n
    <3>1. log'[m] = log[m]
      BY <1>1, <1>2, <2>2
    <3> QED BY <3>1 DEF History
  <2> QED BY <2>1, <2>2
<1>11. \A c \in calls' \cup late' : c.req.kind = "append" => \E g \in H : SliceOf(c.req, g)
  BY <1>1 DEF History
<1>12. ASSUME NEW g \in H, NEW i \in 1..Len(g) PROVE \E m \in Node : <<m, g[i].term>> \in led'
  <2>1. CASE g \in G
    BY <1>1, <2>1 DEF History
  <2>2. CASE g = l /\ i \in 1..Len(log[n])
    <3>1. \E m \in Node : <<m, b[i].term>> \in led
      BY <1>6, <2>2 DEF History
    <3> QED BY <1>1, <1>6, <2>2, <3>1
  <2>3. CASE g = l /\ i = Len(log[n]) + 1
    <3>1. g[i] = e
      BY <1>4, <2>3
    <3>2. <<n, g[i].term>> \in led'
      BY <1>1, <1>3, <1>7, <3>1
    <3> QED BY <3>2
  <2>4. \A j \in 1..Len(l) : j \in 1..Len(log[n]) \/ j = Len(log[n]) + 1
    BY <1>2, <1>4
  <2> QED BY <2>1, <2>2, <2>3, <2>4
<1>13. ASSUME NEW m \in Node, role[m] = "leader", NEW g \in H, NEW i \in 1..Len(g),
              g[i].term = term[m]
       PROVE  i <= Len(log'[m])
  <2>1. Len(log[m]) \in Nat /\ Len(log[m]) <= Len(log'[m])
    <3>1. CASE m = n
      BY <1>1, <1>2, <1>4, <3>1
    <3>2. CASE m # n
      BY <1>1, <1>2, <3>2
    <3> QED BY <3>1, <3>2
  <2>2. CASE g \in G
    <3>1. i <= Len(log[m])
      BY <1>13, <2>2 DEF History
    <3> QED BY <1>1, <1>2, <2>1, <3>1, <1>4
  <2>3. CASE g = l /\ i \in 1..Len(log[n])
    <3>1. b[i].term = term[m] /\ i \in 1..Len(b)
      BY <1>6, <1>13, <2>3
    <3>2. i <= Len(log[m])
      BY <1>13, <3>1 DEF History
    <3> QED BY <1>1, <1>2, <1>4, <2>1, <3>2
  <2>4. CASE g = l /\ i = Len(log[n]) + 1
    <3>1. term[n] = term[m]
      BY <1>3, <1>4, <1>13, <2>4
    <3>2. <<m, term[n]>> \in led
      BY <1>13, <3>1 DEF LogInv, LeadParts, LeadersLed
    <3>3. m = n
      BY <1>2, <1>7, <3>2, LeadershipsUnique DEF LogInv
    <3> QED BY <1>1, <1>2, <1>4, <2>4, <3>3
  <2> QED BY <1>2, <1>4, <2>2, <2>3, <2>4
<1>14. \A m \in Node : role'[m] = "leader" =>
         \A g \in H : \A i \in 1..Len(g) : g[i].term = term'[m] => i <= Len(log'[m])
  BY <1>1, <1>13
<1>15. H \in SUBSET Seq(Entry)
  BY <1>4
<1> HIDE DEF H
<1>16. PICK K \in SUBSET Seq(Entry) : K = H
  BY <1>15
<1>17. History(K)'
  BY <1>9, <1>10, <1>11, <1>12, <1>14, <1>16 DEF History
<1> QED BY <1>17

\* A request of prepare_append is a slice of the log the leader's log begins.
LEMMA SendHistory ==
  ASSUME LogInv, NEW n \in Node, NEW p \in Node, SendAppend(n, p),
         NEW G \in SUBSET Seq(Entry), History(G)
  PROVE  History(G)'
<1> DEFINE k == [to |-> p, req |-> PreparedAppend(n, p)]
<1>1. /\ calls' = calls \cup {k} /\ HasPrev(n, p)
      /\ UNCHANGED <<term, role, log, late, led>>
  BY DEF SendAppend, nodeVars, histVars
<1>2. PICK g \in G : Begins(log[n], g)
  BY DEF History
<1>3. SliceOf(PreparedAppend(n, p), log[n]) /\ PreparedAppend(n, p) \in AppendRequest
  BY <1>1, PreparedSlice, PreparedAppendType DEF LogInv, VoteInv
<1>4. log[n] \in Seq(Entry)
  BY DEF LogInv, VoteInv, TypeOK
<1>5. SliceOf(k.req, g)
  BY <1>2, <1>3, <1>4, SliceOfWhole
<1> HIDE DEF k
<1>6. \A c \in calls' \cup late' : c.req.kind = "append" => \E h \in G : SliceOf(c.req, h)
  BY <1>1, <1>5 DEF History
<1> QED BY <1>1, <1>6 DEF History

\* handle_append writes nothing that was not in the history.
LEMMA TakeHistory ==
  ASSUME LogInv, NEW c \in calls \cup late, TakeStep(c),
         NEW G \in SUBSET Seq(Entry), History(G)
  PROVE  History(G)'
<1> DEFINE d == c.to
           r == c.req
           l == LogAfter(log[d], r)
<1>1. /\ d \in Node /\ r \in AppendRequest /\ r.kind = "append" /\ HandleAppend(d, r)
      /\ calls' \cup late' \subseteq calls \cup late
  BY DEF TakeStep
<1>2. FormedRequest(r) /\ r.term \in Nat
  BY <1>1 DEF LogInv, RequestsFormed, AppendRequest
<1>3. PICK h \in G : SliceOf(r, h)
  BY <1>1 DEF History
<1> HIDE DEF d, r
<1>4. /\ term' = [term EXCEPT ![d] = IF r.term >= term[d] THEN r.term ELSE @]
      /\ role' = [role EXCEPT ![d] = IF r.term >= term[d] THEN "follower" ELSE @]
      /\ log' = [log EXCEPT ![d] = IF r.term >= term[d] THEN l ELSE @]
      /\ led' = led
  BY <1>1 DEF HandleAppend
<1>5. /\ term \in [Node -> Nat] /\ role \in [Node -> Role] /\ log \in [Node -> Seq(Entry)]
      /\ log[d] \in Seq(Entry)
  BY <1>1 DEF LogInv, VoteInv, TypeOK
<1>6. \E g \in G : Begins(l, g)
  <2>1. PICK g \in G : Begins(log[d], g)
    BY <1>1 DEF History
  <2>2. Agree(g, h) /\ g \in Seq(Entry) /\ h \in Seq(Entry)
    BY <1>3, <2>1 DEF History
  <2> QED BY <1>1, <1>2, <1>3, <1>5, <2>1, <2>2, LogAfterBegins
<1> HIDE DEF l
<1>7. ASSUME NEW n \in Node PROVE \E g \in G : Begins(log'[n], g)
  <2>1. log'[n] = log[n] \/ log'[n] = l
    BY <1>1, <1>4, <1>5
  <2> QED BY <1>6, <2>1 DEF History
<1>8. ASSUME NEW n \in Node, role'[n] = "leader"
      PROVE  role[n] = "leader" /\ term'[n] = term[n] /\ log'[n] = log[n]
  BY <1>1, <1>2, <1>4, <1>5, <1>8
<1>9. \A n \in Node : role'[n] = "leader" =>
        \A g \in G : \A i \in 1..Len(g) : g[i].term = term'[n] => i <= Len(log'[n])
  BY <1>8 DEF History
<1>10. \A k \in calls' \cup late' : k.req.kind = "append" => \E g \in G : SliceOf(k.req, g)
  BY <1>1 DEF History
<1> QED BY <1>4, <1>7, <1>9, <1>10 DEF History

\* Every step keeps one history of all logs.
LEMMA NextHistory ==
  ASSUME LogInv, [Next]_vars, OneWinnerPerRound'
  PROVE  OneHistory'
<1> SUFFICES ASSUME "late_win" \notin faults'
             PROVE  \E G \in SUBSET Seq(Entry) : History(G)'
  BY DEF OneHistory
<1>0. TypeOK
  BY DEF LogInv, VoteInv
<1>1. CASE QuietStep
  <2>1. PICK G \in SUBSET Seq(Entry) : History(G)
    BY <1>1 DEF QuietStep, LogInv, OneHistory
  <2>2. /\ \A g, h \in G : Agree(g, h)
        /\ \A n \in Node : \E g \in G : Begins(log'[n], g)
        /\ \A c \in calls' \cup late' : c.req.kind = "append" => \E g \in G : SliceOf(c.req, g)
        /\ \A g \in G : \A i \in 1..Len(g) : \E m \in Node : <<m, g[i].term>> \in led'
    BY <1>1, <2>1 DEF QuietStep, History
  <2>3. \A n \in Node : role'[n] = "leader" =>
          \A g \in G : \A i \in 1..Len(g) : g[i].term = term'[n] => i <= Len(log'[n])
    BY <1>1, <2>1 DEF QuietStep, History
  <2>4. History(G)'
    BY <2>2, <2>3 DEF History
  <2> QED BY <2>4
<1>2. ASSUME NEW n \in Node, WinStep(n) PROVE \E G \in SUBSET Seq(Entry) : History(G)'
  <2>1. PICK G \in SUBSET Seq(Entry) : History(G)
    BY <1>2 DEF WinStep, LogInv, OneHistory
  <2> QED BY <1>2, <2>1, WinHistory
<1>3. ASSUME NEW n \in Node, NEW v \in Value, AppendEntry(n, v)
      PROVE  \E G \in SUBSET Seq(Entry) : History(G)'
  <2>1. "late_win" \notin faults
    BY <1>3 DEF AppendEntry, histVars
  <2>2. PICK G \in SUBSET Seq(Entry) : History(G)
    BY <2>1 DEF LogInv, OneHistory
  <2> QED BY <1>3, <2>1, <2>2, AppendHistory
<1>4. ASSUME NEW n \in Node, NEW p \in Node, SendAppend(n, p)
      PROVE  \E G \in SUBSET Seq(Entry) : History(G)'
  <2>1. PICK G \in SUBSET Seq(Entry) : History(G)
    BY <1>4 DEF SendAppend, histVars, LogInv, OneHistory
  <2> QED BY <1>4, <2>1, SendHistory
<1>5. ASSUME NEW c \in calls \cup late, TakeStep(c)
      PROVE  \E G \in SUBSET Seq(Entry) : History(G)'
  <2>1. PICK G \in SUBSET Seq(Entry) : History(G)
    BY <1>5 DEF TakeStep, HandleAppend, LogInv, OneHistory
  <2> QED BY <1>5, <2>1, TakeHistory
<1> QED BY <1>0, <1>1, <1>2, <1>3, <1>4, <1>5, LogSteps

\* The invariant holds initially: all logs are empty.
LEMMA InitLog == Init => LogInv
<1> SUFFICES ASSUME Init PROVE LogInv
  OBVIOUS
<1>1. VoteInv /\ RoundParts /\ LeadParts
  BY InitType, InitVotes, InitRounds, InitLeads DEF VoteInv
<1>2. LogWellFormed /\ RequestsFormed /\ WinsPast
  BY DEF Init, LogWellFormed, RequestsFormed, WinsPast
<1>3. Len(<< >>) = 0 /\ << >> \in Seq(Entry)
  OBVIOUS
<1>4. Agree(<< >>, << >>) /\ Begins(<< >>, << >>)
  BY <1>3 DEF Agree, Begins, Min2
<1>5. History({<< >>})
  <2>1. /\ \A n \in Node : log[n] = << >> /\ role[n] # "leader"
        /\ calls = {} /\ late = {}
    BY DEF Init
  <2> QED BY <1>3, <1>4, <2>1 DEF History
<1>6. OneHistory
  BY <1>3, <1>5 DEF OneHistory
<1> QED BY <1>1, <1>2, <1>6 DEF LogInv

\* Every step keeps the invariant.
LEMMA NextLog == LogInv /\ [Next]_vars => LogInv'
<1> SUFFICES ASSUME LogInv, [Next]_vars PROVE LogInv'
  OBVIOUS
<1>1. VoteInv' /\ RoundParts' /\ LeadParts'
  BY NextType, NextVotes, NextRounds, NextLeads DEF LogInv, VoteInv
<1>2. LogWellFormed' /\ RequestsFormed' /\ WinsPast'
  BY NextFormed, NextWins DEF LogInv, VoteInv
<1>3. (VoteInv /\ RoundParts => OneWinnerPerRound)'
  BY WinnersUnique, PTL DEF VoteInv, RoundParts
<1>4. OneHistory'
  BY <1>1, <1>3, NextHistory
<1> QED BY <1>1, <1>2, <1>4 DEF LogInv

\* Logs with the same term at an index agree up to it, in every cluster whose
\* elections met no late win: comparing terms only, as handle_append does, is
\* enough.
THEOREM LogsMatch == Spec => []LogMatching
<1>1. ASSUME LogInv, "late_win" \notin faults,
             NEW n \in Node, NEW m \in Node, NEW i \in 1..Min2(Len(log[n]), Len(log[m])),
             log[n][i].term = log[m][i].term
      PROVE  \A k \in 1..i : log[n][k] = log[m][k]
  <2>1. PICK G \in SUBSET Seq(Entry) : History(G)
    BY <1>1 DEF LogInv, OneHistory
  <2>2. PICK g \in G : Begins(log[n], g)
    BY <2>1 DEF History
  <2>3. PICK h \in G : Begins(log[m], h)
    BY <2>1 DEF History
  <2>4. log[n] \in Seq(Entry) /\ log[m] \in Seq(Entry) /\ g \in Seq(Entry) /\ h \in Seq(Entry)
    BY <1>1 DEF LogInv, VoteInv, TypeOK
  <2>5. /\ i \in Nat /\ i \in 1..Len(log[n]) /\ i \in 1..Len(log[m])
        /\ i \in 1..Min2(Len(g), Len(h))
    BY <2>2, <2>3, <2>4 DEF Begins, Min2
  <2>6. Agree(g, h)
    BY <2>1 DEF History
  <2>7. g[i].term = h[i].term
    BY <1>1, <2>2, <2>3, <2>5 DEF Begins
  <2>8. \A k \in 1..i : g[k] = h[k]
    BY <2>5, <2>6, <2>7 DEF Agree
  <2>9. \A k \in 1..i : k \in 1..Len(log[n]) /\ k \in 1..Len(log[m])
    BY <2>4, <2>5
  <2> QED BY <2>2, <2>3, <2>8, <2>9 DEF Begins
<1>2. LogInv => LogMatching
  BY <1>1 DEF LogMatching
<1> QED BY <1>2, InitLog, NextLog, PTL DEF Spec

-----------------------------------------------------------------------------
(* A leader reaches its peers. *)

\* While no hazard was met, what a leader has sent, what it was answered and
\* what it means to send next stay within its own log.
ReachInv ==
  faults = {} =>
     /\ \A c \in calls :
          c.req.kind = "append" /\ role[c.req.from] = "leader" =>
             Reach(c.req) <= Len(log[c.req.from])
     /\ \A a \in replies :
          a.req.kind = "append" /\ role[a.req.from] = "leader" /\ a.resp.ok =>
             a.resp.match <= Len(log[a.req.from])
     /\ \A n \in Node :
          role[n] = "leader" => \A p \in Node : nextIndex[n][p] <= Len(log[n]) + 1

\* The numbers of the calls and answers on their way.
LEMMA TrafficType ==
  ASSUME TypeOK
  PROVE  /\ \A c \in calls \cup late :
              c.req.from \in Node /\ (c.req.kind = "append" => Reach(c.req) \in Nat)
         /\ \A a \in replies :
              a.req.from \in Node /\ a.to \in Node /\ a.resp \in Response /\ a.resp.match \in Nat
         /\ \A n \in Node : Len(log[n]) \in Nat
         /\ \A n, p \in Node : nextIndex[n][p] \in Nat \ {0}
<1>1. ASSUME NEW r \in VoteRequest \cup AppendRequest
      PROVE  r.from \in Node /\ (r.kind = "append" => Reach(r) \in Nat)
  <2>1. CASE r \in VoteRequest
    BY <2>1 DEF VoteRequest
  <2>2. CASE r \in AppendRequest
    <3>1. r.from \in Node /\ r.prevLogIndex \in Nat /\ r.entries \in Seq(Entry)
      BY <2>2 DEF AppendRequest
    <3> QED BY <3>1 DEF Reach
  <2> QED BY <2>1, <2>2
<1>2. \A c \in calls \cup late : c.req \in VoteRequest \cup AppendRequest
  BY DEF TypeOK, Call
<1>3. \A a \in replies : /\ a.req \in VoteRequest \cup AppendRequest
                         /\ a.to \in Node /\ a.resp \in Response
  BY DEF TypeOK, Reply
<1>4. \A s \in Response : s.match \in Nat
  BY DEF Response
<1>5. \A n \in Node : Len(log[n]) \in Nat
  BY DEF TypeOK
<1>6. \A n, p \in Node : nextIndex[n][p] \in Nat \ {0}
  BY DEF TypeOK
<1> QED BY <1>1, <1>2, <1>3, <1>4, <1>5, <1>6

\* A step that lets leaders stay leaders at most, and shortens no leader's log.
LEMMA ReachKept ==
  ASSUME TypeOK, TypeOK', ReachInv, faults \subseteq faults',
         \A c \in calls' : c.req.kind = "append" => c \in calls,
         \A a \in replies' : a.req.kind = "append" => a \in replies,
         \A n \in Node : role'[n] = "leader" =>
            role[n] = "leader" /\ Len(log[n]) <= Len(log'[n]) /\ nextIndex'[n] = nextIndex[n]
  PROVE  ReachInv'
<1> SUFFICES ASSUME faults' = {}
             PROVE  /\ \A c \in calls' :
                         c.req.kind = "append" /\ role'[c.req.from] = "leader" =>
                            Reach(c.req) <= Len(log'[c.req.from])
                    /\ \A a \in replies' :
                         a.req.kind = "append" /\ role'[a.req.from] = "leader" /\ a.resp.ok =>
                            a.resp.match <= Len(log'[a.req.from])
                    /\ \A n \in Node :
                         role'[n] = "leader" => \A p \in Node : nextIndex'[n][p] <= Len(log'[n]) + 1
  BY DEF ReachInv
<1>1. faults = {}
  OBVIOUS
<1>2. \A n \in Node : Len(log'[n]) \in Nat
  BY DEF TypeOK
<1>3. ASSUME NEW c \in calls', c.req.kind = "append", role'[c.req.from] = "leader"
      PROVE  Reach(c.req) <= Len(log'[c.req.from])
  <2>1. c \in calls /\ c.req.from \in Node /\ Reach(c.req) \in Nat
    BY <1>3, TrafficType
  <2>2. Reach(c.req) <= Len(log[c.req.from])
    BY <1>1, <1>3, <2>1 DEF ReachInv
  <2> QED BY <1>2, <1>3, <2>1, <2>2, TrafficType
<1>4. ASSUME NEW a \in replies', a.req.kind = "append", role'[a.req.from] = "leader", a.resp.ok
      PROVE  a.resp.match <= Len(log'[a.req.from])
  <2>1. a \in replies /\ a.req.from \in Node /\ a.resp.match \in Nat
    BY <1>4, TrafficType
  <2>2. a.resp.match <= Len(log[a.req.from])
    BY <1>1, <1>4, <2>1 DEF ReachInv
  <2> QED BY <1>2, <1>4, <2>1, <2>2, TrafficType
<1>5. ASSUME NEW n \in Node, role'[n] = "leader", NEW p \in Node
      PROVE  nextIndex'[n][p] <= Len(log'[n]) + 1
  <2>1. nextIndex[n][p] <= Len(log[n]) + 1
    BY <1>1, <1>5 DEF ReachInv
  <2> QED BY <1>2, <1>5, <2>1, TrafficType
<1> QED BY <1>3, <1>4, <1>5

\* What handle_append acknowledges is within the log of the request's sender,
\* if the request was and the log it leaves has no foreign tail.
LEMMA AckWithin ==
  ASSUME NEW d \in Node, NEW r \in AppendRequest, NEW f \in Node, r.from = f,
         TypeOK, FormedRequest(r), AppendOk(log[d], r), ~ForeignTail(d, r),
         Reach(r) <= Len(log[f])
  PROVE  Len(LogAfter(log[d], r)) <= Len(log[f])
<1> DEFINE l == LogAfter(log[d], r)
<1>1. log[d] \in Seq(Entry) /\ Len(log[f]) \in Nat
  BY DEF TypeOK
<1>2. l \in Seq(Entry) /\ Len(l) \in Nat
  BY <1>1, LogAfterType
<1>3. r.prevLogIndex \in Nat /\ Len(r.entries) \in Nat
  BY DEF AppendRequest
<1>4. \A i \in (r.prevLogIndex + Len(r.entries) + 1)..Len(l) : ~(i > Len(log[f]))
  BY DEF ForeignTail
<1> HIDE DEF l
<1>5. CASE Len(l) > r.prevLogIndex + Len(r.entries)
  <2>1. Len(l) \in (r.prevLogIndex + Len(r.entries) + 1)..Len(l)
    BY <1>2, <1>3, <1>5
  <2>2. ~(Len(l) > Len(log[f]))
    BY <1>4, <2>1
  <2> QED BY <1>1, <1>2, <2>2 DEF l
<1>6. CASE ~(Len(l) > r.prevLogIndex + Len(r.entries))
  BY <1>1, <1>2, <1>3, <1>6 DEF Reach, l
<1> QED BY <1>5, <1>6

\* Every step keeps leaders within reach of their peers.
LEMMA NextReach ==
  ASSUME TypeOK, LogWellFormed, RequestsFormed, ReachInv, [Next]_vars
  PROVE  ReachInv'
<1>t. TypeOK'
  BY NextType
<1>0. /\ term \in [Node -> Nat] /\ role \in [Node -> Role] /\ log \in [Node -> Seq(Entry)]
      /\ nextIndex \in [Node -> [Node -> Nat \ {0}]]
      /\ \A n \in Node : Len(log[n]) \in Nat /\ Len(log[n]) <= Len(log[n])
  BY DEF TypeOK
<1>a. ASSUME UNCHANGED <<role, log, nextIndex>>, faults \subseteq faults',
             \A c \in calls' : c.req.kind = "append" => c \in calls,
             \A a \in replies' : a.req.kind = "append" => a \in replies
      PROVE  ReachInv'
  BY <1>0, <1>a, <1>t, ReachKept
<1>v. ASSUME NEW d \in Node, NEW r \in VoteRequest, HandleVoteRequest(d, r),
             \A c \in calls' : c.req.kind = "append" => c \in calls,
             \A a \in replies' : a.req.kind = "append" => a \in replies
      PROVE  ReachInv'
  <2>1. /\ UNCHANGED <<log, nextIndex, faults>>
        /\ role' = [role EXCEPT ![d] = IF r.term > term[d] THEN "follower" ELSE @]
    BY <1>v DEF HandleVoteRequest
  <2>2. \A n \in Node : role'[n] = "leader" => role[n] = "leader"
    BY <1>0, <2>1
  <2> QED BY <1>0, <1>t, <1>v, <2>1, <2>2, ReachKept
<1>1. ASSUME NEW n \in Node, StartElection(n) PROVE ReachInv'
  <2>1. /\ role' = [role EXCEPT ![n] = "candidate"]
        /\ UNCHANGED <<log, nextIndex, faults, calls, replies>>
    BY <1>1 DEF StartElection, netVars
  <2>2. \A m \in Node : role'[m] = "leader" => role[m] = "leader"
    BY <1>0, <2>1
  <2> QED BY <1>0, <1>t, <2>1, <2>2, ReachKept
<1>2. ASSUME NEW n \in Node, NEW p \in Node, SendVote(n, p) PROVE ReachInv'
  <2> DEFINE k == [to |-> p, req |-> round[n]]
  <2>1. k.req.kind # "append"
    BY DEF TypeOK, VoteRequest
  <2>2. calls' = calls \cup {k} /\ UNCHANGED <<role, log, nextIndex, faults, replies>>
    BY <1>2 DEF SendVote, nodeVars, histVars
  <2> HIDE DEF k
  <2> QED BY <1>a, <2>1, <2>2
<1>3. ASSUME NEW c \in calls, AnswerVote(c) PROVE ReachInv'
  <2> DEFINE b == [to |-> c.to, req |-> c.req, resp |-> VoteResponse(c.to, c.req)]
  <2>1. c.to \in Node /\ c.req \in VoteRequest
    BY <1>3 DEF AnswerVote, TypeOK, Call, AppendRequest
  <2>2. replies' = replies \cup {b} /\ calls' \subseteq calls /\ b.req.kind # "append"
    BY <1>3 DEF AnswerVote
  <2> HIDE DEF b
  <2>3. \A a \in replies' : a.req.kind = "append" => a \in replies
    BY <2>2
  <2> QED BY <1>3, <1>v, <2>1, <2>2, <2>3 DEF AnswerVote
<1>4. ASSUME NEW c \in late, AnswerLateVote(c) PROVE ReachInv'
  <2>1. c.to \in Node /\ c.req \in VoteRequest
    BY <1>4 DEF AnswerLateVote, TypeOK, Call, AppendRequest
  <2> QED BY <1>4, <1>v, <2>1 DEF AnswerLateVote
<1>5. ASSUME NEW a \in replies, RecvVote(a) PROVE ReachInv'
  BY <1>5, <1>a DEF RecvVote, nodeVars, histVars
<1>6. ASSUME NEW n \in Node, FinishElection(n) PROVE ReachInv'
  <2>1. CASE UNCHANGED <<nodeVars, won, led, faults>>
    BY <1>6, <2>1, <1>a DEF FinishElection, nodeVars, netVars
  <2>2. CASE BecomeLeader(n) /\ faults \subseteq faults'
    <3>1. /\ role' = [role EXCEPT ![n] = "leader"]
          /\ nextIndex' = [nextIndex EXCEPT ![n] = [p \in Node |-> Len(log[n]) + 1]]
          /\ UNCHANGED <<log, calls, replies>>
          /\ \A c \in calls \cup replies : c.req.from # n
      BY <1>6, <2>2 DEF FinishElection, BecomeLeader, Waiting, netVars
    <3>2. \A m \in Node \ {n} : role'[m] = role[m] /\ nextIndex'[m] = nextIndex[m]
      BY <1>0, <3>1
    <3>3. \A p \in Node : nextIndex'[n][p] <= Len(log[n]) + 1
      BY <1>0, <3>1
    <3> SUFFICES ASSUME faults' = {} PROVE ReachInv'
      BY DEF ReachInv
    <3>4. faults = {}
      BY <2>2
    <3>5. \A c \in calls : c.req.kind = "append" /\ role'[c.req.from] = "leader" =>
             Reach(c.req) <= Len(log[c.req.from])
      BY <3>1, <3>2, <3>4, TrafficType DEF ReachInv
    <3>6. \A a \in replies : a.req.kind = "append" /\ role'[a.req.from] = "leader" /\ a.resp.ok =>
             a.resp.match <= Len(log[a.req.from])
      BY <3>1, <3>2, <3>4, TrafficType DEF ReachInv
    <3>7. \A m \in Node : role'[m] = "leader" => \A p \in Node : nextIndex'[m][p] <= Len(log[m]) + 1
      BY <3>2, <3>3, <3>4 DEF ReachInv
    <3> QED BY <3>1, <3>5, <3>6, <3>7 DEF ReachInv
  <2> QED BY <1>6, <2>1, <2>2 DEF FinishElection
<1>7. ASSUME NEW n \in Node, NEW v \in Value, AppendEntry(n, v) PROVE ReachInv'
  <2> DEFINE e == [index |-> Len(log[n]) + 1, term |-> term[n], data |-> v]
  <2>1. e \in Entry
    BY <1>0 DEF Entry
  <2> HIDE DEF e
  <2>2. Len(Append(log[n], e)) = Len(log[n]) + 1
    BY <1>0, <2>1, AppendProperties
  <2>3. log' = [log EXCEPT ![n] = Append(log[n], e)]
        /\ UNCHANGED <<role, nextIndex, faults, calls, replies>>
    BY <1>7 DEF AppendEntry, netVars, histVars, e
  <2>4. \A m \in Node : Len(log[m]) <= Len(log'[m])
    BY <1>0, <2>2, <2>3
  <2> QED BY <1>t, <2>3, <2>4, ReachKept
<1>8. ASSUME NEW n \in Node, NEW p \in Node, SendAppend(n, p) PROVE ReachInv'
  <2> DEFINE k == [to |-> p, req |-> PreparedAppend(n, p)]
  <2>1. k.req.from = n /\ Reach(k.req) <= Len(log[n])
    BY <1>8, PreparedSlice DEF SendAppend, SliceOf, PreparedAppend
  <2>2. calls' = calls \cup {k} /\ UNCHANGED <<role, log, nextIndex, faults, replies>>
    BY <1>8 DEF SendAppend, nodeVars, histVars
  <2> HIDE DEF k
  <2> QED BY <2>1, <2>2 DEF ReachInv
<1>h. ASSUME NEW d \in Node, NEW r \in AppendRequest, HandleAppend(d, r)
      PROVE  /\ faults \subseteq faults' /\ nextIndex' = nextIndex
             /\ \A n \in Node : role'[n] = "leader" =>
                  /\ role[n] = "leader" /\ log'[n] = log[n]
                  /\ n = d => ~(r.term >= term[d])
  <2>1. r.term \in Nat
    BY DEF AppendRequest
  <2>2. /\ role' = [role EXCEPT ![d] = IF r.term >= term[d] THEN "follower" ELSE @]
        /\ log' = [log EXCEPT ![d] = IF r.term >= term[d] THEN LogAfter(log[d], r) ELSE @]
        /\ faults \subseteq faults' /\ nextIndex' = nextIndex
    BY <1>h DEF HandleAppend
  <2> QED BY <1>0, <2>1, <2>2
<1>9. ASSUME NEW c \in calls, AnswerAppend(c) PROVE ReachInv'
  <2> DEFINE d == c.to
             r == c.req
             b == [to |-> c.to, req |-> c.req, resp |-> AppendResponse(c.to, c.req)]
  <2>1. /\ d \in Node /\ r \in AppendRequest /\ HandleAppend(d, r) /\ r.kind = "append"
        /\ calls' \subseteq calls /\ replies' = replies \cup {b}
    BY <1>9 DEF AnswerAppend, TypeOK, Call, VoteRequest
  <2>2. /\ faults \subseteq faults' /\ nextIndex' = nextIndex
        /\ \A n \in Node : role'[n] = "leader" =>
             /\ role[n] = "leader" /\ log'[n] = log[n]
             /\ n = d => ~(r.term >= term[d])
    BY <1>h, <2>1
  <2>3. b.req = r /\ b.resp = AppendResponse(d, r)
    OBVIOUS
  <2>4. r.from \in Node /\ Reach(r) \in Nat /\ FormedRequest(r)
    BY <2>1, TrafficType DEF RequestsFormed
  <2> SUFFICES ASSUME faults' = {} PROVE ReachInv'
    BY DEF ReachInv
  <2>5. faults = {}
    BY <2>2
  <2>6. \A k \in calls' : k.req.kind = "append" /\ role'[k.req.from] = "leader" =>
           Reach(k.req) <= Len(log'[k.req.from])
    <3> SUFFICES ASSUME NEW k \in calls, k.req.kind = "append", role'[k.req.from] = "leader"
                 PROVE  Reach(k.req) <= Len(log'[k.req.from])
      BY <2>1
    <3>1. k.req.from \in Node
      BY TrafficType
    <3> QED BY <2>2, <2>5, <3>1 DEF ReachInv
  <2>7. ASSUME role'[r.from] = "leader", AppendResponse(d, r).ok
        PROVE  AppendResponse(d, r).match <= Len(log'[r.from])
    <3>1. r.term \in Nat /\ term[d] \in Nat
      BY <1>0, <2>1 DEF AppendRequest
    <3>2. ~(r.term < term[d]) /\ r.term >= term[d]
      BY <2>7, <3>1 DEF AppendResponse
    <3>3. AppendOk(log[d], r) /\ AppendResponse(d, r).match = Len(LogAfter(log[d], r))
      BY <2>7, <3>2 DEF AppendResponse
    <3>4. ~ForeignTail(d, r)
      BY <2>1, <3>2 DEF HandleAppend
    <3>5. role[r.from] = "leader" /\ log'[r.from] = log[r.from]
      BY <2>2, <2>4, <2>7
    <3>6. Reach(r) <= Len(log[r.from])
      BY <2>1, <2>5, <3>5 DEF ReachInv
    <3>7. Len(LogAfter(log[d], r)) <= Len(log[r.from])
      BY <2>1, <2>4, <3>3, <3>4, <3>6, AckWithin
    <3> QED BY <3>3, <3>5, <3>7
  <2> HIDE DEF b, d, r
  <2>8. \A a \in replies' : a.req.kind = "append" /\ role'[a.req.from] = "leader" /\ a.resp.ok =>
           a.resp.match <= Len(log'[a.req.from])
    <3> SUFFICES ASSUME NEW a \in replies', a.req.kind = "append",
                        role'[a.req.from] = "leader", a.resp.ok
                 PROVE  a.resp.match <= Len(log'[a.req.from])
      OBVIOUS
    <3>1. CASE a \in replies
      <4>1. a.req.from \in Node
        BY <3>1, TrafficType
      <4> QED BY <2>2, <2>5, <3>1, <4>1 DEF ReachInv
    <3>2. CASE a = b
      BY <2>3, <2>7, <3>2
    <3> QED BY <2>1, <3>1, <3>2
  <2>9. \A n \in Node : role'[n] = "leader" => \A p \in Node : nextIndex'[n][p] <= Len(log'[n]) + 1
    BY <2>2, <2>5 DEF ReachInv
  <2> QED BY <2>6, <2>8, <2>9 DEF ReachInv
<1>10. ASSUME NEW c \in late, AnswerLateAppend(c) PROVE ReachInv'
  <2>1. c.to \in Node /\ c.req \in AppendRequest /\ HandleAppend(c.to, c.req)
    BY <1>10 DEF AnswerLateAppend, TypeOK, Call, VoteRequest
  <2>2. UNCHANGED <<calls, replies>>
    BY <1>10 DEF AnswerLateAppend
  <2> QED BY <1>0, <1>h, <1>t, <2>1, <2>2, ReachKept
<1>11. ASSUME NEW a \in replies, RecvAppend(a) PROVE ReachInv'
  <2> DEFINE n == a.req.from
             p == a.to
  <2>1. n \in Node /\ p \in Node /\ a.resp \in Response /\ a.resp.match \in Nat
    BY TrafficType
  <2>2. /\ UNCHANGED <<log, calls>> /\ replies' \subseteq replies /\ a.req.kind = "append"
        /\ StepDown(n, a.resp) \/ TakeAck(n, p, a.resp)
    BY <1>11 DEF RecvAppend
  <2>3. CASE StepDown(n, a.resp)
    <3>1. role' = [role EXCEPT ![n] = "follower"] /\ nextIndex' = nextIndex /\ faults' = faults
      BY <2>3 DEF StepDown
    <3>2. \A m \in Node : role'[m] = "leader" => role[m] = "leader"
      BY <1>0, <2>1, <3>1
    <3> QED BY <1>0, <1>t, <2>2, <3>1, <3>2, ReachKept
  <2>4. CASE TakeAck(n, p, a.resp)
    <3>1. /\ role' = role /\ faults \subseteq faults'
          /\ nextIndex' = [nextIndex EXCEPT ![n] = NextAfter(n, p, a.resp)]
      BY <2>4 DEF TakeAck
    <3> SUFFICES ASSUME faults' = {} PROVE ReachInv'
      BY DEF ReachInv
    <3>2. faults = {}
      BY <3>1
    <3>3. ASSUME role[n] = "leader", NEW q \in Node
          PROVE  NextAfter(n, p, a.resp)[q] <= Len(log[n]) + 1
      <4>1. nextIndex[n][q] <= Len(log[n]) + 1 /\ nextIndex[n][q] \in Nat /\ Len(log[n]) \in Nat
        BY <1>0, <2>1, <3>2, <3>3, TrafficType DEF ReachInv
      <4>2. nextIndex[n] \in [Node -> Nat \ {0}]
        BY <1>0, <2>1
      <4>3. CASE q = p /\ a.resp.ok
        <5>1. a.resp.match <= Len(log[n])
          BY <2>2, <3>2, <3>3, <4>3 DEF ReachInv
        <5>2. NextAfter(n, p, a.resp)[q] = a.resp.match + 1
          BY <4>2, <4>3 DEF NextAfter
        <5> QED BY <2>1, <4>1, <5>1, <5>2
      <4>4. CASE ~(q = p /\ a.resp.ok)
        <5>1. NextAfter(n, p, a.resp)[q] \in {nextIndex[n][q], BackedOff(nextIndex[n][q])}
          BY <2>1, <4>2, <4>4 DEF NextAfter
        <5> QED BY <4>1, <5>1 DEF BackedOff
      <4> QED BY <4>3, <4>4
    <3>4. \A m \in Node : role'[m] = "leader" => \A q \in Node : nextIndex'[m][q] <= Len(log'[m]) + 1
      <4> SUFFICES ASSUME NEW m \in Node, role[m] = "leader", NEW q \in Node
                   PROVE  nextIndex'[m][q] <= Len(log[m]) + 1
        BY <2>2, <3>1
      <4>1. CASE m = n
        <5>1. nextIndex'[m] = NextAfter(n, p, a.resp)
          BY <1>0, <2>1, <3>1, <4>1
        <5> QED BY <3>3, <4>1, <5>1
      <4>2. CASE m # n
        BY <1>0, <3>1, <3>2, <4>2 DEF ReachInv
      <4> QED BY <4>1, <4>2
    <3> QED BY <2>2, <3>1, <3>2, <3>4 DEF ReachInv
  <2> QED BY <2>2, <2>3, <2>4
<1>12. ASSUME NEW c \in calls \cup replies, CallFails(c) PROVE ReachInv'
  BY <1>12, <1>a DEF CallFails, nodeVars, histVars
<1>13. ASSUME NEW c \in calls, CallOutlivesCaller(c) PROVE ReachInv'
  BY <1>13, <1>a DEF CallOutlivesCaller, nodeVars, histVars
<1>14. CASE UNCHANGED vars
  BY <1>14, <1>a DEF vars, nodeVars, netVars, histVars
<1> QED BY <1>1, <1>2, <1>3, <1>4, <1>5, <1>6, <1>7, <1>8, <1>9, <1>10, <1>11,
           <1>12, <1>13, <1>14 DEF Next

\* In any cluster, a leader that met no hazard can prepare the next append for
\* every peer: prepare_append never returns None for one it leads.
THEOREM LeadersReach == Spec => []LeaderReachesPeers
<1> DEFINE Inv == TypeOK /\ LogWellFormed /\ RequestsFormed /\ ReachInv
<1>1. Init => Inv
  <2> SUFFICES ASSUME Init PROVE Inv
    OBVIOUS
  <2>1. TypeOK
    BY InitType
  <2>2. \A n \in Node : role[n] # "leader" /\ log[n] = << >>
    BY DEF Init
  <2> QED BY <2>1, <2>2 DEF Init, LogWellFormed, RequestsFormed, ReachInv
<1>2. Inv /\ [Next]_vars => Inv'
  BY NextType, NextFormed, NextReach
<1>3. Inv => LeaderReachesPeers
  <2> SUFFICES ASSUME TypeOK, ReachInv, faults = {}, NEW n \in Node, role[n] = "leader",
                      NEW p \in Peers(n)
               PROVE  HasPrev(n, p)
    BY DEF LeaderReachesPeers
  <2>1. p \in Node
    BY DEF Peers
  <2>2. nextIndex[n][p] <= Len(log[n]) + 1
    BY <2>1 DEF ReachInv
  <2> QED BY <2>1, <2>2, TrafficType DEF HasPrev
<1> HIDE DEF Inv
<1> QED BY <1>1, <1>2, <1>3, PTL DEF Spec

-----------------------------------------------------------------------------
(* Replacements, snapshots and compaction. *)

\* What is kept of a log above an index is a log.
LEMMA AboveType ==
  ASSUME NEW l \in Seq(Entry), NEW k \in Nat
  PROVE  Above(l, k) \in Seq(Entry)
<1> DEFINE S == {i \in 1..Len(l) : l[i].index > k}
           s == InOrder(S)
           c == Cardinality(S)
<1>1. S \in SUBSET Nat /\ S \subseteq 1..Len(l)
  OBVIOUS
<1>2. IsFiniteSet(1..Len(l))
  BY FS_Interval
<1>3. IsFiniteSet(S)
  BY <1>1, <1>2, FS_Subset
<1> HIDE DEF S
<1>4. c \in Nat /\ s \in [1..c -> S]
  BY <1>1, <1>3, InOrderFacts
<1> HIDE DEF s, c
<1>5. s \in Seq(Nat) /\ Len(s) = c
  <2>1. s \in [1..c -> Nat]
    BY <1>1, <1>4
  <2> QED BY <1>4, <2>1
<1>6. \A j \in 1..c : s[j] \in 1..Len(l)
  BY <1>1, <1>4
<1>7. \A j \in 1..c : l[s[j]] \in Entry
  BY <1>6
<1>8. [j \in 1..c |-> l[s[j]]] \in Seq(Entry)
  BY <1>4, <1>7
<1> QED BY <1>5, <1>8 DEF Above, S, s

\* What is known of a node's life: the types of Cluster and of the snapshots,
\* and while no log was cut, well-formed logs and requests.
LifeInv ==
  /\ TypeOK
  /\ snaps \subseteq [term : Nat, leader : Node, last : Nat \ {0}]
  /\ ~cut => LogWellFormed /\ RequestsFormed

\* The requests that outlive a replaced node are typed, and well formed while
\* no log was cut.
LEMMA OrphansFormed ==
  ASSUME LifeInv, NEW n \in Node, NEW c \in Orphans(n)
  PROVE  c \in Call /\ (~cut => (c.req.kind = "append" => FormedRequest(c.req)))
<1>0. TypeOK
  BY DEF LifeInv
<1>1. CASE c \in calls
  BY <1>0, <1>1 DEF TypeOK, LifeInv, RequestsFormed
<1>2. ASSUME NEW p \in todo[n], c = [to |-> p, req |-> round[n]]
      PROVE  c \in Call /\ c.req.kind # "append"
  <2>1. p \in Node /\ round[n] \in VoteRequest
    BY <1>0 DEF TypeOK
  <2>2. c.req.kind = "vote"
    BY <1>2, <2>1 DEF VoteRequest
  <2> QED BY <1>2, <2>1, <2>2 DEF Call
<1>3. ASSUME NEW p \in Peers(n), HasPrev(n, p), c = [to |-> p, req |-> PreparedAppend(n, p)]
      PROVE  c \in Call /\ (~cut => FormedRequest(c.req))
  <2>1. p \in Node
    BY DEF Peers
  <2>2. PreparedAppend(n, p) \in AppendRequest
    BY <1>0, <1>3, <2>1, PreparedAppendType
  <2>3. ~cut => FormedRequest(PreparedAppend(n, p))
    BY <1>0, <1>3, <2>1, PreparedFormed DEF LifeInv
  <2> QED BY <1>3, <2>1, <2>2, <2>3 DEF Call
<1>4. \/ c \in calls
      \/ \E p \in todo[n] : c = [to |-> p, req |-> round[n]]
      \/ \E p \in Peers(n) : HasPrev(n, p) /\ c = [to |-> p, req |-> PreparedAppend(n, p)]
  BY DEF Orphans
<1> QED BY <1>1, <1>2, <1>3, <1>4

\* Every step of the life of the nodes keeps what is known of it.
LEMMA NextLifeInv == LifeInv /\ [NextLife]_allVars => LifeInv'
<1> SUFFICES ASSUME LifeInv, [NextLife]_allVars PROVE LifeInv'
  OBVIOUS
<1>0. TypeOK /\ snaps \subseteq [term : Nat, leader : Node, last : Nat \ {0}]
  BY DEF LifeInv
<1>1. CASE Living
  <2>1. TypeOK'
    BY <1>0, <1>1, NextType DEF Living
  <2>2. ~cut => LogWellFormed' /\ RequestsFormed'
    BY <1>0, <1>1, NextFormed DEF Living, LifeInv
  <2> QED BY <1>0, <1>1, <2>1, <2>2 DEF Living, lifeVars, LifeInv
<1>2. ASSUME NEW n \in Node, Replace(n) PROVE LifeInv'
  <2>1. PICK S \in SUBSET Orphans(n) : late' = late \cup S
    BY <1>2 DEF Replace
  <2>2. late' \subseteq Call /\ calls' \subseteq Call /\ replies' \subseteq Reply
    BY <1>0, <1>2, <2>1, OrphansFormed DEF Replace, TypeOK
  <2>3. /\ term' \in [Node -> Nat] /\ role' \in [Node -> Role]
        /\ votedFor' \in [Node -> Node \cup {Nil}] /\ leaderId' \in [Node -> Node \cup {Nil}]
        /\ commitIndex' \in [Node -> Nat]
    BY <1>0, <1>2 DEF Replace, FreshNode, TypeOK, Role
  <2>4. log' \in [Node -> Seq(Entry)]
    <3>1. << >> \in Seq(Entry)
      OBVIOUS
    <3> QED BY <1>0, <1>2, <3>1 DEF Replace, FreshNode, TypeOK
  <2>5. /\ nextIndex' \in [Node -> [Node -> Nat \ {0}]]
        /\ matchIndex' \in [Node -> [Node -> Nat]]
    BY <1>0, <1>2 DEF Replace, FreshNode, TypeOK
  <2>6. NoRound(n) \in VoteRequest
    BY DEF NoRound, VoteRequest
  <2>7. /\ round' \in [Node -> VoteRequest] /\ electing' \in [Node -> BOOLEAN]
        /\ todo' \in [Node -> SUBSET Node] /\ ballots' \in [Node -> SUBSET Node]
    BY <1>0, <1>2, <2>6 DEF Replace, TypeOK
  <2>8. grants' \subseteq grants /\ UNCHANGED <<won, led, faults, snaps, cut>>
    BY <1>2 DEF Replace
  <2>9. TypeOK'
    BY <1>0, <2>2, <2>3, <2>4, <2>5, <2>7, <2>8 DEF TypeOK
  <2>10. ASSUME ~cut PROVE LogWellFormed'
    <3>1. /\ log' = [log EXCEPT ![n] = << >>] /\ term' = [term EXCEPT ![n] = 0]
      BY <1>2 DEF Replace, FreshNode
    <3>2. \A m \in Node \ {n} : log'[m] = log[m] /\ term'[m] = term[m]
      BY <1>0, <3>1 DEF TypeOK
    <3>3. Len(log'[n]) = 0
      BY <1>0, <3>1 DEF TypeOK
    <3> QED BY <2>10, <3>2, <3>3 DEF LifeInv, LogWellFormed
  <2>11. ASSUME ~cut PROVE RequestsFormed'
    <3> SUFFICES ASSUME NEW c \in calls' \cup late', c.req.kind = "append"
                 PROVE  FormedRequest(c.req)
      BY DEF RequestsFormed
    <3>1. c \in calls \cup late \/ c \in Orphans(n)
      BY <1>2, <2>1 DEF Replace
    <3>2. CASE c \in calls \cup late
      BY <2>11, <3>2 DEF LifeInv, RequestsFormed
    <3>3. CASE c \in Orphans(n)
      BY <2>11, <3>3, OrphansFormed
    <3> QED BY <3>1, <3>2, <3>3
  <2> QED BY <1>0, <2>8, <2>9, <2>10, <2>11 DEF LifeInv
<1>3. ASSUME NEW n \in Node, TakeSnapshot(n) PROVE LifeInv'
  <2>1. PICK i \in 1..Len(log[n]) :
           snaps' = snaps \cup {[term |-> term[n], leader |-> n, last |-> log[n][i].index]}
    BY <1>3 DEF TakeSnapshot
  <2> DEFINE e == log[n][i]
  <2>2. e \in Entry /\ term[n] \in Nat
    BY <1>0, <2>1 DEF TypeOK
  <2> HIDE DEF e
  <2>3. e.index \in Nat \ {0}
    BY <2>2 DEF Entry
  <2>4. snaps' \subseteq [term : Nat, leader : Node, last : Nat \ {0}]
    BY <1>0, <2>1, <2>2, <2>3 DEF e
  <2>5. UNCHANGED vars /\ cut' = cut
    BY <1>3 DEF TakeSnapshot
  <2>6. TypeOK'
    BY <1>0, <2>5, NextType
  <2>7. ~cut => LogWellFormed' /\ RequestsFormed'
    BY <2>5 DEF LifeInv, vars, nodeVars, netVars, LogWellFormed, RequestsFormed
  <2> QED BY <2>4, <2>5, <2>6, <2>7 DEF LifeInv
<1>4. ASSUME NEW d \in Node, NEW r \in snaps, InstallSnapshot(d, r) PROVE LifeInv'
  <2>1. r.term \in Nat /\ r.leader \in Node /\ r.last \in Nat
    BY <1>0
  <2>2. Above(log[d], r.last) \in Seq(Entry)
    BY <1>0, <2>1, AboveType DEF TypeOK
  <2>3. /\ term' = [term EXCEPT ![d] = r.term] /\ r.term >= term[d]
        /\ log' = [log EXCEPT ![d] = Above(log[d], r.last)]
        /\ cut' = (cut \/ log'[d] # log[d])
        /\ UNCHANGED <<calls, late, snaps>>
    BY <1>4 DEF InstallSnapshot, netVars
  <2>4. TypeOK'
    BY <1>0, <1>4, <2>1, <2>2 DEF InstallSnapshot, TypeOK, Role, driverVars, netVars, histVars
  <2>5. ASSUME ~cut' PROVE LogWellFormed' /\ RequestsFormed'
    <3>1. ~cut /\ log' = log
      BY <1>0, <2>3, <2>5 DEF TypeOK
    <3> DEFINE t == r.term
    <3>2. /\ t \in Nat /\ term \in [Node -> Nat] /\ log \in [Node -> Seq(Entry)]
          /\ term' = [term EXCEPT ![d] = t] /\ t >= term[d]
      BY <1>0, <2>1, <2>3 DEF TypeOK
    <3> HIDE DEF t
    <3>3. \A n \in Node : term[n] \in Nat /\ term'[n] \in Nat /\ term[n] <= term'[n]
      BY <3>2
    <3>4. LogWellFormed'
      <4> SUFFICES ASSUME NEW n \in Node, NEW i \in 1..Len(log[n])
                   PROVE  /\ log[n][i].index = i
                          /\ log[n][i].term <= term'[n]
                          /\ i > 1 => log[n][i - 1].term <= log[n][i].term
        BY <3>1 DEF LogWellFormed
      <4>1. log[n][i].term \in Nat
        BY <3>2, EntryTerm
      <4>2. /\ log[n][i].index = i
            /\ log[n][i].term <= term[n]
            /\ i > 1 => log[n][i - 1].term <= log[n][i].term
        BY <3>1 DEF LifeInv, LogWellFormed
      <4>3. log[n][i].term <= term'[n]
        BY <3>3, <4>1, <4>2
      <4> QED BY <4>2, <4>3
    <3> QED BY <2>3, <3>1, <3>4 DEF LifeInv, RequestsFormed
  <2> QED BY <1>0, <2>3, <2>4, <2>5 DEF LifeInv
<1>5. ASSUME NEW n \in Node, CompactLog(n) PROVE LifeInv'
  <2>1. PICK r \in snaps : log' = [log EXCEPT ![n] = Above(log[n], r.last)]
    BY <1>5 DEF CompactLog
  <2>2. r.last \in Nat
    BY <1>0
  <2>3. Above(log[n], r.last) \in Seq(Entry)
    BY <1>0, <2>2, AboveType DEF TypeOK
  <2>4. /\ cut' = (cut \/ log'[n] # log[n])
        /\ UNCHANGED <<term, calls, late, snaps>>
    BY <1>5 DEF CompactLog, netVars
  <2>5. TypeOK'
    BY <1>0, <1>5, <2>1, <2>3 DEF CompactLog, TypeOK, driverVars, netVars, histVars
  <2>6. ASSUME ~cut' PROVE LogWellFormed' /\ RequestsFormed'
    <3>1. ~cut /\ log' = log
      BY <1>0, <2>1, <2>4, <2>6 DEF TypeOK
    <3> QED BY <2>4, <3>1 DEF LifeInv, LogWellFormed, RequestsFormed
  <2> QED BY <1>0, <2>4, <2>5, <2>6 DEF LifeInv
<1>6. CASE UNCHANGED allVars
  <2>1. UNCHANGED vars /\ UNCHANGED <<snaps, cut>>
    BY <1>6 DEF allVars, lifeVars
  <2>2. TypeOK'
    BY <1>0, <2>1, NextType
  <2>3. ~cut => LogWellFormed' /\ RequestsFormed'
    BY <2>1 DEF LifeInv, vars, nodeVars, netVars, LogWellFormed, RequestsFormed
  <2> QED BY <1>0, <2>1, <2>2, <2>3 DEF LifeInv
<1> QED BY <1>1, <1>2, <1>3, <1>4, <1>5, <1>6 DEF NextLife

\* Replacing nodes that forget everything leaves every log a contiguous run
\* of indexes, in any cluster and any number of times, as long as no log was
\* cut at its front.
THEOREM LogsFormedUnlessCut == SpecLife => []WellFormedUnlessCut
<1>1. InitLife => LifeInv
  <2> SUFFICES ASSUME InitLife PROVE LifeInv
    OBVIOUS
  <2>1. Init /\ snaps = {}
    BY DEF InitLife
  <2>2. TypeOK
    BY <2>1, InitType
  <2>3. LogWellFormed /\ RequestsFormed
    BY <2>1 DEF Init, LogWellFormed, RequestsFormed
  <2> QED BY <2>1, <2>2, <2>3 DEF LifeInv
<1>2. LifeInv => WellFormedUnlessCut
  BY DEF LifeInv, WellFormedUnlessCut
<1> QED BY <1>1, <1>2, NextLifeInv, PTL DEF SpecLife
=============================================================================
