------------------------------ MODULE Playbook -------------------------------
(***************************************************************************)
(* Playbook executions (PlaybookEngine, src/playbook.rs) as the routes of  *)
(* the server drive them: register, run, approve and go on.  One playbook  *)
(* id, whose definition may be registered anew while executions wait at an *)
(* approval gate.                                                          *)
(*                                                                         *)
(* A step is work or a gate (Approval); what work does is text in its      *)
(* result.  A Conditional step is work too: the branch it chooses is named *)
(* in its result, and the run goes on with the next step of the list.  A   *)
(* run goes from gate to gate under the AppState lock and is one step.     *)
(* dispatch_step fails for no step, so the on_failure jump is never taken  *)
(* and is left out.  remove, update_step and finish_execution have no      *)
(* caller in the server.                                                   *)
(***************************************************************************)
EXTENDS Integers, Sequences, FiniteSets

CONSTANTS
  Books,     \* definitions: sequences of [id, kind]
  StepId,    \* ids of steps
  MaxExec    \* bound: executions

ASSUME PlaybookAssumption ==
  /\ Books \subseteq Seq([id : StepId, kind : {"work", "gate"}])
  /\ MaxExec \in Nat

VARIABLES
  book, bookEnabled,   \* the registered definition
  execs,           \* the executions, in the order they were started
  \* history, for each execution: the steps that were run, each with the gates
  \* before it in the definition it was run from, and the gates approved
  ran, approved

playbookVars == <<book, bookEnabled, execs, ran, approved>>

NoStep == "none"
StepStatus == {"none", "Pending", "Succeeded", "AwaitingApproval"}
Execution == [status : {"Running", "AwaitingApproval", "Succeeded"},
              results : [StepId -> StepStatus],   \* none: no such step
              pending : StepId \cup {NoStep}]     \* pending_approval_step

Ids(b) == {b[i].id : i \in DOMAIN b}
GatesBefore(b, i) == {b[j].id : j \in {k \in 1..(i - 1) : b[k].kind = "gate"}}

PlaybookInit ==
  /\ book \in Books /\ bookEnabled = TRUE
  /\ execs = <<>> /\ ran = <<>> /\ approved = <<>>

-----------------------------------------------------------------------------
\* register
Register(b, on) ==
  /\ book' = b /\ bookEnabled' = on
  /\ UNCHANGED <<execs, ran, approved>>

\* start_execution: a record of the steps the definition has now.
Started ==
  [status |-> "Running", pending |-> NoStep,
   results |-> [s \in StepId |-> IF s \in Ids(book) THEN "Pending" ELSE "none"]]

\* Mutant: a gate asks for its approval and does not wait for it.
HaltsNever(from) == Len(book) + 1

\* The gate at which a run from step number from halts; past the end if none.
Halts(from) ==
  LET gates == {i \in from..Len(book) : book[i].kind = "gate"}
  IN IF gates = {} THEN Len(book) + 1 ELSE CHOOSE g \in gates : \A h \in gates : g <= h

\* The steps a run from step number from carries out.
RunUpTo(from) == {book[i].id : i \in from..(Halts(from) - 1)}

\* continue_execution: what the run makes of execution x.  A step that the
\* execution has no record of is run and leaves none.
Continued(x, from) ==
  LET g == Halts(from)
      over == g > Len(book)
      gate == IF over THEN NoStep ELSE book[g].id
  IN [x EXCEPT
        !.status = IF over THEN "Succeeded" ELSE "AwaitingApproval",
        !.pending = gate,
        !.results = [s \in StepId |->
           IF @[s] = "none" THEN "none"
           ELSE IF s = gate THEN "AwaitingApproval"
           ELSE IF s \in RunUpTo(from) THEN "Succeeded" ELSE @[s]]]

RanFrom(from) == {<<book[i].id, GatesBefore(book, i)>> : i \in from..(Halts(from) - 1)}

\* The route /api/playbooks/execute: the record alone, nothing runs.
Execute ==
  /\ bookEnabled /\ Len(execs) < MaxExec
  /\ execs' = Append(execs, Started)
  /\ ran' = Append(ran, {}) /\ approved' = Append(approved, {})
  /\ UNCHANGED <<book, bookEnabled>>

\* run_playbook
RunPlaybook ==
  /\ bookEnabled /\ Len(execs) < MaxExec
  /\ execs' = Append(execs, Continued(Started, 1))
  /\ ran' = Append(ran, RanFrom(1)) /\ approved' = Append(approved, {})
  /\ UNCHANGED <<book, bookEnabled>>

\* The gate execution e waits at is in the definition registered now.
GateStands(e) == execs[e].pending \in Ids(book)

\* Mutant: the gate itself is run again.
ResumeIndexAgain(e) == CHOOSE i \in DOMAIN book : book[i].id = execs[e].pending

\* The step after the gate, by its id in the definition registered now.
ResumeIndex(e) ==
  1 + CHOOSE i \in DOMAIN book : /\ book[i].id = execs[e].pending
                                 /\ \A j \in 1..(i - 1) : book[j].id # execs[e].pending

\* resume_execution
ResumeExecution(e) ==
  /\ execs[e].status = "AwaitingApproval"
  /\ GateStands(e)
  /\ LET x == [execs[e] EXCEPT !.results[execs[e].pending] =
                  IF @ = "none" THEN @ ELSE "Succeeded"]
     IN execs' = [execs EXCEPT ![e] = Continued(x, ResumeIndex(e))]
  /\ ran' = [ran EXCEPT ![e] = @ \cup RanFrom(ResumeIndex(e))]
  /\ approved' = [approved EXCEPT ![e] = @ \cup {execs[e].pending}]
  /\ UNCHANGED <<book, bookEnabled>>

PlaybookNext ==
  \/ \E b \in Books, on \in BOOLEAN : Register(b, on)
  \/ Execute
  \/ RunPlaybook
  \/ \E e \in DOMAIN execs : ResumeExecution(e)

PlaybookSpec == PlaybookInit /\ [][PlaybookNext]_playbookVars

\* Approvers approve what waits for them.
Approving == \A e \in 1..MaxExec : WF_playbookVars(e \in DOMAIN execs /\ ResumeExecution(e))

-----------------------------------------------------------------------------
(* Properties *)

\* Every variable has its type.
PlaybookTypeOK ==
  /\ book \in Books /\ bookEnabled \in BOOLEAN
  /\ execs \in Seq(Execution) /\ Len(execs) <= MaxExec
  /\ Len(ran) = Len(execs) /\ Len(approved) = Len(execs)

\* Every definition that has a gate has the same gates before it.
SameGates ==
  \A b, c \in Books : \A i \in DOMAIN b, j \in DOMAIN c :
     b[i].kind = "gate" /\ b[i].id = c[j].id
       => c[j].kind = "gate" /\ GatesBefore(c, j) = GatesBefore(b, i)

\* No step is run before every gate that precedes it in the playbook was
\* approved for this execution, as long as a playbook keeps its gates when it
\* is registered anew (SameGates): an execution that waits goes on behind its
\* gate in the new definition and never comes back to a gate put before it.
GatesApproved ==
  \A e \in DOMAIN execs : \A r \in ran[e] : r[2] \subseteq approved[e]

Blocked(e) == e \in DOMAIN execs /\ execs[e].status = "AwaitingApproval"

\* An execution that gets its approvals does not wait for ever, unless its gate
\* is not in a definition registered meanwhile: resume_execution then fails, and
\* goes on failing until the gate is registered again.
ApprovedEnds ==
  \A e \in 1..MaxExec :
     Blocked(e) ~> (e \in DOMAIN execs /\ (~Blocked(e) \/ ~GateStands(e)))
=============================================================================
