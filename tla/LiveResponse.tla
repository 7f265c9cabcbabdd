---------------------------- MODULE LiveResponse -----------------------------
(***************************************************************************)
(* Live response sessions (LiveResponseEngine, src/live_response.rs) and   *)
(* the routes that open them and submit commands                           *)
(* (src/server_dynamic_routes.rs).                                         *)
(*                                                                         *)
(* A route reads the clock before it takes the AppState lock, so a call    *)
(* is served with a time up to MaxWait old, and calls may be served in     *)
(* another order than their times.  Commands are named by what the         *)
(* allowlist says of them: name and arguments are allowed, or one of the   *)
(* two is not, or it depends on the list operators set.  A record keeps    *)
(* what became of its command, not its text.                               *)
(***************************************************************************)
EXTENDS Integers, FiniteSets, Sequences

CONSTANTS
  Timeout,       \* timeout_secs
  MaxWait,       \* longest wait for the AppState lock
  MaxTime,       \* bound: the clock
  MaxSessions,   \* bound: sessions opened
  MaxCommands    \* bound: commands recorded

ASSUME LiveResponseAssumption ==
  /\ Timeout \in Nat /\ MaxWait \in Nat /\ MaxTime \in Nat
  /\ MaxSessions \in Nat /\ MaxCommands \in Nat

VARIABLES
  sessions,   \* in the order they were opened
  nextCmd,    \* next_cmd_id
  allow,      \* the platform's allowlist lets the command "custom" pass
  clock,
  real        \* history: when each session was really last active

liveVars == <<sessions, nextCmd, allow, clock, real>>

Command == {"listed", "unlisted", "custom"}
SessionStatus == {"Active", "TimedOut", "ClosedByOperator", "ClosedByPolicy", "Error"}
CommandStatus == {"Queued", "Running", "Completed", "Failed", "Denied", "TimedOut"}
Record == [id : 1..MaxCommands, status : CommandStatus]
Session == [status : SessionStatus, last : 0..MaxTime, commands : Seq(Record), files : Nat]

\* The times a call that is served now may have read.
Read == {t \in 0..clock : clock - t <= MaxWait}

LiveInit ==
  /\ sessions = <<>> /\ nextCmd = 1 /\ allow = FALSE
  /\ clock = 0 /\ real = <<>>

-----------------------------------------------------------------------------
\* open_session
OpenSession(now) ==
  /\ Len(sessions) < MaxSessions
  /\ sessions' = Append(sessions, [status |-> "Active", last |-> now,
                                   commands |-> <<>>, files |-> 0])
  /\ real' = Append(real, clock)
  /\ UNCHANGED <<nextCmd, allow, clock>>

\* set_allowed_commands
SetAllowedCommands ==
  /\ allow' = ~allow
  /\ UNCHANGED <<sessions, nextCmd, clock, real>>

Allowed(c) == c = "listed" \/ (c = "custom" /\ allow)

\* Mutant: the session times out in the second its timeout is reached.
IdleTooSoon(s, now) == now - sessions[s].last >= Timeout

\* Idle for longer than the timeout; the subtraction saturates.
Idle(s, now) == now - sessions[s].last > Timeout

Recorded(s, status) ==
  [sessions[s] EXCEPT !.commands = Append(@, [id |-> nextCmd, status |-> status])]

\* submit_command finds the session timed out.
SubmitLate(s, now) ==
  /\ sessions[s].status = "Active" /\ Idle(s, now)
  /\ sessions' = [sessions EXCEPT ![s].status = "TimedOut"]
  /\ UNCHANGED <<nextCmd, allow, clock, real>>

\* submit_command denies the command, by name or by argument.
SubmitDenied(s, c, now) ==
  /\ sessions[s].status = "Active" /\ ~Idle(s, now)
  /\ ~Allowed(c) /\ nextCmd <= MaxCommands
  /\ sessions' = [sessions EXCEPT ![s] = Recorded(s, "Denied")]
  /\ nextCmd' = nextCmd + 1
  /\ UNCHANGED <<allow, clock, real>>

\* submit_command queues the command.
SubmitQueued(s, c, now) ==
  /\ sessions[s].status = "Active" /\ ~Idle(s, now)
  /\ Allowed(c) /\ nextCmd <= MaxCommands
  /\ sessions' = [sessions EXCEPT ![s] = [Recorded(s, "Queued") EXCEPT !.last = now]]
  /\ nextCmd' = nextCmd + 1
  /\ real' = [real EXCEPT ![s] = clock]
  /\ UNCHANGED <<allow, clock>>

\* complete_command, with what the agent reports.
CompleteCommand(s, i, status, now) ==
  /\ i \in 1..Len(sessions[s].commands)
  /\ sessions' = [sessions EXCEPT ![s].commands[i].status = status, ![s].last = now]
  /\ real' = [real EXCEPT ![s] = clock]
  /\ UNCHANGED <<nextCmd, allow, clock>>

\* record_file_retrieval
RecordFileRetrieval(s, now) ==
  /\ sessions[s].files < 1   \* bound
  /\ sessions' = [sessions EXCEPT ![s].files = @ + 1, ![s].last = now]
  /\ real' = [real EXCEPT ![s] = clock]
  /\ UNCHANGED <<nextCmd, allow, clock>>

\* close_session
CloseSession(s, reason) ==
  /\ sessions' = [sessions EXCEPT ![s].status = reason]
  /\ UNCHANGED <<nextCmd, allow, clock, real>>

\* check_timeouts
CheckTimeouts(now) ==
  /\ sessions' = [s \in DOMAIN sessions |->
       IF sessions[s].status = "Active" /\ Idle(s, now)
         THEN [sessions[s] EXCEPT !.status = "TimedOut"] ELSE sessions[s]]
  /\ UNCHANGED <<nextCmd, allow, clock, real>>

Tick ==
  /\ clock < MaxTime /\ clock' = clock + 1
  /\ UNCHANGED <<sessions, nextCmd, allow, real>>

-----------------------------------------------------------------------------
\* The routes of the server open sessions and submit commands; the rest of the
\* engine is called by nobody else yet, check_timeouts included.
LiveNext ==
  \/ \E now \in Read : OpenSession(now)
  \/ \E s \in DOMAIN sessions, now \in Read : SubmitLate(s, now)
  \/ \E s \in DOMAIN sessions, c \in Command, now \in Read : SubmitDenied(s, c, now)
  \/ \E s \in DOMAIN sessions, c \in Command, now \in Read : SubmitQueued(s, c, now)
  \/ Tick
  \/ SetAllowedCommands
  \/ \E s \in DOMAIN sessions, i \in 1..MaxCommands, now \in Read :
        CompleteCommand(s, i, "Completed", now)
  \/ \E s \in DOMAIN sessions, now \in Read : RecordFileRetrieval(s, now)
  \/ \E s \in DOMAIN sessions, reason \in {"ClosedByOperator"} : CloseSession(s, reason)
  \/ \E now \in Read : CheckTimeouts(now)

LiveSpec == LiveInit /\ [][LiveNext]_liveVars

-----------------------------------------------------------------------------
(* Properties *)

\* Every variable has its type.
LiveTypeOK ==
  /\ sessions \in Seq(Session) /\ Len(sessions) <= MaxSessions
  /\ nextCmd \in 1..(MaxCommands + 1) /\ allow \in BOOLEAN
  /\ clock \in 0..MaxTime
  /\ real \in Seq(0..MaxTime) /\ Len(real) = Len(sessions)

\* Times read before the lock blur the timeout by no more than the wait for
\* the lock, whatever order the calls are served in: a session times out only
\* when it was idle for the timeout, less the longest wait, and a command is
\* queued only when it was active within the timeout, plus the longest wait.
TimeoutKept ==
  [][\A s \in DOMAIN sessions :
       /\ sessions[s].status = "Active" /\ sessions'[s].status = "TimedOut"
            => clock - real[s] > Timeout - MaxWait
       /\ Len(sessions'[s].commands) > Len(sessions[s].commands)
            => clock - real[s] <= Timeout + MaxWait]_liveVars
=============================================================================
