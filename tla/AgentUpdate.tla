----------------------------- MODULE AgentUpdate -----------------------------
(***************************************************************************)
(* How an agent replaces its own program: process_update and apply_update  *)
(* of src/agent_client.rs.  run_agent starts two threads that call         *)
(* process_update, one after each heartbeat that names a target and one    *)
(* periodically; they share the accepted update counter and the two files, *)
(* the executable and its backup.  The agent may be killed at any step.    *)
(*                                                                         *)
(* A file is written by truncating it and filling it, in place: it is Torn *)
(* from the first step to the second.  The platform is one that lets the   *)
(* program of a running process be written (Linux refuses it, and there    *)
(* every update fails after its backup).                                   *)
(***************************************************************************)
EXTENDS Integers, FiniteSets

CONSTANTS
  Thread,        \* the threads that call process_update
  MaxVersion,    \* releases are 1..MaxVersion, all signed
  CounterOf      \* update_counter of each: its place in the order of publication

Version == 1..MaxVersion

ASSUME AgentUpdateAssumption ==
  /\ MaxVersion \in Nat \ {0} /\ Thread # {}
  /\ CounterOf \in [Version -> Nat \ {0}]

Torn == 0

VARIABLES
  exe, bak,   \* the executable and its .bak: a version, or Torn
  running,    \* the version of the process (0: the program does not start)
  counter,    \* last_accepted_update_counter
  pc, job,    \* of each thread: where it is in process_update, and with what
  updateMishaps     \* history: "overlap", a thread went on to install while another
              \* one did; "unrestored", a backup could not be copied back

updateVars == <<exe, bak, running, counter, pc, job, updateMishaps>>

\* saw: the executable when its copying began; alone: nobody else wrote the
\* executable since this thread began to.
Job == [version : {Torn} \cup Version, down : BOOLEAN,
        saw : {Torn} \cup Version, alone : BOOLEAN]
NoJob == [version |-> Torn, down |-> FALSE, saw |-> Torn, alone |-> TRUE]

UpdateInit ==
  /\ exe = 1 /\ bak = Torn /\ running = 1 /\ counter = 0
  /\ pc = [t \in Thread |-> "idle"]
  /\ job = [t \in Thread |-> NoJob]
  /\ updateMishaps = {}

Goto(t, from, to) == pc[t] = from /\ pc' = [pc EXCEPT ![t] = to]

Ends(t, from) == Goto(t, from, "idle") /\ job' = [job EXCEPT ![t] = NoJob]

\* Mutant: downgrades are refused, replayed counters are not.
TrustedAnyCounter(j) == j.down \/ j.version >= running

\* verify_downloaded_update
Trusted(j) == j.down \/ (j.version >= running /\ CounterOf[j.version] > counter)

-----------------------------------------------------------------------------
\* check_update and download_update, which verifies what it fetched.
Fetch(t, v, down) ==
  LET j == [NoJob EXCEPT !.version = v, !.down = down]
  IN /\ running # Torn
     /\ Goto(t, "idle", "fetched")
     /\ Trusted(j)
     /\ job' = [job EXCEPT ![t] = j]
     /\ UNCHANGED <<exe, bak, running, counter, updateMishaps>>

\* The second verification, before apply_update.
Verify(t) ==
  /\ \/ /\ Goto(t, "fetched", "backup") /\ Trusted(job[t]) /\ UNCHANGED job
        /\ updateMishaps' = IF \E u \in Thread \ {t} : pc[u] \notin {"idle", "fetched"}
                        THEN updateMishaps \cup {"overlap"} ELSE updateMishaps
     \/ Ends(t, "fetched") /\ ~Trusted(job[t]) /\ UNCHANGED updateMishaps
  /\ UNCHANGED <<exe, bak, running, counter>>

\* Copying the executable to .bak begins.
BackupStart(t) ==
  /\ Goto(t, "backup", "copying")
  /\ bak' = Torn
  /\ job' = [job EXCEPT ![t].saw = exe]
  /\ UNCHANGED <<exe, running, counter, updateMishaps>>

\* The copy is done: the file, unless it was written meanwhile.
BackupEnd(t) ==
  /\ Goto(t, "copying", "write")
  /\ bak' = IF job[t].saw = exe THEN exe ELSE Torn
  /\ UNCHANGED <<exe, running, counter, job, updateMishaps>>

\* Copying fails: the update ends here.
BackupFails(t) ==
  /\ Ends(t, "copying")
  /\ UNCHANGED <<exe, bak, running, counter, updateMishaps>>

\* Mutant: the executable is opened for writing before its copy is complete.
WriteStartEarly(t) ==
  /\ pc[t] \in {"copying", "write"} /\ pc' = [pc EXCEPT ![t] = "writing"]
  /\ exe' = Torn
  /\ UNCHANGED <<bak, running, counter, job, updateMishaps>>

\* Writing the new program over the executable begins.
WriteStart(t) ==
  /\ Goto(t, "write", "writing")
  /\ exe' = Torn
  /\ job' = [u \in Thread |-> [job[u] EXCEPT !.alone =
                u = t /\ \A w \in Thread \ {t} : pc[w] # "writing"]]
  /\ UNCHANGED <<bak, running, counter, updateMishaps>>

\* Mutant: the counter of the next release is accepted.
WriteEndNext(t) ==
  /\ Ends(t, "writing")
  /\ exe' = job[t].version
  /\ counter' = CounterOf[job[t].version] + 1
  /\ UNCHANGED <<bak, running, updateMishaps>>

\* The program is written, and its counter accepted.
WriteEnd(t) ==
  /\ Ends(t, "writing")
  /\ exe' \in IF job[t].alone THEN {job[t].version} ELSE {Torn, job[t].version}
  /\ counter' = CounterOf[job[t].version]
  /\ UNCHANGED <<bak, running, updateMishaps>>

\* Writing fails, and the backup is copied back.
WriteFails(t) ==
  /\ Ends(t, "writing")
  /\ \/ exe' = bak /\ UNCHANGED updateMishaps
     \/ exe' = Torn /\ updateMishaps' = updateMishaps \cup {"unrestored"}
  /\ UNCHANGED <<bak, running, counter>>

\* The process is killed or restarted: the program on disk is started.
AgentRestart ==
  /\ running' = exe
  /\ counter' = 0
  /\ pc' = [t \in Thread |-> "idle"]
  /\ job' = [t \in Thread |-> NoJob]
  /\ UNCHANGED <<exe, bak, updateMishaps>>

UpdateNext ==
  \/ \E t \in Thread, v \in Version, down \in BOOLEAN : Fetch(t, v, down)
  \/ \E t \in Thread : Verify(t)
  \/ \E t \in Thread : BackupStart(t)
  \/ \E t \in Thread : BackupEnd(t)
  \/ \E t \in Thread : BackupFails(t)
  \/ \E t \in Thread : WriteStart(t)
  \/ \E t \in Thread : WriteEnd(t)
  \/ \E t \in Thread : WriteFails(t)
  \/ AgentRestart

UpdateSpec == UpdateInit /\ [][UpdateNext]_updateVars

-----------------------------------------------------------------------------
(* Properties *)

\* Every variable has its type.
UpdateTypeOK ==
  /\ {exe, bak, running} \subseteq {Torn} \cup Version
  /\ counter \in {0} \cup {CounterOf[v] : v \in Version}
  /\ pc \in [Thread -> {"idle", "fetched", "backup", "copying", "write", "writing"}]
  /\ job \in [Thread -> Job]
  /\ updateMishaps \subseteq {"overlap", "unrestored"}

\* At every moment the executable or its backup is a whole program, so that a
\* kill at any step leaves one to start.  Only two things can take both: a
\* backup that could not be copied back, which the next update takes for the
\* program, and the two threads installing at once.
Recoverable == updateMishaps = {} => exe # Torn \/ bak # Torn

\* What was verified still holds when the file is written, however long ago it
\* was and whatever the other thread installed meanwhile: an update that is no
\* asked-for downgrade is installed over no newer running version and, unless
\* the two threads install at once, over no newer accepted counter.
InstalledAsVerified ==
  [][\A t \in Thread :
       pc[t] = "writing" /\ pc'[t] = "idle" /\ exe' = job[t].version /\ ~job[t].down
         /\ counter' = CounterOf[job[t].version]
       => /\ job[t].version >= running
          /\ "overlap" \notin updateMishaps => CounterOf[job[t].version] > counter]_updateVars
=============================================================================
