--------------------------- MODULE EndpointsProofs ---------------------------
(***************************************************************************)
(* Theorems about what concerns one agent at a time: the agent's own       *)
(* update, live response sessions on it, and the server's registry of      *)
(* agents.  The three share no state, and each has a specification and     *)
(* an inductive invariant of its own.                                      *)
(***************************************************************************)
EXTENDS Endpoints, FiniteSetTheorems, TLAPS

-----------------------------------------------------------------------------
(* AgentUpdate: any number of threads, any number of releases. *)

\* Thread t is past its second verification.
Installing(t) == pc[t] \notin {"idle", "fetched"}

\* Two threads install at once only after the mishap that names it.
OneInstalls ==
  "overlap" \notin updateMishaps =>
     \A t, u \in Thread : Installing(t) /\ Installing(u) => t = u

\* What a thread works with was verified against what is still so.
JobsVerified ==
  \A t \in Thread : pc[t] # "idle" =>
     /\ job[t].version \in Version /\ running # Torn
     /\ ~job[t].down =>
          /\ job[t].version >= running
          /\ Installing(t) /\ "overlap" \notin updateMishaps => CounterOf[job[t].version] > counter

\* While nothing went wrong, a program that is torn is being written by the
\* one thread that installs, or was when the agent was killed, and has a
\* whole backup; the program is whole until its copy is.
BackupFirst ==
  updateMishaps = {} =>
     /\ exe = Torn => bak # Torn
     /\ exe = Torn /\ running # Torn => \E t \in Thread : pc[t] = "writing"
     /\ \A t \in Thread :
           /\ pc[t] = "copying" => job[t].saw = exe
           /\ pc[t] \in {"write", "writing"} => bak # Torn
           /\ pc[t] = "writing" => job[t].alone

UpdateInv == UpdateTypeOK /\ OneInstalls /\ JobsVerified /\ BackupFirst

\* The types the steps need, field by field.
LEMMA UpdateTypes ==
  ASSUME UpdateTypeOK
  PROVE  /\ exe \in Nat /\ bak \in Nat /\ running \in Nat /\ counter \in Nat
         /\ MaxVersion \in Nat
         /\ \A t \in Thread : /\ job[t] \in Job
                              /\ job[t].version \in {Torn} \cup Version
                              /\ job[t].version \in Nat
                              /\ job[t].down \in BOOLEAN
                              /\ job[t].saw \in {Torn} \cup Version
                              /\ job[t].alone \in BOOLEAN
BY AgentUpdateAssumption DEF UpdateTypeOK, Job, Version, Torn

\* Every step keeps the types.
LEMMA UpdateTypeStep == UpdateInv /\ [UpdateNext]_updateVars => UpdateTypeOK'
<1> SUFFICES ASSUME UpdateTypeOK, JobsVerified, [UpdateNext]_updateVars PROVE UpdateTypeOK'
  BY DEF UpdateInv
<1>0. /\ {exe, bak, running} \subseteq {Torn} \cup Version
      /\ counter \in {0} \cup {CounterOf[v] : v \in Version}
      /\ pc \in [Thread -> {"idle", "fetched", "backup", "copying", "write", "writing"}]
      /\ job \in [Thread -> Job]
      /\ updateMishaps \subseteq {"overlap", "unrestored"}
  BY DEF UpdateTypeOK
<1>n. NoJob \in Job
  BY DEF NoJob, Job
<1>g. ASSUME NEW t \in Thread, NEW from,
             NEW to \in {"idle", "fetched", "backup", "copying", "write", "writing"},
             Goto(t, from, to)
      PROVE  pc' \in [Thread -> {"idle", "fetched", "backup", "copying", "write", "writing"}]
  BY <1>0, <1>g DEF Goto
<1>e. ASSUME NEW t \in Thread, NEW from, Ends(t, from)
      PROVE  /\ pc' \in [Thread -> {"idle", "fetched", "backup", "copying", "write", "writing"}]
             /\ job' \in [Thread -> Job]
  BY <1>0, <1>n, <1>g, <1>e DEF Ends
<1>1. ASSUME NEW t \in Thread, NEW v \in Version, NEW down \in BOOLEAN, Fetch(t, v, down)
      PROVE  UpdateTypeOK'
  <2> DEFINE j == [NoJob EXCEPT !.version = v, !.down = down]
  <2>1. j \in Job
    BY <1>n DEF Job, NoJob
  <2>2. job' = [job EXCEPT ![t] = j] /\ Goto(t, "idle", "fetched")
        /\ UNCHANGED <<exe, bak, running, counter, updateMishaps>>
    BY <1>1 DEF Fetch
  <2> HIDE DEF j
  <2>3. job' \in [Thread -> Job]
    BY <1>0, <2>1, <2>2
  <2> QED BY <1>0, <1>g, <2>2, <2>3 DEF UpdateTypeOK
<1>2. ASSUME NEW t \in Thread, Verify(t) PROVE UpdateTypeOK'
  <2>1. /\ pc' \in [Thread -> {"idle", "fetched", "backup", "copying", "write", "writing"}]
        /\ job' \in [Thread -> Job]
    BY <1>0, <1>2, <1>g, <1>e DEF Verify
  <2>2. updateMishaps' \subseteq {"overlap", "unrestored"}
    BY <1>0, <1>2 DEF Verify
  <2> QED BY <1>0, <1>2, <2>1, <2>2 DEF Verify, UpdateTypeOK
<1>3. ASSUME NEW t \in Thread, BackupStart(t) PROVE UpdateTypeOK'
  <2>1. [job[t] EXCEPT !.saw = exe] \in Job
    BY <1>0 DEF Job
  <2>2. job' = [job EXCEPT ![t] = [job[t] EXCEPT !.saw = exe]]
    BY <1>3 DEF BackupStart
  <2>3. job' \in [Thread -> Job]
    BY <1>0, <2>1, <2>2
  <2> QED BY <1>0, <1>3, <1>g, <2>3 DEF BackupStart, UpdateTypeOK
<1>4. ASSUME NEW t \in Thread, BackupEnd(t) PROVE UpdateTypeOK'
  BY <1>0, <1>4, <1>g DEF BackupEnd, UpdateTypeOK
<1>5. ASSUME NEW t \in Thread, BackupFails(t) PROVE UpdateTypeOK'
  BY <1>0, <1>5, <1>e DEF BackupFails, UpdateTypeOK
<1>6. ASSUME NEW t \in Thread, WriteStart(t) PROVE UpdateTypeOK'
  <2>1. job' \in [Thread -> Job]
    <3> DEFINE a(u) == u = t /\ \A w \in Thread \ {t} : pc[w] # "writing"
    <3>1. \A u \in Thread : [job[u] EXCEPT !.alone = a(u)] \in Job
      BY <1>0 DEF Job
    <3>2. job' = [u \in Thread |-> [job[u] EXCEPT !.alone = a(u)]]
      BY <1>6 DEF WriteStart
    <3> HIDE DEF a
    <3> QED BY <3>1, <3>2
  <2> QED BY <1>0, <1>6, <1>g, <2>1 DEF WriteStart, UpdateTypeOK
<1>7. ASSUME NEW t \in Thread, WriteEnd(t) PROVE UpdateTypeOK'
  <2>1. job[t].version \in Version
    BY <1>0, <1>7 DEF WriteEnd, Ends, Goto, JobsVerified
  <2>2. exe' \in {Torn} \cup Version /\ running' = running /\ bak' = bak /\ updateMishaps' = updateMishaps
    BY <1>7, <2>1 DEF WriteEnd
  <2>3. counter' \in {0} \cup {CounterOf[v] : v \in Version}
    BY <1>7, <2>1 DEF WriteEnd
  <2>4. Ends(t, "writing")
    BY <1>7 DEF WriteEnd
  <2> QED BY <1>0, <1>e, <2>2, <2>3, <2>4 DEF UpdateTypeOK
<1>8. ASSUME NEW t \in Thread, WriteFails(t) PROVE UpdateTypeOK'
  BY <1>0, <1>8, <1>e DEF WriteFails, UpdateTypeOK
<1>9. CASE AgentRestart
  BY <1>0, <1>9, <1>n DEF AgentRestart, UpdateTypeOK
<1>10. CASE UNCHANGED updateVars
  BY <1>0, <1>10 DEF updateVars, UpdateTypeOK
<1> QED BY <1>1, <1>2, <1>3, <1>4, <1>5, <1>6, <1>7, <1>8, <1>9, <1>10 DEF UpdateNext

\* What a step of thread t leaves of the other threads, and what it does to t.
LEMMA ThreadMoves ==
  ASSUME UpdateTypeOK, NEW t \in Thread, NEW from, NEW to, Goto(t, from, to)
  PROVE  /\ pc[t] = from /\ pc'[t] = to
         /\ \A u \in Thread : u # t => pc'[u] = pc[u]
BY DEF UpdateTypeOK, Goto

LEMMA ThreadEnds ==
  ASSUME UpdateTypeOK, NEW t \in Thread, NEW from, Ends(t, from)
  PROVE  /\ pc[t] = from /\ pc'[t] = "idle"
         /\ \A u \in Thread : u # t => pc'[u] = pc[u] /\ job'[u] = job[u]
BY DEF UpdateTypeOK, Goto, Ends

\* A thread that ends, or goes on without verifying anew, adds nobody to those
\* that install.
LEMMA StillOne ==
  ASSUME OneInstalls, updateMishaps \subseteq updateMishaps',
         \A u \in Thread : Installing(u)' => Installing(u)
  PROVE  OneInstalls'
BY DEF OneInstalls

\* Only the second verification lets one more thread install, and it says so
\* when another one does.
LEMMA OneStep == UpdateInv /\ [UpdateNext]_updateVars => OneInstalls'
<1> SUFFICES ASSUME UpdateInv, [UpdateNext]_updateVars PROVE OneInstalls'
  OBVIOUS
<1>0. UpdateTypeOK /\ OneInstalls
  BY DEF UpdateInv
<1>1. ASSUME NEW t \in Thread, NEW v \in Version, NEW down \in BOOLEAN, Fetch(t, v, down)
      PROVE  OneInstalls'
  <2>1. pc'[t] = "fetched" /\ \A u \in Thread : u # t => pc'[u] = pc[u]
    BY <1>0, <1>1, ThreadMoves DEF Fetch
  <2> QED BY <1>0, <1>1, <2>1, StillOne DEF Installing, Fetch
<1>2. ASSUME NEW t \in Thread, Verify(t) PROVE OneInstalls'
  <2>1. CASE Trusted(job[t]) /\ Goto(t, "fetched", "backup")
    <3>1. pc'[t] = "backup" /\ \A u \in Thread : u # t => pc'[u] = pc[u]
      BY <1>0, <2>1, ThreadMoves
    <3>2. updateMishaps' = IF \E u \in Thread \ {t} : Installing(u)
                             THEN updateMishaps \cup {"overlap"} ELSE updateMishaps
      <4>1. pc[t] = "fetched"
        BY <1>0, <2>1, ThreadMoves
      <4>2. ~Ends(t, "fetched")
        BY <1>0, <3>1, ThreadEnds
      <4> QED BY <1>2, <4>2 DEF Verify, Installing
    <3> QED BY <1>0, <3>1, <3>2 DEF OneInstalls, Installing
  <2>2. CASE Ends(t, "fetched") /\ UNCHANGED updateMishaps
    <3>1. pc'[t] = "idle" /\ \A u \in Thread : u # t => pc'[u] = pc[u]
      BY <1>0, <2>2, ThreadEnds
    <3> QED BY <1>0, <2>2, <3>1, StillOne DEF Installing
  <2> QED BY <1>2, <2>1, <2>2 DEF Verify
<1>3. ASSUME NEW t \in Thread, NEW from, NEW to, Installing(t), Goto(t, from, to),
             updateMishaps \subseteq updateMishaps'
      PROVE  OneInstalls'
  <2>1. \A u \in Thread : u # t => pc'[u] = pc[u]
    BY <1>0, <1>3, ThreadMoves
  <2> QED BY <1>0, <1>3, <2>1, StillOne DEF Installing
<1>4. ASSUME NEW t \in Thread, BackupStart(t) PROVE OneInstalls'
  BY <1>3, <1>4 DEF BackupStart, Goto, Installing
<1>5. ASSUME NEW t \in Thread, BackupEnd(t) PROVE OneInstalls'
  BY <1>3, <1>5 DEF BackupEnd, Goto, Installing
<1>6. ASSUME NEW t \in Thread, BackupFails(t) PROVE OneInstalls'
  BY <1>3, <1>6 DEF BackupFails, Ends, Goto, Installing
<1>7. ASSUME NEW t \in Thread, WriteStart(t) PROVE OneInstalls'
  BY <1>3, <1>7 DEF WriteStart, Goto, Installing
<1>8. ASSUME NEW t \in Thread, WriteEnd(t) PROVE OneInstalls'
  BY <1>3, <1>8 DEF WriteEnd, Ends, Goto, Installing
<1>9. ASSUME NEW t \in Thread, WriteFails(t) PROVE OneInstalls'
  <2>1. updateMishaps \subseteq updateMishaps' /\ Goto(t, "writing", "idle")
    BY <1>9 DEF WriteFails, Ends
  <2> QED BY <1>3, <2>1 DEF Goto, Installing
<1>10. CASE AgentRestart
  <2>1. \A u \in Thread : pc'[u] = "idle"
    BY <1>10 DEF AgentRestart
  <2> QED BY <2>1 DEF OneInstalls, Installing
<1>11. CASE UNCHANGED updateVars
  BY <1>0, <1>11, StillOne DEF updateVars, Installing
<1> QED BY <1>1, <1>2, <1>4, <1>5, <1>6, <1>7, <1>8, <1>9, <1>10, <1>11 DEF UpdateNext

\* A thread that goes on with the job it has keeps it verified, as long as
\* neither the running program nor the accepted counter changes.
LEMMA StillVerified ==
  ASSUME JobsVerified, UNCHANGED <<running, counter>>, updateMishaps \subseteq updateMishaps',
         \A u \in Thread : pc'[u] # "idle" =>
            /\ pc[u] # "idle" /\ (Installing(u)' => Installing(u))
            /\ job'[u].version = job[u].version /\ job'[u].down = job[u].down
  PROVE  JobsVerified'
BY DEF JobsVerified

LEMMA VerifiedStep == UpdateInv /\ [UpdateNext]_updateVars => JobsVerified'
<1> SUFFICES ASSUME UpdateInv, [UpdateNext]_updateVars PROVE JobsVerified'
  OBVIOUS
<1>0. UpdateTypeOK /\ OneInstalls /\ JobsVerified
  BY DEF UpdateInv
<1>t. /\ running \in Nat /\ counter \in Nat
      /\ \A t \in Thread : job[t] \in Job /\ job[t].version \in Nat
  BY <1>0, UpdateTypes
<1>1. ASSUME NEW t \in Thread, NEW v \in Version, NEW down \in BOOLEAN, Fetch(t, v, down)
      PROVE  JobsVerified'
  <2> DEFINE j == [NoJob EXCEPT !.version = v, !.down = down]
  <2>1. /\ running # Torn /\ Trusted(j) /\ job' = [job EXCEPT ![t] = j]
        /\ UNCHANGED <<running, counter, updateMishaps>>
    BY <1>1 DEF Fetch
  <2>2. j.version = v /\ j.down = down
    BY DEF NoJob
  <2> HIDE DEF j
  <2>3. job'[t] = j /\ \A u \in Thread : u # t => job'[u] = job[u]
    BY <1>0, <2>1 DEF UpdateTypeOK
  <2>4. pc'[t] = "fetched" /\ \A u \in Thread : u # t => pc'[u] = pc[u]
    BY <1>0, <1>1, ThreadMoves DEF Fetch
  <2>5. ~j.down => j.version >= running
    BY <2>1 DEF Trusted
  <2> SUFFICES ASSUME NEW u \in Thread, pc'[u] # "idle"
               PROVE  /\ job'[u].version \in Version /\ running' # Torn
                      /\ ~job'[u].down =>
                           /\ job'[u].version >= running'
                           /\ Installing(u)' /\ "overlap" \notin updateMishaps' =>
                                CounterOf[job'[u].version] > counter'
    BY DEF JobsVerified
  <2>6. CASE u = t
    BY <2>1, <2>2, <2>3, <2>4, <2>5, <2>6 DEF Installing
  <2>7. CASE u # t
    BY <1>0, <2>1, <2>3, <2>4, <2>7 DEF JobsVerified, Installing
  <2> QED BY <2>6, <2>7
<1>2. ASSUME NEW t \in Thread, Verify(t) PROVE JobsVerified'
  <2>0. UNCHANGED <<running, counter>>
    BY <1>2 DEF Verify
  <2>1. CASE Trusted(job[t]) /\ Goto(t, "fetched", "backup")
    <3>1. pc[t] = "fetched" /\ pc'[t] = "backup" /\ \A u \in Thread : u # t => pc'[u] = pc[u]
      BY <1>0, <2>1, ThreadMoves
    <3>2. job' = job /\ updateMishaps \subseteq updateMishaps'
      <4>1. ~Ends(t, "fetched")
        BY <1>0, <3>1, ThreadEnds
      <4> QED BY <1>2, <4>1 DEF Verify
    <3>3. ~job[t].down => CounterOf[job[t].version] > counter
      BY <2>1 DEF Trusted
    <3> SUFFICES ASSUME NEW u \in Thread, pc'[u] # "idle"
                 PROVE  /\ job[u].version \in Version /\ running # Torn
                        /\ ~job[u].down =>
                             /\ job[u].version >= running
                             /\ Installing(u)' /\ "overlap" \notin updateMishaps' =>
                                  CounterOf[job[u].version] > counter
      BY <2>0, <3>2 DEF JobsVerified
    <3>4. CASE u = t
      BY <1>0, <3>1, <3>3, <3>4 DEF JobsVerified
    <3>5. CASE u # t
      BY <1>0, <3>1, <3>2, <3>5 DEF JobsVerified, Installing
    <3> QED BY <3>4, <3>5
  <2>2. CASE Ends(t, "fetched") /\ UNCHANGED updateMishaps
    <3>1. pc'[t] = "idle" /\ \A u \in Thread : u # t => pc'[u] = pc[u] /\ job'[u] = job[u]
      BY <1>0, <2>2, ThreadEnds
    <3> QED BY <1>0, <2>0, <2>2, <3>1, StillVerified DEF Installing
  <2> QED BY <1>2, <2>1, <2>2 DEF Verify
<1>3. ASSUME NEW t \in Thread, BackupStart(t) PROVE JobsVerified'
  <2>1. pc[t] = "backup" /\ \A u \in Thread : u # t => pc'[u] = pc[u]
    BY <1>0, <1>3, ThreadMoves DEF BackupStart
  <2>2. \A u \in Thread : job'[u].version = job[u].version /\ job'[u].down = job[u].down
    <3> DEFINE j == [job[t] EXCEPT !.saw = exe]
    <3>1. job' = [job EXCEPT ![t] = j]
      BY <1>3 DEF BackupStart
    <3>2. j.version = job[t].version /\ j.down = job[t].down
      BY <1>t DEF Job
    <3> HIDE DEF j
    <3>3. job'[t] = j /\ \A u \in Thread : u # t => job'[u] = job[u]
      BY <1>0, <3>1 DEF UpdateTypeOK
    <3> QED BY <3>2, <3>3
  <2> QED BY <1>0, <1>3, <2>1, <2>2, StillVerified DEF Installing, BackupStart
<1>4. ASSUME NEW t \in Thread, BackupEnd(t) PROVE JobsVerified'
  <2>1. pc[t] = "copying" /\ \A u \in Thread : u # t => pc'[u] = pc[u]
    BY <1>0, <1>4, ThreadMoves DEF BackupEnd
  <2> QED BY <1>0, <1>4, <2>1, StillVerified DEF Installing, BackupEnd
<1>5. ASSUME NEW t \in Thread, BackupFails(t) PROVE JobsVerified'
  <2>1. pc'[t] = "idle" /\ \A u \in Thread : u # t => pc'[u] = pc[u] /\ job'[u] = job[u]
    BY <1>0, <1>5, ThreadEnds DEF BackupFails
  <2> QED BY <1>0, <1>5, <2>1, StillVerified DEF Installing, BackupFails
<1>6. ASSUME NEW t \in Thread, WriteStart(t) PROVE JobsVerified'
  <2>1. pc[t] = "write" /\ \A u \in Thread : u # t => pc'[u] = pc[u]
    BY <1>0, <1>6, ThreadMoves DEF WriteStart
  <2>2. \A u \in Thread : job'[u].version = job[u].version /\ job'[u].down = job[u].down
    <3> DEFINE a(u) == u = t /\ \A w \in Thread \ {t} : pc[w] # "writing"
    <3>1. job' = [u \in Thread |-> [job[u] EXCEPT !.alone = a(u)]]
      BY <1>6 DEF WriteStart
    <3> HIDE DEF a
    <3>2. \A u \in Thread : job'[u] = [job[u] EXCEPT !.alone = a(u)]
      BY <3>1
    <3> QED BY <1>t, <3>2 DEF Job
  <2> QED BY <1>0, <1>6, <2>1, <2>2, StillVerified DEF Installing, WriteStart
<1>7. ASSUME NEW t \in Thread, WriteEnd(t) PROVE JobsVerified'
  <2>1. /\ pc[t] = "writing" /\ pc'[t] = "idle"
        /\ \A u \in Thread : u # t => pc'[u] = pc[u] /\ job'[u] = job[u]
    BY <1>0, <1>7, ThreadEnds DEF WriteEnd
  <2>2. UNCHANGED <<running, updateMishaps>>
    BY <1>7 DEF WriteEnd
  <2> SUFFICES ASSUME NEW u \in Thread, pc'[u] # "idle"
               PROVE  /\ job'[u].version \in Version /\ running' # Torn
                      /\ ~job'[u].down =>
                           /\ job'[u].version >= running'
                           /\ Installing(u)' /\ "overlap" \notin updateMishaps' =>
                                CounterOf[job'[u].version] > counter'
    BY DEF JobsVerified
  <2>3. u # t /\ pc'[u] = pc[u] /\ job'[u] = job[u]
    BY <2>1
  <2>4. Installing(t) /\ (Installing(u)' => Installing(u))
    BY <2>1, <2>3 DEF Installing
  <2>5. Installing(u)' => "overlap" \in updateMishaps'
    BY <1>0, <2>2, <2>3, <2>4 DEF OneInstalls
  <2> QED BY <1>0, <2>2, <2>3, <2>5 DEF JobsVerified
<1>8. ASSUME NEW t \in Thread, WriteFails(t) PROVE JobsVerified'
  <2>1. pc'[t] = "idle" /\ \A u \in Thread : u # t => pc'[u] = pc[u] /\ job'[u] = job[u]
    BY <1>0, <1>8, ThreadEnds DEF WriteFails
  <2>2. updateMishaps \subseteq updateMishaps' /\ UNCHANGED <<running, counter>>
    BY <1>8 DEF WriteFails
  <2> QED BY <1>0, <2>1, <2>2, StillVerified DEF Installing
<1>9. CASE AgentRestart
  <2>1. \A u \in Thread : pc'[u] = "idle"
    BY <1>9 DEF AgentRestart
  <2> QED BY <2>1 DEF JobsVerified
<1>10. CASE UNCHANGED updateVars
  BY <1>0, <1>10, StillVerified DEF updateVars, Installing
<1> QED BY <1>1, <1>2, <1>3, <1>4, <1>5, <1>6, <1>7, <1>8, <1>9, <1>10 DEF UpdateNext

\* While nothing went wrong, the thread that installs is the only one.
LEMMA OthersWait ==
  ASSUME UpdateInv, updateMishaps = {}, NEW t \in Thread, Installing(t),
         NEW u \in Thread, u # t
  PROVE  pc[u] \in {"idle", "fetched"}
BY DEF UpdateInv, OneInstalls, Installing

\* The threads that do not install have no say in it.
LEMMA FirstOf ==
  ASSUME NEW t \in Thread, \A u \in Thread : u # t => pc'[u] \in {"idle", "fetched"},
         exe' = Torn => bak' # Torn,
         exe' = Torn /\ running' # Torn => pc'[t] = "writing",
         pc'[t] = "copying" => job'[t].saw = exe',
         pc'[t] \in {"write", "writing"} => bak' # Torn,
         pc'[t] = "writing" => job'[t].alone
  PROVE  BackupFirst'
BY DEF BackupFirst

LEMMA FirstStep == UpdateInv /\ [UpdateNext]_updateVars => BackupFirst'
<1> SUFFICES ASSUME UpdateInv, [UpdateNext]_updateVars, updateMishaps' = {} PROVE BackupFirst'
  BY DEF BackupFirst
<1>0. UpdateTypeOK /\ JobsVerified
  BY DEF UpdateInv
<1>m. updateMishaps = {}
  BY DEF UpdateNext, updateVars, Fetch, Verify, BackupStart, BackupEnd, BackupFails,
     WriteStart, WriteEnd, WriteFails, AgentRestart
<1>b. /\ exe = Torn => bak # Torn
      /\ exe = Torn /\ running # Torn => \E t \in Thread : pc[t] = "writing"
      /\ \A t \in Thread :
            /\ pc[t] = "copying" => job[t].saw = exe
            /\ pc[t] \in {"write", "writing"} => bak # Torn
            /\ pc[t] = "writing" => job[t].alone
  BY <1>m DEF UpdateInv, BackupFirst
<1>w. ASSUME NEW t \in Thread, Installing(t), pc[t] # "writing" PROVE exe # Torn
  <2>1. \A u \in Thread : pc[u] # "writing"
    BY <1>m, <1>w, OthersWait
  <2>2. running # Torn
    BY <1>0, <1>w DEF JobsVerified, Installing
  <2> QED BY <1>b, <2>1, <2>2
<1>q. ASSUME NEW t \in Thread, UNCHANGED <<exe, bak, running>>,
             pc[t] # "writing", pc'[t] \in {"idle", "fetched", "backup"},
             \A u \in Thread : u # t => pc'[u] = pc[u] /\ job'[u] = job[u]
      PROVE  BackupFirst'
  <2> SUFFICES /\ exe = Torn /\ running # Torn => \E u \in Thread : pc'[u] = "writing"
               /\ \A u \in Thread :
                     /\ pc'[u] = "copying" => job'[u].saw = exe
                     /\ pc'[u] \in {"write", "writing"} => bak # Torn
                     /\ pc'[u] = "writing" => job'[u].alone
    BY <1>b, <1>q DEF BackupFirst
  <2> QED BY <1>b, <1>q
<1>1. ASSUME NEW t \in Thread, NEW v \in Version, NEW down \in BOOLEAN, Fetch(t, v, down)
      PROVE  BackupFirst'
  <2>1. /\ pc[t] = "idle" /\ pc'[t] = "fetched"
        /\ \A u \in Thread : u # t => pc'[u] = pc[u]
    BY <1>0, <1>1, ThreadMoves DEF Fetch
  <2>2. \A u \in Thread : u # t => job'[u] = job[u]
    BY <1>0, <1>1 DEF Fetch, UpdateTypeOK
  <2> QED BY <1>1, <1>q, <2>1, <2>2 DEF Fetch
<1>2. ASSUME NEW t \in Thread, Verify(t) PROVE BackupFirst'
  <2>1. CASE Goto(t, "fetched", "backup") /\ UNCHANGED job
    <3>1. /\ pc[t] = "fetched" /\ pc'[t] = "backup"
          /\ \A u \in Thread : u # t => pc'[u] = pc[u]
      BY <1>0, <2>1, ThreadMoves
    <3> QED BY <1>2, <1>q, <2>1, <3>1 DEF Verify
  <2>2. CASE Ends(t, "fetched")
    <3>1. /\ pc[t] = "fetched" /\ pc'[t] = "idle"
          /\ \A u \in Thread : u # t => pc'[u] = pc[u] /\ job'[u] = job[u]
      BY <1>0, <2>2, ThreadEnds
    <3> QED BY <1>2, <1>q, <3>1 DEF Verify
  <2> QED BY <1>2, <2>1, <2>2 DEF Verify
<1>3. ASSUME NEW t \in Thread, BackupStart(t) PROVE BackupFirst'
  <2>1. pc[t] = "backup" /\ pc'[t] = "copying" /\ \A u \in Thread : u # t => pc'[u] = pc[u]
    BY <1>0, <1>3, ThreadMoves DEF BackupStart
  <2>2. exe # Torn /\ \A u \in Thread : u # t => pc'[u] \in {"idle", "fetched"}
    BY <1>m, <1>w, <2>1, OthersWait DEF Installing
  <2>3. job'[t].saw = exe
    <3> DEFINE j == [job[t] EXCEPT !.saw = exe]
    <3>1. job' = [job EXCEPT ![t] = j]
      BY <1>3 DEF BackupStart
    <3>2. j.saw = exe
      BY <1>0, UpdateTypes DEF Job
    <3> HIDE DEF j
    <3> QED BY <1>0, <3>1, <3>2 DEF UpdateTypeOK
  <2>4. exe' = exe /\ running' = running
    BY <1>3 DEF BackupStart
  <2> QED BY <2>1, <2>2, <2>3, <2>4, FirstOf
<1>4. ASSUME NEW t \in Thread, BackupEnd(t) PROVE BackupFirst'
  <2>1. pc[t] = "copying" /\ pc'[t] = "write" /\ \A u \in Thread : u # t => pc'[u] = pc[u]
    BY <1>0, <1>4, ThreadMoves DEF BackupEnd
  <2>2. exe # Torn /\ \A u \in Thread : u # t => pc'[u] \in {"idle", "fetched"}
    BY <1>m, <1>w, <2>1, OthersWait DEF Installing
  <2>3. bak' = exe /\ exe' = exe
    BY <1>4, <1>b, <2>1 DEF BackupEnd
  <2> QED BY <2>1, <2>2, <2>3, FirstOf
<1>5. ASSUME NEW t \in Thread, BackupFails(t) PROVE BackupFirst'
  <2>1. /\ pc[t] = "copying" /\ pc'[t] = "idle"
        /\ \A u \in Thread : u # t => pc'[u] = pc[u] /\ job'[u] = job[u]
    BY <1>0, <1>5, ThreadEnds DEF BackupFails
  <2> QED BY <1>5, <1>q, <2>1 DEF BackupFails
<1>6. ASSUME NEW t \in Thread, WriteStart(t) PROVE BackupFirst'
  <2>1. pc[t] = "write" /\ pc'[t] = "writing" /\ \A u \in Thread : u # t => pc'[u] = pc[u]
    BY <1>0, <1>6, ThreadMoves DEF WriteStart
  <2>2. \A u \in Thread : u # t => pc[u] \in {"idle", "fetched"} /\ pc'[u] \in {"idle", "fetched"}
    BY <1>m, <2>1, OthersWait DEF Installing
  <2>3. job'[t].alone
    <3>1. job'[t] = [job[t] EXCEPT !.alone = t = t /\ \A w \in Thread \ {t} : pc[w] # "writing"]
      BY <1>6 DEF WriteStart
    <3>2. t = t /\ \A w \in Thread \ {t} : pc[w] # "writing"
      BY <2>2
    <3>3. job[t] \in Job
      BY <1>0, UpdateTypes
    <3> QED BY <3>1, <3>2, <3>3 DEF Job
  <2>4. bak' = bak /\ bak # Torn
    BY <1>6, <1>b, <2>1 DEF WriteStart
  <2> QED BY <2>1, <2>2, <2>3, <2>4, FirstOf
<1>7. ASSUME NEW t \in Thread, WriteEnd(t) PROVE BackupFirst'
  <2>1. /\ pc[t] = "writing" /\ pc'[t] = "idle"
        /\ \A u \in Thread : u # t => pc'[u] = pc[u] /\ job'[u] = job[u]
    BY <1>0, <1>7, ThreadEnds DEF WriteEnd
  <2>2. \A u \in Thread : u # t => pc'[u] \in {"idle", "fetched"}
    BY <1>m, <2>1, OthersWait DEF Installing
  <2>3. exe' = job[t].version
    BY <1>7, <1>b, <2>1 DEF WriteEnd
  <2>4. exe' # Torn
    BY <1>0, <2>1, <2>3 DEF JobsVerified, Version, Torn
  <2> QED BY <2>1, <2>2, <2>4, FirstOf
<1>8. ASSUME NEW t \in Thread, WriteFails(t) PROVE BackupFirst'
  <2>1. /\ pc[t] = "writing" /\ pc'[t] = "idle"
        /\ \A u \in Thread : u # t => pc'[u] = pc[u] /\ job'[u] = job[u]
    BY <1>0, <1>8, ThreadEnds DEF WriteFails
  <2>2. \A u \in Thread : u # t => pc'[u] \in {"idle", "fetched"}
    BY <1>m, <2>1, OthersWait DEF Installing
  <2>3. exe' = bak /\ bak # Torn
    BY <1>8, <1>b, <2>1 DEF WriteFails
  <2> QED BY <2>1, <2>2, <2>3, FirstOf
<1>9. CASE AgentRestart
  <2>1. (\A u \in Thread : pc'[u] = "idle") /\ running' = exe /\ UNCHANGED <<exe, bak>>
    BY <1>9 DEF AgentRestart
  <2> QED BY <1>b, <2>1 DEF BackupFirst
<1>10. CASE UNCHANGED updateVars
  BY <1>b, <1>10 DEF updateVars, BackupFirst
<1> QED BY <1>1, <1>2, <1>3, <1>4, <1>5, <1>6, <1>7, <1>8, <1>9, <1>10 DEF UpdateNext

LEMMA UpdateStarts == UpdateInit => UpdateInv
<1> SUFFICES ASSUME UpdateInit PROVE UpdateInv
  OBVIOUS
<1>1. UpdateTypeOK
  BY AgentUpdateAssumption DEF UpdateInit, UpdateTypeOK, NoJob, Job, Version, Torn
<1>2. (\A t \in Thread : pc[t] = "idle") /\ exe # Torn
  BY DEF UpdateInit, Torn
<1> QED BY <1>1, <1>2 DEF UpdateInv, OneInstalls, JobsVerified, BackupFirst, Installing

LEMMA UpdateSteps == UpdateInv /\ [UpdateNext]_updateVars => UpdateInv'
BY UpdateTypeStep, OneStep, VerifiedStep, FirstStep DEF UpdateInv

\* The files, the counter and the threads of an update have their types, for
\* any number of threads and releases.
THEOREM UpdateTypesHold == UpdateSpec => []UpdateTypeOK
<1>1. UpdateInv => UpdateTypeOK
  BY DEF UpdateInv
<1> QED BY <1>1, UpdateStarts, UpdateSteps, PTL DEF UpdateSpec

\* Wherever a kill meets the agent in an update, its program or the backup is
\* whole, unless a failed restoration or two threads that install at once
\* came before: the backup is complete before the program is opened for
\* writing, and no update takes a torn program for the one to back up.
THEOREM ProgramRecoverable == UpdateSpec => []Recoverable
<1>1. UpdateInv => Recoverable
  BY DEF UpdateInv, BackupFirst, Recoverable
<1> QED BY <1>1, UpdateStarts, UpdateSteps, PTL DEF UpdateSpec

\* What is installed is what the verifications allowed, although another
\* thread may have installed between the download and the writing: no update
\* that is not an asked-for downgrade goes over a newer running version, and
\* none over a newer accepted counter but by two threads at once.
THEOREM InstallsWhatWasVerified == UpdateSpec => InstalledAsVerified
<1>1. ASSUME UpdateInv, NEW t \in Thread, pc[t] = "writing", ~job[t].down
      PROVE  /\ job[t].version >= running
             /\ "overlap" \notin updateMishaps => CounterOf[job[t].version] > counter
  BY <1>1 DEF UpdateInv, JobsVerified, Installing
<1>2. UpdateInv =>
        [\A t \in Thread :
           pc[t] = "writing" /\ pc'[t] = "idle" /\ exe' = job[t].version /\ ~job[t].down
             /\ counter' = CounterOf[job[t].version]
           => /\ job[t].version >= running
              /\ "overlap" \notin updateMishaps => CounterOf[job[t].version] > counter]_updateVars
  BY <1>1
<1> QED BY <1>2, UpdateStarts, UpdateSteps, PTL DEF UpdateSpec, InstalledAsVerified

-----------------------------------------------------------------------------
(* LiveResponse: any timeout, any wait for the lock. *)

\* A session's last_activity is a time that a call served when the session was
\* last active may have read.
ActivityDated ==
  \A s \in DOMAIN sessions :
     /\ sessions[s].last <= real[s] /\ real[s] - sessions[s].last <= MaxWait
     /\ real[s] <= clock

LiveInv == LiveTypeOK /\ ActivityDated

\* The types the steps need, field by field.
LEMMA LiveTypes ==
  ASSUME LiveTypeOK
  PROVE  /\ clock \in Nat /\ Timeout \in Nat /\ MaxWait \in Nat /\ MaxTime \in Nat
         /\ sessions \in Seq(Session) /\ real \in Seq(0..MaxTime)
         /\ DOMAIN sessions = 1..Len(sessions) /\ DOMAIN real = DOMAIN sessions
         /\ \A s \in DOMAIN sessions :
               /\ sessions[s] \in Session /\ sessions[s].last \in Nat
               /\ sessions[s].commands \in Seq(Record)
               /\ real[s] \in 0..MaxTime /\ real[s] \in Nat
         /\ \A now \in Read : now \in 0..MaxTime /\ now \in Nat /\ now <= clock
                              /\ clock - now <= MaxWait
<1>1. /\ sessions \in Seq(Session) /\ real \in Seq(0..MaxTime) /\ Len(real) = Len(sessions)
      /\ clock \in 0..MaxTime
  BY DEF LiveTypeOK
<1>2. Timeout \in Nat /\ MaxWait \in Nat /\ MaxTime \in Nat
  BY LiveResponseAssumption
<1>3. DOMAIN sessions = 1..Len(sessions) /\ DOMAIN real = 1..Len(real)
  BY <1>1
<1>4. \A s \in DOMAIN sessions : sessions[s] \in Session /\ real[s] \in 0..MaxTime
  <2> SUFFICES ASSUME NEW s \in DOMAIN sessions
               PROVE  sessions[s] \in Session /\ real[s] \in 0..MaxTime
    OBVIOUS
  <2>1. s \in 1..Len(sessions) /\ s \in 1..Len(real)
    BY <1>1, <1>3
  <2>2. \A S : \A q \in Seq(S) : \A i \in 1..Len(q) : q[i] \in S
    OBVIOUS
  <2> QED BY <1>1, <2>1, <2>2
<1>5. \A x \in Session : x.last \in 0..MaxTime /\ x.commands \in Seq(Record)
  BY DEF Session
<1>6. \A now \in Read : now \in 0..MaxTime /\ now \in Nat /\ now <= clock /\ clock - now <= MaxWait
  BY <1>1, <1>2 DEF Read
<1>7. \A s \in DOMAIN sessions : real[s] \in Nat /\ sessions[s].last \in Nat
  BY <1>2, <1>4, <1>5
<1> QED BY <1>1, <1>2, <1>3, <1>4, <1>5, <1>6, <1>7

\* One session gets a new record, and what is known of its activity with it.
LEMMA SessionSet ==
  ASSUME LiveInv, NEW s \in DOMAIN sessions, NEW x \in Session, NEW a \in 0..MaxTime,
         sessions' = [sessions EXCEPT ![s] = x], real' = [real EXCEPT ![s] = a],
         clock' = clock, x.last <= a, a - x.last <= MaxWait, a <= clock,
         nextCmd' \in 1..(MaxCommands + 1), allow' \in BOOLEAN
  PROVE  LiveInv'
<1>0. LiveTypeOK /\ ActivityDated
  BY DEF LiveInv
<1>1. /\ sessions \in Seq(Session) /\ real \in Seq(0..MaxTime)
      /\ DOMAIN real = DOMAIN sessions /\ Len(real) = Len(sessions) /\ Len(sessions) <= MaxSessions
      /\ clock \in 0..MaxTime /\ DOMAIN sessions = 1..Len(sessions)
  BY <1>0, LiveTypes DEF LiveTypeOK
<1>2. sessions' \in Seq(Session) /\ Len(sessions') = Len(sessions)
      /\ DOMAIN sessions' = DOMAIN sessions
  BY <1>1
<1>3. real' \in Seq(0..MaxTime) /\ Len(real') = Len(real)
  BY <1>1
<1>4. LiveTypeOK'
  BY <1>1, <1>2, <1>3 DEF LiveTypeOK
<1>5. ActivityDated'
  <2> SUFFICES ASSUME NEW t \in DOMAIN sessions
               PROVE  /\ sessions'[t].last <= real'[t] /\ real'[t] - sessions'[t].last <= MaxWait
                      /\ real'[t] <= clock
    BY <1>2 DEF ActivityDated
  <2>1. CASE t = s
    BY <1>1, <2>1
  <2>2. CASE t # s
    BY <1>0, <1>1, <2>2 DEF ActivityDated
  <2> QED BY <2>1, <2>2
<1> QED BY <1>4, <1>5 DEF LiveInv

\* A session that gets a new record and keeps its last_activity.
LEMMA SessionKept ==
  ASSUME LiveInv, NEW s \in DOMAIN sessions, NEW x \in Session, x.last = sessions[s].last,
         sessions' = [sessions EXCEPT ![s] = x], UNCHANGED <<clock, real>>,
         nextCmd' \in 1..(MaxCommands + 1), allow' \in BOOLEAN
  PROVE  LiveInv'
<1>0. LiveTypeOK /\ ActivityDated
  BY DEF LiveInv
<1>1. real \in Seq(0..MaxTime) /\ DOMAIN real = DOMAIN sessions /\ real[s] \in 0..MaxTime
  BY <1>0, LiveTypes
<1>2. real' = [real EXCEPT ![s] = real[s]]
  BY <1>1
<1>3. real[s] <= clock /\ x.last <= real[s] /\ real[s] - x.last <= MaxWait
  BY <1>0 DEF ActivityDated
<1> QED BY <1>1, <1>2, <1>3, SessionSet

\* What submit_command records.
LEMMA RecordedFacts ==
  ASSUME LiveTypeOK, NEW s \in DOMAIN sessions, NEW status \in CommandStatus,
         nextCmd <= MaxCommands
  PROVE  /\ Recorded(s, status) \in Session
         /\ Recorded(s, status).last = sessions[s].last
         /\ Recorded(s, status).status = sessions[s].status
         /\ Len(Recorded(s, status).commands) = Len(sessions[s].commands) + 1
<1> DEFINE c == [id |-> nextCmd, status |-> status]
           q == Append(sessions[s].commands, c)
<1>1. sessions[s] \in Session /\ sessions[s].commands \in Seq(Record)
  BY LiveTypes
<1>2. c \in Record
  BY LiveResponseAssumption DEF LiveTypeOK, Record
<1> HIDE DEF c
<1>3. q \in Seq(Record) /\ Len(q) = Len(sessions[s].commands) + 1
  BY <1>1, <1>2
<1>4. Recorded(s, status) = [sessions[s] EXCEPT !.commands = q]
  BY DEF Recorded, c
<1> HIDE DEF q
<1> QED BY <1>1, <1>3, <1>4 DEF Session

LEMMA LiveSteps == LiveInv /\ [LiveNext]_liveVars => LiveInv'
<1> SUFFICES ASSUME LiveInv, [LiveNext]_liveVars PROVE LiveInv'
  OBVIOUS
<1>0. LiveTypeOK /\ ActivityDated
  BY DEF LiveInv
<1>t. /\ nextCmd \in 1..(MaxCommands + 1) /\ allow \in BOOLEAN
      /\ MaxCommands \in Nat /\ MaxSessions \in Nat /\ clock \in 0..MaxTime /\ MaxTime \in Nat
      /\ sessions \in Seq(Session) /\ real \in Seq(0..MaxTime)
      /\ DOMAIN sessions = 1..Len(sessions) /\ DOMAIN real = DOMAIN sessions
      /\ Len(sessions) <= MaxSessions /\ Len(real) = Len(sessions)
      /\ \A s \in DOMAIN sessions : sessions[s] \in Session
  BY <1>0, LiveTypes, LiveResponseAssumption DEF LiveTypeOK
<1>r. \A now \in Read : now \in 0..MaxTime /\ now <= clock /\ clock - now <= MaxWait
  BY <1>0, LiveTypes
<1>1. ASSUME NEW now \in Read, OpenSession(now) PROVE LiveInv'
  <2> DEFINE x == [status |-> "Active", last |-> now, commands |-> <<>>, files |-> 0]
  <2>1. /\ sessions' = Append(sessions, x) /\ real' = Append(real, clock)
        /\ Len(sessions) < MaxSessions /\ UNCHANGED <<nextCmd, allow, clock>>
    BY <1>1 DEF OpenSession
  <2>2. x \in Session /\ x.last = now
    <3>1. << >> \in Seq(Record)
      OBVIOUS
    <3> QED BY <1>r, <3>1 DEF Session, SessionStatus
  <2> HIDE DEF x
  <2>3. /\ sessions' \in Seq(Session) /\ Len(sessions') = Len(sessions) + 1
        /\ real' \in Seq(0..MaxTime) /\ Len(real') = Len(real) + 1
    BY <1>t, <2>1, <2>2
  <2>4. LiveTypeOK'
    BY <1>t, <2>1, <2>3 DEF LiveTypeOK
  <2>5. ActivityDated'
    <3> SUFFICES ASSUME NEW s \in DOMAIN sessions'
                 PROVE  /\ sessions'[s].last <= real'[s] /\ real'[s] - sessions'[s].last <= MaxWait
                        /\ real'[s] <= clock
      BY <2>1 DEF ActivityDated
    <3>1. s \in 1..(Len(sessions) + 1)
      BY <2>3
    <3>2. CASE s = Len(sessions) + 1
      <4>1. sessions'[s] = x /\ real'[s] = clock
        BY <1>t, <2>1, <3>2
      <4> QED BY <1>r, <1>t, <2>2, <4>1
    <3>3. CASE s \in 1..Len(sessions)
      <4>1. sessions'[s] = sessions[s] /\ real'[s] = real[s]
        BY <1>t, <2>1, <3>3
      <4> QED BY <1>0, <1>t, <3>3, <4>1 DEF ActivityDated
    <3> QED BY <1>t, <3>1, <3>2, <3>3
  <2> QED BY <2>4, <2>5 DEF LiveInv
<1>c. nextCmd <= MaxCommands /\ nextCmd' = nextCmd + 1 => nextCmd' \in 1..(MaxCommands + 1)
  BY <1>t
<1>a. ASSUME NEW s \in DOMAIN sessions, NEW x \in Session, NEW now \in Read, x.last = now,
             sessions' = [sessions EXCEPT ![s] = x], real' = [real EXCEPT ![s] = clock],
             UNCHANGED <<allow, clock>>, nextCmd' \in 1..(MaxCommands + 1)
      PROVE  LiveInv'
  <2>1. x.last <= clock /\ clock - x.last <= MaxWait
    BY <1>a, <1>r
  <2>2. clock \in 0..MaxTime /\ clock <= clock /\ allow' \in BOOLEAN
    BY <1>a, <1>t
  <2> QED BY <1>a, <2>1, <2>2, SessionSet
<1>s. ASSUME NEW s \in DOMAIN sessions, NEW status \in SessionStatus,
             sessions' = [sessions EXCEPT ![s].status = status],
             UNCHANGED <<nextCmd, allow, clock, real>>
      PROVE  LiveInv'
  <2> DEFINE x == [sessions[s] EXCEPT !.status = status]
  <2>1. x \in Session /\ x.last = sessions[s].last
    BY <1>t DEF Session
  <2>2. sessions' = [sessions EXCEPT ![s] = x]
    BY <1>s
  <2> HIDE DEF x
  <2> QED BY <1>s, <1>t, <2>1, <2>2, SessionKept
<1>2. ASSUME NEW s \in DOMAIN sessions, NEW now \in Read, SubmitLate(s, now) PROVE LiveInv'
  BY <1>2, <1>s DEF SubmitLate, SessionStatus
<1>3. ASSUME NEW s \in DOMAIN sessions, NEW c \in Command, NEW now \in Read,
             SubmitDenied(s, c, now)
      PROVE  LiveInv'
  <2> DEFINE x == Recorded(s, "Denied")
  <2>1. x \in Session /\ x.last = sessions[s].last
    BY <1>0, <1>3, RecordedFacts DEF SubmitDenied, CommandStatus
  <2>2. sessions' = [sessions EXCEPT ![s] = x] /\ UNCHANGED <<allow, clock, real>>
        /\ nextCmd' = nextCmd + 1 /\ nextCmd <= MaxCommands
    BY <1>3 DEF SubmitDenied
  <2> HIDE DEF x
  <2>3. nextCmd' \in 1..(MaxCommands + 1) /\ allow' \in BOOLEAN
    BY <1>c, <1>t, <2>2
  <2> QED BY <2>1, <2>2, <2>3, SessionKept
<1>4. ASSUME NEW s \in DOMAIN sessions, NEW c \in Command, NEW now \in Read,
             SubmitQueued(s, c, now)
      PROVE  LiveInv'
  <2> DEFINE y == Recorded(s, "Queued")
             x == [y EXCEPT !.last = now]
  <2>1. y \in Session
    BY <1>0, <1>4, RecordedFacts DEF SubmitQueued, CommandStatus
  <2>2. /\ sessions' = [sessions EXCEPT ![s] = x] /\ real' = [real EXCEPT ![s] = clock]
        /\ UNCHANGED <<allow, clock>> /\ nextCmd' = nextCmd + 1 /\ nextCmd <= MaxCommands
    BY <1>4 DEF SubmitQueued
  <2> HIDE DEF y
  <2>3. x \in Session /\ x.last = now
    BY <1>r, <2>1 DEF Session
  <2> HIDE DEF x
  <2>4. nextCmd' \in 1..(MaxCommands + 1)
    BY <1>c, <2>2
  <2> QED BY <1>a, <2>2, <2>3, <2>4
<1>5. ASSUME NEW s \in DOMAIN sessions, NEW i \in 1..MaxCommands, NEW now \in Read,
             CompleteCommand(s, i, "Completed", now)
      PROVE  LiveInv'
  <2> DEFINE q == [sessions[s].commands EXCEPT ![i].status = "Completed"]
             x == [sessions[s] EXCEPT !.commands = q, !.last = now]
  <2>1. /\ i \in 1..Len(sessions[s].commands) /\ sessions' = [sessions EXCEPT ![s] = x]
        /\ real' = [real EXCEPT ![s] = clock] /\ UNCHANGED <<nextCmd, allow, clock>>
    BY <1>5 DEF CompleteCommand
  <2>2. sessions[s].commands \in Seq(Record)
    BY <1>0, LiveTypes
  <2>3. [sessions[s].commands[i] EXCEPT !.status = "Completed"] \in Record
    <3>1. sessions[s].commands[i] \in Record
      BY <2>1, <2>2
    <3> QED BY <3>1 DEF Record, CommandStatus
  <2>4. q \in Seq(Record)
    BY <2>1, <2>2, <2>3
  <2> HIDE DEF q
  <2>5. x \in Session /\ x.last = now
    BY <1>r, <1>t, <2>4 DEF Session
  <2> HIDE DEF x
  <2> QED BY <1>a, <1>t, <2>1, <2>5
<1>6. ASSUME NEW s \in DOMAIN sessions, NEW now \in Read, RecordFileRetrieval(s, now)
      PROVE  LiveInv'
  <2> DEFINE x == [sessions[s] EXCEPT !.files = @ + 1, !.last = now]
  <2>1. /\ sessions' = [sessions EXCEPT ![s] = x]
        /\ real' = [real EXCEPT ![s] = clock] /\ UNCHANGED <<nextCmd, allow, clock>>
    BY <1>6 DEF RecordFileRetrieval
  <2>2. x \in Session /\ x.last = now
    <3>1. now \in 0..MaxTime /\ sessions[s] \in Session /\ sessions[s].files + 1 \in Nat
      BY <1>r, <1>t DEF Session
    <3> QED BY <3>1 DEF Session
  <2> HIDE DEF x
  <2> QED BY <1>a, <1>t, <2>1, <2>2
<1>7. ASSUME NEW s \in DOMAIN sessions, CloseSession(s, "ClosedByOperator") PROVE LiveInv'
  BY <1>7, <1>s DEF CloseSession, SessionStatus
<1>8. ASSUME NEW now \in Read, CheckTimeouts(now) PROVE LiveInv'
  <2> DEFINE x(s) == IF sessions[s].status = "Active" /\ Idle(s, now)
                       THEN [sessions[s] EXCEPT !.status = "TimedOut"] ELSE sessions[s]
  <2>1. sessions' = [s \in DOMAIN sessions |-> x(s)] /\ UNCHANGED <<nextCmd, allow, clock, real>>
    BY <1>8 DEF CheckTimeouts
  <2>2. \A s \in DOMAIN sessions : x(s) \in Session /\ x(s).last = sessions[s].last
    BY <1>t DEF Session, SessionStatus
  <2> HIDE DEF x
  <2>3. /\ sessions' \in Seq(Session) /\ Len(sessions') = Len(sessions)
        /\ DOMAIN sessions' = DOMAIN sessions
        /\ \A s \in DOMAIN sessions : sessions'[s].last = sessions[s].last
    BY <1>t, <2>1, <2>2
  <2>4. LiveTypeOK'
    BY <1>t, <2>1, <2>3 DEF LiveTypeOK
  <2>5. ActivityDated'
    BY <1>0, <2>1, <2>3 DEF ActivityDated
  <2> QED BY <2>4, <2>5 DEF LiveInv
<1>9. CASE Tick
  <2>1. clock' \in 0..MaxTime /\ clock <= clock' /\ UNCHANGED <<sessions, nextCmd, allow, real>>
    BY <1>9, <1>t DEF Tick
  <2>2. LiveTypeOK'
    BY <1>t, <2>1 DEF LiveTypeOK
  <2>3. \A s \in DOMAIN sessions : real[s] \in 0..MaxTime
    BY <1>t
  <2>4. ActivityDated'
    BY <1>0, <1>t, <2>1, <2>3 DEF ActivityDated
  <2> QED BY <2>2, <2>4 DEF LiveInv
<1>10. CASE SetAllowedCommands
  BY <1>0, <1>10 DEF SetAllowedCommands, LiveInv, LiveTypeOK, ActivityDated
<1>11. CASE UNCHANGED liveVars
  BY <1>0, <1>11 DEF liveVars, LiveInv, LiveTypeOK, ActivityDated
<1> QED BY <1>1, <1>2, <1>3, <1>4, <1>5, <1>6, <1>7, <1>8, <1>9, <1>10, <1>11 DEF LiveNext

LEMMA LiveStarts == LiveInit => LiveInv
<1> SUFFICES ASSUME LiveInit PROVE LiveInv
  OBVIOUS
<1>1. sessions = << >> /\ real = << >> /\ nextCmd = 1 /\ allow = FALSE /\ clock = 0
  BY DEF LiveInit
<1>2. sessions \in Seq(Session) /\ real \in Seq(0..MaxTime) /\ Len(sessions) = 0 /\ Len(real) = 0
  BY <1>1
<1>3. LiveTypeOK
  <2>1. 1 \in 1..(MaxCommands + 1) /\ 0 \in 0..MaxTime /\ 0 <= MaxSessions
    BY LiveResponseAssumption
  <2> QED BY <1>1, <1>2, <2>1 DEF LiveTypeOK
<1>4. ActivityDated
  BY <1>1 DEF ActivityDated
<1> QED BY <1>3, <1>4 DEF LiveInv

\* Sessions, commands and the clock have their types, for any bounds.
THEOREM LiveTypesHold == LiveSpec => []LiveTypeOK
<1>1. LiveInv => LiveTypeOK
  BY DEF LiveInv
<1> QED BY <1>1, LiveStarts, LiveSteps, PTL DEF LiveSpec

\* What a step does to one session's status and commands.
LEMMA LiveStepKept ==
  ASSUME LiveInv, [LiveNext]_liveVars, NEW s \in DOMAIN sessions
  PROVE  /\ sessions[s].status = "Active" /\ sessions'[s].status = "TimedOut"
              => \E now \in Read : Idle(s, now)
         /\ Len(sessions'[s].commands) > Len(sessions[s].commands)
              => \E now \in Read : ~Idle(s, now)
<1> DEFINE Late == \E now \in Read : Idle(s, now)
           InTime == \E now \in Read : ~Idle(s, now)
           Ok == /\ sessions[s].status = "Active" /\ sessions'[s].status = "TimedOut" => Late
                 /\ Len(sessions'[s].commands) > Len(sessions[s].commands) => InTime
<1>0. /\ LiveTypeOK /\ sessions \in Seq(Session) /\ sessions[s] \in Session
      /\ sessions[s].commands \in Seq(Record) /\ Len(sessions[s].commands) \in Nat
      /\ \A t \in DOMAIN sessions : sessions[t] \in Session
  BY LiveTypes DEF LiveInv
<1> HIDE DEF Late, InTime
<1>1. ASSUME sessions'[s].status = sessions[s].status \/ sessions'[s].status # "TimedOut" \/ Late,
             sessions'[s].commands = sessions[s].commands \/ InTime
      PROVE  Ok
  BY <1>0, <1>1
<1>2. ASSUME NEW now \in Read, OpenSession(now) PROVE Ok
  <2>1. sessions'[s] = sessions[s]
    BY <1>0, <1>2 DEF OpenSession
  <2> QED BY <1>1, <2>1
<1>3. ASSUME NEW t \in DOMAIN sessions, NEW x,
             sessions' = [sessions EXCEPT ![t] = x],
             x.status = sessions[t].status \/ x.status # "TimedOut" \/ (t = s => Late),
             x.commands = sessions[t].commands \/ (t = s => InTime)
      PROVE  Ok
  <2>1. CASE t = s
    <3>1. sessions'[s] = x
      BY <1>0, <1>3, <2>1
    <3> QED BY <1>1, <1>3, <2>1, <3>1
  <2>2. CASE t # s
    <3>1. sessions'[s] = sessions[s]
      BY <1>0, <1>3, <2>2
    <3> QED BY <1>1, <3>1
  <2> QED BY <2>1, <2>2
<1>4. ASSUME NEW t \in DOMAIN sessions, NEW now \in Read, SubmitLate(t, now) PROVE Ok
  <2> DEFINE x == [sessions[t] EXCEPT !.status = "TimedOut"]
  <2>1. sessions' = [sessions EXCEPT ![t] = x] /\ Idle(t, now)
    BY <1>4 DEF SubmitLate
  <2>2. x.commands = sessions[t].commands
    BY <1>0 DEF Session
  <2>3. t = s => Late
    BY <2>1 DEF Late
  <2> HIDE DEF x
  <2> QED BY <1>3, <2>1, <2>2, <2>3
<1>5. ASSUME NEW t \in DOMAIN sessions, NEW c \in Command, NEW now \in Read,
             SubmitDenied(t, c, now)
      PROVE  Ok
  <2> DEFINE x == Recorded(t, "Denied")
  <2>1. sessions' = [sessions EXCEPT ![t] = x] /\ ~Idle(t, now) /\ nextCmd <= MaxCommands
    BY <1>5 DEF SubmitDenied
  <2>2. x.status = sessions[t].status
    BY <1>0, <2>1, RecordedFacts DEF CommandStatus
  <2>3. t = s => InTime
    BY <2>1 DEF InTime
  <2> HIDE DEF x
  <2> QED BY <1>3, <2>1, <2>2, <2>3
<1>6. ASSUME NEW t \in DOMAIN sessions, NEW c \in Command, NEW now \in Read,
             SubmitQueued(t, c, now)
      PROVE  Ok
  <2> DEFINE y == Recorded(t, "Queued")
             x == [y EXCEPT !.last = now]
  <2>1. sessions' = [sessions EXCEPT ![t] = x] /\ ~Idle(t, now) /\ nextCmd <= MaxCommands
    BY <1>6 DEF SubmitQueued
  <2>2. y \in Session /\ y.status = sessions[t].status
    BY <1>0, <2>1, RecordedFacts DEF CommandStatus
  <2> HIDE DEF y
  <2>3. x.status = sessions[t].status
    BY <2>2 DEF Session
  <2>4. t = s => InTime
    BY <2>1 DEF InTime
  <2> HIDE DEF x
  <2> QED BY <1>3, <2>1, <2>3, <2>4
<1>7. ASSUME NEW t \in DOMAIN sessions, NEW i \in 1..MaxCommands, NEW now \in Read,
             CompleteCommand(t, i, "Completed", now)
      PROVE  Ok
  <2> DEFINE q == [sessions[t].commands EXCEPT ![i].status = "Completed"]
             x == [sessions[t] EXCEPT !.commands = q, !.last = now]
  <2>1. sessions' = [sessions EXCEPT ![t] = x] /\ i \in 1..Len(sessions[t].commands)
    BY <1>7 DEF CompleteCommand
  <2>2. sessions[t].commands \in Seq(Record)
    BY <1>0 DEF Session
  <2>3. q \in Seq(Record) /\ Len(q) = Len(sessions[t].commands)
    <3>1. sessions[t].commands[i] \in Record
      BY <2>1, <2>2
    <3>2. [sessions[t].commands[i] EXCEPT !.status = "Completed"] \in Record
      BY <3>1 DEF Record, CommandStatus
    <3> QED BY <2>1, <2>2, <3>2
  <2> HIDE DEF q
  <2>4. x.status = sessions[t].status /\ x.commands = q
    BY <1>0 DEF Session
  <2> HIDE DEF x
  <2>5. CASE t = s
    <3>1. sessions'[s] = x
      BY <1>0, <2>1, <2>5
    <3>2. sessions'[s].status = sessions[s].status
      BY <2>4, <2>5, <3>1
    <3>3. Len(sessions'[s].commands) = Len(sessions[s].commands)
      BY <2>3, <2>4, <2>5, <3>1
    <3> QED BY <1>0, <3>2, <3>3
  <2>6. CASE t # s
    <3>1. sessions'[s] = sessions[s]
      BY <1>0, <2>1, <2>6
    <3> QED BY <1>1, <3>1
  <2> QED BY <2>5, <2>6
<1>8. ASSUME NEW t \in DOMAIN sessions, NEW now \in Read, RecordFileRetrieval(t, now) PROVE Ok
  <2> DEFINE x == [sessions[t] EXCEPT !.files = @ + 1, !.last = now]
  <2>1. sessions' = [sessions EXCEPT ![t] = x]
    BY <1>8 DEF RecordFileRetrieval
  <2>2. x.status = sessions[t].status /\ x.commands = sessions[t].commands
    BY <1>0 DEF Session
  <2> HIDE DEF x
  <2> QED BY <1>3, <2>1, <2>2
<1>9. ASSUME NEW t \in DOMAIN sessions, CloseSession(t, "ClosedByOperator") PROVE Ok
  <2> DEFINE x == [sessions[t] EXCEPT !.status = "ClosedByOperator"]
  <2>1. sessions' = [sessions EXCEPT ![t] = x]
    BY <1>9 DEF CloseSession
  <2>2. x.status # "TimedOut" /\ x.commands = sessions[t].commands
    BY <1>0 DEF Session
  <2> HIDE DEF x
  <2> QED BY <1>3, <2>1, <2>2
<1>10. ASSUME NEW now \in Read, CheckTimeouts(now) PROVE Ok
  <2>1. sessions'[s] = IF sessions[s].status = "Active" /\ Idle(s, now)
                         THEN [sessions[s] EXCEPT !.status = "TimedOut"] ELSE sessions[s]
    BY <1>10 DEF CheckTimeouts
  <2>2. CASE Idle(s, now)
    <3>1. Late
      BY <2>2 DEF Late
    <3>2. sessions'[s].commands = sessions[s].commands
      BY <1>0, <2>1 DEF Session
    <3> QED BY <1>1, <3>1, <3>2
  <2>3. CASE ~Idle(s, now)
    BY <1>1, <2>1, <2>3
  <2> QED BY <2>2, <2>3
<1>11. ASSUME UNCHANGED sessions PROVE Ok
  BY <1>1, <1>11
<1> HIDE DEF Ok
<1>12. ASSUME LiveNext PROVE Ok
  <2>1. CASE \E now \in Read : OpenSession(now)
    BY <1>2, <2>1
  <2>2. CASE \E t \in DOMAIN sessions, now \in Read : SubmitLate(t, now)
    BY <1>4, <2>2
  <2>3. CASE \E t \in DOMAIN sessions, c \in Command, now \in Read : SubmitDenied(t, c, now)
    BY <1>5, <2>3
  <2>4. CASE \E t \in DOMAIN sessions, c \in Command, now \in Read : SubmitQueued(t, c, now)
    BY <1>6, <2>4
  <2>5. CASE Tick \/ SetAllowedCommands
    <3>1. UNCHANGED sessions
      BY <2>5 DEF Tick, SetAllowedCommands
    <3> QED BY <1>11, <3>1
  <2>6. CASE \E t \in DOMAIN sessions, i \in 1..MaxCommands, now \in Read :
                CompleteCommand(t, i, "Completed", now)
    BY <1>7, <2>6
  <2>7. CASE \E t \in DOMAIN sessions, now \in Read : RecordFileRetrieval(t, now)
    BY <1>8, <2>7
  <2>8. CASE \E t \in DOMAIN sessions : CloseSession(t, "ClosedByOperator")
    BY <1>9, <2>8
  <2>9. CASE \E now \in Read : CheckTimeouts(now)
    BY <1>10, <2>9
  <2> HIDE DEF Ok
  <2> QED BY <1>12, <2>1, <2>2, <2>3, <2>4, <2>5, <2>6, <2>7, <2>8, <2>9 DEF LiveNext
<1>13. ASSUME UNCHANGED liveVars PROVE Ok
  <2>1. UNCHANGED sessions
    BY <1>13 DEF liveVars
  <2> QED BY <1>11, <2>1
<1>14. Ok
  BY <1>12, <1>13
<1> QED BY <1>14 DEF Ok, Late, InTime

\* A session times out only when it was idle for the timeout, less the longest
\* wait for the lock, and takes a command only when it was active within the
\* timeout, plus the longest wait, for any timeout and wait and whatever order
\* the calls are served in.
THEOREM TimeoutsKept == LiveSpec => TimeoutKept
<1>1. ASSUME LiveInv, NEW s \in DOMAIN sessions, NEW now \in Read
      PROVE  /\ Idle(s, now) => clock - real[s] > Timeout - MaxWait
             /\ ~Idle(s, now) => clock - real[s] <= Timeout + MaxWait
  <2>1. /\ clock \in Nat /\ Timeout \in Nat /\ MaxWait \in Nat /\ sessions[s].last \in Nat
        /\ real[s] \in Nat /\ now \in Nat /\ now <= clock /\ clock - now <= MaxWait
    BY <1>1, LiveTypes DEF LiveInv
  <2>2. sessions[s].last <= real[s] /\ real[s] - sessions[s].last <= MaxWait
    BY <1>1 DEF LiveInv, ActivityDated
  <2> QED BY <2>1, <2>2 DEF Idle
<1>2. ASSUME LiveInv, [LiveNext]_liveVars, NEW s \in DOMAIN sessions
      PROVE  /\ sessions[s].status = "Active" /\ sessions'[s].status = "TimedOut"
                  => clock - real[s] > Timeout - MaxWait
             /\ Len(sessions'[s].commands) > Len(sessions[s].commands)
                  => clock - real[s] <= Timeout + MaxWait
  <2>1. /\ sessions[s].status = "Active" /\ sessions'[s].status = "TimedOut"
             => \E now \in Read : Idle(s, now)
        /\ Len(sessions'[s].commands) > Len(sessions[s].commands)
             => \E now \in Read : ~Idle(s, now)
    BY <1>2, LiveStepKept
  <2>2. \A now \in Read : /\ Idle(s, now) => clock - real[s] > Timeout - MaxWait
                          /\ ~Idle(s, now) => clock - real[s] <= Timeout + MaxWait
    BY <1>1, <1>2
  <2> QED BY <2>1, <2>2
<1>3. LiveInv /\ [LiveNext]_liveVars =>
        [\A s \in DOMAIN sessions :
           /\ sessions[s].status = "Active" /\ sessions'[s].status = "TimedOut"
                => clock - real[s] > Timeout - MaxWait
           /\ Len(sessions'[s].commands) > Len(sessions[s].commands)
                => clock - real[s] <= Timeout + MaxWait]_liveVars
  BY <1>2
<1> QED BY <1>3, LiveStarts, LiveSteps, PTL DEF LiveSpec, TimeoutKept
-----------------------------------------------------------------------------
(* Agents: any number of agents, tokens, uses and restarts. *)

Holders(r, b, k) == {a \in Registered(r) : b[a] = k}

\* What holds of a registry r, in memory or stored, when b says which token
\* every agent came with and c which tokens were created: an agent that no
\* token let in is an old one, and a token's agents and uses are within bounds.
Backed(r, b, c) ==
  /\ r \in Registry
  /\ \A a \in Registered(r) : a \in Old \/ b[a] # "nobody"
  /\ \A a \in AgentId : r.recent[a] => r.status[a] # "none"
  /\ \A k \in Token : r.uses[k] # NoToken => k \in c
  /\ \A k \in Token : Holders(r, b, k) # {} =>
        Cardinality(Holders(r, b, k)) + Left(r, k) <= MaxUses

AgentsInv ==
  /\ AgentsTypeOK
  /\ by \in [AgentId -> created \cup {"nobody"}]
  /\ Backed(mem, by, created) /\ Backed(db, by, created) /\ Backed(legacy, by, created)

\* Whatever was stored and whose row was not lost is stored, in the database
\* alone once it has records, and the server knows it.
KeptInv ==
  /\ kept \ lost \subseteq Registered(db) \cup Registered(legacy)
  /\ HasRecords(db) => kept \ lost \subseteq Registered(db)
  /\ boots > 0 => kept \ lost \subseteq Registered(mem)

\* The fields of a registry.
LEMMA RegistryFields ==
  ASSUME NEW r \in Registry
  PROVE  /\ r.status \in [AgentId -> Status] /\ r.recent \in [AgentId -> BOOLEAN]
         /\ r.uses \in [Token -> {NoToken} \cup 0..MaxUses]
         /\ \A k \in Token : r.uses[k] \in Int /\ r.uses[k] <= MaxUses
         /\ \A k \in Token : Left(r, k) \in 0..MaxUses
         /\ \A k \in Token : r.uses[k] >= 0 => Left(r, k) = r.uses[k]
         /\ MaxUses \in Nat
         /\ Registered(r) \subseteq AgentId
<1>1. r.uses \in [Token -> {NoToken} \cup 0..MaxUses]
  BY DEF Registry
<1>2. MaxUses \in Nat
  BY AgentsAssumption
<1> QED BY <1>1, <1>2 DEF Registry, Registered, NoToken, Left

\* The agents a token let in are finitely many.
LEMMA HoldersFinite ==
  ASSUME NEW r, NEW b, NEW k
  PROVE  IsFiniteSet(Holders(r, b, k)) /\ Cardinality(Holders(r, b, k)) \in Nat
<1>1. IsFiniteSet(AgentId)
  BY AgentsAssumption
<1>2. Holders(r, b, k) \subseteq AgentId
  BY DEF Holders, Registered
<1>3. IsFiniteSet(Holders(r, b, k))
  BY <1>1, <1>2, FS_Subset
<1> QED BY <1>3, FS_CardinalityType

\* The statuses and the last contacts of agents change, the agents do not.
LEMMA BackedSame ==
  ASSUME NEW r, NEW b, NEW c, NEW q \in Registry, Backed(r, b, c),
         q.uses = r.uses, Registered(q) = Registered(r),
         \A a \in AgentId : q.recent[a] => q.status[a] # "none"
  PROVE  Backed(q, b, c)
<1>1. \A k \in Token : Holders(q, b, k) = Holders(r, b, k)
  BY DEF Holders
<1>2. \A k \in Token : Left(q, k) = Left(r, k)
  BY DEF Left
<1> QED BY <1>1, <1>2 DEF Backed

\* A new token lets no agent in that is there already.
LEMMA BackedToken ==
  ASSUME NEW r, NEW c, NEW b \in [AgentId -> c \cup {"nobody"}], NEW q \in Registry,
         Backed(r, b, c), NEW k \in Token \ c,
         q.status = r.status, q.recent = r.recent,
         \A x \in Token : x # k => q.uses[x] = r.uses[x]
  PROVE  Backed(q, b, c \cup {k})
<1>1. Registered(q) = Registered(r)
  BY DEF Registered
<1>2. \A x \in Token : Holders(q, b, x) = Holders(r, b, x)
  BY <1>1 DEF Holders
<1>3. Holders(q, b, k) = {}
  BY AgentsAssumption DEF Holders, Registered
<1>4. \A x \in Token : x # k => Left(q, x) = Left(r, x)
  BY DEF Left
<1> QED BY <1>1, <1>2, <1>3, <1>4 DEF Backed

\* A registry that has not heard of the new token.
LEMMA BackedOtherToken ==
  ASSUME NEW r, NEW b, NEW c, NEW k, Backed(r, b, c)
  PROVE  Backed(r, b, c \cup {k})
BY DEF Backed

\* A registry that has not heard of the agent a token just let in.
LEMMA BackedStale ==
  ASSUME NEW r, NEW c, NEW b \in [AgentId -> c \cup {"nobody"}], Backed(r, b, c),
         NEW a \in AgentId \ Old, b[a] = "nobody", NEW k \in Token,
         NEW d, d[a] = k, \A x \in AgentId : x # a => d[x] = b[x]
  PROVE  a \notin Registered(r) /\ Backed(r, d, c)
<1>1. a \notin Registered(r)
  BY DEF Backed
<1>3. Registered(r) \subseteq AgentId
  BY DEF Registered
<1>4. \A x \in Token : Holders(r, d, x) = Holders(r, b, x)
  BY <1>1, <1>3 DEF Holders
<1>5. \A x \in Registered(r) : x \in Old \/ d[x] # "nobody"
  BY <1>1, <1>3 DEF Backed
<1>6. Backed(r, d, c)
  BY <1>4, <1>5 DEF Backed
<1> QED BY <1>1, <1>6

\* A valid token lets an agent in that nobody has heard of.
LEMMA BackedEnrolled ==
  ASSUME NEW r, NEW c, NEW b \in [AgentId -> c \cup {"nobody"}], Backed(r, b, c),
         NEW a \in AgentId \ Old, b[a] = "nobody", NEW k \in Token, r.uses[k] > 0,
         NEW q \in Registry, Registered(q) = Registered(r) \cup {a},
         \A x \in AgentId : q.recent[x] => q.status[x] # "none",
         q.uses[k] = r.uses[k] - 1, \A x \in Token : x # k => q.uses[x] = r.uses[x],
         NEW d, d[a] = k, \A x \in AgentId : x # a => d[x] = b[x]
  PROVE  Backed(q, d, c) /\ k \in c
<1>0. a \notin Registered(r) /\ Backed(r, d, c)
  BY BackedStale
<1>2. r \in Registry /\ r.uses[k] \in Int /\ r.uses[k] <= MaxUses /\ MaxUses \in Nat
  BY RegistryFields DEF Backed
<1>3. k \in c
  BY <1>2 DEF Backed, NoToken
<1>4. \A x \in Token : x # k => Holders(q, d, x) = Holders(r, d, x)
  BY DEF Holders
<1>5. Holders(q, d, k) = Holders(r, d, k) \cup {a} /\ a \notin Holders(r, d, k)
  BY <1>0 DEF Holders
<1>6. Cardinality(Holders(q, d, k)) = Cardinality(Holders(r, d, k)) + 1
  <2>1. IsFiniteSet(Holders(r, d, k))
    BY HoldersFinite
  <2>2. Cardinality(Holders(r, d, k) \cup {a}) = Cardinality(Holders(r, d, k)) + 1
    BY <1>5, <2>1, FS_AddElement
  <2> QED BY <1>5, <2>2
<1>7. Cardinality(Holders(r, d, k)) \in Nat
  BY HoldersFinite
<1>8. Cardinality(Holders(q, d, k)) + Left(q, k) <= MaxUses
  <2>0. Left(r, k) = r.uses[k] /\ Left(q, k) = r.uses[k] - 1
    BY <1>2, RegistryFields
  <2>1. CASE Holders(r, d, k) = {}
    <3>1. Cardinality(Holders(r, d, k)) = 0
      BY <2>1, FS_EmptySet
    <3> QED BY <1>2, <1>6, <2>0, <3>1
  <2>2. CASE Holders(r, d, k) # {}
    <3>1. Cardinality(Holders(r, d, k)) + r.uses[k] <= MaxUses
      BY <1>0, <2>0, <2>2 DEF Backed
    <3> QED BY <1>2, <1>6, <1>7, <2>0, <3>1
  <2> QED BY <2>1, <2>2
<1>9. \A x \in Registered(q) : x \in Old \/ d[x] # "nobody"
  BY <1>0, AgentsAssumption DEF Backed
<1>10. \A x \in Token : q.uses[x] # NoToken => x \in c
  BY <1>0, <1>3 DEF Backed
<1>11. ASSUME NEW x \in Token, Holders(q, d, x) # {}
       PROVE  Cardinality(Holders(q, d, x)) + Left(q, x) <= MaxUses
  <2>1. CASE x = k
    BY <1>8, <2>1
  <2>2. CASE x # k
    <3>1. Left(q, x) = Left(r, x)
      BY <2>2 DEF Left
    <3> QED BY <1>0, <1>4, <1>11, <2>2, <3>1 DEF Backed
  <2> QED BY <2>1, <2>2
<1>12. Backed(q, d, c)
  BY <1>9, <1>10, <1>11 DEF Backed
<1> QED BY <1>3, <1>12

\* The registry with which the server starts when it can read nothing.
LEMMA EmptyBacked ==
  ASSUME NEW b, NEW c
  PROVE  /\ Backed(Empty, b, c)
         /\ Registered(Empty) = {} /\ ~HasRecords(Empty)
<1>1. Empty \in Registry
  BY DEF Empty, Only, Registry, Status
<1>2. Registered(Empty) = {}
  BY DEF Empty, Only, Registered
<1>3. \A a \in AgentId : ~Empty.recent[a]
  BY DEF Empty, Only
<1>4. \A k \in Token : Empty.uses[k] = NoToken
  BY DEF Empty, Only
<1>5. \A k \in Token : Holders(Empty, b, k) = {}
  BY <1>2 DEF Holders
<1> QED BY <1>1, <1>2, <1>3, <1>4, <1>5 DEF Backed, HasRecords, Known

\* Some rows of a registry.
LEMMA RowsBacked ==
  ASSUME NEW r, NEW b, NEW c, Backed(r, b, c), NEW A, NEW K
  PROVE  /\ Backed(Rows(r, A, K), b, c)
         /\ Registered(Rows(r, A, K)) = Registered(r) \cap A
<1> DEFINE q == Rows(r, A, K)
<1>0. /\ r.status \in [AgentId -> Status] /\ r.recent \in [AgentId -> BOOLEAN]
      /\ r.uses \in [Token -> {NoToken} \cup 0..MaxUses]
  BY RegistryFields DEF Backed
<1>1. /\ q.status = [a \in AgentId |-> IF a \in A THEN r.status[a] ELSE "none"]
      /\ q.recent = [a \in AgentId |-> a \in A /\ r.recent[a]]
      /\ q.uses = [k \in Token |-> IF k \in K THEN r.uses[k] ELSE NoToken]
      /\ q = [status |-> q.status, recent |-> q.recent, uses |-> q.uses]
  BY DEF Rows
<1> HIDE DEF q
<1>2. /\ q.status \in [AgentId -> Status] /\ q.recent \in [AgentId -> BOOLEAN]
      /\ q.uses \in [Token -> {NoToken} \cup 0..MaxUses]
  BY <1>0, <1>1 DEF Status
<1>3. q \in Registry
  BY <1>1, <1>2 DEF Registry
<1>4. Registered(q) = Registered(r) \cap A
  BY <1>1 DEF Registered
<1>5. \A a \in AgentId : q.recent[a] => q.status[a] # "none"
  BY <1>1 DEF Backed
<1>6. \A k \in Token : q.uses[k] # NoToken => k \in c
  BY <1>1 DEF Backed
<1>7. ASSUME NEW k \in Token, Holders(q, b, k) # {}
      PROVE  Cardinality(Holders(q, b, k)) + Left(q, k) <= MaxUses
  <2>1. Holders(q, b, k) \subseteq Holders(r, b, k)
    BY <1>4 DEF Holders
  <2>2. /\ Cardinality(Holders(q, b, k)) <= Cardinality(Holders(r, b, k))
        /\ Cardinality(Holders(q, b, k)) \in Nat /\ Cardinality(Holders(r, b, k)) \in Nat
    BY <2>1, HoldersFinite, FS_Subset
  <2>3. Left(q, k) = Left(r, k) \/ Left(q, k) = 0
    BY <1>1 DEF Left
  <2>4. Left(r, k) \in 0..MaxUses /\ MaxUses \in Nat
    BY RegistryFields DEF Backed
  <2>5. Cardinality(Holders(r, b, k)) + Left(r, k) <= MaxUses
    BY <1>7, <2>1 DEF Backed
  <2> QED BY <2>2, <2>3, <2>4, <2>5
<1>8. \A a \in Registered(q) : a \in Old \/ b[a] # "nobody"
  BY <1>4 DEF Backed
<1>9. Backed(q, b, c)
  BY <1>3, <1>5, <1>6, <1>7, <1>8 DEF Backed
<1> QED BY <1>4, <1>9 DEF q

-----------------------------------------------------------------------------
(* The steps of the registry. *)

LEMMA RegistryStarts == AgentsInit => AgentsInv /\ KeptInv
<1> SUFFICES ASSUME AgentsInit PROVE AgentsInv /\ KeptInv
  OBVIOUS
<1>1. Backed(Empty, by, created) /\ Registered(Empty) = {} /\ ~HasRecords(Empty)
  BY EmptyBacked
<1>2. legacy \in Registry /\ Registered(legacy) = Old
  BY AgentsAssumption DEF AgentsInit, Only, Registry, Status, Registered
<1>3. \A a \in AgentId : legacy.recent[a] => legacy.status[a] # "none"
  BY DEF AgentsInit, Only
<1>4. \A k \in Token : legacy.uses[k] = NoToken
  BY DEF AgentsInit, Only
<1>5. \A k \in Token : Holders(legacy, by, k) = {}
  BY <1>2, AgentsAssumption DEF Holders, AgentsInit
<1>6. Backed(legacy, by, created)
  BY <1>2, <1>3, <1>4, <1>5 DEF Backed
<1>7. AgentsTypeOK
  BY <1>1, <1>2, AgentsAssumption DEF Backed, AgentsInit, AgentsTypeOK
<1>8. by \in [AgentId -> created \cup {"nobody"}]
  BY DEF AgentsInit
<1> QED BY <1>1, <1>2, <1>6, <1>7, <1>8 DEF AgentsInit, AgentsInv, KeptInv

\* What a save leaves in the database.
LEMMA SavedRows ==
  ASSUME NEW r, NEW gone, NEW b, NEW c, Backed(r, b, c), Backed(db, b, c), Save(r, gone),
         kept \subseteq AgentId, gone \subseteq AgentId
  PROVE  /\ Backed(db', b, c)
         /\ kept' \subseteq AgentId /\ lost' \subseteq AgentId
         /\ \/ db' = db /\ kept' = kept /\ lost' = gone
            \/ /\ Registered(db') \subseteq Registered(r)
               /\ kept' = kept \cup Registered(db')
               /\ lost' = (gone \cup Registered(r)) \ Registered(db')
<1>1. Registered(r) \subseteq AgentId
  BY DEF Registered
<1>2. CASE UNCHANGED <<db, kept>> /\ lost' = gone
  BY <1>2
<1>3. CASE \E A \in SUBSET Registered(r), K \in SUBSET Known(r) :
             /\ db' = Rows(r, A, K)
             /\ kept' = kept \cup Registered(db')
             /\ lost' = (gone \cup Registered(r)) \ Registered(db')
  <2>1. PICK A, K : /\ db' = Rows(r, A, K)
                    /\ kept' = kept \cup Registered(db')
                    /\ lost' = (gone \cup Registered(r)) \ Registered(db')
    BY <1>3
  <2>2. Backed(db', b, c) /\ Registered(db') \subseteq Registered(r)
    BY <2>1, RowsBacked
  <2> QED BY <1>1, <2>1, <2>2
<1> QED BY <1>2, <1>3 DEF Save

\* An operation that saves what it made of the registry, whether the write
\* works or not, keeps the invariant.
LEMMA SavedBacked ==
  ASSUME AgentsInv, Backed(mem', by', created'), Save(mem', lost),
         Backed(db, by', created'), Backed(legacy, by', created'), UNCHANGED legacy,
         by' \in [AgentId -> created' \cup {"nobody"}],
         created' \subseteq Token, expired' \subseteq created', boots' \in 0..MaxBoots
  PROVE  AgentsInv'
<1>1. Backed(db', by', created')
  BY SavedRows DEF AgentsInv, AgentsTypeOK
<1>2. Backed(legacy', by', created')
  OBVIOUS
<1>3. mem' \in Registry /\ db' \in Registry /\ legacy' \in Registry
  BY <1>1, <1>2 DEF Backed
<1>4. kept' \subseteq AgentId /\ lost' \subseteq AgentId
  BY SavedRows DEF AgentsInv, AgentsTypeOK
<1>5. by' \in [AgentId -> Token \cup {"nobody"}]
  OBVIOUS
<1>6. AgentsTypeOK'
  BY <1>3, <1>4, <1>5 DEF AgentsInv, AgentsTypeOK
<1> QED BY <1>1, <1>2, <1>6 DEF AgentsInv

\* An operation that forgets no agent and saves what it made keeps what is kept.
LEMMA SavedKept ==
  ASSUME AgentsInv, KeptInv, boots > 0, Registered(mem) \subseteq Registered(mem'),
         NEW b, NEW c, Backed(mem', b, c), Backed(db, b, c), Save(mem', lost),
         UNCHANGED <<legacy, boots>>
  PROVE  KeptInv'
<1>1. kept \ lost \subseteq Registered(mem')
  BY DEF KeptInv
<1>2. CASE db' = db /\ kept' = kept /\ lost' = lost
  BY <1>1, <1>2 DEF KeptInv
<1>3. CASE /\ Registered(db') \subseteq Registered(mem')
           /\ kept' = kept \cup Registered(db')
           /\ lost' = (lost \cup Registered(mem')) \ Registered(db')
  <2>1. kept' \ lost' \subseteq Registered(db')
    BY <1>1, <1>3
  <2> QED BY <1>3, <2>1 DEF KeptInv
<1> QED BY <1>2, <1>3, SavedRows DEF AgentsInv, AgentsTypeOK

\* What an operation on one agent makes of the registry.
LEMMA StatusSet ==
  ASSUME NEW r \in Registry, NEW a \in AgentId, NEW x \in Status \ {"none"}, NEW q \in Registry,
         \A z \in AgentId : r.recent[z] => r.status[z] # "none",
         q.status[a] = x,
         \A z \in AgentId : z # a => q.status[z] = r.status[z] /\ q.recent[z] = r.recent[z]
  PROVE  /\ Registered(q) = Registered(r) \cup {a}
         /\ \A z \in AgentId : q.recent[z] => q.status[z] # "none"
<1>1. Registered(q) = Registered(r) \cup {a}
  BY DEF Registered
<1> QED BY <1>1

LEMMA RegistrySteps == AgentsInv /\ KeptInv /\ [AgentsNext]_agentsVars => AgentsInv' /\ KeptInv'
<1> SUFFICES ASSUME AgentsInv, KeptInv, [AgentsNext]_agentsVars
             PROVE  AgentsInv' /\ KeptInv'
  OBVIOUS
<1>0. /\ Backed(mem, by, created) /\ Backed(db, by, created) /\ Backed(legacy, by, created)
      /\ by \in [AgentId -> created \cup {"nobody"}]
      /\ expired \subseteq created /\ created \subseteq Token /\ boots \in 0..MaxBoots
      /\ mem \in Registry /\ db \in Registry /\ legacy \in Registry
      /\ kept \subseteq AgentId /\ lost \subseteq AgentId
  BY DEF AgentsInv, AgentsTypeOK
<1>r. \A z \in AgentId : mem.recent[z] => mem.status[z] # "none"
  BY <1>0 DEF Backed
<1>m. /\ mem.status \in [AgentId -> Status] /\ mem.recent \in [AgentId -> BOOLEAN]
      /\ mem.uses \in [Token -> {NoToken} \cup 0..MaxUses]
      /\ Registered(mem) \subseteq AgentId
  BY <1>0, RegistryFields
<1>s. ASSUME Backed(mem', by, created), Save(mem', lost), boots > 0,
             Registered(mem) \subseteq Registered(mem'),
             UNCHANGED <<legacy, expired, boots, by, created>>
      PROVE  AgentsInv' /\ KeptInv'
  <2>1. Backed(mem', by', created') /\ Backed(db, by', created') /\ Backed(legacy, by', created')
    BY <1>0, <1>s
  <2>2. AgentsInv'
    BY <1>0, <1>s, <2>1, SavedBacked
  <2>3. KeptInv'
    BY <1>0, <1>s, SavedKept
  <2> QED BY <2>2, <2>3
<1>1. ASSUME boots > 0, NEW k \in Token, CreateToken(k) PROVE AgentsInv' /\ KeptInv'
  <2> DEFINE u == [mem.uses EXCEPT ![k] = MaxUses]
  <2>0. /\ k \notin created /\ created' = created \cup {k} /\ mem' = [mem EXCEPT !.uses = u]
        /\ Save(mem', lost) /\ UNCHANGED <<legacy, expired, boots, by>>
    BY <1>1 DEF CreateToken
  <2>1. u \in [Token -> {NoToken} \cup 0..MaxUses] /\ \A x \in Token : x # k => u[x] = mem.uses[x]
    BY <1>m, AgentsAssumption
  <2> HIDE DEF u
  <2>2. mem' \in Registry /\ mem'.uses = u /\ mem'.status = mem.status /\ mem'.recent = mem.recent
    BY <1>0, <2>0, <2>1 DEF Registry
  <2>3. Backed(mem', by, created \cup {k})
    <3>1. k \in Token \ created /\ mem' \in Registry /\ Backed(mem, by, created)
          /\ by \in [AgentId -> created \cup {"nobody"}]
      BY <1>0, <2>0, <2>2
    <3>2. \A x \in Token : x # k => mem'.uses[x] = mem.uses[x]
      BY <2>1, <2>2
    <3>3. mem'.status = mem.status /\ mem'.recent = mem.recent
      BY <2>2
    <3> QED BY <3>1, <3>2, <3>3, BackedToken
  <2>4. Backed(db, by, created \cup {k}) /\ Backed(legacy, by, created \cup {k})
    BY <1>0, BackedOtherToken
  <2>5. by \in [AgentId -> created' \cup {"nobody"}] /\ created' \subseteq Token
        /\ expired' \subseteq created' /\ boots' \in 0..MaxBoots
    BY <1>0, <2>0
  <2>6. AgentsInv'
    BY <2>0, <2>3, <2>4, <2>5, SavedBacked
  <2>7. Registered(mem) \subseteq Registered(mem')
    BY <2>2 DEF Registered
  <2>8. KeptInv'
    BY <1>0, <1>1, <2>0, <2>3, <2>4, <2>7, SavedKept
  <2> QED BY <2>6, <2>8
<1>2. ASSUME NEW k \in Token, Expire(k) PROVE AgentsInv' /\ KeptInv'
  <2>1. expired' \subseteq created
    BY <1>0, <1>2 DEF Expire
  <2>2. UNCHANGED <<mem, db, legacy, boots, by, created, kept, lost>>
    BY <1>2 DEF Expire
  <2>3. AgentsInv'
    BY <2>1, <2>2 DEF AgentsInv, AgentsTypeOK
  <2>4. KeptInv'
    BY <2>2 DEF KeptInv
  <2> QED BY <2>3, <2>4
<1>3. ASSUME boots > 0, NEW k \in Token, NEW a \in AgentId, Enroll(k, a)
      PROVE  AgentsInv' /\ KeptInv'
  <2> DEFINE w == [mem EXCEPT !.status[a] = "Online", !.recent[a] = TRUE]
             u == [mem.uses EXCEPT ![k] = mem.uses[k] - 1]
  <2>0. /\ by[a] = "nobody" /\ a \in AgentId \ Old /\ mem.uses[k] > 0
        /\ by' = [by EXCEPT ![a] = k]
        /\ Save(mem', lost) /\ UNCHANGED <<legacy, expired, boots, created>>
    BY <1>3 DEF Enroll, Valid
  <2>1. mem' = [w EXCEPT !.uses = u]
    BY <1>3, <1>0, <2>0 DEF Enroll, Registry
  <2>2. /\ w \in Registry /\ w.uses = mem.uses /\ Registered(w) = Registered(mem) \cup {a}
        /\ \A z \in AgentId : w.recent[z] => w.status[z] # "none"
    <3>1. "Online" \in Status \ {"none"}
      BY DEF Status
    <3> DEFINE v == [mem.status EXCEPT ![a] = "Online"]
               d == [mem.recent EXCEPT ![a] = TRUE]
    <3>2. v \in [AgentId -> Status] /\ d \in [AgentId -> BOOLEAN]
      BY <1>m, <3>1
    <3>3. w = [mem EXCEPT !.status = v, !.recent = d]
      OBVIOUS
    <3>a. v[a] = "Online" /\ \A z \in AgentId : z # a => v[z] = mem.status[z] /\ d[z] = mem.recent[z]
      BY <1>m
    <3> HIDE DEF v, d, w
    <3>4. w \in Registry /\ w.status = v /\ w.recent = d /\ w.uses = mem.uses
      BY <1>0, <3>2, <3>3 DEF Registry
    <3> QED BY <1>0, <1>r, <3>1, <3>4, <3>a, StatusSet
  <2>3. mem.uses[k] \in 0..MaxUses
    BY <1>m, <2>0 DEF NoToken
  <2>4. /\ u \in [Token -> {NoToken} \cup 0..MaxUses] /\ u[k] = mem.uses[k] - 1
        /\ \A x \in Token : x # k => u[x] = mem.uses[x]
    BY <1>m, <2>0, <2>3, AgentsAssumption
  <2> HIDE DEF u, w
  <2>5. mem' \in Registry /\ mem'.uses = u /\ mem'.status = w.status /\ mem'.recent = w.recent
    BY <2>1, <2>2, <2>4 DEF Registry
  <2>6. /\ Registered(mem') = Registered(mem) \cup {a}
        /\ \A z \in AgentId : mem'.recent[z] => mem'.status[z] # "none"
        /\ mem'.uses[k] = mem.uses[k] - 1
        /\ \A x \in Token : x # k => mem'.uses[x] = mem.uses[x]
    BY <2>2, <2>4, <2>5 DEF Registered
  <2>7. Backed(mem', by', created) /\ k \in created
    <3>1. mem' \in Registry /\ Registered(mem') = Registered(mem) \cup {a}
      BY <2>5, <2>6
    <3>2. by'[a] = k /\ \A x \in AgentId : x # a => by'[x] = by[x]
      BY <1>0, <2>0
    <3> QED
      <4>1. Backed(mem, by, created) /\ by \in [AgentId -> created \cup {"nobody"}]
        BY <1>0
      <4>2. a \in AgentId \ Old /\ by[a] = "nobody" /\ mem.uses[k] > 0
        BY <2>0
      <4> QED BY <2>6, <3>1, <3>2, <4>1, <4>2, BackedEnrolled
  <2>8. Backed(db, by', created) /\ Backed(legacy, by', created)
    <3>1. by'[a] = k /\ \A x \in AgentId : x # a => by'[x] = by[x]
      BY <1>0, <2>0
    <3> QED BY <1>0, <2>0, <3>1, BackedStale
  <2>9. by' \in [AgentId -> created' \cup {"nobody"}] /\ created' \subseteq Token
        /\ expired' \subseteq created' /\ boots' \in 0..MaxBoots
    BY <1>0, <2>0, <2>7
  <2>10. AgentsInv'
    BY <2>0, <2>7, <2>8, <2>9, SavedBacked
  <2>11. KeptInv'
    BY <1>0, <1>3, <2>0, <2>6, <2>7, <2>8, SavedKept
  <2> QED BY <2>10, <2>11
<1>4. ASSUME boots > 0, NEW a \in AgentId, Heartbeat(a) \/ Deregister(a) \/ SetMonitorScope(a)
      PROVE  AgentsInv' /\ KeptInv'
  <2>0. /\ mem.status[a] # "none" /\ Save(mem', lost)
        /\ UNCHANGED <<legacy, expired, boots, by, created>>
    BY <1>4 DEF Heartbeat, Deregister, SetMonitorScope
  <2>1. a \in Registered(mem)
    BY <2>0 DEF Registered
  <2>2. \/ mem' = mem \/ mem' = [mem EXCEPT !.status[a] = "Deregistered"]
        \/ mem' = [mem EXCEPT !.status[a] = "Online", !.recent[a] = TRUE]
    BY <1>4 DEF Heartbeat, Deregister, SetMonitorScope
  <2>3. /\ mem' \in Registry /\ mem'.uses = mem.uses
        /\ Registered(mem') = Registered(mem)
        /\ \A z \in AgentId : mem'.recent[z] => mem'.status[z] # "none"
    <3>1. CASE mem' = mem
      BY <1>0, <1>r, <3>1
    <3>2. "Deregistered" \in Status \ {"none"} /\ "Online" \in Status \ {"none"}
      BY DEF Status
    <3>3. Registered(mem) \cup {a} = Registered(mem)
      BY <2>1
    <3>4. CASE mem' = [mem EXCEPT !.status[a] = "Deregistered"]
      <4> DEFINE v == [mem.status EXCEPT ![a] = "Deregistered"]
      <4>1. v \in [AgentId -> Status]
        BY <1>m, <3>2
      <4>2. mem' = [mem EXCEPT !.status = v]
        BY <3>4
      <4>a. v[a] = "Deregistered" /\ \A z \in AgentId : z # a => v[z] = mem.status[z]
        BY <1>m
      <4> HIDE DEF v
      <4>3. mem' \in Registry /\ mem'.status = v /\ mem'.recent = mem.recent /\ mem'.uses = mem.uses
        BY <1>0, <4>1, <4>2 DEF Registry
      <4>4. \A z \in AgentId : z # a => mem'.status[z] = mem.status[z] /\ mem'.recent[z] = mem.recent[z]
        BY <4>3, <4>a
      <4>5. mem'.status[a] \in Status \ {"none"}
        BY <3>2, <4>3, <4>a
      <4>6. /\ Registered(mem') = Registered(mem) \cup {a}
            /\ \A z \in AgentId : mem'.recent[z] => mem'.status[z] # "none"
        BY <1>0, <1>r, <4>3, <4>4, <4>5, StatusSet
      <4> QED BY <3>3, <4>3, <4>6
    <3>5. CASE mem' = [mem EXCEPT !.status[a] = "Online", !.recent[a] = TRUE]
      <4> DEFINE v == [mem.status EXCEPT ![a] = "Online"]
                 d == [mem.recent EXCEPT ![a] = TRUE]
      <4>1. v \in [AgentId -> Status] /\ d \in [AgentId -> BOOLEAN]
        BY <1>m, <3>2
      <4>2. mem' = [mem EXCEPT !.status = v, !.recent = d]
        BY <3>5
      <4>a. v[a] = "Online" /\ \A z \in AgentId : z # a => v[z] = mem.status[z] /\ d[z] = mem.recent[z]
        BY <1>m
      <4> HIDE DEF v, d
      <4>3. mem' \in Registry /\ mem'.status = v /\ mem'.recent = d /\ mem'.uses = mem.uses
        BY <1>0, <4>1, <4>2 DEF Registry
      <4>4. \A z \in AgentId : z # a => mem'.status[z] = mem.status[z] /\ mem'.recent[z] = mem.recent[z]
        BY <4>3, <4>a
      <4>5. mem'.status[a] \in Status \ {"none"}
        BY <3>2, <4>3, <4>a
      <4>6. /\ Registered(mem') = Registered(mem) \cup {a}
            /\ \A z \in AgentId : mem'.recent[z] => mem'.status[z] # "none"
        BY <1>0, <1>r, <4>3, <4>4, <4>5, StatusSet
      <4> QED BY <3>3, <4>3, <4>6
    <3> QED BY <2>2, <3>1, <3>4, <3>5
  <2>4. Backed(mem', by, created)
    BY <1>0, <2>3, BackedSame
  <2> QED BY <1>s, <1>4, <2>0, <2>3, <2>4
<1>5. ASSUME boots > 0, NEW a \in AgentId, Silence(a) PROVE AgentsInv' /\ KeptInv'
  <2> DEFINE Quiet(r) == [r EXCEPT !.recent[a] = FALSE]
  <2>0. /\ mem' = Quiet(mem) /\ db' = Quiet(db) /\ legacy' = Quiet(legacy)
        /\ UNCHANGED <<expired, boots, by, created, kept, lost>>
    BY <1>5 DEF Silence
  <2>1. ASSUME NEW r, Backed(r, by, created)
        PROVE  /\ Backed(Quiet(r), by, created) /\ Quiet(r) \in Registry
               /\ Registered(Quiet(r)) = Registered(r)
               /\ HasRecords(Quiet(r)) <=> HasRecords(r)
    <3> DEFINE d == [r.recent EXCEPT ![a] = FALSE]
               q == Quiet(r)
    <3>1. r \in Registry
      BY <2>1 DEF Backed
    <3>2. /\ d \in [AgentId -> BOOLEAN]
          /\ \A z \in AgentId : d[z] => r.recent[z]
      BY <3>1, RegistryFields
    <3>3. q = [r EXCEPT !.recent = d]
      BY <3>1 DEF Registry
    <3> HIDE DEF d, q
    <3>4. q \in Registry /\ q.recent = d /\ q.status = r.status /\ q.uses = r.uses
      BY <3>1, <3>2, <3>3 DEF Registry
    <3>5. Registered(q) = Registered(r)
      BY <3>4 DEF Registered
    <3>6. HasRecords(q) <=> HasRecords(r)
      BY <3>4, <3>5 DEF HasRecords, Known
    <3>7. \A z \in AgentId : q.recent[z] => q.status[z] # "none"
      BY <2>1, <3>2, <3>4 DEF Backed
    <3>8. Backed(q, by, created)
      BY <2>1, <3>4, <3>5, <3>7, BackedSame
    <3> QED BY <3>4, <3>5, <3>6, <3>8 DEF q
  <2> HIDE DEF Quiet
  <2>2. AgentsInv'
    BY <1>0, <2>0, <2>1 DEF AgentsInv, AgentsTypeOK
  <2>3. /\ Registered(mem') = Registered(mem) /\ Registered(db') = Registered(db)
        /\ Registered(legacy') = Registered(legacy) /\ (HasRecords(db') <=> HasRecords(db))
    BY <1>0, <2>0, <2>1
  <2>4. KeptInv'
    BY <2>0, <2>3 DEF KeptInv
  <2> QED BY <2>2, <2>4
<1>6. ASSUME boots > 0, RefreshStaleness PROVE AgentsInv' /\ KeptInv'
  <2> DEFINE v == [a \in AgentId |-> Aged(a)]
  <2>0. /\ mem' = [mem EXCEPT !.status = v]
        /\ UNCHANGED <<db, legacy, expired, boots, by, created, kept, lost>>
    BY <1>6 DEF RefreshStaleness
  <2>1. /\ v \in [AgentId -> Status]
        /\ \A a \in AgentId : v[a] = "none" <=> mem.status[a] = "none"
    BY <1>m DEF Aged, Status
  <2> HIDE DEF v
  <2>2. mem' \in Registry /\ mem'.status = v /\ mem'.recent = mem.recent /\ mem'.uses = mem.uses
    BY <1>0, <2>0, <2>1 DEF Registry
  <2>3. Registered(mem') = Registered(mem)
    BY <2>1, <2>2 DEF Registered
  <2>4. \A z \in AgentId : mem'.recent[z] => mem'.status[z] # "none"
    BY <1>r, <2>1, <2>2
  <2>5. Backed(mem', by, created)
    BY <1>0, <2>2, <2>3, <2>4, BackedSame
  <2>6. AgentsInv'
    BY <1>0, <2>0, <2>2, <2>5 DEF AgentsInv, AgentsTypeOK
  <2>7. KeptInv'
    BY <2>0, <2>3 DEF KeptInv
  <2> QED BY <2>6, <2>7
<1>7. ASSUME ServerRestart PROVE AgentsInv' /\ KeptInv'
  <2>0. boots' \in 0..MaxBoots /\ Load /\ UNCHANGED <<expired, by, created>>
    BY <1>0, <1>7, AgentsAssumption DEF ServerRestart
  <2>e. /\ Backed(Empty, by, created) /\ Registered(Empty) = {} /\ ~HasRecords(Empty)
    BY EmptyBacked
  <2>r. /\ Registered(db) \subseteq AgentId /\ Registered(legacy) \subseteq AgentId
    BY DEF Registered
  <2>i. ASSUME Backed(mem', by, created), Backed(db', by, created), Backed(legacy', by, created),
               kept' \subseteq AgentId, lost' \subseteq AgentId
        PROVE  AgentsInv'
    <3>1. mem' \in Registry /\ db' \in Registry /\ legacy' \in Registry
      BY <2>i DEF Backed
    <3> QED BY <1>0, <2>0, <2>i, <3>1 DEF AgentsInv, AgentsTypeOK
  <2>1. CASE /\ mem' = Empty
             /\ lost' = lost \cup Registered(db) \cup Registered(legacy)
             /\ UNCHANGED <<db, legacy, kept>>
    <3>1. AgentsInv'
      BY <1>0, <2>1, <2>e, <2>i, <2>r
    <3>2. kept' \ lost' = {}
      BY <2>1 DEF KeptInv
    <3> QED BY <3>1, <3>2 DEF KeptInv
  <2>2. CASE \E A \in SUBSET Registered(db), K \in SUBSET Known(db) :
               /\ mem' = Rows(db, A, K) /\ HasRecords(mem')
               /\ lost' = (lost \cup Registered(db)) \ Registered(mem')
               /\ UNCHANGED <<db, legacy, kept>>
    <3>1. PICK A, K : /\ mem' = Rows(db, A, K) /\ A \subseteq Registered(db) /\ K \subseteq Known(db)
                      /\ HasRecords(mem')
                      /\ lost' = (lost \cup Registered(db)) \ Registered(mem')
                      /\ UNCHANGED <<db, legacy, kept>>
      BY <2>2
    <3>2. Backed(mem', by, created) /\ Registered(mem') \subseteq Registered(db)
      BY <1>0, <3>1, RowsBacked
    <3>3. AgentsInv'
      BY <1>0, <2>i, <2>r, <3>1, <3>2
    <3>4. HasRecords(db)
      <4>1. Registered(mem') # {} => Registered(db) # {}
        BY <3>2
      <4>2. ASSUME Known(mem') # {} PROVE Known(db) # {}
        <5>1. PICK k \in Token : mem'.uses[k] # NoToken
          BY <4>2 DEF Known
        <5>2. mem'.uses = [x \in Token |-> IF x \in K THEN db.uses[x] ELSE NoToken]
          BY <3>1 DEF Rows
        <5>3. k \in K
          BY <5>1, <5>2
        <5> QED BY <3>1, <5>3
      <4> QED BY <3>1, <4>1, <4>2 DEF HasRecords
    <3>5. kept \ lost \subseteq Registered(db)
      BY <3>4 DEF KeptInv
    <3>6. kept' \ lost' \subseteq Registered(mem')
      BY <3>1, <3>5
    <3>7. db' = db
      BY <3>1
    <3>8. kept' \ lost' \subseteq Registered(db')
      BY <3>2, <3>6, <3>7
    <3> QED BY <3>3, <3>6, <3>8 DEF KeptInv
  <2>3. CASE /\ HasRecords(legacy) /\ mem' = legacy /\ legacy' \in {legacy, Empty}
             /\ Save(legacy, lost \cup Registered(db)
                              \cup (IF legacy' = Empty THEN Registered(legacy) ELSE {}))
    <3> DEFINE gone == lost \cup Registered(db)
                         \cup (IF legacy' = Empty THEN Registered(legacy) ELSE {})
    <3>1. gone \subseteq AgentId
      BY <1>0, <2>r
    <3>2. Save(legacy, gone)
      BY <2>3
    <3>3. /\ lost \subseteq gone /\ Registered(db) \subseteq gone
          /\ legacy' = Empty => Registered(legacy) \subseteq gone
      OBVIOUS
    <3> HIDE DEF gone
    <3>4. /\ Backed(db', by, created) /\ kept' \subseteq AgentId /\ lost' \subseteq AgentId
          /\ \/ db' = db /\ kept' = kept /\ lost' = gone
             \/ /\ Registered(db') \subseteq Registered(legacy)
                /\ kept' = kept \cup Registered(db')
                /\ lost' = (gone \cup Registered(legacy)) \ Registered(db')
      BY <1>0, <3>1, <3>2, SavedRows
    <3>5. Backed(mem', by, created) /\ Backed(legacy', by, created)
      BY <1>0, <2>3, <2>e
    <3>6. AgentsInv'
      BY <2>i, <3>4, <3>5
    <3>7. kept \ gone \subseteq Registered(legacy)
      BY <3>3 DEF KeptInv
    <3>8. CASE db' = db /\ kept' = kept /\ lost' = gone
      <4>1. kept' \ lost' \subseteq Registered(mem')
        BY <2>3, <3>7, <3>8
      <4>2. kept' \ lost' \subseteq Registered(legacy')
        BY <2>3, <3>3, <3>7, <3>8
      <4>3. HasRecords(db) => kept \ gone = {}
        BY <3>3 DEF KeptInv
      <4>4. HasRecords(db') => kept' \ lost' \subseteq Registered(db')
        BY <3>8, <4>3
      <4> QED BY <3>6, <4>1, <4>2, <4>4 DEF KeptInv
    <3>9. CASE /\ Registered(db') \subseteq Registered(legacy)
               /\ kept' = kept \cup Registered(db')
               /\ lost' = (gone \cup Registered(legacy)) \ Registered(db')
      <4>1. kept' \ lost' \subseteq Registered(db')
        BY <3>7, <3>9
      <4>2. kept' \ lost' \subseteq Registered(mem')
        BY <2>3, <3>9, <4>1
      <4> QED BY <3>6, <4>1, <4>2 DEF KeptInv
    <3> QED BY <3>4, <3>8, <3>9
  <2> QED BY <2>0, <2>1, <2>2, <2>3 DEF Load
<1>8. CASE UNCHANGED agentsVars
  <2>1. UNCHANGED <<mem, db, legacy, expired, boots, by, created, kept, lost>>
    BY <1>8 DEF agentsVars
  <2>2. AgentsInv'
    BY <2>1 DEF AgentsInv, AgentsTypeOK
  <2>3. KeptInv'
    BY <2>1 DEF KeptInv
  <2> QED BY <2>2, <2>3
<1> QED BY <1>1, <1>2, <1>3, <1>4, <1>5, <1>6, <1>7, <1>8 DEF AgentsNext

\* The registry's variables have their types, for any number of agents, tokens
\* and restarts.
THEOREM RegistryTypesHold == AgentsSpec => []AgentsTypeOK
<1>1. AgentsInv => AgentsTypeOK
  BY DEF AgentsInv
<1> QED BY <1>1, RegistryStarts, RegistrySteps, PTL DEF AgentsSpec

\* A token lets in at most max_uses agents, across saves that fail or lose rows
\* and restarts that bring an older registry back, or part of one.
THEOREM TokensBounded == AgentsSpec => []TokenBound
<1>1. AgentsInv => TokenBound
  <2> SUFFICES ASSUME AgentsInv, NEW r \in {mem, db}, NEW k \in Token
               PROVE  Cardinality(Holders(r, by, k)) + Left(r, k) <= MaxUses
    BY DEF TokenBound, Holders
  <2>1. Backed(r, by, created)
    BY DEF AgentsInv
  <2>2. Left(r, k) \in 0..MaxUses /\ MaxUses \in Nat
    BY <2>1, RegistryFields DEF Backed
  <2>3. CASE Holders(r, by, k) = {}
    <3>1. Cardinality(Holders(r, by, k)) = 0
      BY <2>3, FS_EmptySet
    <3> QED BY <2>2, <3>1
  <2>4. CASE Holders(r, by, k) # {}
    BY <2>1, <2>4 DEF Backed
  <2> QED BY <2>3, <2>4
<1> QED BY <1>1, RegistryStarts, RegistrySteps, PTL DEF AgentsSpec

\* An agent that was stored stays stored and known, whatever becomes of the
\* rows of the others, as long as its own row is not lost.
THEOREM StoredAgentsKept == AgentsSpec => []KeptUnlessLost
<1>1. KeptInv => KeptUnlessLost
  BY DEF KeptInv, KeptUnlessLost
<1> QED BY <1>1, RegistryStarts, RegistrySteps, PTL DEF AgentsSpec

-----------------------------------------------------------------------------
(* The composition that the run checks. *)

\* A behaviour of the composition is a behaviour of each part, so that the
\* theorems about the parts are theorems about what the run checks.
THEOREM EndpointsAreParts == EndpointsSpec => AgentsSpec /\ UpdateSpec /\ LiveSpec
<1>1. EndpointsInit => AgentsInit /\ UpdateInit /\ LiveInit
  BY DEF EndpointsInit
<1>2. [EndpointsNext]_endpointsVars =>
         [AgentsNext]_agentsVars /\ [UpdateNext]_updateVars /\ [LiveNext]_liveVars
  BY DEF EndpointsNext, endpointsVars
<1> QED BY <1>1, <1>2, PTL DEF EndpointsSpec, AgentsSpec, UpdateSpec, LiveSpec

\* In every state of the composition all three parts have their types.
THEOREM EndpointTypesHold == EndpointsSpec => []EndpointsTypeOK
<1>1. AgentsTypeOK /\ UpdateTypeOK /\ LiveTypeOK => EndpointsTypeOK
  BY DEF EndpointsTypeOK
<1> QED BY <1>1, EndpointsAreParts, RegistryTypesHold, UpdateTypesHold, LiveTypesHold, PTL
=============================================================================
