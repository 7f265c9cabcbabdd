----------------------------- MODULE AuditChain ------------------------------
(***************************************************************************)
(* The hash-chained audit log (AuditLog, src/audit.rs): recording,         *)
(* checkpoints, retention and verification.                                *)
(*                                                                         *)
(* A hash is the pair of what was hashed, so that hashes are equal exactly *)
(* when their inputs are; the genesis hash is the empty tuple.  The text   *)
(* that is hashed, category and summary joined by a bar, is the content:   *)
(* another place for the bar is no change.  Left out: the sequence number  *)
(* of a record, which no hash covers and only messages show, and the       *)
(* signatures of checkpoints, which nothing verifies.  Rewrite stands for  *)
(* a stored record that is changed behind the log's back; records neither  *)
(* go nor come that way.                                                   *)
(***************************************************************************)
EXTENDS Integers, Sequences, FiniteSets

CONSTANTS
  Content,      \* what records say
  Interval,     \* checkpoint_interval; 0 disables
  Retain,       \* max_records of apply_retention
  MaxRecords,   \* bound: records written
  MaxRewrites   \* bound: records changed behind the log's back

ASSUME AuditChainAssumption ==
  Interval \in Nat /\ Retain \in Nat \ {0} /\ MaxRecords \in Nat /\ MaxRewrites \in Nat

VARIABLES
  records, previous, checkpoints,
  \* history: every record as it was written, the rewrites counted, and whether
  \* apply_retention took the head of the chain from a rewritten hash
  said, rewrites, misled

auditVars == <<records, previous, checkpoints, said, rewrites, misled>>

Genesis == <<>>
Hash(p, c) == <<p, c>>
Entry(c, p, h) == [content |-> c, prev |-> p, hash |-> h]

AuditInit ==
  /\ records = <<>> /\ previous = Genesis /\ checkpoints = <<>>
  /\ said = <<>> /\ rewrites = 0 /\ misled = FALSE

-----------------------------------------------------------------------------
\* The hash of a new record.
Link(c) == Hash(previous, c)

\* insert_checkpoint, after every Interval records held.
Checkpoint(n, hash) ==
  IF Interval > 0 /\ n % Interval = 0
    THEN checkpoints' = Append(checkpoints, [after |-> n, hash |-> hash])
    ELSE UNCHANGED checkpoints

\* record
RecordAudit(c) ==
  /\ Len(said) < MaxRecords
  /\ records' = Append(records, Entry(c, previous, Link(c)))
  /\ said' = Append(said, Entry(c, previous, Link(c)))
  /\ previous' = Link(c)
  /\ Checkpoint(Len(records) + 1, Link(c))
  /\ UNCHANGED <<rewrites, misled>>

\* Mutant: after retention the chain starts afresh.
ApplyRetentionRestarts ==
  /\ Len(records) > Retain
  /\ records' = SubSeq(records, Len(records) - Retain + 1, Len(records))
  /\ previous' = Genesis
  /\ UNCHANGED <<checkpoints, said, rewrites, misled>>

\* apply_retention: the oldest records go, the first one left is said to
\* follow the genesis hash, its own hash stays, and the log goes on from the
\* stored hash of the last.
ApplyRetention ==
  /\ Len(records) > Retain
  /\ LET kept == SubSeq(records, Len(records) - Retain + 1, Len(records))
     IN /\ records' = [kept EXCEPT ![1] = Entry(kept[1].content, Genesis, kept[1].hash)]
        /\ previous' = kept[Retain].hash
        /\ misled' = (misled \/ kept[Retain].hash # previous)
  /\ UNCHANGED <<checkpoints, said, rewrites>>

\* Record i is overwritten.
Rewrite(i, e) ==
  /\ rewrites < MaxRewrites
  /\ records' = [records EXCEPT ![i] = e]
  /\ rewrites' = rewrites + 1
  /\ UNCHANGED <<previous, checkpoints, said, misled>>

\* What is written over it: any content, any hash of the log for the one
\* before, and the hash that was there or the one that fits.
Forged(i) ==
  LET before == {Genesis} \cup {records[k].hash : k \in DOMAIN records}
  IN {Entry(c, p, records[i].hash) : c \in Content, p \in before}
       \cup {Entry(c, p, Hash(p, c)) : c \in Content, p \in before}

AuditNext ==
  \/ \E c \in Content : RecordAudit(c)
  \/ ApplyRetention
  \/ \E i \in DOMAIN records : \E e \in Forged(i) : Rewrite(i, e)

AuditSpec == AuditInit /\ [][AuditNext]_auditVars

\* verify_chain's two tests of one record.
LinkHolds(i) ==
  /\ records[i].prev = IF i = 1 THEN Genesis ELSE records[i - 1].hash
  /\ records[i].hash = Hash(records[i].prev, records[i].content)

\* verify_chain
Verifies == \A i \in DOMAIN records : LinkHolds(i)

-----------------------------------------------------------------------------
(* Properties *)

Trimmed == Len(records) < Len(said)

\* Record i as it was written.
Written(i) == said[Len(said) - Len(records) + i]

\* Record i is what was written; retention gives the first one a new prev.
Untouched(i) ==
  /\ records[i].content = Written(i).content
  /\ records[i].hash = Written(i).hash
  /\ records[i].prev = IF i = 1 THEN Genesis ELSE Written(i).prev

\* The last record has the hash the log goes on from.
TipStands == records # <<>> /\ records[Len(records)].hash = previous

\* The hash of everything recorded up to the n-th record.
Chain == LET chain[n \in 0..Len(said)] ==
               IF n = 0 THEN Genesis ELSE Hash(chain[n - 1], said[n].content)
         IN chain

\* However often the log is trimmed, written again and rewritten in place, as
\* long as its last record has the hash the log goes on from, the links tell
\* every change of the records behind the first and of the hash of the first,
\* and nothing else; verify_chain tells every change in a log that was never
\* trimmed; and a checkpoint anchors all that was recorded before it, what was
\* trimmed since included.  A rewritten end of the log fits the chain until the
\* next record is written; apply_retention goes on from it instead (misled),
\* and then nothing is claimed.
TamperEvident ==
  ~misled =>
    /\ TipStands =>
         /\ (\A i \in 2..Len(records) : LinkHolds(i))
               <=> /\ records[1].hash = Written(1).hash
                   /\ \A i \in 2..Len(records) : Untouched(i)
         /\ ~Trimmed => (Verifies <=> \A i \in DOMAIN records : Untouched(i))
    /\ \A k \in DOMAIN checkpoints : \E n \in DOMAIN said :
         /\ checkpoints[k].hash = Chain[n]
         /\ ~Trimmed => n = checkpoints[k].after

\* A log nobody changed verifies, after retention too.
UntouchedVerifies == (\A i \in DOMAIN records : Untouched(i)) => Verifies
=============================================================================
