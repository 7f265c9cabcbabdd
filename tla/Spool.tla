-------------------------------- MODULE Spool --------------------------------
(***************************************************************************)
(* The encrypted event spool: EncryptedSpool (src/spool.rs).  It is used   *)
(* through &mut self, so every operation is atomic.  Callers keep the      *)
(* entries they took until they have delivered them or hand them back with *)
(* nack; a restart forgets those, and rebuilds the spool from the bytes    *)
(* persist wrote last, with the key derived at that start.                 *)
(*                                                                         *)
(* An entry is encrypted under the key of the spool that wrote it; under   *)
(* another key its bytes decrypt to something that does not parse.         *)
(* Payload, destination and time are carried along and steer nothing.      *)
(* peek, the per-tenant listings, stats and backpressure only read.        *)
(***************************************************************************)
EXTENDS Naturals, Sequences, FiniteSets, SequencesExt, Ascending

CONSTANTS
  Tenant,       \* tenant ids
  NoTenant,     \* tenant_id = None
  Key,          \* encryption keys
  Nothing,      \* no persisted bytes
  MaxEntries,   \* max_entries
  MaxRetries,   \* max_retries
  MaxSeq        \* bound: events enqueued under one numbering

ASSUME TenantAssumption == NoTenant \notin Tenant
ASSUME LimitAssumption == MaxEntries \in Nat \ {0} /\ MaxRetries \in Nat /\ MaxSeq \in Nat

VARIABLES
  queue, key, nextSeq, totalEnqueued, totalDelivered, totalDropped,
  held,     \* entries taken out whose delivery is not settled
  saved,    \* what persist wrote last
  nacks,    \* history: entries handed back
  erased    \* history: entries drain_for_tenant neither returned nor kept

counters == <<nextSeq, totalEnqueued, totalDelivered, totalDropped>>
vars == <<queue, key, counters, held, saved, nacks, erased>>

Entry == [seq : Nat \ {0}, attempts : Nat, tenant : Tenant \cup {NoTenant}, key : Key]
Readable(e) == e.key = key
\* A readable entry of tenant t.
Of(e, t) == Readable(e) /\ e.tenant = t

-----------------------------------------------------------------------------
\* try_new
Init ==
  /\ queue = << >>
  /\ key \in Key
  /\ nextSeq = 1
  /\ totalEnqueued = 0 /\ totalDelivered = 0 /\ totalDropped = 0
  /\ held = {}
  /\ saved = Nothing
  /\ nacks = 0 /\ erased = 0

\* Mutant: one entry more than max_entries.
FullLate == Len(queue) > MaxEntries

\* enqueue_with_tenant's test for a full spool.
Full == Len(queue) >= MaxEntries

\* enqueue_with_tenant: a full spool drops its oldest entry.
Enqueue(t) ==
  LET e == [seq |-> nextSeq, attempts |-> 0, tenant |-> t, key |-> key]
  IN /\ nextSeq <= MaxSeq
     /\ nextSeq' = nextSeq + 1
     /\ totalEnqueued' = totalEnqueued + 1
     /\ totalDropped' = totalDropped + (IF Full THEN 1 ELSE 0)
     /\ queue' = Append(IF Full THEN Tail(queue) ELSE queue, e)
     /\ UNCHANGED <<key, totalDelivered, held, saved, nacks, erased>>

\* What a caller gets of entries taken off the queue.
Handed(entries) == {e \in Range(entries) : Readable(e)}

\* dequeue: the front entry, which counts as delivered even when it does not
\* parse and the caller gets None.
Dequeue ==
  /\ queue # << >>
  /\ queue' = Tail(queue)
  /\ totalDelivered' = totalDelivered + 1
  /\ held' = held \cup Handed(<<Head(queue)>>)
  /\ UNCHANGED <<key, nextSeq, totalEnqueued, totalDropped, saved, nacks, erased>>

\* dequeue_for_tenant: the first entry of t.
DequeueForTenant(t) ==
  \E i \in DOMAIN queue :
     /\ Of(queue[i], t)
     /\ \A j \in 1..(i - 1) : ~Of(queue[j], t)
     /\ queue' = RemoveAt(queue, i)
     /\ totalDelivered' = totalDelivered + 1
     /\ held' = held \cup {queue[i]}
     /\ UNCHANGED <<key, nextSeq, totalEnqueued, totalDropped, saved, nacks, erased>>

\* drain_all: dequeue until it yields None, at the end or at an entry that
\* does not parse, which is then gone.
DrainAll ==
  LET unreadable == {i \in DOMAIN queue : ~Readable(queue[i])}
      n == IF unreadable = {} THEN Len(queue) ELSE Min(unreadable)
  IN /\ queue # << >>
     /\ queue' = SubSeq(queue, n + 1, Len(queue))
     /\ totalDelivered' = totalDelivered + n
     /\ held' = held \cup Handed(SubSeq(queue, 1, n))
     /\ UNCHANGED <<key, nextSeq, totalEnqueued, totalDropped, saved, nacks, erased>>

\* The entries at positions S, in their order.
EntriesAt(S) == LET ids == InOrder(S) IN [k \in 1..Len(ids) |-> queue[ids[k]]]

\* Mutant: the remaining entries are pushed to the front.
RemainingReversed(t) ==
  Reverse(EntriesAt({i \in DOMAIN queue : Readable(queue[i]) /\ queue[i].tenant # t}))

\* Mutant: an entry without a tenant goes with the drained one's.
RemainingTenants(t) ==
  EntriesAt({i \in DOMAIN queue : Readable(queue[i]) /\ queue[i].tenant \notin {t, NoTenant}})

\* What drain_for_tenant puts back: an entry that does not parse is in
\* neither branch.
Remaining(t) == EntriesAt({i \in DOMAIN queue : Readable(queue[i]) /\ queue[i].tenant # t})

\* drain_for_tenant
DrainForTenant(t) ==
  LET taken == {e \in Range(queue) : Of(e, t)}
  IN /\ queue # << >>
     /\ queue' = Remaining(t)
     /\ totalDelivered' = totalDelivered + Cardinality(taken)
     /\ held' = held \cup taken
     /\ erased' = erased + Cardinality({e \in Range(queue) : ~Readable(e)})
     /\ UNCHANGED <<key, nextSeq, totalEnqueued, totalDropped, saved, nacks>>

\* nack's test for the dead letter.
Exhausted(e) == e.attempts + 1 > MaxRetries

\* Mutant: a dead letter is not counted.
DroppedByOverflowOnly(e) == totalDropped

\* total_dropped after nack(e)
DroppedAfterNack(e) == IF Exhausted(e) THEN totalDropped + 1 ELSE totalDropped

\* nack: back to the end of the queue, whatever its length, or dropped.  What
\* dequeue counted as delivered stays counted.
Nack(e) ==
  /\ e \in held
  /\ held' = held \ {e}
  /\ nacks' = nacks + 1
  /\ totalDropped' = DroppedAfterNack(e)
  /\ queue' = IF Exhausted(e) THEN queue
              ELSE Append(queue, [e EXCEPT !.attempts = @ + 1, !.key = key])
  /\ UNCHANGED <<key, nextSeq, totalEnqueued, totalDelivered, saved, erased>>

\* The caller delivered e: the spool is not told.
Settle(e) ==
  /\ e \in held
  /\ held' = held \ {e}
  /\ UNCHANGED <<queue, key, counters, saved, nacks, erased>>

\* persist, with the history that belongs to the counters.
Persist ==
  /\ saved' = [queue |-> queue, nextSeq |-> nextSeq, enqueued |-> totalEnqueued,
               delivered |-> totalDelivered, dropped |-> totalDropped,
               nacks |-> nacks, erased |-> erased]
  /\ UNCHANGED <<queue, key, counters, held, nacks, erased>>

\* Mutant: the numbering goes on from the number of restored entries.
RestoredSeqByCount == Len(saved.queue) + 1

\* restore takes next_seq from the header.
RestoredSeq == saved.nextSeq

\* The process ends and starts again with key k: restore rebuilds the spool
\* from intact bytes.
RestartRestored(k) ==
  /\ saved # Nothing
  /\ key' = k /\ held' = {}
  /\ queue' = saved.queue
  /\ nextSeq' = RestoredSeq
  /\ totalEnqueued' = saved.enqueued
  /\ totalDelivered' = saved.delivered
  /\ totalDropped' = saved.dropped
  /\ nacks' = saved.nacks /\ erased' = saved.erased
  /\ UNCHANGED saved

\* The same without bytes, or with bytes that restore refuses (header, hex,
\* entry count): it changes nothing, and the spool is the new one.
RestartEmpty(k) ==
  /\ key' = k /\ held' = {}
  /\ queue' = << >>
  /\ nextSeq' = 1
  /\ totalEnqueued' = 0 /\ totalDelivered' = 0 /\ totalDropped' = 0
  /\ nacks' = 0 /\ erased' = 0
  /\ UNCHANGED saved

Next ==
  \/ \E t \in Tenant \cup {NoTenant} : Enqueue(t)
  \/ Dequeue
  \/ \E t \in Tenant : DequeueForTenant(t)
  \/ DrainAll
  \/ \E t \in Tenant : DrainForTenant(t)
  \/ \E e \in held : Nack(e)
  \/ \E e \in held : Settle(e)
  \/ Persist
  \/ \E k \in Key : RestartRestored(k)
  \/ \E k \in Key : RestartEmpty(k)

Spec == Init /\ [][Next]_vars

-----------------------------------------------------------------------------
(* Properties *)

Image == [queue : Seq(Entry), nextSeq : Nat \ {0}, enqueued : Nat, delivered : Nat,
          dropped : Nat, nacks : Nat, erased : Nat]

\* Every variable has its type, no entry has been tried more often than nack
\* allows, and the queue outgrows max_entries by what callers hand back and by
\* nothing else: nack appends whatever the length, and enqueue on an overfull
\* queue drops one entry for the one it adds, also after a restart.
TypeOK ==
  /\ queue \in Seq({e \in Entry : e.attempts <= MaxRetries})
  /\ Len(queue) <= MaxEntries + nacks
  /\ key \in Key
  /\ nextSeq \in Nat \ {0}
  /\ totalEnqueued \in Nat /\ totalDelivered \in Nat /\ totalDropped \in Nat
  /\ held \subseteq Entry
  /\ saved \in Image \cup {Nothing}
  /\ nacks \in Nat /\ erased \in Nat

\* Sequence numbers identify events: no two entries, waiting or in a
\* caller's hands, share one, and the next is new, across retries and
\* restarts from an older image.
SeqsIdentify ==
  /\ \A i, j \in DOMAIN queue : queue[i].seq = queue[j].seq => i = j
  /\ \A e, f \in held : e.seq = f.seq => e = f
  /\ \A i \in DOMAIN queue, e \in held : queue[i].seq # e.seq
  /\ \A e \in Range(queue) \cup held : e.seq < nextSeq

\* The counters balance: each event enqueued or handed back was taken,
\* dropped, waits, or was erased by a tenant's drain.
Balanced ==
  totalEnqueued + nacks = totalDelivered + totalDropped + Len(queue) + erased

\* Entries that were never retried stand in the queue in the order they came,
\* whichever mix of plain and per-tenant operations took others and rebuilt the
\* queue.  A tenant's dequeue may still take a later one before an earlier one
\* of another tenant.
FirstTriesInOrder ==
  \A i, j \in DOMAIN queue :
     i < j /\ queue[i].attempts = 0 /\ queue[j].attempts = 0 => queue[i].seq < queue[j].seq

\* While the process runs, an entry that its key still reads leaves the queue
\* only into a caller's hands or as a counted drop, whichever mix of plain
\* and per-tenant operations empties it.
ReadableNotLost ==
  [][\/ \E k \in Key : RestartRestored(k) \/ RestartEmpty(k)
     \/ \A e \in Range(queue) \ Range(queue') :
          e \in held' \/ ~Readable(e) \/ totalDropped' = totalDropped + 1]_vars
=============================================================================
