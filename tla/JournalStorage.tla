--------------------------- MODULE JournalStorage ---------------------------
(***************************************************************************)
(* What the two journal storage providers do to the messages of one         *)
(* persistence id.  "memory" is InMemoryJournalStorage                      *)
(* (persistent/journal/provider.rs): a Vec in the order of the writes.      *)
(* "redis" is RedisJournalStorage (providers/persistence/coerce-redis): a   *)
(* sorted set whose score is the entry's sequence and whose member is the   *)
(* serialised entry, so an entry that is already there is not added again   *)
(* and entries of one score are ordered by their bytes.                     *)
(* A payload is a natural number, ordered as its bytes are.                 *)
(***************************************************************************)
EXTENDS Integers, Sequences

VARIABLE provider   \* the storage a persistent actor is configured with, fixed for good

Payloads(es) == [i \in DOMAIN es |-> es[i].payload]

(* The entries from the first one with at least this sequence on.           *)
FirstFrom(ms, s) ==
    CHOOSE i \in 1 .. Len(ms) + 1 :
        /\ i <= Len(ms) => ms[i].sequence >= s
        /\ \A j \in 1 .. i - 1 : ms[j].sequence < s

EntriesFrom(ms, s) == SubSeq(ms, FirstFrom(ms, s), Len(ms))

(* ZADD of one member: sorted by (score, member), duplicates dropped.       *)
Below(a, b) == \/ a.sequence < b.sequence
               \/ a.sequence = b.sequence /\ a.payload < b.payload

ZAdd(ms, e) ==
    LET below == SelectSeq(ms, LAMBDA m : Below(m, e))
        above == SelectSeq(ms, LAMBDA m : Below(e, m))
    IN  below \o <<e>> \o above

ZAddAll(ms, es) ==
    LET f[i \in 0 .. Len(es)] == IF i = 0 THEN ms ELSE ZAdd(f[i - 1], es[i])
    IN  f[Len(es)]

(* write_message and write_message_batch.                                   *)
write_messages(ms, es) ==
    IF provider = "memory" THEN ms \o es ELSE ZAddAll(ms, es)

(* write_snapshot and the snapshots read_latest_snapshot may answer with: a *)
(* snapshot that has sequence 0 and no state stands for None.  In a sorted  *)
(* set the latest is the one with the highest score, and among equal scores *)
(* the one whose bytes sort last, which can be any of them.                 *)
write_snapshot(ss, e) ==
    IF provider = "redis" /\ \E i \in DOMAIN ss : ss[i] = e THEN ss ELSE Append(ss, e)

NoSnapshot == [sequence |-> 0, payload |-> <<>>]

read_latest_snapshot(ss) ==
    IF ss = <<>> THEN {NoSnapshot}
    ELSE IF provider = "memory" THEN {ss[Len(ss)]}
    ELSE { ss[i] : i \in { i \in DOMAIN ss : \A j \in DOMAIN ss : ss[j].sequence <= ss[i].sequence } }

(* Mutants: the read starts one entry late; the answer for 0 is not special. *)
MutantReadLate(ms, from_sequence) ==
    IF from_sequence = 0 THEN ms ELSE EntriesFrom(ms, from_sequence + 2)
MutantReadAbove(ms, from_sequence) == EntriesFrom(ms, from_sequence + 1)

(* "memory" answers everything for 0 and otherwise starts strictly above    *)
(* from_sequence; ZRANGE BYSCORE starts at from_sequence itself.            *)
read_latest_messages(ms, from_sequence) ==
    IF provider = "memory"
    THEN IF from_sequence = 0 THEN ms ELSE EntriesFrom(ms, from_sequence + 1)
    ELSE SelectSeq(ms, LAMBDA m : m.sequence >= from_sequence)

(* Mutant: the journal is emptied although its newest message is new.       *)
MutantDelete(ms, to_sequence) ==
    IF ms # <<>> /\ ms[Len(ms)].sequence >= to_sequence THEN <<>> ELSE EntriesFrom(ms, to_sequence)

(* "memory" keeps from to_sequence on; ZREMRANGEBYSCORE removes it too.     *)
delete_messages_to(ms, to_sequence) ==
    IF provider = "memory"
    THEN IF ms # <<>> /\ ms[Len(ms)].sequence < to_sequence
         THEN <<>>
         ELSE EntriesFrom(ms, to_sequence)
    ELSE SelectSeq(ms, LAMBDA m : m.sequence > to_sequence)
=============================================================================
