------------------------------ MODULE Journal -------------------------------
(***************************************************************************)
(* One persistent actor and its journal: persist, persist_batch, snapshot,  *)
(* clear_old_messages, the failure policies, and recovery in `started'      *)
(* (persistent/actor.rs, persistent/recovery.rs, persistent/journal/mod.rs) *)
(* over one of the storage providers of JournalStorage.                     *)
(*                                                                          *)
(* The actor's own state is the sequence of events it has applied: it       *)
(* applies an event once `persist' returned Ok, as the repository's actors  *)
(* do, and its snapshot is that whole sequence.                             *)
(***************************************************************************)
EXTENDS JournalStorage, FiniteSets

CONSTANTS Events,            \* payloads, ordered natural numbers
          Providers,         \* the storage providers to consider
          PersistPolicies,   \* what persist_failure_policy() may answer
          RecoveryPolicies,  \* what recovery_failure_policy() may answer
          MaxAttempts,       \* Retry::MaxAttempts { max_attempts }
          MaxIssued,         \* bound, per provider: events the actor issues
          MaxSnapshots,      \* bound: snapshots in the storage
          MaxStarts          \* bound: incarnations of the actor

ASSUME EventsAssumption == Events \subseteq Nat
ASSUME ProvidersAssumption == Providers \subseteq {"memory", "redis"}
ASSUME PolicyAssumption ==
    /\ PersistPolicies \subseteq {"UntilSuccess", "MaxAttempts", "ReturnErr", "StopActor", "Panic"}
    /\ RecoveryPolicies \subseteq {"UntilSuccess", "MaxAttempts", "StopActor", "Panic"}
ASSUME BoundsAssumption ==
    MaxAttempts \in Nat /\ MaxIssued \in [Providers -> Nat] /\ MaxSnapshots \in Nat /\ MaxStarts \in Nat

VARIABLES
    messages,                   \* storage: the messages of this persistence id
    snapshots,                  \* storage: its snapshots, oldest first
    last_sequence_id,           \* Journal.last_sequence_id
    last_snapshot_sequence_id,  \* Journal.last_snapshot_sequence_id, 0 for None
    status,                     \* stopped | loading | loaded_snapshot | running
    pending,                    \* the operation being persisted
    attempts,                   \* the attempts of its retry loop
    state,                      \* the events the actor has applied
    acked,                      \* history: events whose persist returned Ok
    issued,                     \* history: events whose persist was called
    starts                      \* history: incarnations so far

storage == <<messages, snapshots>>
journal == <<last_sequence_id, last_snapshot_sequence_id>>
history == <<acked, issued, starts>>
vars == <<provider, storage, journal, status, pending, attempts, state, history>>

(* What a storage call may do: only a call to a remote storage can be lost,  *)
(* or be applied and lose its answer.                                       *)
Outcomes == IF provider = "memory" THEN {"ok"} ELSE {"ok", "lost", "unacked"}

NoOp == [op |-> "none", events |-> <<>>]

Init ==
    /\ provider \in Providers
    /\ messages = <<>> /\ snapshots = <<>>
    /\ last_sequence_id = 0 /\ last_snapshot_sequence_id = 0
    /\ status = "stopped" /\ pending = NoOp /\ attempts = 1
    /\ state = <<>> /\ acked = <<>> /\ issued = <<>> /\ starts = 0

-----------------------------------------------------------------------------
(* Persisting.                                                              *)

Begin(op, events) ==
    /\ status = "running" /\ pending = NoOp
    /\ pending' = [op |-> op, events |-> events]
    /\ attempts' = 1
    /\ UNCHANGED <<storage, journal, status, state, acked, starts>>

BeginEvents(op, events) ==
    /\ Len(issued) + Len(events) <= MaxIssued[provider]
    /\ issued' = issued \o events
    /\ Begin(op, events)

persist == \E e \in Events : BeginEvents("message", <<e>>)

(* An empty batch returns at once and is not an operation.                  *)
persist_batch == \E e \in Events, f \in Events : BeginEvents("batch", <<e, f>>)

snapshot ==
    /\ Len(snapshots) < MaxSnapshots
    /\ Begin("snapshot", state)
    /\ UNCHANGED issued

(* The sequence the entries of the pending operation are written with: a    *)
(* message takes last_sequence_id itself, a batch and a snapshot start one  *)
(* above it.                                                                *)
FirstSequence == IF pending.op = "message" THEN last_sequence_id ELSE last_sequence_id + 1

EntriesOf(events) ==
    [i \in DOMAIN events |-> [sequence |-> FirstSequence + i - 1, payload |-> events[i]]]

StoreWrite ==
    IF pending.op = "snapshot"
    THEN /\ snapshots' = write_snapshot(snapshots, [sequence |-> FirstSequence, payload |-> pending.events])
         /\ UNCHANGED messages
    ELSE /\ messages' = write_messages(messages, EntriesOf(pending.events))
         /\ UNCHANGED snapshots

(* persist_message, persist_batch and persist_snapshot answered Ok: the     *)
(* counters move, and the actor applies the events.                         *)
PersistOk ==
    /\ pending # NoOp /\ "ok" \in Outcomes
    /\ StoreWrite
    /\ last_sequence_id' =
         IF pending.op = "batch" THEN last_sequence_id + Len(pending.events) ELSE last_sequence_id + 1
    /\ last_snapshot_sequence_id' =
         IF pending.op = "snapshot" THEN FirstSequence ELSE last_snapshot_sequence_id
    /\ IF pending.op = "snapshot"
       THEN UNCHANGED <<state, acked>>
       ELSE /\ state' = state \o pending.events
            /\ acked' = acked \o pending.events
    /\ pending' = NoOp
    /\ UNCHANGED <<status, attempts, issued, starts>>

(* should_retry: FALSE stops the actor.                                     *)
ShouldRetry(policy) == policy = "UntilSuccess" \/ (policy = "MaxAttempts" /\ attempts < MaxAttempts)

(* Bounded by MaxAttempts also when retrying until success, where nothing   *)
(* reads it.                                                                *)
NextAttempt == IF attempts < MaxAttempts THEN attempts + 1 ELSE attempts

(* check() on an error: retry, hand the error to the handler, or stop (a    *)
(* panic ends the actor's task too).                                        *)
check ==
    \E policy \in PersistPolicies :
        \/ /\ ShouldRetry(policy)
           /\ attempts' = NextAttempt
           /\ UNCHANGED <<pending, status>>
        \/ /\ policy = "ReturnErr"
           /\ pending' = NoOp
           /\ UNCHANGED <<attempts, status>>
        \/ /\ ~ShouldRetry(policy) /\ policy # "ReturnErr"
           /\ pending' = NoOp /\ status' = "stopped"
           /\ UNCHANGED attempts

(* Mutant: the counter moves although the write was not acknowledged.       *)
MutantPersistErr ==
    /\ pending # NoOp
    /\ \/ "lost" \in Outcomes /\ UNCHANGED storage
       \/ "unacked" \in Outcomes /\ StoreWrite
    /\ check
    /\ last_sequence_id' = last_sequence_id + 1
    /\ UNCHANGED <<last_snapshot_sequence_id, state, history>>

(* The storage call answers Err: "lost" had no effect, "unacked" was        *)
(* applied and only its answer was lost.                                    *)
PersistErr ==
    /\ pending # NoOp
    /\ \/ "lost" \in Outcomes /\ UNCHANGED storage
       \/ "unacked" \in Outcomes /\ StoreWrite
    /\ check
    /\ UNCHANGED <<journal, state, history>>

(* clear_old_messages: nothing to delete before the first snapshot.         *)
clear_old_messages ==
    /\ status = "running" /\ pending = NoOp
    /\ last_snapshot_sequence_id # 0
    /\ messages' = delete_messages_to(messages, last_snapshot_sequence_id)
    /\ UNCHANGED <<snapshots, journal, status, pending, attempts, state, history>>

-----------------------------------------------------------------------------
(* Stopping, crashing and recovering.                                       *)

(* The actor stops between two messages, or its process dies; a write that  *)
(* was on its way may still reach a remote storage.                         *)
Stop ==
    /\ status # "stopped"
    /\ \/ UNCHANGED storage /\ (provider = "memory" => status = "running" /\ pending = NoOp)
       \/ provider # "memory" /\ pending # NoOp /\ StoreWrite
    /\ status' = "stopped" /\ pending' = NoOp
    /\ UNCHANGED <<journal, attempts, state, history>>

(* started -> load_journal: a journal with fresh counters.                  *)
init_journal ==
    /\ last_sequence_id' = 0 /\ last_snapshot_sequence_id' = 0
    /\ status' = "loading" /\ state' = <<>>

Start ==
    /\ status = "stopped" /\ starts < MaxStarts
    /\ starts' = starts + 1 /\ attempts' = 1
    /\ init_journal
    /\ UNCHANGED <<storage, pending, acked, issued>>

recover_snapshot ==
    /\ status = "loading" /\ "ok" \in Outcomes
    /\ \E latest \in read_latest_snapshot(snapshots) :
         /\ last_sequence_id' = latest.sequence
         /\ last_snapshot_sequence_id' = latest.sequence
         /\ state' = latest.payload
    /\ status' = "loaded_snapshot"
    /\ UNCHANGED <<storage, pending, attempts, history>>

(* recover_messages, then `started' applies the snapshot and each message;  *)
(* the counter is left at the sequence of the last message read.            *)
recover_messages ==
    LET read == read_latest_messages(messages, last_sequence_id)
    IN  /\ status = "loaded_snapshot" /\ "ok" \in Outcomes
        /\ state' = state \o Payloads(read)
        /\ last_sequence_id' = IF read = <<>> THEN last_sequence_id ELSE read[Len(read)].sequence
        /\ status' = "running"
        /\ UNCHANGED <<storage, last_snapshot_sequence_id, pending, attempts, history>>

(* recover_journal: a failed read starts over with a new journal, or stops. *)
RecoverErr ==
    /\ status \in {"loading", "loaded_snapshot"} /\ Outcomes # {"ok"}
    /\ \E policy \in RecoveryPolicies :
         \/ /\ ShouldRetry(policy)
            /\ attempts' = NextAttempt
            /\ init_journal
         \/ /\ ~ShouldRetry(policy)
            /\ status' = "stopped"
            /\ UNCHANGED <<journal, state, attempts>>
    /\ UNCHANGED <<storage, pending, history>>

Next ==
    /\ \/ persist \/ persist_batch \/ snapshot
       \/ PersistOk \/ PersistErr \/ clear_old_messages
       \/ Stop \/ Start \/ recover_snapshot \/ recover_messages \/ RecoverErr
    /\ UNCHANGED provider

Spec == Init /\ [][Next]_vars

-----------------------------------------------------------------------------
(* Properties.                                                              *)

(* What a recovery from the present contents of the storage can yield.      *)
Recoverable ==
    { s.payload \o Payloads(read_latest_messages(messages, s.sequence)) :
        s \in read_latest_snapshot(snapshots) }

(* s is t with some of its elements left out: an increasing function says    *)
(* where in t each element of s is.                                         *)
IsSubsequence(s, t) ==
    \E f \in [DOMAIN s -> DOMAIN t] :
        /\ \A i, j \in DOMAIN s : i < j => f[i] < f[j]
        /\ \A i \in DOMAIN s : s[i] = t[f[i]]

(* Whatever was persisted, snapshotted, cleared and restarted before, a     *)
(* recovery never reorders, repeats or invents events: it yields the        *)
(* acknowledged history with some events left out, and at most one of those *)
(* the running actor has: persist_message reuses the sequence of the        *)
(* snapshot before it, which read_latest_messages skips.                    *)
RecoveryLosesAtMostOne ==
    provider = "memory" => \A r \in Recoverable :
        IsSubsequence(r, acked) /\ (status = "running" => Len(state) <= Len(r) + 1)

(* An actor that never took a snapshot recovers all that was acknowledged,  *)
(* in order, across any number of restarts, batches and single messages.    *)
NoSnapshotNoLoss == provider = "memory" /\ snapshots = <<>> => Recoverable = {acked}

(* clear_old_messages never changes what a recovery would yield: it deletes *)
(* only messages the latest snapshot stands for.                            *)
ClearKeepsRecoverable == [][clear_old_messages /\ provider = "memory" => Recoverable' = Recoverable]_vars

(* test_persistent_recovery.rs: the recovered actor has the events whose    *)
(* persist returned Ok, all of them and in their order.                     *)
RecoversWhatWasPersisted == status = "running" => IsSubsequence(acked, state)

(* How often e occurs in s.                                                *)
Count(s, e) == Cardinality({ i \in DOMAIN s : s[i] = e })

(* However often a write is retried after its answer was lost, and whatever *)
(* the failure policy does next, a recovery applies no event more often     *)
(* than it was issued: the retried entry keeps its sequence, and no event   *)
(* is both part of the latest snapshot and replayed after it.               *)
NoDoubleApply == \A r \in Recoverable, e \in Events : Count(r, e) <= Count(issued, e)
=============================================================================
