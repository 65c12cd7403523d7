------------------------------- MODULE AuditLog -------------------------------
(***************************************************************************)
(* The audit log of a club.  Entries recorded through AuditService are     *)
(* chained: each keeps the hash of the one before, and verifyIntegrity     *)
(* walks the chain to tell whether anybody changed the log.  Most services *)
(* write their entries directly, with no hash.                             *)
(*                                                                         *)
(* A definition under "Bug:" is used by no other: it takes the place of    *)
(* the one after it to show that a property notices the bug.               *)
(***************************************************************************)
EXTENDS Integers, FiniteSets, Folds, Sequences

CONSTANTS
    Recorders,      \* transactions that record an entry
    MaxEntries,     \* bound on the entries of the log
    MaxNow          \* bound on the clocks of the instances

ASSUME AuditAssumption ==
    {MaxEntries, MaxNow} \subseteq Nat

VARIABLES
    entries,        \* the AuditLogEntry rows, in the order they were written
    chainLock,      \* who hold the advisory lock of the log
    latest          \* the entry a recorder found last, 0 when none

auditVars == <<entries, chainLock, latest>>

\* at: createdAt; chained: it has an integrityHash; after: the entry whose hash
\* is its previousHash, 0 when null; altered, removed: what was done to the row
\* by other means than this code.
Entry(at, chained, after) ==
    [at |-> at, chained |-> chained, after |-> after, altered |-> FALSE, removed |-> FALSE]

Rows == {i \in DOMAIN entries : ~entries[i].removed}

\* Rows of one instant are ordered by their random ids: in any order.
Latest == {i \in Rows : \A k \in Rows : entries[k].at <= entries[i].at}

\* The hash of a row, 0 when null.
HashOf(i) == IF i # 0 /\ entries[i].chained THEN i ELSE 0

\* Bug: the instant of the clock, whatever the one before.
AtNow(last, now) == now

\* Never the instant of the entry before, or an earlier one.
AtAfter(last, now) == IF last # 0 /\ entries[last].at >= now THEN entries[last].at + 1 ELSE now

\* Bug: two recorders at once.
LockIsShared == TRUE

LockIsFree == chainLock = {}

AuditInit == entries = <<>> /\ chainLock = {} /\ latest = [r \in Recorders |-> 0]

\* record takes the lock of the log and reads its last entry.
ReadLatest(r) ==
    /\ LockIsFree /\ r \notin chainLock
    /\ chainLock' = chainLock \cup {r}
    /\ latest' = [latest EXCEPT ![r] = IF Latest = {} THEN 0 ELSE CHOOSE i \in Latest : TRUE]
    /\ UNCHANGED entries

Record(r) ==
    /\ r \in chainLock /\ Len(entries) < MaxEntries
    /\ \E now \in 0..MaxNow :
           entries' = Append(entries, Entry(AtAfter(latest[r], now), TRUE, HashOf(latest[r])))
    /\ chainLock' = chainLock \ {r}
    /\ UNCHANGED latest

\* auditLogEntry.create, from any other service.
WriteEntry ==
    /\ Len(entries) < MaxEntries
    /\ \E now \in 0..MaxNow : entries' = Append(entries, Entry(now, FALSE, 0))
    /\ UNCHANGED <<chainLock, latest>>

\* The row is changed, or deleted, by other means.
Alter(i) ==
    /\ i \in Rows /\ entries[i].chained
    /\ \/ entries' = [entries EXCEPT ![i].altered = TRUE]
       \/ entries' = [entries EXCEPT ![i].removed = TRUE]
    /\ UNCHANGED <<chainLock, latest>>

AuditNext ==
    \/ \E r \in Recorders : ReadLatest(r) \/ Record(r)
    \/ WriteEntry
    \/ \E i \in DOMAIN entries : Alter(i)

AuditSpec == AuditInit /\ [][AuditNext]_auditVars

-----------------------------------------------------------------------------
(* verifyIntegrity.                                                        *)

\* Entries with no hash are skipped until the first that has one.
Verified(chain, i) ==
    LET row == entries[i]
        legacy == ~row.chained /\ row.after = 0 /\ chain.checked = 0
        sound == row.chained /\ ~row.altered /\ row.after = chain.previous IN
    IF ~chain.valid \/ legacy THEN chain
    ELSE [valid |-> sound, checked |-> chain.checked + 1, previous |-> HashOf(i)]

\* The row that is walked last: the latest, and of one instant the last written.
LastOf(rows) == CHOOSE i \in rows : \A k \in rows :
    entries[k].at < entries[i].at \/ (entries[k].at = entries[i].at /\ k <= i)

Walk(rows) == MapThenFoldSet(LAMBDA i, chain : Verified(chain, i),
                             [valid |-> TRUE, checked |-> 0, previous |-> 0],
                             LAMBDA i : i, LastOf, rows)

Valid == Walk(Rows).valid

-----------------------------------------------------------------------------
(* Properties.                                                             *)

Untouched == \A i \in DOMAIN entries : ~entries[i].altered /\ ~entries[i].removed

\* An entry with no hash stands after one that has it.
Mixed == \E i, k \in Rows : entries[i].chained /\ ~entries[k].chained /\ entries[k].at >= entries[i].at

\* A log nobody touched is found valid, whatever the clocks of its recorders,
\* as long as the services that write no hash wrote before the first that does.
ChainIsSound == Untouched /\ ~Mixed => Valid

\* An entry that was altered, or removed from under a later one, is noticed.
TouchIsNoticed ==
    (\E i \in DOMAIN entries :
        \/ entries[i].altered /\ ~entries[i].removed
        \/ entries[i].removed /\ \E k \in Rows : entries[k].after = i) => ~Valid

AuditInv ==
    /\ \A i \in DOMAIN entries : entries[i].after \in 0..(i - 1)
    /\ ChainIsSound
    /\ TouchIsNoticed
=============================================================================
