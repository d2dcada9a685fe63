--------------------------- MODULE LogBasedRecovery ---------------------------
(***************************************************************************)
(* src/fault_tolerance/data_recovery/LogBasedRecovery.cpp: the write-ahead *)
(* log.  InMemoryCache::put and remove first append a LogRecord to the WAL *)
(* file (WriteAheadLog::append_log writes "id op key value" and std::endl, *)
(* which flushes it to the operating system) and then change the cache.   *)
(* After a crash the process starts with an empty cache and recover()      *)
(* replays read_logs(), which parses the file back with operator>>.        *)
(*                                                                         *)
(* The file is modelled as what operator>> sees: a sequence of             *)
(* whitespace-separated tokens.  A REMOVE record is written with an empty  *)
(* value, so it leaves three tokens, not four.  Every transaction id is    *)
(* the one token IdTok: recover() never looks at the ids, and only whether *)
(* a token reads as an int matters.  The caller is the single thread of    *)
(* main()/TransactionManager; a crash may fall between its two steps.      *)
(*                                                                         *)
(* std::endl flushes to the operating system and nothing calls fsync, so   *)
(* a process crash keeps every record while a power loss keeps only what   *)
(* the system wrote back, cut anywhere: between two tokens, with or        *)
(* without the blank after the last, or inside a token.  SpecPowerLoss    *)
(* adds the power loss; Spec has process crashes only.                     *)
(***************************************************************************)
EXTENDS Integers, Sequences, SequencesExt

CONSTANTS
    Keys,         \* the keys callers use
    Values,       \* the values callers put (non-empty strings without blanks)
    Ops,          \* the operations callers issue, a subset of {"PUT", "REMOVE"}
    IdTok,        \* the token of a transaction id, the only one that reads as an int
    NoOp,         \* no operation between its append and its cache update
    MaxRecords,   \* bound on appended records
    MaxCrashes,   \* bound on process crashes
    Garbage,      \* a token cut short, or two tokens run together, that is not an int
    MaxPowerLosses \* bound on power losses

ASSUME /\ Ops \subseteq {"PUT", "REMOVE"}
       /\ IdTok \notin Keys \cup Values \cup {"PUT", "REMOVE"}
       /\ Garbage \notin Keys \cup Values \cup {"PUT", "REMOVE", IdTok}
       /\ MaxRecords \in Nat /\ MaxCrashes \in Nat /\ MaxPowerLosses \in Nat

Token == Keys \cup Values \cup {"PUT", "REMOVE", IdTok, Garbage}

\* A LogRecord as the caller built it; a REMOVE carries the empty value "".
Record == [op : Ops, key : Keys, value : Values \cup {""}]

VARIABLES
    file,       \* the WAL file's tokens
    cache,      \* InMemoryCache::cache: a function from its keys to values
    up,         \* the process is running
    inflight,   \* the record appended whose cache update has not run yet
    logged,     \* history: the records append_log has written, in order
    crashes,    \* process crashes so far
    synced,     \* the tokens of file the system has written to the disk
    unended,    \* the file ends inside a token, with no blank or newline after it
    losses      \* power losses so far

vars == <<file, cache, up, inflight, logged, crashes, synced, unended, losses>>

TypeOK ==
    /\ file \in Seq(Token)
    /\ DOMAIN cache \subseteq Token /\ \A k \in DOMAIN cache : cache[k] \in Token
    /\ up \in BOOLEAN
    /\ inflight \in Record \cup {NoOp}
    /\ logged \in Seq(Record) /\ Len(logged) <= MaxRecords
    /\ crashes \in 0..MaxCrashes
    /\ synced \in 0..Len(file) /\ unended \in BOOLEAN /\ losses \in 0..MaxPowerLosses

EmptyCache == [k \in {} |-> IdTok]

\* The log file opened for append holds nothing yet.
Init ==
    /\ file = <<>>
    /\ cache = EmptyCache
    /\ up = TRUE
    /\ inflight = NoOp
    /\ logged = <<>>
    /\ crashes = 0
    /\ synced = 0 /\ unended = FALSE /\ losses = 0

-----------------------------------------------------------------------------
(* The log format.                                                         *)

\* append_log: id, op, key and value separated by blanks, then a newline;
\* an empty value adds no token.
Serialize(r) == <<IdTok, r.op, r.key>> \o (IF r.value = "" THEN <<>> ELSE <<r.value>>)

\* read_logs: while (infile >> id >> op >> key >> value) push the record.
\* The loop stops at the end of the file with fewer than four tokens left,
\* and at a first token that does not read as an int.
RECURSIVE ReadLogs(_)
ReadLogs(t) ==
    IF Len(t) < 4 \/ t[1] # IdTok
    THEN <<>>
    ELSE <<[op |-> t[2], key |-> t[3], value |-> t[4]]>> \o ReadLogs(SubSeq(t, 5, Len(t)))

\* Mutant: a REMOVE stored as the empty value instead of erasing the key.
ApplyRecordRemoveAsEmpty(c, r) ==
    CASE r.op = "PUT" -> [x \in DOMAIN c \cup {r.key} |-> IF x = r.key THEN r.value ELSE c[x]]
      [] r.op = "REMOVE" -> [x \in DOMAIN c \cup {r.key} |-> IF x = r.key THEN "" ELSE c[x]]
      [] OTHER -> c

\* One record applied as recover() does: PUT overwrites, REMOVE erases,
\* any other operation string is passed over.
ApplyRecord(c, r) ==
    CASE r.op = "PUT" -> [x \in DOMAIN c \cup {r.key} |-> IF x = r.key THEN r.value ELSE c[x]]
      [] r.op = "REMOVE" -> [x \in DOMAIN c \ {r.key} |-> c[x]]
      [] OTHER -> c

\* Two tokens written with nothing between them read as one: two ints as
\* an int, anything else as a token that is not an int.
Join(a, b) == IF a = IdTok /\ b = IdTok THEN IdTok ELSE Garbage

\* The tokens of the file after toks are written at its end: a file that
\* ends inside a token has its last token run into the first of toks.
WriteAtEnd(f, u, toks) ==
    IF u THEN Front(f) \o <<Join(Last(f), Head(toks))>> \o Tail(toks) ELSE f \o toks

\* What is left of a token cut inside: the digits of an id still read as
\* an int; any other token is cut to one that is not.
Fragment(t) == IF t = IdTok THEN IdTok ELSE Garbage

-----------------------------------------------------------------------------
(* Mutant: the records replayed newest first.                             *)
ReplayOntoNewestFirst(c, recs) == FoldRight(LAMBDA r, d : ApplyRecord(d, r), recs, c)

\* recover(): every record read back applied to the cache in file order.
ReplayOnto(c, recs) == FoldLeft(ApplyRecord, c, recs)

Replay(recs) == ReplayOnto(EmptyCache, recs)

-----------------------------------------------------------------------------
(* Operations.                                                             *)

AppendLog(r) ==
    /\ up /\ inflight = NoOp
    /\ Len(logged) < MaxRecords
    /\ file' = WriteAtEnd(file, unended, Serialize(r))
    /\ unended' = FALSE
    /\ logged' = Append(logged, r)
    /\ inflight' = r
    /\ UNCHANGED <<cache, up, crashes, synced, losses>>

\* put(id, key, value): wal.append_log({id, "PUT", key, value}) ...
AppendPut(k, v) == AppendLog([op |-> "PUT", key |-> k, value |-> v])

\* remove(id, key): wal.append_log({id, "REMOVE", key, ""}) ...
AppendRemove(k) == AppendLog([op |-> "REMOVE", key |-> k, value |-> ""])

\* ... then cache[key] = value, or cache.erase(key); the call returns.
ApplyToCache ==
    /\ up /\ inflight # NoOp
    /\ cache' = ApplyRecord(cache, inflight)
    /\ inflight' = NoOp
    /\ UNCHANGED <<file, up, logged, crashes, synced, unended, losses>>

\* The process dies: the cache is gone; what endl flushed stays in the file.
Crash ==
    /\ up /\ crashes < MaxCrashes
    /\ up' = FALSE
    /\ cache' = EmptyCache
    /\ inflight' = NoOp
    /\ crashes' = crashes + 1
    /\ UNCHANGED <<file, logged, synced, unended, losses>>

\* The restarted process builds an empty cache, runs recover(), and reopens
\* the file for append.
Recover ==
    /\ ~up
    /\ up' = TRUE
    /\ cache' = Replay(ReadLogs(file))
    /\ UNCHANGED <<file, inflight, logged, crashes, synced, unended, losses>>

\* TransactionManager::simulate_failure_and_recovery: recover() run by the
\* live process, replaying the whole log onto the cache it already holds.
SimulateFailureAndRecovery ==
    /\ up /\ inflight = NoOp
    /\ cache' = ReplayOnto(cache, ReadLogs(file))
    /\ UNCHANGED <<file, up, inflight, logged, crashes, synced, unended, losses>>

Next ==
    \/ \E k \in Keys, v \in Values : "PUT" \in Ops /\ AppendPut(k, v)
    \/ \E k \in Keys : "REMOVE" \in Ops /\ AppendRemove(k)
    \/ ApplyToCache
    \/ Crash
    \/ Recover
    \/ SimulateFailureAndRecovery

Spec == Init /\ [][Next]_vars

\* The system writes some more of the file back to the disk.
Writeback ==
    /\ synced < Len(file)
    /\ synced' \in synced + 1..Len(file)
    /\ UNCHANGED <<file, cache, up, inflight, logged, crashes, unended, losses>>

\* The files a power loss can leave: the written-back tokens and any part
\* of the rest, cut after a token with or without the blank after it, or
\* inside the token that follows.
Cuts ==
    {<<SubSeq(file, 1, i), u>> : i \in synced + 1..Len(file), u \in BOOLEAN}
    \cup {<<SubSeq(file, 1, i) \o <<Fragment(file[i + 1])>>, TRUE>> :
            i \in synced..Len(file) - 1}
    \cup {<<SubSeq(file, 1, synced), unended>>}

\* The power fails: the process is gone and the file is what reached the
\* disk.
PowerLoss ==
    /\ losses < MaxPowerLosses
    /\ \E c \in Cuts : file' = c[1] /\ unended' = c[2] /\ synced' = Len(c[1])
    /\ up' = FALSE
    /\ cache' = EmptyCache
    /\ inflight' = NoOp
    /\ losses' = losses + 1
    /\ UNCHANGED <<logged, crashes>>

NextPowerLoss == Next \/ Writeback \/ PowerLoss

SpecPowerLoss == Init /\ [][NextPowerLoss]_vars

-----------------------------------------------------------------------------
(* Properties.                                                             *)

\* The reference state of a sequence of records, defined without replaying
\* it: a key is present with the value of its last record if that record
\* is a PUT (spec.md 4.2: replay to the latest record per key).
LastRecordOf(recs, k) ==
    LET at == {i \in DOMAIN recs : recs[i].key = k}
    IN  IF at = {} THEN 0 ELSE CHOOSE i \in at : \A j \in at : j <= i

Described(recs) ==
    LET live == {k \in Keys : LastRecordOf(recs, k) # 0
                             /\ recs[LastRecordOf(recs, k)].op = "PUT"}
    IN  [k \in live |-> recs[LastRecordOf(recs, k)].value]

\* A running cache with no operation half done holds what the appended
\* records give when applied in order: in particular recover() rebuilds
\* the state the log describes (spec.md 4.2, 8: last record per key wins).
RecoveryRestoresCache ==
    up /\ inflight = NoOp => cache = Described(logged)

\* A recovery never invents, reorders or corrupts state: it rebuilds the
\* state of some prefix of the records appended, at worst stopping early.
RecoveryReplaysPrefix ==
    [][~up /\ up' => \E i \in 0..Len(logged) : cache' = Described(SubSeq(logged, 1, i))]_vars

\* Recovery applies only records append_log wrote: every entry of the cache
\* is the key and value of some PUT, whatever a power loss cut from the end
\* of the file (spec.md 4.2: a corrupt trailing record is skipped).
EntriesWereWritten ==
    \A k \in DOMAIN cache : \E i \in DOMAIN logged :
        logged[i] = [op |-> "PUT", key |-> k, value |-> cache[k]]
==============================================================================
