-------------------------- MODULE StrategyRegistry --------------------------
(***************************************************************************)
(* The files of one strategy, <version>.json each, as StrategyRegistry     *)
(* saves and loads them, and their mirror in the strategy_registry table,  *)
(* which StrategyRegistrySync writes in a transaction of its caller.       *)
(* Processes save, sync and load_latest side by side, and may crash.       *)
(*                                                                         *)
(* A spec is a number, and its created_at is the same number: a later spec *)
(* is created later, as the default of the field has it.                   *)
(***************************************************************************)
EXTENDS Naturals, FiniteSets

CONSTANTS
    Versions,
    Savers,     \* processes that call save
    Syncers,    \* processes that call sync_all or sync_one, each in a transaction
    Readers,    \* processes that call load_latest
    Empty,      \* contents of a file that has been truncated
    Garbled,    \* contents of a file that two processes have written over each other
    MaxSpecs    \* bound on the specs saved

ASSUME RegistryAssumption ==
    /\ Versions # {}
    /\ Syncers \cap Readers = {}     \* floor has one entry for each
    /\ MaxSpecs \in Nat /\ {Empty, Garbled} \cap Nat = {}

VARIABLES
    files,      \* files[v]: the spec in v's file, 0 when there is no file, or a torn one
    specs,      \* specs[v]: every spec that was handed to save for v
    nextSpec,   \* the spec of the next save
    saver,      \* saver[s]: [at, version, spec, overwrite]
    table,      \* committed mirror: version -> [spec, created]
    sync,       \* sync[y]: [at, all, todo, version, loaded, own] of a sync
    reader,     \* reader[r]: [at, todo, best]
    floor       \* floor[p]: the files when p's sync or load_latest listed them

vars == <<files, specs, nextSpec, saver, table, sync, reader, floor>>

Specs == 1..MaxSpecs
Torn == {Empty, Garbled}
Row == [spec : Specs, created : Specs]
Rows == UNION {[V -> Row] : V \in SUBSET Versions}
Complete(f) == {v \in Versions : f[v] \notin Torn \cup {0}}

TypeOK ==
    /\ files \in [Versions -> Torn \cup 0..MaxSpecs]
    /\ \A v \in Versions : files[v] \in Torn \cup {0} \cup specs[v]
    /\ specs \in [Versions -> SUBSET Specs]
    /\ nextSpec \in 1..(MaxSpecs + 1)
    /\ saver \in [Savers -> [at : {"idle", "open", "write"}, version : Versions,
                             spec : 0..MaxSpecs, overwrite : BOOLEAN]]
    /\ table \in Rows
    /\ sync \in [Syncers -> [at : {"idle", "load", "upsert"}, all : BOOLEAN,
                             todo : SUBSET Versions, version : Versions,
                             loaded : 0..MaxSpecs, own : Rows]]
    /\ reader \in [Readers -> [at : {"idle", "load", "done"}, todo : SUBSET Versions,
                               best : 0..MaxSpecs]]
    /\ floor \in [Syncers \cup Readers -> [Versions -> Torn \cup 0..MaxSpecs]]

SomeVersion == CHOOSE v \in Versions : TRUE
NoSave == [at |-> "idle", version |-> SomeVersion, spec |-> 0, overwrite |-> FALSE]
NoSync == [at |-> "idle", all |-> FALSE, todo |-> {}, version |-> SomeVersion,
           loaded |-> 0, own |-> <<>>]
NoRead == [at |-> "idle", todo |-> {}, best |-> 0]

Init ==
    /\ files = [v \in Versions |-> 0]
    /\ specs = [v \in Versions |-> {}]
    /\ nextSpec = 1
    /\ saver = [s \in Savers |-> NoSave]
    /\ table = <<>>
    /\ sync = [y \in Syncers |-> NoSync]
    /\ reader = [r \in Readers |-> NoRead]
    /\ floor = [p \in Syncers \cup Readers |-> files]

-----------------------------------------------------------------------------
(* StrategyRegistry.save                                                    *)

\* Mutant: save overwrites unless told not to.
CheckNothing(s, v, overwrite) ==
    /\ saver[s].at = "idle"
    /\ nextSpec <= MaxSpecs
    /\ saver' = [saver EXCEPT ![s] = [at |-> "open", version |-> v, spec |-> nextSpec,
                                      overwrite |-> overwrite]]
    /\ specs' = [specs EXCEPT ![v] = @ \cup {nextSpec}]
    /\ nextSpec' = nextSpec + 1
    /\ UNCHANGED <<files, table, sync, reader, floor>>

\* path.exists() is looked at before the file is opened.
Check(s, v, overwrite) ==
    /\ saver[s].at = "idle"
    /\ nextSpec <= MaxSpecs
    /\ files[v] = 0 \/ overwrite
    /\ saver' = [saver EXCEPT ![s] = [at |-> "open", version |-> v, spec |-> nextSpec,
                                      overwrite |-> overwrite]]
    /\ specs' = [specs EXCEPT ![v] = @ \cup {nextSpec}]
    /\ nextSpec' = nextSpec + 1
    /\ UNCHANGED <<files, table, sync, reader, floor>>

\* write_text opens with mode "w", which truncates the file ...
Open(s) ==
    /\ saver[s].at = "open"
    /\ files' = [files EXCEPT ![saver[s].version] = Empty]
    /\ saver' = [saver EXCEPT ![s] = [@ EXCEPT !.at = "write"]]
    /\ UNCHANGED <<specs, nextSpec, table, sync, reader, floor>>

\* ... and writes from its start: over what another process has written meanwhile,
\* of which the tail remains when it is longer.
Write(s) ==
    LET v == saver[s].version
    IN  /\ saver[s].at = "write"
        /\ \/ files' = [files EXCEPT ![v] = saver[s].spec]
           \/ files[v] # Empty /\ files' = [files EXCEPT ![v] = Garbled]
        /\ saver' = [saver EXCEPT ![s] = NoSave]
        /\ UNCHANGED <<specs, nextSpec, table, sync, reader, floor>>

CrashSave(s) ==
    /\ saver[s].at # "idle"
    /\ saver' = [saver EXCEPT ![s] = NoSave]
    /\ UNCHANGED <<files, specs, nextSpec, table, sync, reader, floor>>

-----------------------------------------------------------------------------
(* StrategyRegistrySync                                                     *)

StartSync(y, all, todo) ==
    /\ sync[y].at = "idle"
    /\ sync' = [sync EXCEPT ![y] = [NoSync EXCEPT !.at = "load", !.all = all, !.todo = todo]]
    /\ floor' = [floor EXCEPT ![y] = files]
    /\ UNCHANGED <<files, specs, nextSpec, saver, table, reader>>

\* Mutant: versions that are mirrored already are left out.
SyncNew(y) == StartSync(y, TRUE, {v \in Versions : files[v] # 0} \ DOMAIN table)

\* sync_all lists the versions once; sync_one is given one.
SyncAll(y) == StartSync(y, TRUE, {v \in Versions : files[v] # 0})

SyncOne(y, v) == files[v] # 0 /\ StartSync(y, FALSE, {v})

\* load; that versions come in sorted order does not matter here.
LoadSpec(y, v) ==
    /\ sync[y].at = "load"
    /\ v \in sync[y].todo
    /\ files[v] \notin Torn
    /\ sync' = [sync EXCEPT ![y] = [@ EXCEPT !.at = "upsert", !.todo = sync[y].todo \ {v},
                                             !.version = v, !.loaded = files[v]]]
    /\ UNCHANGED <<files, specs, nextSpec, saver, table, reader, floor>>

\* The mirror g with the rows f written over it.
Overlaid(f, g) == [v \in DOMAIN f \cup DOMAIN g |-> IF v \in DOMAIN f THEN f[v] ELSE g[v]]

\* sync_from_spec: ON CONFLICT updates every column but spec_created_at.
Mirrored(y, v, spec) ==
    LET visible == Overlaid(sync[y].own, table)
    IN  [spec |-> spec, created |-> IF v \in DOMAIN visible THEN visible[v].created ELSE spec]

Upsert(y) ==
    LET v == sync[y].version
        written == [u \in {v} |-> Mirrored(y, v, sync[y].loaded)]
    IN  /\ sync[y].at = "upsert"
        /\ \A z \in Syncers \ {y} : v \notin DOMAIN sync[z].own
        /\ sync' = [sync EXCEPT ![y] = [@ EXCEPT !.at = "load",
                                                 !.own = Overlaid(written, sync[y].own)]]
        /\ UNCHANGED <<files, specs, nextSpec, saver, table, reader, floor>>

CommitSync(y) ==
    /\ sync[y].at = "load"
    /\ sync[y].todo = {}
    /\ table' = Overlaid(sync[y].own, table)
    /\ sync' = [sync EXCEPT ![y] = NoSync]
    /\ UNCHANGED <<files, specs, nextSpec, saver, reader, floor>>

\* A torn file raises out of load and out of the caller's session_scope; or a crash.
AbortSync(y) ==
    /\ sync[y].at # "idle"
    /\ sync' = [sync EXCEPT ![y] = NoSync]
    /\ UNCHANGED <<files, specs, nextSpec, saver, table, reader, floor>>

-----------------------------------------------------------------------------
(* StrategyRegistry.load_latest; a torn file raises, which is AbortRead.    *)

StartRead(r) ==
    /\ reader[r].at # "load"
    /\ reader' = [reader EXCEPT ![r] = [at |-> "load", best |-> 0,
                                        todo |-> {v \in Versions : files[v] # 0}]]
    /\ floor' = [floor EXCEPT ![r] = files]
    /\ UNCHANGED <<files, specs, nextSpec, saver, table, sync>>

\* Mutant: the last version of the list, whatever its created_at.
LaterLast(a, b) == b

\* max by created_at.
Later(a, b) == IF b > a THEN b ELSE a

ReadOne(r, v) ==
    /\ reader[r].at = "load"
    /\ v \in reader[r].todo
    /\ files[v] \notin Torn
    /\ reader' = [reader EXCEPT ![r] = [@ EXCEPT !.todo = reader[r].todo \ {v},
                                                 !.best = Later(reader[r].best, files[v])]]
    /\ UNCHANGED <<files, specs, nextSpec, saver, table, sync, floor>>

EndRead(r) ==
    /\ reader[r].at = "load"
    /\ reader[r].todo = {}
    /\ reader[r].best # 0           \* no version at all: StrategyNotFoundError
    /\ reader' = [reader EXCEPT ![r] = [@ EXCEPT !.at = "done"]]
    /\ UNCHANGED <<files, specs, nextSpec, saver, table, sync, floor>>

AbortRead(r) ==
    /\ reader[r].at # "idle"
    /\ reader' = [reader EXCEPT ![r] = NoRead]
    /\ UNCHANGED <<files, specs, nextSpec, saver, table, sync, floor>>

Next ==
    \/ \E s \in Savers :
        \/ \E v \in Versions, overwrite \in BOOLEAN : Check(s, v, overwrite)
        \/ Open(s) \/ Write(s) \/ CrashSave(s)
    \/ \E y \in Syncers :
        \/ SyncAll(y)
        \/ \E v \in Versions : SyncOne(y, v) \/ LoadSpec(y, v)
        \/ Upsert(y) \/ CommitSync(y) \/ AbortSync(y)
    \/ \E r \in Readers :
        \/ StartRead(r) \/ (\E v \in Versions : ReadOne(r, v)) \/ EndRead(r) \/ AbortRead(r)

Spec == Init /\ [][Next]_vars

-----------------------------------------------------------------------------
(***************************************************************************)
(* app/research/registry.py:9-11: a saved file is never silently           *)
(* overwritten - only a save with overwrite=True touches it again.  It     *)
(* holds while no two processes save one version at a time.                *)
(***************************************************************************)
NeverSilentlyOverwritten ==
    [][\A v \in Complete(files) :
          files'[v] # files[v] => \E s \in Savers : saver[s].version = v /\ saver[s].overwrite]_vars

(***************************************************************************)
(* load_latest returns a spec no older than any that was in full when it   *)
(* listed the versions, whatever is saved meanwhile.  It holds while no    *)
(* two processes save one version at a time: of two, the one with the      *)
(* older spec may write last.                                              *)
(***************************************************************************)
LatestIsLatest ==
    \A r \in Readers : reader[r].at = "done" =>
        \A v \in Complete(floor[r]) : floor[r][v] <= reader[r].best

(***************************************************************************)
(* When a sync_all commits, the mirror has every version that was there in *)
(* full when it began, none older than its file was then, however many     *)
(* processes sync.  It holds while no two save one version at a time.      *)
(***************************************************************************)
Commits(y) ==
    /\ sync[y].at = "load"
    /\ sync[y].todo = {}
    /\ sync'[y].at = "idle"
    /\ table' = Overlaid(sync[y].own, table)

SyncAllCovers ==
    [][\A y \in Syncers : sync[y].all /\ Commits(y) =>
          \A v \in Complete(floor[y]) : v \in DOMAIN table' /\ floor[y][v] <= table'[v].spec]_vars

(***************************************************************************)
(* app/ingest/strategy_sync.py:1-6: the table is a copy of the files - a   *)
(* row's spec_created_at is the created_at of the spec it holds.           *)
(***************************************************************************)
MirrorIsACopy == \A v \in DOMAIN table : table[v].created = table[v].spec
=============================================================================
