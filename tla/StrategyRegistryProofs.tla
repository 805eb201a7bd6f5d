------------------------ MODULE StrategyRegistryProofs ------------------------
(***************************************************************************)
(* What load_latest and sync_all make of files that a saver keeps writing: *)
(* proofs for any versions, readers, synchronisers and bounds.             *)
(***************************************************************************)
EXTENDS StrategyRegistry, TLAPS

\* No two processes save one version at a time.  If they do, each can overwrite the
\* other: see MCTwoSavers.cfg.
Busy(s, v) == saver[s].at # "idle" /\ saver[s].version = v

OneSaverEach == \A s, t \in Savers, v \in Versions : Busy(s, v) /\ Busy(t, v) => s = t

Listers == Syncers \cup Readers
Content == Torn \cup 0..MaxSpecs
Save == [at : {"idle", "open", "write"}, version : Versions, spec : 0..MaxSpecs,
         overwrite : BOOLEAN]
Sync == [at : {"idle", "load", "upsert"}, all : BOOLEAN, todo : SUBSET Versions,
         version : Versions, loaded : 0..MaxSpecs, own : Rows]
Read == [at : {"idle", "load", "done"}, todo : SUBSET Versions, best : 0..MaxSpecs]

(***************************************************************************)
(* The inductive invariant.  SaveInv: what is being saved was handed over, *)
(* is newer than what its file holds and than what anyone listed of it,    *)
(* and goes into a file that is there to be written: new, or to be         *)
(* overwritten, and empty once it is open.                                 *)
(* FloorInv: a file that was listed is never gone, and never again older,  *)
(* though it may be torn.  ReadInv, SyncInv: what is off the list has been *)
(* taken into account.                                                     *)
(***************************************************************************)
FileInv ==
    /\ nextSpec \in Nat
    /\ \A v \in Versions : files[v] \in Nat => files[v] < nextSpec

SaveInv ==
    \A s \in Savers :
        LET w == saver[s]
        IN  /\ w.at # "idle" =>
                  /\ w.spec < nextSpec /\ w.spec \in specs[w.version]
                  /\ files[w.version] \in Nat => files[w.version] < w.spec
                  /\ \A p \in Listers :
                        w.version \in Complete(floor[p]) => floor[p][w.version] < w.spec
            /\ w.at = "open" /\ ~w.overwrite => w.version \notin Complete(files)
            /\ w.at = "write" => files[w.version] = Empty

FloorInv ==
    \A p \in Listers, v \in Versions :
        floor[p][v] # 0 =>
            /\ files[v] # 0
            /\ v \in Complete(floor[p]) =>
                  floor[p][v] < nextSpec /\ (files[v] \in Nat => floor[p][v] <= files[v])

ReadInv ==
    \A r \in Readers :
        /\ reader[r].at = "done" => reader[r].todo = {}
        /\ reader[r].at # "idle" =>
              \A v \in Complete(floor[r]) :
                  v \in reader[r].todo \/ floor[r][v] <= reader[r].best

\* The sync has v's listed content in its transaction, or is about to.
Taken(y, v) ==
    \/ v \in DOMAIN sync[y].own /\ floor[y][v] <= sync[y].own[v].spec
    \/ sync[y].at = "upsert" /\ sync[y].version = v

SyncInv ==
    \A y \in Syncers : sync[y].at # "idle" =>
        /\ \A v \in sync[y].todo : floor[y][v] # 0
        /\ sync[y].at = "upsert" =>
              /\ sync[y].loaded # 0
              /\ sync[y].version \in Complete(floor[y]) =>
                    floor[y][sync[y].version] <= sync[y].loaded
        /\ sync[y].all =>
              \A v \in Complete(floor[y]) : v \in sync[y].todo \/ Taken(y, v)

Inv == TypeOK /\ FileInv /\ SaveInv /\ FloorInv /\ ReadInv /\ SyncInv

-----------------------------------------------------------------------------
(* Contents and rows.                                                       *)

LEMMA Contents ==
    /\ MaxSpecs \in Nat /\ Empty \notin Nat /\ Garbled \notin Nat
    /\ SomeVersion \in Versions
    /\ \A f, v : v \in Complete(f) <=> v \in Versions /\ f[v] \notin Torn /\ f[v] # 0
    /\ \A x \in Content : x \notin Torn => x \in 0..MaxSpecs
    /\ Torn \cap Nat = {}
<1>1. MaxSpecs \in Nat /\ Empty \notin Nat /\ Garbled \notin Nat /\ Versions # {}
  BY RegistryAssumption
<1>2. SomeVersion \in Versions
  BY <1>1 DEF SomeVersion
<1>3. \A f, v : v \in Complete(f) <=> v \in Versions /\ f[v] \notin Torn /\ f[v] # 0
  BY DEF Complete
<1> QED BY <1>1, <1>2, <1>3 DEF Content, Torn

LEMMA RowsByVersion ==
    ASSUME NEW rows
    PROVE  rows \in Rows <=> /\ rows = [v \in DOMAIN rows |-> rows[v]]
                             /\ DOMAIN rows \subseteq Versions
                             /\ \A v \in DOMAIN rows : rows[v] \in Row
<1>1. ASSUME rows \in Rows
      PROVE  /\ rows = [v \in DOMAIN rows |-> rows[v]]
             /\ DOMAIN rows \subseteq Versions
             /\ \A v \in DOMAIN rows : rows[v] \in Row
  <2>1. PICK V \in SUBSET Versions : rows \in [V -> Row]
    BY <1>1 DEF Rows
  <2> QED BY <2>1
<1>2. ASSUME rows = [v \in DOMAIN rows |-> rows[v]], DOMAIN rows \subseteq Versions,
             \A v \in DOMAIN rows : rows[v] \in Row
      PROVE  rows \in Rows
  <2>1. rows \in [DOMAIN rows -> Row]
    BY <1>2
  <2> QED BY <1>2, <2>1 DEF Rows
<1> QED BY <1>1, <1>2

LEMMA OverlaidRows ==
    ASSUME NEW f \in Rows, NEW g \in Rows PROVE Overlaid(f, g) \in Rows
<1> DEFINE h == Overlaid(f, g)
<1>1. /\ h = [v \in DOMAIN f \cup DOMAIN g |-> IF v \in DOMAIN f THEN f[v] ELSE g[v]]
  BY DEF Overlaid
<1> HIDE DEF h
<1>2. DOMAIN h = DOMAIN f \cup DOMAIN g
  BY <1>1
<1>3. \A v \in DOMAIN h : h[v] = IF v \in DOMAIN f THEN f[v] ELSE g[v]
  BY <1>1, <1>2
<1>4. h = [v \in DOMAIN h |-> h[v]]
  BY <1>1
<1>5. DOMAIN h \subseteq Versions /\ \A v \in DOMAIN h : h[v] \in Row
  BY <1>2, <1>3, RowsByVersion
<1>6. h \in Rows
  BY <1>4, <1>5, RowsByVersion
<1> QED BY <1>6 DEF h

LEMMA NoRows == <<>> \in Rows
<1>1. <<>> \in [{} -> Row]
  OBVIOUS
<1> QED BY <1>1 DEF Rows

LEMMA Types ==
    TypeOK <=>
      /\ files \in [Versions -> Content]
      /\ \A v \in Versions : files[v] \in Torn \cup {0} \cup specs[v]
      /\ specs \in [Versions -> SUBSET Specs]
      /\ nextSpec \in 1..(MaxSpecs + 1)
      /\ saver \in [Savers -> Save]
      /\ table \in Rows
      /\ sync \in [Syncers -> Sync]
      /\ reader \in [Readers -> Read]
      /\ floor \in [Listers -> [Versions -> Content]]
  BY DEF TypeOK, Save, Sync, Read, Content, Listers

-----------------------------------------------------------------------------
(* The files are written.                                                   *)

\* What a step of a saver has to leave the readers and synchronisers.
LEMMA FilesMoveOn ==
    ASSUME Inv, UNCHANGED <<table, sync, reader, floor>>,
           TypeOK', FileInv', SaveInv', nextSpec' \in Nat, nextSpec <= nextSpec',
           \A v \in Versions :
              /\ files[v] # 0 => files'[v] # 0
              /\ files'[v] \in Nat =>
                    \/ files'[v] = files[v]
                    \/ \E s \in Savers : Busy(s, v) /\ files'[v] = saver[s].spec
    PROVE  Inv'
<1>1. FloorInv'
  <2> SUFFICES ASSUME NEW p \in Listers, NEW v \in Versions, floor[p][v] # 0
               PROVE  /\ files'[v] # 0
                      /\ v \in Complete(floor[p]) =>
                            /\ floor[p][v] < nextSpec'
                            /\ files'[v] \in Nat => floor[p][v] <= files'[v]
    BY DEF FloorInv, Complete
  <2>1. /\ files[v] # 0
        /\ v \in Complete(floor[p]) =>
              floor[p][v] < nextSpec /\ (files[v] \in Nat => floor[p][v] <= files[v])
    BY DEF Inv, FloorInv
  <2>2. v \in Complete(floor[p]) => floor[p][v] \in Nat
    BY Contents, Types DEF Inv
  <2>3. nextSpec \in Nat
    BY DEF Inv, FileInv
  <2>4. \A s \in Savers : Busy(s, v) /\ v \in Complete(floor[p]) => floor[p][v] < saver[s].spec
    BY DEF Inv, SaveInv, Busy
  <2>5. \A s \in Savers : saver[s].spec \in Nat
    BY Types, Contents DEF Inv, Save
  <2> QED BY <2>1, <2>2, <2>3, <2>4, <2>5
<1>2. ReadInv'
  BY DEF Inv, ReadInv, Complete
<1>3. SyncInv'
  BY DEF Inv, SyncInv, Taken, Complete
<1> QED BY <1>1, <1>2, <1>3 DEF Inv

LEMMA CheckKeepsInv ==
    ASSUME Inv, NEW s \in Savers, NEW v \in Versions, NEW o \in BOOLEAN, Check(s, v, o)
    PROVE  Inv'
<1> DEFINE w == [at |-> "open", version |-> v, spec |-> nextSpec, overwrite |-> o]
<1>1. /\ nextSpec \in 1..MaxSpecs /\ nextSpec' = nextSpec + 1 /\ nextSpec' \in Nat
      /\ saver' = [saver EXCEPT ![s] = w]
      /\ specs' = [specs EXCEPT ![v] = @ \cup {nextSpec}]
      /\ UNCHANGED <<files, table, sync, reader, floor>>
  BY Types, Contents DEF Inv, Check
<1>2. w \in Save
  BY <1>1, Contents DEF Save
<1>3. saver'[s] = w /\ \A t \in Savers : t # s => saver'[t] = saver[t]
  BY <1>1, Types DEF Inv
<1>4. specs' \in [Versions -> SUBSET Specs] /\ nextSpec \in specs'[v]
      /\ \A u \in Versions : specs[u] \subseteq specs'[u]
  BY <1>1, Types, Contents DEF Inv, Specs
<1>5. TypeOK'
  <2>1. saver' \in [Savers -> Save]
    BY <1>1, <1>2, Types DEF Inv
  <2>2. nextSpec' \in 1..(MaxSpecs + 1)
    BY <1>1, Contents
  <2>3. \A u \in Versions : files[u] \in Torn \cup {0} \cup specs'[u]
    BY <1>4, Types DEF Inv
  <2> QED BY <1>1, <1>4, <2>1, <2>2, <2>3, Types
       DEF Inv, TypeOK, Save, Content, Listers, Sync, Read
<1>6. FileInv'
  BY <1>1 DEF Inv, FileInv
<1>7. SaveInv'
  <2>1. w.at = "open" /\ ~w.overwrite => v \notin Complete(files')
    BY <1>1, Contents DEF Check
  <2>2. files[v] \in Nat => files[v] < nextSpec
    BY DEF Inv, FileInv
  <2>3. \A p \in Listers : v \in Complete(floor[p]) => floor[p][v] < nextSpec
    BY Contents DEF Inv, FloorInv
  <2>4. nextSpec < nextSpec'
    BY <1>1
  <2>5. \A t \in Savers : saver[t].spec \in Nat /\ saver[t].version \in Versions
    BY Types, Contents DEF Inv, Save
  <2> SUFFICES ASSUME NEW t \in Savers
               PROVE  LET x == saver'[t]
                      IN  /\ x.at # "idle" =>
                                /\ x.spec < nextSpec' /\ x.spec \in specs'[x.version]
                                /\ files[x.version] \in Nat => files[x.version] < x.spec
                                /\ \A p \in Listers : x.version \in Complete(floor[p]) =>
                                      floor[p][x.version] < x.spec
                          /\ x.at = "open" /\ ~x.overwrite => x.version \notin Complete(files)
                          /\ x.at = "write" => files[x.version] = Empty
    BY <1>1 DEF SaveInv, Complete
  <2>6. CASE t = s
    BY <1>1, <1>3, <1>4, <2>1, <2>2, <2>3, <2>4, <2>6
  <2>7. CASE t # s
    BY <1>1, <1>3, <1>4, <2>4, <2>5, <2>7 DEF Inv, SaveInv
  <2> QED BY <2>6, <2>7
<1> QED BY <1>1, <1>5, <1>6, <1>7, FilesMoveOn DEF Inv

LEMMA OpenKeepsInv == ASSUME Inv, OneSaverEach, NEW s \in Savers, Open(s) PROVE Inv'
<1> DEFINE w == saver[s]
           v == w.version
<1>1. /\ w \in Save /\ w.at = "open" /\ v \in Versions
      /\ files' = [files EXCEPT ![v] = Empty]
      /\ saver' = [saver EXCEPT ![s] = [w EXCEPT !.at = "write"]]
      /\ UNCHANGED <<specs, nextSpec, table, sync, reader, floor>>
  BY Types DEF Inv, Open, Save
<1>alone. \A t \in Savers : t # s /\ saver[t].at # "idle" => saver[t].version # v
  BY <1>1 DEF OneSaverEach, Busy
<1> HIDE DEF w
<1>2. [w EXCEPT !.at = "write"] \in Save
  BY <1>1 DEF Save
<1>3. /\ saver'[s].at = "write" /\ saver'[s].version = v
      /\ saver'[s].spec = w.spec
      /\ \A t \in Savers : t # s => saver'[t] = saver[t]
  BY <1>1, Types DEF Inv, Save
<1>4. /\ files' \in [Versions -> Content] /\ files'[v] = Empty
      /\ \A u \in Versions : u # v => files'[u] = files[u]
  BY <1>1, Types DEF Inv, Content, Torn
<1>5. TypeOK'
  <2>1. saver' \in [Savers -> Save]
    BY <1>1, <1>2, Types DEF Inv
  <2>2. \A u \in Versions : files'[u] \in Torn \cup {0} \cup specs[u]
    BY <1>4, Types DEF Inv, Torn
  <2> QED BY <1>1, <1>4, <2>1, <2>2, Types
       DEF Inv, TypeOK, Save, Content, Listers, Sync, Read
<1>6. FileInv'
  BY <1>1, <1>4, Contents DEF Inv, FileInv
<1>7. SaveInv'
  <2>1. /\ w.spec < nextSpec /\ w.spec \in specs[v]
        /\ \A p \in Listers : v \in Complete(floor[p]) => floor[p][v] < w.spec
    BY <1>1 DEF Inv, SaveInv, w
  <2>2. Empty \notin Nat
    BY Contents
  <2>3. \A t \in Savers : saver[t].version \in Versions
    BY Types DEF Inv, Save
  <2> SUFFICES ASSUME NEW t \in Savers
               PROVE  LET x == saver'[t]
                      IN  /\ x.at # "idle" =>
                                /\ x.spec < nextSpec /\ x.spec \in specs[x.version]
                                /\ files'[x.version] \in Nat => files'[x.version] < x.spec
                                /\ \A p \in Listers : x.version \in Complete(floor[p]) =>
                                      floor[p][x.version] < x.spec
                          /\ x.at = "open" /\ ~x.overwrite => x.version \notin Complete(files')
                          /\ x.at = "write" => files'[x.version] = Empty
    BY <1>1 DEF SaveInv, Complete
  <2>4. CASE t = s
    BY <1>1, <1>3, <1>4, <2>1, <2>2, <2>4
  <2>5. CASE t # s
    BY <1>3, <1>4, <1>alone, <2>3, <2>5 DEF Inv, SaveInv, Complete
  <2> QED BY <2>4, <2>5
<1>8. nextSpec' \in Nat /\ nextSpec <= nextSpec'
  BY <1>1 DEF Inv, FileInv
<1>9. \A u \in Versions :
        /\ files[u] # 0 => files'[u] # 0
        /\ files'[u] \in Nat => files'[u] = files[u]
  BY <1>4, Contents
<1> QED BY <1>1, <1>5, <1>6, <1>7, <1>8, <1>9, FilesMoveOn

LEMMA WriteKeepsInv == ASSUME Inv, OneSaverEach, NEW s \in Savers, Write(s) PROVE Inv'
<1> DEFINE w == saver[s]
           v == w.version
<1>1. /\ w \in Save /\ w.at = "write" /\ v \in Versions
      /\ w.spec < nextSpec /\ w.spec \in specs[v] /\ files[v] = Empty
  BY Types DEF Inv, Write, Save, SaveInv
<1>2. /\ files' = [files EXCEPT ![v] = w.spec]
      /\ saver' = [saver EXCEPT ![s] = NoSave]
      /\ UNCHANGED <<specs, nextSpec, table, sync, reader, floor>>
  BY <1>1 DEF Write
<1>alone. \A t \in Savers : t # s /\ saver[t].at # "idle" => saver[t].version # v
  BY <1>1 DEF OneSaverEach, Busy
<1>busy. Busy(s, v)
  BY <1>1 DEF Busy
<1> HIDE DEF w
<1>3. NoSave \in Save /\ NoSave.at = "idle"
  BY Contents DEF NoSave, Save
<1>4. saver'[s].at = "idle" /\ \A t \in Savers : t # s => saver'[t] = saver[t]
  BY <1>2, <1>3, Types DEF Inv
<1>5. w.spec \in Nat /\ w.spec \in 1..MaxSpecs
  BY <1>1, Types, Contents DEF Inv, Specs
<1>6. /\ files' \in [Versions -> Content] /\ files'[v] = w.spec
      /\ \A u \in Versions : u # v => files'[u] = files[u]
  BY <1>1, <1>2, <1>5, Types, Contents DEF Inv, Content
<1>7. TypeOK'
  <2>1. saver' \in [Savers -> Save]
    BY <1>2, <1>3, Types DEF Inv
  <2>2. \A u \in Versions : files'[u] \in Torn \cup {0} \cup specs[u]
    BY <1>1, <1>6, Types DEF Inv
  <2> QED BY <1>2, <1>6, <2>1, <2>2, Types
       DEF Inv, TypeOK, Save, Content, Listers, Sync, Read
<1>8. FileInv'
  BY <1>1, <1>2, <1>5, <1>6 DEF Inv, FileInv
<1>9. SaveInv'
  <2>1. \A t \in Savers : saver[t].version \in Versions
    BY Types DEF Inv, Save
  <2>2. \A t \in Savers : saver'[t].at # "idle" =>
          saver'[t] = saver[t] /\ files'[saver[t].version] = files[saver[t].version]
    BY <1>4, <1>6, <1>alone, <2>1
  <2> QED BY <1>2, <1>3, <1>4, <2>1, <2>2 DEF Inv, SaveInv, Complete
<1>10. nextSpec' \in Nat /\ nextSpec <= nextSpec'
  BY <1>2 DEF Inv, FileInv
<1>11. \A u \in Versions :
         /\ files[u] # 0 => files'[u] # 0
         /\ files'[u] \in Nat =>
               \/ files'[u] = files[u]
               \/ \E t \in Savers : Busy(t, u) /\ files'[u] = saver[t].spec
  <2> TAKE u \in Versions
  <2>1. CASE u = v
    BY <1>5, <1>6, <1>busy, <2>1 DEF w
  <2>2. CASE u # v
    BY <1>6, <2>2
  <2> QED BY <2>1, <2>2
<1> QED BY <1>2, <1>7, <1>8, <1>9, <1>10, <1>11, FilesMoveOn

LEMMA CrashKeepsInv == ASSUME Inv, NEW s \in Savers, CrashSave(s) PROVE Inv'
<1>1. /\ saver' = [saver EXCEPT ![s] = NoSave]
      /\ UNCHANGED <<files, specs, nextSpec, table, sync, reader, floor>>
  BY DEF CrashSave
<1>2. NoSave \in Save /\ NoSave.at = "idle"
  BY Contents DEF NoSave, Save
<1>3. saver'[s].at = "idle" /\ \A t \in Savers : t # s => saver'[t] = saver[t]
  BY <1>1, <1>2, Types DEF Inv
<1>4. TypeOK'
  <2>1. saver' \in [Savers -> Save]
    BY <1>1, <1>2, Types DEF Inv
  <2> QED BY <1>1, <2>1 DEF Inv, TypeOK, Save
<1>5. FileInv' /\ nextSpec' \in Nat /\ nextSpec <= nextSpec'
  BY <1>1 DEF Inv, FileInv
<1>6. SaveInv'
  BY <1>1, <1>2, <1>3 DEF Inv, SaveInv, Complete
<1> QED BY <1>1, <1>4, <1>5, <1>6, FilesMoveOn

-----------------------------------------------------------------------------
(* The files are listed and loaded.                                         *)

LEMMA FilesStay ==
    ASSUME Inv, UNCHANGED <<files, specs, nextSpec, saver>>,
           \A q \in Listers : floor'[q] = floor[q] \/ floor'[q] = files
    PROVE  FileInv' /\ SaveInv'
<1>1. \A v \in Complete(files) : files[v] \in Nat
  BY Types, Contents DEF Inv
<1> QED BY <1>1 DEF Inv, FileInv, SaveInv, Complete

\* What p lists now is what there is.
LEMMA ListedNow ==
    ASSUME Inv, NEW p \in Listers, floor' = [floor EXCEPT ![p] = files],
           UNCHANGED <<files, nextSpec>>
    PROVE  /\ FloorInv'
           /\ floor' \in [Listers -> [Versions -> Content]]
           /\ floor'[p] = files
           /\ \A q \in Listers : q # p => floor'[q] = floor[q]
<1>1. /\ floor' \in [Listers -> [Versions -> Content]] /\ floor'[p] = files
      /\ \A q \in Listers : q # p => floor'[q] = floor[q]
  BY Types DEF Inv
<1>2. FloorInv'
  <2> SUFFICES ASSUME NEW q \in Listers, NEW v \in Versions, floor'[q][v] # 0
               PROVE  /\ files[v] # 0
                      /\ v \in Complete(floor'[q]) =>
                            /\ floor'[q][v] < nextSpec
                            /\ files[v] \in Nat => floor'[q][v] <= files[v]
    BY DEF FloorInv, Complete
  <2>1. CASE q = p
    <3>1. v \in Complete(files) => files[v] \in Nat
      BY Contents, Types DEF Inv
    <3> QED BY <1>1, <2>1, <3>1 DEF Inv, FileInv
  <2>2. CASE q # p
    BY <1>1, <2>2 DEF Inv, FloorInv
  <2> QED BY <2>1, <2>2
<1> QED BY <1>1, <1>2

LEMMA ReadKeepsInv ==
    ASSUME Inv, NEW r \in Readers, NEW x \in Read, reader' = [reader EXCEPT ![r] = x],
           UNCHANGED <<files, specs, nextSpec, saver, table, sync>>,
           floor' \in [Listers -> [Versions -> Content]], FloorInv',
           floor'[r] = floor[r] \/ floor'[r] = files,
           \A q \in Listers : q # r => floor'[q] = floor[q],
           x.at = "done" => x.todo = {},
           x.at # "idle" =>
              \A v \in Complete(floor'[r]) : v \in x.todo \/ floor'[r][v] <= x.best
    PROVE  Inv'
<1>1. reader' \in [Readers -> Read] /\ reader'[r] = x
      /\ \A q \in Readers : q # r => reader'[q] = reader[q]
  BY Types DEF Inv
<1>2. TypeOK'
  BY <1>1, Types DEF Inv, TypeOK, Read, Content, Listers, Save, Sync
<1>3. ReadInv'
  <2> SUFFICES ASSUME NEW q \in Readers
               PROVE  /\ reader'[q].at = "done" => reader'[q].todo = {}
                      /\ reader'[q].at # "idle" =>
                            \A v \in Complete(floor'[q]) :
                                v \in reader'[q].todo \/ floor'[q][v] <= reader'[q].best
    BY DEF ReadInv, Complete
  <2>1. CASE q = r
    BY <1>1, <2>1
  <2>2. CASE q # r
    BY <1>1, <2>2 DEF Inv, ReadInv, Listers
  <2> QED BY <2>1, <2>2
<1>4. SyncInv'
  <2>1. \A y \in Syncers : floor'[y] = floor[y]
    BY RegistryAssumption DEF Listers
  <2> QED BY <2>1 DEF Inv, SyncInv, Taken, Complete
<1> QED BY <1>2, <1>3, <1>4, FilesStay DEF Inv

LEMMA StartReadKeepsInv == ASSUME Inv, NEW r \in Readers, StartRead(r) PROVE Inv'
<1> DEFINE x == [at |-> "load", best |-> 0, todo |-> {v \in Versions : files[v] # 0}]
<1>1. /\ reader' = [reader EXCEPT ![r] = x] /\ floor' = [floor EXCEPT ![r] = files]
      /\ UNCHANGED <<files, specs, nextSpec, saver, table, sync>>
  BY DEF StartRead
<1>2. /\ x \in Read /\ x.at = "load" /\ \A v \in Complete(files) : v \in x.todo
  BY Contents DEF Read
<1> HIDE DEF x
<1>3. r \in Listers
  BY DEF Listers
<1> QED BY <1>1, <1>2, <1>3, ListedNow, ReadKeepsInv

LEMMA ReadOneKeepsInv ==
    ASSUME Inv, NEW r \in Readers, NEW v \in Versions, ReadOne(r, v) PROVE Inv'
<1> DEFINE o == reader[r]
           x == [o EXCEPT !.todo = o.todo \ {v}, !.best = Later(o.best, files[v])]
<1>1. /\ o \in Read /\ o.at = "load" /\ v \in o.todo /\ files[v] \notin Torn
      /\ reader' = [reader EXCEPT ![r] = x]
      /\ UNCHANGED <<files, specs, nextSpec, saver, table, sync, floor>>
  <2>1. o \in Read
    BY Types DEF Inv
  <2> QED BY <2>1 DEF ReadOne
<1>2. files[v] \in 0..MaxSpecs /\ o.best \in 0..MaxSpecs /\ MaxSpecs \in Nat
  BY <1>1, Types, Contents DEF Inv, Read
<1>3. /\ Later(o.best, files[v]) \in 0..MaxSpecs
      /\ o.best <= Later(o.best, files[v]) /\ files[v] <= Later(o.best, files[v])
  BY <1>2 DEF Later
<1>4. r \in Listers /\ floor \in [Listers -> [Versions -> Content]]
      /\ \A u \in Versions : floor[r][u] \in Torn \/ floor[r][u] \in 0..MaxSpecs
  BY Types DEF Inv, Listers, Content
<1>5. \A u \in Complete(floor[r]) : u \in o.todo \/ floor[r][u] <= o.best
  BY <1>1 DEF Inv, ReadInv
<1>6. v \in Complete(floor[r]) => floor[r][v] <= files[v]
  BY <1>2, <1>4, Contents DEF Inv, FloorInv
<1> HIDE DEF o
<1>7. /\ x \in Read /\ x.at = "load" /\ x.todo = o.todo \ {v}
      /\ x.best = Later(o.best, files[v])
  BY <1>1, <1>3 DEF Read
<1> HIDE DEF x
<1>8. \A u \in Complete(floor[r]) : u \in x.todo \/ floor[r][u] <= x.best
  <2> SUFFICES ASSUME NEW u \in Complete(floor[r]), u \notin x.todo PROVE floor[r][u] <= x.best
    OBVIOUS
  <2>1. floor[r][u] \in Nat
    BY <1>2, <1>4, Contents
  <2>2. CASE u = v
    BY <1>2, <1>3, <1>6, <1>7, <2>1, <2>2
  <2>3. CASE u # v
    BY <1>2, <1>3, <1>5, <1>7, <2>1, <2>3
  <2> QED BY <2>2, <2>3
<1>9. FloorInv'
  BY <1>1 DEF Inv, FloorInv, Complete
<1> QED BY <1>1, <1>4, <1>7, <1>8, <1>9, ReadKeepsInv

LEMMA EndReadKeepsInv ==
    ASSUME Inv, NEW r \in Readers, EndRead(r) \/ AbortRead(r) PROVE Inv'
<1> DEFINE o == reader[r]
<1>1. /\ o \in Read /\ UNCHANGED <<files, specs, nextSpec, saver, table, sync, floor>>
      /\ floor \in [Listers -> [Versions -> Content]]
  BY Types DEF Inv, EndRead, AbortRead
<1>2. FloorInv'
  BY <1>1 DEF Inv, FloorInv, Complete
<1>3. o.at # "idle" => \A u \in Complete(floor[r]) : u \in o.todo \/ floor[r][u] <= o.best
  BY DEF Inv, ReadInv
<1>4. CASE EndRead(r)
  <2> DEFINE x == [o EXCEPT !.at = "done"]
  <2>1. o.at = "load" /\ o.todo = {} /\ reader' = [reader EXCEPT ![r] = x]
    BY <1>4 DEF EndRead
  <2> HIDE DEF o
  <2>2. x \in Read /\ x.at = "done" /\ x.todo = o.todo /\ x.best = o.best
    BY <1>1 DEF Read
  <2> HIDE DEF x
  <2> QED BY <1>1, <1>2, <1>3, <2>1, <2>2, ReadKeepsInv
<1>5. CASE AbortRead(r)
  <2>1. NoRead \in Read /\ NoRead.at = "idle" /\ reader' = [reader EXCEPT ![r] = NoRead]
    BY <1>5, Contents DEF AbortRead, NoRead, Read
  <2> QED BY <1>1, <1>2, <2>1, ReadKeepsInv
<1> QED BY <1>4, <1>5

-----------------------------------------------------------------------------
(* The mirror.                                                              *)

\* What y's record x, with y's files listed as f, has to fulfil.
Accounts(x, f) ==
    x.at # "idle" =>
        /\ \A v \in x.todo : f[v] # 0
        /\ x.at = "upsert" =>
              /\ x.loaded # 0
              /\ x.version \in Complete(f) => f[x.version] <= x.loaded
        /\ x.all =>
              \A v \in Complete(f) :
                  \/ v \in x.todo
                  \/ v \in DOMAIN x.own /\ f[v] <= x.own[v].spec
                  \/ x.at = "upsert" /\ x.version = v

LEMMA SyncAccounts ==
    /\ SyncInv <=> \A y \in Syncers : Accounts(sync[y], floor[y])
    /\ SyncInv' <=> \A y \in Syncers : Accounts(sync'[y], floor'[y])
  BY DEF SyncInv, Accounts, Taken, Complete

LEMMA SyncKeepsInv ==
    ASSUME Inv, NEW y \in Syncers, NEW x \in Sync, sync' = [sync EXCEPT ![y] = x],
           UNCHANGED <<files, specs, nextSpec, saver, reader>>, table' \in Rows,
           floor' \in [Listers -> [Versions -> Content]], FloorInv',
           floor'[y] = floor[y] \/ floor'[y] = files,
           \A q \in Listers : q # y => floor'[q] = floor[q],
           Accounts(x, floor'[y])
    PROVE  Inv'
<1>1. sync' \in [Syncers -> Sync] /\ sync'[y] = x
      /\ \A z \in Syncers : z # y => sync'[z] = sync[z]
  BY Types DEF Inv
<1>2. TypeOK'
  BY <1>1, Types DEF Inv, TypeOK, Read, Content, Listers, Save, Sync
<1>3. SyncInv'
  <2> SUFFICES ASSUME NEW z \in Syncers PROVE Accounts(sync'[z], floor'[z])
    BY SyncAccounts
  <2>1. CASE z = y
    BY <1>1, <2>1
  <2>2. CASE z # y
    BY <1>1, <2>2, SyncAccounts DEF Inv, Listers
  <2> QED BY <2>1, <2>2
<1>4. ReadInv'
  <2>1. \A r \in Readers : floor'[r] = floor[r]
    BY RegistryAssumption DEF Listers
  <2> QED BY <2>1 DEF Inv, ReadInv, Complete
<1> QED BY <1>2, <1>3, <1>4, FilesStay DEF Inv

LEMMA StartSyncKeepsInv ==
    ASSUME Inv, NEW y \in Syncers, NEW all \in BOOLEAN, NEW todo \in SUBSET Versions,
           StartSync(y, all, todo), \A v \in todo : files[v] # 0,
           all => Complete(files) \subseteq todo
    PROVE  Inv'
<1> DEFINE x == [NoSync EXCEPT !.at = "load", !.all = all, !.todo = todo]
<1>1. /\ sync' = [sync EXCEPT ![y] = x] /\ floor' = [floor EXCEPT ![y] = files]
      /\ UNCHANGED <<files, specs, nextSpec, saver, table, reader>>
  BY DEF StartSync
<1>2. x \in Sync /\ x.at = "load" /\ x.all = all /\ x.todo = todo
  <2>1. NoSync \in Sync
    BY Contents, NoRows DEF NoSync, Sync
  <2> QED BY <2>1 DEF Sync
<1> HIDE DEF x
<1>3. Accounts(x, files)
  BY <1>2 DEF Accounts
<1>4. y \in Listers /\ table \in Rows
  BY Types DEF Inv, Listers
<1> QED BY <1>1, <1>2, <1>3, <1>4, ListedNow, SyncKeepsInv

LEMMA LoadSpecKeepsInv ==
    ASSUME Inv, NEW y \in Syncers, NEW v \in Versions, LoadSpec(y, v) PROVE Inv'
<1> DEFINE o == sync[y]
           x == [o EXCEPT !.at = "upsert", !.todo = o.todo \ {v}, !.version = v,
                          !.loaded = files[v]]
<1>1. o \in Sync /\ Accounts(o, floor[y]) /\ table \in Rows
      /\ floor \in [Listers -> [Versions -> Content]]
  BY Types, SyncAccounts DEF Inv
<1>2. /\ o.at = "load" /\ v \in o.todo /\ files[v] \notin Torn
      /\ sync' = [sync EXCEPT ![y] = x]
      /\ UNCHANGED <<files, specs, nextSpec, saver, table, reader, floor>>
  BY DEF LoadSpec
<1>3. files[v] \in 0..MaxSpecs
  BY <1>2, Types, Contents DEF Inv
<1>4. FloorInv'
  BY <1>2 DEF Inv, FloorInv, Complete
<1>5. floor[y][v] # 0
  BY <1>1, <1>2 DEF Accounts
<1>6. files[v] # 0 /\ (v \in Complete(floor[y]) => floor[y][v] <= files[v])
  BY <1>3, <1>5 DEF Inv, FloorInv, Listers
<1> HIDE DEF o
<1>7. /\ x \in Sync /\ x.at = "upsert" /\ x.todo = o.todo \ {v} /\ x.version = v
      /\ x.loaded = files[v] /\ x.own = o.own /\ x.all = o.all
  BY <1>1, <1>3 DEF Sync
<1> HIDE DEF x
<1>8. Accounts(x, floor[y])
  BY <1>1, <1>2, <1>6, <1>7 DEF Accounts
<1> QED BY <1>1, <1>2, <1>4, <1>7, <1>8, SyncKeepsInv

LEMMA UpsertKeepsInv == ASSUME Inv, NEW y \in Syncers, Upsert(y) PROVE Inv'
<1> DEFINE o == sync[y]
           v == o.version
           row == Mirrored(y, v, o.loaded)
           written == [u \in {v} |-> row]
           own == Overlaid(written, o.own)
           x == [o EXCEPT !.at = "load", !.own = own]
<1>1. o \in Sync /\ Accounts(o, floor[y]) /\ table \in Rows
      /\ floor \in [Listers -> [Versions -> Content]]
  BY Types, SyncAccounts DEF Inv
<1>2. /\ o.at = "upsert"
      /\ sync' = [sync EXCEPT ![y] = x]
      /\ UNCHANGED <<files, specs, nextSpec, saver, table, reader, floor>>
  BY DEF Upsert
<1>3. FloorInv'
  BY <1>2 DEF Inv, FloorInv, Complete
<1>4. o.own \in Rows /\ v \in Versions /\ o.loaded \in Specs
  <2>1. o.loaded # 0
    BY <1>1, <1>2 DEF Accounts
  <2> QED BY <1>1, <2>1, Contents DEF Sync, Specs
<1>5. row \in Row /\ row.spec = o.loaded
  <2>1. Overlaid(o.own, table) \in Rows
    BY <1>1, <1>4, OverlaidRows
  <2>2. \A u \in DOMAIN Overlaid(o.own, table) : Overlaid(o.own, table)[u].created \in Specs
    BY <2>1, RowsByVersion DEF Row
  <2> QED BY <1>4, <2>2 DEF Mirrored, Row
<1> HIDE DEF row
<1>6. written \in Rows /\ DOMAIN written = {v} /\ written[v] = row
  <2>1. written \in [{v} -> Row]
    BY <1>5
  <2> QED BY <1>4, <2>1 DEF Rows
<1> HIDE DEF written, o
<1>7. /\ own \in Rows /\ DOMAIN own = {v} \cup DOMAIN o.own
      /\ own[v] = row /\ \A u \in DOMAIN o.own : u # v => own[u] = o.own[u]
  BY <1>4, <1>6, OverlaidRows DEF Overlaid
<1> HIDE DEF own
<1>8. x \in Sync /\ x.at = "load" /\ x.todo = o.todo /\ x.own = own /\ x.all = o.all
  BY <1>1, <1>7 DEF Sync
<1> HIDE DEF x
<1>9. Accounts(x, floor[y])
  BY <1>1, <1>2, <1>5, <1>7, <1>8 DEF Accounts
<1> QED BY <1>1, <1>2, <1>3, <1>8, <1>9, SyncKeepsInv

LEMMA EndSyncKeepsInv ==
    ASSUME Inv, NEW y \in Syncers, CommitSync(y) \/ AbortSync(y) PROVE Inv'
<1>1. sync[y] \in Sync /\ table \in Rows /\ floor \in [Listers -> [Versions -> Content]]
  BY Types DEF Inv
<1>2. sync' = [sync EXCEPT ![y] = NoSync]
      /\ UNCHANGED <<files, specs, nextSpec, saver, reader, floor>>
  BY DEF CommitSync, AbortSync
<1>3. table' \in Rows
  BY <1>1, OverlaidRows DEF CommitSync, AbortSync, Sync
<1>4. FloorInv'
  BY <1>2 DEF Inv, FloorInv, Complete
<1>5. NoSync \in Sync /\ NoSync.at = "idle"
  BY Contents, NoRows DEF NoSync, Sync
<1>6. Accounts(NoSync, floor[y])
  BY <1>5 DEF Accounts
<1> QED BY <1>1, <1>2, <1>3, <1>4, <1>5, <1>6, SyncKeepsInv

-----------------------------------------------------------------------------
(* The theorems.                                                            *)

LEMMA InitInv == Init => Inv
<1> SUFFICES ASSUME Init PROVE Inv
  OBVIOUS
<1>1. /\ NoSave \in Save /\ NoSave.at = "idle" /\ NoSync \in Sync /\ NoSync.at = "idle"
      /\ NoRead \in Read /\ NoRead.at = "idle"
  BY Contents, NoRows DEF NoSave, NoSync, NoRead, Save, Sync, Read
<1>2. files \in [Versions -> Content] /\ \A v \in Versions : files[v] = 0
  BY Contents DEF Init, Content
<1>3. TypeOK
  <2>1. specs \in [Versions -> SUBSET Specs] /\ nextSpec \in 1..(MaxSpecs + 1)
    BY Contents DEF Init
  <2>2. saver \in [Savers -> Save] /\ sync \in [Syncers -> Sync] /\ reader \in [Readers -> Read]
    BY <1>1 DEF Init
  <2>3. table \in Rows
    BY NoRows DEF Init
  <2>4. floor \in [Listers -> [Versions -> Content]]
    BY <1>2 DEF Init, Listers
  <2> QED BY <1>2, <2>1, <2>2, <2>3, <2>4, Types
<1>4. FileInv
  BY <1>2 DEF Init, FileInv
<1>5. SaveInv /\ ReadInv /\ SyncInv
  BY <1>1 DEF Init, SaveInv, ReadInv, SyncInv
<1>6. FloorInv
  BY <1>2 DEF Init, FloorInv, Listers
<1> QED BY <1>3, <1>4, <1>5, <1>6 DEF Inv

LEMMA NextKeepsInv == ASSUME Inv, OneSaverEach, [Next]_vars PROVE Inv'
<1>1. ASSUME NEW s \in Savers,
             \/ \E v \in Versions, overwrite \in BOOLEAN : Check(s, v, overwrite)
             \/ Open(s) \/ Write(s) \/ CrashSave(s)
      PROVE  Inv'
  BY <1>1, CheckKeepsInv, OpenKeepsInv, WriteKeepsInv, CrashKeepsInv
<1>2. ASSUME NEW y \in Syncers,
             \/ SyncAll(y)
             \/ \E v \in Versions : SyncOne(y, v) \/ LoadSpec(y, v)
             \/ Upsert(y) \/ CommitSync(y) \/ AbortSync(y)
      PROVE  Inv'
  <2>1. CASE SyncAll(y)
    <3> DEFINE listed == {v \in Versions : files[v] # 0}
    <3>1. StartSync(y, TRUE, listed)
      BY <2>1 DEF SyncAll
    <3>2. Complete(files) \subseteq listed
      BY Contents
    <3>3. listed \in SUBSET Versions /\ \A v \in listed : files[v] # 0
      OBVIOUS
    <3> HIDE DEF listed
    <3> QED BY <3>1, <3>2, <3>3, StartSyncKeepsInv
  <2>2. ASSUME NEW v \in Versions, SyncOne(y, v) PROVE Inv'
    <3>1. StartSync(y, FALSE, {v}) /\ files[v] # 0
      BY <2>2 DEF SyncOne
    <3>2. {v} \in SUBSET Versions /\ \A u \in {v} : files[u] # 0
      BY <3>1
    <3> QED BY <3>1, <3>2, StartSyncKeepsInv
  <2> QED BY <1>2, <2>1, <2>2, LoadSpecKeepsInv, UpsertKeepsInv, EndSyncKeepsInv
<1>3. ASSUME NEW r \in Readers,
             StartRead(r) \/ (\E v \in Versions : ReadOne(r, v)) \/ EndRead(r) \/ AbortRead(r)
      PROVE  Inv'
  BY <1>3, StartReadKeepsInv, ReadOneKeepsInv, EndReadKeepsInv
<1>4. CASE UNCHANGED vars
  <2>1. UNCHANGED <<files, specs, nextSpec, saver, table, sync, reader, floor>>
    BY <1>4 DEF vars
  <2> QED BY <2>1 DEF Inv, TypeOK, FileInv, SaveInv, FloorInv, ReadInv, SyncInv, Taken, Complete
<1> QED BY <1>1, <1>2, <1>3, <1>4 DEF Next

LEMMA RegistryInvariant == Spec /\ []OneSaverEach => []Inv
<1>1. Inv /\ OneSaverEach /\ [Next]_vars => Inv'
  BY NextKeepsInv
<1> QED BY <1>1, InitInv, PTL DEF Spec

(***************************************************************************)
(* load_latest returns a spec no older than any that was in full when it   *)
(* listed the versions, whatever is saved, overwritten or torn while it    *)
(* loads them, as long as no two processes save one version at a time.     *)
(***************************************************************************)
THEOREM LatestReadIsLatest == Spec /\ []OneSaverEach => []LatestIsLatest
<1>1. Inv => LatestIsLatest
  BY DEF Inv, ReadInv, LatestIsLatest
<1> QED BY <1>1, RegistryInvariant, PTL

(***************************************************************************)
(* app/research/registry.py:9-11: a file that is there in full changes     *)
(* only under a save with overwrite=True, as long as no two processes save *)
(* one version at a time.                                                  *)
(***************************************************************************)
THEOREM SavesNeverOverwriteSilently == Spec /\ []OneSaverEach => NeverSilentlyOverwritten
<1>1. ASSUME Inv, [Next]_vars, NEW v \in Complete(files), files'[v] # files[v]
      PROVE  \E s \in Savers : saver[s].version = v /\ saver[s].overwrite
  <2>1. v \in Versions /\ files[v] # Empty
    BY <1>1, Contents DEF Torn
  <2>2. files' # files
    BY <1>1
  <2>3. PICK s \in Savers : Open(s) \/ Write(s)
    BY <1>1, <2>2 DEF Next, vars, Check, CrashSave, SyncAll, SyncOne, StartSync, LoadSpec, Upsert,
                      CommitSync, AbortSync, StartRead, ReadOne, EndRead, AbortRead
  <2>4. files \in [Versions -> Content] /\ saver[s] \in Save
    BY <1>1, Types DEF Inv
  <2>5. saver[s].at = "write" => files[saver[s].version] = Empty
    BY <1>1 DEF Inv, SaveInv
  <2>6. saver[s].version = v
    <3>1. CASE Open(s)
      BY <1>1, <2>1, <2>4, <3>1 DEF Open
    <3>2. CASE Write(s)
      BY <1>1, <2>1, <2>4, <2>5, <3>2 DEF Write
    <3> QED BY <2>3, <3>1, <3>2
  <2>7. Open(s)
    BY <2>1, <2>3, <2>5, <2>6 DEF Write
  <2>8. saver[s].overwrite = TRUE
    BY <1>1, <2>4, <2>6, <2>7 DEF Inv, SaveInv, Open, Save
  <2> QED BY <2>6, <2>8
<1>2. Inv /\ [Next]_vars =>
        [\A v \in Complete(files) :
            files'[v] # files[v] => \E s \in Savers : saver[s].version = v /\ saver[s].overwrite]_vars
  BY <1>1
<1> QED BY <1>2, RegistryInvariant, PTL DEF Spec, NeverSilentlyOverwritten

(***************************************************************************)
(* When a sync_all commits, the mirror has every version that was there in *)
(* full when it listed them, none older than its file was then: with any   *)
(* number of synchronisers, each in a transaction of its own, as long as   *)
(* no two processes save one version at a time.                            *)
(***************************************************************************)
THEOREM CommittedSyncCovers == Spec /\ []OneSaverEach => SyncAllCovers
<1>1. ASSUME Inv, NEW y \in Syncers, sync[y].all, Commits(y), NEW v \in Complete(floor[y])
      PROVE  v \in DOMAIN table' /\ floor[y][v] <= table'[v].spec
  <2>1. v \in DOMAIN sync[y].own /\ floor[y][v] <= sync[y].own[v].spec
    BY <1>1 DEF Inv, SyncInv, Taken, Commits
  <2>2. table' = Overlaid(sync[y].own, table)
    BY <1>1 DEF Commits
  <2> QED BY <2>1, <2>2 DEF Overlaid
<1>2. Inv =>
        [\A y \in Syncers : sync[y].all /\ Commits(y) =>
            \A v \in Complete(floor[y]) :
                v \in DOMAIN table' /\ floor[y][v] <= table'[v].spec]_vars
  BY <1>1
<1> QED BY <1>2, RegistryInvariant, PTL DEF SyncAllCovers

-----------------------------------------------------------------------------
(* What holds with any number of savers.                                    *)

\* Every row is made of specs that were saved for its version.
OfSaved(rows, saved) ==
    \A v \in DOMAIN rows : rows[v].spec \in saved[v] /\ rows[v].created \in saved[v]

\* What a saver, a sync and a load have in hand, with the files listed as f.
SaverKnows(x, saved) == x.at # "idle" => x.spec \in saved[x.version]

SyncKnows(x, f, saved) ==
    /\ OfSaved(x.own, saved)
    /\ x.at = "upsert" => x.loaded \in saved[x.version]
    /\ x.at # "idle" =>
          /\ \A v \in x.todo : f[v] # 0
          /\ x.all => \A v \in Versions : f[v] # 0 =>
                \/ v \in x.todo \/ v \in DOMAIN x.own
                \/ x.at = "upsert" /\ x.version = v

ReaderKnows(x, saved) == x.best # 0 => \E v \in Versions : x.best \in saved[v]

(***************************************************************************)
(* The invariant that needs no hypothesis: a file that was listed is there *)
(* still, and everything anyone has in hand was saved at some time.        *)
(***************************************************************************)
AnyInv ==
    /\ TypeOK
    /\ \A s \in Savers : SaverKnows(saver[s], specs)
    /\ \A y \in Syncers : SyncKnows(sync[y], floor[y], specs)
    /\ \A r \in Readers : ReaderKnows(reader[r], specs)
    /\ OfSaved(table, specs)
    /\ \A p \in Listers, v \in Versions : floor[p][v] # 0 => files[v] # 0

LEMMA OverlaidSaved ==
    ASSUME NEW saved, NEW f \in Rows, NEW g \in Rows, OfSaved(f, saved), OfSaved(g, saved)
    PROVE  OfSaved(Overlaid(f, g), saved)
  BY DEF OfSaved, Overlaid

LEMMA SavedStaysSaved ==
    ASSUME NEW S \in [Versions -> SUBSET Specs], NEW T \in [Versions -> SUBSET Specs],
           \A v \in Versions : S[v] \subseteq T[v]
    PROVE  /\ \A rows \in Rows : OfSaved(rows, S) => OfSaved(rows, T)
           /\ \A x \in Save : SaverKnows(x, S) => SaverKnows(x, T)
           /\ \A x \in Sync : \A f : SyncKnows(x, f, S) => SyncKnows(x, f, T)
           /\ \A x \in Read : ReaderKnows(x, S) => ReaderKnows(x, T)
<1>1. \A rows \in Rows : OfSaved(rows, S) => OfSaved(rows, T)
  BY RowsByVersion DEF OfSaved
<1>2. \A x \in Save : SaverKnows(x, S) => SaverKnows(x, T)
  BY DEF SaverKnows, Save
<1>3. \A x \in Sync : \A f : SyncKnows(x, f, S) => SyncKnows(x, f, T)
  BY <1>1 DEF SyncKnows, Sync
<1>4. \A x \in Read : ReaderKnows(x, S) => ReaderKnows(x, T)
  BY DEF ReaderKnows
<1> QED BY <1>1, <1>2, <1>3, <1>4

LEMMA SaverKeepsAny ==
    ASSUME AnyInv, NEW s \in Savers, NEW x \in Save, saver' = [saver EXCEPT ![s] = x],
           UNCHANGED <<table, sync, reader, floor>>,
           specs' \in [Versions -> SUBSET Specs], nextSpec' \in 1..(MaxSpecs + 1),
           \A v \in Versions : specs[v] \subseteq specs'[v],
           files' \in [Versions -> Content],
           \A v \in Versions : files'[v] \in Torn \cup {0} \cup specs'[v],
           \A v \in Versions : files[v] # 0 => files'[v] # 0,
           SaverKnows(x, specs')
    PROVE  AnyInv'
<1>1. /\ saver \in [Savers -> Save] /\ table \in Rows /\ sync \in [Syncers -> Sync]
      /\ reader \in [Readers -> Read] /\ specs \in [Versions -> SUBSET Specs]
  BY Types DEF AnyInv
<1>2. TypeOK'
  <2>1. saver' \in [Savers -> Save]
    BY <1>1
  <2> QED BY <2>1, Types DEF AnyInv, TypeOK, Save, Content, Listers, Sync, Read
<1>3. \A t \in Savers : SaverKnows(saver'[t], specs')
  BY <1>1, SavedStaysSaved DEF AnyInv
<1>4. /\ \A y \in Syncers : SyncKnows(sync[y], floor[y], specs')
      /\ \A r \in Readers : ReaderKnows(reader[r], specs')
      /\ OfSaved(table, specs')
  BY <1>1, SavedStaysSaved DEF AnyInv
<1>5. \A p \in Listers, v \in Versions : floor[p][v] # 0 => files'[v] # 0
  BY DEF AnyInv
<1> QED BY <1>2, <1>3, <1>4, <1>5 DEF AnyInv, SyncKnows

LEMMA SavesKeepAny ==
    ASSUME AnyInv, NEW s \in Savers,
           \/ \E v \in Versions, overwrite \in BOOLEAN : Check(s, v, overwrite)
           \/ Open(s) \/ Write(s) \/ CrashSave(s)
    PROVE  AnyInv'
<1>1. /\ files \in [Versions -> Content] /\ specs \in [Versions -> SUBSET Specs]
      /\ \A v \in Versions : files[v] \in Torn \cup {0} \cup specs[v]
      /\ nextSpec \in 1..(MaxSpecs + 1) /\ saver[s] \in Save
      /\ SaverKnows(saver[s], specs)
  BY Types DEF AnyInv
<1>2. NoSave \in Save /\ SaverKnows(NoSave, specs)
  BY Contents DEF NoSave, Save, SaverKnows
<1>3. ASSUME NEW v \in Versions, NEW o \in BOOLEAN, Check(s, v, o) PROVE AnyInv'
  <2> DEFINE x == [at |-> "open", version |-> v, spec |-> nextSpec, overwrite |-> o]
  <2>1. /\ nextSpec \in 1..MaxSpecs /\ nextSpec' = nextSpec + 1
        /\ saver' = [saver EXCEPT ![s] = x] /\ specs' = [specs EXCEPT ![v] = @ \cup {nextSpec}]
        /\ UNCHANGED <<files, table, sync, reader, floor>>
    BY <1>1, <1>3, Contents DEF Check
  <2>2. /\ specs' \in [Versions -> SUBSET Specs] /\ nextSpec \in specs'[v]
        /\ \A u \in Versions : specs[u] \subseteq specs'[u]
    BY <1>1, <2>1, Contents DEF Specs
  <2>3. x \in Save /\ SaverKnows(x, specs') /\ nextSpec' \in 1..(MaxSpecs + 1)
    BY <2>1, <2>2, Contents DEF Save, SaverKnows
  <2>4. /\ \A u \in Versions : files'[u] \in Torn \cup {0} \cup specs'[u]
        /\ \A u \in Versions : files[u] # 0 => files'[u] # 0
        /\ files' \in [Versions -> Content]
    BY <1>1, <2>1, <2>2
  <2> HIDE DEF x
  <2> QED BY <2>1, <2>2, <2>3, <2>4, SaverKeepsAny
<1>4. CASE Open(s)
  <2> DEFINE w == saver[s]
             x == [w EXCEPT !.at = "write"]
  <2>1. /\ files' = [files EXCEPT ![w.version] = Empty] /\ saver' = [saver EXCEPT ![s] = x]
        /\ w.at = "open" /\ UNCHANGED <<specs, nextSpec, table, sync, reader, floor>>
    BY <1>4 DEF Open
  <2>2. w \in Save /\ SaverKnows(w, specs)
    BY <1>1
  <2> HIDE DEF w
  <2>3. x \in Save /\ SaverKnows(x, specs) /\ w.version \in Versions
    BY <2>1, <2>2 DEF Save, SaverKnows
  <2>4. /\ files' \in [Versions -> Content]
        /\ \A u \in Versions : files'[u] \in Torn \cup {0} \cup specs[u]
        /\ \A u \in Versions : files[u] # 0 => files'[u] # 0
    BY <1>1, <2>1, <2>3, Contents DEF Content, Torn
  <2> HIDE DEF x
  <2> QED BY <1>1, <2>1, <2>3, <2>4, SaverKeepsAny
<1>5. CASE Write(s)
  <2> DEFINE v == saver[s].version
  <2>1. v \in Versions /\ saver[s].spec \in specs[v] /\ saver[s].at = "write"
    BY <1>1, <1>5 DEF Write, SaverKnows, Save
  <2>2. /\ saver' = [saver EXCEPT ![s] = NoSave]
        /\ UNCHANGED <<specs, nextSpec, table, sync, reader, floor>>
    BY <1>5 DEF Write
  <2>3. PICK c \in {Garbled, saver[s].spec} : files' = [files EXCEPT ![v] = c]
    BY <1>5 DEF Write
  <2>4. c \in Torn \cup specs[v] /\ c # 0 /\ c \in Content
    BY <1>1, <2>1, <2>3, Contents DEF Torn, Content, Specs
  <2>5. /\ files' \in [Versions -> Content]
        /\ \A u \in Versions : files'[u] \in Torn \cup {0} \cup specs[u]
        /\ \A u \in Versions : files[u] # 0 => files'[u] # 0
    BY <1>1, <2>1, <2>3, <2>4
  <2> QED BY <1>1, <1>2, <2>2, <2>5, SaverKeepsAny
<1>6. CASE CrashSave(s)
  <2>1. /\ saver' = [saver EXCEPT ![s] = NoSave]
        /\ UNCHANGED <<files, specs, nextSpec, table, sync, reader, floor>>
    BY <1>6 DEF CrashSave
  <2> QED BY <1>1, <1>2, <2>1, SaverKeepsAny
<1> QED BY <1>3, <1>4, <1>5, <1>6

LEMMA SyncKeepsAny ==
    ASSUME AnyInv, NEW y \in Syncers, NEW x \in Sync, sync' = [sync EXCEPT ![y] = x],
           UNCHANGED <<files, specs, nextSpec, saver, reader>>,
           table' \in Rows, OfSaved(table', specs),
           floor' \in [Listers -> [Versions -> Content]],
           \A q \in Listers : q # y => floor'[q] = floor[q],
           \A v \in Versions : floor'[y][v] # 0 => files[v] # 0,
           SyncKnows(x, floor'[y], specs)
    PROVE  AnyInv'
<1>1. /\ sync' \in [Syncers -> Sync] /\ sync'[y] = x
      /\ \A z \in Syncers : z # y => sync'[z] = sync[z]
  BY Types DEF AnyInv
<1>2. TypeOK'
  BY <1>1, Types DEF AnyInv, TypeOK, Read, Content, Listers, Save, Sync
<1>3. ASSUME NEW z \in Syncers PROVE SyncKnows(sync'[z], floor'[z], specs)
  <2>1. CASE z = y
    BY <1>1, <2>1
  <2>2. CASE z # y
    BY <1>1, <2>2 DEF AnyInv, Listers
  <2> QED BY <2>1, <2>2
<1>4. \A p \in Listers, v \in Versions : floor'[p][v] # 0 => files[v] # 0
  BY DEF AnyInv
<1> QED BY <1>2, <1>3, <1>4 DEF AnyInv

LEMMA StartSyncKeepsAny ==
    ASSUME AnyInv, NEW y \in Syncers, NEW all \in BOOLEAN, NEW todo \in SUBSET Versions,
           StartSync(y, all, todo), \A v \in todo : files[v] # 0,
           all => todo = {v \in Versions : files[v] # 0}
    PROVE  AnyInv'
<1> DEFINE x == [NoSync EXCEPT !.at = "load", !.all = all, !.todo = todo]
<1>1. /\ sync' = [sync EXCEPT ![y] = x] /\ floor' = [floor EXCEPT ![y] = files]
      /\ UNCHANGED <<files, specs, nextSpec, saver, table, reader>>
  BY DEF StartSync
<1>2. NoSync \in Sync /\ OfSaved(NoSync.own, specs)
  BY Contents, NoRows DEF NoSync, Sync, OfSaved
<1>3. x \in Sync /\ x.at = "load" /\ x.all = all /\ x.todo = todo /\ x.own = NoSync.own
  BY <1>2 DEF Sync
<1> HIDE DEF x
<1>4. SyncKnows(x, files, specs)
  BY <1>2, <1>3 DEF SyncKnows
<1>5. /\ floor' \in [Listers -> [Versions -> Content]] /\ floor'[y] = files
      /\ \A q \in Listers : q # y => floor'[q] = floor[q]
      /\ table \in Rows
  BY <1>1, Types DEF AnyInv, Listers
<1>6. OfSaved(table', specs)
  BY <1>1 DEF AnyInv
<1> QED BY <1>1, <1>3, <1>4, <1>5, <1>6, SyncKeepsAny

LEMMA LoadSpecKeepsAny ==
    ASSUME AnyInv, NEW y \in Syncers, NEW v \in Versions, LoadSpec(y, v) PROVE AnyInv'
<1> DEFINE o == sync[y]
           x == [o EXCEPT !.at = "upsert", !.todo = o.todo \ {v}, !.version = v,
                          !.loaded = files[v]]
<1>1. /\ o \in Sync /\ SyncKnows(o, floor[y], specs) /\ table \in Rows
      /\ floor \in [Listers -> [Versions -> Content]] /\ y \in Listers
      /\ files[v] \in Content /\ files[v] \in Torn \cup {0} \cup specs[v]
      /\ OfSaved(table, specs)
      /\ \A u \in Versions : floor[y][u] # 0 => files[u] # 0
  BY Types DEF AnyInv, Listers
<1>2. /\ o.at = "load" /\ v \in o.todo /\ files[v] \notin Torn
      /\ sync' = [sync EXCEPT ![y] = x]
      /\ UNCHANGED <<files, specs, nextSpec, saver, table, reader, floor>>
  BY DEF LoadSpec
<1>3. files[v] \in specs[v] /\ files[v] \in 0..MaxSpecs
  <2>1. files[v] # 0
    BY <1>1, <1>2 DEF SyncKnows
  <2> QED BY <1>1, <1>2, <2>1, Contents
<1> HIDE DEF o
<1>4. /\ x \in Sync /\ x.at = "upsert" /\ x.todo = o.todo \ {v} /\ x.version = v
      /\ x.loaded = files[v] /\ x.own = o.own /\ x.all = o.all
  BY <1>1, <1>3 DEF Sync
<1> HIDE DEF x
<1>5. SyncKnows(x, floor[y], specs)
  BY <1>1, <1>2, <1>3, <1>4 DEF SyncKnows
<1> QED BY <1>1, <1>2, <1>4, <1>5, SyncKeepsAny

LEMMA UpsertKeepsAny == ASSUME AnyInv, NEW y \in Syncers, Upsert(y) PROVE AnyInv'
<1> DEFINE o == sync[y]
           v == o.version
           row == Mirrored(y, v, o.loaded)
           written == [u \in {v} |-> row]
           own == Overlaid(written, o.own)
           x == [o EXCEPT !.at = "load", !.own = own]
<1>1. /\ o \in Sync /\ SyncKnows(o, floor[y], specs) /\ table \in Rows
      /\ floor \in [Listers -> [Versions -> Content]] /\ y \in Listers
      /\ specs \in [Versions -> SUBSET Specs] /\ OfSaved(table, specs)
      /\ \A u \in Versions : floor[y][u] # 0 => files[u] # 0
  BY Types DEF AnyInv, Listers
<1>2. /\ o.at = "upsert"
      /\ sync' = [sync EXCEPT ![y] = x]
      /\ UNCHANGED <<files, specs, nextSpec, saver, table, reader, floor>>
  BY DEF Upsert
<1>3. /\ o.own \in Rows /\ v \in Versions /\ OfSaved(o.own, specs)
      /\ o.loaded \in specs[v] /\ o.loaded \in Specs
  BY <1>1, <1>2 DEF Sync, SyncKnows
<1>4. row \in Row /\ row.spec \in specs[v] /\ row.created \in specs[v]
  <2> DEFINE seen == Overlaid(o.own, table)
  <2>1. seen \in Rows /\ OfSaved(seen, specs)
    BY <1>1, <1>3, OverlaidRows, OverlaidSaved
  <2>2. /\ row.spec = o.loaded
        /\ row.created = IF v \in DOMAIN seen THEN seen[v].created ELSE o.loaded
        /\ row = [spec |-> row.spec, created |-> row.created]
    BY DEF Mirrored
  <2> HIDE DEF seen
  <2>3. v \in DOMAIN seen => seen[v].created \in specs[v]
    BY <2>1 DEF OfSaved
  <2> HIDE DEF row
  <2> QED BY <1>1, <1>3, <2>2, <2>3 DEF Row
<1> HIDE DEF row
<1>5. written \in Rows /\ DOMAIN written = {v} /\ written[v] = row
  <2>1. written \in [{v} -> Row]
    BY <1>4
  <2> QED BY <1>3, <2>1 DEF Rows
<1>6. OfSaved(written, specs)
  BY <1>4 DEF OfSaved
<1> HIDE DEF written, o
<1>7. own \in Rows /\ DOMAIN own = {v} \cup DOMAIN o.own /\ OfSaved(own, specs)
  BY <1>3, <1>5, <1>6, OverlaidRows, OverlaidSaved DEF Overlaid
<1> HIDE DEF own
<1>8. x \in Sync /\ x.at = "load" /\ x.todo = o.todo /\ x.own = own /\ x.all = o.all
  BY <1>1, <1>7 DEF Sync
<1> HIDE DEF x
<1>9. SyncKnows(x, floor[y], specs)
  BY <1>1, <1>2, <1>7, <1>8 DEF SyncKnows
<1> QED BY <1>1, <1>2, <1>8, <1>9, SyncKeepsAny

LEMMA EndSyncKeepsAny ==
    ASSUME AnyInv, NEW y \in Syncers, CommitSync(y) \/ AbortSync(y) PROVE AnyInv'
<1>1. /\ sync[y] \in Sync /\ SyncKnows(sync[y], floor[y], specs) /\ table \in Rows
      /\ floor \in [Listers -> [Versions -> Content]] /\ y \in Listers
      /\ OfSaved(table, specs) /\ \A u \in Versions : floor[y][u] # 0 => files[u] # 0
  BY Types DEF AnyInv, Listers
<1>2. sync' = [sync EXCEPT ![y] = NoSync]
      /\ UNCHANGED <<files, specs, nextSpec, saver, reader, floor>>
  BY DEF CommitSync, AbortSync
<1>3. table' \in Rows /\ OfSaved(table', specs)
  <2>1. sync[y].own \in Rows /\ OfSaved(sync[y].own, specs)
    BY <1>1 DEF Sync, SyncKnows
  <2>2. table' = table \/ table' = Overlaid(sync[y].own, table)
    BY DEF CommitSync, AbortSync
  <2> QED BY <1>1, <2>1, <2>2, OverlaidRows, OverlaidSaved
<1>4. NoSync \in Sync /\ SyncKnows(NoSync, floor[y], specs)
  BY Contents, NoRows DEF NoSync, Sync, SyncKnows, OfSaved
<1> QED BY <1>1, <1>2, <1>3, <1>4, SyncKeepsAny

LEMMA ReadKeepsAny ==
    ASSUME AnyInv, NEW r \in Readers, NEW x \in Read, reader' = [reader EXCEPT ![r] = x],
           UNCHANGED <<files, specs, nextSpec, saver, table, sync>>,
           floor' = floor \/ floor' = [floor EXCEPT ![r] = files],
           ReaderKnows(x, specs)
    PROVE  AnyInv'
<1>1. /\ reader' \in [Readers -> Read] /\ reader'[r] = x
      /\ \A q \in Readers : q # r => reader'[q] = reader[q]
      /\ floor' \in [Listers -> [Versions -> Content]]
      /\ \A q \in Listers : floor'[q] = floor[q] \/ floor'[q] = files
  BY Types DEF AnyInv, Listers
<1>2. TypeOK'
  BY <1>1, Types DEF AnyInv, TypeOK, Read, Content, Listers, Save, Sync
<1>3. \A q \in Readers : ReaderKnows(reader'[q], specs)
  BY <1>1 DEF AnyInv
<1>4. \A y \in Syncers : floor'[y] = floor[y]
  BY RegistryAssumption, Types DEF AnyInv, Listers
<1>5. \A y \in Syncers : SyncKnows(sync[y], floor'[y], specs)
  BY <1>4 DEF AnyInv
<1>6. \A p \in Listers, v \in Versions : floor'[p][v] # 0 => files[v] # 0
  BY <1>1 DEF AnyInv
<1> QED BY <1>2, <1>3, <1>5, <1>6 DEF AnyInv

LEMMA ReadsKeepAny ==
    ASSUME AnyInv, NEW r \in Readers,
           StartRead(r) \/ (\E v \in Versions : ReadOne(r, v)) \/ EndRead(r) \/ AbortRead(r)
    PROVE  AnyInv'
<1>1. reader[r] \in Read /\ ReaderKnows(reader[r], specs) /\ files \in [Versions -> Content]
      /\ \A v \in Versions : files[v] \in Torn \cup {0} \cup specs[v]
  BY Types DEF AnyInv
<1>2. CASE StartRead(r)
  <2> DEFINE x == [at |-> "load", best |-> 0, todo |-> {v \in Versions : files[v] # 0}]
  <2>1. x \in Read /\ ReaderKnows(x, specs)
    BY Contents DEF Read, ReaderKnows
  <2>2. reader' = [reader EXCEPT ![r] = x] /\ floor' = [floor EXCEPT ![r] = files]
        /\ UNCHANGED <<files, specs, nextSpec, saver, table, sync>>
    BY <1>2 DEF StartRead
  <2> HIDE DEF x
  <2> QED BY <2>1, <2>2, ReadKeepsAny
<1>3. ASSUME NEW v \in Versions, ReadOne(r, v) PROVE AnyInv'
  <2> DEFINE o == reader[r]
             x == [o EXCEPT !.todo = o.todo \ {v}, !.best = Later(o.best, files[v])]
  <2>1. files[v] \notin Torn /\ reader' = [reader EXCEPT ![r] = x]
        /\ UNCHANGED <<files, specs, nextSpec, saver, table, sync, floor>>
    BY <1>3 DEF ReadOne
  <2>2. files[v] \in 0..MaxSpecs /\ files[v] \in {0} \cup specs[v]
    BY <1>1, <2>1, Contents
  <2>3. o \in Read /\ ReaderKnows(o, specs)
    BY <1>1
  <2> HIDE DEF o
  <2>4. x \in Read /\ (x.best = o.best \/ x.best = files[v])
    BY <2>2, <2>3 DEF Read, Later
  <2> HIDE DEF x
  <2>5. ReaderKnows(x, specs)
    BY <2>2, <2>3, <2>4 DEF ReaderKnows
  <2> QED BY <2>1, <2>4, <2>5, ReadKeepsAny
<1>4. CASE EndRead(r)
  <2> DEFINE o == reader[r]
             x == [o EXCEPT !.at = "done"]
  <2>1. reader' = [reader EXCEPT ![r] = x]
        /\ UNCHANGED <<files, specs, nextSpec, saver, table, sync, floor>>
    BY <1>4 DEF EndRead
  <2>2. o \in Read /\ ReaderKnows(o, specs)
    BY <1>1
  <2> HIDE DEF o
  <2>3. x \in Read /\ x.best = o.best
    BY <2>2 DEF Read
  <2> HIDE DEF x
  <2>4. ReaderKnows(x, specs)
    BY <2>2, <2>3 DEF ReaderKnows
  <2> QED BY <2>1, <2>3, <2>4, ReadKeepsAny
<1>5. CASE AbortRead(r)
  <2>1. NoRead \in Read /\ ReaderKnows(NoRead, specs)
    BY Contents DEF NoRead, Read, ReaderKnows
  <2>2. reader' = [reader EXCEPT ![r] = NoRead]
        /\ UNCHANGED <<files, specs, nextSpec, saver, table, sync, floor>>
    BY <1>5 DEF AbortRead
  <2> QED BY <2>1, <2>2, ReadKeepsAny
<1> QED BY <1>2, <1>3, <1>4, <1>5

LEMMA AnyInvariant == Spec => []AnyInv
<1>1. Init => AnyInv
  <2> SUFFICES ASSUME Init PROVE AnyInv
    OBVIOUS
  <2>1. TypeOK
    BY InitInv DEF Inv
  <2>2. /\ SaverKnows(NoSave, specs) /\ ReaderKnows(NoRead, specs) /\ OfSaved(<<>>, specs)
        /\ \A f : SyncKnows(NoSync, f, specs)
    BY DEF SaverKnows, ReaderKnows, OfSaved, SyncKnows, NoSave, NoRead, NoSync
  <2>3. \A p \in Listers, v \in Versions : floor[p][v] = 0
    BY DEF Init, Listers
  <2> QED BY <2>1, <2>2, <2>3 DEF Init, AnyInv
<1>2. AnyInv /\ [Next]_vars => AnyInv'
  <2> SUFFICES ASSUME AnyInv, [Next]_vars PROVE AnyInv'
    OBVIOUS
  <2>1. ASSUME NEW y \in Syncers, SyncAll(y) PROVE AnyInv'
    <3> DEFINE listed == {v \in Versions : files[v] # 0}
    <3>1. StartSync(y, TRUE, listed) /\ listed \in SUBSET Versions
          /\ \A v \in listed : files[v] # 0
      BY <2>1 DEF SyncAll
    <3>2. TRUE => listed = {v \in Versions : files[v] # 0}
      OBVIOUS
    <3> HIDE DEF listed
    <3> QED BY <3>1, <3>2, StartSyncKeepsAny
  <2>2. ASSUME NEW y \in Syncers, NEW v \in Versions, SyncOne(y, v) PROVE AnyInv'
    <3>1. StartSync(y, FALSE, {v}) /\ {v} \in SUBSET Versions /\ \A u \in {v} : files[u] # 0
      BY <2>2 DEF SyncOne
    <3> QED BY <3>1, StartSyncKeepsAny
  <2>3. CASE UNCHANGED vars
    BY <2>3 DEF vars, AnyInv, TypeOK, Listers
  <2> QED BY <2>1, <2>2, <2>3, SavesKeepAny, LoadSpecKeepsAny, UpsertKeepsAny,
             EndSyncKeepsAny, ReadsKeepAny DEF Next
<1> QED BY <1>1, <1>2, PTL DEF Spec

(***************************************************************************)
(* However many processes save and sync, and however often they crash:     *)
(* what load_latest returns and what a row of the mirror holds, each of    *)
(* its two columns, is a spec that was handed to save - for a row, for the *)
(* row's own version.                                                      *)
(***************************************************************************)
SpecsWereSaved ==
    /\ \A v \in DOMAIN table : table[v].spec \in specs[v] /\ table[v].created \in specs[v]
    /\ \A r \in Readers : reader[r].best # 0 => \E v \in Versions : reader[r].best \in specs[v]

THEOREM NothingIsMadeUp == Spec => [](TypeOK /\ SpecsWereSaved)
<1>1. AnyInv => TypeOK /\ SpecsWereSaved
  BY DEF AnyInv, OfSaved, ReaderKnows, SpecsWereSaved
<1> QED BY <1>1, AnyInvariant, PTL

(***************************************************************************)
(* What remains of SyncAllCovers in every case: a sync_all that commits    *)
(* has left out no version it listed, torn ones included, since a torn     *)
(* file raises out of the transaction.  Its row may be an older one.       *)
(***************************************************************************)
SyncAllMissesNone ==
    [][\A y \in Syncers : sync[y].all /\ Commits(y) =>
          \A v \in Versions : floor[y][v] # 0 => v \in DOMAIN table']_vars

THEOREM CommittedSyncMissesNone == Spec => SyncAllMissesNone
<1>1. ASSUME AnyInv, NEW y \in Syncers, sync[y].all, Commits(y), NEW v \in Versions, floor[y][v] # 0
      PROVE  v \in DOMAIN table'
  <2>1. v \in DOMAIN sync[y].own
    BY <1>1 DEF AnyInv, SyncKnows, Commits
  <2>2. table' = Overlaid(sync[y].own, table)
    BY <1>1 DEF Commits
  <2> QED BY <2>1, <2>2 DEF Overlaid
<1>2. AnyInv =>
        [\A y \in Syncers : sync[y].all /\ Commits(y) =>
            \A v \in Versions : floor[y][v] # 0 => v \in DOMAIN table']_vars
  BY <1>1
<1> QED BY <1>2, AnyInvariant, PTL DEF SyncAllMissesNone
=============================================================================
