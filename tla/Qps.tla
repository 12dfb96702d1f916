--------------------------------- MODULE Qps ---------------------------------
(***************************************************************************)
(* The persistent store of core/qps.blk: memory maps, snapshots written by *)
(* a forked child, garbage collection, crashes and recovery.  Objects are  *)
(* blocks of TLSF maps (files <no>.qps, written once and then read only)   *)
(* found through a table of handles; the table and the pages of users are  *)
(* in paged maps (files <no>.<generation>.qpz, one per snapshot).  The     *)
(* table of handles is in map 0, a page of the user in another one.  File  *)
(* data is synced before files are renamed to their names, so that a file  *)
(* appears whole; what a power failure may undo is the directory.          *)
(***************************************************************************)
EXTENDS Integers, Sequences, FiniteSets, FiniteSetsExt

CONSTANTS Objs,      \* handles
          MaxNo,     \* bound on map numbers
          Cap,       \* blocks in a TLSF map
          MaxGen,    \* bound on generations (which count by 2 in the code)
          ObjVals, PageVals,  \* what is written in objects and pages
          MaxCrash,  \* bound on the ends of the process
          NONE,
          Orphan,    \* may the process die between the fork and the child's lock?
          Eager      \* may the store be opened before the rename of a snapshotter
                     \* that died is on the disk?

VARIABLES up,        \* the process has the store open
          gen,       \* qps->generation
          maps,      \* qps->maps: [pg, gen, data, alloc, rem] per number
          h,         \* the table of handles: object -> number of its map
          page,      \* the page of the user
          no_free, no_blocked,
          len,       \* qps->maps.len
          snap,      \* qps->snap_gen while snapshotting, else 0
          child,     \* the snapshotter: its copy of memory, and where it is
          disk,      \* the directory: file name -> contents
          dur,       \* the directory as of its last sync
          saved,     \* what was in the store at each snapshot
          crashes,   \* number of ends so far
          ok         \* nothing failed: no load, link or panic

mem == <<gen, maps, h, page, no_free, no_blocked, len, snap>>
vars == <<up, mem, child, disk, dur, saved, crashes, ok>>

Nos == 0..MaxNo
Gens == 1..MaxGen
Names == {<<"meta">>} \cup ({"qps"} \X Nos) \cup ({"qpz"} \X Nos \X Gens)
None == [o \in Objs |-> NONE]
NewMap(pg, g) == [pg |-> pg, gen |-> g, data |-> None, alloc |-> 0, rem |-> 0]
Handles(g) == [n \in Nos |-> IF n = 0 THEN NewMap(TRUE, g) ELSE NONE]
Contents(mp, t, p) ==
  [objs |-> [o \in Objs |-> IF t[o] = NONE THEN NONE ELSE mp[t[o]].data[o]], page |-> p]

\* A store just created, with its first page of handles.
Fresh(g) ==
  /\ gen' = g /\ maps' = Handles(g) /\ h' = None /\ page' = NONE
  /\ no_free' = {} /\ no_blocked' = {} /\ len' = 1 /\ snap' = 0

Init ==
  /\ up = TRUE
  /\ gen = 1 /\ maps = Handles(1) /\ h = None /\ page = NONE
  /\ no_free = {} /\ no_blocked = {} /\ len = 1 /\ snap = 0
  /\ child = NONE
  /\ disk = [n \in Names |-> NONE] /\ dur = disk
  /\ saved = [g \in Gens |-> NONE] /\ crashes = 0 /\ ok = TRUE

Used == {n \in Nos : maps[n] # NONE}
qps_is_ro(n) == ~maps[n].pg /\ maps[n].gen # gen
UserMaps == {n \in Used : n # 0 /\ maps[n].pg}
PgIsAllFree(n, p) == n # 0 /\ p = NONE

-----------------------------------------------------------------------------
(* Allocation *)

\* qps_map_find_no
qps_map_find_no == IF no_free # {} THEN Max(no_free) ELSE len
NumbersLeft == no_free # {} \/ len <= MaxNo
TakeNo(n) == no_free' = no_free \ {n} /\ len' = IF n < len THEN len ELSE n + 1

\* The table of handles is written: its map is marked dirty by the page fault.
Dirty(f) == [f EXCEPT ![0].gen = gen]

\* The map qps_alloc_int takes a block from: one of this generation with room, or
\* a new one.
Rooms == {n \in Used : ~maps[n].pg /\ ~qps_is_ro(n) /\ maps[n].alloc < Cap}

Put(o, v, f) ==
  IF Rooms # {}
  THEN /\ \E n \in Rooms :
            /\ maps' = Dirty([f EXCEPT ![n].data[o] = v, ![n].alloc = @ + 1])
            /\ h' = [h EXCEPT ![o] = n]
       /\ UNCHANGED <<no_free, len>>
  ELSE /\ NumbersLeft
       /\ LET n == qps_map_find_no
              m == NewMap(FALSE, gen)
          IN /\ TakeNo(n)
             /\ maps' = Dirty([f EXCEPT ![n] = [m EXCEPT !.data[o] = v, !.alloc = 1]])
             /\ h' = [h EXCEPT ![o] = n]

\* qps_free_int: a block of a read only map stays there, and is not counted.
Freed(o, f) ==
  LET n == h[o]
  IN IF qps_is_ro(n) THEN [f EXCEPT ![n].rem = @ - 1]
     ELSE [f EXCEPT ![n].alloc = @ - 1, ![n].data[o] = NONE]

qps_alloc(o, v) ==
  /\ up /\ h[o] = NONE
  /\ Put(o, v, maps)
  /\ UNCHANGED <<up, gen, page, no_blocked, snap, child, disk, dur, saved, crashes, ok>>

qps_free(o) ==
  /\ up /\ h[o] # NONE
  /\ maps' = Dirty(Freed(o, maps))
  /\ h' = [h EXCEPT ![o] = NONE]
  /\ UNCHANGED <<up, gen, page, no_free, no_blocked, len, snap, child, disk, dur,
                 saved, crashes, ok>>

\* An object of a read only map is copied before it is written (qps_w_deref).
qps_w_deref(o, v) ==
  /\ up /\ h[o] # NONE
  /\ IF qps_is_ro(h[o]) THEN Put(o, v, Freed(o, maps))
     ELSE /\ maps' = [maps EXCEPT ![h[o]].data[o] = v]
          /\ UNCHANGED <<h, no_free, len>>
  /\ UNCHANGED <<up, gen, page, no_blocked, snap, child, disk, dur, saved, crashes, ok>>

\* qps_pg_map, qps_pg_unmap, and a write to the page (qps_on_segfault): all of
\* them bring the map to the current generation.
qps_pg_map(v) ==
  /\ up /\ page = NONE
  /\ page' = v
  /\ IF UserMaps # {}
     THEN /\ maps' = [n \in Nos |-> IF n \in UserMaps THEN [maps[n] EXCEPT !.gen = gen]
                                    ELSE maps[n]]
          /\ UNCHANGED <<no_free, len>>
     ELSE /\ NumbersLeft
          /\ TakeNo(qps_map_find_no)
          /\ maps' = [maps EXCEPT ![qps_map_find_no] = NewMap(TRUE, gen)]
  /\ UNCHANGED <<up, gen, h, no_blocked, snap, child, disk, dur, saved, crashes, ok>>

PageChanges(v) ==
  /\ up /\ page # NONE
  /\ page' = v
  /\ maps' = [n \in Nos |-> IF n \in UserMaps THEN [maps[n] EXCEPT !.gen = gen]
                            ELSE maps[n]]
  /\ UNCHANGED <<up, gen, h, no_free, no_blocked, len, snap, child, disk, dur, saved, crashes,
                 ok>>

\* Blocks of old maps move to a new map, until it is full; which maps are worth
\* it depends on their sizes.
qps_gc ==
  /\ up /\ snap = 0 /\ NumbersLeft
  /\ LET n == qps_map_find_no
         old == {k \in Used : ~maps[k].pg /\ gen - maps[k].gen > 1 /\ maps[k].rem > 0}
     IN \E src \in SUBSET old \ {{}} :
          LET live == {o \in Objs : h[o] \in src}
          IN \E moved \in SUBSET live :
               /\ Cardinality(moved) = Min({Cap, Cardinality(live)})
               /\ TakeNo(n)
               /\ h' = [o \in Objs |-> IF o \in moved THEN n ELSE h[o]]
               /\ maps' = Dirty([k \in Nos |->
                    IF k = n
                    THEN [NewMap(FALSE, gen) EXCEPT !.alloc = Cardinality(moved),
                            !.data = [o \in Objs |->
                               IF o \in moved THEN maps[h[o]].data[o] ELSE NONE]]
                    ELSE IF maps[k] = NONE THEN NONE
                    ELSE [maps[k] EXCEPT !.rem =
                            @ - Cardinality({o \in moved : h[o] = k})]])
  /\ UNCHANGED <<up, gen, page, no_blocked, snap, child, disk, dur, saved, crashes, ok>>

-----------------------------------------------------------------------------
(* Snapshots *)

qps_snapshot ==
  /\ up /\ snap = 0 /\ child = NONE /\ gen < MaxGen
  /\ snap' = gen /\ gen' = gen + 1
  /\ LET Closed(m) == IF ~m.pg /\ m.gen = gen THEN [m EXCEPT !.rem = m.alloc] ELSE m
         now == [n \in Nos |-> IF maps[n] = NONE THEN NONE ELSE Closed(maps[n])]
         kept == {n \in Used : IF maps[n].pg THEN ~PgIsAllFree(n, page)
                               ELSE now[n].rem > 0}
     IN /\ maps' = now
        /\ child' = [pc |-> "forked", gen |-> gen, maps |-> now, h |-> h, page |-> page,
                     todo |-> Used,
                     recs |-> {[no |-> n, pg |-> now[n].pg, rem |-> now[n].rem] : n \in kept}]
  /\ saved' = [saved EXCEPT ![gen] = Contents(maps, h, page)]
  /\ UNCHANGED <<up, h, page, no_free, no_blocked, len, disk, dur, crashes, ok>>

\* The child, from the fork on.
qps_lock_snapshot ==
  /\ child # NONE /\ child.pc = "forked"
  /\ child' = [child EXCEPT !.pc = "maps"]
  /\ UNCHANGED <<up, mem, disk, dur, saved, crashes, ok>>

SnapshotMap ==
  /\ child # NONE /\ child.pc = "maps" /\ child.todo # {}
  /\ LET n == Min(child.todo)
         m == child.maps[n]
         dst == <<"qpz", n, child.gen>>
         src == <<"qpz", n, m.gen>>
         pages == IF n = 0 THEN child.h ELSE child.page
     IN /\ child' = [child EXCEPT !.todo = @ \ {n}]
        /\ \/ /\ ~m.pg /\ m.gen = child.gen
              /\ disk' = [disk EXCEPT ![<<"qps", n>>] =
                            [gen |-> m.gen, data |-> m.data, alloc |-> m.alloc]]
              /\ UNCHANGED ok
           \/ /\ IF m.pg THEN PgIsAllFree(n, child.page) ELSE m.gen # child.gen
              /\ UNCHANGED <<disk, ok>>
           \/ /\ m.pg /\ ~PgIsAllFree(n, child.page) /\ m.gen = child.gen
              /\ disk' = [disk EXCEPT ![dst] = [pages |-> pages]]
              /\ UNCHANGED ok
           \/ /\ m.pg /\ ~PgIsAllFree(n, child.page) /\ m.gen # child.gen
              /\ disk' = [disk EXCEPT ![dst] = disk[src]]
              /\ ok' = (ok /\ disk[src] # NONE /\ disk[dst] = NONE)
  /\ UNCHANGED <<up, mem, dur, saved, crashes>>

\* Mutant of SyncFiles: the files are synced with the rename, at the end.
SyncFilesMut ==
  /\ child # NONE /\ child.pc = "maps" /\ child.todo = {}
  /\ child' = [child EXCEPT !.pc = "synced"]
  /\ UNCHANGED <<up, mem, disk, dur, saved, crashes, ok>>

\* x_write_meta, then the sync of the directory.
SyncFiles ==
  /\ child # NONE /\ child.pc = "maps" /\ child.todo = {}
  /\ dur' = disk
  /\ child' = [child EXCEPT !.pc = "synced"]
  /\ UNCHANGED <<up, mem, disk, saved, crashes, ok>>

RenameMeta ==
  /\ child # NONE /\ child.pc = "synced"
  /\ disk' = [disk EXCEPT ![<<"meta">>] = [gen |-> child.gen, recs |-> child.recs]]
  /\ child' = [child EXCEPT !.pc = "renamed"]
  /\ UNCHANGED <<up, mem, dur, saved, crashes, ok>>

\* The last sync and the exit.
ChildExits ==
  /\ child # NONE /\ child.pc = "renamed"
  /\ dur' = disk
  /\ child' = IF up /\ snap = child.gen THEN [child EXCEPT !.pc = "exited"] ELSE NONE
  /\ UNCHANGED <<up, mem, disk, saved, crashes, ok>>

\* qps_dir_cleanup: the files of no map, and the pages of other snapshots, go.
Cleaned(d, mp, g) ==
  [x \in Names |-> IF \/ x[1] = "qps" /\ mp[x[2]] = NONE
                      \/ x[1] = "qpz" /\ x[3] # g
                   THEN NONE ELSE d[x]]

\* In the main queue, some time after the exit of the child: cleanup, numbers out
\* of quarantine, empty maps recycled, the others mapped from their files.
qps_snapshot_bg_done ==
  /\ up /\ snap # 0 /\ child # NONE /\ child.pc = "exited"
  /\ LET old == {n \in Used : maps[n].gen <= snap}
         empty == {n \in old : ~maps[n].pg /\ maps[n].rem = 0}
         reopen == {n \in old \ empty : ~maps[n].pg /\ maps[n].gen = snap}
     IN /\ disk' = [x \in Names |-> IF x[1] = "qps" /\ x[2] \in no_blocked THEN NONE
                                    ELSE Cleaned(disk, maps, snap)[x]]
        /\ maps' = [n \in Nos |-> IF n \in empty THEN NONE
                                  ELSE IF n \in old /\ maps[n].pg
                                  THEN [maps[n] EXCEPT !.gen = snap] ELSE maps[n]]
        /\ no_free' = no_free \cup no_blocked /\ no_blocked' = empty
        /\ ok' = (ok /\ \A n \in reopen : disk[<<"qps", n>>] # NONE)
  /\ snap' = 0 /\ child' = NONE
  /\ UNCHANGED <<up, gen, h, page, len, dur, saved, crashes>>

-----------------------------------------------------------------------------
(* The end of the process, and recovery *)

\* What qps_load_meta finds in the directory d: the failures it would report.
Meta(d) == d[<<"meta">>]
LoadFails(d) ==
  Meta(d) # NONE /\
    \E r \in Meta(d).recs :
      IF r.pg THEN d[<<"qpz", r.no, Meta(d).gen>>] = NONE
      ELSE LET f == d[<<"qps", r.no>>]
           IN IF f = NONE THEN TRUE ELSE f.gen > Meta(d).gen \/ r.rem > f.alloc

\* The maps, handles and page it loads.
LoadedPages(d, n) ==
  LET f == d[<<"qpz", n, Meta(d).gen>>] IN IF f = NONE THEN NONE ELSE f.pages
LoadedMap(d, r) ==
  IF r.pg THEN NewMap(TRUE, Meta(d).gen)
  ELSE LET f == d[<<"qps", r.no>>]
       IN [pg |-> FALSE, gen |-> f.gen, data |-> f.data, alloc |-> f.alloc, rem |-> r.rem]
LoadedMaps(d) ==
  [n \in Nos |-> LET rs == {r \in Meta(d).recs : r.no = n}
                 IN IF rs = {} THEN NONE ELSE LoadedMap(d, CHOOSE r \in rs : TRUE)]
LoadedPage(d) ==
  LET ns == {r.no : r \in {r \in Meta(d).recs : r.pg /\ r.no # 0}}
  IN IF ns = {} THEN NONE ELSE LoadedPages(d, CHOOSE n \in ns : TRUE)

\* The memory of the process is gone.
Ends == up' = FALSE /\ crashes' = crashes + 1 /\ crashes < MaxCrash /\ Fresh(1)

\* _qps_open: refused while a snapshotter holds its lock.  The meta.qps written by
\* qps_create has generation 1 and no map.
_qps_open ==
  /\ ~up /\ (child # NONE => child.pc = "forked")
  /\ Eager \/ Meta(disk) = Meta(dur)
  /\ up' = TRUE
  /\ ok' = (ok /\ ~LoadFails(disk))
  /\ IF Meta(disk) = NONE \/ LoadFails(disk)
     THEN Fresh(2) /\ disk' = Cleaned(disk, [n \in Nos |-> NONE], 1)
     ELSE LET g == Meta(disk).gen
              nos == {r.no : r \in Meta(disk).recs}
          IN /\ gen' = g + 1 /\ snap' = 0
             /\ maps' = LoadedMaps(disk)
             /\ h' = LoadedPages(disk, 0)
             /\ page' = LoadedPage(disk)
             /\ len' = Max(nos) + 1 /\ no_free' = (0..Max(nos)) \ nos
             /\ no_blocked' = {}
             /\ disk' = Cleaned(disk, LoadedMaps(disk), g)
  /\ UNCHANGED <<child, dur, saved, crashes>>

\* qps_close removes the files of the maps that are not read only.
qps_close ==
  /\ up /\ snap = 0
  /\ Ends
  /\ disk' = [x \in Names |->
       IF x[1] = "qps" /\ x[2] \in {n \in Used : ~qps_is_ro(n)} THEN NONE ELSE disk[x]]
  /\ UNCHANGED <<child, dur, saved, ok>>

\* The process dies; its child may go on.
Crash ==
  /\ up /\ Ends
  /\ IF child = NONE THEN UNCHANGED child
     ELSE \/ child' = NONE
          \/ child.pc # "exited" /\ (Orphan \/ child.pc # "forked") /\ UNCHANGED child
  /\ UNCHANGED <<disk, dur, saved, ok>>

\* A power failure: changes of the directory since its last sync may be lost.
Images == {[x \in Names |-> IF x \in lost THEN dur[x] ELSE disk[x]] :
             lost \in SUBSET {x \in Names : disk[x] # dur[x]}}

PowerFails ==
  /\ (up \/ child # NONE) /\ Ends /\ child' = NONE
  /\ disk' \in Images /\ dur' = disk'
  /\ UNCHANGED <<saved, ok>>

\* The system writes the directory by itself.
Writeback ==
  /\ ~up /\ child = NONE /\ disk # dur
  /\ dur' = disk
  /\ UNCHANGED <<up, mem, child, disk, saved, crashes, ok>>

Next ==
  \/ \E o \in Objs : qps_free(o) \/ \E v \in ObjVals : qps_alloc(o, v) \/ qps_w_deref(o, v)
  \/ \E v \in PageVals : qps_pg_map(v)
  \/ \E v \in PageVals \cup {NONE} : PageChanges(v)
  \/ qps_gc
  \/ qps_snapshot \/ qps_lock_snapshot \/ SnapshotMap \/ SyncFiles \/ RenameMeta
  \/ ChildExits \/ qps_snapshot_bg_done
  \/ _qps_open \/ qps_close \/ Crash \/ PowerFails \/ Writeback

Spec == Init /\ [][Next]_vars

-----------------------------------------------------------------------------
\* Whatever the process and the snapshotter were doing when they died, and
\* whatever of the directory a power failure has kept, the store can be opened and
\* holds exactly what it held at the qps_snapshot that meta.qps comes from; and no
\* later step finds a file missing (qps_load_meta, x_linkat, "snapshot is
\* inconsistent").
Recoverable ==
  /\ ok
  /\ \A d \in Images :
       Meta(d) # NONE =>
         /\ ~LoadFails(d)
         /\ Contents(LoadedMaps(d), LoadedPages(d, 0), LoadedPage(d)) = saved[Meta(d).gen]
=============================================================================
