---------------------------- MODULE MemoryImage ----------------------------
(***************************************************************************)
(* MemoryImage and its MemoryBackend: the row buffers of the banks over a  *)
(* store of lines, which is held in memory (sparse), in mapped files       *)
(* (mmap) or in files behind a cache of chunks (chunk).                    *)
(*                                                                         *)
(* The code is sequential.  What interleaves is the end of the process: an *)
(* operation changes memory at once and leaves in be.plan its writes to    *)
(* the files, in program order; they are done one by one, and the process  *)
(* may be killed between two of them.  Files and mappings outlive it.      *)
(*                                                                         *)
(* An access of several lines is the accesses of its lines one after the   *)
(* other.  A code word of SECDED is the word it was computed over: only    *)
(* single bits are flipped.  Statistics, placement and temperature are     *)
(* left out.                                                               *)
(***************************************************************************)
EXTENDS Integers, FiniteSets, SequencesExt

CONSTANTS
    Configs,        \* the configurations looked at
    Lines           \* numbers of the lines

VARIABLES
    cfg,            \* kind, place of the lines (ChannelMap), cache, ECC, bounds; never changed
    disk,           \* the files: data, init, meta, present, written, header
    be,             \* the back end: d the files once plan is done, plan, cache, lru, counters
    rows,           \* row_buffers_, by bank
    next_version_,
    initialized,    \* online.cpp: lines given their first contents
    writes, crashes,        \* so far
    expect,         \* history: what a plain memory holds
    allowed,        \* history: per byte, what was last saved and everything since
    saving          \* history: a flush that ends with the plan

vars == <<cfg, disk, be, rows, next_version_, initialized, writes, crashes, expect, allowed, saving>>

Bytes == 1 .. 2

\* A cache has room for a chunk at least: cache_limit_ is max(1, ...).
ASSUME ConfigsAssumption ==
    /\ IsFiniteSet(Lines)
    /\ \A c \in Configs : c.cache \in Nat \ {0} /\ c.masks \subseteq [Bytes -> BOOLEAN]

None  == -1                         \* a byte never written
default_value_ == 8
Zero(v) == [i \in Bytes |-> v]
Bank(l)  == cfg.place[l].bank
Row(l)   == cfg.place[l].row
Column(l) == cfg.place[l].column
Chunk(l) == cfg.place[l].chunk
Banks    == {Bank(l) : l \in Lines}

Empty == [data    |-> [l \in Lines |-> Zero(0)], init |-> [l \in Lines |-> Zero(FALSE)],
          meta    |-> [l \in Lines |-> [version |-> 0, ecc |-> <<>>, bad |-> FALSE]],
          present |-> [l \in Lines |-> FALSE], written |-> [l \in Lines |-> FALSE],
          header  |-> [allocated |-> 0, written |-> 0]]

\* initialize_or_validate_header: the counters come from the header.
Opened(files) == [d |-> files, plan |-> <<>>, cache |-> <<>>, lru |-> <<>>,
                  allocated |-> files.header.allocated, unique |-> files.header.written]

\* A run is refused files whose counters make no sense.  They are unsigned: a
\* number below zero stands for one that is far too large.
validate_header_counters(files) ==
    /\ 0 <= files.header.written /\ files.header.written <= files.header.allocated
    /\ files.header.allocated <= Cardinality(Lines)

Closed == [open |-> FALSE, row |-> 0, dirty |-> FALSE, columns |-> <<>>]

Init ==
    /\ cfg \in Configs
    /\ disk = Empty /\ be = Opened(Empty)
    /\ rows = [b \in Banks |-> Closed]
    /\ next_version_ = 1 /\ initialized = {} /\ writes = 0 /\ crashes = 0
    /\ expect = [l \in Lines |-> Zero(None)]
    /\ allowed = [l \in Lines |-> Zero({None})]
    /\ saving = FALSE

(***************************************************************************)
(* The files.                                                              *)
(***************************************************************************)
Over(new, old) == [k \in DOMAIN old |-> IF k \in DOMAIN new THEN new[k] ELSE old[k]]
At(l, v) == [k \in {l} |-> v]
With(f, k, v) == [j \in DOMAIN f \union {k} |-> IF j = k THEN v ELSE f[j]]

Written(files, w) == [files EXCEPT ![w.file] = Over(w.to, @)]

Put(s, file, to) ==
    [s EXCEPT !.d = Written(@, [file |-> file, to |-> to]), !.plan = Append(@, [file |-> file, to |-> to])]

(***************************************************************************)
(* ChunkFileMemoryBackend: the cache.                                      *)
(***************************************************************************)
\* Variant: initialised before there is data.
write_chunk_init_first(s, c) ==
    LET k == s.cache[c]
    IN  IF ~k.dirty THEN s
        ELSE [Put(Put(Put(s, "init", k.init), "data", k.data), "meta", k.meta) EXCEPT !.cache[c].dirty = FALSE]

write_chunk(s, c) ==
    LET k == s.cache[c]
    IN  IF ~k.dirty THEN s
        ELSE [Put(Put(Put(s, "data", k.data), "init", k.init), "meta", k.meta) EXCEPT !.cache[c].dirty = FALSE]

\* Variant: the chunk that makes room is not written.
EvictUnwritten(s) ==
    LET v == Head(s.lru)
    IN  [s EXCEPT !.cache = [c \in DOMAIN @ \ {v} |-> @[c]], !.lru = Tail(@)]

\* The chunk used longest ago makes room.
Evict(s) ==
    LET v == Head(s.lru)
    IN  [write_chunk(s, v) EXCEPT !.cache = [c \in DOMAIN @ \ {v} |-> @[c]], !.lru = Tail(@)]

\* The chunk just used comes last.
Used(lru, c) == LET i == CHOOSE i \in DOMAIN lru : lru[i] = c IN Append(RemoveAt(lru, i), c)

ensure_chunk(s, c) ==
    IF c \in DOMAIN s.cache THEN [s EXCEPT !.lru = Used(@, c)]
    ELSE LET s1   == IF Cardinality(DOMAIN s.cache) < cfg.cache THEN s ELSE Evict(s)
             mine == {l \in Lines : Chunk(l) = c}
             of(f) == [l \in mine |-> f[l]]
         IN  [s1 EXCEPT !.lru = Append(@, c),
                        !.cache = With(@, c, [data |-> of(s1.d.data), init |-> of(s1.d.init),
                                              meta |-> of(s1.d.meta), dirty |-> FALSE])]

(***************************************************************************)
(* load, store, clear, flush of a back end.                                *)
(***************************************************************************)
make_line == [bytes |-> Zero(default_value_), init |-> Zero(FALSE), version |-> 0, ecc |-> <<>>, bad |-> FALSE]

\* What a load does to the back end, and the line it finds.
Reached(s, l) == IF cfg.kind = "chunk" /\ s.d.present[l] THEN ensure_chunk(s, Chunk(l)) ELSE s

load(s, l) ==
    LET at == IF cfg.kind = "chunk" /\ Chunk(l) \in DOMAIN s.cache THEN s.cache[Chunk(l)] ELSE s.d
    IN  IF ~s.d.present[l] THEN make_line
        ELSE [bytes |-> at.data[l], init |-> at.init[l], version |-> at.meta[l].version,
              ecc |-> at.meta[l].ecc, bad |-> at.meta[l].bad]

store(s, l, b) ==
    LET meta == [version |-> b.version, ecc |-> b.ecc, bad |-> b.bad]
        c    == Chunk(l)
        e    == ensure_chunk(s, c)
        s1 == IF cfg.kind = "chunk"
              THEN [e EXCEPT !.cache[c] = [data |-> [@.data EXCEPT ![l] = b.bytes], init |-> [@.init EXCEPT ![l] = b.init],
                                           meta |-> [@.meta EXCEPT ![l] = meta], dirty |-> TRUE]]
              ELSE Put(Put(Put(s, "data", At(l, b.bytes)), "init", At(l, b.init)), "meta", At(l, meta))
        s2 == IF s.d.present[l] THEN s1 ELSE [Put(s1, "present", At(l, TRUE)) EXCEPT !.allocated = @ + 1]
        is == b.version > 0
    IN  IF is = s.d.written[l] THEN s2
        ELSE [Put(s2, "written", At(l, is)) EXCEPT !.unique = IF is THEN @ + 1 ELSE @ - 1]

\* Variant: the counters are not saved.
SavedNever(s) == s

\* The counters are saved in the header.
Saved(s) == Put(s, "header", [allocated |-> s.allocated, written |-> s.unique])

\* Dirty chunks are written in any order.
flush(s, order) == IF cfg.kind = "sparse" THEN s ELSE Saved(FoldLeft(write_chunk, s, order))
Orders(s) == {s.lru, Reverse(s.lru)}

Blanked(s, file) == Put(s, file, Empty[file])

clear(s) ==
    LET lines == Blanked(Blanked(Blanked(s, "data"), "init"), "meta")
        files == Blanked(Blanked(Blanked(lines, "present"), "written"), "header")
    IN  [files EXCEPT !.cache = <<>>, !.lru = <<>>, !.allocated = 0, !.unique = 0]

(***************************************************************************)
(* SECDED: refresh_ecc_shadow, maybe_inject_ecc_error, check_ecc_shadow.   *)
(***************************************************************************)
refresh_ecc_shadow(b) == [b EXCEPT !.ecc = IF cfg.ecc THEN <<b.bytes>> ELSE <<>>, !.bad = FALSE]

maybe_inject_ecc_error(b) ==
    IF cfg.ecc /\ cfg.period > 0 /\ b.version > 0 /\ b.version % cfg.period = 0
    THEN [b EXCEPT !.bytes[1] = IF @ % 2 = 0 THEN @ + 1 ELSE @ - 1] ELSE b

check_ecc_shadow(b) ==
    IF b.ecc = <<>> \/ Head(b.ecc) = b.bytes THEN b
    ELSE IF cfg.correct THEN refresh_ecc_shadow([b EXCEPT !.bytes = Head(b.ecc)])
    ELSE [b EXCEPT !.bad = TRUE]

(***************************************************************************)
(* Row buffers.  x is the back end with the rows.                          *)
(***************************************************************************)
X == [be |-> be, rows |-> rows]

\* A column is stored at the address it was last used for.
StoreColumn(s, column) == store(s, column.base, column.block)

\* columns and row_buffers_ are unordered maps: the order is some order.
Columns(s, columns) == FoldLeft(StoreColumn, s, SetToSeq({columns[c] : c \in DOMAIN columns}))

writeback_row_buffer(x, b) ==
    IF ~x.rows[b].open THEN x
    ELSE [be |-> IF x.rows[b].dirty THEN Columns(x.be, x.rows[b].columns) ELSE x.be,
          rows |-> [x.rows EXCEPT ![b] = Closed]]

\* flush_dirty_row_buffers: rows stay open.
Flushed(x, b) ==
    IF ~x.rows[b].open \/ ~x.rows[b].dirty THEN x
    ELSE [be |-> Columns(x.be, x.rows[b].columns), rows |-> [x.rows EXCEPT ![b].dirty = FALSE]]

Hit(x, l) == x.rows[Bank(l)].open /\ x.rows[Bank(l)].row = Row(l)

\* row_buffer_block, when the row is open: a column is loaded when first used.
\* A bank knows its columns by number.
row_buffer_block(x, l) ==
    IF Column(l) \in DOMAIN x.rows[Bank(l)].columns
    THEN [x EXCEPT !.rows[Bank(l)].columns[Column(l)].base = l]
    ELSE LET s == Reached(x.be, l)
         IN  [be |-> s, rows |-> [x.rows EXCEPT ![Bank(l)].columns =
                                     With(@, Column(l), [base |-> l, block |-> load(s, l)])]]

Becomes(x) == be' = x.be /\ rows' = x.rows

(***************************************************************************)
(* Operations.                                                             *)
(***************************************************************************)
Calm == be.plan = <<>>
same == <<cfg, disk, next_version_, initialized, writes, crashes, expect, allowed, saving>>

activate_row(l) ==
    /\ Calm /\ ~Hit(X, l)
    /\ LET x == writeback_row_buffer(X, Bank(l))
       IN  Becomes([x EXCEPT !.rows[Bank(l)] = [Closed EXCEPT !.open = TRUE, !.row = Row(l)]])
    /\ UNCHANGED same

precharge_bank(b) == Calm /\ rows[b].open /\ Becomes(writeback_row_buffer(X, b)) /\ UNCHANGED same

\* The banks of a rank.
precharge_all(l) ==
    /\ Calm
    /\ LET banks == {Bank(k) : k \in {k \in Lines : cfg.place[k].rank = cfg.place[l].rank}}
       IN  Becomes(FoldLeft(writeback_row_buffer, X, SetToSeq(banks)))
    /\ UNCHANGED same

Usable(l) == cfg.online => l \in initialized

read(l) ==
    /\ Calm /\ Usable(l)
    /\ IF Hit(X, l)
       THEN LET x == row_buffer_block(X, l)
            IN  Becomes([x EXCEPT !.rows[Bank(l)].columns[Column(l)].block = check_ecc_shadow(@)])
       ELSE LET s == Reached(be, l)
                b == load(s, l)
            IN  Becomes([be |-> IF check_ecc_shadow(b) = b THEN s ELSE store(s, l, check_ecc_shadow(b)), rows |-> rows])
    /\ UNCHANGED same

\* The target with the bytes of the mask replaced.
Merged(b, v, mask) ==
    LET some == \E i \in Bytes : mask[i]
        c == [b EXCEPT !.bytes = [i \in Bytes |-> IF mask[i] THEN v ELSE @[i]],
                       !.init = [i \in Bytes |-> mask[i] \/ @[i]],
                       !.version = IF some THEN next_version_ ELSE @]
    IN  maybe_inject_ecc_error(refresh_ecc_shadow(c))

\* A write makes the row dirty, if it writes anything.
Dirties(x, l, mask) == \E i \in Bytes : mask[i]

\* write, given the coordinates or not.
Write(l, v, mask, decoded) ==
    LET s == Reached(be, l)
        x == row_buffer_block([be |-> s, rows |-> rows], l)
        allocates == [x EXCEPT !.be = IF s.d.present[l] THEN @ ELSE store(@, l, make_line)]
    IN  /\ IF decoded /\ Hit(X, l)
           THEN Becomes([allocates EXCEPT !.rows[Bank(l)].columns[Column(l)].block = Merged(@, v, mask),
                                          !.rows[Bank(l)].dirty = @ \/ Dirties(x, l, mask)])
           ELSE Becomes([be |-> store(s, l, Merged(load(s, l), v, mask)), rows |-> rows])
        /\ next_version_' = IF \E i \in Bytes : mask[i] THEN next_version_ + 1 ELSE next_version_
        /\ expect' = [expect EXCEPT ![l] = [i \in Bytes |-> IF mask[i] THEN v ELSE @[i]]]
        /\ allowed' = [allowed EXCEPT ![l] = [i \in Bytes |-> IF mask[i] THEN @[i] \union {v} ELSE @[i]]]

write(l) ==
    /\ Calm /\ Usable(l) /\ writes < cfg.writes
    /\ \E mask \in cfg.masks : Write(l, 2 * (writes + 1), mask, TRUE)
    /\ writes' = writes + 1
    /\ UNCHANGED <<cfg, disk, initialized, crashes, saving>>

\* ss_mem_submit writes zeros past the row buffers when a line is first used.
FirstUse(l) ==
    /\ Calm /\ cfg.online /\ l \notin initialized
    /\ Write(l, 0, Zero(TRUE), FALSE)
    /\ initialized' = initialized \union {l}
    /\ UNCHANGED <<cfg, disk, writes, crashes, saving>>

\* The rows that a checkpoint writes back.
FlushedAll(x) == FoldLeft(Flushed, x, SetToSeq(Banks))

\* flush_storage, and the end of finish.
Checkpoint ==
    /\ Calm
    /\ LET x == FlushedAll(X)
       IN  \E order \in Orders(x.be) : Becomes([x EXCEPT !.be = flush(@, order)])
    /\ saving' = (cfg.kind # "sparse")
    /\ UNCHANGED <<cfg, disk, next_version_, initialized, writes, crashes, expect, allowed>>

\* load_binary stores what dump_binary read; versions are not in the file.
LoadLine(s, l) == store(s, l, refresh_ecc_shadow([load(be, l) EXCEPT !.version = 0]))

\* A checkpoint file: dump_binary reads the back end, load_binary replaces it.
Reload ==
    /\ Calm /\ cfg.reload /\ \A b \in Banks : ~rows[b].dirty
    /\ LET bases == SetToSeq({l \in Lines : be.d.present[l]})
           read1 == FoldLeft(Reached, be, bases)
       IN  Becomes([be |-> FoldLeft(LoadLine, clear(read1), bases), rows |-> [b \in Banks |-> Closed]])
    /\ UNCHANGED same

\* The process does the next of its writes to the files.
Step ==
    /\ ~Calm
    /\ disk' = Written(disk, Head(be.plan))
    /\ be' = [be EXCEPT !.plan = Tail(@)]
    /\ saving' = (saving /\ Tail(be.plan) # <<>>)
    /\ allowed' = IF saving /\ Tail(be.plan) = <<>>
                  THEN [l \in Lines |-> [i \in Bytes |-> {expect[l][i]}]] ELSE allowed
    /\ UNCHANGED <<cfg, rows, next_version_, initialized, writes, crashes, expect>>

\* What the files hold.
InFiles(l, i) == IF disk.present[l] /\ disk.init[l][i] THEN disk.data[l][i] ELSE None

Restart(files) ==
    /\ validate_header_counters(files)
    /\ disk' = files /\ be' = Opened(files)
    /\ rows' = [b \in Banks |-> Closed]
    /\ next_version_' = 1 /\ saving' = FALSE
    /\ UNCHANGED <<cfg, initialized, writes, allowed>>

\* The destructor, which flushes the back end but not the rows: finish has
\* written them back.  Another run opens the files.
Reopen ==
    /\ Calm /\ cfg.kind # "sparse" /\ \A b \in Banks : ~rows[b].dirty
    /\ Restart(flush(be, be.lru).d)
    /\ UNCHANGED <<crashes, expect>>

\* The process is killed; another run opens what it left.
Crash ==
    /\ cfg.kind # "sparse" /\ crashes < cfg.crashes
    /\ Restart(disk)
    /\ crashes' = crashes + 1
    /\ expect' = [l \in Lines |-> [i \in Bytes |-> InFiles(l, i)]]

Next ==
    \/ \E l \in Lines : activate_row(l) \/ precharge_all(l) \/ read(l) \/ write(l) \/ FirstUse(l)
    \/ \E b \in Banks : precharge_bank(b)
    \/ Checkpoint \/ Reload \/ Step \/ Reopen \/ Crash

Spec == Init /\ [][Next]_vars

(***************************************************************************)
(* Properties.                                                             *)
(***************************************************************************)
\* What read would return of a line.
Visible(l) ==
    LET columns == rows[Bank(l)].columns
    IN  check_ecc_shadow(IF Hit(X, l) /\ Column(l) \in DOMAIN columns THEN columns[Column(l)].block ELSE load(be, l))

\* A read returns the bytes last written and knows those never written,
\* wherever they are - in an open row, in a cached chunk, in the files, after
\* an eviction, a checkpoint, a reload or another run - and the same for every
\* kind of back end.  An injected error is corrected, or else reported.
ReadsReturnLastWrite ==
    \A l \in Lines : \A i \in Bytes :
        LET b == Visible(l) IN (IF b.init[i] THEN b.bytes[i] ELSE None) = expect[l][i] \/ b.bad

\* At every moment the files show, for every byte, what the last completed
\* flush saved or something written since: a process that is killed, in a
\* flush or an eviction too, never leaves a byte that is initialised with a
\* value nobody wrote, nor loses what was saved.  (Not so in load_binary,
\* which clears the data before the map of what is initialised.)
FilesSound ==
    cfg.kind # "sparse" /\ ~cfg.ecc /\ ~cfg.reload =>
        \A l \in Lines : \A i \in Bytes : InFiles(l, i) \in allowed[l][i]

\* The counters of lines allocated and lines written are exact, across runs
\* that end with a flush, and validate_header_counters accepts the header at
\* every moment: wherever such a run is killed, the next one is not refused.
CountersExact ==
    crashes = 0 =>
        /\ be.allocated = Cardinality({l \in Lines : be.d.present[l]})
        /\ be.unique = Cardinality({l \in Lines : be.d.written[l]})
        /\ validate_header_counters(disk)
=============================================================================
