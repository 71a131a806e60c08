-------------------------- MODULE MemoryImageProofs --------------------------
(***************************************************************************)
(* What a memory image keeps, for any number of lines and writes and any   *)
(* cache, and where the lines lie.                                         *)
(*                                                                         *)
(* A read is right when the line is right where it is read: in the column  *)
(* that holds it, in the cached chunk, or in the files (LineRight).  Files *)
(* are sound at every moment when every write of the plan leads from sound *)
(* files to sound files (Trail): a crash can come between any two of them. *)
(* Good is what every operation keeps of a state; ImageInv says that the   *)
(* state of the image is good, and that nothing is dirty during a flush.   *)
(*                                                                         *)
(* The last part is about AddressMap, for every organization: no two       *)
(* addresses lie in one place, which is what the proofs of the image       *)
(* assume of the placement (Separate).                                     *)
(***************************************************************************)
EXTENDS MemoryImage, AddressMap, SequenceLemmas, FiniteSetTheorems, TLAPS

(***************************************************************************)
(* Types.  Without ECC no code word is ever there.                         *)
(***************************************************************************)
Word    == [Bytes -> Int]
Flags   == [Bytes -> BOOLEAN]
Ecc     == IF cfg.ecc THEN Seq(Word) ELSE {<<>>}
Bad     == IF cfg.ecc THEN BOOLEAN ELSE {FALSE}
Meta    == [version : Nat, ecc : Ecc, bad : Bad]
Block   == [bytes : Word, init : Flags, version : Nat, ecc : Ecc, bad : Bad]
Header  == [allocated : Int, written : Int]
Files   == [data : [Lines -> Word], init : [Lines -> Flags], meta : [Lines -> Meta],
            present : [Lines -> BOOLEAN], written : [Lines -> BOOLEAN], header : Header]

Part(S, V) == UNION {[D -> V] : D \in SUBSET S}

FileWrite ==
    [file : {"data"}, to : Part(Lines, Word)] \union [file : {"init"}, to : Part(Lines, Flags)]
        \union [file : {"meta"}, to : Part(Lines, Meta)]
        \union [file : {"present", "written"}, to : Part(Lines, BOOLEAN)]
        \union [file : {"header"}, to : Header]

Chunks  == {Chunk(l) : l \in Lines}
Mine(c) == {l \in Lines : Chunk(l) = c}
Cached  == [data : Part(Lines, Word), init : Part(Lines, Flags), meta : Part(Lines, Meta), dirty : BOOLEAN]
Ends    == [d : Files, plan : Seq(FileWrite), cache : Part(Chunks, Cached), lru : Seq(Chunks),
            allocated : Int, unique : Int]

\* A cached chunk has all its lines; one that is clean is as in the files.
ChunkOK(s, c) ==
    LET k == s.cache[c]
    IN  /\ DOMAIN k.data = Mine(c) /\ DOMAIN k.init = Mine(c) /\ DOMAIN k.meta = Mine(c)
        /\ ~k.dirty => \A l \in Mine(c) :
              k.data[l] = s.d.data[l] /\ k.init[l] = s.d.init[l] /\ k.meta[l] = s.d.meta[l]

\* lru lists the cached chunks, each of them once.
Listed(s) ==
    /\ \A i, j \in 1 .. Len(s.lru) : s.lru[i] = s.lru[j] => i = j
    /\ \A i \in 1 .. Len(s.lru) : s.lru[i] \in DOMAIN s.cache
    /\ \A c \in DOMAIN s.cache : cfg.kind = "chunk" /\ \E i \in 1 .. Len(s.lru) : s.lru[i] = c

EndOK(s) == s \in Ends /\ Listed(s) /\ \A c \in DOMAIN s.cache : ChunkOK(s, c)

Numbers  == {Column(l) : l \in Lines}
Column1  == [base : Lines, block : Block]
RowEntry == [open : BOOLEAN, row : {0} \union {Row(l) : l \in Lines}, dirty : BOOLEAN, columns : Part(Numbers, Column1)]

\* The columns of an open row belong to it.
RowOK(R, b) ==
    /\ ~R[b].open => ~R[b].dirty /\ DOMAIN R[b].columns = {}
    /\ \A n \in DOMAIN R[b].columns :
          LET l == R[b].columns[n].base
          IN  Bank(l) = b /\ Row(l) = R[b].row /\ Column(l) = n /\ (cfg.online => l \in initialized)

RowsOK(R) == R \in [Banks -> RowEntry] /\ \A b \in Banks : RowOK(R, b)

(***************************************************************************)
(* Contents.                                                               *)
(***************************************************************************)
Holds(R, l) == Column(l) \in DOMAIN R[Bank(l)].columns /\ R[Bank(l)].columns[Column(l)].base = l
Held(R, l)  == R[Bank(l)].columns[Column(l)].block
Shown(b, i) == IF b.init[i] THEN b.bytes[i] ELSE None

Right(b, e) == \A i \in Bytes : Shown(check_ecc_shadow(b), i) = e[i] \/ check_ecc_shadow(b).bad

\* A line is right where it is read, and in the back end unless the row is dirty.
LineRight(s, R, E, l) ==
    /\ Holds(R, l) => Right(Held(R, l), E[l])
    /\ Right(load(s, l), E[l]) \/ (Holds(R, l) /\ R[Bank(l)].dirty)

Separate(place) ==
    \A k, l \in Lines : place[k].bank = place[l].bank /\ place[k].row = place[l].row /\ place[k].column = place[l].column
                            => k = l

Covered == Separate(cfg.place) /\ (cfg.ecc => cfg.masks = {Zero(TRUE)} /\ ~cfg.reload /\ cfg.crashes = 0)

(***************************************************************************)
(* Files.                                                                  *)
(***************************************************************************)
ShownIn(f, l, i) == IF f.present[l] /\ f.init[l][i] THEN f.data[l][i] ELSE None

\* What the files show may be shown; in chunk files nothing is initialised
\* that is not present.
FilesOK(f, A) ==
    \A l \in Lines : \A i \in Bytes :
        ShownIn(f, l, i) \in A[l][i] /\ (cfg.kind = "chunk" /\ ~f.present[l] => ~f.init[l][i])

\* From the files D the writes of the plan lead to the files of s, through
\* files in F.
FileSteps(F)  == {e \in Files \X FileWrite \X Files : e[3] = Written(e[1], e[2]) /\ e[3] \in F}
Trail(s, F, D) == s.d \in F /\ D \in F /\ Leads(s.plan, FileSteps(F), D, s.d)

CacheSound(s) ==
    \A c \in DOMAIN s.cache : \A l \in Mine(c) : \A i \in Bytes :
        /\ s.d.init[l][i] => s.cache[c].init[l][i]
        /\ ~s.d.present[l] => ~s.cache[c].init[l][i]

SoundFiles(A) == {f \in Files : FilesOK(f, A)}

EndSound(s, A, D) ==
    /\ CacheSound(s) /\ Trail(s, SoundFiles(A), D)
    /\ \A l \in Lines : \A i \in Bytes : Shown(load(s, l), i) \in A[l][i]

RowsSound(s, R, A) ==
    \A l \in Lines : Holds(R, l) => \A i \in Bytes :
        (load(s, l).init[i] => Held(R, l).init[i]) /\ Shown(Held(R, l), i) \in A[l][i]

Plain == Separate(cfg.place) /\ cfg.kind # "sparse" /\ ~cfg.ecc /\ ~cfg.reload

(***************************************************************************)
(* Counters.                                                               *)
(***************************************************************************)
HeaderOK(h) == 0 <= h.written /\ h.written <= h.allocated /\ h.allocated <= Cardinality(Lines)

SaneFiles == {f \in Files : HeaderOK(f.header)}

CountOK(s, D) ==
    /\ s.allocated = Cardinality({l \in Lines : s.d.present[l]})
    /\ s.unique = Cardinality({l \in Lines : s.d.written[l]})
    /\ \A l \in Lines : s.d.written[l] => s.d.present[l]
    /\ Trail(s, SaneFiles, D)

(***************************************************************************)
(* Files.                                                                  *)
(***************************************************************************)
\* What is written replaces what was there.
LEMMA OverFacts ==
  ASSUME NEW S, NEW V, NEW t \in Part(S, V), NEW f \in [S -> V]
  PROVE  /\ Over(t, f) \in [S -> V] /\ DOMAIN t \subseteq S
         /\ \A k \in S : Over(t, f)[k] = IF k \in DOMAIN t THEN t[k] ELSE f[k]
         /\ \A k \in DOMAIN t : t[k] \in V
BY DEF Over, Part

\* A header is replaced as a whole.
LEMMA OverHeader ==
  ASSUME NEW t \in Header, NEW h \in Header
  PROVE  Over(t, h) = t
BY DEF Over, Header

\* A write of lines to the data file.
LEMMA WriteData ==
  ASSUME NEW f \in Files, NEW t \in Part(Lines, Word)
  PROVE  LET w == [file |-> "data", to |-> t]
             g == Written(f, w)
         IN  w \in FileWrite /\ g \in Files /\ g = [f EXCEPT !.data = Over(t, f.data)]
<1>1. Over(t, f.data) \in [Lines -> Word]
  BY OverFacts DEF Files
<1>2. [file |-> "data", to |-> t] \in FileWrite
  BY DEF FileWrite
<1> QED BY <1>1, <1>2 DEF Written, Files

\* A write of lines to the init file.
LEMMA WriteInits ==
  ASSUME NEW f \in Files, NEW t \in Part(Lines, Flags)
  PROVE  LET w == [file |-> "init", to |-> t]
             g == Written(f, w)
         IN  w \in FileWrite /\ g \in Files /\ g = [f EXCEPT !.init = Over(t, f.init)]
<1>1. Over(t, f.init) \in [Lines -> Flags]
  BY OverFacts DEF Files
<1>2. [file |-> "init", to |-> t] \in FileWrite
  BY DEF FileWrite
<1> QED BY <1>1, <1>2 DEF Written, Files

\* A write of lines to the meta file.
LEMMA WriteMeta ==
  ASSUME NEW f \in Files, NEW t \in Part(Lines, Meta)
  PROVE  LET w == [file |-> "meta", to |-> t]
             g == Written(f, w)
         IN  w \in FileWrite /\ g \in Files /\ g = [f EXCEPT !.meta = Over(t, f.meta)]
<1>1. Over(t, f.meta) \in [Lines -> Meta]
  BY OverFacts DEF Files
<1>2. [file |-> "meta", to |-> t] \in FileWrite
  BY DEF FileWrite
<1> QED BY <1>1, <1>2 DEF Written, Files

\* A write of lines to the present file.
LEMMA WritePresent ==
  ASSUME NEW f \in Files, NEW t \in Part(Lines, BOOLEAN)
  PROVE  LET w == [file |-> "present", to |-> t]
             g == Written(f, w)
         IN  w \in FileWrite /\ g \in Files /\ g = [f EXCEPT !.present = Over(t, f.present)]
<1>1. Over(t, f.present) \in [Lines -> BOOLEAN]
  BY OverFacts DEF Files
<1>2. [file |-> "present", to |-> t] \in FileWrite
  BY DEF FileWrite
<1> QED BY <1>1, <1>2 DEF Written, Files

\* A write of lines to the written file.
LEMMA WriteWritten ==
  ASSUME NEW f \in Files, NEW t \in Part(Lines, BOOLEAN)
  PROVE  LET w == [file |-> "written", to |-> t]
             g == Written(f, w)
         IN  w \in FileWrite /\ g \in Files /\ g = [f EXCEPT !.written = Over(t, f.written)]
<1>1. Over(t, f.written) \in [Lines -> BOOLEAN]
  BY OverFacts DEF Files
<1>2. [file |-> "written", to |-> t] \in FileWrite
  BY DEF FileWrite
<1> QED BY <1>1, <1>2 DEF Written, Files

\* A write of the header.
LEMMA WriteHeader ==
  ASSUME NEW f \in Files, NEW t \in Header
  PROVE  LET w == [file |-> "header", to |-> t]
             g == Written(f, w)
         IN  w \in FileWrite /\ g \in Files /\ g = [f EXCEPT !.header = t]
<1>1. Over(t, f.header) = t
  BY OverHeader DEF Files
<1>2. [file |-> "header", to |-> t] \in FileWrite
  BY DEF FileWrite
<1> QED BY <1>1, <1>2 DEF Written, Files

\* Any write leaves files.
LEMMA WriteAny ==
  ASSUME NEW f \in Files, NEW w \in FileWrite
  PROVE  Written(f, w) \in Files
<1>0. w = [file |-> w.file, to |-> w.to]
  BY DEF FileWrite
<1>1. CASE w.file = "data" /\ w.to \in Part(Lines, Word)
  BY <1>0, <1>1, WriteData
<1>2. CASE w.file = "init" /\ w.to \in Part(Lines, Flags)
  BY <1>0, <1>2, WriteInits
<1>3. CASE w.file = "meta" /\ w.to \in Part(Lines, Meta)
  BY <1>0, <1>3, WriteMeta
<1>4. CASE w.file = "present" /\ w.to \in Part(Lines, BOOLEAN)
  BY <1>0, <1>4, WritePresent
<1>5. CASE w.file = "written" /\ w.to \in Part(Lines, BOOLEAN)
  BY <1>0, <1>5, WriteWritten
<1>6. CASE w.file = "header" /\ w.to \in Header
  BY <1>0, <1>6, WriteHeader
<1> QED BY <1>1, <1>2, <1>3, <1>4, <1>5, <1>6 DEF FileWrite

\* r is s with one more write planned, after which the files are f.
IsPut(s, r, w, f) ==
    /\ r \in Ends /\ f \in Files /\ w \in FileWrite /\ f = Written(s.d, w)
    /\ r.d = f /\ r.plan = Append(s.plan, w)
    /\ r.cache = s.cache /\ r.lru = s.lru /\ r.allocated = s.allocated /\ r.unique = s.unique

\* A write is done in d and appended to the plan; the rest stays.
LEMMA PutFacts ==
  ASSUME NEW s \in Ends, NEW file, NEW to, [file |-> file, to |-> to] \in FileWrite
  PROVE  IsPut(s, Put(s, file, to), [file |-> file, to |-> to], Written(s.d, [file |-> file, to |-> to]))
<1> DEFINE w == [file |-> file, to |-> to]
<1>1. Written(s.d, w) \in Files
  BY WriteAny DEF Ends
<1>2. Append(s.plan, w) \in Seq(FileWrite)
  BY DEF Ends
<1> QED BY <1>1, <1>2 DEF Put, Ends, IsPut

\* A write to the data file, planned.
LEMMA PutData ==
  ASSUME NEW s \in Ends, NEW t \in Part(Lines, Word)
  PROVE  IsPut(s, Put(s, "data", t), [file |-> "data", to |-> t], [s.d EXCEPT !.data = Over(t, s.d.data)])
<1>1. s.d \in Files
  BY DEF Ends
<1>2. /\ [file |-> "data", to |-> t] \in FileWrite
      /\ Written(s.d, [file |-> "data", to |-> t]) = [s.d EXCEPT !.data = Over(t, s.d.data)]
  BY <1>1, WriteData
<1>3. IsPut(s, Put(s, "data", t), [file |-> "data", to |-> t], Written(s.d, [file |-> "data", to |-> t]))
  BY <1>2, PutFacts, Zenon
<1> QED BY <1>2, <1>3, Zenon

\* A write to the init file, planned.
LEMMA PutInits ==
  ASSUME NEW s \in Ends, NEW t \in Part(Lines, Flags)
  PROVE  IsPut(s, Put(s, "init", t), [file |-> "init", to |-> t], [s.d EXCEPT !.init = Over(t, s.d.init)])
<1>1. s.d \in Files
  BY DEF Ends
<1>2. /\ [file |-> "init", to |-> t] \in FileWrite
      /\ Written(s.d, [file |-> "init", to |-> t]) = [s.d EXCEPT !.init = Over(t, s.d.init)]
  BY <1>1, WriteInits
<1>3. IsPut(s, Put(s, "init", t), [file |-> "init", to |-> t], Written(s.d, [file |-> "init", to |-> t]))
  BY <1>2, PutFacts, Zenon
<1> QED BY <1>2, <1>3, Zenon

\* A write to the meta file, planned.
LEMMA PutMeta ==
  ASSUME NEW s \in Ends, NEW t \in Part(Lines, Meta)
  PROVE  IsPut(s, Put(s, "meta", t), [file |-> "meta", to |-> t], [s.d EXCEPT !.meta = Over(t, s.d.meta)])
<1>1. s.d \in Files
  BY DEF Ends
<1>2. /\ [file |-> "meta", to |-> t] \in FileWrite
      /\ Written(s.d, [file |-> "meta", to |-> t]) = [s.d EXCEPT !.meta = Over(t, s.d.meta)]
  BY <1>1, WriteMeta
<1>3. IsPut(s, Put(s, "meta", t), [file |-> "meta", to |-> t], Written(s.d, [file |-> "meta", to |-> t]))
  BY <1>2, PutFacts, Zenon
<1> QED BY <1>2, <1>3, Zenon

\* A write to the present file, planned.
LEMMA PutPresent ==
  ASSUME NEW s \in Ends, NEW t \in Part(Lines, BOOLEAN)
  PROVE  IsPut(s, Put(s, "present", t), [file |-> "present", to |-> t], [s.d EXCEPT !.present = Over(t, s.d.present)])
<1>1. s.d \in Files
  BY DEF Ends
<1>2. /\ [file |-> "present", to |-> t] \in FileWrite
      /\ Written(s.d, [file |-> "present", to |-> t]) = [s.d EXCEPT !.present = Over(t, s.d.present)]
  BY <1>1, WritePresent
<1>3. IsPut(s, Put(s, "present", t), [file |-> "present", to |-> t], Written(s.d, [file |-> "present", to |-> t]))
  BY <1>2, PutFacts, Zenon
<1> QED BY <1>2, <1>3, Zenon

\* A write to the written file, planned.
LEMMA PutWritten ==
  ASSUME NEW s \in Ends, NEW t \in Part(Lines, BOOLEAN)
  PROVE  IsPut(s, Put(s, "written", t), [file |-> "written", to |-> t], [s.d EXCEPT !.written = Over(t, s.d.written)])
<1>1. s.d \in Files
  BY DEF Ends
<1>2. /\ [file |-> "written", to |-> t] \in FileWrite
      /\ Written(s.d, [file |-> "written", to |-> t]) = [s.d EXCEPT !.written = Over(t, s.d.written)]
  BY <1>1, WriteWritten
<1>3. IsPut(s, Put(s, "written", t), [file |-> "written", to |-> t], Written(s.d, [file |-> "written", to |-> t]))
  BY <1>2, PutFacts, Zenon
<1> QED BY <1>2, <1>3, Zenon

\* A write to the header file, planned.
LEMMA PutHeader ==
  ASSUME NEW s \in Ends, NEW t \in Header
  PROVE  IsPut(s, Put(s, "header", t), [file |-> "header", to |-> t], [s.d EXCEPT !.header = t])
<1>1. s.d \in Files
  BY DEF Ends
<1>2. /\ [file |-> "header", to |-> t] \in FileWrite
      /\ Written(s.d, [file |-> "header", to |-> t]) = [s.d EXCEPT !.header = t]
  BY <1>1, WriteHeader
<1>3. IsPut(s, Put(s, "header", t), [file |-> "header", to |-> t], Written(s.d, [file |-> "header", to |-> t]))
  BY <1>2, PutFacts, Zenon
<1> QED BY <1>2, <1>3, Zenon

(***************************************************************************)
(* The cache.                                                              *)
(***************************************************************************)
\* What a chunk in the cache is.
LEMMA CachedFacts ==
  ASSUME NEW s, EndOK(s), NEW c \in DOMAIN s.cache
  PROVE  /\ s \in Ends /\ c \in Chunks /\ s.cache[c] \in Cached /\ s.cache[c].dirty \in BOOLEAN
         /\ s.cache[c].data \in [Mine(c) -> Word] /\ s.cache[c].data \in Part(Lines, Word)
         /\ s.cache[c].init \in [Mine(c) -> Flags] /\ s.cache[c].init \in Part(Lines, Flags)
         /\ s.cache[c].meta \in [Mine(c) -> Meta] /\ s.cache[c].meta \in Part(Lines, Meta)
<1>1. s \in Ends /\ s.cache \in Part(Chunks, Cached)
  BY DEF EndOK, Ends
<1>2. c \in Chunks /\ s.cache[c] \in Cached
  BY <1>1 DEF Part
<1>3. ChunkOK(s, c)
  BY DEF EndOK
<1> QED BY <1>1, <1>2, <1>3 DEF Cached, Part, ChunkOK

\* r is s with chunk c written: what the files then hold.
IsChunkOut(s, c, r) ==
    /\ r \in Ends /\ r.cache = [s.cache EXCEPT ![c] = [s.cache[c] EXCEPT !.dirty = FALSE]]
    /\ r.lru = s.lru /\ r.allocated = s.allocated /\ r.unique = s.unique
    /\ r.d.present = s.d.present /\ r.d.written = s.d.written /\ r.d.header = s.d.header
    /\ \A l \in Lines : r.d.data[l] = IF l \in Mine(c) THEN s.cache[c].data[l] ELSE s.d.data[l]
    /\ \A l \in Lines : r.d.init[l] = IF l \in Mine(c) THEN s.cache[c].init[l] ELSE s.d.init[l]
    /\ \A l \in Lines : r.d.meta[l] = IF l \in Mine(c) THEN s.cache[c].meta[l] ELSE s.d.meta[l]

\* write_chunk as the three writes, in their order, when the chunk is dirty.
LEMMA WriteChunkOut ==
  ASSUME NEW s, EndOK(s), NEW c \in DOMAIN s.cache
  PROVE  IsChunkOut(s, c, write_chunk(s, c))
<1> DEFINE k == s.cache[c]
           r == write_chunk(s, c)
           s1 == Put(s, "data", k.data)
           s2 == Put(s1, "init", k.init)
           s3 == Put(s2, "meta", k.meta)
<1>1. /\ s \in Ends /\ c \in Chunks /\ k \in Cached /\ k.dirty \in BOOLEAN
      /\ k.data \in [Mine(c) -> Word] /\ k.data \in Part(Lines, Word)
      /\ k.init \in [Mine(c) -> Flags] /\ k.init \in Part(Lines, Flags)
      /\ k.meta \in [Mine(c) -> Meta] /\ k.meta \in Part(Lines, Meta)
  BY CachedFacts
<1>2. CASE ~k.dirty
  <2>1. r = s /\ ChunkOK(s, c)
    BY <1>2 DEF write_chunk, EndOK
  <2>2. s.cache \in Part(Chunks, Cached)
    BY <1>1 DEF Ends
  <2>3. [k EXCEPT !.dirty = FALSE] = k
    BY <1>1, <1>2 DEF Cached
  <2>4. s.cache = [s.cache EXCEPT ![c] = [k EXCEPT !.dirty = FALSE]]
    BY <2>2, <2>3 DEF Part
  <2>5. \A l \in Mine(c) : k.data[l] = s.d.data[l] /\ k.init[l] = s.d.init[l] /\ k.meta[l] = s.d.meta[l]
    BY <2>1, <1>2 DEF ChunkOK
  <2> QED BY <1>1, <2>1, <2>4, <2>5 DEF IsChunkOut
<1>3. CASE k.dirty
  <2>1. IsPut(s, s1, [file |-> "data", to |-> k.data], [s.d EXCEPT !.data = Over(k.data, s.d.data)])
    BY <1>1, PutData, Zenon
  <2>2. s1 \in Ends
    BY <2>1 DEF IsPut
  <2>3. IsPut(s1, s2, [file |-> "init", to |-> k.init], [s1.d EXCEPT !.init = Over(k.init, s1.d.init)])
    BY <1>1, <2>2, PutInits, Zenon
  <2>31. s2 \in Ends
    BY <2>3 DEF IsPut
  <2>32. IsPut(s2, s3, [file |-> "meta", to |-> k.meta], [s2.d EXCEPT !.meta = Over(k.meta, s2.d.meta)])
    BY <1>1, <2>31, PutMeta, Zenon
  <2>4. r = [s3 EXCEPT !.cache[c].dirty = FALSE]
    BY <1>3 DEF write_chunk
  <2> HIDE DEF r, s1, s2, s3
  <2>33. s3 \in Ends /\ s3.cache = s.cache /\ s3.lru = s.lru /\ s3.allocated = s.allocated /\ s3.unique = s.unique
    BY <2>1, <2>3, <2>32 DEF IsPut
  <2>5. s3.cache \in Part(Chunks, Cached) /\ s3.cache[c] = k
    BY <2>33 DEF Ends
  <2>6. [k EXCEPT !.dirty = FALSE] \in Cached
    BY <1>1 DEF Cached
  <2> HIDE DEF k
  <2>7. [s.cache EXCEPT ![c] = [k EXCEPT !.dirty = FALSE]] \in Part(Chunks, Cached)
    BY <2>33, <2>5, <2>6 DEF Part
  <2>8. r = [s3 EXCEPT !.cache = [s.cache EXCEPT ![c] = [k EXCEPT !.dirty = FALSE]]]
    BY <2>33, <2>4, <2>5 DEF Ends
  <2>9. /\ r \in Ends /\ r.cache = [s.cache EXCEPT ![c] = [k EXCEPT !.dirty = FALSE]] /\ r.d = s3.d
        /\ r.lru = s.lru /\ r.allocated = s.allocated /\ r.unique = s.unique
    BY <2>33, <2>7, <2>8 DEF Ends
  <2>10. s.d \in Files /\ s1.d \in Files /\ s2.d \in Files /\ s3.d \in Files
    BY <1>1, <2>2, <2>31, <2>33 DEF Ends
  <2>11. /\ r.d.present = s.d.present /\ r.d.written = s.d.written /\ r.d.header = s.d.header
         /\ r.d.data = Over(k.data, s.d.data) /\ r.d.init = Over(k.init, s.d.init) /\ r.d.meta = Over(k.meta, s.d.meta)
    BY <2>1, <2>3, <2>32, <2>9, <2>10 DEF Files, IsPut
  <2>12. Mine(c) \subseteq Lines
    BY DEF Mine
  <2>13. \A l \in Lines : r.d.data[l] = IF l \in Mine(c) THEN k.data[l] ELSE s.d.data[l]
    BY <1>1, <2>10, <2>11, OverFacts DEF Files
  <2>14. \A l \in Lines : r.d.init[l] = IF l \in Mine(c) THEN k.init[l] ELSE s.d.init[l]
    BY <1>1, <2>10, <2>11, OverFacts DEF Files
  <2>15. \A l \in Lines : r.d.meta[l] = IF l \in Mine(c) THEN k.meta[l] ELSE s.d.meta[l]
    BY <1>1, <2>10, <2>11, OverFacts DEF Files
  <2> QED BY <2>9, <2>11, <2>13, <2>14, <2>15 DEF IsChunkOut, r, k
<1> QED BY <1>1, <1>2, <1>3

\* The contents are the same: every line, what is present and written, the counters.
Keeps(s, r) ==
    /\ EndOK(r) /\ \A l \in Lines : load(r, l) = load(s, l)
    /\ r.d.present = s.d.present /\ r.d.written = s.d.written
    /\ r.allocated = s.allocated /\ r.unique = s.unique

\* write_chunk changes no line that the back end shows.
LEMMA WriteChunkKeeps ==
  ASSUME NEW s, EndOK(s), NEW c \in DOMAIN s.cache
  PROVE  Keeps(s, write_chunk(s, c))
<1> DEFINE k == s.cache[c]
           r == write_chunk(s, c)
<1>1. IsChunkOut(s, c, r)
  BY WriteChunkOut
<1>2. /\ s \in Ends /\ k \in Cached /\ s.cache \in Part(Chunks, Cached)
  BY CachedFacts DEF Ends
<1> HIDE DEF r
<1>3. DOMAIN r.cache = DOMAIN s.cache /\ r.lru = s.lru
  BY <1>1 DEF IsChunkOut
<1>4. Listed(r)
  BY <1>3 DEF Listed, EndOK
<1>5. \A e \in DOMAIN s.cache : /\ r.cache[e].data = s.cache[e].data /\ r.cache[e].init = s.cache[e].init
                               /\ r.cache[e].meta = s.cache[e].meta
                               /\ r.cache[e].dirty = IF e = c THEN FALSE ELSE s.cache[e].dirty
  <2>1. \A e \in DOMAIN s.cache : r.cache[e] = IF e = c THEN [k EXCEPT !.dirty = FALSE] ELSE s.cache[e]
    BY <1>1 DEF IsChunkOut
  <2>2. /\ [k EXCEPT !.dirty = FALSE].data = k.data /\ [k EXCEPT !.dirty = FALSE].init = k.init
        /\ [k EXCEPT !.dirty = FALSE].meta = k.meta /\ [k EXCEPT !.dirty = FALSE].dirty = FALSE
    BY <1>2 DEF Cached
  <2> HIDE DEF k
  <2> QED BY <2>1, <2>2 DEF k
<1>6. ASSUME NEW e \in DOMAIN s.cache PROVE ChunkOK(r, e)
  <2>1. ChunkOK(s, e)
    BY DEF EndOK
  <2>2. CASE e = c
    <3>1. Mine(c) \subseteq Lines
      BY DEF Mine
    <3> QED BY <1>1, <1>5, <2>1, <2>2, <3>1 DEF ChunkOK, IsChunkOut
  <2>3. CASE e # c
    <3>1. \A l \in Mine(e) : l \in Lines /\ l \notin Mine(c)
      BY <2>3 DEF Mine
    <3>2. \A l \in Mine(e) : r.d.data[l] = s.d.data[l] /\ r.d.init[l] = s.d.init[l] /\ r.d.meta[l] = s.d.meta[l]
      BY <1>1, <3>1 DEF IsChunkOut
    <3>3. /\ r.cache[e].data = s.cache[e].data /\ r.cache[e].init = s.cache[e].init
          /\ r.cache[e].meta = s.cache[e].meta /\ r.cache[e].dirty = s.cache[e].dirty
      BY <1>5, <2>3
    <3> QED BY <2>1, <3>2, <3>3 DEF ChunkOK
  <2> QED BY <2>2, <2>3
<1>7. EndOK(r)
  BY <1>1, <1>3, <1>4, <1>6 DEF EndOK, IsChunkOut
<1>8. ASSUME NEW l \in Lines PROVE load(r, l) = load(s, l)
  <2>1. r.d.present = s.d.present
    BY <1>1 DEF IsChunkOut
  <2>2. CASE cfg.kind = "chunk" /\ Chunk(l) \in DOMAIN s.cache
    BY <1>3, <1>5, <2>1, <2>2 DEF load
  <2>3. CASE ~(cfg.kind = "chunk" /\ Chunk(l) \in DOMAIN s.cache)
    <3>1. cfg.kind = "chunk"
      BY DEF EndOK, Listed
    <3>2. l \notin Mine(c)
      BY <2>3, <3>1 DEF Mine
    <3>3. r.d.data[l] = s.d.data[l] /\ r.d.init[l] = s.d.init[l] /\ r.d.meta[l] = s.d.meta[l]
      BY <1>1, <3>2 DEF IsChunkOut
    <3> QED BY <1>3, <2>1, <2>3, <3>3 DEF load
  <2> QED BY <2>2, <2>3
<1> QED BY <1>1, <1>7, <1>8 DEF Keeps, IsChunkOut, r

\* The chunk used longest ago leaves the cache.
LEMMA EvictKeeps ==
  ASSUME NEW s, EndOK(s), s.lru # <<>>
  PROVE  /\ Keeps(s, Evict(s)) /\ Evict(s).d = write_chunk(s, Head(s.lru)).d
         /\ Evict(s).plan = write_chunk(s, Head(s.lru)).plan
         /\ Evict(s).cache = [c \in DOMAIN s.cache \ {Head(s.lru)} |-> s.cache[c]]
<1> DEFINE v == Head(s.lru)
           w == write_chunk(s, v)
           r == Evict(s)
           left == [c \in DOMAIN w.cache \ {v} |-> w.cache[c]]
<1>1. s \in Ends /\ s.lru \in Seq(Chunks) /\ s.cache \in Part(Chunks, Cached)
  BY DEF EndOK, Ends
<1>2. v \in DOMAIN s.cache /\ v = s.lru[1] /\ Len(s.lru) \in Nat \ {0}
  <2>1. v = s.lru[1] /\ Len(s.lru) \in Nat \ {0}
    BY <1>1, HeadTail
  <2>2. 1 \in 1 .. Len(s.lru)
    BY <2>1
  <2> QED BY <2>1, <2>2 DEF EndOK, Listed
<1> HIDE DEF v
<1>3. Keeps(s, w) /\ IsChunkOut(s, v, w)
  BY <1>2, WriteChunkKeeps, WriteChunkOut
<1>4. r = [w EXCEPT !.cache = left, !.lru = Tail(w.lru)]
  BY DEF Evict, v
<1> HIDE DEF w, r
<1>5. EndOK(w) /\ w \in Ends /\ w.lru = s.lru /\ DOMAIN w.cache = DOMAIN s.cache /\ w.cache \in Part(Chunks, Cached)
  BY <1>3 DEF Keeps, IsChunkOut, EndOK, Ends
<1>6. \A c \in DOMAIN s.cache \ {v} : w.cache[c] = s.cache[c]
  BY <1>1, <1>2, <1>3 DEF IsChunkOut
<1>7. left = [c \in DOMAIN s.cache \ {v} |-> s.cache[c]]
  BY <1>5, <1>6
<1> HIDE DEF left
<1>8. left \in Part(Chunks, Cached) /\ DOMAIN left = DOMAIN s.cache \ {v}
  <2>1. DOMAIN s.cache \ {v} \in SUBSET Chunks /\ \A c \in DOMAIN s.cache : s.cache[c] \in Cached
    BY <1>1 DEF Part
  <2>2. left \in [DOMAIN s.cache \ {v} -> Cached]
    BY <1>7, <2>1
  <2> QED BY <2>1, <2>2 DEF Part
<1>9. /\ Tail(s.lru) \in Seq(Chunks) /\ Len(Tail(s.lru)) = Len(s.lru) - 1
      /\ \A i \in 1 .. (Len(s.lru) - 1) : Tail(s.lru)[i] = s.lru[i + 1]
  BY <1>1, HeadTail
<1>10. /\ r \in Ends /\ r.cache = left /\ r.lru = Tail(s.lru) /\ r.d = w.d /\ r.plan = w.plan
       /\ r.allocated = w.allocated /\ r.unique = w.unique
  BY <1>4, <1>5, <1>8, <1>9 DEF Ends
<1>11. Listed(r)
  <2>1. /\ \A i, j \in 1 .. Len(s.lru) : s.lru[i] = s.lru[j] => i = j
        /\ \A i \in 1 .. Len(s.lru) : s.lru[i] \in DOMAIN s.cache
        /\ \A c \in DOMAIN s.cache : cfg.kind = "chunk" /\ \E i \in 1 .. Len(s.lru) : s.lru[i] = c
    BY DEF EndOK, Listed
  <2>2. \A i, j \in 1 .. Len(r.lru) : r.lru[i] = r.lru[j] => i = j
    <3> SUFFICES ASSUME NEW i \in 1 .. Len(r.lru), NEW j \in 1 .. Len(r.lru), r.lru[i] = r.lru[j] PROVE i = j
      OBVIOUS
    <3>1. i + 1 \in 1 .. Len(s.lru) /\ j + 1 \in 1 .. Len(s.lru) /\ s.lru[i + 1] = s.lru[j + 1]
      BY <1>2, <1>9, <1>10
    <3>2. i + 1 = j + 1
      BY <2>1, <3>1
    <3> QED BY <1>2, <1>9, <1>10, <3>2
  <2>3. ASSUME NEW i \in 1 .. Len(r.lru) PROVE r.lru[i] \in DOMAIN r.cache
    <3>1. i + 1 \in 1 .. Len(s.lru) /\ r.lru[i] = s.lru[i + 1] /\ 1 \in 1 .. Len(s.lru) /\ i + 1 # 1
      BY <1>2, <1>9, <1>10
    <3>2. s.lru[i + 1] # s.lru[1]
      BY <2>1, <3>1
    <3> QED BY <1>2, <1>8, <1>10, <2>1, <3>1, <3>2
  <2>4. ASSUME NEW c \in DOMAIN r.cache PROVE cfg.kind = "chunk" /\ \E i \in 1 .. Len(r.lru) : r.lru[i] = c
    <3>1. c \in DOMAIN s.cache /\ c # v
      BY <1>8, <1>10
    <3>2. PICK i \in 1 .. Len(s.lru) : s.lru[i] = c
      BY <2>1, <3>1
    <3>3. i # 1
      BY <1>2, <3>1, <3>2
    <3>4. i - 1 \in 1 .. Len(r.lru) /\ r.lru[i - 1] = c
      BY <1>2, <1>9, <1>10, <3>2, <3>3
    <3> QED BY <2>1, <3>1, <3>4
  <2> QED BY <2>2, <2>3, <2>4 DEF Listed
<1>12. ASSUME NEW c \in DOMAIN r.cache PROVE ChunkOK(r, c)
  <2>1. c \in DOMAIN w.cache /\ r.cache[c] = w.cache[c]
    BY <1>5, <1>6, <1>7, <1>10
  <2>2. ChunkOK(w, c)
    BY <1>5, <2>1 DEF EndOK
  <2> QED BY <1>10, <2>1, <2>2 DEF ChunkOK
<1>13. EndOK(r)
  BY <1>10, <1>11, <1>12 DEF EndOK
<1>14. ASSUME NEW l \in Lines PROVE load(r, l) = load(w, l)
  <2>1. CASE Chunk(l) # v
    <3>1. Chunk(l) \in DOMAIN r.cache <=> Chunk(l) \in DOMAIN w.cache
      BY <1>5, <1>8, <1>10, <2>1
    <3>2. Chunk(l) \in DOMAIN w.cache => r.cache[Chunk(l)] = w.cache[Chunk(l)]
      BY <1>5, <1>6, <1>7, <1>10, <2>1
    <3> QED BY <1>10, <3>1, <3>2 DEF load
  <2>2. CASE Chunk(l) = v
    <3>1. l \in Mine(v) /\ v \in DOMAIN w.cache /\ v \notin DOMAIN r.cache
      BY <1>2, <1>5, <1>8, <1>10, <2>2 DEF Mine
    <3>2. ChunkOK(w, v) /\ ~w.cache[v].dirty
      <4>1. w.cache[v] = [s.cache[v] EXCEPT !.dirty = FALSE]
        BY <1>1, <1>2, <1>3 DEF IsChunkOut
      <4>2. s.cache[v] \in Cached
        BY <1>2, CachedFacts
      <4> QED BY <1>5, <3>1, <4>1, <4>2 DEF EndOK, Cached
    <3>3. w.cache[v].data[l] = w.d.data[l] /\ w.cache[v].init[l] = w.d.init[l] /\ w.cache[v].meta[l] = w.d.meta[l]
      BY <3>1, <3>2 DEF ChunkOK
    <3> QED BY <1>10, <2>2, <3>1, <3>3 DEF load
  <2> QED BY <2>1, <2>2
<1> QED BY <1>3, <1>7, <1>10, <1>13, <1>14 DEF Keeps, r, v, w

Distinct(q)     == \A i, j \in 1 .. Len(q) : q[i] = q[j] => i = j
SameItems(u, q) == /\ \A i \in 1 .. Len(u) : \E j \in 1 .. Len(q) : u[i] = q[j]
                   /\ \A i \in 1 .. Len(q) : \E j \in 1 .. Len(u) : u[j] = q[i]

\* The chunk just used comes last; the list has the same chunks.
LEMMA UsedFacts ==
  ASSUME NEW S, NEW q \in Seq(S), NEW p \in 1 .. Len(q),
         Distinct(q), NEW u, u = Used(q, q[p])
  PROVE  u \in Seq(S) /\ Distinct(u) /\ SameItems(u, q)
<1> DEFINE m == CHOOSE i \in DOMAIN q : q[i] = q[p]
           t == RemoveAt(q, p)
<1>1. Len(q) \in Nat /\ DOMAIN q = 1 .. Len(q) /\ q[p] \in S
  OBVIOUS
<1>2. m = p
  BY <1>1 DEF Distinct
<1>3. u = Append(t, q[p])
  BY <1>2 DEF Used
<1>4. /\ t \in Seq(S) /\ Len(t) = Len(q) - 1
      /\ \A j \in 1 .. (Len(q) - 1) : t[j] = IF j < p THEN q[j] ELSE q[j + 1]
  BY RemoveAtFacts
<1> HIDE DEF t
<1>50. PICK n \in Nat : n = Len(q) /\ p \in 1 .. n
  BY <1>1
<1>51. /\ u \in Seq(S) /\ Len(u) = Len(t) + 1 /\ u[Len(t) + 1] = q[p]
       /\ \A i \in 1 .. Len(t) : u[i] = t[i]
  <2>1. /\ Append(t, q[p]) \in Seq(S) /\ Len(Append(t, q[p])) = Len(t) + 1
        /\ Append(t, q[p])[Len(t) + 1] = q[p] /\ \A i \in 1 .. Len(t) : Append(t, q[p])[i] = t[i]
    <3>1. t \in Seq(S) /\ q[p] \in S
      BY <1>1, <1>4
    <3> QED BY <3>1, Appended
  <2> QED BY <1>3, <2>1, Zenon
<1>52. Len(t) + 1 = n /\ Len(t) = n - 1
  BY <1>4, <1>50
<1>53. u \in Seq(S) /\ Len(u) = n /\ u[n] = q[p]
  BY <1>51, <1>52
<1>5. \A j \in 1 .. (n - 1) : u[j] = IF j < p THEN q[j] ELSE q[j + 1]
  BY <1>4, <1>50, <1>51, <1>52
<1> DEFINE pos(j) == IF j = n THEN p ELSE IF j < p THEN j ELSE j + 1
<1>6. ASSUME NEW j \in 1 .. n PROVE pos(j) \in 1 .. n /\ u[j] = q[pos(j)]
  <2>1. CASE j = n
    BY <1>50, <1>53, <2>1
  <2>2. CASE j # n
    <3>1. j \in 1 .. (n - 1)
      BY <2>2
    <3>2. u[j] = IF j < p THEN q[j] ELSE q[j + 1]
      BY <1>5, <3>1
    <3> QED BY <1>50, <2>2, <3>1, <3>2
  <2> QED BY <2>1, <2>2
<1>7. ASSUME NEW i \in 1 .. n, NEW j \in 1 .. n, pos(i) = pos(j) PROVE i = j
  BY <1>50, <1>7
<1>8. ASSUME NEW i \in 1 .. n PROVE \E j \in 1 .. n : pos(j) = i
  <2>1. CASE i = p
    <3>1. pos(n) = i /\ n \in 1 .. n
      BY <1>50, <2>1
    <3> QED BY <3>1
  <2>2. CASE i < p
    <3>1. pos(i) = i
      BY <1>50, <2>2
    <3> QED BY <3>1
  <2>3. CASE i > p
    <3>1. pos(i - 1) = i /\ i - 1 \in 1 .. n
      BY <1>50, <2>3
    <3> QED BY <3>1
  <2>4. i = p \/ i < p \/ i > p
    BY <1>50
  <2> QED BY <2>1, <2>2, <2>3, <2>4
<1> HIDE DEF pos
<1>9. ASSUME NEW i \in 1 .. Len(u), NEW j \in 1 .. Len(u), u[i] = u[j] PROVE i = j
  <2>1. i \in 1 .. n /\ j \in 1 .. n
    BY <1>53
  <2>2. /\ pos(i) \in 1 .. Len(q) /\ pos(j) \in 1 .. Len(q)
        /\ q[pos(i)] = q[pos(j)]
    BY <1>50, <1>6, <1>9, <2>1
  <2>3. pos(i) = pos(j)
    BY <2>2 DEF Distinct
  <2> QED BY <1>7, <2>1, <2>3
<1>10. \A i \in 1 .. Len(q) : \E j \in 1 .. Len(u) : u[j] = q[i]
  BY <1>50, <1>53, <1>6, <1>8
<1>11. \A i \in 1 .. Len(u) : \E j \in 1 .. Len(q) : u[i] = q[j]
  BY <1>50, <1>53, <1>6
<1> QED BY <1>53, <1>9, <1>10, <1>11 DEF Distinct, SameItems

\* What a chunk is when it has just been read from the files.
Fetched(s, c) ==
    [data |-> [l \in Mine(c) |-> s.d.data[l]], init |-> [l \in Mine(c) |-> s.d.init[l]],
     meta |-> [l \in Mine(c) |-> s.d.meta[l]], dirty |-> FALSE]

\* A chunk that was not in the cache is.
LEMMA FetchKeeps ==
  ASSUME NEW s, EndOK(s), NEW c \in Chunks, c \notin DOMAIN s.cache, cfg.kind = "chunk"
  PROVE  LET r == [s EXCEPT !.lru = Append(@, c), !.cache = With(@, c, Fetched(s, c))]
         IN  /\ Keeps(s, r) /\ c \in DOMAIN r.cache /\ r.d = s.d /\ r.plan = s.plan
             /\ r.cache = With(s.cache, c, Fetched(s, c))
<1> DEFINE k == Fetched(s, c)
           new == With(s.cache, c, k)
           r == [s EXCEPT !.lru = Append(@, c), !.cache = With(@, c, k)]
<1>1. s \in Ends /\ s.lru \in Seq(Chunks) /\ s.cache \in Part(Chunks, Cached) /\ s.d \in Files
  BY DEF EndOK, Ends
<1>2. Mine(c) \subseteq Lines
  BY DEF Mine
<1>3. k \in Cached
  <2>1. k.data \in [Mine(c) -> Word] /\ k.init \in [Mine(c) -> Flags] /\ k.meta \in [Mine(c) -> Meta]
    BY <1>1, <1>2 DEF Files, Fetched
  <2>2. k.data \in Part(Lines, Word) /\ k.init \in Part(Lines, Flags) /\ k.meta \in Part(Lines, Meta)
    BY <1>2, <2>1 DEF Part
  <2> QED BY <2>2 DEF Cached, Fetched
<1>4. /\ k.dirty = FALSE /\ DOMAIN k.data = Mine(c) /\ DOMAIN k.init = Mine(c) /\ DOMAIN k.meta = Mine(c)
      /\ \A l \in Mine(c) : k.data[l] = s.d.data[l] /\ k.init[l] = s.d.init[l] /\ k.meta[l] = s.d.meta[l]
  BY DEF Fetched
<1> HIDE DEF k
<1>5. /\ DOMAIN new = DOMAIN s.cache \union {c} /\ new[c] = k /\ \A e \in DOMAIN s.cache : new[e] = s.cache[e]
      /\ new \in Part(Chunks, Cached)
  <2>1. /\ DOMAIN new = DOMAIN s.cache \union {c} /\ new[c] = k /\ \A e \in DOMAIN s.cache : new[e] = s.cache[e]
    BY DEF With
  <2>2. DOMAIN s.cache \in SUBSET Chunks /\ \A e \in DOMAIN s.cache : s.cache[e] \in Cached
    BY <1>1 DEF Part
  <2>3. new \in [DOMAIN s.cache \union {c} -> Cached]
    BY <1>3, <2>1, <2>2 DEF With
  <2> QED BY <2>1, <2>2, <2>3 DEF Part
<1> HIDE DEF new
<1>6. /\ Append(s.lru, c) \in Seq(Chunks) /\ Len(Append(s.lru, c)) = Len(s.lru) + 1 /\ Len(s.lru) \in Nat
      /\ Append(s.lru, c)[Len(s.lru) + 1] = c
      /\ \A i \in 1 .. Len(s.lru) : Append(s.lru, c)[i] = s.lru[i]
  BY <1>1, Appended
<1>7. /\ r \in Ends /\ r.cache = new /\ r.lru = Append(s.lru, c) /\ r.d = s.d /\ r.plan = s.plan
      /\ r.allocated = s.allocated /\ r.unique = s.unique
  BY <1>1, <1>5, <1>6 DEF Ends, new
<1> HIDE DEF r
<1>8. Listed(r)
  <2>1. /\ \A i, j \in 1 .. Len(s.lru) : s.lru[i] = s.lru[j] => i = j
        /\ \A i \in 1 .. Len(s.lru) : s.lru[i] \in DOMAIN s.cache
        /\ \A e \in DOMAIN s.cache : \E i \in 1 .. Len(s.lru) : s.lru[i] = e
    BY DEF EndOK, Listed
  <2>2. \A i \in 1 .. Len(s.lru) : s.lru[i] # c
    BY <2>1
  <2>3. ASSUME NEW i \in 1 .. Len(r.lru), NEW j \in 1 .. Len(r.lru), r.lru[i] = r.lru[j] PROVE i = j
    BY <1>6, <1>7, <2>1, <2>2, <2>3
  <2>4. ASSUME NEW i \in 1 .. Len(r.lru) PROVE r.lru[i] \in DOMAIN r.cache
    BY <1>5, <1>6, <1>7, <2>1
  <2>5. ASSUME NEW e \in DOMAIN r.cache PROVE \E i \in 1 .. Len(r.lru) : r.lru[i] = e
    <3>1. CASE e = c
      <4>1. Len(s.lru) + 1 \in 1 .. Len(r.lru)
        BY <1>6, <1>7
      <4> QED BY <1>6, <1>7, <3>1, <4>1
    <3>2. CASE e \in DOMAIN s.cache
      <4>1. PICK i \in 1 .. Len(s.lru) : s.lru[i] = e
        BY <2>1, <3>2
      <4>2. i \in 1 .. Len(r.lru) /\ r.lru[i] = e
        BY <1>6, <1>7, <4>1
      <4> QED BY <4>2
    <3> QED BY <1>5, <1>7, <3>1, <3>2
  <2> QED BY <2>3, <2>4, <2>5 DEF Listed
<1>9. ASSUME NEW e \in DOMAIN r.cache PROVE ChunkOK(r, e)
  <2>1. CASE e = c
    BY <1>4, <1>5, <1>7, <2>1 DEF ChunkOK
  <2>2. CASE e # c
    <3>1. e \in DOMAIN s.cache /\ r.cache[e] = s.cache[e]
      BY <1>5, <1>7, <2>2
    <3>2. ChunkOK(s, e)
      BY <3>1 DEF EndOK
    <3> QED BY <1>7, <3>1, <3>2 DEF ChunkOK
  <2> QED BY <2>1, <2>2
<1>10. EndOK(r)
  BY <1>7, <1>8, <1>9 DEF EndOK
<1>11. ASSUME NEW l \in Lines PROVE load(r, l) = load(s, l)
  <2>1. CASE Chunk(l) # c
    <3>1. Chunk(l) \in DOMAIN r.cache <=> Chunk(l) \in DOMAIN s.cache
      BY <1>5, <1>7, <2>1
    <3>2. Chunk(l) \in DOMAIN s.cache => r.cache[Chunk(l)] = s.cache[Chunk(l)]
      BY <1>5, <1>7
    <3> QED BY <1>7, <3>1, <3>2 DEF load
  <2>2. CASE Chunk(l) = c
    <3>1. l \in Mine(c) /\ c \in DOMAIN r.cache /\ r.cache[c] = k
      BY <1>5, <1>7, <2>2 DEF Mine
    <3> QED BY <1>4, <1>7, <2>2, <3>1 DEF load
  <2> QED BY <2>1, <2>2
<1> QED BY <1>5, <1>7, <1>10, <1>11 DEF Keeps, r, new, k

\* ensure_chunk keeps the contents and has the chunk in the cache.
LEMMA EnsureKeeps ==
  ASSUME NEW s, EndOK(s), NEW c \in Chunks, cfg.kind = "chunk", cfg.cache \in Nat \ {0}
  PROVE  Keeps(s, ensure_chunk(s, c)) /\ c \in DOMAIN ensure_chunk(s, c).cache
<1> DEFINE r == ensure_chunk(s, c)
<1>1. CASE c \in DOMAIN s.cache
  <2>1. s \in Ends /\ s.lru \in Seq(Chunks)
    BY DEF EndOK, Ends
  <2>2. /\ \A i, j \in 1 .. Len(s.lru) : s.lru[i] = s.lru[j] => i = j
        /\ \A i \in 1 .. Len(s.lru) : s.lru[i] \in DOMAIN s.cache
        /\ \A e \in DOMAIN s.cache : cfg.kind = "chunk" /\ \E i \in 1 .. Len(s.lru) : s.lru[i] = e
    BY DEF EndOK, Listed
  <2>3. PICK p \in 1 .. Len(s.lru) : s.lru[p] = c
    BY <1>1, <2>2
  <2> DEFINE u == Used(s.lru, c)
  <2>31. u = Used(s.lru, s.lru[p])
    BY <2>3
  <2> HIDE DEF u
  <2>4. /\ u \in Seq(Chunks) /\ \A i, j \in 1 .. Len(u) : u[i] = u[j] => i = j
        /\ \A i \in 1 .. Len(u) : \E j \in 1 .. Len(s.lru) : u[i] = s.lru[j]
        /\ \A i \in 1 .. Len(s.lru) : \E j \in 1 .. Len(u) : u[j] = s.lru[i]
    <3>1. PICK q \in Seq(Chunks) : q = s.lru
      BY <2>1
    <3>2. p \in 1 .. Len(q) /\ u = Used(q, q[p]) /\ Distinct(q)
      BY <2>2, <2>31, <3>1, Zenon DEF Distinct
    <3>3. u \in Seq(Chunks) /\ Distinct(u) /\ SameItems(u, q)
      BY <3>2, UsedFacts, Zenon
    <3> QED BY <3>1, <3>3, Zenon DEF Distinct, SameItems
  <2>5. r = [s EXCEPT !.lru = u]
    BY <1>1 DEF ensure_chunk, u
  <2> HIDE DEF r
  <2>6. /\ r \in Ends /\ r.lru = u /\ r.cache = s.cache /\ r.d = s.d /\ r.plan = s.plan
        /\ r.allocated = s.allocated /\ r.unique = s.unique
    BY <2>1, <2>4, <2>5 DEF Ends
  <2>7. Listed(r)
    <3>1. ASSUME NEW i \in 1 .. Len(u) PROVE u[i] \in DOMAIN s.cache
      <4>1. PICK j \in 1 .. Len(s.lru) : u[i] = s.lru[j]
        BY <2>4
      <4> QED BY <2>2, <4>1
    <3>2. ASSUME NEW e \in DOMAIN s.cache PROVE \E j \in 1 .. Len(u) : u[j] = e
      <4>1. PICK i \in 1 .. Len(s.lru) : s.lru[i] = e
        BY <2>2
      <4> QED BY <2>4, <4>1
    <3> QED BY <2>4, <2>6, <3>1, <3>2 DEF Listed
  <2>8. ASSUME NEW e \in DOMAIN s.cache PROVE ChunkOK(r, e)
    BY <2>6 DEF EndOK, ChunkOK
  <2>9. \A l \in Lines : load(r, l) = load(s, l)
    BY <2>6 DEF load
  <2> QED BY <1>1, <2>6, <2>7, <2>8, <2>9 DEF Keeps, EndOK, r
<1>2. CASE c \notin DOMAIN s.cache
  <2> DEFINE s1 == IF Cardinality(DOMAIN s.cache) < cfg.cache THEN s ELSE Evict(s)
             r1 == [s1 EXCEPT !.lru = Append(@, c), !.cache = With(@, c, Fetched(s1, c))]
  <2>1. r = r1
    BY <1>2 DEF ensure_chunk, Fetched, Mine
  <2>2. Keeps(s, s1) /\ c \notin DOMAIN s1.cache
    <3>1. CASE Cardinality(DOMAIN s.cache) < cfg.cache
      BY <1>2, <3>1 DEF Keeps
    <3>2. CASE ~(Cardinality(DOMAIN s.cache) < cfg.cache)
      <4>1. DOMAIN s.cache # {}
        <5> SUFFICES ASSUME DOMAIN s.cache = {} PROVE FALSE
          OBVIOUS
        <5>1. Cardinality(DOMAIN s.cache) = 0
          BY FS_EmptySet
        <5> QED BY <3>2, <5>1
      <4>2. s.lru # <<>>
        BY <4>1 DEF EndOK, Listed
      <4>3. Keeps(s, Evict(s)) /\ Evict(s).cache = [e \in DOMAIN s.cache \ {Head(s.lru)} |-> s.cache[e]]
        BY <4>2, EvictKeeps
      <4> QED BY <1>2, <3>2, <4>3
    <3> QED BY <3>1, <3>2
  <2> HIDE DEF s1
  <2>3. EndOK(s1)
    BY <2>2 DEF Keeps
  <2>4. Keeps(s1, r1) /\ c \in DOMAIN r1.cache
    BY <2>2, <2>3, FetchKeeps
  <2> HIDE DEF r1, r
  <2> QED BY <2>1, <2>2, <2>4 DEF Keeps, r
<1> QED BY <1>1, <1>2

\* A load keeps the contents.
LEMMA ReachedKeeps ==
  ASSUME NEW s, EndOK(s), NEW l \in Lines, cfg.cache \in Nat \ {0}
  PROVE  Keeps(s, Reached(s, l))
<1>1. CASE cfg.kind = "chunk" /\ s.d.present[l]
  <2>1. Chunk(l) \in Chunks
    BY DEF Chunks
  <2> QED BY <1>1, <2>1, EnsureKeeps DEF Reached
<1>2. CASE ~(cfg.kind = "chunk" /\ s.d.present[l])
  BY <1>2 DEF Reached, Keeps
<1> QED BY <1>1, <1>2

\* The contents are kept by steps that keep them.
LEMMA KeepsChain ==
  ASSUME NEW s, NEW t, NEW r, Keeps(s, t), Keeps(t, r)
  PROVE  Keeps(s, r)
BY DEF Keeps

\* A line that is loaded is a block.
LEMMA LoadType ==
  ASSUME NEW s, EndOK(s), NEW l \in Lines
  PROVE  load(s, l) \in Block
<1>1. s \in Ends /\ s.d \in Files
  BY DEF EndOK, Ends
<1>2. make_line \in Block
  <2>1. Zero(default_value_) \in Word /\ Zero(FALSE) \in Flags
    BY DEF Zero, default_value_, Word, Flags
  <2>2. <<>> \in Ecc /\ FALSE \in Bad
    <3>1. <<>> \in Seq(Word)
      OBVIOUS
    <3>2. <<>> \in Ecc
      BY <3>1 DEF Ecc
    <3>3. FALSE \in Bad
      BY Zenon DEF Bad
    <3> QED BY <3>2, <3>3
  <2> QED BY <2>1, <2>2 DEF make_line, Block
<1>3. CASE ~s.d.present[l]
  BY <1>2, <1>3 DEF load
<1>4. CASE s.d.present[l] /\ cfg.kind = "chunk" /\ Chunk(l) \in DOMAIN s.cache
  <2> DEFINE k == s.cache[Chunk(l)]
  <2>1. k.data[l] \in Word /\ k.init[l] \in Flags /\ k.meta[l] \in Meta
    <3>1. l \in Mine(Chunk(l))
      BY DEF Mine
    <3>2. /\ k.data \in [Mine(Chunk(l)) -> Word] /\ k.init \in [Mine(Chunk(l)) -> Flags]
          /\ k.meta \in [Mine(Chunk(l)) -> Meta]
      BY <1>4, CachedFacts
    <3> HIDE DEF k
    <3> QED BY <3>1, <3>2
  <2>2. load(s, l) = [bytes |-> k.data[l], init |-> k.init[l], version |-> k.meta[l].version,
                      ecc |-> k.meta[l].ecc, bad |-> k.meta[l].bad]
    BY <1>4 DEF load
  <2> QED BY <2>1, <2>2 DEF Block, Meta
<1>5. CASE s.d.present[l] /\ ~(cfg.kind = "chunk" /\ Chunk(l) \in DOMAIN s.cache)
  <2>1. s.d.data[l] \in Word /\ s.d.init[l] \in Flags /\ s.d.meta[l] \in Meta
    BY <1>1 DEF Files
  <2>2. load(s, l) = [bytes |-> s.d.data[l], init |-> s.d.init[l], version |-> s.d.meta[l].version,
                      ecc |-> s.d.meta[l].ecc, bad |-> s.d.meta[l].bad]
    BY <1>5 DEF load
  <2> QED BY <2>1, <2>2 DEF Block, Meta
<1> QED BY <1>3, <1>4, <1>5

(***************************************************************************)
(* store.                                                                  *)
(***************************************************************************)
\* What a back end holds of a line, present or not.
Raw(s, l) ==
    LET at == IF cfg.kind = "chunk" /\ Chunk(l) \in DOMAIN s.cache THEN s.cache[Chunk(l)] ELSE s.d
    IN  [bytes |-> at.data[l], init |-> at.init[l], version |-> at.meta[l].version,
         ecc |-> at.meta[l].ecc, bad |-> at.meta[l].bad]

\* load is the raw line when it is present.
LEMMA LoadRaw ==
  ASSUME NEW s, NEW l
  PROVE  load(s, l) = IF ~s.d.present[l] THEN make_line ELSE Raw(s, l)
BY DEF load, Raw

MetaOf(b) == [version |-> b.version, ecc |-> b.ecc, bad |-> b.bad]

\* The first part of store: the line, in the cache or in the files.
Kept(s, l, b) ==
    IF cfg.kind = "chunk"
    THEN [ensure_chunk(s, Chunk(l)) EXCEPT !.cache[Chunk(l)] =
             [data |-> [@.data EXCEPT ![l] = b.bytes], init |-> [@.init EXCEPT ![l] = b.init],
              meta |-> [@.meta EXCEPT ![l] = MetaOf(b)], dirty |-> TRUE]]
    ELSE Put(Put(Put(s, "data", At(l, b.bytes)), "init", At(l, b.init)), "meta", At(l, MetaOf(b)))

\* The second: the line is present.
MadePresent(s, t, l) ==
    IF s.d.present[l] THEN t ELSE [Put(t, "present", At(l, TRUE)) EXCEPT !.allocated = @ + 1]

\* The third: it is written, or no longer.
MadeWritten(s, t, l, is) ==
    IF is = s.d.written[l] THEN t
    ELSE [Put(t, "written", At(l, is)) EXCEPT !.unique = IF is THEN @ + 1 ELSE @ - 1]

\* store is its three parts one after the other.
LEMMA StoreParts ==
  ASSUME NEW s, NEW l, NEW b
  PROVE  store(s, l, b) = MadeWritten(s, MadePresent(s, Kept(s, l, b), l), l, b.version > 0)
BY DEF store, MadeWritten, MadePresent, Kept, MetaOf

\* A write of one line.
LEMMA AtPart ==
  ASSUME NEW V, NEW l \in Lines, NEW v \in V
  PROVE  At(l, v) \in Part(Lines, V)
<1>1. At(l, v) \in [{l} -> V] /\ {l} \in SUBSET Lines
  BY DEF At
<1> QED BY <1>1 DEF Part

\* A write of one line changes that line.
LEMMA OverAt ==
  ASSUME NEW l \in Lines, NEW v, NEW f, DOMAIN f = Lines, f = [k \in Lines |-> f[k]]
  PROVE  Over(At(l, v), f) = [f EXCEPT ![l] = v]
<1>1. DOMAIN At(l, v) = {l} /\ At(l, v)[l] = v
  BY DEF At
<1> HIDE DEF At
<1> QED BY <1>1 DEF Over

IsKept(s, l, b, r) ==
    /\ EndOK(r) /\ Raw(r, l) = b /\ \A k \in Lines \ {l} : load(r, k) = load(s, k)
    /\ r.d.present = s.d.present /\ r.d.written = s.d.written
    /\ r.allocated = s.allocated /\ r.unique = s.unique

\* The metadata of a block.
LEMMA BlockParts ==
  ASSUME NEW b \in Block
  PROVE  /\ b.bytes \in Word /\ b.init \in Flags /\ MetaOf(b) \in Meta /\ b.version \in Nat
         /\ b = [bytes |-> b.bytes, init |-> b.init, version |-> MetaOf(b).version,
                 ecc |-> MetaOf(b).ecc, bad |-> MetaOf(b).bad]
BY DEF Block, Meta, MetaOf

\* In the files.
LEMMA KeptInFiles ==
  ASSUME NEW s, EndOK(s), NEW l \in Lines, NEW b \in Block, cfg.kind # "chunk"
  PROVE  IsKept(s, l, b, Kept(s, l, b))
<1> DEFINE s1 == Put(s, "data", At(l, b.bytes))
           s2 == Put(s1, "init", At(l, b.init))
           s3 == Put(s2, "meta", At(l, MetaOf(b)))
<1>1. s \in Ends /\ s.d \in Files /\ DOMAIN s.cache = {}
  BY DEF EndOK, Ends, Listed
<1>2. b.bytes \in Word /\ b.init \in Flags /\ MetaOf(b) \in Meta
  BY BlockParts
<1>3. s.d.data \in [Lines -> Word] /\ s.d.init \in [Lines -> Flags] /\ s.d.meta \in [Lines -> Meta]
  BY <1>1 DEF Files
<1>4. /\ At(l, b.bytes) \in Part(Lines, Word) /\ Over(At(l, b.bytes), s.d.data) = [s.d.data EXCEPT ![l] = b.bytes]
      /\ At(l, b.init) \in Part(Lines, Flags) /\ Over(At(l, b.init), s.d.init) = [s.d.init EXCEPT ![l] = b.init]
      /\ At(l, MetaOf(b)) \in Part(Lines, Meta)
      /\ Over(At(l, MetaOf(b)), s.d.meta) = [s.d.meta EXCEPT ![l] = MetaOf(b)]
  <2>1. /\ At(l, b.bytes) \in Part(Lines, Word) /\ At(l, b.init) \in Part(Lines, Flags)
        /\ At(l, MetaOf(b)) \in Part(Lines, Meta)
    BY <1>2, AtPart
  <2>2. Over(At(l, b.bytes), s.d.data) = [s.d.data EXCEPT ![l] = b.bytes]
    BY <1>3, OverAt
  <2>3. Over(At(l, b.init), s.d.init) = [s.d.init EXCEPT ![l] = b.init]
    BY <1>3, OverAt
  <2>4. Over(At(l, MetaOf(b)), s.d.meta) = [s.d.meta EXCEPT ![l] = MetaOf(b)]
    BY <1>3, OverAt
  <2> QED BY <2>1, <2>2, <2>3, <2>4
<1>5. IsPut(s, s1, [file |-> "data", to |-> At(l, b.bytes)], [s.d EXCEPT !.data = Over(At(l, b.bytes), s.d.data)])
  BY <1>1, <1>4, PutData, Zenon
<1>6. s1 \in Ends
  BY <1>5 DEF IsPut
<1> HIDE DEF s1
<1>7. IsPut(s1, s2, [file |-> "init", to |-> At(l, b.init)], [s1.d EXCEPT !.init = Over(At(l, b.init), s1.d.init)])
  BY <1>6, <1>4, PutInits, Zenon
<1>8. s2 \in Ends
  BY <1>7 DEF IsPut
<1> HIDE DEF s2
<1>9. IsPut(s2, s3, [file |-> "meta", to |-> At(l, MetaOf(b))],
            [s2.d EXCEPT !.meta = Over(At(l, MetaOf(b)), s2.d.meta)])
  BY <1>8, <1>4, PutMeta, Zenon
<1> HIDE DEF s3
<1>10. /\ s3 \in Ends /\ s3.cache = s.cache /\ s3.lru = s.lru /\ s3.allocated = s.allocated /\ s3.unique = s.unique
  BY <1>5, <1>7, <1>9 DEF IsPut
<1>11. /\ s3.d.present = s.d.present /\ s3.d.written = s.d.written
       /\ s3.d.data = [s.d.data EXCEPT ![l] = b.bytes] /\ s3.d.init = [s.d.init EXCEPT ![l] = b.init]
       /\ s3.d.meta = [s.d.meta EXCEPT ![l] = MetaOf(b)]
  <2>1. s1.d = [s.d EXCEPT !.data = [s.d.data EXCEPT ![l] = b.bytes]]
    BY <1>4, <1>5 DEF IsPut
  <2>2. s1.d.init = s.d.init /\ s1.d.meta = s.d.meta /\ s1.d \in Files
    BY <1>1, <1>6, <2>1 DEF Files, Ends
  <2>3. s2.d = [s1.d EXCEPT !.init = [s.d.init EXCEPT ![l] = b.init]]
    BY <1>4, <1>7, <2>2 DEF IsPut
  <2>4. s2.d.meta = s.d.meta /\ s2.d \in Files
    BY <1>8, <2>2, <2>3 DEF Files, Ends
  <2>5. s3.d = [s2.d EXCEPT !.meta = [s.d.meta EXCEPT ![l] = MetaOf(b)]]
    BY <1>4, <1>9, <2>4 DEF IsPut
  <2> QED BY <1>1, <2>1, <2>2, <2>3, <2>4, <2>5 DEF Files
<1>12. EndOK(s3)
  BY <1>1, <1>10 DEF EndOK, Listed
<1>13. Raw(s3, l) = b
  <2>1. s3.d.data[l] = b.bytes /\ s3.d.init[l] = b.init /\ s3.d.meta[l] = MetaOf(b)
    BY <1>3, <1>11
  <2>2. Raw(s3, l) = [bytes |-> b.bytes, init |-> b.init, version |-> MetaOf(b).version,
                      ecc |-> MetaOf(b).ecc, bad |-> MetaOf(b).bad]
    BY <2>1 DEF Raw
  <2> QED BY <2>2, BlockParts
<1>14. ASSUME NEW k \in Lines \ {l} PROVE load(s3, k) = load(s, k)
  <2>1. s3.d.data[k] = s.d.data[k] /\ s3.d.init[k] = s.d.init[k] /\ s3.d.meta[k] = s.d.meta[k]
    BY <1>3, <1>11
  <2> QED BY <1>11, <2>1 DEF load
<1>15. Kept(s, l, b) = s3
  BY DEF Kept, s1, s2, s3
<1> QED BY <1>10, <1>11, <1>12, <1>13, <1>14, <1>15 DEF IsKept

\* In the cache.
LEMMA KeptInCache ==
  ASSUME NEW s, EndOK(s), NEW l \in Lines, NEW b \in Block, cfg.kind = "chunk", cfg.cache \in Nat \ {0}
  PROVE  IsKept(s, l, b, Kept(s, l, b))
<1> DEFINE c == Chunk(l)
           e == ensure_chunk(s, c)
           k == e.cache[c]
           j == [data |-> [k.data EXCEPT ![l] = b.bytes], init |-> [k.init EXCEPT ![l] = b.init],
                 meta |-> [k.meta EXCEPT ![l] = MetaOf(b)], dirty |-> TRUE]
           r == Kept(s, l, b)
<1>1. c \in Chunks /\ l \in Mine(c)
  BY DEF Chunks, Mine
<1>2. Keeps(s, e) /\ c \in DOMAIN e.cache
  BY <1>1, EnsureKeeps
<1>3. r = [e EXCEPT !.cache[c] = j]
  BY DEF Kept
<1> HIDE DEF r, c, e
<1>4. EndOK(e) /\ e \in Ends /\ e.cache \in Part(Chunks, Cached)
  BY <1>2 DEF Keeps, EndOK, Ends
<1>5. r = [e EXCEPT !.cache = [e.cache EXCEPT ![c] = j]]
  <2> HIDE DEF j
  <2> QED BY <1>2, <1>3, <1>4 DEF Ends
<1>6. b.bytes \in Word /\ b.init \in Flags /\ MetaOf(b) \in Meta
  BY BlockParts
<1>7. /\ k \in Cached /\ k.data \in [Mine(c) -> Word] /\ k.init \in [Mine(c) -> Flags] /\ k.meta \in [Mine(c) -> Meta]
  BY <1>2, <1>4, CachedFacts
<1> HIDE DEF k
<1>8. /\ j.data = [k.data EXCEPT ![l] = b.bytes] /\ j.init = [k.init EXCEPT ![l] = b.init]
      /\ j.meta = [k.meta EXCEPT ![l] = MetaOf(b)] /\ j.dirty = TRUE
      /\ j = [data |-> j.data, init |-> j.init, meta |-> j.meta, dirty |-> TRUE]
  OBVIOUS
<1> HIDE DEF j
<1>9. j.data \in [Mine(c) -> Word] /\ j.init \in [Mine(c) -> Flags] /\ j.meta \in [Mine(c) -> Meta]
  BY <1>1, <1>6, <1>7, <1>8
<1>10. j \in Cached
  <2>1. Mine(c) \in SUBSET Lines
    BY DEF Mine
  <2>2. j.data \in Part(Lines, Word) /\ j.init \in Part(Lines, Flags) /\ j.meta \in Part(Lines, Meta)
    BY <1>9, <2>1 DEF Part
  <2> QED BY <1>8, <2>2 DEF Cached
<1>11. /\ [e.cache EXCEPT ![c] = j] \in Part(Chunks, Cached)
  BY <1>4, <1>10 DEF Part
<1>12. /\ r \in Ends /\ r.cache = [e.cache EXCEPT ![c] = j] /\ r.lru = e.lru /\ r.d = e.d /\ r.plan = e.plan
       /\ r.allocated = e.allocated /\ r.unique = e.unique
  BY <1>4, <1>5, <1>11 DEF Ends
<1>13. DOMAIN r.cache = DOMAIN e.cache /\ r.cache[c] = j /\ \A m \in DOMAIN e.cache \ {c} : r.cache[m] = e.cache[m]
  BY <1>2, <1>12
<1>14. Listed(r)
  BY <1>4, <1>12, <1>13 DEF Listed, EndOK
<1>15. ASSUME NEW m \in DOMAIN r.cache PROVE ChunkOK(r, m)
  <2>1. CASE m = c
    BY <1>8, <1>9, <1>13, <2>1 DEF ChunkOK
  <2>2. CASE m # c
    <3>1. ChunkOK(e, m) /\ r.cache[m] = e.cache[m]
      BY <1>4, <1>13, <2>2 DEF EndOK
    <3> QED BY <1>12, <3>1 DEF ChunkOK
  <2> QED BY <2>1, <2>2
<1>16. EndOK(r)
  BY <1>12, <1>14, <1>15 DEF EndOK
<1>17. Raw(r, l) = b
  <2>1. j.data[l] = b.bytes /\ j.init[l] = b.init /\ j.meta[l] = MetaOf(b)
    BY <1>1, <1>7, <1>8
  <2>2. Raw(r, l) = [bytes |-> b.bytes, init |-> b.init, version |-> MetaOf(b).version,
                     ecc |-> MetaOf(b).ecc, bad |-> MetaOf(b).bad]
    BY <1>2, <1>13, <2>1 DEF Raw, c
  <2> QED BY <2>2, BlockParts
<1>18. ASSUME NEW n \in Lines \ {l} PROVE load(r, n) = load(s, n)
  <2>1. load(e, n) = load(s, n)
    BY <1>2 DEF Keeps
  <2>2. load(r, n) = load(e, n)
    <3>1. CASE Chunk(n) = c
      <4>1. n \in Mine(c)
        BY <3>1 DEF Mine
      <4>2. j.data[n] = k.data[n] /\ j.init[n] = k.init[n] /\ j.meta[n] = k.meta[n]
        BY <1>7, <1>8, <4>1
      <4> QED BY <1>2, <1>12, <1>13, <3>1, <4>2 DEF load, k
    <3>2. CASE Chunk(n) # c
      <4>1. Chunk(n) \in DOMAIN e.cache => r.cache[Chunk(n)] = e.cache[Chunk(n)]
        BY <1>13, <3>2
      <4> QED BY <1>12, <1>13, <4>1 DEF load
    <3> QED BY <3>1, <3>2
  <2> QED BY <2>1, <2>2
<1> QED BY <1>2, <1>12, <1>16, <1>17, <1>18 DEF IsKept, Keeps, r

\* The line is stored, it is present, and written when it has a version.
IsStored(s, l, b, r) ==
    /\ EndOK(r) /\ load(r, l) = b /\ \A k \in Lines \ {l} : load(r, k) = load(s, k)
    /\ r.d.present = [s.d.present EXCEPT ![l] = TRUE]
    /\ r.d.written = [s.d.written EXCEPT ![l] = (b.version > 0)]
    /\ r.allocated = IF s.d.present[l] THEN s.allocated ELSE s.allocated + 1
    /\ r.unique = IF (b.version > 0) = s.d.written[l] THEN s.unique
                  ELSE IF b.version > 0 THEN s.unique + 1 ELSE s.unique - 1

\* A change of the maps and counters leaves the lines.
LEMMA LinesLeft ==
  ASSUME NEW s, EndOK(s), NEW r \in Ends, r.d.data = s.d.data, r.d.init = s.d.init, r.d.meta = s.d.meta,
         r.cache = s.cache, r.lru = s.lru
  PROVE  EndOK(r) /\ \A k \in Lines : Raw(r, k) = Raw(s, k)
<1>1. Listed(r)
  BY DEF EndOK, Listed
<1>2. \A c \in DOMAIN r.cache : ChunkOK(r, c)
  BY DEF EndOK, ChunkOK
<1>3. \A k \in Lines : Raw(r, k) = Raw(s, k)
  BY DEF Raw
<1> QED BY <1>1, <1>2, <1>3 DEF EndOK

\* r is s after the write w of a map: the lines are the same.
IsMapped(s, w, r, present, written, allocated, unique) ==
    /\ EndOK(r) /\ \A k \in Lines : Raw(r, k) = Raw(s, k)
    /\ r.d.present = present /\ r.d.written = written /\ r.allocated = allocated /\ r.unique = unique
    /\ r.plan = Append(s.plan, w) /\ r.d = Written(s.d, w) /\ w \in FileWrite
    /\ r.cache = s.cache /\ r.d.init = s.d.init /\ r.d.data = s.d.data /\ r.d.header = s.d.header

\* The map of what is present.
LEMMA PresentFacts ==
  ASSUME NEW s, EndOK(s), NEW l \in Lines
  PROVE  IsMapped(s, [file |-> "present", to |-> At(l, TRUE)], [Put(s, "present", At(l, TRUE)) EXCEPT !.allocated = @ + 1],
                  [s.d.present EXCEPT ![l] = TRUE], s.d.written, s.allocated + 1, s.unique)
<1> DEFINE t == At(l, TRUE)
           p == Put(s, "present", t)
           r == [p EXCEPT !.allocated = @ + 1]
<1>1. s \in Ends /\ s.d \in Files /\ s.d.present \in [Lines -> BOOLEAN] /\ s.allocated \in Int
  BY DEF EndOK, Ends, Files
<1>2. t \in Part(Lines, BOOLEAN) /\ Over(t, s.d.present) = [s.d.present EXCEPT ![l] = TRUE]
  <2>1. TRUE \in BOOLEAN
    OBVIOUS
  <2>2. t \in Part(Lines, BOOLEAN)
    BY <2>1, AtPart, Zenon
  <2>3. Over(t, s.d.present) = [s.d.present EXCEPT ![l] = TRUE]
    <3>1. PICK v : v = TRUE
      OBVIOUS
    <3>2. Over(At(l, v), s.d.present) = [s.d.present EXCEPT ![l] = v]
      BY <1>1, OverAt
    <3> QED BY <3>1, <3>2, Zenon
  <2> QED BY <2>2, <2>3
<1> HIDE DEF t
<1>3. IsPut(s, p, [file |-> "present", to |-> t], [s.d EXCEPT !.present = Over(t, s.d.present)])
  BY <1>1, <1>2, PutPresent, Zenon
<1> HIDE DEF p
<1>4. /\ p \in Ends /\ p.d = [s.d EXCEPT !.present = [s.d.present EXCEPT ![l] = TRUE]]
      /\ p.d = Written(s.d, [file |-> "present", to |-> t]) /\ [file |-> "present", to |-> t] \in FileWrite
      /\ p.cache = s.cache /\ p.lru = s.lru /\ p.allocated = s.allocated /\ p.unique = s.unique
      /\ p.plan = Append(s.plan, [file |-> "present", to |-> t])
  BY <1>2, <1>3 DEF IsPut
<1> DEFINE n == s.allocated + 1
<1>51. n \in Int /\ r = [p EXCEPT !.allocated = n]
  BY <1>1, <1>4
<1> HIDE DEF r, n
<1>5. /\ r \in Ends /\ r.d = p.d /\ r.cache = s.cache /\ r.lru = s.lru /\ r.allocated = n
      /\ r.unique = s.unique /\ r.plan = p.plan
  BY <1>4, <1>51 DEF Ends
<1> HIDE DEF r
<1>6. /\ r.d.present = [s.d.present EXCEPT ![l] = TRUE] /\ r.d.written = s.d.written
      /\ r.d.data = s.d.data /\ r.d.init = s.d.init /\ r.d.meta = s.d.meta /\ r.d.header = s.d.header
  BY <1>1, <1>4, <1>5 DEF Files
<1>7. EndOK(r) /\ \A k \in Lines : Raw(r, k) = Raw(s, k)
  BY <1>5, <1>6, LinesLeft
<1> QED BY <1>4, <1>5, <1>6, <1>7 DEF IsMapped, r, p, t, n

\* The map of what is written.
LEMMA WrittenFacts ==
  ASSUME NEW s, EndOK(s), NEW l \in Lines, NEW is \in BOOLEAN,
         NEW n, n = IF is THEN s.unique + 1 ELSE s.unique - 1,
         NEW r, r = [Put(s, "written", At(l, is)) EXCEPT !.unique = IF is THEN @ + 1 ELSE @ - 1]
  PROVE  IsMapped(s, [file |-> "written", to |-> At(l, is)], r,
                  s.d.present, [s.d.written EXCEPT ![l] = is], s.allocated, n)
<1> DEFINE t == At(l, is)
           p == Put(s, "written", t)
<1>1. s \in Ends /\ s.d \in Files /\ s.d.written \in [Lines -> BOOLEAN] /\ s.unique \in Int
  BY DEF EndOK, Ends, Files
<1>2. t \in Part(Lines, BOOLEAN) /\ Over(t, s.d.written) = [s.d.written EXCEPT ![l] = is]
  BY <1>1, AtPart, OverAt
<1> HIDE DEF t
<1>3. IsPut(s, p, [file |-> "written", to |-> t], [s.d EXCEPT !.written = Over(t, s.d.written)])
  BY <1>1, <1>2, PutWritten, Zenon
<1> HIDE DEF p
<1>4. /\ p \in Ends /\ p.d = [s.d EXCEPT !.written = [s.d.written EXCEPT ![l] = is]]
      /\ p.d = Written(s.d, [file |-> "written", to |-> t]) /\ [file |-> "written", to |-> t] \in FileWrite
      /\ p.cache = s.cache /\ p.lru = s.lru /\ p.allocated = s.allocated /\ p.unique = s.unique
      /\ p.plan = Append(s.plan, [file |-> "written", to |-> t])
  BY <1>2, <1>3 DEF IsPut
<1>5. n \in Int /\ r = [p EXCEPT !.unique = n]
  BY <1>1, <1>4 DEF p, t
<1>6. /\ r \in Ends /\ r.d = p.d /\ r.cache = s.cache /\ r.lru = s.lru /\ r.allocated = s.allocated
      /\ r.unique = n /\ r.plan = p.plan
  BY <1>4, <1>5 DEF Ends
<1>7. /\ r.d.written = [s.d.written EXCEPT ![l] = is] /\ r.d.present = s.d.present
      /\ r.d.data = s.d.data /\ r.d.init = s.d.init /\ r.d.meta = s.d.meta /\ r.d.header = s.d.header
  BY <1>1, <1>4, <1>6 DEF Files
<1>8. EndOK(r) /\ \A k \in Lines : Raw(r, k) = Raw(s, k)
  BY <1>6, <1>7, LinesLeft
<1> QED BY <1>4, <1>6, <1>7, <1>8 DEF IsMapped, t

\* store stores the line and leaves the others.
LEMMA StoreFacts ==
  ASSUME NEW s, EndOK(s), NEW l \in Lines, NEW b \in Block, cfg.cache \in Nat \ {0}
  PROVE  IsStored(s, l, b, store(s, l, b))
<1> DEFINE k == Kept(s, l, b)
           p == MadePresent(s, k, l)
           is == b.version > 0
           r == MadeWritten(s, p, l, is)
<1>1. IsKept(s, l, b, k)
  BY KeptInFiles, KeptInCache
<1> HIDE DEF k
<1>2. EndOK(k) /\ k.d.present = s.d.present /\ k.d.written = s.d.written /\ k.allocated = s.allocated /\ k.unique = s.unique
  BY <1>1 DEF IsKept
<1>3. s.d.present \in [Lines -> BOOLEAN] /\ s.d.written \in [Lines -> BOOLEAN] /\ is \in BOOLEAN
  BY BlockParts DEF EndOK, Ends, Files
<1>4. /\ EndOK(p) /\ \A n \in Lines : Raw(p, n) = Raw(k, n)
      /\ p.d.present = [s.d.present EXCEPT ![l] = TRUE] /\ p.d.written = s.d.written /\ p.unique = s.unique
      /\ p.allocated = IF s.d.present[l] THEN s.allocated ELSE s.allocated + 1
  <2>1. CASE s.d.present[l]
    <3>1. p = k /\ s.d.present = [s.d.present EXCEPT ![l] = TRUE]
      BY <1>3, <2>1 DEF MadePresent
    <3> QED BY <1>2, <2>1, <3>1
  <2>2. CASE ~s.d.present[l]
    <3>1. p = [Put(k, "present", At(l, TRUE)) EXCEPT !.allocated = @ + 1]
      BY <2>2 DEF MadePresent
    <3>2. IsMapped(k, [file |-> "present", to |-> At(l, TRUE)], p,
                   [k.d.present EXCEPT ![l] = TRUE], k.d.written, k.allocated + 1, k.unique)
      BY <1>2, <3>1, PresentFacts, Zenon
    <3> HIDE DEF p
    <3> QED BY <1>2, <2>2, <3>2 DEF IsMapped
  <2> QED BY <2>1, <2>2
<1> HIDE DEF p, is
<1>5. /\ EndOK(r) /\ \A n \in Lines : Raw(r, n) = Raw(p, n)
      /\ r.d.present = p.d.present /\ r.d.written = [s.d.written EXCEPT ![l] = is] /\ r.allocated = p.allocated
      /\ r.unique = IF is = s.d.written[l] THEN s.unique ELSE IF is THEN s.unique + 1 ELSE s.unique - 1
  <2>1. CASE is = s.d.written[l]
    <3>1. r = p /\ s.d.written = [s.d.written EXCEPT ![l] = is]
      BY <1>3, <2>1 DEF MadeWritten
    <3> QED BY <1>4, <2>1, <3>1
  <2>2. CASE is # s.d.written[l]
    <3>1. r = [Put(p, "written", At(l, is)) EXCEPT !.unique = IF is THEN @ + 1 ELSE @ - 1]
      BY <2>2 DEF MadeWritten
    <3> HIDE DEF r
    <3>2. PICK n : n = IF is THEN p.unique + 1 ELSE p.unique - 1
      OBVIOUS
    <3>3. IsMapped(p, [file |-> "written", to |-> At(l, is)], r, p.d.present, [p.d.written EXCEPT ![l] = is],
                   p.allocated, n)
      BY <1>3, <1>4, <3>1, <3>2, WrittenFacts, Zenon
    <3> QED BY <1>4, <2>2, <3>2, <3>3 DEF IsMapped
  <2> QED BY <2>1, <2>2
<1> HIDE DEF r
<1>6. load(r, l) = b
  <2>1. r.d.present[l] /\ Raw(r, l) = b
    BY <1>1, <1>3, <1>4, <1>5 DEF IsKept
  <2> QED BY <2>1, LoadRaw
<1>7. ASSUME NEW n \in Lines \ {l} PROVE load(r, n) = load(s, n)
  <2>1. r.d.present[n] = k.d.present[n] /\ Raw(r, n) = Raw(k, n)
    BY <1>2, <1>3, <1>4, <1>5
  <2>2. load(r, n) = load(k, n)
    BY <2>1, LoadRaw
  <2> QED BY <1>1, <2>2 DEF IsKept
<1>8. store(s, l, b) = r
  BY StoreParts DEF k, p, r, is
<1> QED BY <1>4, <1>5, <1>6, <1>7, <1>8 DEF IsStored, is

(***************************************************************************)
(* The files on the way.                                                   *)
(***************************************************************************)
\* One more write, to files in F.
LEMMA PutTrail ==
  ASSUME NEW s \in Ends, NEW F, NEW D, Trail(s, F, D), NEW r, NEW w, NEW f, IsPut(s, r, w, f), f \in F
  PROVE  Trail(r, F, D)
<1>1. s.plan \in Seq(FileWrite) /\ s.d \in Files
  BY DEF Ends
<1>2. w \in FileWrite /\ f \in Files /\ f = Written(s.d, w) /\ r.d = f /\ r.plan = Append(s.plan, w)
  BY DEF IsPut
<1>3. <<s.d, w, f>> \in FileSteps(F)
  BY <1>1, <1>2 DEF FileSteps
<1>4. Leads(s.plan, FileSteps(F), D, s.d)
  BY DEF Trail
<1>5. Leads(Append(s.plan, w), FileSteps(F), D, f)
  BY <1>1, <1>2, <1>3, <1>4, LeadsAppend, Zenon
<1> QED BY <1>2, <1>5 DEF Trail

\* The files while a chunk is written.
Stage1(s, c) == [s.d EXCEPT !.data = Over(s.cache[c].data, s.d.data)]
Stage2(s, c) == [Stage1(s, c) EXCEPT !.init = Over(s.cache[c].init, s.d.init)]
Stage3(s, c) == [Stage2(s, c) EXCEPT !.meta = Over(s.cache[c].meta, s.d.meta)]
Writable(s, F) == \A c \in DOMAIN s.cache : Stage1(s, c) \in F /\ Stage2(s, c) \in F /\ Stage3(s, c) \in F

\* The three writes of write_chunk lead through files in F, if their stages are.
LEMMA WriteChunkTrail ==
  ASSUME NEW s, EndOK(s), NEW c \in DOMAIN s.cache, NEW F, NEW D, Trail(s, F, D),
         Stage1(s, c) \in F, Stage2(s, c) \in F, Stage3(s, c) \in F
  PROVE  Trail(write_chunk(s, c), F, D)
<1> DEFINE k == s.cache[c]
           r == write_chunk(s, c)
           s1 == Put(s, "data", k.data)
           s2 == Put(s1, "init", k.init)
           s3 == Put(s2, "meta", k.meta)
<1>1. /\ s \in Ends /\ k \in Cached /\ s.d \in Files
      /\ k.data \in Part(Lines, Word) /\ k.init \in Part(Lines, Flags) /\ k.meta \in Part(Lines, Meta)
  BY CachedFacts DEF Ends
<1>2. CASE ~k.dirty
  BY <1>2 DEF write_chunk
<1>3. CASE k.dirty
  <2>1. IsPut(s, s1, [file |-> "data", to |-> k.data], [s.d EXCEPT !.data = Over(k.data, s.d.data)])
    BY <1>1, PutData, Zenon
  <2>2. s1 \in Ends /\ s1.d = Stage1(s, c) /\ s1.d.init = s.d.init /\ s1.d.meta = s.d.meta
    BY <1>1, <2>1 DEF IsPut, Stage1, Files
  <2>3. Trail(s1, F, D)
    BY <1>1, <2>1, <2>2, PutTrail DEF IsPut
  <2>4. IsPut(s1, s2, [file |-> "init", to |-> k.init], [s1.d EXCEPT !.init = Over(k.init, s1.d.init)])
    BY <1>1, <2>2, PutInits, Zenon
  <2> HIDE DEF s1
  <2>5. s2 \in Ends /\ s2.d = Stage2(s, c) /\ s2.d.meta = s.d.meta
    <3>1. s1.d \in Files
      BY <2>2 DEF Ends
    <3> QED BY <2>2, <2>4, <3>1 DEF IsPut, Stage2, Files
  <2>6. Trail(s2, F, D)
    BY <2>2, <2>3, <2>4, <2>5, PutTrail DEF IsPut
  <2>7. IsPut(s2, s3, [file |-> "meta", to |-> k.meta], [s2.d EXCEPT !.meta = Over(k.meta, s2.d.meta)])
    BY <1>1, <2>5, PutMeta, Zenon
  <2> HIDE DEF s2
  <2>8. s3 \in Ends /\ s3.d = Stage3(s, c)
    BY <2>5, <2>7 DEF IsPut, Stage3
  <2>9. Trail(s3, F, D)
    BY <2>5, <2>6, <2>7, <2>8, PutTrail DEF IsPut
  <2>10. r = [s3 EXCEPT !.cache[c].dirty = FALSE]
    BY <1>3 DEF write_chunk, s1, s2
  <2> HIDE DEF s3, r
  <2>11. r.d = s3.d /\ r.plan = s3.plan
    BY <2>8, <2>10 DEF Ends
  <2> QED BY <2>9, <2>11 DEF Trail, r
<1> QED BY <1>1, <1>2, <1>3 DEF Cached

\* Reading a chunk into the cache writes at most the one that makes room.
LEMMA EnsureTrail ==
  ASSUME NEW s, EndOK(s), NEW c \in Chunks, cfg.kind = "chunk", cfg.cache \in Nat \ {0},
         NEW F, NEW D, Trail(s, F, D), Writable(s, F)
  PROVE  Trail(ensure_chunk(s, c), F, D)
<1> DEFINE r == ensure_chunk(s, c)
<1>0. s \in Ends
  BY DEF EndOK
<1>1. CASE c \in DOMAIN s.cache
  <2>1. r = [s EXCEPT !.lru = Used(s.lru, c)]
    BY <1>1 DEF ensure_chunk
  <2>2. r.d = s.d /\ r.plan = s.plan
    BY <1>0, <2>1 DEF Ends
  <2> QED BY <2>2 DEF Trail
<1>2. CASE c \notin DOMAIN s.cache
  <2> DEFINE s1 == IF Cardinality(DOMAIN s.cache) < cfg.cache THEN s ELSE Evict(s)
             r1 == [s1 EXCEPT !.lru = Append(@, c), !.cache = With(@, c, Fetched(s1, c))]
  <2>1. r = r1
    BY <1>2 DEF ensure_chunk, Fetched, Mine
  <2>2. Trail(s1, F, D) /\ EndOK(s1)
    <3>1. CASE Cardinality(DOMAIN s.cache) < cfg.cache
      BY <3>1
    <3>2. CASE ~(Cardinality(DOMAIN s.cache) < cfg.cache)
      <4>1. DOMAIN s.cache # {}
        <5> SUFFICES ASSUME DOMAIN s.cache = {} PROVE FALSE
          OBVIOUS
        <5>1. Cardinality(DOMAIN s.cache) = 0
          BY FS_EmptySet
        <5> QED BY <3>2, <5>1
      <4>2. s.lru # <<>>
        BY <4>1 DEF EndOK, Listed
      <4>3. Head(s.lru) \in DOMAIN s.cache
        <5>1. s.lru \in Seq(Chunks)
          BY <1>0 DEF Ends
        <5>2. Head(s.lru) = s.lru[1] /\ 1 \in 1 .. Len(s.lru)
          BY <4>2, <5>1, HeadTail
        <5> QED BY <5>2 DEF EndOK, Listed
      <4>4. Trail(write_chunk(s, Head(s.lru)), F, D)
        BY <4>3, WriteChunkTrail DEF Writable
      <4>5. /\ Keeps(s, Evict(s)) /\ Evict(s).d = write_chunk(s, Head(s.lru)).d
            /\ Evict(s).plan = write_chunk(s, Head(s.lru)).plan
        BY <4>2, EvictKeeps
      <4> QED BY <3>2, <4>4, <4>5 DEF Trail, Keeps
    <3> QED BY <3>1, <3>2
  <2> HIDE DEF s1
  <2>3. r1.d = s1.d /\ r1.plan = s1.plan
    BY <2>2 DEF EndOK, Ends
  <2> HIDE DEF r1, r
  <2> QED BY <2>1, <2>2, <2>3 DEF Trail, r
<1> QED BY <1>1, <1>2

\* The files while a line is stored in them.
Line1(s, l, b) == [s.d EXCEPT !.data = [s.d.data EXCEPT ![l] = b.bytes]]
Line2(s, l, b) == [Line1(s, l, b) EXCEPT !.init = [s.d.init EXCEPT ![l] = b.init]]
Line3(s, l, b) == [Line2(s, l, b) EXCEPT !.meta = [s.d.meta EXCEPT ![l] = MetaOf(b)]]

\* The first part of store.
LEMMA KeptTrail ==
  ASSUME NEW s, EndOK(s), NEW l \in Lines, NEW b \in Block, cfg.cache \in Nat \ {0},
         NEW F, NEW D, Trail(s, F, D), Writable(s, F),
         cfg.kind # "chunk" => Line1(s, l, b) \in F /\ Line2(s, l, b) \in F /\ Line3(s, l, b) \in F
  PROVE  Trail(Kept(s, l, b), F, D)
<1>1. CASE cfg.kind = "chunk"
  <2> DEFINE e == ensure_chunk(s, Chunk(l))
             r == Kept(s, l, b)
  <2>1. Chunk(l) \in Chunks
    BY DEF Chunks
  <2>2. Trail(e, F, D) /\ EndOK(e)
    BY <1>1, <2>1, EnsureTrail, EnsureKeeps DEF Keeps
  <2>3. r.d = e.d /\ r.plan = e.plan
    <3>1. e \in Ends
      BY <2>2 DEF EndOK
    <3> HIDE DEF e
    <3> QED BY <1>1, <3>1 DEF Kept, Ends, e
  <2> QED BY <2>2, <2>3 DEF Trail
<1>2. CASE cfg.kind # "chunk"
  <2> DEFINE s1 == Put(s, "data", At(l, b.bytes))
             s2 == Put(s1, "init", At(l, b.init))
             s3 == Put(s2, "meta", At(l, MetaOf(b)))
  <2>1. s \in Ends /\ s.d \in Files
    BY DEF EndOK, Ends
  <2>2. b.bytes \in Word /\ b.init \in Flags /\ MetaOf(b) \in Meta
    BY BlockParts
  <2>3. s.d.data \in [Lines -> Word] /\ s.d.init \in [Lines -> Flags] /\ s.d.meta \in [Lines -> Meta]
    BY <2>1 DEF Files
  <2>4. /\ At(l, b.bytes) \in Part(Lines, Word) /\ At(l, b.init) \in Part(Lines, Flags)
        /\ At(l, MetaOf(b)) \in Part(Lines, Meta)
    BY <2>2, AtPart
  <2>5. Over(At(l, b.bytes), s.d.data) = [s.d.data EXCEPT ![l] = b.bytes]
    BY <2>3, OverAt
  <2>6. Over(At(l, b.init), s.d.init) = [s.d.init EXCEPT ![l] = b.init]
    BY <2>3, OverAt
  <2>7. Over(At(l, MetaOf(b)), s.d.meta) = [s.d.meta EXCEPT ![l] = MetaOf(b)]
    BY <2>3, OverAt
  <2>8. IsPut(s, s1, [file |-> "data", to |-> At(l, b.bytes)], [s.d EXCEPT !.data = Over(At(l, b.bytes), s.d.data)])
    BY <2>1, <2>4, PutData, Zenon
  <2>9. s1 \in Ends /\ s1.d = Line1(s, l, b) /\ s1.d.init = s.d.init /\ s1.d.meta = s.d.meta /\ s1.d \in Files
    BY <2>1, <2>5, <2>8 DEF IsPut, Line1, Files
  <2>10. Trail(s1, F, D)
    BY <1>2, <2>1, <2>8, <2>9, PutTrail DEF IsPut
  <2> HIDE DEF s1
  <2>11. IsPut(s1, s2, [file |-> "init", to |-> At(l, b.init)], [s1.d EXCEPT !.init = Over(At(l, b.init), s1.d.init)])
    BY <2>9, <2>4, PutInits, Zenon
  <2>12. s2 \in Ends /\ s2.d = Line2(s, l, b) /\ s2.d.meta = s.d.meta
    BY <2>6, <2>9, <2>11 DEF IsPut, Line2, Files
  <2>13. Trail(s2, F, D)
    BY <1>2, <2>9, <2>10, <2>11, <2>12, PutTrail DEF IsPut
  <2> HIDE DEF s2
  <2>14. IsPut(s2, s3, [file |-> "meta", to |-> At(l, MetaOf(b))],
               [s2.d EXCEPT !.meta = Over(At(l, MetaOf(b)), s2.d.meta)])
    BY <2>12, <2>4, PutMeta, Zenon
  <2>15. s3.d = Line3(s, l, b)
    BY <2>7, <2>12, <2>14 DEF IsPut, Line3
  <2>16. Trail(s3, F, D)
    BY <1>2, <2>12, <2>13, <2>14, <2>15, PutTrail DEF IsPut
  <2>17. Kept(s, l, b) = s3
    BY <1>2 DEF Kept, s1, s2, s3
  <2> QED BY <2>16, <2>17
<1> QED BY <1>1, <1>2

\* All of store.
LEMMA StoreTrail ==
  ASSUME NEW s, EndOK(s), NEW l \in Lines, NEW b \in Block, cfg.cache \in Nat \ {0},
         NEW F, NEW D, Trail(s, F, D), Writable(s, F),
         cfg.kind # "chunk" => Line1(s, l, b) \in F /\ Line2(s, l, b) \in F /\ Line3(s, l, b) \in F,
         \A f \in F : \A g \in [Lines -> BOOLEAN] : [f EXCEPT !.written = g] \in F,
         ~s.d.present[l] =>
            [Kept(s, l, b).d EXCEPT !.present = [s.d.present EXCEPT ![l] = TRUE]] \in F
  PROVE  Trail(store(s, l, b), F, D)
<1> DEFINE k == Kept(s, l, b)
           p == MadePresent(s, k, l)
           is == b.version > 0
           r == MadeWritten(s, p, l, is)
<1>1. Trail(k, F, D)
  BY KeptTrail
<1>2. IsKept(s, l, b, k)
  BY KeptInFiles, KeptInCache
<1>3. EndOK(k) /\ k.d.present = s.d.present /\ k.d.written = s.d.written /\ k \in Ends /\ k.d \in Files
  BY <1>2 DEF IsKept, EndOK, Ends
<1>4. s.d.present \in [Lines -> BOOLEAN] /\ s.d.written \in [Lines -> BOOLEAN] /\ is \in BOOLEAN
  BY BlockParts DEF EndOK, Ends, Files
<1>5. ~s.d.present[l] => [k.d EXCEPT !.present = [s.d.present EXCEPT ![l] = TRUE]] \in F
  OBVIOUS
<1> HIDE DEF k
<1>6. Trail(p, F, D) /\ EndOK(p) /\ p.d.written = s.d.written
  <2>1. CASE s.d.present[l]
    BY <1>1, <1>3, <2>1 DEF MadePresent
  <2>2. CASE ~s.d.present[l]
    <3> DEFINE w == [file |-> "present", to |-> At(l, TRUE)]
    <3>1. p = [Put(k, "present", At(l, TRUE)) EXCEPT !.allocated = @ + 1]
      BY <2>2 DEF MadePresent
    <3>2. IsMapped(k, w, p, [k.d.present EXCEPT ![l] = TRUE], k.d.written, k.allocated + 1, k.unique)
      BY <1>3, <3>1, PresentFacts, Zenon
    <3> HIDE DEF p
    <3>3. p.d = [k.d EXCEPT !.present = [s.d.present EXCEPT ![l] = TRUE]]
      <4>1. /\ p.d.present = [s.d.present EXCEPT ![l] = TRUE] /\ p.d.written = k.d.written /\ p.d.init = k.d.init
            /\ p.d.data = k.d.data /\ p.d.header = k.d.header /\ p.d \in Files
        BY <1>3, <3>2 DEF IsMapped, EndOK, Ends
      <4>2. p.d.meta = k.d.meta
        <5>1. p.d = Written(k.d, w) /\ w \in FileWrite
          BY <3>2 DEF IsMapped
        <5> QED BY <1>3, <5>1 DEF Written, Files
      <4> QED BY <1>3, <4>1, <4>2 DEF Files
    <3>4. <<k.d, w, p.d>> \in FileSteps(F) /\ p.d \in F /\ p.plan = Append(k.plan, w) /\ w \in FileWrite
      <4>1. p.d \in F
        BY <1>5, <2>2, <3>3
      <4>2. p.d = Written(k.d, w) /\ w \in FileWrite /\ p.d \in Files /\ p.plan = Append(k.plan, w)
        BY <3>2 DEF IsMapped, EndOK, Ends
      <4> QED BY <1>3, <4>1, <4>2 DEF FileSteps
    <3>5. Leads(k.plan, FileSteps(F), D, k.d) /\ k.plan \in Seq(FileWrite)
      BY <1>1, <1>3 DEF Trail, Ends
    <3>6. Leads(Append(k.plan, w), FileSteps(F), D, p.d)
      BY <3>4, <3>5, LeadsAppend, Zenon
    <3>7. Trail(p, F, D)
      BY <1>1, <3>4, <3>6 DEF Trail
    <3> QED BY <1>3, <3>2, <3>7 DEF IsMapped
  <2> QED BY <2>1, <2>2
<1> HIDE DEF p, is
<1>7. Trail(r, F, D)
  <2>1. CASE is = s.d.written[l]
    BY <1>6, <2>1 DEF MadeWritten
  <2>2. CASE is # s.d.written[l]
    <3> DEFINE w == [file |-> "written", to |-> At(l, is)]
    <3>1. r = [Put(p, "written", At(l, is)) EXCEPT !.unique = IF is THEN @ + 1 ELSE @ - 1]
      BY <2>2 DEF MadeWritten
    <3> HIDE DEF r
    <3>2. PICK n : n = IF is THEN p.unique + 1 ELSE p.unique - 1
      OBVIOUS
    <3>3. IsMapped(p, w, r, p.d.present, [p.d.written EXCEPT ![l] = is], p.allocated, n)
      BY <1>4, <1>6, <3>1, <3>2, WrittenFacts, Zenon
    <3>4. p \in Ends /\ p.d \in Files /\ p.plan \in Seq(FileWrite)
      BY <1>6 DEF EndOK, Ends
    <3>5. r.d = [p.d EXCEPT !.written = [s.d.written EXCEPT ![l] = is]]
      <4>1. /\ r.d.present = p.d.present /\ r.d.written = [s.d.written EXCEPT ![l] = is] /\ r.d.init = p.d.init
            /\ r.d.data = p.d.data /\ r.d.header = p.d.header /\ r.d \in Files
        BY <1>6, <3>3 DEF IsMapped, EndOK, Ends
      <4>2. r.d.meta = p.d.meta
        <5>1. r.d = Written(p.d, w)
          BY <3>3 DEF IsMapped
        <5> QED BY <3>4, <5>1 DEF Written, Files
      <4> QED BY <3>4, <4>1, <4>2 DEF Files
    <3>6. r.d \in F
      <4>1. [s.d.written EXCEPT ![l] = is] \in [Lines -> BOOLEAN] /\ p.d \in F
        BY <1>4, <1>6 DEF Trail
      <4> QED BY <3>5, <4>1
    <3>7. r.d = Written(p.d, w) /\ w \in FileWrite /\ r.d \in Files /\ r.plan = Append(p.plan, w)
      BY <3>3 DEF IsMapped, EndOK, Ends
    <3>8. <<p.d, w, r.d>> \in FileSteps(F)
      BY <3>4, <3>6, <3>7 DEF FileSteps
    <3>9. Leads(p.plan, FileSteps(F), D, p.d)
      BY <1>6 DEF Trail
    <3>10. Leads(Append(p.plan, w), FileSteps(F), D, r.d)
      BY <3>4, <3>7, <3>8, <3>9, LeadsAppend, Zenon
    <3> QED BY <1>1, <3>6, <3>7, <3>10 DEF Trail
  <2> QED BY <2>1, <2>2
<1> HIDE DEF r
<1>8. store(s, l, b) = r
  BY StoreParts DEF k, p, r, is
<1> QED BY <1>7, <1>8

(***************************************************************************)
(* The counters.                                                           *)
(***************************************************************************)
\* The files on the way keep the header.
LEMMA StageFiles ==
  ASSUME NEW s, EndOK(s), NEW c \in DOMAIN s.cache
  PROVE  /\ Stage1(s, c) \in Files /\ Stage2(s, c) \in Files /\ Stage3(s, c) \in Files
         /\ Stage1(s, c).header = s.d.header /\ Stage2(s, c).header = s.d.header /\ Stage3(s, c).header = s.d.header
         /\ Stage1(s, c).present = s.d.present /\ Stage2(s, c).present = s.d.present /\ Stage3(s, c).present = s.d.present
         /\ Stage1(s, c).init = s.d.init
         /\ \A l \in Lines : Stage1(s, c).data[l] = IF l \in Mine(c) THEN s.cache[c].data[l] ELSE s.d.data[l]
         /\ \A l \in Lines : Stage2(s, c).init[l] = IF l \in Mine(c) THEN s.cache[c].init[l] ELSE s.d.init[l]
         /\ Stage2(s, c).data = Stage1(s, c).data
         /\ Stage3(s, c).data = Stage1(s, c).data /\ Stage3(s, c).init = Stage2(s, c).init
<1> DEFINE k == s.cache[c]
<1>1. /\ s.d \in Files
      /\ k.data \in [Mine(c) -> Word] /\ k.data \in Part(Lines, Word)
      /\ k.init \in [Mine(c) -> Flags] /\ k.init \in Part(Lines, Flags)
      /\ k.meta \in [Mine(c) -> Meta] /\ k.meta \in Part(Lines, Meta)
  BY CachedFacts DEF Ends
<1>2. Stage1(s, c) = [s.d EXCEPT !.data = Over(k.data, s.d.data)]
  BY DEF Stage1
<1>3. Stage2(s, c) = [Stage1(s, c) EXCEPT !.init = Over(k.init, s.d.init)]
  BY DEF Stage2
<1>4. Stage3(s, c) = [Stage2(s, c) EXCEPT !.meta = Over(k.meta, s.d.meta)]
  BY DEF Stage3
<1> HIDE DEF k
<1>5. s.d.data \in [Lines -> Word] /\ s.d.init \in [Lines -> Flags] /\ s.d.meta \in [Lines -> Meta]
  BY <1>1 DEF Files
<1>6. /\ Over(k.data, s.d.data) \in [Lines -> Word]
      /\ \A l \in Lines : Over(k.data, s.d.data)[l] = IF l \in Mine(c) THEN k.data[l] ELSE s.d.data[l]
  BY <1>1, <1>5, OverFacts
<1>7. /\ Over(k.init, s.d.init) \in [Lines -> Flags]
      /\ \A l \in Lines : Over(k.init, s.d.init)[l] = IF l \in Mine(c) THEN k.init[l] ELSE s.d.init[l]
  BY <1>1, <1>5, OverFacts
<1>8. Over(k.meta, s.d.meta) \in [Lines -> Meta]
  BY <1>1, <1>5, OverFacts
<1>9. /\ Stage1(s, c) \in Files /\ Stage1(s, c).data = Over(k.data, s.d.data) /\ Stage1(s, c).init = s.d.init
      /\ Stage1(s, c).present = s.d.present /\ Stage1(s, c).header = s.d.header
  BY <1>1, <1>2, <1>6 DEF Files
<1>10. /\ Stage2(s, c) \in Files /\ Stage2(s, c).init = Over(k.init, s.d.init) /\ Stage2(s, c).data = Stage1(s, c).data
       /\ Stage2(s, c).present = s.d.present /\ Stage2(s, c).header = s.d.header
  BY <1>3, <1>7, <1>9 DEF Files
<1>11. /\ Stage3(s, c) \in Files /\ Stage3(s, c).init = Stage2(s, c).init /\ Stage3(s, c).data = Stage1(s, c).data
       /\ Stage3(s, c).present = s.d.present /\ Stage3(s, c).header = s.d.header
  BY <1>4, <1>8, <1>10 DEF Files
<1> QED BY <1>6, <1>7, <1>9, <1>10, <1>11 DEF k

\* The counters of the header survive every write but that of the header.
LEMMA SaneWritable ==
  ASSUME NEW s, EndOK(s), s.d \in SaneFiles
  PROVE  Writable(s, SaneFiles)
BY StageFiles DEF Writable, SaneFiles

\* The files while a line is stored.
LEMMA LineFiles ==
  ASSUME NEW s, EndOK(s), NEW l \in Lines, NEW b \in Block
  PROVE  /\ Line1(s, l, b) \in Files /\ Line2(s, l, b) \in Files /\ Line3(s, l, b) \in Files
         /\ Line1(s, l, b).header = s.d.header /\ Line2(s, l, b).header = s.d.header /\ Line3(s, l, b).header = s.d.header
         /\ Line1(s, l, b).present = s.d.present /\ Line2(s, l, b).present = s.d.present
         /\ Line3(s, l, b).present = s.d.present
         /\ Line1(s, l, b).data = [s.d.data EXCEPT ![l] = b.bytes] /\ Line1(s, l, b).init = s.d.init
         /\ Line2(s, l, b).data = [s.d.data EXCEPT ![l] = b.bytes] /\ Line2(s, l, b).init = [s.d.init EXCEPT ![l] = b.init]
         /\ Line3(s, l, b).data = [s.d.data EXCEPT ![l] = b.bytes] /\ Line3(s, l, b).init = [s.d.init EXCEPT ![l] = b.init]
<1>1. s.d \in Files /\ b.bytes \in Word /\ b.init \in Flags /\ MetaOf(b) \in Meta
  BY BlockParts DEF EndOK, Ends
<1>2. /\ [s.d.data EXCEPT ![l] = b.bytes] \in [Lines -> Word] /\ [s.d.init EXCEPT ![l] = b.init] \in [Lines -> Flags]
      /\ [s.d.meta EXCEPT ![l] = MetaOf(b)] \in [Lines -> Meta]
  BY <1>1 DEF Files
<1>3. /\ Line1(s, l, b) \in Files /\ Line1(s, l, b).header = s.d.header /\ Line1(s, l, b).present = s.d.present
      /\ Line1(s, l, b).data = [s.d.data EXCEPT ![l] = b.bytes] /\ Line1(s, l, b).init = s.d.init
  BY <1>1, <1>2 DEF Line1, Files
<1>4. /\ Line2(s, l, b) \in Files /\ Line2(s, l, b).header = s.d.header /\ Line2(s, l, b).present = s.d.present
      /\ Line2(s, l, b).data = [s.d.data EXCEPT ![l] = b.bytes] /\ Line2(s, l, b).init = [s.d.init EXCEPT ![l] = b.init]
  BY <1>2, <1>3 DEF Line2, Files
<1>5. /\ Line3(s, l, b) \in Files /\ Line3(s, l, b).header = s.d.header /\ Line3(s, l, b).present = s.d.present
      /\ Line3(s, l, b).data = [s.d.data EXCEPT ![l] = b.bytes] /\ Line3(s, l, b).init = [s.d.init EXCEPT ![l] = b.init]
  BY <1>2, <1>4 DEF Line3, Files
<1> QED BY <1>3, <1>4, <1>5

\* A set of lines gains or loses one.
LEMMA CountChange ==
  ASSUME NEW f \in [Lines -> BOOLEAN], NEW l \in Lines, NEW v \in BOOLEAN, IsFiniteSet(Lines)
  PROVE  LET n == Cardinality({k \in Lines : f[k]})
             m == Cardinality({k \in Lines : [f EXCEPT ![l] = v][k]})
         IN  /\ n \in Nat /\ m \in Nat
             /\ m = IF v = f[l] THEN n ELSE IF v THEN n + 1 ELSE n - 1
<1> DEFINE S == {k \in Lines : f[k]}
           T == {k \in Lines : [f EXCEPT ![l] = v][k]}
<1>1. IsFiniteSet(S) /\ IsFiniteSet(T) /\ Cardinality(S) \in Nat /\ Cardinality(T) \in Nat
  <2>1. S \subseteq Lines /\ T \subseteq Lines
    OBVIOUS
  <2> HIDE DEF S, T
  <2>2. IsFiniteSet(S) /\ IsFiniteSet(T)
    BY <2>1, FS_Subset
  <2> QED BY <2>2, FS_CardinalityType
<1>2. CASE v = f[l]
  <2>1. S = T
    BY <1>2
  <2> HIDE DEF S, T
  <2> QED BY <1>1, <1>2, <2>1 DEF S, T
<1>3. CASE v # f[l] /\ v
  <2>1. T = S \union {l} /\ l \notin S
    BY <1>3
  <2> HIDE DEF S, T
  <2>2. Cardinality(T) = Cardinality(S) + 1
    BY <1>1, <2>1, FS_AddElement
  <2> QED BY <1>1, <1>3, <2>2 DEF S, T
<1>4. CASE v # f[l] /\ ~v
  <2>1. T = S \ {l} /\ l \in S
    BY <1>4
  <2> HIDE DEF S, T
  <2>2. Cardinality(T) = Cardinality(S) - 1
    BY <1>1, <2>1, FS_RemoveElement
  <2> QED BY <1>1, <1>4, <2>2 DEF S, T
<1> QED BY <1>2, <1>3, <1>4

\* store keeps the counters exact.
LEMMA StoreCounts ==
  ASSUME NEW s, EndOK(s), NEW l \in Lines, NEW b \in Block, cfg.cache \in Nat \ {0}, IsFiniteSet(Lines),
         NEW D, CountOK(s, D)
  PROVE  CountOK(store(s, l, b), D)
<1> DEFINE r == store(s, l, b)
           is == b.version > 0
<1>1. IsStored(s, l, b, r)
  BY StoreFacts
<1>2. s.d.present \in [Lines -> BOOLEAN] /\ s.d.written \in [Lines -> BOOLEAN] /\ is \in BOOLEAN
  BY BlockParts DEF EndOK, Ends, Files
<1>3. Trail(r, SaneFiles, D)
  <2>1. Trail(s, SaneFiles, D) /\ s.d \in SaneFiles /\ Writable(s, SaneFiles)
    BY SaneWritable DEF CountOK, Trail
  <2>2. Line1(s, l, b) \in SaneFiles /\ Line2(s, l, b) \in SaneFiles /\ Line3(s, l, b) \in SaneFiles
    BY <2>1, LineFiles DEF SaneFiles
  <2>3. \A f \in SaneFiles : \A g \in [Lines -> BOOLEAN] : [f EXCEPT !.written = g] \in SaneFiles
    BY DEF SaneFiles, Files
  <2>4. [Kept(s, l, b).d EXCEPT !.present = [s.d.present EXCEPT ![l] = TRUE]] \in SaneFiles
    <3>1. Trail(Kept(s, l, b), SaneFiles, D)
      BY <2>1, <2>2, KeptTrail
    <3>2. Kept(s, l, b).d \in SaneFiles /\ [s.d.present EXCEPT ![l] = TRUE] \in [Lines -> BOOLEAN]
      BY <1>2, <3>1 DEF Trail
    <3> QED BY <3>2 DEF SaneFiles, Files
  <2> QED BY <2>1, <2>2, <2>3, <2>4, StoreTrail
<1> HIDE DEF r, is
<1>4. r.d.present = [s.d.present EXCEPT ![l] = TRUE] /\ r.d.written = [s.d.written EXCEPT ![l] = is]
  BY <1>1 DEF IsStored, is
<1>5. r.allocated = Cardinality({k \in Lines : r.d.present[k]})
  <2>1. s.allocated = Cardinality({k \in Lines : s.d.present[k]})
    BY DEF CountOK
  <2>2. Cardinality({k \in Lines : [s.d.present EXCEPT ![l] = TRUE][k]})
          = IF s.d.present[l] THEN s.allocated ELSE s.allocated + 1
    <3>1. PICK v \in BOOLEAN : v = TRUE
      OBVIOUS
    <3>2. Cardinality({k \in Lines : [s.d.present EXCEPT ![l] = v][k]})
            = IF v = s.d.present[l] THEN s.allocated ELSE IF v THEN s.allocated + 1 ELSE s.allocated - 1
      BY <1>2, <2>1, CountChange
    <3> QED BY <1>2, <3>1, <3>2
  <2> QED BY <1>1, <1>4, <2>2 DEF IsStored
<1>6. r.unique = Cardinality({k \in Lines : r.d.written[k]})
  <2>1. s.unique = Cardinality({k \in Lines : s.d.written[k]})
    BY DEF CountOK
  <2>2. Cardinality({k \in Lines : [s.d.written EXCEPT ![l] = is][k]})
          = IF is = s.d.written[l] THEN s.unique ELSE IF is THEN s.unique + 1 ELSE s.unique - 1
    BY <1>2, <2>1, CountChange
  <2> QED BY <1>1, <1>4, <2>2 DEF IsStored, is
<1>7. \A k \in Lines : r.d.written[k] => r.d.present[k]
  BY <1>2, <1>4 DEF CountOK
<1> QED BY <1>3, <1>5, <1>6, <1>7 DEF CountOK, r

\* What keeps the contents, and the files on the way sane, keeps the counters.
LEMMA KeepsCounts ==
  ASSUME NEW s, NEW r, NEW D, CountOK(s, D), Keeps(s, r), Trail(r, SaneFiles, D)
  PROVE  CountOK(r, D)
BY DEF CountOK, Keeps

(***************************************************************************)
(* What the files show.                                                    *)
(***************************************************************************)
\* A chunk may be written at any time.
LEMMA SoundWritable ==
  ASSUME NEW s, EndOK(s), NEW A, NEW D, EndSound(s, A, D)
  PROVE  Writable(s, SoundFiles(A))
<1> SUFFICES ASSUME NEW c \in DOMAIN s.cache
             PROVE  Stage1(s, c) \in SoundFiles(A) /\ Stage2(s, c) \in SoundFiles(A) /\ Stage3(s, c) \in SoundFiles(A)
  BY DEF Writable
<1> DEFINE k == s.cache[c]
<1>1. /\ Stage1(s, c) \in Files /\ Stage2(s, c) \in Files /\ Stage3(s, c) \in Files
      /\ Stage1(s, c).present = s.d.present /\ Stage2(s, c).present = s.d.present /\ Stage3(s, c).present = s.d.present
      /\ Stage1(s, c).init = s.d.init
      /\ \A l \in Lines : Stage1(s, c).data[l] = IF l \in Mine(c) THEN k.data[l] ELSE s.d.data[l]
      /\ \A l \in Lines : Stage2(s, c).init[l] = IF l \in Mine(c) THEN k.init[l] ELSE s.d.init[l]
      /\ Stage2(s, c).data = Stage1(s, c).data
      /\ Stage3(s, c).data = Stage1(s, c).data /\ Stage3(s, c).init = Stage2(s, c).init
  BY StageFiles
<1>2. cfg.kind = "chunk"
  BY DEF EndOK, Listed
<1>3. FilesOK(s.d, A)
  BY DEF EndSound, Trail, SoundFiles
<1>4. ASSUME NEW l \in Lines, NEW i \in Bytes
      PROVE  /\ ShownIn(Stage1(s, c), l, i) \in A[l][i]
             /\ ShownIn(Stage2(s, c), l, i) \in A[l][i]
             /\ ~s.d.present[l] => ~Stage1(s, c).init[l][i] /\ ~Stage2(s, c).init[l][i]
  <2>1. ShownIn(s.d, l, i) \in A[l][i] /\ (~s.d.present[l] => ~s.d.init[l][i])
    BY <1>2, <1>3 DEF FilesOK
  <2>2. CASE l \notin Mine(c)
    BY <1>1, <2>1, <2>2 DEF ShownIn
  <2>3. CASE l \in Mine(c)
    <3>1. (s.d.init[l][i] => k.init[l][i]) /\ (~s.d.present[l] => ~k.init[l][i])
      BY <2>3 DEF EndSound, CacheSound
    <3>2. Stage1(s, c).data[l] = k.data[l] /\ Stage2(s, c).init[l] = k.init[l]
      BY <1>1, <2>3
    <3>3. s.d.present[l] => (IF k.init[l][i] THEN k.data[l][i] ELSE None) \in A[l][i]
      <4>1. Chunk(l) = c
        BY <2>3 DEF Mine
      <4>2. Shown(load(s, l), i) \in A[l][i]
        BY DEF EndSound
      <4>3. s.d.present[l] => load(s, l).bytes = k.data[l] /\ load(s, l).init = k.init[l]
        BY <1>2, <4>1 DEF load
      <4> QED BY <4>2, <4>3 DEF Shown
    <3>4. ~s.d.present[l] => None \in A[l][i]
      BY <2>1 DEF ShownIn
    <3>5. s.d.present[l] /\ ~s.d.init[l][i] => None \in A[l][i]
      BY <2>1 DEF ShownIn
    <3>6. ShownIn(Stage1(s, c), l, i) \in A[l][i]
      BY <1>1, <3>1, <3>2, <3>3, <3>4, <3>5 DEF ShownIn
    <3>7. ShownIn(Stage2(s, c), l, i) \in A[l][i]
      BY <1>1, <3>2, <3>3, <3>4 DEF ShownIn
    <3> QED BY <1>1, <2>1, <3>1, <3>2, <3>6, <3>7
  <2> QED BY <2>2, <2>3
<1>5. FilesOK(Stage1(s, c), A)
  BY <1>1, <1>4 DEF FilesOK
<1>6. FilesOK(Stage2(s, c), A)
  BY <1>1, <1>4 DEF FilesOK
<1>7. FilesOK(Stage3(s, c), A)
  <2>1. \A l \in Lines : \A i \in Bytes : ShownIn(Stage3(s, c), l, i) = ShownIn(Stage2(s, c), l, i)
    BY <1>1 DEF ShownIn
  <2> QED BY <1>1, <1>6, <2>1 DEF FilesOK
<1> QED BY <1>1, <1>5, <1>6, <1>7 DEF SoundFiles

\* Writing a chunk.
LEMMA WriteChunkSound ==
  ASSUME NEW s, EndOK(s), NEW c \in DOMAIN s.cache, NEW A, NEW D, EndSound(s, A, D)
  PROVE  EndSound(write_chunk(s, c), A, D)
<1> DEFINE r == write_chunk(s, c)
<1>1. Trail(r, SoundFiles(A), D)
  BY SoundWritable, WriteChunkTrail DEF Writable, EndSound
<1>2. Keeps(s, r) /\ IsChunkOut(s, c, r)
  BY WriteChunkKeeps, WriteChunkOut
<1> HIDE DEF r
<1>3. s.cache[c] \in Cached
  BY CachedFacts
<1>4. CacheSound(r)
  <2> SUFFICES ASSUME NEW e \in DOMAIN s.cache, NEW l \in Mine(e), NEW i \in Bytes
               PROVE  /\ r.d.init[l][i] => r.cache[e].init[l][i]
                      /\ ~r.d.present[l] => ~r.cache[e].init[l][i]
    BY <1>2 DEF CacheSound, IsChunkOut
  <2>1. /\ s.d.init[l][i] => s.cache[e].init[l][i]
        /\ ~s.d.present[l] => ~s.cache[e].init[l][i]
    BY DEF EndSound, CacheSound
  <2>2. r.cache[e].init = s.cache[e].init
    <3>1. [s.cache[c] EXCEPT !.dirty = FALSE].init = s.cache[c].init
      BY <1>3 DEF Cached
    <3>2. r.cache = [s.cache EXCEPT ![c] = [s.cache[c] EXCEPT !.dirty = FALSE]]
      BY <1>2 DEF IsChunkOut
    <3> QED BY <3>1, <3>2
  <2>3. l \in Lines /\ (l \in Mine(c) => e = c)
    BY DEF Mine
  <2>4. r.d.init[l] = (IF l \in Mine(c) THEN s.cache[c].init[l] ELSE s.d.init[l]) /\ r.d.present = s.d.present
    BY <1>2, <2>3 DEF IsChunkOut
  <2> QED BY <2>1, <2>2, <2>3, <2>4
<1>5. \A l \in Lines : \A i \in Bytes : Shown(load(r, l), i) \in A[l][i]
  BY <1>2 DEF Keeps, EndSound
<1> QED BY <1>1, <1>4, <1>5 DEF EndSound, r

\* Reading a chunk into the cache.
LEMMA EnsureSound ==
  ASSUME NEW s, EndOK(s), NEW c \in Chunks, cfg.kind = "chunk", cfg.cache \in Nat \ {0},
         NEW A, NEW D, EndSound(s, A, D)
  PROVE  EndSound(ensure_chunk(s, c), A, D)
<1> DEFINE r == ensure_chunk(s, c)
<1>0. s \in Ends
  BY DEF EndOK
<1>1. Trail(r, SoundFiles(A), D)
  BY SoundWritable, EnsureTrail DEF EndSound
<1>2. Keeps(s, r)
  BY EnsureKeeps
<1>3. CacheSound(r)
  <2>1. CASE c \in DOMAIN s.cache
    <3>1. r = [s EXCEPT !.lru = Used(s.lru, c)]
      BY <2>1 DEF ensure_chunk
    <3>2. r.d = s.d /\ r.cache = s.cache
      BY <1>0, <3>1 DEF Ends
    <3> QED BY <3>2 DEF CacheSound, EndSound
  <2>2. CASE c \notin DOMAIN s.cache
    <3> DEFINE s1 == IF Cardinality(DOMAIN s.cache) < cfg.cache THEN s ELSE Evict(s)
               r1 == [s1 EXCEPT !.lru = Append(@, c), !.cache = With(@, c, Fetched(s1, c))]
    <3>1. r = r1
      BY <2>2 DEF ensure_chunk, Fetched, Mine
    <3>2. EndOK(s1) /\ CacheSound(s1) /\ c \notin DOMAIN s1.cache
      <4>1. CASE Cardinality(DOMAIN s.cache) < cfg.cache
        BY <2>2, <4>1 DEF EndSound
      <4>2. CASE ~(Cardinality(DOMAIN s.cache) < cfg.cache)
        <5>1. DOMAIN s.cache # {}
          <6> SUFFICES ASSUME DOMAIN s.cache = {} PROVE FALSE
            OBVIOUS
          <6>1. Cardinality(DOMAIN s.cache) = 0
            BY FS_EmptySet
          <6> QED BY <4>2, <6>1
        <5>2. s.lru # <<>>
          BY <5>1 DEF EndOK, Listed
        <5> DEFINE v == Head(s.lru)
                   w == write_chunk(s, v)
        <5>3. v \in DOMAIN s.cache
          <6>1. s.lru \in Seq(Chunks)
            BY <1>0 DEF Ends
          <6>2. Head(s.lru) = s.lru[1] /\ 1 \in 1 .. Len(s.lru)
            BY <5>2, <6>1, HeadTail
          <6> QED BY <6>2 DEF EndOK, Listed
        <5>4. /\ Keeps(s, Evict(s)) /\ Evict(s).d = w.d
              /\ Evict(s).cache = [e \in DOMAIN s.cache \ {v} |-> s.cache[e]]
          BY <5>2, EvictKeeps
        <5>5. EndSound(w, A, D) /\ IsChunkOut(s, v, w)
          BY <5>3, WriteChunkSound, WriteChunkOut
        <5> HIDE DEF w, v
        <5>6. CacheSound(Evict(s))
          <6> SUFFICES ASSUME NEW e \in DOMAIN Evict(s).cache, NEW l \in Mine(e), NEW i \in Bytes
                       PROVE  /\ Evict(s).d.init[l][i] => Evict(s).cache[e].init[l][i]
                              /\ ~Evict(s).d.present[l] => ~Evict(s).cache[e].init[l][i]
            BY DEF CacheSound
          <6>1. e \in DOMAIN w.cache /\ w.cache[e] = s.cache[e] /\ Evict(s).cache[e] = s.cache[e]
            BY <5>3, <5>4, <5>5 DEF IsChunkOut
          <6> QED BY <5>4, <5>5, <6>1 DEF EndSound, CacheSound
        <5> QED BY <2>2, <4>2, <5>4, <5>6 DEF Keeps
      <4> QED BY <4>1, <4>2
    <3> HIDE DEF s1
    <3>3. r1.d = s1.d /\ r1.cache = With(s1.cache, c, Fetched(s1, c))
      BY <3>2 DEF EndOK, Ends
    <3> HIDE DEF r1, r
    <3>4. s1.d \in SoundFiles(A)
      BY <1>1, <3>1, <3>3 DEF Trail
    <3> SUFFICES ASSUME NEW e \in DOMAIN r1.cache, NEW l \in Mine(e), NEW i \in Bytes
                 PROVE  /\ r1.d.init[l][i] => r1.cache[e].init[l][i]
                        /\ ~r1.d.present[l] => ~r1.cache[e].init[l][i]
      BY <3>1 DEF CacheSound
    <3>5. CASE e = c
      <4>1. r1.cache[c] = Fetched(s1, c)
        BY <3>3 DEF With
      <4>2. r1.cache[c].init[l] = s1.d.init[l] /\ l \in Lines
        BY <3>5, <4>1 DEF Fetched, Mine
      <4>3. ~s1.d.present[l] => ~s1.d.init[l][i]
        BY <3>4, <4>2 DEF SoundFiles, FilesOK
      <4> QED BY <3>3, <3>5, <4>2, <4>3
    <3>6. CASE e # c
      <4>1. e \in DOMAIN s1.cache /\ r1.cache[e] = s1.cache[e]
        BY <3>3, <3>6 DEF With
      <4> QED BY <3>2, <3>3, <4>1 DEF CacheSound
    <3> QED BY <3>5, <3>6
  <2> QED BY <2>1, <2>2
<1>4. \A l \in Lines : \A i \in Bytes : Shown(load(r, l), i) \in A[l][i]
  BY <1>2 DEF Keeps, EndSound
<1> QED BY <1>1, <1>3, <1>4 DEF EndSound

\* A load.
LEMMA ReachedSound ==
  ASSUME NEW s, EndOK(s), NEW l \in Lines, cfg.cache \in Nat \ {0}, NEW A, NEW D, EndSound(s, A, D)
  PROVE  EndSound(Reached(s, l), A, D)
<1>1. CASE cfg.kind = "chunk" /\ s.d.present[l]
  <2>1. Chunk(l) \in Chunks
    BY DEF Chunks
  <2> QED BY <1>1, <2>1, EnsureSound DEF Reached
<1>2. CASE ~(cfg.kind = "chunk" /\ s.d.present[l])
  BY <1>2 DEF Reached
<1> QED BY <1>1, <1>2

\* What Kept leaves in the files and in the cache.
LEMMA KeptWhere ==
  ASSUME NEW s, EndOK(s), NEW l \in Lines, NEW b \in Block, cfg.cache \in Nat \ {0}
  PROVE  /\ cfg.kind # "chunk" => Kept(s, l, b).d = Line3(s, l, b)
         /\ cfg.kind = "chunk" =>
              LET e == ensure_chunk(s, Chunk(l))
                  k == Kept(s, l, b)
              IN  /\ k.d = e.d /\ DOMAIN k.cache = DOMAIN e.cache
                  /\ \A c \in DOMAIN e.cache : \A n \in Mine(c) :
                       k.cache[c].init[n] = IF n = l THEN b.init ELSE e.cache[c].init[n]
<1>1. CASE cfg.kind = "chunk"
  <2> DEFINE c == Chunk(l)
             e == ensure_chunk(s, c)
             k == Kept(s, l, b)
             j == [data |-> [e.cache[c].data EXCEPT ![l] = b.bytes], init |-> [e.cache[c].init EXCEPT ![l] = b.init],
                   meta |-> [e.cache[c].meta EXCEPT ![l] = MetaOf(b)], dirty |-> TRUE]
  <2>1. c \in Chunks /\ l \in Mine(c)
    BY DEF Chunks, Mine
  <2>2. Keeps(s, e) /\ c \in DOMAIN e.cache
    BY <1>1, <2>1, EnsureKeeps
  <2>3. EndOK(e) /\ e \in Ends
    BY <2>2 DEF Keeps, EndOK
  <2>4. k = [e EXCEPT !.cache[c] = j]
    BY <1>1 DEF Kept
  <2>5. e.cache[c].init \in [Mine(c) -> Flags] /\ j.init = [e.cache[c].init EXCEPT ![l] = b.init]
    BY <2>2, <2>3, CachedFacts
  <2>6. \A n \in Mine(c) : j.init[n] = IF n = l THEN b.init ELSE e.cache[c].init[n]
    BY <2>5
  <2> HIDE DEF j, k, e
  <2>7. k.d = e.d /\ k.cache = [e.cache EXCEPT ![c] = j]
    BY <2>3, <2>4 DEF Ends
  <2>8. ASSUME NEW m \in DOMAIN e.cache, NEW n \in Mine(m)
        PROVE  k.cache[m].init[n] = IF n = l THEN b.init ELSE e.cache[m].init[n]
    <3>1. CASE m = c
      BY <2>2, <2>6, <2>7, <3>1
    <3>2. CASE m # c
      <4>1. n # l
        BY <2>1, <3>2 DEF Mine
      <4> QED BY <2>7, <3>2, <4>1
    <3> QED BY <3>1, <3>2
  <2>9. k.d = e.d /\ DOMAIN k.cache = DOMAIN e.cache
    BY <2>7
  <2> QED BY <1>1, <2>8, <2>9 DEF k, e
<1>2. CASE cfg.kind # "chunk"
  <2> DEFINE F == {Line1(s, l, b), Line2(s, l, b), Line3(s, l, b)}
             s1 == Put(s, "data", At(l, b.bytes))
             s2 == Put(s1, "init", At(l, b.init))
             s3 == Put(s2, "meta", At(l, MetaOf(b)))
  <2>1. s \in Ends /\ s.d \in Files
    BY DEF EndOK, Ends
  <2>2. b.bytes \in Word /\ b.init \in Flags /\ MetaOf(b) \in Meta
    BY BlockParts
  <2>3. s.d.data \in [Lines -> Word] /\ s.d.init \in [Lines -> Flags] /\ s.d.meta \in [Lines -> Meta]
    BY <2>1 DEF Files
  <2>4. /\ At(l, b.bytes) \in Part(Lines, Word) /\ At(l, b.init) \in Part(Lines, Flags)
        /\ At(l, MetaOf(b)) \in Part(Lines, Meta)
    BY <2>2, AtPart
  <2>5. Over(At(l, b.bytes), s.d.data) = [s.d.data EXCEPT ![l] = b.bytes]
    BY <2>3, OverAt
  <2>6. Over(At(l, b.init), s.d.init) = [s.d.init EXCEPT ![l] = b.init]
    BY <2>3, OverAt
  <2>7. Over(At(l, MetaOf(b)), s.d.meta) = [s.d.meta EXCEPT ![l] = MetaOf(b)]
    BY <2>3, OverAt
  <2>8. IsPut(s, s1, [file |-> "data", to |-> At(l, b.bytes)], [s.d EXCEPT !.data = Over(At(l, b.bytes), s.d.data)])
    BY <2>1, <2>4, PutData, Zenon
  <2>9. s1 \in Ends /\ s1.d = Line1(s, l, b) /\ s1.d.init = s.d.init /\ s1.d.meta = s.d.meta /\ s1.d \in Files
    BY <2>1, <2>5, <2>8 DEF IsPut, Line1, Files
  <2> HIDE DEF s1
  <2>11. IsPut(s1, s2, [file |-> "init", to |-> At(l, b.init)], [s1.d EXCEPT !.init = Over(At(l, b.init), s1.d.init)])
    BY <2>9, <2>4, PutInits, Zenon
  <2>12. s2 \in Ends /\ s2.d = Line2(s, l, b) /\ s2.d.meta = s.d.meta
    BY <2>6, <2>9, <2>11 DEF IsPut, Line2, Files
  <2> HIDE DEF s2
  <2>14. IsPut(s2, s3, [file |-> "meta", to |-> At(l, MetaOf(b))],
               [s2.d EXCEPT !.meta = Over(At(l, MetaOf(b)), s2.d.meta)])
    BY <2>12, <2>4, PutMeta, Zenon
  <2>15. s3.d = Line3(s, l, b)
    BY <2>7, <2>12, <2>14 DEF IsPut, Line3
  <2>17. Kept(s, l, b) = s3
    BY <1>2 DEF Kept, s1, s2, s3
  <2> QED BY <1>2, <2>15, <2>17
<1> QED BY <1>1, <1>2

\* What store leaves in the cache.
LEMMA StoreWhere ==
  ASSUME NEW s, EndOK(s), NEW l \in Lines, NEW b \in Block, cfg.cache \in Nat \ {0}
  PROVE  /\ store(s, l, b).cache = Kept(s, l, b).cache
         /\ store(s, l, b).d.init = Kept(s, l, b).d.init
<1> DEFINE k == Kept(s, l, b)
           p == MadePresent(s, k, l)
           is == b.version > 0
           r == MadeWritten(s, p, l, is)
<1>1. IsKept(s, l, b, k)
  BY KeptInFiles, KeptInCache
<1> HIDE DEF k
<1>2. EndOK(k) /\ is \in BOOLEAN
  BY <1>1, BlockParts DEF IsKept
<1>3. EndOK(p) /\ p.cache = k.cache /\ p.d.init = k.d.init
  <2>1. CASE s.d.present[l]
    BY <1>2, <2>1 DEF MadePresent
  <2>2. CASE ~s.d.present[l]
    <3>1. p = [Put(k, "present", At(l, TRUE)) EXCEPT !.allocated = @ + 1]
      BY <2>2 DEF MadePresent
    <3>2. IsMapped(k, [file |-> "present", to |-> At(l, TRUE)], p,
                   [k.d.present EXCEPT ![l] = TRUE], k.d.written, k.allocated + 1, k.unique)
      BY <1>2, <3>1, PresentFacts, Zenon
    <3> HIDE DEF p
    <3> QED BY <3>2 DEF IsMapped
  <2> QED BY <2>1, <2>2
<1> HIDE DEF p, is
<1>4. r.cache = p.cache /\ r.d.init = p.d.init
  <2>1. CASE is = s.d.written[l]
    BY <2>1 DEF MadeWritten
  <2>2. CASE is # s.d.written[l]
    <3>1. r = [Put(p, "written", At(l, is)) EXCEPT !.unique = IF is THEN @ + 1 ELSE @ - 1]
      BY <2>2 DEF MadeWritten
    <3> HIDE DEF r
    <3>2. PICK n : n = IF is THEN p.unique + 1 ELSE p.unique - 1
      OBVIOUS
    <3>3. IsMapped(p, [file |-> "written", to |-> At(l, is)], r, p.d.present, [p.d.written EXCEPT ![l] = is],
                   p.allocated, n)
      BY <1>2, <1>3, <3>1, <3>2, WrittenFacts, Zenon
    <3> QED BY <3>3 DEF IsMapped
  <2> QED BY <2>1, <2>2
<1> HIDE DEF r
<1>5. store(s, l, b) = r
  BY StoreParts DEF k, p, r, is
<1> QED BY <1>3, <1>4, <1>5 DEF k

\* b may be stored for l: it has what the line has, and shows what it may.
MayStore(s, l, b, A) ==
    \A i \in Bytes : (load(s, l).init[i] => b.init[i]) /\ Shown(b, i) \in A[l][i]

\* store, with a line that may be stored.
LEMMA StoreSound ==
  ASSUME NEW s, EndOK(s), NEW l \in Lines, NEW b \in Block, cfg.cache \in Nat \ {0},
         NEW A, NEW D, EndSound(s, A, D), MayStore(s, l, b, A)
  PROVE  EndSound(store(s, l, b), A, D)
<1> DEFINE r == store(s, l, b)
           k == Kept(s, l, b)
           e == ensure_chunk(s, Chunk(l))
           F == SoundFiles(A)
<1>1. IsStored(s, l, b, r)
  BY StoreFacts
<1>2. s.d \in Files /\ s.d.present \in [Lines -> BOOLEAN] /\ Trail(s, F, D) /\ FilesOK(s.d, A)
  BY DEF EndOK, Ends, Files, EndSound, Trail, SoundFiles
<1>3. s.d.data \in [Lines -> Word] /\ s.d.init \in [Lines -> Flags]
  BY <1>2 DEF Files
<1>4. cfg.kind # "chunk" => Line1(s, l, b) \in F /\ Line2(s, l, b) \in F /\ Line3(s, l, b) \in F
  <2> SUFFICES ASSUME cfg.kind # "chunk" PROVE Line1(s, l, b) \in F /\ Line2(s, l, b) \in F /\ Line3(s, l, b) \in F
    OBVIOUS
  <2>1. /\ Line1(s, l, b) \in Files /\ Line2(s, l, b) \in Files /\ Line3(s, l, b) \in Files
        /\ Line1(s, l, b).present = s.d.present /\ Line2(s, l, b).present = s.d.present
        /\ Line3(s, l, b).present = s.d.present
        /\ Line1(s, l, b).data = [s.d.data EXCEPT ![l] = b.bytes] /\ Line1(s, l, b).init = s.d.init
        /\ Line2(s, l, b).data = [s.d.data EXCEPT ![l] = b.bytes] /\ Line2(s, l, b).init = [s.d.init EXCEPT ![l] = b.init]
        /\ Line3(s, l, b).data = [s.d.data EXCEPT ![l] = b.bytes] /\ Line3(s, l, b).init = [s.d.init EXCEPT ![l] = b.init]
    BY LineFiles
  <2>2. ASSUME NEW n \in Lines, NEW i \in Bytes
        PROVE  /\ ShownIn(Line1(s, l, b), n, i) \in A[n][i]
               /\ ShownIn(Line2(s, l, b), n, i) \in A[n][i]
               /\ ShownIn(Line3(s, l, b), n, i) \in A[n][i]
    <3>1. ShownIn(s.d, n, i) \in A[n][i]
      BY <1>2 DEF FilesOK
    <3>2. CASE n # l
      BY <1>3, <2>1, <3>1, <3>2 DEF ShownIn
    <3>3. CASE n = l
      <4>1. s.d.present[l] => load(s, l).init = s.d.init[l]
        BY DEF load
      <4>2. s.d.present[l] /\ s.d.init[l][i] => b.init[i]
        BY <4>1 DEF MayStore
      <4>3. (IF b.init[i] THEN b.bytes[i] ELSE None) \in A[l][i]
        BY DEF MayStore, Shown
      <4>4. /\ Line1(s, l, b).data[l] = b.bytes /\ Line1(s, l, b).init[l] = s.d.init[l]
            /\ Line2(s, l, b).data[l] = b.bytes /\ Line2(s, l, b).init[l] = b.init
            /\ Line3(s, l, b).data[l] = b.bytes /\ Line3(s, l, b).init[l] = b.init
        BY <1>3, <2>1
      <4> QED BY <2>1, <3>1, <3>3, <4>2, <4>3, <4>4 DEF ShownIn
    <3> QED BY <3>2, <3>3
  <2> QED BY <2>1, <2>2 DEF SoundFiles, FilesOK
<1>5. \A f \in F : \A g \in [Lines -> BOOLEAN] : [f EXCEPT !.written = g] \in F
  <2> SUFFICES ASSUME NEW f \in F, NEW g \in [Lines -> BOOLEAN] PROVE [f EXCEPT !.written = g] \in F
    OBVIOUS
  <2> DEFINE h == [f EXCEPT !.written = g]
  <2>1. f \in Files /\ FilesOK(f, A)
    BY DEF SoundFiles
  <2>2. h \in Files /\ h.present = f.present /\ h.init = f.init /\ h.data = f.data
    BY <2>1 DEF Files
  <2> HIDE DEF h
  <2>3. FilesOK(h, A)
    BY <2>1, <2>2 DEF FilesOK, ShownIn
  <2>4. h \in F
    BY <2>2, <2>3 DEF SoundFiles
  <2> QED BY <2>4 DEF h
<1>6. Writable(s, F)
  BY SoundWritable
<1>7. Trail(k, F, D)
  BY <1>2, <1>4, <1>6, KeptTrail
<1>8. IsKept(s, l, b, k)
  BY KeptInFiles, KeptInCache
<1>9. /\ cfg.kind # "chunk" => k.d = Line3(s, l, b)
      /\ cfg.kind = "chunk" =>
            /\ k.d = e.d /\ DOMAIN k.cache = DOMAIN e.cache
            /\ \A c \in DOMAIN e.cache : \A n \in Mine(c) :
                  k.cache[c].init[n] = IF n = l THEN b.init ELSE e.cache[c].init[n]
  BY KeptWhere
<1>10. r.cache = k.cache /\ r.d.init = k.d.init
  BY StoreWhere
<1> HIDE DEF k, r
<1>11. ~s.d.present[l] => [k.d EXCEPT !.present = [s.d.present EXCEPT ![l] = TRUE]] \in F
  <2> SUFFICES ASSUME ~s.d.present[l] PROVE [k.d EXCEPT !.present = [s.d.present EXCEPT ![l] = TRUE]] \in F
    OBVIOUS
  <2> DEFINE h == [k.d EXCEPT !.present = [s.d.present EXCEPT ![l] = TRUE]]
  <2>1. k.d \in Files /\ FilesOK(k.d, A) /\ k.d.present = s.d.present
    BY <1>7, <1>8 DEF Trail, SoundFiles, IsKept
  <2>2. h \in Files /\ h.present = [s.d.present EXCEPT ![l] = TRUE] /\ h.init = k.d.init /\ h.data = k.d.data
    BY <1>2, <2>1 DEF Files
  <2> HIDE DEF h
  <2>3. ASSUME NEW n \in Lines, NEW i \in Bytes
        PROVE  ShownIn(h, n, i) \in A[n][i] /\ (cfg.kind = "chunk" /\ ~h.present[n] => ~h.init[n][i])
    <3>1. ShownIn(k.d, n, i) \in A[n][i] /\ (cfg.kind = "chunk" /\ ~k.d.present[n] => ~k.d.init[n][i])
      BY <2>1 DEF FilesOK
    <3>2. CASE n # l
      BY <1>2, <2>1, <2>2, <3>1, <3>2 DEF ShownIn
    <3>3. CASE n = l /\ cfg.kind = "chunk"
      <4>1. ~k.d.init[n][i] /\ None \in A[n][i]
        BY <2>1, <3>1, <3>3 DEF ShownIn
      <4> QED BY <1>2, <2>2, <3>3, <4>1 DEF ShownIn
    <3>4. CASE n = l /\ cfg.kind # "chunk"
      <4>1. k.d.data[l] = b.bytes /\ k.d.init[l] = b.init
        <5>1. k.d = Line3(s, l, b)
          BY <1>9, <3>4
        <5>2. Line3(s, l, b).data = [s.d.data EXCEPT ![l] = b.bytes] /\ Line3(s, l, b).init = [s.d.init EXCEPT ![l] = b.init]
          BY LineFiles
        <5> QED BY <1>3, <5>1, <5>2
      <4>2. (IF b.init[i] THEN b.bytes[i] ELSE None) \in A[l][i]
        BY DEF MayStore, Shown
      <4> QED BY <1>2, <2>2, <3>4, <4>1, <4>2 DEF ShownIn
    <3> QED BY <3>2, <3>3, <3>4
  <2>4. h \in F
    BY <2>2, <2>3 DEF SoundFiles, FilesOK
  <2> QED BY <2>4 DEF h
<1>12. Trail(r, F, D)
  BY <1>2, <1>4, <1>5, <1>6, <1>11, StoreTrail DEF k, r
<1>13. CacheSound(r)
  <2>1. CASE cfg.kind # "chunk"
    <3>1. DOMAIN r.cache = {}
      BY <1>1, <2>1 DEF IsStored, EndOK, Listed
    <3> QED BY <3>1 DEF CacheSound
  <2>2. CASE cfg.kind = "chunk"
    <3>0. Chunk(l) \in Chunks
      BY DEF Chunks
    <3>1. EndSound(e, A, D) /\ Keeps(s, e)
      BY <2>2, <3>0, EnsureSound, EnsureKeeps
    <3> HIDE DEF e
    <3> SUFFICES ASSUME NEW c \in DOMAIN r.cache, NEW n \in Mine(c), NEW i \in Bytes
                 PROVE  /\ r.d.init[n][i] => r.cache[c].init[n][i]
                        /\ ~r.d.present[n] => ~r.cache[c].init[n][i]
      BY DEF CacheSound
    <3>2. c \in DOMAIN e.cache /\ r.cache[c].init[n] = IF n = l THEN b.init ELSE e.cache[c].init[n]
      BY <1>9, <1>10, <2>2
    <3>3. r.d.init = e.d.init /\ r.d.present = [s.d.present EXCEPT ![l] = TRUE] /\ e.d.present = s.d.present
      BY <1>1, <1>9, <1>10, <2>2, <3>1 DEF IsStored, Keeps
    <3>4. /\ e.d.init[n][i] => e.cache[c].init[n][i]
          /\ ~e.d.present[n] => ~e.cache[c].init[n][i]
      BY <3>1, <3>2 DEF EndSound, CacheSound
    <3>5. n \in Lines /\ Chunk(n) = c
      BY DEF Mine
    <3>6. CASE n # l
      BY <1>2, <3>2, <3>3, <3>4, <3>5, <3>6
    <3>7. CASE n = l
      <4>1. e.d.init[l][i] => b.init[i]
        <5> SUFFICES ASSUME e.d.init[l][i] PROVE b.init[i]
          OBVIOUS
        <5>1. e.cache[c].init[l][i] /\ e.d.present[l]
          BY <1>2, <3>3, <3>4, <3>7
        <5>2. load(e, l).init = e.cache[c].init[l]
          BY <2>2, <3>2, <3>5, <3>7, <5>1 DEF load
        <5>3. load(s, l).init[i]
          BY <3>1, <5>1, <5>2 DEF Keeps
        <5> QED BY <5>3 DEF MayStore
      <4> QED BY <1>2, <3>2, <3>3, <3>7, <4>1
    <3> QED BY <3>6, <3>7
  <2> QED BY <2>1, <2>2
<1>14. ASSUME NEW n \in Lines, NEW i \in Bytes PROVE Shown(load(r, n), i) \in A[n][i]
  <2>1. CASE n = l
    BY <1>1, <2>1 DEF IsStored, MayStore
  <2>2. CASE n # l
    BY <1>1, <2>2 DEF IsStored, EndSound
  <2> QED BY <2>1, <2>2
<1> QED BY <1>12, <1>13, <1>14 DEF EndSound, r

(***************************************************************************)
(* Folds.                                                                  *)
(***************************************************************************)
\* The elements of a finite set, in some order.
LEMMA SetToSeqFacts ==
  ASSUME NEW S, IsFiniteSet(S)
  PROVE  LET q == SetToSeq(S) IN
         /\ q \in Seq(S) /\ Len(q) \in Nat /\ DOMAIN q = 1 .. Len(q) /\ Distinct(q)
         /\ \A i \in 1 .. Len(q) : q[i] \in S
         /\ \A x \in S : \E i \in 1 .. Len(q) : q[i] = x
<1> DEFINE n == Cardinality(S)
           q == SetToSeq(S)
<1>1. n \in Nat /\ \E f : f \in [1 .. n -> S] /\ IsInjective(f)
  <2>1. n \in Nat /\ ExistsBijection(1 .. n, S)
    BY FS_CardinalityType
  <2>2. PICK f : f \in Bijection(1 .. n, S)
    BY <2>1 DEF ExistsBijection
  <2> QED BY <2>1, <2>2 DEF Bijection, Injection
<1>2. q \in [1 .. n -> S] /\ IsInjective(q)
  BY <1>1, Zenon DEF SetToSeq
<1> HIDE DEF q
<1>3. q \in Injection(1 .. n, S)
  BY <1>2 DEF Injection
<1>4. IsFiniteSet(1 .. n) /\ Cardinality(1 .. n) = n
  BY <1>1, FS_Interval
<1>5. q \in Surjection(1 .. n, S)
  BY <1>3, <1>4, FS_Injection
<1>6. q \in Seq(S) /\ Len(q) = n /\ DOMAIN q = 1 .. n
  BY <1>1, <1>2
<1>7. Distinct(q)
  BY <1>2, <1>6 DEF Distinct, IsInjective
<1>8. \A x \in S : \E i \in 1 .. n : q[i] = x
  BY <1>5 DEF Surjection
<1> QED BY <1>1, <1>2, <1>6, <1>7, <1>8 DEF q

\* The image of a finite set.
LEMMA ImageFinite ==
  ASSUME NEW S, NEW f, f = [x \in S |-> f[x]], IsFiniteSet(S)
  PROVE  IsFiniteSet({f[x] : x \in S})
<1> DEFINE T == {f[x] : x \in S}
<1>1. f \in Surjection(S, T)
  BY DEF Surjection
<1> HIDE DEF T
<1>2. IsFiniteSet(T)
  BY <1>1, FS_Surjection
<1> QED BY <1>2 DEF T

\* The other order.
LEMMA ReverseFacts ==
  ASSUME NEW S, NEW q \in Seq(S)
  PROVE  /\ Reverse(q) \in Seq(S) /\ Len(Reverse(q)) = Len(q)
         /\ \A i \in 1 .. Len(q) : \E j \in 1 .. Len(q) : Reverse(q)[j] = q[i]
<1> DEFINE n == Len(q)
           r == Reverse(q)
<1>1. n \in Nat
  OBVIOUS
<1>2. r = [i \in 1 .. n |-> q[(n - i) + 1]]
  BY DEF Reverse
<1> HIDE DEF r
<1>3. r \in [1 .. n -> S]
  <2>1. \A i \in 1 .. n : (n - i) + 1 \in 1 .. n
    BY <1>1
  <2> QED BY <1>2, <2>1
<1>4. r \in Seq(S) /\ Len(r) = n
  BY <1>1, <1>3
<1>5. ASSUME NEW i \in 1 .. n PROVE \E j \in 1 .. n : r[j] = q[i]
  <2>1. (n - i) + 1 \in 1 .. n /\ (n - ((n - i) + 1)) + 1 = i
    BY <1>1
  <2>2. r[(n - i) + 1] = q[i]
    BY <1>2, <2>1
  <2> QED BY <2>1, <2>2
<1> QED BY <1>4, <1>5 DEF r

WriteChunks(a, q)           == FoldLeft(write_chunk, a, q)
WriteChunksIn(T, q, n)      == \A i \in 1 .. n : \A t \in T : write_chunk(t, q[i]) \in T
WriteChunksBy(c, T, a, q, n) ==
    /\ c \in [0 .. n -> T] /\ c[0] = a /\ c[n] = WriteChunks(a, q)
    /\ \A i \in 1 .. n : c[i] = write_chunk(c[i - 1], q[i])

\* The chunks are written one after the other; T has all the states on the way.
LEMMA WriteChunkRun ==
  ASSUME NEW T, NEW a \in T, NEW q, NEW n \in Nat, DOMAIN q = 1 .. n, WriteChunksIn(T, q, n)
  PROVE  \E c : WriteChunksBy(c, T, a, q, n)
<1> DEFINE h == [i \in 1 .. n |-> [t \in T |-> write_chunk(t, q[i])]]
           Eq(it) == it = [z \in SUBSET DOMAIN q |->
                             IF z = {} THEN a ELSE write_chunk(it[z \ {Max(z)}], q[Max(z)])]
           it == CHOOSE g : Eq(g)
<1>1. h \in [1 .. n -> [T -> T]]
  BY DEF WriteChunksIn
<1>2. \A i \in 1 .. n : \A t \in T : h[i][t] = write_chunk(t, q[i])
  OBVIOUS
<1> HIDE DEF h
<1>3. PICK g \in [SUBSET (1 .. n) -> T] : IsIter(g, n, a, h)
  BY <1>1, FoldIter
<1>4. /\ g[{}] = a
      /\ \A z \in SUBSET (1 .. n) : z # {} => g[z] = h[Max(z)][g[z \ {Max(z)}]]
  BY <1>3, Zenon DEF IsIter
<1>5. ASSUME NEW z \in SUBSET (1 .. n), z # {} PROVE g[z] = write_chunk(g[z \ {Max(z)}], q[Max(z)])
  <2>1. Max(z) \in 1 .. n /\ z \ {Max(z)} \in SUBSET (1 .. n)
    BY <1>5, MaxFacts
  <2>2. g[z \ {Max(z)}] \in T
    BY <2>1
  <2> QED BY <1>2, <1>4, <1>5, <2>1, <2>2
<1>6. Eq(g)
  BY <1>4, <1>5
<1>7. Eq(it)
  <2> HIDE DEF Eq
  <2> QED BY <1>6
<1>8. WriteChunks(a, q) = it[DOMAIN q]
  BY DEF WriteChunks, FoldLeft, MapThenFoldSet
<1> HIDE DEF it
<1> DEFINE c == [i \in 0 .. n |-> it[1 .. i]]
<1>9. it[{}] = a /\ \A z \in SUBSET (1 .. n) : z # {} => it[z] = write_chunk(it[z \ {Max(z)}], q[Max(z)])
  BY <1>7
<1>10. c[0] = a /\ c[n] = WriteChunks(a, q)
  BY <1>8, <1>9
<1>11. ASSUME NEW i \in 1 .. n PROVE c[i] = write_chunk(c[i - 1], q[i])
  <2>1. /\ 1 .. i \in SUBSET (1 .. n) /\ 1 .. i # {} /\ Max(1 .. i) = i
        /\ (1 .. i) \ {i} = 1 .. (i - 1)
    BY IntervalParts
  <2>2. c[i] = it[1 .. i] /\ c[i - 1] = it[1 .. (i - 1)]
    OBVIOUS
  <2> QED BY <1>9, <2>1, <2>2
<1>12. c = [i \in 0 .. n |-> c[i]]
  OBVIOUS
<1> HIDE DEF c, Eq
<1>13. \A i \in 1 .. n : c[i - 1] \in T => c[i] \in T
  BY <1>11 DEF WriteChunksIn
<1>14. \A i \in 0 .. n : c[i] \in T
  BY <1>10, <1>13, Along, Zenon
<1>15. WriteChunksBy(c, T, a, q, n)
  BY <1>10, <1>11, <1>12, <1>14 DEF WriteChunksBy
<1> QED BY <1>15

StoreColumns(a, q)           == FoldLeft(StoreColumn, a, q)
StoreColumnsIn(T, q, n)      == \A i \in 1 .. n : \A t \in T : StoreColumn(t, q[i]) \in T
StoreColumnsBy(c, T, a, q, n) ==
    /\ c \in [0 .. n -> T] /\ c[0] = a /\ c[n] = StoreColumns(a, q)
    /\ \A i \in 1 .. n : c[i] = StoreColumn(c[i - 1], q[i])

\* The columns of a row are stored one after the other.
LEMMA StoreColumnRun ==
  ASSUME NEW T, NEW a \in T, NEW q, NEW n \in Nat, DOMAIN q = 1 .. n, StoreColumnsIn(T, q, n)
  PROVE  \E c : StoreColumnsBy(c, T, a, q, n)
<1> DEFINE h == [i \in 1 .. n |-> [t \in T |-> StoreColumn(t, q[i])]]
           Eq(it) == it = [z \in SUBSET DOMAIN q |->
                             IF z = {} THEN a ELSE StoreColumn(it[z \ {Max(z)}], q[Max(z)])]
           it == CHOOSE g : Eq(g)
<1>1. h \in [1 .. n -> [T -> T]]
  BY DEF StoreColumnsIn
<1>2. \A i \in 1 .. n : \A t \in T : h[i][t] = StoreColumn(t, q[i])
  OBVIOUS
<1> HIDE DEF h
<1>3. PICK g \in [SUBSET (1 .. n) -> T] : IsIter(g, n, a, h)
  BY <1>1, FoldIter
<1>4. /\ g[{}] = a
      /\ \A z \in SUBSET (1 .. n) : z # {} => g[z] = h[Max(z)][g[z \ {Max(z)}]]
  BY <1>3, Zenon DEF IsIter
<1>5. ASSUME NEW z \in SUBSET (1 .. n), z # {} PROVE g[z] = StoreColumn(g[z \ {Max(z)}], q[Max(z)])
  <2>1. Max(z) \in 1 .. n /\ z \ {Max(z)} \in SUBSET (1 .. n)
    BY <1>5, MaxFacts
  <2>2. g[z \ {Max(z)}] \in T
    BY <2>1
  <2> QED BY <1>2, <1>4, <1>5, <2>1, <2>2
<1>6. Eq(g)
  BY <1>4, <1>5
<1>7. Eq(it)
  <2> HIDE DEF Eq
  <2> QED BY <1>6
<1>8. StoreColumns(a, q) = it[DOMAIN q]
  BY DEF StoreColumns, FoldLeft, MapThenFoldSet
<1> HIDE DEF it
<1> DEFINE c == [i \in 0 .. n |-> it[1 .. i]]
<1>9. it[{}] = a /\ \A z \in SUBSET (1 .. n) : z # {} => it[z] = StoreColumn(it[z \ {Max(z)}], q[Max(z)])
  BY <1>7
<1>10. c[0] = a /\ c[n] = StoreColumns(a, q)
  BY <1>8, <1>9
<1>11. ASSUME NEW i \in 1 .. n PROVE c[i] = StoreColumn(c[i - 1], q[i])
  <2>1. /\ 1 .. i \in SUBSET (1 .. n) /\ 1 .. i # {} /\ Max(1 .. i) = i
        /\ (1 .. i) \ {i} = 1 .. (i - 1)
    BY IntervalParts
  <2>2. c[i] = it[1 .. i] /\ c[i - 1] = it[1 .. (i - 1)]
    OBVIOUS
  <2> QED BY <1>9, <2>1, <2>2
<1>12. c = [i \in 0 .. n |-> c[i]]
  OBVIOUS
<1> HIDE DEF c, Eq
<1>13. \A i \in 1 .. n : c[i - 1] \in T => c[i] \in T
  BY <1>11 DEF StoreColumnsIn
<1>14. \A i \in 0 .. n : c[i] \in T
  BY <1>10, <1>13, Along, Zenon
<1>15. StoreColumnsBy(c, T, a, q, n)
  BY <1>10, <1>11, <1>12, <1>14 DEF StoreColumnsBy
<1> QED BY <1>15

Writebacks(a, q)           == FoldLeft(writeback_row_buffer, a, q)
WritebacksIn(T, q, n)      == \A i \in 1 .. n : \A t \in T : writeback_row_buffer(t, q[i]) \in T
WritebacksBy(c, T, a, q, n) ==
    /\ c \in [0 .. n -> T] /\ c[0] = a /\ c[n] = Writebacks(a, q)
    /\ \A i \in 1 .. n : c[i] = writeback_row_buffer(c[i - 1], q[i])

\* The rows of the banks are written back one after the other.
LEMMA WritebackRun ==
  ASSUME NEW T, NEW a \in T, NEW q, NEW n \in Nat, DOMAIN q = 1 .. n, WritebacksIn(T, q, n)
  PROVE  \E c : WritebacksBy(c, T, a, q, n)
<1> DEFINE h == [i \in 1 .. n |-> [t \in T |-> writeback_row_buffer(t, q[i])]]
           Eq(it) == it = [z \in SUBSET DOMAIN q |->
                             IF z = {} THEN a ELSE writeback_row_buffer(it[z \ {Max(z)}], q[Max(z)])]
           it == CHOOSE g : Eq(g)
<1>1. h \in [1 .. n -> [T -> T]]
  BY DEF WritebacksIn
<1>2. \A i \in 1 .. n : \A t \in T : h[i][t] = writeback_row_buffer(t, q[i])
  OBVIOUS
<1> HIDE DEF h
<1>3. PICK g \in [SUBSET (1 .. n) -> T] : IsIter(g, n, a, h)
  BY <1>1, FoldIter
<1>4. /\ g[{}] = a
      /\ \A z \in SUBSET (1 .. n) : z # {} => g[z] = h[Max(z)][g[z \ {Max(z)}]]
  BY <1>3, Zenon DEF IsIter
<1>5. ASSUME NEW z \in SUBSET (1 .. n), z # {} PROVE g[z] = writeback_row_buffer(g[z \ {Max(z)}], q[Max(z)])
  <2>1. Max(z) \in 1 .. n /\ z \ {Max(z)} \in SUBSET (1 .. n)
    BY <1>5, MaxFacts
  <2>2. g[z \ {Max(z)}] \in T
    BY <2>1
  <2> QED BY <1>2, <1>4, <1>5, <2>1, <2>2
<1>6. Eq(g)
  BY <1>4, <1>5
<1>7. Eq(it)
  <2> HIDE DEF Eq
  <2> QED BY <1>6
<1>8. Writebacks(a, q) = it[DOMAIN q]
  BY DEF Writebacks, FoldLeft, MapThenFoldSet
<1> HIDE DEF it
<1> DEFINE c == [i \in 0 .. n |-> it[1 .. i]]
<1>9. it[{}] = a /\ \A z \in SUBSET (1 .. n) : z # {} => it[z] = writeback_row_buffer(it[z \ {Max(z)}], q[Max(z)])
  BY <1>7
<1>10. c[0] = a /\ c[n] = Writebacks(a, q)
  BY <1>8, <1>9
<1>11. ASSUME NEW i \in 1 .. n PROVE c[i] = writeback_row_buffer(c[i - 1], q[i])
  <2>1. /\ 1 .. i \in SUBSET (1 .. n) /\ 1 .. i # {} /\ Max(1 .. i) = i
        /\ (1 .. i) \ {i} = 1 .. (i - 1)
    BY IntervalParts
  <2>2. c[i] = it[1 .. i] /\ c[i - 1] = it[1 .. (i - 1)]
    OBVIOUS
  <2> QED BY <1>9, <2>1, <2>2
<1>12. c = [i \in 0 .. n |-> c[i]]
  OBVIOUS
<1> HIDE DEF c, Eq
<1>13. \A i \in 1 .. n : c[i - 1] \in T => c[i] \in T
  BY <1>11 DEF WritebacksIn
<1>14. \A i \in 0 .. n : c[i] \in T
  BY <1>10, <1>13, Along, Zenon
<1>15. WritebacksBy(c, T, a, q, n)
  BY <1>10, <1>11, <1>12, <1>14 DEF WritebacksBy
<1> QED BY <1>15

Flushes(a, q)           == FoldLeft(Flushed, a, q)
FlushesIn(T, q, n)      == \A i \in 1 .. n : \A t \in T : Flushed(t, q[i]) \in T
FlushesBy(c, T, a, q, n) ==
    /\ c \in [0 .. n -> T] /\ c[0] = a /\ c[n] = Flushes(a, q)
    /\ \A i \in 1 .. n : c[i] = Flushed(c[i - 1], q[i])

\* The same for a checkpoint.
LEMMA FlushedRun ==
  ASSUME NEW T, NEW a \in T, NEW q, NEW n \in Nat, DOMAIN q = 1 .. n, FlushesIn(T, q, n)
  PROVE  \E c : FlushesBy(c, T, a, q, n)
<1> DEFINE h == [i \in 1 .. n |-> [t \in T |-> Flushed(t, q[i])]]
           Eq(it) == it = [z \in SUBSET DOMAIN q |->
                             IF z = {} THEN a ELSE Flushed(it[z \ {Max(z)}], q[Max(z)])]
           it == CHOOSE g : Eq(g)
<1>1. h \in [1 .. n -> [T -> T]]
  BY DEF FlushesIn
<1>2. \A i \in 1 .. n : \A t \in T : h[i][t] = Flushed(t, q[i])
  OBVIOUS
<1> HIDE DEF h
<1>3. PICK g \in [SUBSET (1 .. n) -> T] : IsIter(g, n, a, h)
  BY <1>1, FoldIter
<1>4. /\ g[{}] = a
      /\ \A z \in SUBSET (1 .. n) : z # {} => g[z] = h[Max(z)][g[z \ {Max(z)}]]
  BY <1>3, Zenon DEF IsIter
<1>5. ASSUME NEW z \in SUBSET (1 .. n), z # {} PROVE g[z] = Flushed(g[z \ {Max(z)}], q[Max(z)])
  <2>1. Max(z) \in 1 .. n /\ z \ {Max(z)} \in SUBSET (1 .. n)
    BY <1>5, MaxFacts
  <2>2. g[z \ {Max(z)}] \in T
    BY <2>1
  <2> QED BY <1>2, <1>4, <1>5, <2>1, <2>2
<1>6. Eq(g)
  BY <1>4, <1>5
<1>7. Eq(it)
  <2> HIDE DEF Eq
  <2> QED BY <1>6
<1>8. Flushes(a, q) = it[DOMAIN q]
  BY DEF Flushes, FoldLeft, MapThenFoldSet
<1> HIDE DEF it
<1> DEFINE c == [i \in 0 .. n |-> it[1 .. i]]
<1>9. it[{}] = a /\ \A z \in SUBSET (1 .. n) : z # {} => it[z] = Flushed(it[z \ {Max(z)}], q[Max(z)])
  BY <1>7
<1>10. c[0] = a /\ c[n] = Flushes(a, q)
  BY <1>8, <1>9
<1>11. ASSUME NEW i \in 1 .. n PROVE c[i] = Flushed(c[i - 1], q[i])
  <2>1. /\ 1 .. i \in SUBSET (1 .. n) /\ 1 .. i # {} /\ Max(1 .. i) = i
        /\ (1 .. i) \ {i} = 1 .. (i - 1)
    BY IntervalParts
  <2>2. c[i] = it[1 .. i] /\ c[i - 1] = it[1 .. (i - 1)]
    OBVIOUS
  <2> QED BY <1>9, <2>1, <2>2
<1>12. c = [i \in 0 .. n |-> c[i]]
  OBVIOUS
<1> HIDE DEF c, Eq
<1>13. \A i \in 1 .. n : c[i - 1] \in T => c[i] \in T
  BY <1>11 DEF FlushesIn
<1>14. \A i \in 0 .. n : c[i] \in T
  BY <1>10, <1>13, Along, Zenon
<1>15. FlushesBy(c, T, a, q, n)
  BY <1>10, <1>11, <1>12, <1>14 DEF FlushesBy
<1> QED BY <1>15

Reaches(a, q)           == FoldLeft(Reached, a, q)
ReachesIn(T, q, n)      == \A i \in 1 .. n : \A t \in T : Reached(t, q[i]) \in T
ReachesBy(c, T, a, q, n) ==
    /\ c \in [0 .. n -> T] /\ c[0] = a /\ c[n] = Reaches(a, q)
    /\ \A i \in 1 .. n : c[i] = Reached(c[i - 1], q[i])

\* The lines are read one after the other.
LEMMA ReachedRun ==
  ASSUME NEW T, NEW a \in T, NEW q, NEW n \in Nat, DOMAIN q = 1 .. n, ReachesIn(T, q, n)
  PROVE  \E c : ReachesBy(c, T, a, q, n)
<1> DEFINE h == [i \in 1 .. n |-> [t \in T |-> Reached(t, q[i])]]
           Eq(it) == it = [z \in SUBSET DOMAIN q |->
                             IF z = {} THEN a ELSE Reached(it[z \ {Max(z)}], q[Max(z)])]
           it == CHOOSE g : Eq(g)
<1>1. h \in [1 .. n -> [T -> T]]
  BY DEF ReachesIn
<1>2. \A i \in 1 .. n : \A t \in T : h[i][t] = Reached(t, q[i])
  OBVIOUS
<1> HIDE DEF h
<1>3. PICK g \in [SUBSET (1 .. n) -> T] : IsIter(g, n, a, h)
  BY <1>1, FoldIter
<1>4. /\ g[{}] = a
      /\ \A z \in SUBSET (1 .. n) : z # {} => g[z] = h[Max(z)][g[z \ {Max(z)}]]
  BY <1>3, Zenon DEF IsIter
<1>5. ASSUME NEW z \in SUBSET (1 .. n), z # {} PROVE g[z] = Reached(g[z \ {Max(z)}], q[Max(z)])
  <2>1. Max(z) \in 1 .. n /\ z \ {Max(z)} \in SUBSET (1 .. n)
    BY <1>5, MaxFacts
  <2>2. g[z \ {Max(z)}] \in T
    BY <2>1
  <2> QED BY <1>2, <1>4, <1>5, <2>1, <2>2
<1>6. Eq(g)
  BY <1>4, <1>5
<1>7. Eq(it)
  <2> HIDE DEF Eq
  <2> QED BY <1>6
<1>8. Reaches(a, q) = it[DOMAIN q]
  BY DEF Reaches, FoldLeft, MapThenFoldSet
<1> HIDE DEF it
<1> DEFINE c == [i \in 0 .. n |-> it[1 .. i]]
<1>9. it[{}] = a /\ \A z \in SUBSET (1 .. n) : z # {} => it[z] = Reached(it[z \ {Max(z)}], q[Max(z)])
  BY <1>7
<1>10. c[0] = a /\ c[n] = Reaches(a, q)
  BY <1>8, <1>9
<1>11. ASSUME NEW i \in 1 .. n PROVE c[i] = Reached(c[i - 1], q[i])
  <2>1. /\ 1 .. i \in SUBSET (1 .. n) /\ 1 .. i # {} /\ Max(1 .. i) = i
        /\ (1 .. i) \ {i} = 1 .. (i - 1)
    BY IntervalParts
  <2>2. c[i] = it[1 .. i] /\ c[i - 1] = it[1 .. (i - 1)]
    OBVIOUS
  <2> QED BY <1>9, <2>1, <2>2
<1>12. c = [i \in 0 .. n |-> c[i]]
  OBVIOUS
<1> HIDE DEF c, Eq
<1>13. \A i \in 1 .. n : c[i - 1] \in T => c[i] \in T
  BY <1>11 DEF ReachesIn
<1>14. \A i \in 0 .. n : c[i] \in T
  BY <1>10, <1>13, Along, Zenon
<1>15. ReachesBy(c, T, a, q, n)
  BY <1>10, <1>11, <1>12, <1>14 DEF ReachesBy
<1> QED BY <1>15

LoadLines(a, q)           == FoldLeft(LoadLine, a, q)
LoadLinesIn(T, q, n)      == \A i \in 1 .. n : \A t \in T : LoadLine(t, q[i]) \in T
LoadLinesBy(c, T, a, q, n) ==
    /\ c \in [0 .. n -> T] /\ c[0] = a /\ c[n] = LoadLines(a, q)
    /\ \A i \in 1 .. n : c[i] = LoadLine(c[i - 1], q[i])

\* The lines are loaded one after the other.
LEMMA LoadLineRun ==
  ASSUME NEW T, NEW a \in T, NEW q, NEW n \in Nat, DOMAIN q = 1 .. n, LoadLinesIn(T, q, n)
  PROVE  \E c : LoadLinesBy(c, T, a, q, n)
<1> DEFINE h == [i \in 1 .. n |-> [t \in T |-> LoadLine(t, q[i])]]
           Eq(it) == it = [z \in SUBSET DOMAIN q |->
                             IF z = {} THEN a ELSE LoadLine(it[z \ {Max(z)}], q[Max(z)])]
           it == CHOOSE g : Eq(g)
<1>1. h \in [1 .. n -> [T -> T]]
  BY DEF LoadLinesIn
<1>2. \A i \in 1 .. n : \A t \in T : h[i][t] = LoadLine(t, q[i])
  OBVIOUS
<1> HIDE DEF h
<1>3. PICK g \in [SUBSET (1 .. n) -> T] : IsIter(g, n, a, h)
  BY <1>1, FoldIter
<1>4. /\ g[{}] = a
      /\ \A z \in SUBSET (1 .. n) : z # {} => g[z] = h[Max(z)][g[z \ {Max(z)}]]
  BY <1>3, Zenon DEF IsIter
<1>5. ASSUME NEW z \in SUBSET (1 .. n), z # {} PROVE g[z] = LoadLine(g[z \ {Max(z)}], q[Max(z)])
  <2>1. Max(z) \in 1 .. n /\ z \ {Max(z)} \in SUBSET (1 .. n)
    BY <1>5, MaxFacts
  <2>2. g[z \ {Max(z)}] \in T
    BY <2>1
  <2> QED BY <1>2, <1>4, <1>5, <2>1, <2>2
<1>6. Eq(g)
  BY <1>4, <1>5
<1>7. Eq(it)
  <2> HIDE DEF Eq
  <2> QED BY <1>6
<1>8. LoadLines(a, q) = it[DOMAIN q]
  BY DEF LoadLines, FoldLeft, MapThenFoldSet
<1> HIDE DEF it
<1> DEFINE c == [i \in 0 .. n |-> it[1 .. i]]
<1>9. it[{}] = a /\ \A z \in SUBSET (1 .. n) : z # {} => it[z] = LoadLine(it[z \ {Max(z)}], q[Max(z)])
  BY <1>7
<1>10. c[0] = a /\ c[n] = LoadLines(a, q)
  BY <1>8, <1>9
<1>11. ASSUME NEW i \in 1 .. n PROVE c[i] = LoadLine(c[i - 1], q[i])
  <2>1. /\ 1 .. i \in SUBSET (1 .. n) /\ 1 .. i # {} /\ Max(1 .. i) = i
        /\ (1 .. i) \ {i} = 1 .. (i - 1)
    BY IntervalParts
  <2>2. c[i] = it[1 .. i] /\ c[i - 1] = it[1 .. (i - 1)]
    OBVIOUS
  <2> QED BY <1>9, <2>1, <2>2
<1>12. c = [i \in 0 .. n |-> c[i]]
  OBVIOUS
<1> HIDE DEF c, Eq
<1>13. \A i \in 1 .. n : c[i - 1] \in T => c[i] \in T
  BY <1>11 DEF LoadLinesIn
<1>14. \A i \in 0 .. n : c[i] \in T
  BY <1>10, <1>13, Along, Zenon
<1>15. LoadLinesBy(c, T, a, q, n)
  BY <1>10, <1>11, <1>12, <1>14 DEF LoadLinesBy
<1> QED BY <1>15

(***************************************************************************)
(* flush.                                                                  *)
(***************************************************************************)
\* What holds of the files and counters of s holds of those of r.
Safe(s, r, A, D) == (CountOK(s, D) => CountOK(r, D)) /\ (EndSound(s, A, D) => EndSound(r, A, D))

\* Writing a chunk keeps everything.
LEMMA WriteChunkSafe ==
  ASSUME NEW s, EndOK(s), NEW c \in DOMAIN s.cache, NEW A, NEW D
  PROVE  Safe(s, write_chunk(s, c), A, D)
<1>1. ASSUME CountOK(s, D) PROVE CountOK(write_chunk(s, c), D)
  <2>1. Trail(s, SaneFiles, D) /\ s.d \in SaneFiles
    BY <1>1 DEF CountOK, Trail
  <2>2. Writable(s, SaneFiles)
    BY <2>1, SaneWritable
  <2>3. Trail(write_chunk(s, c), SaneFiles, D)
    BY <2>1, <2>2, WriteChunkTrail DEF Writable
  <2> QED BY <1>1, <2>3, WriteChunkKeeps, KeepsCounts
<1>2. ASSUME EndSound(s, A, D) PROVE EndSound(write_chunk(s, c), A, D)
  BY <1>2, WriteChunkSound
<1> QED BY <1>1, <1>2 DEF Safe

\* Reading a line keeps everything.
LEMMA ReachedSafe ==
  ASSUME NEW s, EndOK(s), NEW l \in Lines, cfg.cache \in Nat \ {0}, NEW A, NEW D
  PROVE  Safe(s, Reached(s, l), A, D)
<1>1. ASSUME CountOK(s, D) PROVE CountOK(Reached(s, l), D)
  <2>1. Trail(s, SaneFiles, D) /\ s.d \in SaneFiles
    BY <1>1 DEF CountOK, Trail
  <2>2. Writable(s, SaneFiles)
    BY <2>1, SaneWritable
  <2>3. Trail(Reached(s, l), SaneFiles, D)
    <3>1. CASE cfg.kind = "chunk" /\ s.d.present[l]
      <4>1. Chunk(l) \in Chunks
        BY DEF Chunks
      <4> QED BY <2>1, <2>2, <3>1, <4>1, EnsureTrail DEF Reached
    <3>2. CASE ~(cfg.kind = "chunk" /\ s.d.present[l])
      BY <2>1, <3>2 DEF Reached
    <3> QED BY <3>1, <3>2
  <2> QED BY <1>1, <2>3, ReachedKeeps, KeepsCounts
<1>2. ASSUME EndSound(s, A, D) PROVE EndSound(Reached(s, l), A, D)
  BY <1>2, ReachedSound
<1> QED BY <1>1, <1>2 DEF Safe

\* The order lists every chunk that is in the cache, and no other.
Lists(q, s) == /\ q \in Seq(Chunks) /\ \A i \in 1 .. Len(q) : q[i] \in DOMAIN s.cache
               /\ \A c \in DOMAIN s.cache : \E i \in 1 .. Len(q) : q[i] = c

\* Both orders of a flush list every cached chunk.
LEMMA OrdersList ==
  ASSUME NEW s, EndOK(s), NEW q \in Orders(s)
  PROVE  Lists(q, s)
<1>1. s.lru \in Seq(Chunks)
  BY DEF EndOK, Ends
<1>2. Lists(s.lru, s)
  BY <1>1 DEF EndOK, Listed, Lists
<1>3. Lists(Reverse(s.lru), s)
  <2> DEFINE r == Reverse(s.lru)
             n == Len(s.lru)
  <2>1. r \in Seq(Chunks) /\ Len(r) = n /\ \A i \in 1 .. n : \E j \in 1 .. n : r[j] = s.lru[i]
    BY <1>1, ReverseFacts
  <2>2. n \in Nat /\ \A j \in 1 .. n : r[j] = s.lru[(n - j) + 1] /\ (n - j) + 1 \in 1 .. n
    BY <1>1 DEF Reverse
  <2> HIDE DEF r, n
  <2>3. \A i \in 1 .. n : s.lru[i] \in DOMAIN s.cache
    BY <1>2 DEF Lists, n
  <2>4. \A c \in DOMAIN s.cache : \E i \in 1 .. n : s.lru[i] = c
    BY <1>2 DEF Lists, n
  <2>5. \A j \in 1 .. n : r[j] \in DOMAIN s.cache
    BY <2>2, <2>3
  <2>6. \A c \in DOMAIN s.cache : \E i \in 1 .. n : r[i] = c
    <3> SUFFICES ASSUME NEW c \in DOMAIN s.cache PROVE \E i \in 1 .. n : r[i] = c
      OBVIOUS
    <3>1. PICK i \in 1 .. n : s.lru[i] = c
      BY <2>4
    <3> QED BY <2>1, <3>1
  <2> QED BY <2>1, <2>5, <2>6 DEF Lists, r
<1> QED BY <1>2, <1>3 DEF Orders

Clean(s) == \A c \in DOMAIN s.cache : ~s.cache[c].dirty

\* All chunks written.
LEMMA WriteAll ==
  ASSUME NEW s, EndOK(s), NEW q, Lists(q, s), NEW A, NEW D, NEW r, r = WriteChunks(s, q)
  PROVE  Keeps(s, r) /\ Safe(s, r, A, D) /\ Clean(r)
<1> DEFINE n == Len(q)
           T == {t \in Ends : Keeps(s, t) /\ DOMAIN t.cache = DOMAIN s.cache /\ Safe(s, t, A, D)}
<1>1. n \in Nat /\ DOMAIN q = 1 .. n /\ \A i \in 1 .. n : q[i] \in DOMAIN s.cache
  BY DEF Lists
<1> HIDE DEF n
<1>2. s \in T
  BY DEF Keeps, Safe, EndOK
<1>3. ASSUME NEW t \in T, NEW c \in DOMAIN s.cache
      PROVE  /\ write_chunk(t, c) \in T /\ ~write_chunk(t, c).cache[c].dirty
             /\ \A e \in DOMAIN s.cache : ~t.cache[e].dirty => ~write_chunk(t, c).cache[e].dirty
  <2> DEFINE w == write_chunk(t, c)
  <2>1. EndOK(t) /\ c \in DOMAIN t.cache /\ Keeps(s, t) /\ Safe(s, t, A, D)
    BY DEF Keeps
  <2>2. Keeps(t, w) /\ IsChunkOut(t, c, w) /\ Safe(t, w, A, D)
    BY <2>1, WriteChunkKeeps, WriteChunkOut, WriteChunkSafe
  <2> HIDE DEF w
  <2>3. Keeps(s, w)
    BY <2>1, <2>2, KeepsChain
  <2>4. Safe(s, w, A, D)
    BY <2>1, <2>2 DEF Safe
  <2>5. DOMAIN w.cache = DOMAIN s.cache /\ w \in Ends
    BY <2>2 DEF IsChunkOut
  <2>6. t.cache[c] \in Cached
    BY <2>1, CachedFacts
  <2>7. [t.cache[c] EXCEPT !.dirty = FALSE].dirty = FALSE
    BY <2>6 DEF Cached
  <2>8. w.cache = [t.cache EXCEPT ![c] = [t.cache[c] EXCEPT !.dirty = FALSE]]
    BY <2>2 DEF IsChunkOut
  <2>9. ~w.cache[c].dirty /\ \A e \in DOMAIN s.cache : ~t.cache[e].dirty => ~w.cache[e].dirty
    BY <2>1, <2>7, <2>8
  <2> QED BY <2>3, <2>4, <2>5, <2>9 DEF w
<1> HIDE DEF T
<1>31. WriteChunksIn(T, q, n)
  BY <1>1, <1>3 DEF WriteChunksIn
<1>32. PICK c : WriteChunksBy(c, T, s, q, n)
  BY <1>1, <1>2, <1>31, WriteChunkRun
<1>4. c \in [0 .. n -> T] /\ c[0] = s /\ c[n] = r /\ \A i \in 1 .. n : c[i] = write_chunk(c[i - 1], q[i])
  BY <1>32 DEF WriteChunksBy
<1>5. r \in T
  BY <1>1, <1>4
<1> DEFINE P == {i \in Nat : \A j \in 1 .. i : ~c[i].cache[q[j]].dirty}
           id == [i \in 0 .. n |-> i]
<1>6. ASSUME NEW i \in 1 .. n, id[i - 1] \in P PROVE id[i] \in P
  <2>1. i - 1 \in 0 .. n /\ i \in 0 .. n /\ q[i] \in DOMAIN s.cache /\ c[i - 1] \in T
    BY <1>1, <1>4
  <2>2. \A j \in 1 .. (i - 1) : ~c[i - 1].cache[q[j]].dirty
    BY <1>6, <2>1
  <2>3. /\ ~c[i].cache[q[i]].dirty
        /\ \A e \in DOMAIN s.cache : ~c[i - 1].cache[e].dirty => ~c[i].cache[e].dirty
    BY <1>3, <1>4, <2>1
  <2>4. ASSUME NEW j \in 1 .. i PROVE ~c[i].cache[q[j]].dirty
    <3>1. CASE j = i
      BY <2>3, <3>1
    <3>2. CASE j # i
      <4>1. j \in 1 .. (i - 1) /\ j \in 1 .. n
        BY <1>1, <3>2
      <4> QED BY <1>1, <2>2, <2>3, <4>1
    <3> QED BY <3>1, <3>2
  <2> QED BY <1>1, <2>1, <2>4
<1>7. id[0] \in P /\ n \in 0 .. n /\ id[n] = n
  BY <1>1
<1>8. \A i \in 1 .. n : id[i - 1] \in P => id[i] \in P
  BY <1>6
<1> HIDE DEF P, id
<1>9. \A i \in 0 .. n : id[i] \in P
  BY <1>1, <1>7, <1>8, Along
<1>10. \A j \in 1 .. n : ~r.cache[q[j]].dirty
  BY <1>4, <1>7, <1>9 DEF P
<1>11. Keeps(s, r) /\ Safe(s, r, A, D) /\ DOMAIN r.cache = DOMAIN s.cache
  BY <1>5 DEF T
<1>12. Clean(r)
  <2> SUFFICES ASSUME NEW e \in DOMAIN s.cache PROVE ~r.cache[e].dirty
    BY <1>11 DEF Clean
  <2>1. PICK i \in 1 .. n : q[i] = e
    BY DEF Lists, n
  <2> QED BY <1>10, <2>1
<1> QED BY <1>11, <1>12

\* There are no more lines written than allocated.
LEMMA CountsSane ==
  ASSUME NEW s, EndOK(s), NEW D, CountOK(s, D), IsFiniteSet(Lines)
  PROVE  HeaderOK([allocated |-> s.allocated, written |-> s.unique])
<1> DEFINE P == {l \in Lines : s.d.present[l]}
           W == {l \in Lines : s.d.written[l]}
<1>1. W \subseteq P /\ P \subseteq Lines
  BY DEF CountOK
<1>2. s.allocated = Cardinality(P) /\ s.unique = Cardinality(W)
  BY DEF CountOK
<1> HIDE DEF P, W
<1>3. IsFiniteSet(P) /\ Cardinality(P) <= Cardinality(Lines)
  BY <1>1, FS_Subset
<1>4. IsFiniteSet(W) /\ Cardinality(W) <= Cardinality(P)
  BY <1>1, <1>3, FS_Subset
<1>5. Cardinality(W) \in Nat
  BY <1>4, FS_CardinalityType
<1> QED BY <1>2, <1>3, <1>4, <1>5 DEF HeaderOK

\* The counters are saved in the header.
LEMMA SavedFacts ==
  ASSUME NEW s, EndOK(s), NEW A, NEW D, NEW r, r = Saved(s), IsFiniteSet(Lines)
  PROVE  /\ Keeps(s, r) /\ Safe(s, r, A, D) /\ r.cache = s.cache /\ r.plan # <<>>
         /\ r.d.header = [allocated |-> s.allocated, written |-> s.unique]
<1> DEFINE h == [allocated |-> s.allocated, written |-> s.unique]
           w == [file |-> "header", to |-> h]
           f == [s.d EXCEPT !.header = h]
<1>1. s \in Ends /\ s.d \in Files /\ h \in Header /\ s.plan \in Seq(FileWrite)
  BY DEF EndOK, Ends, Header
<1>2. IsPut(s, r, w, f)
  BY <1>1, PutHeader, Zenon DEF Saved
<1>3. f \in Files /\ f.data = s.d.data /\ f.init = s.d.init /\ f.meta = s.d.meta
      /\ f.present = s.d.present /\ f.written = s.d.written /\ f.header = h
  BY <1>1 DEF Files
<1>4. HeaderOK(h) => f \in SaneFiles
  BY <1>3 DEF SaneFiles
<1>5. r.plan # <<>>
  <2>1. r.plan = Append(s.plan, w) /\ w \in FileWrite
    BY <1>2 DEF IsPut
  <2>2. Len(r.plan) = Len(s.plan) + 1 /\ Len(s.plan) \in Nat
    BY <1>1, <2>1
  <2> QED BY <2>2
<1> HIDE DEF f, w
<1>6. /\ r \in Ends /\ r.d = f /\ r.cache = s.cache /\ r.lru = s.lru
      /\ r.allocated = s.allocated /\ r.unique = s.unique
  BY <1>2 DEF IsPut
<1>7. EndOK(r) /\ \A k \in Lines : Raw(r, k) = Raw(s, k)
  BY <1>3, <1>6, LinesLeft
<1>8. Keeps(s, r)
  <2>1. \A l \in Lines : load(r, l) = load(s, l)
    BY <1>3, <1>6, <1>7, LoadRaw
  <2> QED BY <1>3, <1>6, <1>7, <2>1 DEF Keeps
<1>9. ASSUME CountOK(s, D) PROVE CountOK(r, D)
  <2>1. HeaderOK(h)
    BY <1>9, CountsSane
  <2>2. Trail(r, SaneFiles, D)
    BY <1>1, <1>2, <1>4, <1>9, <2>1, PutTrail DEF CountOK
  <2> QED BY <1>8, <1>9, <2>2, KeepsCounts
<1>10. ASSUME EndSound(s, A, D) PROVE EndSound(r, A, D)
  <2>1. CacheSound(r)
    BY <1>3, <1>6, <1>10 DEF EndSound, CacheSound
  <2>2. f \in SoundFiles(A)
    <3>1. FilesOK(s.d, A)
      BY <1>10 DEF EndSound, Trail, SoundFiles
    <3>2. FilesOK(f, A)
      BY <1>3, <3>1 DEF FilesOK, ShownIn
    <3> QED BY <1>3, <3>2 DEF SoundFiles
  <2>3. Trail(r, SoundFiles(A), D)
    BY <1>1, <1>2, <1>10, <2>2, PutTrail DEF EndSound
  <2> QED BY <1>8, <1>10, <2>1, <2>3 DEF EndSound, Keeps
<1> QED BY <1>3, <1>5, <1>6, <1>8, <1>9, <1>10 DEF Safe

\* flush keeps everything and leaves no chunk dirty.
LEMMA FlushFacts ==
  ASSUME NEW s, EndOK(s), NEW q \in Orders(s), NEW A, NEW D, NEW r, r = flush(s, q), IsFiniteSet(Lines)
  PROVE  /\ Keeps(s, r) /\ Safe(s, r, A, D)
         /\ cfg.kind # "sparse" => /\ Clean(r) /\ r.plan # <<>>
                                   /\ r.d.header = [allocated |-> s.allocated, written |-> s.unique]
<1>1. CASE cfg.kind = "sparse"
  BY <1>1 DEF flush, Keeps, Safe
<1>2. CASE cfg.kind # "sparse"
  <2> DEFINE t == WriteChunks(s, q)
  <2>1. Lists(q, s)
    BY OrdersList
  <2>2. Keeps(s, t) /\ Safe(s, t, A, D) /\ Clean(t)
    BY <2>1, WriteAll
  <2>3. r = Saved(t)
    BY <1>2 DEF flush, WriteChunks
  <2> HIDE DEF t
  <2>4. EndOK(t) /\ t.allocated = s.allocated /\ t.unique = s.unique
    BY <2>2 DEF Keeps
  <2>5. /\ Keeps(t, r) /\ Safe(t, r, A, D) /\ r.cache = t.cache /\ r.plan # <<>>
        /\ r.d.header = [allocated |-> t.allocated, written |-> t.unique]
    BY <2>3, <2>4, SavedFacts
  <2>6. Keeps(s, r)
    BY <2>2, <2>5, KeepsChain
  <2>7. Safe(s, r, A, D) /\ Clean(r)
    BY <2>2, <2>5 DEF Safe, Clean
  <2> QED BY <2>4, <2>5, <2>6, <2>7
<1> QED BY <1>1, <1>2

(***************************************************************************)
(* Rows are written back.                                                  *)
(***************************************************************************)
\* The columns of a row: each is known by the number of its line.
ColumnsOK(cols) == cols \in Part(Numbers, Column1) /\ \A n \in DOMAIN cols : Column(cols[n].base) = n

\* The columns are stored and the other lines left.
IsColumned(s, cols, r) ==
    /\ EndOK(r) /\ \A n \in DOMAIN cols : load(r, cols[n].base) = cols[n].block
    /\ \A l \in Lines : (\A n \in DOMAIN cols : cols[n].base # l) => load(r, l) = load(s, l)

ColumnSet(cols) == {cols[n] : n \in DOMAIN cols}

\* The columns in the order in which they are stored.
LEMMA ColumnOrder ==
  ASSUME NEW cols, ColumnsOK(cols), IsFiniteSet(Lines), NEW q, q = SetToSeq(ColumnSet(cols))
  PROVE  /\ Len(q) \in Nat /\ DOMAIN q = 1 .. Len(q)
         /\ \A i \in 1 .. Len(q) : q[i] \in Column1 /\ \E n \in DOMAIN cols : q[i] = cols[n]
         /\ \A n \in DOMAIN cols : \E i \in 1 .. Len(q) : q[i] = cols[n]
         /\ \A i, j \in 1 .. Len(q) : q[i].base = q[j].base => i = j
<1> DEFINE S == {cols[n] : n \in DOMAIN cols}
<1>1. DOMAIN cols \subseteq Numbers /\ cols \in [DOMAIN cols -> Column1]
  BY DEF ColumnsOK, Part
<1>2. IsFiniteSet(Numbers)
  <2> DEFINE f == [l \in Lines |-> Column(l)]
  <2>1. IsFiniteSet({f[l] : l \in Lines})
    BY ImageFinite
  <2>2. {f[l] : l \in Lines} = Numbers
    BY DEF Numbers
  <2> QED BY <2>1, <2>2
<1>3. IsFiniteSet(S)
  <2>1. IsFiniteSet(DOMAIN cols)
    BY <1>1, <1>2, FS_Subset
  <2>2. cols = [x \in DOMAIN cols |-> cols[x]]
    BY <1>1
  <2> QED BY <2>1, <2>2, ImageFinite
<1>4. \A x \in S : x \in Column1 /\ \E n \in DOMAIN cols : x = cols[n]
  BY <1>1
<1>5. \A x, y \in S : x.base = y.base => x = y
  BY DEF ColumnsOK
<1>51. \A n \in DOMAIN cols : cols[n] \in S
  OBVIOUS
<1>52. q = SetToSeq(S)
  BY DEF ColumnSet
<1> HIDE DEF S
<1>6. /\ q \in Seq(S) /\ Len(q) \in Nat /\ DOMAIN q = 1 .. Len(q) /\ Distinct(q)
      /\ \A i \in 1 .. Len(q) : q[i] \in S
      /\ \A x \in S : \E i \in 1 .. Len(q) : q[i] = x
  BY <1>3, <1>52, SetToSeqFacts
<1>7. \A i, j \in 1 .. Len(q) : q[i].base = q[j].base => i = j
  <2> SUFFICES ASSUME NEW i \in 1 .. Len(q), NEW j \in 1 .. Len(q), q[i].base = q[j].base PROVE i = j
    OBVIOUS
  <2>1. q[i] = q[j]
    BY <1>5, <1>6
  <2> QED BY <1>6, <2>1 DEF Distinct
<1> QED BY <1>4, <1>51, <1>6, <1>7

\* Every column is stored.
LEMMA ColumnsFacts ==
  ASSUME NEW s, EndOK(s), NEW cols, ColumnsOK(cols), IsFiniteSet(Lines), cfg.cache \in Nat \ {0}, NEW A, NEW D,
         NEW r, r = Columns(s, cols)
  PROVE  /\ IsColumned(s, cols, r)
         /\ CountOK(s, D) => CountOK(r, D)
         /\ EndSound(s, A, D) /\ (\A n \in DOMAIN cols : MayStore(s, cols[n].base, cols[n].block, A)) => EndSound(r, A, D)
<1>q. PICK q : q = SetToSeq(ColumnSet(cols))
  OBVIOUS
<1> DEFINE n == Len(q)
           T == {t \in Ends : EndOK(t) /\ (CountOK(s, D) => CountOK(t, D))}
           May == EndSound(s, A, D) /\ \A m \in DOMAIN cols : MayStore(s, cols[m].base, cols[m].block, A)
<1>0. r = StoreColumns(s, q)
  BY <1>q DEF Columns, StoreColumns, ColumnSet
<1>1. /\ n \in Nat /\ DOMAIN q = 1 .. n
      /\ \A i \in 1 .. n : q[i] \in Column1 /\ \E m \in DOMAIN cols : q[i] = cols[m]
      /\ \A m \in DOMAIN cols : \E i \in 1 .. n : q[i] = cols[m]
      /\ \A i, j \in 1 .. n : q[i].base = q[j].base => i = j
  BY <1>q, ColumnOrder
<1> HIDE DEF n
<1>2. s \in T
  BY DEF EndOK
<1>3. ASSUME NEW t \in T, NEW i \in 1 .. n
      PROVE  StoreColumn(t, q[i]) \in T /\ IsStored(t, q[i].base, q[i].block, StoreColumn(t, q[i]))
  <2>1. q[i].base \in Lines /\ q[i].block \in Block /\ EndOK(t)
    BY <1>1 DEF Column1
  <2>2. IsStored(t, q[i].base, q[i].block, StoreColumn(t, q[i]))
    BY <2>1, StoreFacts DEF StoreColumn
  <2>3. CountOK(s, D) => CountOK(StoreColumn(t, q[i]), D)
    BY <2>1, StoreCounts DEF StoreColumn
  <2> QED BY <2>2, <2>3 DEF IsStored, EndOK
<1> HIDE DEF T
<1>4. StoreColumnsIn(T, q, n)
  BY <1>3 DEF StoreColumnsIn
<1>5. PICK c : StoreColumnsBy(c, T, s, q, n)
  BY <1>1, <1>2, <1>4, StoreColumnRun
<1>6. c \in [0 .. n -> T] /\ c[0] = s /\ c[n] = r /\ \A i \in 1 .. n : c[i] = StoreColumn(c[i - 1], q[i])
  BY <1>0, <1>5 DEF StoreColumnsBy
<1> DEFINE Stored(i) == \A j \in 1 .. i : load(c[i], q[j].base) = q[j].block
           Left(i) == \A l \in Lines : (\A j \in 1 .. i : q[j].base # l) => load(c[i], l) = load(s, l)
           P == {i \in Nat : Stored(i) /\ Left(i) /\ (May => EndSound(c[i], A, D))}
           id == [i \in 0 .. n |-> i]
<1>7. ASSUME NEW i \in 1 .. n, id[i - 1] \in P PROVE id[i] \in P
  <2> DEFINE t == c[i - 1]
             l == q[i].base
             b == q[i].block
  <2>1. i - 1 \in 0 .. n /\ i \in 0 .. n /\ t \in T /\ id[i - 1] = i - 1 /\ id[i] = i /\ i \in Nat
    <3>1. i - 1 \in 0 .. n /\ i \in 0 .. n /\ i \in Nat
      BY <1>1
    <3>2. t \in T
      BY <1>6, <3>1
    <3> QED BY <3>1, <3>2
  <2>2. Stored(i - 1) /\ Left(i - 1) /\ (May => EndSound(t, A, D))
    BY <1>7, <2>1
  <2>3. IsStored(t, l, b, c[i]) /\ c[i] = store(t, l, b)
    BY <1>3, <1>6, <2>1 DEF StoreColumn
  <2>4. l \in Lines /\ b \in Block /\ EndOK(t)
    BY <1>1, <2>1 DEF Column1, T
  <2>5. ASSUME NEW j \in 1 .. (i - 1) PROVE q[j].base # l /\ q[j].base \in Lines
    <3>1. j \in 1 .. n /\ j # i
      BY <1>1
    <3> QED BY <1>1, <3>1 DEF Column1
  <2>6. Stored(i)
    <3> SUFFICES ASSUME NEW j \in 1 .. i PROVE load(c[i], q[j].base) = q[j].block
      OBVIOUS
    <3>1. CASE j = i
      BY <2>3, <3>1 DEF IsStored
    <3>2. CASE j # i
      <4>1. j \in 1 .. (i - 1)
        BY <1>1, <3>2
      <4>2. load(t, q[j].base) = q[j].block /\ q[j].base \in Lines \ {l}
        BY <2>2, <2>5, <4>1
      <4> QED BY <2>3, <4>2 DEF IsStored
    <3> QED BY <3>1, <3>2
  <2>7. Left(i)
    <3> SUFFICES ASSUME NEW k \in Lines, \A j \in 1 .. i : q[j].base # k PROVE load(c[i], k) = load(s, k)
      OBVIOUS
    <3>1. k # l /\ \A j \in 1 .. (i - 1) : q[j].base # k
      BY <1>1
    <3>2. load(t, k) = load(s, k)
      BY <2>2, <3>1
    <3> QED BY <2>3, <3>1, <3>2 DEF IsStored
  <2>8. ASSUME May PROVE EndSound(c[i], A, D)
    <3>1. load(t, l) = load(s, l)
      BY <2>2, <2>4, <2>5
    <3>2. MayStore(s, l, b, A)
      BY <1>1, <2>8
    <3>3. MayStore(t, l, b, A)
      BY <3>1, <3>2 DEF MayStore
    <3>4. EndSound(t, A, D)
      BY <2>2, <2>8
    <3>5. EndSound(store(t, l, b), A, D)
      BY <2>4, <3>3, <3>4, StoreSound
    <3> QED BY <2>3, <3>5
  <2> HIDE DEF Stored, Left, May
  <2> QED BY <2>1, <2>6, <2>7, <2>8
<1>8. id[0] \in P
  <2>1. Stored(0) /\ Left(0)
    BY <1>6
  <2>2. May => EndSound(c[0], A, D)
    BY <1>6
  <2>3. id[0] = 0
    BY <1>1
  <2> HIDE DEF Stored, Left, May
  <2> QED BY <2>1, <2>2, <2>3
<1>9. n \in 0 .. n /\ id[n] = n /\ \A i \in 1 .. n : id[i - 1] \in P => id[i] \in P
  <2>1. n \in 0 .. n /\ id[n] = n
    BY <1>1
  <2> HIDE DEF P, id
  <2> QED BY <1>7, <2>1
<1> HIDE DEF P, id
<1>10. n \in P
  <2>1. \A i \in 0 .. n : id[i] \in P
    BY <1>1, <1>8, <1>9, Along
  <2> QED BY <1>9, <2>1
<1>11. Stored(n) /\ Left(n) /\ (May => EndSound(r, A, D)) /\ r \in T
  <2> HIDE DEF Stored, Left, May
  <2> QED BY <1>6, <1>9, <1>10 DEF P
<1>12. IsColumned(s, cols, r)
  <2>1. ASSUME NEW m \in DOMAIN cols PROVE load(r, cols[m].base) = cols[m].block
    <3>1. PICK i \in 1 .. n : q[i] = cols[m]
      BY <1>1
    <3> QED BY <1>6, <1>11, <3>1
  <2>2. ASSUME NEW l \in Lines, \A m \in DOMAIN cols : cols[m].base # l PROVE load(r, l) = load(s, l)
    <3>1. \A j \in 1 .. n : q[j].base # l
      BY <1>1, <2>2
    <3> QED BY <1>6, <1>11, <3>1
  <2>3. EndOK(r)
    BY <1>11 DEF T
  <2> QED BY <2>1, <2>2, <2>3 DEF IsColumned
<1> QED BY <1>11, <1>12 DEF T

(***************************************************************************)
(* The back end with the rows.  E is what a plain memory holds, A what the *)
(* files may show, D the files now; C says that the counters are looked at.*)
(***************************************************************************)
States == [be : Ends, rows : [Banks -> RowEntry]]

Good(x, E, A, D, C) ==
    /\ x \in States /\ EndOK(x.be) /\ RowsOK(x.rows)
    /\ Covered => \A l \in Lines : LineRight(x.be, x.rows, E, l)
    /\ Plain => EndSound(x.be, A, D) /\ RowsSound(x.be, x.rows, A)
    /\ C => CountOK(x.be, D)

\* A row that holds a line is open and is the line's row.
LEMMA HoldsOpen ==
  ASSUME NEW R, RowsOK(R), NEW l \in Lines, Holds(R, l)
  PROVE  /\ Bank(l) \in Banks /\ R[Bank(l)].open /\ R[Bank(l)].row = Row(l)
         /\ Held(R, l) \in Block /\ (cfg.online => l \in initialized)
<1>1. Bank(l) \in Banks
  BY DEF Banks
<1>2. R[Bank(l)] \in RowEntry /\ RowOK(R, Bank(l))
  BY <1>1 DEF RowsOK
<1>3. Column(l) \in DOMAIN R[Bank(l)].columns /\ R[Bank(l)].columns[Column(l)].base = l
  BY DEF Holds
<1>4. R[Bank(l)].columns[Column(l)] \in Column1
  BY <1>2, <1>3 DEF RowEntry, Part
<1> QED BY <1>1, <1>2, <1>3, <1>4 DEF RowOK, Column1, Held, RowEntry

\* The columns of a row are known by their numbers, and are its lines.
LEMMA RowColumns ==
  ASSUME NEW R, RowsOK(R), NEW b \in Banks
  PROVE  /\ R[b] \in RowEntry /\ RowOK(R, b) /\ ColumnsOK(R[b].columns)
         /\ \A n \in DOMAIN R[b].columns :
              LET l == R[b].columns[n].base
              IN  l \in Lines /\ Bank(l) = b /\ Holds(R, l) /\ Held(R, l) = R[b].columns[n].block
<1>1. R[b] \in RowEntry /\ RowOK(R, b)
  BY DEF RowsOK
<1>2. R[b].columns \in Part(Numbers, Column1)
  BY <1>1 DEF RowEntry
<1>3. ASSUME NEW n \in DOMAIN R[b].columns
      PROVE  /\ R[b].columns[n].base \in Lines /\ Bank(R[b].columns[n].base) = b
             /\ Column(R[b].columns[n].base) = n
  BY <1>1, <1>2 DEF Part, Column1, RowOK
<1>4. ColumnsOK(R[b].columns)
  BY <1>2, <1>3 DEF ColumnsOK
<1>5. \A n \in DOMAIN R[b].columns :
        Holds(R, R[b].columns[n].base) /\ Held(R, R[b].columns[n].base) = R[b].columns[n].block
  BY <1>3 DEF Holds, Held
<1> QED BY <1>1, <1>3, <1>4, <1>5

\* What keeps the contents of the back end.
LEMMA KeepsGood ==
  ASSUME NEW x, NEW E, NEW A, NEW D, NEW C, Good(x, E, A, D, C), NEW s, Keeps(x.be, s), Safe(x.be, s, A, D)
  PROVE  Good([be |-> s, rows |-> x.rows], E, A, D, C)
<1> DEFINE y == [be |-> s, rows |-> x.rows]
<1>1. y.be = s /\ y.rows = x.rows /\ y \in States
  BY DEF Good, States, Keeps, EndOK
<1> HIDE DEF y
<1>2. EndOK(s) /\ \A l \in Lines : load(s, l) = load(x.be, l)
  BY DEF Keeps
<1>3. Covered => \A l \in Lines : LineRight(s, x.rows, E, l)
  BY <1>2 DEF Good, LineRight
<1>4. Plain => EndSound(s, A, D) /\ RowsSound(s, x.rows, A)
  BY <1>2 DEF Good, Safe, RowsSound
<1>5. C => CountOK(s, D)
  BY DEF Good, Safe
<1>6. Good(y, E, A, D, C)
  BY <1>1, <1>2, <1>3, <1>4, <1>5 DEF Good
<1> QED BY <1>6 DEF y

\* The back end has what the row buffer of the bank has.
Settled(x, b, E) == Covered => \A l \in Lines : Bank(l) = b => Right(load(x.be, l), E[l])

\* A row that is not dirty.
LEMMA CleanSettled ==
  ASSUME NEW x, NEW E, NEW A, NEW D, NEW C, Good(x, E, A, D, C), NEW b \in Banks, ~x.rows[b].dirty
  PROVE  Settled(x, b, E)
BY DEF Settled, Good, LineRight

\* The columns of an open row are stored.
LEMMA ColumnsGood ==
  ASSUME NEW x, NEW E, NEW A, NEW D, NEW C, Good(x, E, A, D, C), NEW b \in Banks,
         IsFiniteSet(Lines), cfg.cache \in Nat \ {0},
         NEW y, y = [be |-> Columns(x.be, x.rows[b].columns), rows |-> x.rows]
  PROVE  Good(y, E, A, D, C) /\ Settled(y, b, E)
<1> DEFINE s == x.be
           R == x.rows
           cols == R[b].columns
           r == Columns(s, cols)
<1>1. EndOK(s) /\ RowsOK(R)
  BY DEF Good
<1>2. /\ ColumnsOK(cols)
      /\ \A n \in DOMAIN cols :
           LET l == cols[n].base IN l \in Lines /\ Bank(l) = b /\ Holds(R, l) /\ Held(R, l) = cols[n].block
  BY <1>1, RowColumns
<1>3. IsColumned(s, cols, r)
  BY <1>1, <1>2, ColumnsFacts
<1>4. CountOK(s, D) => CountOK(r, D)
  BY <1>1, <1>2, ColumnsFacts
<1>5. EndSound(s, A, D) /\ (\A n \in DOMAIN cols : MayStore(s, cols[n].base, cols[n].block, A)) => EndSound(r, A, D)
  BY <1>1, <1>2, ColumnsFacts
<1>6. y.be = r /\ y.rows = R /\ y \in States
  BY <1>3 DEF Good, States, IsColumned, EndOK
<1> HIDE DEF r
<1>7. ASSUME NEW l \in Lines, Holds(R, l), Bank(l) = b PROVE load(r, l) = Held(R, l)
  <2>1. Column(l) \in DOMAIN cols /\ cols[Column(l)].base = l /\ cols[Column(l)].block = Held(R, l)
    BY <1>7 DEF Holds, Held
  <2> QED BY <1>3, <2>1 DEF IsColumned
<1>8. ASSUME NEW l \in Lines, ~(Holds(R, l) /\ Bank(l) = b) PROVE load(r, l) = load(s, l)
  <2>1. \A n \in DOMAIN cols : cols[n].base # l
    BY <1>2, <1>8
  <2> QED BY <1>3, <2>1 DEF IsColumned
<1>9. Covered => \A l \in Lines : LineRight(r, R, E, l)
  <2> SUFFICES ASSUME Covered, NEW l \in Lines PROVE LineRight(r, R, E, l)
    OBVIOUS
  <2>1. LineRight(s, R, E, l)
    BY DEF Good
  <2>2. CASE Holds(R, l) /\ Bank(l) = b
    BY <1>7, <2>1, <2>2 DEF LineRight
  <2>3. CASE ~(Holds(R, l) /\ Bank(l) = b)
    BY <1>8, <2>1, <2>3 DEF LineRight
  <2> QED BY <2>2, <2>3
<1>10. ASSUME Plain PROVE EndSound(r, A, D) /\ RowsSound(r, R, A)
  <2>1. EndSound(s, A, D) /\ RowsSound(s, R, A)
    BY <1>10 DEF Good
  <2>2. ASSUME NEW n \in DOMAIN cols PROVE MayStore(s, cols[n].base, cols[n].block, A)
    <3> DEFINE l == cols[n].base
    <3>1. l \in Lines /\ Holds(R, l) /\ Held(R, l) = cols[n].block
      BY <1>2
    <3> HIDE DEF l
    <3>2. \A i \in Bytes : (load(s, l).init[i] => Held(R, l).init[i]) /\ Shown(Held(R, l), i) \in A[l][i]
      BY <2>1, <3>1 DEF RowsSound
    <3> QED BY <3>1, <3>2 DEF MayStore, l
  <2>3. RowsSound(r, R, A)
    <3> SUFFICES ASSUME NEW l \in Lines, Holds(R, l), NEW i \in Bytes
                 PROVE  (load(r, l).init[i] => Held(R, l).init[i]) /\ Shown(Held(R, l), i) \in A[l][i]
      BY DEF RowsSound
    <3>1. (load(s, l).init[i] => Held(R, l).init[i]) /\ Shown(Held(R, l), i) \in A[l][i]
      BY <2>1 DEF RowsSound
    <3>2. load(r, l) = Held(R, l) \/ load(r, l) = load(s, l)
      BY <1>7, <1>8
    <3> QED BY <3>1, <3>2
  <2> QED BY <1>5, <2>1, <2>2, <2>3
<1>11. Settled(y, b, E)
  <2> SUFFICES ASSUME Covered, NEW l \in Lines, Bank(l) = b PROVE Right(load(r, l), E[l])
    BY <1>6 DEF Settled
  <2>1. LineRight(s, R, E, l)
    BY DEF Good
  <2>2. CASE Holds(R, l)
    BY <1>7, <2>1, <2>2 DEF LineRight
  <2>3. CASE ~Holds(R, l)
    BY <1>8, <2>1, <2>3 DEF LineRight
  <2> QED BY <2>2, <2>3
<1>12. C => CountOK(r, D)
  BY <1>4 DEF Good
<1>13. EndOK(r)
  BY <1>3 DEF IsColumned
<1>14. Good(y, E, A, D, C)
  BY <1>1, <1>6, <1>9, <1>10, <1>12, <1>13 DEF Good
<1> QED BY <1>11, <1>14

\* The row of a settled bank may be closed, opened or made clean.
LEMMA RowGood ==
  ASSUME NEW x, NEW E, NEW A, NEW D, NEW C, Good(x, E, A, D, C), NEW b \in Banks, Settled(x, b, E),
         NEW e \in RowEntry, ~e.dirty, ~e.open => DOMAIN e.columns = {},
         DOMAIN e.columns = {} \/ (e.columns = x.rows[b].columns /\ e.row = x.rows[b].row)
  PROVE  Good([be |-> x.be, rows |-> [x.rows EXCEPT ![b] = e]], E, A, D, C)
<1> DEFINE s == x.be
           R == x.rows
           Q == [R EXCEPT ![b] = e]
           y == [be |-> s, rows |-> Q]
<1>1. EndOK(s) /\ RowsOK(R) /\ R \in [Banks -> RowEntry] /\ s \in Ends
  BY DEF Good, RowsOK, EndOK
<1>2. y.be = s /\ y.rows = Q /\ y \in States /\ Q \in [Banks -> RowEntry]
  BY <1>1 DEF States
<1>3. Q[b] = e /\ \A c \in Banks \ {b} : Q[c] = R[c]
  BY <1>1
<1> HIDE DEF y, Q
<1>4. RowsOK(Q)
  <2>1. ASSUME NEW c \in Banks PROVE RowOK(Q, c)
    <3>1. RowOK(R, c)
      BY <1>1 DEF RowsOK
    <3>2. CASE c = b
      BY <1>3, <3>1, <3>2 DEF RowOK
    <3>3. CASE c # b
      BY <1>3, <3>1, <3>3 DEF RowOK
    <3> QED BY <3>2, <3>3
  <2> QED BY <1>2, <2>1 DEF RowsOK
<1>5. ASSUME NEW l \in Lines, Holds(Q, l) PROVE Holds(R, l) /\ Held(Q, l) = Held(R, l)
  <2>1. Bank(l) \in Banks
    BY DEF Banks
  <2>2. CASE Bank(l) = b
    BY <1>3, <1>5, <2>2 DEF Holds, Held
  <2>3. CASE Bank(l) # b
    BY <1>3, <1>5, <2>1, <2>3 DEF Holds, Held
  <2> QED BY <2>2, <2>3
<1>6. ASSUME Covered, NEW l \in Lines PROVE LineRight(s, Q, E, l)
  <2>1. LineRight(s, R, E, l)
    BY <1>6 DEF Good
  <2>2. Bank(l) \in Banks
    BY DEF Banks
  <2>3. Holds(Q, l) => Right(Held(Q, l), E[l])
    BY <1>5, <2>1 DEF LineRight
  <2>4. CASE Bank(l) = b
    BY <1>6, <2>3, <2>4 DEF Settled, LineRight
  <2>5. CASE Bank(l) # b
    <3>1. Q[Bank(l)] = R[Bank(l)]
      BY <1>3, <2>2, <2>5
    <3> QED BY <2>1, <3>1 DEF LineRight, Holds, Held
  <2> QED BY <2>4, <2>5
<1>7. ASSUME Plain PROVE EndSound(s, A, D) /\ RowsSound(s, Q, A)
  BY <1>5, <1>7 DEF Good, RowsSound
<1>8. C => CountOK(s, D)
  BY DEF Good
<1>9. Good(y, E, A, D, C)
  BY <1>1, <1>2, <1>4, <1>6, <1>7, <1>8 DEF Good
<1> QED BY <1>9 DEF y, Q

\* Nothing is a part of anything.
LEMMA EmptyPart ==
  ASSUME NEW S, NEW V
  PROVE  <<>> \in Part(S, V) /\ DOMAIN <<>> = {}
<1>1. DOMAIN <<>> = {}
  OBVIOUS
<1>2. <<>> \in [{} -> V]
  OBVIOUS
<1> QED BY <1>1, <1>2 DEF Part

\* A closed row, and one that was just opened.
LEMMA ClosedRow ==
  /\ Closed \in RowEntry /\ ~Closed.open /\ ~Closed.dirty /\ DOMAIN Closed.columns = {}
  /\ \A l \in Lines : LET e == [Closed EXCEPT !.open = TRUE, !.row = Row(l)]
                      IN  e \in RowEntry /\ e.open /\ ~e.dirty /\ DOMAIN e.columns = {} /\ e.row = Row(l)
<1>1. <<>> \in Part(Numbers, Column1) /\ DOMAIN <<>> = {}
  BY EmptyPart
<1>2. Closed \in RowEntry /\ ~Closed.open /\ ~Closed.dirty /\ DOMAIN Closed.columns = {}
  BY <1>1 DEF Closed, RowEntry
<1>3. ASSUME NEW l \in Lines
      PROVE  LET e == [Closed EXCEPT !.open = TRUE, !.row = Row(l)]
             IN  e \in RowEntry /\ e.open /\ ~e.dirty /\ DOMAIN e.columns = {} /\ e.row = Row(l)
  BY <1>1 DEF Closed, RowEntry
<1> QED BY <1>2, <1>3

\* writeback_row_buffer.
LEMMA WritebackGood ==
  ASSUME NEW x, NEW E, NEW A, NEW D, NEW C, Good(x, E, A, D, C), NEW b \in Banks,
         IsFiniteSet(Lines), cfg.cache \in Nat \ {0}, NEW y, y = writeback_row_buffer(x, b)
  PROVE  Good(y, E, A, D, C) /\ ~y.rows[b].dirty
<1>1. RowsOK(x.rows) /\ x \in States /\ RowOK(x.rows, b) /\ x.rows \in [Banks -> RowEntry]
  BY DEF Good, RowsOK
<1>c. Closed \in RowEntry /\ ~Closed.open /\ ~Closed.dirty /\ DOMAIN Closed.columns = {}
  BY ClosedRow
<1>2. CASE ~x.rows[b].open
  BY <1>1, <1>2 DEF writeback_row_buffer, RowOK
<1>3. CASE x.rows[b].open /\ x.rows[b].dirty
  <2> DEFINE z == [be |-> Columns(x.be, x.rows[b].columns), rows |-> x.rows]
  <2>1. Good(z, E, A, D, C) /\ Settled(z, b, E)
    BY ColumnsGood
  <2>2. y = [be |-> z.be, rows |-> [z.rows EXCEPT ![b] = Closed]]
    BY <1>3 DEF writeback_row_buffer
  <2>3. z.rows = x.rows
    OBVIOUS
  <2> HIDE DEF z
  <2>4. Good(y, E, A, D, C)
    BY <2>1, <2>2, <1>c, RowGood
  <2>5. y.rows[b] = Closed
    BY <1>1, <2>2, <2>3
  <2> QED BY <2>4, <2>5, ClosedRow
<1>4. CASE x.rows[b].open /\ ~x.rows[b].dirty
  <2>1. Settled(x, b, E)
    BY <1>4, CleanSettled
  <2>2. y = [be |-> x.be, rows |-> [x.rows EXCEPT ![b] = Closed]]
    BY <1>4 DEF writeback_row_buffer
  <2>3. Good(y, E, A, D, C)
    BY <2>1, <2>2, <1>c, RowGood
  <2>4. y.rows[b] = Closed
    BY <1>1, <2>2
  <2> QED BY <2>3, <2>4, ClosedRow
<1> QED BY <1>2, <1>3, <1>4

\* A row of a checkpoint.
LEMMA FlushedGood ==
  ASSUME NEW x, NEW E, NEW A, NEW D, NEW C, Good(x, E, A, D, C), NEW b \in Banks,
         IsFiniteSet(Lines), cfg.cache \in Nat \ {0}, NEW y, y = Flushed(x, b)
  PROVE  /\ Good(y, E, A, D, C) /\ ~y.rows[b].dirty
         /\ \A c \in Banks : ~x.rows[c].dirty => ~y.rows[c].dirty
<1>1. RowsOK(x.rows) /\ x \in States /\ RowOK(x.rows, b) /\ x.rows \in [Banks -> RowEntry]
  BY DEF Good, RowsOK
<1>2. CASE ~x.rows[b].open \/ ~x.rows[b].dirty
  BY <1>1, <1>2 DEF Flushed, RowOK
<1>3. CASE x.rows[b].open /\ x.rows[b].dirty
  <2> DEFINE z == [be |-> Columns(x.be, x.rows[b].columns), rows |-> x.rows]
             e == [x.rows[b] EXCEPT !.dirty = FALSE]
  <2>1. Good(z, E, A, D, C) /\ Settled(z, b, E)
    BY ColumnsGood
  <2>2. y = [be |-> z.be, rows |-> [z.rows EXCEPT ![b] = e]]
    BY <1>3 DEF Flushed
  <2>3. z.rows = x.rows
    OBVIOUS
  <2>4. x.rows[b] \in RowEntry
    BY <1>1
  <2>5. e \in RowEntry /\ ~e.dirty /\ e.open /\ e.columns = x.rows[b].columns /\ e.row = x.rows[b].row
    BY <1>3, <2>4 DEF RowEntry
  <2> HIDE DEF z, e
  <2>6. Good(y, E, A, D, C)
    BY <2>1, <2>2, <2>3, <2>5, RowGood
  <2>7. y.rows[b] = e /\ \A c \in Banks \ {b} : y.rows[c] = x.rows[c]
    BY <1>1, <2>2, <2>3
  <2> QED BY <2>5, <2>6, <2>7
<1> QED BY <1>2, <1>3

\* The rows of a set of banks.
LEMMA WritebacksGood ==
  ASSUME NEW x, NEW E, NEW A, NEW D, NEW C, Good(x, E, A, D, C), NEW S \in SUBSET Banks, IsFiniteSet(S),
         IsFiniteSet(Lines), cfg.cache \in Nat \ {0}
  PROVE  Good(FoldLeft(writeback_row_buffer, x, SetToSeq(S)), E, A, D, C)
<1> DEFINE q == SetToSeq(S)
           n == Len(q)
           T == {y \in States : Good(y, E, A, D, C)}
<1>1. n \in Nat /\ DOMAIN q = 1 .. n /\ \A i \in 1 .. n : q[i] \in S
  BY SetToSeqFacts
<1> HIDE DEF n, q
<1>2. x \in T
  BY DEF Good
<1>3. WritebacksIn(T, q, n)
  <2> SUFFICES ASSUME NEW i \in 1 .. n, NEW t \in T PROVE writeback_row_buffer(t, q[i]) \in T
    BY DEF WritebacksIn
  <2>1. q[i] \in Banks /\ Good(t, E, A, D, C)
    BY <1>1
  <2>2. Good(writeback_row_buffer(t, q[i]), E, A, D, C)
    BY <2>1, WritebackGood
  <2> QED BY <2>2 DEF Good
<1> HIDE DEF T
<1>4. PICK c : WritebacksBy(c, T, x, q, n)
  BY <1>1, <1>2, <1>3, WritebackRun
<1>5. c[n] = Writebacks(x, q) /\ c[n] \in T
  BY <1>1, <1>4 DEF WritebacksBy
<1> QED BY <1>5 DEF T, Writebacks, q

\* The banks are finitely many.
LEMMA BanksFinite ==
  ASSUME IsFiniteSet(Lines)
  PROVE  IsFiniteSet(Banks)
<1> DEFINE f == [l \in Lines |-> Bank(l)]
<1>1. IsFiniteSet({f[l] : l \in Lines})
  BY ImageFinite
<1>2. {f[l] : l \in Lines} = Banks
  BY DEF Banks
<1> QED BY <1>1, <1>2

\* All rows of a checkpoint: none is left dirty.
LEMMA FlushedAllGood ==
  ASSUME NEW x, NEW E, NEW A, NEW D, NEW C, Good(x, E, A, D, C),
         IsFiniteSet(Lines), cfg.cache \in Nat \ {0}, NEW y, y = FlushedAll(x)
  PROVE  Good(y, E, A, D, C) /\ \A b \in Banks : ~y.rows[b].dirty
<1>q. PICK q : q = SetToSeq(Banks)
  OBVIOUS
<1> DEFINE n == Len(q)
           T == {t \in States : Good(t, E, A, D, C)}
<1>1. /\ n \in Nat /\ DOMAIN q = 1 .. n /\ \A i \in 1 .. n : q[i] \in Banks
      /\ \A b \in Banks : \E i \in 1 .. n : q[i] = b
  <2> DEFINE r == SetToSeq(Banks)
  <2>1. /\ Len(r) \in Nat /\ DOMAIN r = 1 .. Len(r) /\ \A i \in 1 .. Len(r) : r[i] \in Banks
        /\ \A b \in Banks : \E i \in 1 .. Len(r) : r[i] = b
    BY BanksFinite, SetToSeqFacts
  <2> HIDE DEF r
  <2> QED BY <1>q, <2>1 DEF r
<1> HIDE DEF n
<1>2. x \in T
  BY DEF Good
<1>3. ASSUME NEW i \in 1 .. n, NEW t \in T
      PROVE  /\ Flushed(t, q[i]) \in T /\ ~Flushed(t, q[i]).rows[q[i]].dirty
             /\ \A c \in Banks : ~t.rows[c].dirty => ~Flushed(t, q[i]).rows[c].dirty
  <2>1. q[i] \in Banks /\ Good(t, E, A, D, C)
    BY <1>1
  <2>2. /\ Good(Flushed(t, q[i]), E, A, D, C) /\ ~Flushed(t, q[i]).rows[q[i]].dirty
        /\ \A c \in Banks : ~t.rows[c].dirty => ~Flushed(t, q[i]).rows[c].dirty
    BY <2>1, FlushedGood
  <2> QED BY <2>2 DEF Good
<1> HIDE DEF T
<1>4. FlushesIn(T, q, n)
  BY <1>3 DEF FlushesIn
<1>5. PICK c : FlushesBy(c, T, x, q, n)
  BY <1>1, <1>2, <1>4, FlushedRun
<1>51. y = Flushes(x, q)
  BY <1>q DEF FlushedAll, Flushes
<1>6. c \in [0 .. n -> T] /\ c[0] = x /\ c[n] = y /\ \A i \in 1 .. n : c[i] = Flushed(c[i - 1], q[i])
  BY <1>5, <1>51 DEF FlushesBy
<1> DEFINE P == {i \in Nat : \A j \in 1 .. i : ~c[i].rows[q[j]].dirty}
           id == [i \in 0 .. n |-> i]
<1>7. ASSUME NEW i \in 1 .. n, id[i - 1] \in P PROVE id[i] \in P
  <2>1. i - 1 \in 0 .. n /\ i \in 0 .. n /\ c[i - 1] \in T
    BY <1>1, <1>6
  <2>2. \A j \in 1 .. (i - 1) : ~c[i - 1].rows[q[j]].dirty
    BY <1>7, <2>1
  <2>3. /\ ~c[i].rows[q[i]].dirty
        /\ \A e \in Banks : ~c[i - 1].rows[e].dirty => ~c[i].rows[e].dirty
    BY <1>3, <1>6, <2>1
  <2>4. ASSUME NEW j \in 1 .. i PROVE ~c[i].rows[q[j]].dirty
    <3>1. CASE j = i
      BY <2>3, <3>1
    <3>2. CASE j # i
      <4>1. j \in 1 .. (i - 1) /\ j \in 1 .. n
        BY <1>1, <3>2
      <4> QED BY <1>1, <2>2, <2>3, <4>1
    <3> QED BY <3>1, <3>2
  <2> QED BY <1>1, <2>1, <2>4
<1>8. id[0] \in P /\ n \in 0 .. n /\ id[n] = n
  BY <1>1
<1>9. \A i \in 1 .. n : id[i - 1] \in P => id[i] \in P
  BY <1>7
<1> HIDE DEF P, id
<1>10. \A i \in 0 .. n : id[i] \in P
  BY <1>1, <1>8, <1>9, Along
<1>11. \A j \in 1 .. n : ~y.rows[q[j]].dirty
  BY <1>6, <1>8, <1>10 DEF P
<1>12. Good(y, E, A, D, C)
  BY <1>6, <1>8 DEF T
<1>13. ASSUME NEW b \in Banks PROVE ~y.rows[b].dirty
  BY <1>1, <1>11
<1> QED BY <1>12, <1>13

(***************************************************************************)
(* SECDED.                                                                 *)
(***************************************************************************)
\* A block is its parts.
LEMMA BlockMade ==
  ASSUME NEW b \in Block
  PROVE  b = [bytes |-> b.bytes, init |-> b.init, version |-> b.version, ecc |-> b.ecc, bad |-> b.bad]
BY DEF Block

\* Parts of a block replaced.
LEMMA BlockBad ==
  ASSUME NEW a, NEW i, NEW v, NEW w, NEW d, NEW e
  PROVE  [[bytes |-> a, init |-> i, version |-> v, ecc |-> w, bad |-> d] EXCEPT !.bad = e]
            = [bytes |-> a, init |-> i, version |-> v, ecc |-> w, bad |-> e]
OBVIOUS

\* The code word of a block made anew.
LEMMA Refreshed ==
  ASSUME NEW a, NEW i, NEW v, NEW w, NEW d
  PROVE  refresh_ecc_shadow([bytes |-> a, init |-> i, version |-> v, ecc |-> w, bad |-> d])
            = [bytes |-> a, init |-> i, version |-> v, ecc |-> IF cfg.ecc THEN <<a>> ELSE <<>>, bad |-> FALSE]
<1> DEFINE b == [bytes |-> a, init |-> i, version |-> v, ecc |-> w, bad |-> d]
<1>q. PICK x : x = IF cfg.ecc THEN <<a>> ELSE <<>>
  OBVIOUS
<1>p. PICK e : e = FALSE
  OBVIOUS
<1>1. b.bytes = a
  OBVIOUS
<1>2. refresh_ecc_shadow(b) = [b EXCEPT !.ecc = x, !.bad = e]
  BY <1>q, <1>p, <1>1, Zenon DEF refresh_ecc_shadow
<1>3. [b EXCEPT !.ecc = x, !.bad = e] = [bytes |-> a, init |-> i, version |-> v, ecc |-> x, bad |-> e]
  <2>1. [b EXCEPT !.ecc = x] = [bytes |-> a, init |-> i, version |-> v, ecc |-> x, bad |-> d]
    OBVIOUS
  <2>2. [[bytes |-> a, init |-> i, version |-> v, ecc |-> x, bad |-> d] EXCEPT !.bad = e]
          = [bytes |-> a, init |-> i, version |-> v, ecc |-> x, bad |-> e]
    BY BlockBad
  <2> HIDE DEF b
  <2>3. [b EXCEPT !.ecc = x, !.bad = e] = [[b EXCEPT !.ecc = x] EXCEPT !.bad = e]
    OBVIOUS
  <2> QED BY <2>1, <2>2, <2>3, Zenon
<1> HIDE DEF b
<1>4. refresh_ecc_shadow(b) = [bytes |-> a, init |-> i, version |-> v, ecc |-> x, bad |-> e]
  BY <1>2, <1>3
<1> QED BY <1>4, <1>q, <1>p, Zenon DEF b

\* Checking a line twice is checking it once; without ECC nothing happens.
LEMMA CheckFacts ==
  ASSUME NEW b \in Block
  PROVE  /\ check_ecc_shadow(b) \in Block
         /\ check_ecc_shadow(check_ecc_shadow(b)) = check_ecc_shadow(b)
         /\ ~cfg.ecc => check_ecc_shadow(b) = b /\ ~b.bad
         /\ check_ecc_shadow(b).init = b.init /\ check_ecc_shadow(b).version = b.version
<1>1. b.ecc \in Ecc /\ b.bad \in Bad /\ b.bytes \in Word /\ b.init \in Flags /\ b.version \in Nat
  BY DEF Block
<1>2. ASSUME ~cfg.ecc PROVE b.ecc = <<>> /\ ~b.bad
  BY <1>1, <1>2 DEF Ecc, Bad
<1>3. CASE b.ecc = <<>> \/ Head(b.ecc) = b.bytes
  BY <1>2, <1>3 DEF check_ecc_shadow
<1>4. CASE ~(b.ecc = <<>> \/ Head(b.ecc) = b.bytes)
  <2>1. cfg.ecc
    BY <1>2, <1>4
  <2>2. b.ecc \in Seq(Word) /\ Ecc = Seq(Word) /\ Head(b.ecc) \in Word
    BY <1>1, <1>4, <2>1 DEF Ecc
  <2>3. Bad = BOOLEAN
    BY <2>1, Zenon DEF Bad
  <2> DEFINE w == Head(b.ecc)
             h == [bytes |-> w, init |-> b.init, version |-> b.version, ecc |-> <<w>>, bad |-> FALSE]
             k == [bytes |-> b.bytes, init |-> b.init, version |-> b.version, ecc |-> b.ecc, bad |-> TRUE]
  <2>4. CASE cfg.correct
    <3>1. check_ecc_shadow(b) = h
      <4>1. [b EXCEPT !.bytes = w] = [bytes |-> w, init |-> b.init, version |-> b.version, ecc |-> b.ecc, bad |-> b.bad]
        BY DEF Block
      <4>2. refresh_ecc_shadow([b EXCEPT !.bytes = w]) = h
        <5>1. refresh_ecc_shadow([b EXCEPT !.bytes = w])
                = [bytes |-> w, init |-> b.init, version |-> b.version, ecc |-> IF cfg.ecc THEN <<w>> ELSE <<>>, bad |-> FALSE]
          <6>1. refresh_ecc_shadow([bytes |-> w, init |-> b.init, version |-> b.version, ecc |-> b.ecc, bad |-> b.bad])
                  = [bytes |-> w, init |-> b.init, version |-> b.version, ecc |-> IF cfg.ecc THEN <<w>> ELSE <<>>, bad |-> FALSE]
            <7> HIDE DEF w
            <7> QED BY Refreshed
          <6> QED BY <4>1, <6>1, Zenon
        <5> QED BY <2>1, <5>1, Zenon
      <4> QED BY <1>4, <2>4, <4>2 DEF check_ecc_shadow
    <3>2. <<w>> \in Seq(Word) /\ Head(<<w>>) = w
      BY <2>2
    <3>3. FALSE \in Bad
      BY <2>3, Zenon
    <3> HIDE DEF w
    <3>4. h \in Block
      BY <1>1, <2>2, <3>2, <3>3 DEF Block, w
    <3>5. h.ecc = <<w>> /\ h.bytes = w /\ h.init = b.init /\ h.version = b.version
      OBVIOUS
    <3> HIDE DEF h
    <3>6. check_ecc_shadow(h) = h
      BY <3>2, <3>5 DEF check_ecc_shadow
    <3> QED BY <2>1, <3>1, <3>4, <3>5, <3>6
  <2>5. CASE ~cfg.correct
    <3>1. check_ecc_shadow(b) = [b EXCEPT !.bad = TRUE]
      BY <1>4, <2>5 DEF check_ecc_shadow
    <3>q. PICK e : e = TRUE
      OBVIOUS
    <3>2. [b EXCEPT !.bad = TRUE] = k
      <4> DEFINE bb == [bytes |-> b.bytes, init |-> b.init, version |-> b.version, ecc |-> b.ecc, bad |-> b.bad]
      <4>1. [bb EXCEPT !.bad = e] = [bytes |-> b.bytes, init |-> b.init, version |-> b.version, ecc |-> b.ecc, bad |-> e]
        BY BlockBad
      <4>2. b = bb
        BY BlockMade
      <4> HIDE DEF bb
      <4> QED BY <3>q, <4>1, <4>2, Zenon
    <3>3. TRUE \in Bad
      BY <2>3, Zenon
    <3>4. k \in Block
      BY <1>1, <3>3 DEF Block
    <3>5. k.ecc = b.ecc /\ k.bytes = b.bytes /\ k.init = b.init /\ k.version = b.version
      OBVIOUS
    <3>6. check_ecc_shadow(k) = [k EXCEPT !.bad = TRUE]
      BY <1>4, <2>5, <3>5 DEF check_ecc_shadow
    <3>7. [k EXCEPT !.bad = TRUE] = k
      <4> DEFINE kk == [bytes |-> b.bytes, init |-> b.init, version |-> b.version, ecc |-> b.ecc, bad |-> e]
      <4>1. [kk EXCEPT !.bad = e] = kk
        BY BlockBad
      <4>2. kk = k
        BY <3>q, Zenon
      <4> HIDE DEF k, kk
      <4> QED BY <3>q, <4>1, <4>2, Zenon
    <3> HIDE DEF k
    <3> QED BY <2>1, <3>1, <3>2, <3>4, <3>5, <3>6, <3>7
  <2> QED BY <2>4, <2>5
<1> QED BY <1>3, <1>4

\* What is right stays right when it is checked.
LEMMA RightChecked ==
  ASSUME NEW b \in Block, NEW e, Right(b, e)
  PROVE  Right(check_ecc_shadow(b), e)
BY CheckFacts DEF Right

\* Without ECC a line is right when it shows what it should.
LEMMA RightPlain ==
  ASSUME NEW b \in Block, NEW e, ~cfg.ecc
  PROVE  Right(b, e) <=> \A i \in Bytes : Shown(b, i) = e[i]
BY CheckFacts DEF Right

\* The target with the bytes of the mask replaced.
LEMMA MergedFacts ==
  ASSUME NEW b \in Block, NEW v \in Int, NEW mask \in Flags, next_version_ \in Nat \ {0},
         NEW m, m = Merged(b, v, mask)
  PROVE  /\ m \in Block /\ \A i \in Bytes : m.init[i] = (mask[i] \/ b.init[i])
         /\ ~cfg.ecc => \A i \in Bytes : m.bytes[i] = IF mask[i] THEN v ELSE b.bytes[i]
         /\ cfg.ecc /\ (\A i \in Bytes : mask[i]) => Right(m, Zero(v))
<1> DEFINE B == [i \in Bytes |-> IF mask[i] THEN v ELSE b.bytes[i]]
           I == [i \in Bytes |-> mask[i] \/ b.init[i]]
           V == IF \E i \in Bytes : mask[i] THEN next_version_ ELSE b.version
           W == IF cfg.ecc THEN <<B>> ELSE <<>>
           c == [bytes |-> B, init |-> I, version |-> V, ecc |-> b.ecc, bad |-> b.bad]
           r == [bytes |-> B, init |-> I, version |-> V, ecc |-> W, bad |-> FALSE]
           flip == IF B[1] % 2 = 0 THEN B[1] + 1 ELSE B[1] - 1
           F == [B EXCEPT ![1] = flip]
           g == [bytes |-> F, init |-> I, version |-> V, ecc |-> W, bad |-> FALSE]
<1>1. b.bytes \in Word /\ b.init \in Flags /\ b.version \in Nat
  BY DEF Block
<1>2. B \in Word
  BY <1>1 DEF Word
<1>3. I \in Flags
  BY <1>1 DEF Flags
<1>4. V \in Nat
  BY <1>1
<1>5. W \in Ecc
  <2> HIDE DEF B
  <2>1. CASE cfg.ecc
    <3>1. <<B>> \in Seq(Word)
      BY <1>2
    <3> QED BY <2>1, <3>1, Zenon DEF Ecc
  <2>2. CASE ~cfg.ecc
    BY <2>2, Zenon DEF Ecc
  <2> QED BY <2>1, <2>2
<1>6. FALSE \in Bad
  BY Zenon DEF Bad
<1>7. m = maybe_inject_ecc_error(refresh_ecc_shadow(c))
  <2>1. c = [b EXCEPT !.bytes = [i \in Bytes |-> IF mask[i] THEN v ELSE @[i]],
                      !.init = [i \in Bytes |-> mask[i] \/ @[i]],
                      !.version = IF \E i \in Bytes : mask[i] THEN next_version_ ELSE @]
    <3> DEFINE bb == [bytes |-> b.bytes, init |-> b.init, version |-> b.version, ecc |-> b.ecc, bad |-> b.bad]
    <3>1. [bb EXCEPT !.bytes = B, !.init = I, !.version = V] = c
      <4> DEFINE b1 == [bytes |-> B, init |-> b.init, version |-> b.version, ecc |-> b.ecc, bad |-> b.bad]
                 b2 == [bytes |-> B, init |-> I, version |-> b.version, ecc |-> b.ecc, bad |-> b.bad]
      <4> HIDE DEF B, I, V
      <4>1. [bb EXCEPT !.bytes = B] = b1
        OBVIOUS
      <4>2. [b1 EXCEPT !.init = I] = b2
        OBVIOUS
      <4>3. [b2 EXCEPT !.version = V] = c
        OBVIOUS
      <4> HIDE DEF bb, b1, b2, c
      <4>4. [bb EXCEPT !.bytes = B, !.init = I, !.version = V] = [[[bb EXCEPT !.bytes = B] EXCEPT !.init = I] EXCEPT !.version = V]
        OBVIOUS
      <4> QED BY <4>1, <4>2, <4>3, <4>4, Zenon
    <3>2. b = bb
      BY BlockMade
    <3> HIDE DEF bb
    <3>3. [b EXCEPT !.bytes = B, !.init = I, !.version = V] = c
      BY <3>1, <3>2
    <3> QED BY <3>3, Zenon
  <2> QED BY <2>1 DEF Merged
<1>8. 1 \in Bytes
  BY DEF Bytes
<1>9. F \in Word /\ (cfg.ecc => F # B)
  <2>1. B[1] \in Int /\ flip \in Int /\ flip # B[1]
    BY <1>2, <1>8 DEF Word
  <2> HIDE DEF B, flip
  <2> QED BY <1>2, <1>8, <2>1 DEF Word
<1>10. \A i \in Bytes : B[i] = (IF mask[i] THEN v ELSE b.bytes[i]) /\ I[i] = (mask[i] \/ b.init[i])
  OBVIOUS
<1> HIDE DEF B, I, V, F
<1>11. refresh_ecc_shadow(c) = r
  <2> HIDE DEF r
  <2>1. refresh_ecc_shadow(c) = [bytes |-> B, init |-> I, version |-> V, ecc |-> IF cfg.ecc THEN <<B>> ELSE <<>>, bad |-> FALSE]
    BY Refreshed
  <2> QED BY <2>1, Zenon DEF r
<1>12. W # <<>> => Head(W) = B
  OBVIOUS
<1>13. W = <<>> <=> ~cfg.ecc
  OBVIOUS
<1> HIDE DEF W
<1>14. maybe_inject_ecc_error(r) = r \/ (cfg.ecc /\ maybe_inject_ecc_error(r) = g)
  BY DEF maybe_inject_ecc_error, F
<1>15. r \in Block /\ g \in Block
  BY <1>2, <1>3, <1>4, <1>5, <1>6, <1>9 DEF Block
<1>16. r.bytes = B /\ r.init = I /\ r.ecc = W /\ g.bytes = F /\ g.init = I /\ g.ecc = W
  OBVIOUS
<1> HIDE DEF r, g
<1>17. m = r \/ (cfg.ecc /\ m = g)
  BY <1>7, <1>11, <1>14
<1>18. m \in Block /\ \A i \in Bytes : m.init[i] = (mask[i] \/ b.init[i])
  BY <1>10, <1>15, <1>16, <1>17
<1>19. ASSUME ~cfg.ecc PROVE \A i \in Bytes : m.bytes[i] = IF mask[i] THEN v ELSE b.bytes[i]
  BY <1>10, <1>16, <1>17, <1>19
<1>20. ASSUME cfg.ecc, \A i \in Bytes : mask[i] PROVE Right(m, Zero(v))
  <2>1. \A i \in Bytes : B[i] = v /\ I[i] = TRUE /\ Zero(v)[i] = v
    BY <1>10, <1>20 DEF Zero
  <2>2. check_ecc_shadow(r) = r
    BY <1>12, <1>13, <1>16 DEF check_ecc_shadow
  <2>3. CASE m = r
    BY <1>16, <2>1, <2>2, <2>3 DEF Right, Shown
  <2>4. CASE m = g
    <3>1. ~(g.ecc = <<>> \/ Head(g.ecc) = g.bytes) /\ Head(g.ecc) = B
      BY <1>9, <1>12, <1>13, <1>16, <1>20
    <3>2. CASE cfg.correct
      <4>1. check_ecc_shadow(g) = refresh_ecc_shadow([g EXCEPT !.bytes = B])
        BY <3>1, <3>2 DEF check_ecc_shadow
      <4>2. check_ecc_shadow(g).bytes = B /\ check_ecc_shadow(g).init = I
        BY <1>15, <1>16, <4>1 DEF refresh_ecc_shadow, Block
      <4> QED BY <2>1, <2>4, <4>2 DEF Right, Shown
    <3>3. CASE ~cfg.correct
      <4>1. check_ecc_shadow(g) = [g EXCEPT !.bad = TRUE]
        BY <3>1, <3>3 DEF check_ecc_shadow
      <4>2. check_ecc_shadow(g).bad
        BY <1>15, <4>1 DEF Block
      <4> QED BY <2>4, <4>2 DEF Right
    <3> QED BY <3>2, <3>3
  <2> QED BY <1>17, <2>3, <2>4
<1> QED BY <1>18, <1>19, <1>20

\* A write leaves the line as a plain memory has it.
LEMMA MergedRight ==
  ASSUME NEW b \in Block, NEW v \in Int, NEW mask \in Flags, next_version_ \in Nat \ {0},
         cfg.ecc => \A i \in Bytes : mask[i], NEW e, Right(b, e),
         NEW f, \A i \in Bytes : f[i] = IF mask[i] THEN v ELSE e[i]
  PROVE  Right(Merged(b, v, mask), f)
<1>q. PICK m : m = Merged(b, v, mask)
  OBVIOUS
<1>1. /\ m \in Block /\ \A i \in Bytes : m.init[i] = (mask[i] \/ b.init[i])
      /\ ~cfg.ecc => \A i \in Bytes : m.bytes[i] = IF mask[i] THEN v ELSE b.bytes[i]
      /\ cfg.ecc /\ (\A i \in Bytes : mask[i]) => Right(m, Zero(v))
  BY <1>q, MergedFacts
<1>2. CASE cfg.ecc
  <2>1. \A i \in Bytes : Zero(v)[i] = f[i]
    BY <1>2 DEF Zero
  <2> QED BY <1>q, <1>1, <1>2, <2>1 DEF Right
<1>3. CASE ~cfg.ecc
  <2>1. \A i \in Bytes : Shown(b, i) = e[i]
    BY <1>3, RightPlain
  <2>2. \A i \in Bytes : Shown(m, i) = f[i]
    BY <1>1, <1>3, <2>1 DEF Shown
  <2>3. Right(m, f)
    BY <1>1, <1>3, <2>2, RightPlain
  <2> QED BY <1>q, <2>3
<1> QED BY <1>2, <1>3

(***************************************************************************)
(* Lines written.                                                          *)
(***************************************************************************)
\* A path of steps of R is one of more steps.
LEMMA LeadsMono ==
  ASSUME NEW q, NEW R, NEW T, R \subseteq T, NEW a, NEW b, Leads(q, R, a, b)
  PROVE  Leads(q, T, a, b)
BY DEF Leads, IsPath

\* More is allowed.
LEMMA GoodMono ==
  ASSUME NEW x, NEW E, NEW A, NEW D, NEW C, Good(x, E, A, D, C),
         NEW B, \A l \in Lines : \A i \in Bytes : A[l][i] \subseteq B[l][i]
  PROVE  Good(x, E, B, D, C)
<1>1. SoundFiles(A) \subseteq SoundFiles(B)
  <2>1. ASSUME NEW f \in Files, FilesOK(f, A) PROVE FilesOK(f, B)
    BY <2>1 DEF FilesOK
  <2> QED BY <2>1 DEF SoundFiles
<1>2. FileSteps(SoundFiles(A)) \subseteq FileSteps(SoundFiles(B))
  BY <1>1 DEF FileSteps
<1>3. ASSUME Trail(x.be, SoundFiles(A), D) PROVE Trail(x.be, SoundFiles(B), D)
  <2>1. Leads(x.be.plan, FileSteps(SoundFiles(B)), D, x.be.d)
    BY <1>2, <1>3, LeadsMono DEF Trail
  <2> QED BY <1>1, <1>3, <2>1 DEF Trail
<1>4. ASSUME EndSound(x.be, A, D) PROVE EndSound(x.be, B, D)
  BY <1>3, <1>4 DEF EndSound
<1>5. ASSUME RowsSound(x.be, x.rows, A) PROVE RowsSound(x.be, x.rows, B)
  BY <1>5 DEF RowsSound
<1> QED BY <1>4, <1>5 DEF Good

\* b may be stored at l, where E is then to be read.
MayPut(x, l, b, E, A) ==
    /\ Covered => /\ Right(b, E[l]) \/ (Holds(x.rows, l) /\ x.rows[Bank(l)].dirty)
                  /\ Holds(x.rows, l) => Right(Held(x.rows, l), E[l])
    /\ Plain => /\ MayStore(x.be, l, b, A)
                /\ Holds(x.rows, l) => \A i \in Bytes : b.init[i] => Held(x.rows, l).init[i]

\* A line is stored past the row buffers.
LEMMA StoreGood ==
  ASSUME NEW x, NEW E, NEW A, NEW D, NEW C, Good(x, E, A, D, C), NEW l \in Lines, NEW b \in Block,
         IsFiniteSet(Lines), cfg.cache \in Nat \ {0},
         NEW F, \A k \in Lines \ {l} : F[k] = E[k], MayPut(x, l, b, F, A)
  PROVE  Good([be |-> store(x.be, l, b), rows |-> x.rows], F, A, D, C)
<1> DEFINE s == x.be
           R == x.rows
           r == store(s, l, b)
           y == [be |-> r, rows |-> R]
<1>1. EndOK(s) /\ RowsOK(R) /\ R \in [Banks -> RowEntry]
  BY DEF Good, RowsOK
<1>2. IsStored(s, l, b, r)
  BY <1>1, StoreFacts
<1>3. EndOK(r) /\ r \in Ends /\ load(r, l) = b /\ \A k \in Lines \ {l} : load(r, k) = load(s, k)
  BY <1>2 DEF IsStored, EndOK
<1>4. C => CountOK(r, D)
  BY <1>1, StoreCounts DEF Good
<1>5. Plain => EndSound(r, A, D)
  BY <1>1, StoreSound DEF Good, MayPut
<1> HIDE DEF r
<1>6. y \in States /\ y.be = r /\ y.rows = R
  BY <1>1, <1>3 DEF States
<1> HIDE DEF y
<1>7. ASSUME Covered, NEW k \in Lines PROVE LineRight(r, R, F, k)
  <2>1. LineRight(s, R, E, k)
    BY <1>7 DEF Good
  <2>2. CASE k = l
    BY <1>3, <1>7, <2>2 DEF LineRight, MayPut
  <2>3. CASE k # l
    BY <1>3, <2>1, <2>3 DEF LineRight
  <2> QED BY <2>2, <2>3
<1>8. ASSUME Plain PROVE RowsSound(r, R, A)
  <2> SUFFICES ASSUME NEW k \in Lines, Holds(R, k), NEW i \in Bytes
               PROVE  (load(r, k).init[i] => Held(R, k).init[i]) /\ Shown(Held(R, k), i) \in A[k][i]
    BY DEF RowsSound
  <2>1. (load(s, k).init[i] => Held(R, k).init[i]) /\ Shown(Held(R, k), i) \in A[k][i]
    BY <1>8 DEF Good, RowsSound
  <2>2. CASE k = l
    BY <1>3, <1>8, <2>1, <2>2 DEF MayPut
  <2>3. CASE k # l
    BY <1>3, <2>1, <2>3
  <2> QED BY <2>2, <2>3
<1>9. Good(y, F, A, D, C)
  BY <1>1, <1>3, <1>4, <1>5, <1>6, <1>7, <1>8 DEF Good
<1> QED BY <1>9 DEF y, r

\* A row with another block at a column it has.
Refilled(e, n, l, b, d) ==
    [open |-> e.open, row |-> e.row, dirty |-> d, columns |-> [e.columns EXCEPT ![n] = [base |-> l, block |-> b]]]

\* The block of a line held in a row is replaced.
LEMMA HeldGood ==
  ASSUME NEW x, NEW E, NEW A, NEW D, NEW C, Good(x, E, A, D, C), NEW l \in Lines, Holds(x.rows, l),
         NEW b \in Block, NEW d \in BOOLEAN, x.rows[Bank(l)].dirty => d,
         NEW F, \A k \in Lines \ {l} : F[k] = E[k],
         Covered => Right(b, F[l]) /\ (d \/ Right(load(x.be, l), F[l])),
         Plain => \A i \in Bytes : (load(x.be, l).init[i] => b.init[i]) /\ Shown(b, i) \in A[l][i]
  PROVE  Good([be |-> x.be, rows |-> [x.rows EXCEPT ![Bank(l)] = Refilled(x.rows[Bank(l)], Column(l), l, b, d)]], F, A, D, C)
<1> DEFINE s == x.be
           R == x.rows
           c == Bank(l)
           n == Column(l)
           e == Refilled(R[c], n, l, b, d)
           Q == [R EXCEPT ![c] = e]
           y == [be |-> s, rows |-> Q]
<1>1. EndOK(s) /\ s \in Ends /\ RowsOK(R) /\ R \in [Banks -> RowEntry] /\ c \in Banks /\ R[c] \in RowEntry /\ RowOK(R, c)
  BY DEF Good, RowsOK, EndOK, Banks
<1>2. n \in DOMAIN R[c].columns /\ R[c].columns[n].base = l /\ R[c].open /\ R[c].columns \in Part(Numbers, Column1)
  BY <1>1, HoldsOpen DEF Holds, RowEntry
<1>3. /\ e.open = R[c].open /\ e.row = R[c].row /\ e.dirty = d /\ DOMAIN e.columns = DOMAIN R[c].columns
      /\ e.columns[n] = [base |-> l, block |-> b]
      /\ \A m \in DOMAIN R[c].columns : m # n => e.columns[m] = R[c].columns[m]
  BY <1>2 DEF Refilled
<1>4. e.columns \in Part(Numbers, Column1)
  <2>1. PICK S \in SUBSET Numbers : R[c].columns \in [S -> Column1]
    BY <1>2 DEF Part
  <2>2. [base |-> l, block |-> b] \in Column1
    BY DEF Column1
  <2>3. e.columns \in [S -> Column1]
    BY <2>1, <2>2 DEF Refilled
  <2> QED BY <2>1, <2>3 DEF Part
<1>5. e \in RowEntry
  BY <1>1, <1>3, <1>4 DEF RowEntry, Refilled
<1> HIDE DEF e
<1>6. Q[c] = e /\ (\A k \in Banks \ {c} : Q[k] = R[k]) /\ Q \in [Banks -> RowEntry]
  BY <1>1, <1>5
<1> HIDE DEF Q
<1>7. y \in States /\ y.be = s /\ y.rows = Q
  BY <1>1, <1>6 DEF States
<1> HIDE DEF y
<1>8. RowsOK(Q)
  <2>1. ASSUME NEW k \in Banks PROVE RowOK(Q, k)
    <3>1. RowOK(R, k)
      BY <1>1 DEF RowsOK
    <3>2. CASE k = c
      <4>1. \A m \in DOMAIN e.columns : e.columns[m].base = R[c].columns[m].base
        BY <1>2, <1>3
      <4>2. Q[k].open /\ Q[k].row = R[c].row /\ Q[k].columns = e.columns
        BY <1>2, <1>3, <1>6, <3>2
      <4>3. ASSUME NEW m \in DOMAIN Q[k].columns
            PROVE  LET i == Q[k].columns[m].base
                   IN  Bank(i) = k /\ Row(i) = Q[k].row /\ Column(i) = m /\ (cfg.online => i \in initialized)
        <5>1. m \in DOMAIN R[c].columns /\ Q[k].columns[m].base = R[c].columns[m].base
          BY <1>3, <4>1, <4>2
        <5> QED BY <3>1, <3>2, <4>2, <5>1 DEF RowOK
      <4> QED BY <4>2, <4>3 DEF RowOK
    <3>3. CASE k # c
      BY <1>6, <3>1, <3>3 DEF RowOK
    <3> QED BY <3>2, <3>3
  <2> QED BY <1>6, <2>1 DEF RowsOK
<1>9. Holds(Q, l) /\ Held(Q, l) = b /\ Q[Bank(l)].dirty = d
  BY <1>2, <1>3, <1>6 DEF Holds, Held
<1>10. ASSUME NEW k \in Lines, k # l
       PROVE  /\ Holds(Q, k) <=> Holds(R, k)
              /\ Holds(R, k) => Held(Q, k) = Held(R, k) /\ (R[Bank(k)].dirty => Q[Bank(k)].dirty)
  <2>1. Bank(k) \in Banks
    BY DEF Banks
  <2>2. CASE Bank(k) = c /\ Column(k) = n
    BY <1>2, <1>3, <1>6, <1>10, <2>2 DEF Holds
  <2>3. CASE Bank(k) = c /\ Column(k) # n
    BY <1>2, <1>3, <1>6, <1>10, <2>3 DEF Holds, Held
  <2>4. CASE Bank(k) # c
    BY <1>6, <2>1, <2>4 DEF Holds, Held
  <2> QED BY <2>2, <2>3, <2>4
<1>11. ASSUME Covered, NEW k \in Lines PROVE LineRight(s, Q, F, k)
  <2>1. LineRight(s, R, E, k)
    BY <1>11 DEF Good
  <2>2. CASE k = l
    BY <1>9, <1>11, <2>2 DEF LineRight
  <2>3. CASE k # l
    BY <1>10, <2>1, <2>3 DEF LineRight
  <2> QED BY <2>2, <2>3
<1>12. ASSUME Plain PROVE RowsSound(s, Q, A)
  <2> SUFFICES ASSUME NEW k \in Lines, Holds(Q, k), NEW i \in Bytes
               PROVE  (load(s, k).init[i] => Held(Q, k).init[i]) /\ Shown(Held(Q, k), i) \in A[k][i]
    BY DEF RowsSound
  <2>1. CASE k = l
    BY <1>9, <1>12, <2>1
  <2>2. CASE k # l
    BY <1>10, <1>12, <2>2 DEF Good, RowsSound
  <2> QED BY <2>1, <2>2
<1>13. Good(y, F, A, D, C)
  BY <1>1, <1>7, <1>8, <1>11, <1>12 DEF Good
<1> QED BY <1>13 DEF y, Q, e

(***************************************************************************)
(* Columns of an open row.                                                 *)
(***************************************************************************)
\* One column of one row of a state replaced.
Replaced(x, b, n, l, B, d) == [be |-> x.be, rows |-> [x.rows EXCEPT ![b] = Refilled(x.rows[b], n, l, B, d)]]

\* A state is the record of its two parts.
LEMMA StateMade ==
  ASSUME NEW x \in States, NEW b \in Banks, NEW n \in DOMAIN x.rows[b].columns
  PROVE  LET e == x.rows[b] IN
         /\ x = [be |-> x.be, rows |-> x.rows] /\ x.rows \in [Banks -> RowEntry] /\ e \in RowEntry
         /\ e = [open |-> e.open, row |-> e.row, dirty |-> e.dirty, columns |-> e.columns]
         /\ e.columns = [m \in DOMAIN e.columns |-> e.columns[m]]
         /\ e.columns[n] \in Column1 /\ e.columns[n] = [base |-> e.columns[n].base, block |-> e.columns[n].block]
<1>1. x.rows \in [Banks -> RowEntry] /\ x = [be |-> x.be, rows |-> x.rows]
  BY DEF States
<1>2. PICK e : e = x.rows[b]
  OBVIOUS
<1>3. e \in RowEntry
  BY <1>1, <1>2
<1>4. e = [open |-> e.open, row |-> e.row, dirty |-> e.dirty, columns |-> e.columns] /\ e.columns \in Part(Numbers, Column1)
  BY <1>3 DEF RowEntry
<1>5. PICK S \in SUBSET Numbers : e.columns \in [S -> Column1]
  BY <1>4 DEF Part
<1>6. e.columns = [m \in DOMAIN e.columns |-> e.columns[m]] /\ e.columns[n] \in Column1
  BY <1>2, <1>5
<1>7. e.columns[n] = [base |-> e.columns[n].base, block |-> e.columns[n].block]
  BY <1>6 DEF Column1
<1> QED BY <1>1, <1>2, <1>3, <1>4, <1>6, <1>7

\* The address of a column is set.
LEMMA BasePut ==
  ASSUME NEW x \in States, NEW b \in Banks, NEW n \in DOMAIN x.rows[b].columns, NEW l
  PROVE  [x EXCEPT !.rows[b].columns[n].base = l]
            = Replaced(x, b, n, l, x.rows[b].columns[n].block, x.rows[b].dirty)
<1> DEFINE R == x.rows
           e == R[b]
           cols == e.columns
           c == cols[n]
<1>1. /\ x = [be |-> x.be, rows |-> R] /\ R \in [Banks -> RowEntry]
      /\ e = [open |-> e.open, row |-> e.row, dirty |-> e.dirty, columns |-> cols]
      /\ cols = [m \in DOMAIN cols |-> cols[m]]
      /\ c = [base |-> c.base, block |-> c.block]
  BY StateMade
<1>2. [c EXCEPT !.base = l] = [base |-> l, block |-> c.block]
  <2> HIDE DEF c
  <2> QED BY <1>1
<1>3. [e EXCEPT !.columns = [cols EXCEPT ![n] = [base |-> l, block |-> c.block]]] = Refilled(e, n, l, c.block, e.dirty)
  <2> HIDE DEF e
  <2> QED BY <1>1 DEF Refilled
<1>4. [x EXCEPT !.rows[b].columns[n].base = l]
        = [x EXCEPT !.rows = [R EXCEPT ![b] = [e EXCEPT !.columns = [cols EXCEPT ![n] = [c EXCEPT !.base = l]]]]]
  OBVIOUS
<1>5. [x EXCEPT !.rows = [R EXCEPT ![b] = Refilled(e, n, l, c.block, e.dirty)]] = Replaced(x, b, n, l, c.block, e.dirty)
  BY <1>1 DEF Replaced
<1> QED BY <1>2, <1>3, <1>4, <1>5, Zenon

\* The block of a column is set.
LEMMA BlockPut ==
  ASSUME NEW x \in States, NEW b \in Banks, NEW n \in DOMAIN x.rows[b].columns, NEW B,
         NEW z, z = [x EXCEPT !.rows[b].columns[n].block = B]
  PROVE  z = Replaced(x, b, n, x.rows[b].columns[n].base, B, x.rows[b].dirty)
<1> DEFINE R == x.rows
           e == R[b]
           cols == e.columns
           c == cols[n]
           f == Refilled(e, n, c.base, B, e.dirty)
           Q == [R EXCEPT ![b] = f]
<1>1. /\ x = [be |-> x.be, rows |-> R] /\ R \in [Banks -> RowEntry]
      /\ e = [open |-> e.open, row |-> e.row, dirty |-> e.dirty, columns |-> cols]
      /\ cols = [m \in DOMAIN cols |-> cols[m]]
      /\ c = [base |-> c.base, block |-> c.block]
  BY StateMade
<1>2. [c EXCEPT !.block = B] = [base |-> c.base, block |-> B]
  <2> HIDE DEF c
  <2> QED BY <1>1
<1>3. [e EXCEPT !.columns = [cols EXCEPT ![n] = [base |-> c.base, block |-> B]]] = f
  <2> HIDE DEF e
  <2> QED BY <1>1 DEF Refilled
<1>4. z = [x EXCEPT !.rows = [R EXCEPT ![b] = [e EXCEPT !.columns = [cols EXCEPT ![n] = [c EXCEPT !.block = B]]]]]
  OBVIOUS
<1>5. [x EXCEPT !.rows = Q] = [be |-> x.be, rows |-> Q]
  <2> HIDE DEF Q
  <2> QED BY <1>1
<1>6. z = [be |-> x.be, rows |-> Q]
  BY <1>2, <1>3, <1>4, <1>5, Zenon
<1> QED BY <1>6 DEF Replaced

\* The block of a column and the row's dirty mark are set.
LEMMA DirtyPut ==
  ASSUME NEW x \in States, NEW b \in Banks, NEW n, NEW l, NEW B, NEW d, NEW e,
         NEW y, y = Replaced(x, b, n, l, B, e), NEW z, z = [y EXCEPT !.rows[b].dirty = d]
  PROVE  z = Replaced(x, b, n, l, B, d)
<1> DEFINE R == x.rows
           f == Refilled(R[b], n, l, B, e)
           g == Refilled(R[b], n, l, B, d)
           Q == [R EXCEPT ![b] = f]
<1>1. R \in [Banks -> RowEntry]
  BY DEF States
<1>2. [f EXCEPT !.dirty = d] = g
  BY DEF Refilled
<1>3. Q[b] = f /\ y = [be |-> x.be, rows |-> Q]
  BY <1>1 DEF Replaced
<1>4. [Q EXCEPT ![b] = g] = [R EXCEPT ![b] = g]
  <2> HIDE DEF f, g
  <2> QED BY <1>1
<1>5. z = [be |-> x.be, rows |-> [Q EXCEPT ![b] = [f EXCEPT !.dirty = d]]]
  <2> HIDE DEF Q, f
  <2> QED BY <1>3
<1> QED BY <1>2, <1>4, <1>5, Zenon DEF Replaced

Filled(x, b, n, B, d) == [x EXCEPT !.rows[b].columns[n].block = B, !.rows[b].dirty = d]

\* What a filled column changes.
LEMMA FilledFacts ==
  ASSUME NEW x \in States, NEW b \in Banks, NEW n \in DOMAIN x.rows[b].columns, NEW B, NEW d
  PROVE  Filled(x, b, n, B, d) = Replaced(x, b, n, x.rows[b].columns[n].base, B, d)
<1>1. PICK w : w = [x EXCEPT !.rows[b].columns[n].block = B]
  OBVIOUS
<1>2. PICK z : z = [w EXCEPT !.rows[b].dirty = d]
  OBVIOUS
<1>3. z = Filled(x, b, n, B, d)
  BY <1>1, <1>2 DEF Filled
<1>4. w = Replaced(x, b, n, x.rows[b].columns[n].base, B, x.rows[b].dirty)
  BY <1>1, BlockPut
<1>5. z = Replaced(x, b, n, x.rows[b].columns[n].base, B, d)
  <2>1. PICK l : l = x.rows[b].columns[n].base
    OBVIOUS
  <2>2. PICK e : e = x.rows[b].dirty
    OBVIOUS
  <2>3. w = Replaced(x, b, n, l, B, e)
    BY <1>4, <2>1, <2>2
  <2>4. z = Replaced(x, b, n, l, B, d)
    BY <1>2, <2>3, DirtyPut
  <2> QED BY <2>1, <2>4
<1> QED BY <1>3, <1>5

\* Where lines have places of their own, the column that a hit finds is the line's.
LEMMA HitHolds ==
  ASSUME NEW x, RowsOK(x.rows), NEW l \in Lines, Hit(x, l), Separate(cfg.place),
         Column(l) \in DOMAIN x.rows[Bank(l)].columns
  PROVE  Holds(x.rows, l)
<1> DEFINE b == Bank(l)
           n == Column(l)
           k == x.rows[b].columns[n].base
<1>1. b \in Banks
  BY DEF Banks
<1>2. RowOK(x.rows, b) /\ k \in Lines
  BY <1>1, RowColumns
<1>3. Bank(k) = b /\ Row(k) = x.rows[b].row /\ Column(k) = n
  BY <1>2 DEF RowOK
<1>4. Row(k) = Row(l)
  BY <1>3 DEF Hit
<1>5. k = l
  BY <1>2, <1>3, <1>4 DEF Separate, Bank, Row, Column
<1> QED BY <1>5 DEF Holds

\* What is held is hit.
LEMMA HoldsHit ==
  ASSUME NEW x, RowsOK(x.rows), NEW l \in Lines, Holds(x.rows, l)
  PROVE  Hit(x, l)
BY HoldsOpen DEF Hit

\* The row buffer found, the line is held in it.
IsBlocked(x, l, y) ==
    /\ Holds(y.rows, l) /\ y.be.d.present = x.be.d.present
    /\ \A k \in Lines : load(y.be, k) = load(x.be, k)

\* row_buffer_block, the column known.
LEMMA RowBlockKnown ==
  ASSUME NEW x, NEW E, NEW A, NEW D, NEW C, Good(x, E, A, D, C), NEW l \in Lines, Hit(x, l), Usable(l),
         Column(l) \in DOMAIN x.rows[Bank(l)].columns, NEW y, y = row_buffer_block(x, l)
  PROVE  Good(y, E, A, D, C) /\ IsBlocked(x, l, y)
<1> DEFINE R == x.rows
           b == Bank(l)
           n == Column(l)
           e == R[b]
           f == Refilled(e, n, l, e.columns[n].block, e.dirty)
           Q == [R EXCEPT ![b] = f]
<1>1. x \in States /\ EndOK(x.be) /\ RowsOK(R) /\ b \in Banks /\ R \in [Banks -> RowEntry] /\ e \in RowEntry
  BY DEF Good, Banks, RowsOK
<1>2. y = [be |-> x.be, rows |-> Q]
  <2>1. y = [x EXCEPT !.rows[b].columns[n].base = l]
    BY DEF row_buffer_block
  <2> QED BY <1>1, <2>1, BasePut DEF Replaced
<1>3. /\ e.columns = [m \in DOMAIN e.columns |-> e.columns[m]]
      /\ e.columns[n] \in Column1 /\ e.columns[n] = [base |-> e.columns[n].base, block |-> e.columns[n].block]
      /\ e = [open |-> e.open, row |-> e.row, dirty |-> e.dirty, columns |-> e.columns]
  BY <1>1, StateMade
<1>4. /\ f.open = e.open /\ f.row = e.row /\ f.dirty = e.dirty /\ DOMAIN f.columns = DOMAIN e.columns
      /\ f.columns[n] = [base |-> l, block |-> e.columns[n].block]
      /\ \A m \in DOMAIN e.columns : m # n => f.columns[m] = e.columns[m]
  BY DEF Refilled
<1>5. f \in RowEntry
  <2>1. PICK S \in SUBSET Numbers : e.columns \in [S -> Column1]
    BY <1>1 DEF Part, RowEntry
  <2>2. [base |-> l, block |-> e.columns[n].block] \in Column1
    BY <1>3 DEF Column1
  <2>3. f.columns \in [S -> Column1]
    BY <2>1, <2>2 DEF Refilled
  <2>4. f.columns \in Part(Numbers, Column1)
    BY <2>1, <2>3 DEF Part
  <2> QED BY <1>1, <2>4 DEF RowEntry, Refilled
<1>6. Q[b] = f /\ (\A k \in Banks \ {b} : Q[k] = R[k]) /\ Q \in [Banks -> RowEntry]
  <2> HIDE DEF f
  <2> QED BY <1>1, <1>5
<1>7. ASSUME Separate(cfg.place) PROVE Q = R
  <2>1. e.columns[n].base = l
    BY <1>1, <1>7, HitHolds DEF Holds
  <2>2. [e.columns EXCEPT ![n] = [base |-> l, block |-> e.columns[n].block]] = e.columns
    BY <1>3, <2>1
  <2>3. f = e
    <3> HIDE DEF e
    <3> QED BY <1>3, <2>2 DEF Refilled
  <2> QED BY <1>1, <2>3
<1> HIDE DEF f
<1>8. RowsOK(Q)
  <2>1. ASSUME NEW k \in Banks PROVE RowOK(Q, k)
    <3>1. RowOK(R, k)
      BY <1>1 DEF RowsOK
    <3>2. CASE k = b
      <4>1. Q[k].open /\ Q[k].row = Row(l) /\ Q[k].row = e.row /\ Q[k].columns = f.columns
        BY <1>4, <1>6, <3>2 DEF Hit
      <4>2. ASSUME NEW m \in DOMAIN Q[k].columns
            PROVE  LET i == Q[k].columns[m].base
                   IN  Bank(i) = k /\ Row(i) = Q[k].row /\ Column(i) = m /\ (cfg.online => i \in initialized)
        <5>1. m \in DOMAIN e.columns
          BY <1>4, <4>1
        <5>2. CASE m = n
          <6>1. Q[k].columns[m].base = l
            <7>1. f.columns[n].base = l
              BY <1>4
            <7> QED BY <4>1, <5>2, <7>1
          <6> QED BY <3>2, <4>1, <5>2, <6>1 DEF Usable
        <5>3. CASE m # n
          <6>1. Q[k].columns[m] = e.columns[m]
            BY <1>4, <4>1, <5>1, <5>3
          <6> QED BY <3>1, <3>2, <4>1, <5>1, <6>1 DEF RowOK
        <5> QED BY <5>2, <5>3
      <4> QED BY <4>1, <4>2 DEF RowOK
    <3>3. CASE k # b
      BY <1>6, <3>1, <3>3 DEF RowOK
    <3> QED BY <3>2, <3>3
  <2> QED BY <1>6, <2>1 DEF RowsOK
<1>9. Holds(Q, l)
  <2>1. f.columns[n].base = l /\ n \in DOMAIN f.columns
    BY <1>4
  <2> QED BY <1>6, <2>1 DEF Holds
<1> HIDE DEF Q
<1>10. y \in States /\ y.be = x.be /\ y.rows = Q
  BY <1>1, <1>2, <1>6 DEF States
<1>11. Good(y, E, A, D, C)
  <2>1. Covered => \A k \in Lines : LineRight(y.be, y.rows, E, k)
    BY <1>7, <1>10 DEF Good, Covered
  <2>2. Plain => EndSound(y.be, A, D) /\ RowsSound(y.be, y.rows, A)
    BY <1>7, <1>10 DEF Good, Plain
  <2>3. C => CountOK(y.be, D)
    BY <1>10 DEF Good
  <2> QED BY <1>1, <1>8, <1>10, <2>1, <2>2, <2>3 DEF Good
<1> QED BY <1>9, <1>10, <1>11 DEF IsBlocked

\* row_buffer_block, the column loaded.
LEMMA RowBlockLoaded ==
  ASSUME NEW x, NEW E, NEW A, NEW D, NEW C, Good(x, E, A, D, C), NEW l \in Lines, Hit(x, l), Usable(l),
         IsFiniteSet(Lines), cfg.cache \in Nat \ {0},
         Column(l) \notin DOMAIN x.rows[Bank(l)].columns, NEW y, y = row_buffer_block(x, l)
  PROVE  Good(y, E, A, D, C) /\ IsBlocked(x, l, y)
<1> DEFINE R == x.rows
           b == Bank(l)
           n == Column(l)
           e == R[b]
           s == Reached(x.be, l)
           B == load(s, l)
           K == [base |-> l, block |-> B]
           cols == With(e.columns, n, K)
           f == [e EXCEPT !.columns = cols]
           Q == [R EXCEPT ![b] = f]
           z == [be |-> s, rows |-> R]
<1>1. x \in States /\ EndOK(x.be) /\ RowsOK(R) /\ b \in Banks /\ R \in [Banks -> RowEntry] /\ e \in RowEntry
  BY DEF Good, Banks, RowsOK
<1>2. y = [be |-> s, rows |-> Q]
  BY <1>1 DEF row_buffer_block
<1>3. Keeps(x.be, s) /\ Safe(x.be, s, A, D)
  BY <1>1, ReachedKeeps, ReachedSafe
<1>4. Good(z, E, A, D, C)
  BY <1>3, KeepsGood
<1>5. EndOK(s) /\ s \in Ends /\ B \in Block /\ s.d.present = x.be.d.present /\ \A k \in Lines : load(s, k) = load(x.be, k)
  BY <1>3, LoadType DEF Keeps, EndOK
<1>6. z.be = s /\ z.rows = R
  OBVIOUS
<1> HIDE DEF z, s
<1>7. K \in Column1 /\ K.base = l /\ K.block = B
  BY <1>5 DEF Column1
<1> HIDE DEF B, K
<1>8. /\ DOMAIN cols = DOMAIN e.columns \union {n} /\ cols[n] = K
      /\ \A m \in DOMAIN e.columns : cols[m] = e.columns[m]
  BY DEF With
<1>9. cols \in Part(Numbers, Column1)
  <2>1. PICK S \in SUBSET Numbers : e.columns \in [S -> Column1]
    BY <1>1 DEF Part, RowEntry
  <2>2. n \in Numbers
    BY DEF Numbers
  <2>3. cols \in [S \union {n} -> Column1]
    BY <1>7, <2>1 DEF With
  <2>4. S \union {n} \in SUBSET Numbers
    BY <2>1, <2>2
  <2> HIDE DEF cols
  <2> QED BY <2>3, <2>4 DEF Part
<1> HIDE DEF cols
<1>10. f \in RowEntry /\ f.open = e.open /\ f.row = e.row /\ f.dirty = e.dirty /\ f.columns = cols
  <2> HIDE DEF e
  <2> QED BY <1>1, <1>9 DEF RowEntry
<1> HIDE DEF f
<1>11. Q[b] = f /\ (\A k \in Banks \ {b} : Q[k] = R[k]) /\ Q \in [Banks -> RowEntry]
  BY <1>1, <1>10
<1> HIDE DEF Q
<1>12. y \in States /\ y.be = s /\ y.rows = Q
  BY <1>2, <1>5, <1>11 DEF States
<1>13. RowsOK(Q)
  <2>1. ASSUME NEW k \in Banks PROVE RowOK(Q, k)
    <3>1. RowOK(R, k)
      BY <1>1 DEF RowsOK
    <3>2. CASE k = b
      <4>1. Q[k].open /\ Q[k].row = Row(l) /\ Q[k].row = e.row /\ Q[k].columns = cols
        BY <1>10, <1>11, <3>2 DEF Hit
      <4>2. ASSUME NEW m \in DOMAIN Q[k].columns
            PROVE  LET i == Q[k].columns[m].base
                   IN  Bank(i) = k /\ Row(i) = Q[k].row /\ Column(i) = m /\ (cfg.online => i \in initialized)
        <5>1. CASE m = n
          <6>1. Q[k].columns[m].base = l
            BY <1>7, <1>8, <4>1, <5>1
          <6> QED BY <3>2, <4>1, <5>1, <6>1 DEF Usable
        <5>2. CASE m # n
          <6>1. m \in DOMAIN e.columns /\ Q[k].columns[m] = e.columns[m]
            BY <1>8, <4>1, <5>2
          <6> QED BY <3>1, <3>2, <4>1, <6>1 DEF RowOK
        <5> QED BY <5>1, <5>2
      <4> QED BY <4>1, <4>2 DEF RowOK
    <3>3. CASE k # b
      BY <1>11, <3>1, <3>3 DEF RowOK
    <3> QED BY <3>2, <3>3
  <2> QED BY <1>11, <2>1 DEF RowsOK
<1>14. Holds(Q, l) /\ Held(Q, l) = B /\ ~Holds(R, l) /\ Q[Bank(l)].dirty = R[Bank(l)].dirty
  BY <1>7, <1>8, <1>10, <1>11 DEF Holds, Held
<1>15. ASSUME NEW k \in Lines, k # l
       PROVE  /\ Holds(Q, k) <=> Holds(R, k)
              /\ Holds(R, k) => Held(Q, k) = Held(R, k)
              /\ R[Bank(k)].dirty <=> Q[Bank(k)].dirty
  <2>1. Bank(k) \in Banks
    BY DEF Banks
  <2>2. CASE Bank(k) = b /\ Column(k) = n
    BY <1>7, <1>8, <1>10, <1>11, <1>15, <2>2 DEF Holds
  <2>3. CASE Bank(k) = b /\ Column(k) # n
    BY <1>8, <1>10, <1>11, <1>15, <2>3 DEF Holds, Held
  <2>4. CASE Bank(k) # b
    BY <1>11, <2>1, <2>4 DEF Holds, Held
  <2> QED BY <2>2, <2>3, <2>4
<1>16. ASSUME Covered, NEW k \in Lines PROVE LineRight(s, Q, E, k)
  <2>1. LineRight(s, R, E, k)
    BY <1>4, <1>6, <1>16 DEF Good
  <2>2. CASE k = l
    BY <1>14, <2>1, <2>2 DEF LineRight, B
  <2>3. CASE k # l
    BY <1>15, <2>1, <2>3 DEF LineRight
  <2> QED BY <2>2, <2>3
<1>17. ASSUME Plain PROVE EndSound(s, A, D) /\ RowsSound(s, Q, A)
  <2>1. EndSound(s, A, D) /\ RowsSound(s, R, A)
    BY <1>4, <1>6, <1>17 DEF Good
  <2> SUFFICES ASSUME NEW k \in Lines, Holds(Q, k), NEW i \in Bytes
               PROVE  (load(s, k).init[i] => Held(Q, k).init[i]) /\ Shown(Held(Q, k), i) \in A[k][i]
    BY <2>1 DEF RowsSound
  <2>2. CASE k = l
    BY <1>14, <2>1, <2>2 DEF EndSound, B
  <2>3. CASE k # l
    BY <1>15, <2>1, <2>3 DEF RowsSound
  <2> QED BY <2>2, <2>3
<1>18. C => CountOK(s, D)
  BY <1>4, <1>6 DEF Good
<1>19. Good(y, E, A, D, C)
  BY <1>5, <1>12, <1>13, <1>16, <1>17, <1>18 DEF Good
<1> QED BY <1>5, <1>12, <1>14, <1>19 DEF IsBlocked

\* row_buffer_block.
LEMMA RowBlockGood ==
  ASSUME NEW x, NEW E, NEW A, NEW D, NEW C, Good(x, E, A, D, C), NEW l \in Lines, Hit(x, l), Usable(l),
         IsFiniteSet(Lines), cfg.cache \in Nat \ {0}, NEW y, y = row_buffer_block(x, l)
  PROVE  Good(y, E, A, D, C) /\ IsBlocked(x, l, y)
BY RowBlockKnown, RowBlockLoaded

(***************************************************************************)
(* read and write.                                                         *)
(***************************************************************************)
\* What a plain memory holds, and what the files may show, after a write.
Wrote(E, F, l, v, mask) ==
    /\ \A k \in Lines \ {l} : F[k] = E[k]
    /\ \A i \in Bytes : F[l][i] = IF mask[i] THEN v ELSE E[l][i]
Grants(A, B, l, v, mask) ==
    /\ \A k \in Lines : \A i \in Bytes : A[k][i] \subseteq B[k][i]
    /\ \A i \in Bytes : mask[i] => v \in B[l][i]

\* What the line shows after a write may be shown.
LEMMA MergedMay ==
  ASSUME NEW b \in Block, NEW v \in Int, NEW mask \in Flags, next_version_ \in Nat \ {0}, ~cfg.ecc,
         NEW A, NEW B, NEW l \in Lines, Grants(A, B, l, v, mask), NEW i \in Bytes, Shown(b, i) \in A[l][i]
  PROVE  Shown(Merged(b, v, mask), i) \in B[l][i] /\ (b.init[i] => Merged(b, v, mask).init[i])
<1>1. PICK m : m = Merged(b, v, mask)
  OBVIOUS
<1>2. m.init[i] = (mask[i] \/ b.init[i]) /\ m.bytes[i] = IF mask[i] THEN v ELSE b.bytes[i]
  BY <1>1, MergedFacts
<1>3. b.init[i] \in BOOLEAN /\ mask[i] \in BOOLEAN
  BY DEF Block, Flags
<1>4. CASE mask[i]
  <2>1. Shown(m, i) = v /\ m.init[i]
    BY <1>2, <1>4 DEF Shown
  <2> QED BY <1>1, <1>4, <2>1 DEF Grants
<1>5. CASE ~mask[i]
  <2>1. Shown(m, i) = Shown(b, i) /\ (b.init[i] => m.init[i])
    BY <1>2, <1>3, <1>5 DEF Shown
  <2> QED BY <1>1, <2>1 DEF Grants
<1> QED BY <1>4, <1>5

\* read of a line in an open row.
LEMMA ReadHitGood ==
  ASSUME NEW x, NEW E, NEW A, NEW D, NEW C, Good(x, E, A, D, C), NEW l \in Lines, Hit(x, l), Usable(l),
         IsFiniteSet(Lines), cfg.cache \in Nat \ {0}, NEW y, y = row_buffer_block(x, l),
         NEW z, z = [y EXCEPT !.rows[Bank(l)].columns[Column(l)].block = check_ecc_shadow(@)]
  PROVE  Good(z, E, A, D, C)
<1> DEFINE b == Bank(l)
           n == Column(l)
           h == Held(y.rows, l)
           m == check_ecc_shadow(h)
           d == y.rows[b].dirty
<1>1. Good(y, E, A, D, C) /\ IsBlocked(x, l, y)
  BY RowBlockGood
<1>2. y \in States /\ RowsOK(y.rows) /\ Holds(y.rows, l) /\ b \in Banks
  BY <1>1 DEF Good, IsBlocked, Banks
<1>3. n \in DOMAIN y.rows[b].columns /\ y.rows[b].columns[n].base = l /\ h \in Block
  BY <1>2, HoldsOpen DEF Holds
<1>4. d \in BOOLEAN
  BY <1>2 DEF RowsOK, RowEntry
<1>5. z = Replaced(y, b, n, l, m, d)
  <2>1. z = [y EXCEPT !.rows[b].columns[n].block = m]
    BY DEF Held
  <2>2. z = Replaced(y, b, n, y.rows[b].columns[n].base, m, d)
    <3> HIDE DEF m
    <3> QED BY <1>2, <1>3, <2>1, BlockPut
  <2> QED BY <1>3, <2>1, <2>2
<1>6. m \in Block /\ (~cfg.ecc => m = h)
  BY <1>3, CheckFacts
<1>7. ASSUME Covered PROVE Right(m, E[l]) /\ (d \/ Right(load(y.be, l), E[l]))
  <2>1. LineRight(y.be, y.rows, E, l)
    BY <1>1, <1>7 DEF Good
  <2>2. Right(h, E[l]) /\ (d \/ Right(load(y.be, l), E[l]))
    BY <1>2, <2>1 DEF LineRight
  <2> QED BY <1>3, <2>2, RightChecked
<1>8. ASSUME Plain PROVE \A i \in Bytes : (load(y.be, l).init[i] => m.init[i]) /\ Shown(m, i) \in A[l][i]
  <2>1. RowsSound(y.be, y.rows, A) /\ m = h
    BY <1>1, <1>6, <1>8 DEF Good, Plain
  <2> QED BY <1>2, <2>1 DEF RowsSound
<1> HIDE DEF m, d, h
<1>9. Good([be |-> y.be, rows |-> [y.rows EXCEPT ![Bank(l)] = Refilled(y.rows[Bank(l)], Column(l), l, m, d)]], E, A, D, C)
  <2>1. y.rows[Bank(l)].dirty => d
    BY DEF d
  <2> QED BY <1>1, <1>2, <1>4, <1>6, <1>7, <1>8, <2>1, HeldGood
<1> QED BY <1>5, <1>9 DEF Replaced

\* read past the row buffers.
LEMMA ReadMissGood ==
  ASSUME NEW x, NEW E, NEW A, NEW D, NEW C, Good(x, E, A, D, C), NEW l \in Lines, ~Hit(x, l),
         IsFiniteSet(Lines), cfg.cache \in Nat \ {0}, NEW s, s = Reached(x.be, l), NEW b, b = load(s, l)
  PROVE  Good([be |-> IF check_ecc_shadow(b) = b THEN s ELSE store(s, l, check_ecc_shadow(b)), rows |-> x.rows], E, A, D, C)
<1> DEFINE y == [be |-> s, rows |-> x.rows]
           m == check_ecc_shadow(b)
<1>1. EndOK(x.be) /\ RowsOK(x.rows)
  BY DEF Good
<1>2. Keeps(x.be, s) /\ Safe(x.be, s, A, D)
  BY <1>1, ReachedKeeps, ReachedSafe
<1>3. Good(y, E, A, D, C)
  BY <1>2, KeepsGood
<1>4. y.be = s /\ y.rows = x.rows
  OBVIOUS
<1>5. b \in Block /\ ~Holds(x.rows, l)
  <2>1. EndOK(s)
    BY <1>2 DEF Keeps
  <2> QED BY <1>1, <2>1, LoadType, HoldsHit
<1> HIDE DEF y
<1>6. m \in Block /\ (~cfg.ecc => m = b)
  BY <1>5, CheckFacts
<1>7. MayPut(y, l, m, E, A)
  <2>1. ASSUME Covered PROVE Right(m, E[l])
    <3>1. LineRight(s, x.rows, E, l)
      BY <1>3, <1>4, <2>1 DEF Good
    <3> QED BY <1>5, <3>1, RightChecked DEF LineRight
  <2>2. ASSUME Plain PROVE MayStore(s, l, m, A)
    <3>1. EndSound(s, A, D) /\ m = b
      BY <1>3, <1>4, <1>6, <2>2 DEF Good, Plain
    <3> QED BY <3>1 DEF MayStore, EndSound
  <2> HIDE DEF m
  <2> QED BY <1>4, <1>5, <2>1, <2>2 DEF MayPut
<1> HIDE DEF m
<1>8. Good([be |-> store(y.be, l, m), rows |-> y.rows], E, A, D, C)
  BY <1>3, <1>6, <1>7, StoreGood
<1>9. CASE m = b
  BY <1>3, <1>9 DEF m, y
<1>10. CASE m # b
  BY <1>4, <1>8, <1>10 DEF m
<1> QED BY <1>9, <1>10

\* write past the row buffers.
LEMMA WriteMissGood ==
  ASSUME NEW x, NEW E, NEW A, NEW D, NEW C, Good(x, E, A, D, C), NEW l \in Lines, ~Holds(x.rows, l),
         IsFiniteSet(Lines), cfg.cache \in Nat \ {0}, next_version_ \in Nat \ {0},
         NEW v \in Int, NEW mask \in Flags, Covered /\ cfg.ecc => \A i \in Bytes : mask[i],
         NEW F, Wrote(E, F, l, v, mask), NEW B, Grants(A, B, l, v, mask)
  PROVE  Good([be |-> store(x.be, l, Merged(load(x.be, l), v, mask)), rows |-> x.rows], F, B, D, C)
<1> DEFINE b == load(x.be, l)
           m == Merged(b, v, mask)
<1>1. EndOK(x.be) /\ b \in Block
  BY LoadType DEF Good
<1>2. m \in Block
  BY <1>1, MergedFacts
<1>3. Good(x, E, B, D, C)
  BY GoodMono DEF Grants
<1>4. MayPut(x, l, m, F, B)
  <2>1. ASSUME Covered PROVE Right(m, F[l])
    <3>1. LineRight(x.be, x.rows, E, l)
      BY <2>1 DEF Good
    <3>2. Right(b, E[l])
      BY <3>1 DEF LineRight
    <3>3. \A i \in Bytes : F[l][i] = IF mask[i] THEN v ELSE E[l][i]
      BY DEF Wrote
    <3>4. cfg.ecc => \A i \in Bytes : mask[i]
      BY <2>1
    <3> HIDE DEF b
    <3> QED BY <1>1, <3>2, <3>3, <3>4, MergedRight
  <2>2. ASSUME Plain PROVE MayStore(x.be, l, m, B)
    <3>1. EndSound(x.be, A, D) /\ ~cfg.ecc
      BY <2>2 DEF Good, Plain
    <3>2. \A i \in Bytes : Shown(b, i) \in A[l][i]
      BY <3>1 DEF EndSound
    <3>3. ASSUME NEW i \in Bytes PROVE Shown(m, i) \in B[l][i] /\ (b.init[i] => m.init[i])
      <4> HIDE DEF b
      <4> QED BY <1>1, <3>1, <3>2, MergedMay
    <3> HIDE DEF m
    <3> QED BY <3>3 DEF MayStore
  <2> HIDE DEF m
  <2> QED BY <2>1, <2>2 DEF MayPut
<1>5. \A k \in Lines \ {l} : F[k] = E[k]
  BY DEF Wrote
<1> HIDE DEF m
<1>6. Good([be |-> store(x.be, l, m), rows |-> x.rows], F, B, D, C)
  BY <1>2, <1>3, <1>4, <1>5, StoreGood
<1> QED BY <1>6 DEF m

\* A line written for the first time is allocated, and shows the same.
LEMMA AllocateGood ==
  ASSUME NEW y, NEW E, NEW A, NEW D, NEW C, Good(y, E, A, D, C), NEW l \in Lines, Holds(y.rows, l),
         IsFiniteSet(Lines), cfg.cache \in Nat \ {0}, ~y.be.d.present[l],
         NEW a, a = [be |-> store(y.be, l, make_line), rows |-> y.rows]
  PROVE  Good(a, E, A, D, C)
<1>1. EndOK(y.be) /\ RowsOK(y.rows)
  BY DEF Good
<1>2. load(y.be, l) = make_line /\ make_line \in Block
  BY <1>1, LoadType DEF load
<1>3. MayPut(y, l, make_line, E, A)
  <2>1. ASSUME Covered
        PROVE  /\ Right(make_line, E[l]) \/ (Holds(y.rows, l) /\ y.rows[Bank(l)].dirty)
               /\ Right(Held(y.rows, l), E[l])
    <3>1. LineRight(y.be, y.rows, E, l)
      BY <2>1 DEF Good
    <3> QED BY <1>2, <3>1 DEF LineRight
  <2>2. ASSUME Plain
        PROVE  MayStore(y.be, l, make_line, A) /\ \A i \in Bytes : make_line.init[i] => Held(y.rows, l).init[i]
    <3>1. EndSound(y.be, A, D) /\ RowsSound(y.be, y.rows, A)
      BY <2>2 DEF Good
    <3>2. \A i \in Bytes : Shown(load(y.be, l), i) \in A[l][i]
      BY <3>1 DEF EndSound
    <3>3. \A i \in Bytes : load(y.be, l).init[i] => Held(y.rows, l).init[i]
      BY <3>1 DEF RowsSound
    <3> QED BY <1>2, <3>2, <3>3 DEF MayStore
  <2> QED BY <2>1, <2>2 DEF MayPut
<1> QED BY <1>2, <1>3, StoreGood

\* The block of a line held in a row is written.
LEMMA HeldWriteGood ==
  ASSUME NEW a, NEW E, NEW A, NEW D, NEW C, Good(a, E, A, D, C), NEW l \in Lines, Holds(a.rows, l),
         next_version_ \in Nat \ {0},
         NEW v \in Int, NEW mask \in Flags, Covered /\ cfg.ecc => \A i \in Bytes : mask[i],
         NEW F, Wrote(E, F, l, v, mask), NEW B, Grants(A, B, l, v, mask),
         NEW m, m = Merged(Held(a.rows, l), v, mask),
         NEW d, d = (a.rows[Bank(l)].dirty \/ \E i \in Bytes : mask[i])
  PROVE  Good(Filled(a, Bank(l), Column(l), m, d), F, B, D, C)
<1> DEFINE b == Bank(l)
           n == Column(l)
           h == Held(a.rows, l)
<1>4. Good(a, E, B, D, C)
  BY GoodMono DEF Grants
<1>5. a \in States /\ RowsOK(a.rows) /\ Holds(a.rows, l) /\ b \in Banks
  BY DEF Good, Banks
<1>6. n \in DOMAIN a.rows[b].columns /\ a.rows[b].columns[n].base = l /\ h \in Block
  BY <1>5, HoldsOpen DEF Holds
<1>7. m \in Block
  BY <1>6, MergedFacts
<1>8. d \in BOOLEAN
  OBVIOUS
<1>9. Filled(a, b, n, m, d) = Replaced(a, b, n, l, m, d)
  BY <1>5, <1>6, FilledFacts
<1>10. ASSUME Covered PROVE Right(m, F[l]) /\ (d \/ Right(load(a.be, l), F[l]))
  <2>1. LineRight(a.be, a.rows, E, l)
    BY <1>10 DEF Good
  <2>2. Right(h, E[l]) /\ (a.rows[b].dirty \/ Right(load(a.be, l), E[l]))
    BY <1>5, <2>1 DEF LineRight
  <2>3. \A i \in Bytes : F[l][i] = IF mask[i] THEN v ELSE E[l][i]
    BY DEF Wrote
  <2>4. cfg.ecc => \A i \in Bytes : mask[i]
    BY <1>10
  <2>5. Right(m, F[l])
    <3> HIDE DEF h
    <3> QED BY <1>6, <2>2, <2>3, <2>4, MergedRight DEF h
  <2>6. CASE ~d
    <3>1. \A i \in Bytes : F[l][i] = E[l][i]
      BY <2>3, <2>6
    <3>2. Right(load(a.be, l), E[l])
      BY <2>2, <2>6
    <3>3. Right(load(a.be, l), F[l])
      BY <3>1, <3>2 DEF Right
    <3> QED BY <2>5, <3>3
  <2> QED BY <2>5, <2>6
<1>11. ASSUME Plain PROVE \A i \in Bytes : (load(a.be, l).init[i] => m.init[i]) /\ Shown(m, i) \in B[l][i]
  <2>1. RowsSound(a.be, a.rows, A) /\ ~cfg.ecc
    BY <1>11 DEF Good, Plain
  <2>2. \A i \in Bytes : (load(a.be, l).init[i] => h.init[i]) /\ Shown(h, i) \in A[l][i]
    BY <1>5, <2>1 DEF RowsSound
  <2>3. ASSUME NEW i \in Bytes PROVE Shown(m, i) \in B[l][i] /\ (h.init[i] => m.init[i])
    BY <1>6, <2>1, <2>2, MergedMay
  <2> HIDE DEF h
  <2> QED BY <2>2, <2>3
<1> HIDE DEF h
<1>12. Good([be |-> a.be, rows |-> [a.rows EXCEPT ![Bank(l)] = Refilled(a.rows[Bank(l)], Column(l), l, m, d)]], F, B, D, C)
  <2>1. a.rows[Bank(l)].dirty => d
    OBVIOUS
  <2>2. \A k \in Lines \ {l} : F[k] = E[k]
    BY DEF Wrote
  <2> QED BY <1>4, <1>5, <1>7, <1>8, <1>10, <1>11, <2>1, <2>2, HeldGood
<1> QED BY <1>9, <1>12 DEF Replaced

\* The line is allocated when it is first written.
Allocates(x, y, l) == [y EXCEPT !.be = IF x.be.d.present[l] THEN @ ELSE store(@, l, make_line)]

\* write of a line in an open row.
LEMMA WriteHitGood ==
  ASSUME NEW x, NEW E, NEW A, NEW D, NEW C, Good(x, E, A, D, C), NEW l \in Lines, Hit(x, l), Usable(l),
         IsFiniteSet(Lines), cfg.cache \in Nat \ {0}, next_version_ \in Nat \ {0},
         NEW v \in Int, NEW mask \in Flags, Covered /\ cfg.ecc => \A i \in Bytes : mask[i],
         NEW F, Wrote(E, F, l, v, mask), NEW B, Grants(A, B, l, v, mask),
         NEW y, y = row_buffer_block(x, l),
         NEW a, a = Allocates(x, y, l),
         NEW m, m = Merged(a.rows[Bank(l)].columns[Column(l)].block, v, mask),
         NEW d, d = (a.rows[Bank(l)].dirty \/ Dirties(y, l, mask))
  PROVE  Good(Filled(a, Bank(l), Column(l), m, d), F, B, D, C)
<1>1. Good(y, E, A, D, C) /\ IsBlocked(x, l, y)
  BY RowBlockGood
<1>2. y \in States /\ Holds(y.rows, l) /\ y.be.d.present = x.be.d.present
  BY <1>1 DEF Good, IsBlocked
<1>3. Good(a, E, A, D, C) /\ a.rows = y.rows
  <2>0. y = [be |-> y.be, rows |-> y.rows]
    BY <1>2 DEF States
  <2>1. CASE x.be.d.present[l]
    <3>1. a = y
      BY <2>0, <2>1 DEF Allocates
    <3> QED BY <1>1, <3>1
  <2>2. CASE ~x.be.d.present[l]
    <3>1. a = [be |-> store(y.be, l, make_line), rows |-> y.rows]
      BY <2>0, <2>2 DEF Allocates
    <3> QED BY <1>1, <1>2, <2>2, <3>1, AllocateGood
  <2> QED BY <2>1, <2>2
<1>4. m = Merged(Held(a.rows, l), v, mask)
  BY DEF Held
<1>5. d = (a.rows[Bank(l)].dirty \/ \E i \in Bytes : mask[i])
  BY DEF Dirties
<1>6. Good(a, E, A, D, C) /\ Holds(a.rows, l)
  BY <1>2, <1>3
<1> QED BY <1>4, <1>5, <1>6, HeldWriteGood, Zenon

(***************************************************************************)
(* clear.                                                                  *)
(***************************************************************************)
\* A total map is a part of one, and replaces one.
LEMMA TotalOver ==
  ASSUME NEW V, NEW t \in [Lines -> V], NEW f \in [Lines -> V]
  PROVE  t \in Part(Lines, V) /\ Over(t, f) = t
<1>1. t \in Part(Lines, V)
  BY DEF Part
<1>2. Over(t, f) = [k \in Lines |-> t[k]]
  BY DEF Over
<1> QED BY <1>1, <1>2

\* The empty files.
LEMMA EmptyFiles ==
  /\ Empty \in Files /\ Empty.data \in [Lines -> Word] /\ Empty.init \in [Lines -> Flags]
  /\ Empty.meta \in [Lines -> Meta] /\ Empty.present \in [Lines -> BOOLEAN] /\ Empty.written \in [Lines -> BOOLEAN]
  /\ Empty.header \in Header /\ (\A l \in Lines : ~Empty.present[l] /\ ~Empty.written[l])
  /\ Empty.header.written = 0 /\ Empty.header.allocated = 0
<1>1. Empty.data \in [Lines -> Word]
  BY DEF Empty, Word, Zero
<1>2. Empty.init \in [Lines -> Flags]
  <2>1. Zero(FALSE) \in Flags
    BY DEF Zero, Flags
  <2>2. Empty.init = [l \in Lines |-> Zero(FALSE)]
    BY DEF Empty
  <2> QED BY <2>1, <2>2
<1>3. Empty.meta \in [Lines -> Meta]
  <2>1. <<>> \in Ecc
    <3>1. <<>> \in Seq(Word)
      OBVIOUS
    <3> QED BY <3>1, Zenon DEF Ecc
  <2>2. FALSE \in Bad
    BY Zenon DEF Bad
  <2>3. [version |-> 0, ecc |-> <<>>, bad |-> FALSE] \in Meta
    BY <2>1, <2>2 DEF Meta
  <2>4. Empty.meta = [l \in Lines |-> [version |-> 0, ecc |-> <<>>, bad |-> FALSE]]
    BY DEF Empty
  <2> QED BY <2>3, <2>4, Zenon
<1>4. Empty.present \in [Lines -> BOOLEAN] /\ \A l \in Lines : ~Empty.present[l]
  <2>1. Empty.present = [l \in Lines |-> FALSE]
    BY DEF Empty
  <2> QED BY <2>1
<1>5. Empty.written \in [Lines -> BOOLEAN] /\ \A l \in Lines : ~Empty.written[l]
  <2>1. Empty.written = [l \in Lines |-> FALSE]
    BY DEF Empty
  <2> QED BY <2>1
<1>6. Empty.header \in Header /\ Empty.header.written = 0 /\ Empty.header.allocated = 0
  BY DEF Empty, Header
<1>7. Empty = [data |-> Empty.data, init |-> Empty.init, meta |-> Empty.meta, present |-> Empty.present,
               written |-> Empty.written, header |-> Empty.header]
  BY DEF Empty
<1>8. Empty \in Files
  <2> HIDE DEF Empty
  <2> QED BY <1>1, <1>2, <1>3, <1>4, <1>5, <1>6, <1>7 DEF Files
<1> QED BY <1>1, <1>2, <1>3, <1>4, <1>5, <1>6, <1>8

\* One file is emptied.
LEMMA BlankedFacts ==
  ASSUME NEW s \in Ends, NEW D, IsFiniteSet(Lines)
  PROVE  /\ \A file \in {"data", "init", "meta"} :
              LET r == Blanked(s, file)
              IN  r \in Ends /\ (Trail(s, SaneFiles, D) => Trail(r, SaneFiles, D))
         /\ LET r == Blanked(s, "present")
            IN  r \in Ends /\ (Trail(s, SaneFiles, D) => Trail(r, SaneFiles, D)) /\ r.d.present = Empty.present
         /\ LET r == Blanked(s, "written")
            IN  /\ r \in Ends /\ (Trail(s, SaneFiles, D) => Trail(r, SaneFiles, D))
                /\ r.d.present = s.d.present /\ r.d.written = Empty.written
         /\ LET r == Blanked(s, "header")
            IN  /\ r \in Ends /\ (Trail(s, SaneFiles, D) => Trail(r, SaneFiles, D))
                /\ r.d.present = s.d.present /\ r.d.written = s.d.written
<1>1. s.d \in Files
  BY DEF Ends
<1>2. /\ s.d.data \in [Lines -> Word] /\ s.d.init \in [Lines -> Flags] /\ s.d.meta \in [Lines -> Meta]
      /\ s.d.present \in [Lines -> BOOLEAN] /\ s.d.written \in [Lines -> BOOLEAN] /\ s.d.header \in Header
  BY <1>1 DEF Files
<1>3. ASSUME NEW r, NEW w, NEW f, IsPut(s, r, w, f), HeaderOK(f.header) \/ f.header = s.d.header
      PROVE  r \in Ends /\ (Trail(s, SaneFiles, D) => Trail(r, SaneFiles, D)) /\ r.d = f
  <2>1. r \in Ends /\ f \in Files /\ r.d = f
    BY <1>3 DEF IsPut
  <2>2. ASSUME Trail(s, SaneFiles, D) PROVE Trail(r, SaneFiles, D)
    <3>1. f \in SaneFiles
      BY <1>3, <2>1, <2>2 DEF SaneFiles, Trail
    <3> QED BY <1>3, <2>2, <3>1, PutTrail
  <2> QED BY <2>1, <2>2
<1>4. LET r == Blanked(s, "data") IN r \in Ends /\ (Trail(s, SaneFiles, D) => Trail(r, SaneFiles, D))
  <2>1. PICK r : r = Blanked(s, "data")
    OBVIOUS
  <2>2. PICK t : t = Empty.data
    OBVIOUS
  <2>3. t \in Part(Lines, Word)
    BY <1>2, <2>2, EmptyFiles, TotalOver
  <2>4. r = Put(s, "data", t)
    BY <2>1, <2>2 DEF Blanked
  <2>5. IsPut(s, r, [file |-> "data", to |-> t], [s.d EXCEPT !.data = Over(t, s.d.data)])
    BY <2>3, <2>4, PutData
  <2>6. [s.d EXCEPT !.data = Over(t, s.d.data)].header = s.d.header
    BY <1>1 DEF Files
  <2> QED BY <1>3, <2>1, <2>5, <2>6, Zenon
<1>5. LET r == Blanked(s, "init") IN r \in Ends /\ (Trail(s, SaneFiles, D) => Trail(r, SaneFiles, D))
  <2>1. PICK r : r = Blanked(s, "init")
    OBVIOUS
  <2>2. PICK t : t = Empty.init
    OBVIOUS
  <2>3. t \in Part(Lines, Flags)
    BY <1>2, <2>2, EmptyFiles, TotalOver
  <2>4. r = Put(s, "init", t)
    BY <2>1, <2>2 DEF Blanked
  <2>5. IsPut(s, r, [file |-> "init", to |-> t], [s.d EXCEPT !.init = Over(t, s.d.init)])
    BY <2>3, <2>4, PutInits
  <2>6. [s.d EXCEPT !.init = Over(t, s.d.init)].header = s.d.header
    BY <1>1 DEF Files
  <2> QED BY <1>3, <2>1, <2>5, <2>6, Zenon
<1>6. LET r == Blanked(s, "meta") IN r \in Ends /\ (Trail(s, SaneFiles, D) => Trail(r, SaneFiles, D))
  <2>1. PICK r : r = Blanked(s, "meta")
    OBVIOUS
  <2>2. PICK t : t = Empty.meta
    OBVIOUS
  <2>3. t \in Part(Lines, Meta)
    BY <1>2, <2>2, EmptyFiles, TotalOver
  <2>4. r = Put(s, "meta", t)
    BY <2>1, <2>2 DEF Blanked
  <2>5. IsPut(s, r, [file |-> "meta", to |-> t], [s.d EXCEPT !.meta = Over(t, s.d.meta)])
    BY <2>3, <2>4, PutMeta
  <2>6. [s.d EXCEPT !.meta = Over(t, s.d.meta)].header = s.d.header
    BY <1>1 DEF Files
  <2> QED BY <1>3, <2>1, <2>5, <2>6, Zenon
<1>7. LET r == Blanked(s, "present")
      IN  r \in Ends /\ (Trail(s, SaneFiles, D) => Trail(r, SaneFiles, D)) /\ r.d.present = Empty.present
  <2>1. PICK r : r = Blanked(s, "present")
    OBVIOUS
  <2>2. PICK t : t = Empty.present
    OBVIOUS
  <2>3. t \in Part(Lines, BOOLEAN) /\ Over(t, s.d.present) = t
    BY <1>2, <2>2, EmptyFiles, TotalOver
  <2>4. r = Put(s, "present", t)
    BY <2>1, <2>2 DEF Blanked
  <2>5. IsPut(s, r, [file |-> "present", to |-> t], [s.d EXCEPT !.present = Over(t, s.d.present)])
    BY <2>3, <2>4, PutPresent
  <2>6. /\ [s.d EXCEPT !.present = Over(t, s.d.present)].header = s.d.header
        /\ [s.d EXCEPT !.present = Over(t, s.d.present)].present = t
    BY <1>1, <2>3 DEF Files
  <2>7. r \in Ends /\ (Trail(s, SaneFiles, D) => Trail(r, SaneFiles, D)) /\ r.d = [s.d EXCEPT !.present = Over(t, s.d.present)]
    BY <1>3, <2>5, <2>6, Zenon
  <2> QED BY <2>1, <2>2, <2>6, <2>7
<1>8. LET r == Blanked(s, "written")
      IN  /\ r \in Ends /\ (Trail(s, SaneFiles, D) => Trail(r, SaneFiles, D))
          /\ r.d.present = s.d.present /\ r.d.written = Empty.written
  <2>1. PICK r : r = Blanked(s, "written")
    OBVIOUS
  <2>2. PICK t : t = Empty.written
    OBVIOUS
  <2>3. t \in Part(Lines, BOOLEAN) /\ Over(t, s.d.written) = t
    BY <1>2, <2>2, EmptyFiles, TotalOver
  <2>4. r = Put(s, "written", t)
    BY <2>1, <2>2 DEF Blanked
  <2>5. IsPut(s, r, [file |-> "written", to |-> t], [s.d EXCEPT !.written = Over(t, s.d.written)])
    BY <2>3, <2>4, PutWritten
  <2>6. /\ [s.d EXCEPT !.written = Over(t, s.d.written)].header = s.d.header
        /\ [s.d EXCEPT !.written = Over(t, s.d.written)].present = s.d.present
        /\ [s.d EXCEPT !.written = Over(t, s.d.written)].written = t
    BY <1>1, <2>3 DEF Files
  <2>7. r \in Ends /\ (Trail(s, SaneFiles, D) => Trail(r, SaneFiles, D)) /\ r.d = [s.d EXCEPT !.written = Over(t, s.d.written)]
    BY <1>3, <2>5, <2>6, Zenon
  <2> QED BY <2>1, <2>2, <2>6, <2>7
<1>9. LET r == Blanked(s, "header")
      IN  /\ r \in Ends /\ (Trail(s, SaneFiles, D) => Trail(r, SaneFiles, D))
          /\ r.d.present = s.d.present /\ r.d.written = s.d.written
  <2>1. PICK r : r = Blanked(s, "header")
    OBVIOUS
  <2>2. PICK t : t = Empty.header
    OBVIOUS
  <2>3. t \in Header /\ HeaderOK(t)
    <3>1. Cardinality(Lines) \in Nat
      BY FS_CardinalityType
    <3> QED BY <2>2, <3>1, EmptyFiles DEF HeaderOK
  <2>4. r = Put(s, "header", t)
    BY <2>1, <2>2 DEF Blanked
  <2>5. IsPut(s, r, [file |-> "header", to |-> t], [s.d EXCEPT !.header = t])
    BY <2>3, <2>4, PutHeader
  <2>6. /\ [s.d EXCEPT !.header = t].header = t
        /\ [s.d EXCEPT !.header = t].present = s.d.present
        /\ [s.d EXCEPT !.header = t].written = s.d.written
    BY <1>1 DEF Files
  <2>7. HeaderOK([s.d EXCEPT !.header = t].header)
    BY <2>3, <2>6
  <2>8. r \in Ends /\ (Trail(s, SaneFiles, D) => Trail(r, SaneFiles, D)) /\ r.d = [s.d EXCEPT !.header = t]
    BY <1>3, <2>5, <2>7, Zenon
  <2> QED BY <2>1, <2>6, <2>8
<1> QED BY <1>4, <1>5, <1>6, <1>7, <1>8, <1>9

\* clear.
LEMMA ClearFacts ==
  ASSUME NEW s, EndOK(s), NEW D, IsFiniteSet(Lines), NEW r, r = clear(s)
  PROVE  /\ EndOK(r) /\ (CountOK(s, D) => CountOK(r, D))
         /\ \A l \in Lines : ~r.d.present[l] /\ load(r, l) = make_line
<1>1. PICK s1 : s1 = Blanked(s, "data")
  OBVIOUS
<1>2. PICK s2 : s2 = Blanked(s1, "init")
  OBVIOUS
<1>3. PICK s3 : s3 = Blanked(s2, "meta")
  OBVIOUS
<1>4. PICK s4 : s4 = Blanked(s3, "present")
  OBVIOUS
<1>5. PICK s5 : s5 = Blanked(s4, "written")
  OBVIOUS
<1>6. PICK s6 : s6 = Blanked(s5, "header")
  OBVIOUS
<1>7. s \in Ends
  BY DEF EndOK
<1>8. s1 \in Ends /\ (Trail(s, SaneFiles, D) => Trail(s1, SaneFiles, D))
  BY <1>1, <1>7, BlankedFacts
<1>9. s2 \in Ends /\ (Trail(s1, SaneFiles, D) => Trail(s2, SaneFiles, D))
  BY <1>2, <1>8, BlankedFacts
<1>10. s3 \in Ends /\ (Trail(s2, SaneFiles, D) => Trail(s3, SaneFiles, D))
  BY <1>3, <1>9, BlankedFacts
<1>11. s4 \in Ends /\ (Trail(s3, SaneFiles, D) => Trail(s4, SaneFiles, D)) /\ s4.d.present = Empty.present
  BY <1>4, <1>10, BlankedFacts
<1>12. /\ s5 \in Ends /\ (Trail(s4, SaneFiles, D) => Trail(s5, SaneFiles, D))
       /\ s5.d.present = Empty.present /\ s5.d.written = Empty.written
  BY <1>5, <1>11, BlankedFacts
<1>13. /\ s6 \in Ends /\ (Trail(s5, SaneFiles, D) => Trail(s6, SaneFiles, D))
       /\ s6.d.present = Empty.present /\ s6.d.written = Empty.written
  BY <1>6, <1>12, BlankedFacts
<1>14. r = [s6 EXCEPT !.cache = <<>>, !.lru = <<>>, !.allocated = 0, !.unique = 0]
  BY <1>1, <1>2, <1>3, <1>4, <1>5, <1>6 DEF clear
<1>15. <<>> \in Part(Chunks, Cached) /\ DOMAIN <<>> = {} /\ <<>> \in Seq(Chunks)
  BY EmptyPart
<1>16. r.d = s6.d /\ r.plan = s6.plan /\ r.cache = <<>> /\ r.lru = <<>> /\ r.allocated = 0 /\ r.unique = 0 /\ r \in Ends
  <2>1. /\ s6.d \in Files /\ s6.plan \in Seq(FileWrite)
        /\ s6 = [d |-> s6.d, plan |-> s6.plan, cache |-> s6.cache, lru |-> s6.lru, allocated |-> s6.allocated, unique |-> s6.unique]
    BY <1>13 DEF Ends
  <2>2. r.d = s6.d /\ r.plan = s6.plan /\ r.cache = <<>> /\ r.lru = <<>> /\ r.allocated = 0 /\ r.unique = 0
    BY <1>14, <2>1
  <2>3. r = [d |-> r.d, plan |-> r.plan, cache |-> r.cache, lru |-> r.lru, allocated |-> r.allocated, unique |-> r.unique]
    BY <1>14, <2>1
  <2>4. r.cache \in Part(Chunks, Cached) /\ r.lru \in Seq(Chunks)
    BY <1>15, <2>2, Zenon
  <2>5. r.d \in Files /\ r.plan \in Seq(FileWrite) /\ r.allocated \in Int /\ r.unique \in Int
    BY <2>1, <2>2
  <2>6. r \in Ends
    <3>1. PICK d, p, c, q, n, u : d = r.d /\ p = r.plan /\ c = r.cache /\ q = r.lru /\ n = r.allocated /\ u = r.unique
      OBVIOUS
    <3>2. /\ d \in Files /\ p \in Seq(FileWrite) /\ c \in Part(Chunks, Cached) /\ q \in Seq(Chunks)
          /\ n \in Int /\ u \in Int
      BY <2>4, <2>5, <3>1
    <3>3. r = [d |-> d, plan |-> p, cache |-> c, lru |-> q, allocated |-> n, unique |-> u]
      BY <2>3, <3>1
    <3> QED BY <3>2, <3>3 DEF Ends
  <2> QED BY <2>2, <2>6
<1>17. EndOK(r)
  BY <1>15, <1>16 DEF EndOK, Listed
<1>18. \A l \in Lines : ~r.d.present[l] /\ ~r.d.written[l]
  BY <1>13, <1>16, EmptyFiles
<1>19. \A l \in Lines : load(r, l) = make_line
  BY <1>18 DEF load
<1>20. ASSUME CountOK(s, D) PROVE CountOK(r, D)
  <2>1. Trail(s6, SaneFiles, D)
    BY <1>8, <1>9, <1>10, <1>11, <1>12, <1>13, <1>20 DEF CountOK
  <2>2. Trail(r, SaneFiles, D)
    BY <1>16, <2>1 DEF Trail
  <2>3. {l \in Lines : r.d.present[l]} = {} /\ {l \in Lines : r.d.written[l]} = {}
    BY <1>18
  <2>4. Cardinality({}) = 0
    BY FS_EmptySet
  <2> QED BY <1>16, <1>18, <2>2, <2>3, <2>4 DEF CountOK
<1> QED BY <1>17, <1>18, <1>19, <1>20

(***************************************************************************)
(* Restarts.                                                               *)
(***************************************************************************)
NoRows == [b \in Banks |-> Closed]

\* With every bank closed no line is held.
LEMMA NoRowsFacts ==
  RowsOK(NoRows) /\ (\A l \in Lines : ~Holds(NoRows, l)) /\ \A b \in Banks : ~NoRows[b].dirty
<1>1. \A b \in Banks : NoRows[b] = Closed
  BY DEF NoRows
<1>2. NoRows \in [Banks -> RowEntry]
  BY ClosedRow DEF NoRows
<1>3. \A l \in Lines : Bank(l) \in Banks
  BY DEF Banks
<1>4. ~Closed.open /\ ~Closed.dirty /\ DOMAIN Closed.columns = {}
  BY ClosedRow
<1> QED BY <1>1, <1>2, <1>3, <1>4 DEF RowsOK, RowOK, Holds

\* A back end with every bank closed.
LEMMA ClosedGood ==
  ASSUME NEW s, EndOK(s), NEW E, NEW A, NEW D, NEW C,
         Covered => \A l \in Lines : Right(load(s, l), E[l]),
         Plain => EndSound(s, A, D), C => CountOK(s, D)
  PROVE  Good([be |-> s, rows |-> NoRows], E, A, D, C)
<1> DEFINE x == [be |-> s, rows |-> NoRows]
<1>1. x.be = s /\ x.rows = NoRows
  OBVIOUS
<1>2. x \in States
  BY NoRowsFacts DEF States, EndOK, RowsOK
<1> HIDE DEF x
<1>3. Covered => \A l \in Lines : LineRight(s, NoRows, E, l)
  BY NoRowsFacts DEF LineRight
<1>4. RowsSound(s, NoRows, A)
  BY NoRowsFacts DEF RowsSound
<1>5. RowsOK(NoRows)
  BY NoRowsFacts
<1>6. Good(x, E, A, D, C)
  BY <1>1, <1>2, <1>3, <1>4, <1>5 DEF Good
<1> QED BY <1>6 DEF x

\* A back end just opened.
LEMMA OpenedFacts ==
  ASSUME NEW f \in Files, NEW s, s = Opened(f)
  PROVE  /\ EndOK(s) /\ s.d = f /\ s.plan = <<>> /\ DOMAIN s.cache = {}
         /\ s.allocated = f.header.allocated /\ s.unique = f.header.written
         /\ \A F : f \in F => Trail(s, F, f)
<1>1. <<>> \in Part(Chunks, Cached) /\ DOMAIN <<>> = {} /\ <<>> \in Seq(Chunks) /\ <<>> \in Seq(FileWrite)
  BY EmptyPart
<1>2. /\ s.d = f /\ s.plan = <<>> /\ s.cache = <<>> /\ s.lru = <<>>
      /\ s.allocated = f.header.allocated /\ s.unique = f.header.written
  BY DEF Opened
<1>3. s = [d |-> s.d, plan |-> s.plan, cache |-> s.cache, lru |-> s.lru, allocated |-> s.allocated, unique |-> s.unique]
  BY DEF Opened
<1>4. s.allocated \in Int /\ s.unique \in Int
  BY <1>2 DEF Files, Header
<1>5. s \in Ends
  <2>1. PICK d, p, c, q, n, u : d = s.d /\ p = s.plan /\ c = s.cache /\ q = s.lru /\ n = s.allocated /\ u = s.unique
    OBVIOUS
  <2>2. c \in Part(Chunks, Cached) /\ q \in Seq(Chunks) /\ p \in Seq(FileWrite)
    BY <1>1, <1>2, <2>1, Zenon
  <2>3. d \in Files /\ n \in Int /\ u \in Int
    BY <1>2, <1>4, <2>1
  <2>4. s = [d |-> d, plan |-> p, cache |-> c, lru |-> q, allocated |-> n, unique |-> u]
    BY <1>3, <2>1
  <2> QED BY <2>2, <2>3, <2>4 DEF Ends
<1>6. DOMAIN s.cache = {} /\ Len(s.lru) = 0
  BY <1>1, <1>2
<1>7. EndOK(s)
  BY <1>5, <1>6 DEF EndOK, Listed
<1>8. ASSUME NEW F, f \in F PROVE Trail(s, F, f)
  BY <1>2, <1>8, LeadsEmpty DEF Trail
<1> QED BY <1>2, <1>6, <1>7, <1>8

\* The counters in the files are exact.
FilesCount(f) ==
    /\ f.header.allocated = Cardinality({l \in Lines : f.present[l]})
    /\ f.header.written = Cardinality({l \in Lines : f.written[l]})
    /\ (\A l \in Lines : f.written[l] => f.present[l]) /\ HeaderOK(f.header)

\* A run that opens files.
LEMMA OpenedGood ==
  ASSUME NEW f \in Files, NEW E, NEW A, NEW C,
         Covered => \A l \in Lines : Right(load(Opened(f), l), E[l]),
         Plain => FilesOK(f, A), C => FilesCount(f)
  PROVE  Good([be |-> Opened(f), rows |-> NoRows], E, A, f, C)
<1>q. PICK s : s = Opened(f)
  OBVIOUS
<1>1. /\ EndOK(s) /\ s.d = f /\ s.plan = <<>> /\ DOMAIN s.cache = {}
      /\ s.allocated = f.header.allocated /\ s.unique = f.header.written
      /\ \A F : f \in F => Trail(s, F, f)
  BY <1>q, OpenedFacts
<1>2. ASSUME Plain PROVE EndSound(s, A, f)
  <2>1. FilesOK(f, A) /\ f \in SoundFiles(A)
    BY <1>2 DEF SoundFiles
  <2>2. CacheSound(s)
    BY <1>1 DEF CacheSound
  <2>3. ASSUME NEW l \in Lines, NEW i \in Bytes PROVE Shown(load(s, l), i) = ShownIn(f, l, i)
    <3>1. CASE f.present[l]
      <4>1. load(s, l) = [bytes |-> f.data[l], init |-> f.init[l], version |-> f.meta[l].version,
                          ecc |-> f.meta[l].ecc, bad |-> f.meta[l].bad]
        BY <1>1, <3>1 DEF load
      <4> QED BY <3>1, <4>1 DEF Shown, ShownIn
    <3>2. CASE ~f.present[l]
      <4>1. load(s, l) = make_line /\ ~make_line.init[i]
        BY <1>1, <3>2 DEF load, make_line, Zero
      <4> QED BY <3>2, <4>1 DEF Shown, ShownIn
    <3> QED BY <3>1, <3>2
  <2>4. \A l \in Lines : \A i \in Bytes : Shown(load(s, l), i) \in A[l][i]
    BY <2>1, <2>3 DEF FilesOK
  <2> QED BY <1>1, <2>1, <2>2, <2>4 DEF EndSound
<1>3. ASSUME C PROVE CountOK(s, f)
  <2>1. FilesCount(f)
    BY <1>3
  <2>2. f \in SaneFiles
    BY <2>1 DEF SaneFiles, FilesCount
  <2> QED BY <1>1, <2>1, <2>2 DEF CountOK, FilesCount
<1>4. Covered => \A l \in Lines : Right(load(s, l), E[l])
  BY <1>q
<1>5. Good([be |-> s, rows |-> NoRows], E, A, f, C)
  BY <1>1, <1>2, <1>3, <1>4, ClosedGood
<1> QED BY <1>q, <1>5

(***************************************************************************)
(* Reload.                                                                 *)
(***************************************************************************)
\* The lines read before a reload change nothing.
LEMMA ReachesKeep ==
  ASSUME NEW s, EndOK(s), NEW q, NEW n \in Nat, DOMAIN q = 1 .. n, \A i \in 1 .. n : q[i] \in Lines,
         cfg.cache \in Nat \ {0}, NEW A, NEW D, NEW r, r = Reaches(s, q)
  PROVE  Keeps(s, r) /\ Safe(s, r, A, D)
<1> DEFINE T == {t \in Ends : Keeps(s, t) /\ Safe(s, t, A, D)}
<1>1. s \in T
  BY DEF Keeps, Safe, EndOK
<1>2. ASSUME NEW i \in 1 .. n, NEW t \in T PROVE Reached(t, q[i]) \in T
  <2>1. EndOK(t) /\ Keeps(s, t) /\ Safe(s, t, A, D) /\ q[i] \in Lines
    BY DEF Keeps
  <2>2. Keeps(t, Reached(t, q[i])) /\ Safe(t, Reached(t, q[i]), A, D)
    BY <2>1, ReachedKeeps, ReachedSafe
  <2>3. Keeps(s, Reached(t, q[i])) /\ Safe(s, Reached(t, q[i]), A, D)
    BY <2>1, <2>2, KeepsChain DEF Safe
  <2>4. Reached(t, q[i]) \in Ends
    BY <2>2 DEF Keeps, EndOK
  <2> QED BY <2>3, <2>4
<1> HIDE DEF T
<1>3. ReachesIn(T, q, n)
  BY <1>2 DEF ReachesIn
<1>4. PICK c : ReachesBy(c, T, s, q, n)
  BY <1>1, <1>3, ReachedRun
<1>5. r \in T
  BY <1>4 DEF ReachesBy
<1> QED BY <1>5 DEF T

\* A set in some order.
LEMMA SetOrder ==
  ASSUME NEW S, IsFiniteSet(S), NEW q, q = SetToSeq(S)
  PROVE  /\ Len(q) \in Nat /\ DOMAIN q = 1 .. Len(q) /\ Distinct(q)
         /\ (\A i \in 1 .. Len(q) : q[i] \in S) /\ \A x \in S : \E i \in 1 .. Len(q) : q[i] = x
BY SetToSeqFacts

\* What load_binary stores at a line.
Reloaded(l) == refresh_ecc_shadow([load(be, l) EXCEPT !.version = 0])

\* The line that load_binary stores for a line of the image.
LEMMA ReloadedFacts ==
  ASSUME EndOK(be), NEW l \in Lines
  PROVE  /\ Reloaded(l) \in Block
         /\ Reloaded(l).bytes = load(be, l).bytes /\ Reloaded(l).init = load(be, l).init
<1>q. PICK b : b = load(be, l)
  OBVIOUS
<1>1. b \in Block
  BY <1>q, LoadType
<1>2. b.bytes \in Word /\ b.init \in Flags
  BY <1>1 DEF Block
<1>3. [b EXCEPT !.version = 0] = [bytes |-> b.bytes, init |-> b.init, version |-> 0, ecc |-> b.ecc, bad |-> b.bad]
  <2>1. b = [bytes |-> b.bytes, init |-> b.init, version |-> b.version, ecc |-> b.ecc, bad |-> b.bad]
    BY <1>1, BlockMade
  <2> QED BY <2>1
<1>4. PICK w : w = IF cfg.ecc THEN <<b.bytes>> ELSE <<>>
  OBVIOUS
<1>5. w \in Ecc
  <2>1. CASE cfg.ecc
    <3>1. <<b.bytes>> \in Seq(Word)
      BY <1>2
    <3> QED BY <1>4, <2>1, <3>1, Zenon DEF Ecc
  <2>2. CASE ~cfg.ecc
    BY <1>4, <2>2, Zenon DEF Ecc
  <2> QED BY <2>1, <2>2
<1>6. PICK e : e = FALSE
  OBVIOUS
<1>7. e \in Bad
  BY <1>6, Zenon DEF Bad
<1>8. Reloaded(l) = [bytes |-> b.bytes, init |-> b.init, version |-> 0, ecc |-> w, bad |-> e]
  <2>1. refresh_ecc_shadow([bytes |-> b.bytes, init |-> b.init, version |-> 0, ecc |-> b.ecc, bad |-> b.bad])
          = [bytes |-> b.bytes, init |-> b.init, version |-> 0, ecc |-> IF cfg.ecc THEN <<b.bytes>> ELSE <<>>, bad |-> FALSE]
    BY Refreshed
  <2> QED BY <1>q, <1>3, <1>4, <1>6, <2>1, Zenon DEF Reloaded
<1> QED BY <1>q, <1>2, <1>5, <1>7, <1>8 DEF Block

\* The lines stored one after the other.
IsReloaded(s, S, r) ==
    /\ EndOK(r) /\ \A l \in S : load(r, l) = Reloaded(l)
    /\ \A l \in Lines \ S : load(r, l) = load(s, l)

\* load_binary stores every line that was present.
LEMMA LoadLinesFacts ==
  ASSUME NEW s, EndOK(s), EndOK(be), NEW S \in SUBSET Lines, IsFiniteSet(Lines), cfg.cache \in Nat \ {0}, NEW D,
         NEW q, q = SetToSeq(S), NEW r, r = LoadLines(s, q)
  PROVE  IsReloaded(s, S, r) /\ (CountOK(s, D) => CountOK(r, D))
<1> DEFINE n == Len(q)
           T == {t \in Ends : EndOK(t) /\ (CountOK(s, D) => CountOK(t, D))}
<1>0. IsFiniteSet(S)
  BY FS_Subset
<1>1. /\ n \in Nat /\ DOMAIN q = 1 .. n /\ \A i \in 1 .. n : q[i] \in S /\ q[i] \in Lines
      /\ \A l \in S : \E i \in 1 .. n : q[i] = l
      /\ \A i, j \in 1 .. n : q[i] = q[j] => i = j
  <2>1. /\ Len(q) \in Nat /\ DOMAIN q = 1 .. Len(q) /\ Distinct(q)
        /\ (\A i \in 1 .. Len(q) : q[i] \in S) /\ \A l \in S : \E i \in 1 .. Len(q) : q[i] = l
    BY <1>0, SetOrder
  <2> QED BY <2>1 DEF Distinct
<1> HIDE DEF n
<1>2. s \in T
  BY DEF EndOK
<1>3. ASSUME NEW t \in T, NEW i \in 1 .. n
      PROVE  LoadLine(t, q[i]) \in T /\ IsStored(t, q[i], Reloaded(q[i]), LoadLine(t, q[i]))
  <2>1. q[i] \in Lines /\ Reloaded(q[i]) \in Block /\ EndOK(t)
    BY <1>1, ReloadedFacts
  <2>2. LoadLine(t, q[i]) = store(t, q[i], Reloaded(q[i]))
    BY DEF LoadLine, Reloaded
  <2>3. IsStored(t, q[i], Reloaded(q[i]), LoadLine(t, q[i]))
    BY <2>1, <2>2, StoreFacts
  <2>4. CountOK(s, D) => CountOK(LoadLine(t, q[i]), D)
    BY <2>1, <2>2, StoreCounts
  <2> QED BY <2>3, <2>4 DEF IsStored, EndOK
<1> HIDE DEF T
<1>4. LoadLinesIn(T, q, n)
  BY <1>3 DEF LoadLinesIn
<1>5. PICK c : LoadLinesBy(c, T, s, q, n)
  BY <1>1, <1>2, <1>4, LoadLineRun
<1>6. c \in [0 .. n -> T] /\ c[0] = s /\ c[n] = r /\ \A i \in 1 .. n : c[i] = LoadLine(c[i - 1], q[i])
  BY <1>5 DEF LoadLinesBy
<1> DEFINE Stored(i) == \A j \in 1 .. i : load(c[i], q[j]) = Reloaded(q[j])
           Left(i) == \A l \in Lines : (\A j \in 1 .. i : q[j] # l) => load(c[i], l) = load(s, l)
           P == {i \in Nat : Stored(i) /\ Left(i)}
           id == [i \in 0 .. n |-> i]
<1>7. ASSUME NEW i \in 1 .. n, id[i - 1] \in P PROVE id[i] \in P
  <2> DEFINE t == c[i - 1]
             l == q[i]
  <2>1. i - 1 \in 0 .. n /\ i \in 0 .. n /\ t \in T /\ id[i - 1] = i - 1 /\ id[i] = i /\ i \in Nat
    <3>1. i - 1 \in 0 .. n /\ i \in 0 .. n /\ i \in Nat
      BY <1>1
    <3>2. t \in T
      BY <1>6, <3>1
    <3> QED BY <3>1, <3>2
  <2>2. Stored(i - 1) /\ Left(i - 1)
    BY <1>7, <2>1
  <2>3. IsStored(t, l, Reloaded(l), c[i])
    BY <1>3, <1>6, <2>1
  <2>4. l \in Lines
    BY <1>1
  <2>5. ASSUME NEW j \in 1 .. (i - 1) PROVE q[j] # l /\ q[j] \in Lines
    <3>1. j \in 1 .. n /\ j # i
      BY <1>1
    <3> QED BY <1>1, <3>1
  <2>6. Stored(i)
    <3> SUFFICES ASSUME NEW j \in 1 .. i PROVE load(c[i], q[j]) = Reloaded(q[j])
      OBVIOUS
    <3>1. CASE j = i
      BY <2>3, <3>1 DEF IsStored
    <3>2. CASE j # i
      <4>1. j \in 1 .. (i - 1)
        BY <1>1, <3>2
      <4>2. load(t, q[j]) = Reloaded(q[j]) /\ q[j] \in Lines \ {l}
        BY <2>2, <2>5, <4>1
      <4> QED BY <2>3, <4>2 DEF IsStored
    <3> QED BY <3>1, <3>2
  <2>7. Left(i)
    <3> SUFFICES ASSUME NEW k \in Lines, \A j \in 1 .. i : q[j] # k PROVE load(c[i], k) = load(s, k)
      OBVIOUS
    <3>1. k # l /\ \A j \in 1 .. (i - 1) : q[j] # k
      BY <1>1
    <3>2. load(t, k) = load(s, k)
      BY <2>2, <3>1
    <3> QED BY <2>3, <3>1, <3>2 DEF IsStored
  <2> HIDE DEF Stored, Left
  <2> QED BY <2>1, <2>6, <2>7
<1>8. id[0] \in P
  <2>1. Stored(0) /\ Left(0)
    BY <1>6
  <2>2. id[0] = 0
    BY <1>1
  <2> HIDE DEF Stored, Left
  <2> QED BY <2>1, <2>2
<1>9. n \in 0 .. n /\ id[n] = n /\ \A i \in 1 .. n : id[i - 1] \in P => id[i] \in P
  <2>1. n \in 0 .. n /\ id[n] = n
    BY <1>1
  <2> HIDE DEF P, id
  <2> QED BY <1>7, <2>1
<1> HIDE DEF P, id
<1>10. n \in P
  <2>1. \A i \in 0 .. n : id[i] \in P
    BY <1>1, <1>8, <1>9, Along
  <2> QED BY <1>9, <2>1
<1>11. Stored(n) /\ Left(n) /\ r \in T
  <2> HIDE DEF Stored, Left
  <2> QED BY <1>6, <1>9, <1>10 DEF P
<1>12. IsReloaded(s, S, r)
  <2>1. ASSUME NEW l \in S PROVE load(r, l) = Reloaded(l)
    <3>1. PICK i \in 1 .. n : q[i] = l
      BY <1>1
    <3> QED BY <1>6, <1>11, <3>1
  <2>2. ASSUME NEW l \in Lines \ S PROVE load(r, l) = load(s, l)
    <3>1. \A j \in 1 .. n : q[j] # l
      BY <1>1, <2>2
    <3> QED BY <1>6, <1>11, <3>1
  <2>3. EndOK(r)
    BY <1>11 DEF T
  <2> QED BY <2>1, <2>2, <2>3 DEF IsReloaded
<1> QED BY <1>11, <1>12 DEF T

\* A checkpoint file written and read back.
LEMMA ReloadGood ==
  ASSUME NEW E, NEW A, NEW D, NEW C, Good(X, E, A, D, C), IsFiniteSet(Lines), cfg.cache \in Nat \ {0},
         cfg.reload, \A b \in Banks : ~rows[b].dirty,
         NEW q, q = SetToSeq({l \in Lines : be.d.present[l]}),
         NEW r, r = FoldLeft(LoadLine, clear(FoldLeft(Reached, be, q)), q)
  PROVE  Good([be |-> r, rows |-> NoRows], E, A, D, C)
<1> DEFINE S == {l \in Lines : be.d.present[l]}
           n == Len(q)
<1>q. PICK s : s = Reaches(be, q)
  OBVIOUS
<1>p. PICK k : k = clear(s)
  OBVIOUS
<1>1. X.be = be /\ X.rows = rows /\ EndOK(be) /\ RowsOK(rows)
  BY DEF X, Good
<1>2. n \in Nat /\ DOMAIN q = 1 .. n /\ \A i \in 1 .. n : q[i] \in Lines
  <2>1. IsFiniteSet(S)
    BY FS_Subset
  <2> HIDE DEF S
  <2>2. q = SetToSeq(S)
    BY DEF S
  <2>3. n \in Nat /\ DOMAIN q = 1 .. n /\ \A i \in 1 .. n : q[i] \in S
    BY <2>1, <2>2, SetToSeqFacts
  <2> QED BY <2>3 DEF S
<1>3. Keeps(be, s) /\ Safe(be, s, A, D)
  <2> HIDE DEF n
  <2> QED BY <1>q, <1>1, <1>2, ReachesKeep
<1>4. EndOK(s)
  BY <1>3 DEF Keeps
<1>5. EndOK(k) /\ (CountOK(s, D) => CountOK(k, D)) /\ \A l \in Lines : ~k.d.present[l] /\ load(k, l) = make_line
  BY <1>p, <1>4, ClearFacts
<1>6. r = LoadLines(k, q)
  BY <1>q, <1>p DEF LoadLines, Reaches
<1>7. IsReloaded(k, S, r) /\ (CountOK(k, D) => CountOK(r, D))
  <2>1. S \in SUBSET Lines /\ q = SetToSeq(S)
    OBVIOUS
  <2> HIDE DEF S
  <2> QED BY <1>1, <1>5, <1>6, <2>1, LoadLinesFacts
<1>8. EndOK(r) /\ ~Plain
  BY <1>7 DEF IsReloaded, Plain
<1>9. C => CountOK(r, D)
  BY <1>1, <1>3, <1>5, <1>7 DEF Safe, Good
<1>10. ASSUME Covered, NEW l \in Lines PROVE Right(load(r, l), E[l])
  <2>1. ~cfg.ecc
    BY <1>10 DEF Covered
  <2>2. Right(load(be, l), E[l]) /\ load(be, l) \in Block
    <3>1. LineRight(be, rows, E, l)
      BY <1>1, <1>10 DEF Good
    <3>2. Bank(l) \in Banks
      BY DEF Banks
    <3> QED BY <1>1, <3>1, <3>2, LoadType DEF LineRight
  <2>3. CASE l \in S
    <3>1. load(r, l) = Reloaded(l)
      BY <1>7, <2>3 DEF IsReloaded
    <3>2. Reloaded(l) \in Block /\ Reloaded(l).bytes = load(be, l).bytes /\ Reloaded(l).init = load(be, l).init
      BY <1>1, ReloadedFacts
    <3>3. \A i \in Bytes : Shown(load(be, l), i) = E[l][i]
      BY <2>1, <2>2, RightPlain
    <3>4. \A i \in Bytes : Shown(Reloaded(l), i) = E[l][i]
      BY <3>2, <3>3 DEF Shown
    <3> QED BY <2>1, <3>1, <3>2, <3>4, RightPlain
  <2>4. CASE l \notin S
    <3>1. load(r, l) = make_line
      BY <1>5, <1>7, <2>4 DEF IsReloaded
    <3>2. load(be, l) = make_line
      BY <2>4 DEF load
    <3> QED BY <2>2, <3>1, <3>2
  <2> QED BY <2>3, <2>4
<1> QED BY <1>8, <1>9, <1>10, ClosedGood

(***************************************************************************)
(* The invariant.                                                          *)
(***************************************************************************)
\* While a flush is under way nothing is dirty.
SavingClean == Plain /\ saving => be.plan # <<>> /\ (\A b \in Banks : ~rows[b].dirty) /\ Clean(be)

TypesOK ==
    /\ cfg \in Configs /\ disk \in Files /\ next_version_ \in Nat \ {0} /\ writes \in Nat /\ crashes \in Nat
    /\ expect \in [Lines -> Word] /\ allowed \in [Lines -> [Bytes -> SUBSET Int]] /\ saving \in BOOLEAN
    /\ initialized \subseteq Lines

ImageInv == TypesOK /\ SavingClean /\ Good(X, expect, allowed, disk, crashes = 0)

\* What is said of the state is said under the configuration, which stays.
LEMMA SameEnds ==
  ASSUME cfg' = cfg, NEW CONSTANT s
  PROVE  EndOK(s)' = EndOK(s)
BY DEF EndOK, Listed, ChunkOK, Mine, Ends, Chunk, Chunks, Cached, Meta, Ecc, Bad, Files, FileWrite, Header

\* The types under the same configuration.
LEMMA SameBlocks ==
  ASSUME cfg' = cfg
  PROVE  Block' = Block /\ Files' = Files /\ Ends' = Ends /\ FileWrite' = FileWrite
BY DEF Block, Ecc, Bad, Files, FileWrite, Meta, Header, Ends, Chunk, Chunks, Cached

\* Rows stay well formed while lines become initialised.
LEMMA SameRows ==
  ASSUME cfg' = cfg, initialized \subseteq initialized', NEW CONSTANT R, RowsOK(R)
  PROVE  RowsOK(R)'
<1>1. Banks' = Banks /\ RowEntry' = RowEntry
  BY SameBlocks DEF Banks, Bank, RowEntry, Row, Column, Numbers, Column1
<1>2. R \in [Banks -> RowEntry] /\ \A b \in Banks : RowOK(R, b)
  BY DEF RowsOK
<1>3. ASSUME NEW CONSTANT b, RowOK(R, b) PROVE RowOK(R, b)'
  BY <1>3 DEF RowOK, Bank, Row, Column
<1> QED BY <1>1, <1>2, <1>3 DEF RowsOK

\* So does what is right about a line.
LEMMA SameLines ==
  ASSUME cfg' = cfg, NEW CONSTANT s, NEW CONSTANT R, NEW CONSTANT E, NEW CONSTANT l
  PROVE  LineRight(s, R, E, l)' = LineRight(s, R, E, l)
BY DEF LineRight, Holds, Held, Right, check_ecc_shadow, refresh_ecc_shadow, load, Chunk, Bank, Column, Shown

\* So does what the rows may show.
LEMMA SameRowsSound ==
  ASSUME cfg' = cfg, NEW CONSTANT s, NEW CONSTANT R, NEW CONSTANT A
  PROVE  RowsSound(s, R, A)' = RowsSound(s, R, A)
BY DEF RowsSound, Holds, Held, load, Chunk, Bank, Column, Shown

\* So does what the back end and the files may show.
LEMMA SameSound ==
  ASSUME cfg' = cfg, NEW CONSTANT s, NEW CONSTANT A, NEW CONSTANT D
  PROVE  EndSound(s, A, D)' = EndSound(s, A, D)
<1>1. Files' = Files /\ FileWrite' = FileWrite
  BY SameBlocks
<1>2. CacheSound(s)' = CacheSound(s)
  BY DEF CacheSound, Mine, Chunk
<1>3. SoundFiles(A)' = SoundFiles(A)
  BY <1>1 DEF SoundFiles, FilesOK
<1>4. Trail(s, SoundFiles(A), D)' = Trail(s, SoundFiles(A), D)
  BY <1>1, <1>3 DEF Trail, FileSteps
<1>5. \A l, i : (Shown(load(s, l), i))' = Shown(load(s, l), i)
  BY DEF Shown, load, Chunk
<1> QED BY <1>2, <1>4, <1>5 DEF EndSound

\* So do the counters.
LEMMA SameCounts ==
  ASSUME cfg' = cfg, NEW CONSTANT s, NEW CONSTANT D
  PROVE  CountOK(s, D)' = CountOK(s, D)
<1>1. Files' = Files /\ FileWrite' = FileWrite
  BY SameBlocks
<1>2. SaneFiles' = SaneFiles
  BY <1>1 DEF SaneFiles
<1>3. Trail(s, SaneFiles, D)' = Trail(s, SaneFiles, D)
  BY <1>1, <1>2 DEF Trail, FileSteps
<1> QED BY <1>3 DEF CountOK

\* A good state stays good.
LEMMA SameGood ==
  ASSUME cfg' = cfg, initialized \subseteq initialized',
         NEW CONSTANT x, NEW CONSTANT E, NEW CONSTANT A, NEW CONSTANT D, NEW CONSTANT C, Good(x, E, A, D, C)
  PROVE  Good(x, E, A, D, C)'
<1>1. EndOK(x.be)' /\ RowsOK(x.rows)'
  BY SameEnds, SameRows DEF Good
<1>2. (x \in States)'
  BY <1>1 DEF Good, States, EndOK, RowsOK
<1>3. Covered' = Covered /\ Plain' = Plain
  BY DEF Covered, Plain
<1>4. (Covered => \A l \in Lines : LineRight(x.be, x.rows, E, l))'
  BY <1>3, SameLines DEF Good
<1>5. (Plain => EndSound(x.be, A, D) /\ RowsSound(x.be, x.rows, A))'
  BY <1>3, SameSound, SameRowsSound DEF Good
<1>6. (C => CountOK(x.be, D))'
  BY SameCounts DEF Good
<1> QED BY <1>1, <1>2, <1>4, <1>5, <1>6 DEF Good

\* The next state is good.
LEMMA GoodNext ==
  ASSUME cfg' = cfg, initialized \subseteq initialized',
         NEW CONSTANT x, NEW CONSTANT E, NEW CONSTANT A, NEW CONSTANT D, NEW CONSTANT C, Good(x, E, A, D, C),
         be' = x.be, rows' = x.rows, expect' = E, allowed' = A, disk' = D, (crashes' = 0) = C
  PROVE  Good(X, expect, allowed, disk, crashes = 0)'
<1>1. Good(x, E, A, D, C)'
  BY SameGood
<1>2. X' = x
  BY DEF X, Good, States
<1> QED BY <1>1, <1>2

\* An operation while the process is calm.
LEMMA CalmNext ==
  ASSUME ImageInv, Calm, cfg' = cfg, initialized \subseteq initialized', saving' = saving,
         NEW CONSTANT x, NEW CONSTANT E, NEW CONSTANT A, Good(x, E, A, disk, crashes = 0),
         Becomes(x), expect' = E, allowed' = A, disk' = disk, crashes' = crashes, TypesOK'
  PROVE  ImageInv'
<1>1. Good(X, expect, allowed, disk, crashes = 0)'
  BY GoodNext DEF Becomes
<1>2. ~(Plain /\ saving)
  BY DEF ImageInv, SavingClean, Calm
<1>3. Plain' = Plain
  BY DEF Plain
<1>4. SavingClean'
  BY <1>2, <1>3 DEF SavingClean
<1> QED BY <1>1, <1>4 DEF ImageInv

(***************************************************************************)
(* One lemma per action.                                                   *)
(***************************************************************************)
LEMMA InvFacts ==
  ASSUME ImageInv
  PROVE  /\ IsFiniteSet(Lines) /\ cfg.cache \in Nat \ {0} /\ cfg.masks \subseteq Flags
         /\ Good(X, expect, allowed, disk, crashes = 0) /\ X.be = be /\ X.rows = rows
         /\ next_version_ \in Nat \ {0} /\ EndOK(be) /\ RowsOK(rows)
         /\ X \in States
<1>1. X.be = be /\ X.rows = rows
  BY DEF X
<1>2. Good(X, expect, allowed, disk, crashes = 0) /\ cfg \in Configs /\ next_version_ \in Nat \ {0}
  BY DEF ImageInv, TypesOK
<1>3. IsFiniteSet(Lines) /\ cfg.cache \in Nat \ {0} /\ cfg.masks \subseteq Flags
  BY <1>2, ConfigsAssumption DEF Flags
<1>4. EndOK(be) /\ RowsOK(rows) /\ X \in States
  BY <1>1, <1>2 DEF Good
<1> QED BY <1>1, <1>2, <1>3, <1>4

\* The types of what an operation leaves alone.
LEMMA SameTypes ==
  ASSUME ImageInv, UNCHANGED same
  PROVE  TypesOK' /\ cfg' = cfg
<1>1. Files' = Files
  BY SameBlocks DEF same
<1> QED BY <1>1 DEF ImageInv, TypesOK, same, Word

\* An operation that changes the back end and the rows only.
LEMMA BecomesNext ==
  ASSUME ImageInv, Calm, UNCHANGED same, NEW CONSTANT x, Good(x, expect, allowed, disk, crashes = 0), Becomes(x)
  PROVE  ImageInv'
<1>1. TypesOK' /\ cfg' = cfg
  BY SameTypes
<1>2. /\ initialized \subseteq initialized' /\ saving' = saving /\ disk' = disk /\ crashes' = crashes
      /\ expect' = expect /\ allowed' = allowed
  BY DEF same
<1> QED BY <1>1, <1>2, CalmNext

\* activate_row: the old row is written back, another is open.
LEMMA ActivateNext ==
  ASSUME ImageInv, NEW CONSTANT l \in Lines, activate_row(l)
  PROVE  ImageInv'
<1> DEFINE b == Bank(l)
<1>1. PICK x : x = writeback_row_buffer(X, b)
  OBVIOUS
<1>2. PICK e : e = [Closed EXCEPT !.open = TRUE, !.row = Row(l)]
  OBVIOUS
<1>3. PICK z : z = [be |-> x.be, rows |-> [x.rows EXCEPT ![b] = e]]
  OBVIOUS
<1>4. b \in Banks
  BY DEF Banks
<1>5. Good(x, expect, allowed, disk, crashes = 0) /\ ~x.rows[b].dirty
  BY <1>1, <1>4, InvFacts, WritebackGood
<1>6. Settled(x, b, expect)
  BY <1>4, <1>5, CleanSettled
<1>7. e \in RowEntry /\ e.open /\ ~e.dirty /\ DOMAIN e.columns = {}
  BY <1>2, ClosedRow
<1>8. Good(z, expect, allowed, disk, crashes = 0)
  BY <1>3, <1>4, <1>5, <1>6, <1>7, RowGood
<1>9. Becomes(z)
  <2>1. Becomes([x EXCEPT !.rows[b] = e])
    BY <1>1, <1>2 DEF activate_row
  <2>2. x = [be |-> x.be, rows |-> x.rows]
    BY <1>5 DEF Good, States
  <2>3. [x EXCEPT !.rows[b] = e] = z
    BY <1>3, <2>2
  <2> QED BY <2>1, <2>3
<1>10. Calm /\ UNCHANGED same
  BY DEF activate_row
<1> QED BY <1>8, <1>9, <1>10, BecomesNext

\* precharge_bank: the row is written back and closed.
LEMMA PrechargeNext ==
  ASSUME ImageInv, NEW CONSTANT b \in Banks, precharge_bank(b)
  PROVE  ImageInv'
<1>1. PICK x : x = writeback_row_buffer(X, b)
  OBVIOUS
<1>2. Good(x, expect, allowed, disk, crashes = 0)
  BY <1>1, InvFacts, WritebackGood
<1>3. Becomes(x) /\ Calm /\ UNCHANGED same
  BY <1>1 DEF precharge_bank
<1> QED BY <1>2, <1>3, BecomesNext

\* precharge_all: the rows of a rank are.
LEMMA PrechargeAllNext ==
  ASSUME ImageInv, NEW CONSTANT l \in Lines, precharge_all(l)
  PROVE  ImageInv'
<1>1. PICK S : S = {Bank(k) : k \in {k \in Lines : cfg.place[k].rank = cfg.place[l].rank}}
  OBVIOUS
<1>2. S \in SUBSET Banks
  BY <1>1 DEF Banks
<1>3. IsFiniteSet(S)
  BY <1>2, InvFacts, BanksFinite, FS_Subset
<1>4. PICK x : x = FoldLeft(writeback_row_buffer, X, SetToSeq(S))
  OBVIOUS
<1>5. Good(x, expect, allowed, disk, crashes = 0)
  BY <1>2, <1>3, <1>4, InvFacts, WritebacksGood
<1>6. Becomes(x) /\ Calm /\ UNCHANGED same
  BY <1>1, <1>4 DEF precharge_all
<1> QED BY <1>5, <1>6, BecomesNext

\* read: a hit checks the column, a miss the line of the back end.
LEMMA ReadNext ==
  ASSUME ImageInv, NEW CONSTANT l \in Lines, read(l)
  PROVE  ImageInv'
<1>1. Calm /\ Usable(l) /\ UNCHANGED same
  BY DEF read
<1>2. CASE Hit(X, l)
  <2>1. PICK y : y = row_buffer_block(X, l)
    OBVIOUS
  <2>2. PICK z : z = [y EXCEPT !.rows[Bank(l)].columns[Column(l)].block = check_ecc_shadow(@)]
    OBVIOUS
  <2>3. Becomes(z)
    BY <1>2, <2>1, <2>2 DEF read
  <2>4. Good(z, expect, allowed, disk, crashes = 0)
    BY <1>1, <1>2, <2>1, <2>2, InvFacts, ReadHitGood
  <2> QED BY <1>1, <2>3, <2>4, BecomesNext
<1>3. CASE ~Hit(X, l)
  <2>1. PICK s : s = Reached(be, l)
    OBVIOUS
  <2>2. PICK b : b = load(s, l)
    OBVIOUS
  <2>3. PICK z : z = [be |-> IF check_ecc_shadow(b) = b THEN s ELSE store(s, l, check_ecc_shadow(b)), rows |-> rows]
    OBVIOUS
  <2>4. Becomes(z)
    BY <1>3, <2>1, <2>2, <2>3 DEF read
  <2>5. Good(z, expect, allowed, disk, crashes = 0)
    <3>1. s = Reached(X.be, l) /\ X.rows = rows
      BY <2>1, InvFacts
    <3>2. Good([be |-> IF check_ecc_shadow(b) = b THEN s ELSE store(s, l, check_ecc_shadow(b)), rows |-> X.rows],
               expect, allowed, disk, crashes = 0)
      BY <1>3, <2>2, <3>1, InvFacts, ReadMissGood
    <3> QED BY <2>3, <3>1, <3>2
  <2> QED BY <1>1, <2>4, <2>5, BecomesNext
<1> QED BY <1>2, <1>3

\* Write: the histories, and the state of the image.
LEMMA WriteNext ==
  ASSUME ImageInv, NEW CONSTANT l \in Lines, NEW CONSTANT v \in Int, NEW CONSTANT mask \in Flags,
         NEW CONSTANT decoded, Write(l, v, mask, decoded), Calm,
         Covered /\ cfg.ecc => \A i \in Bytes : mask[i],
         decoded /\ Hit(X, l) => Usable(l), ~(decoded /\ Hit(X, l)) => ~Holds(rows, l),
         cfg' = cfg, disk' = disk, crashes' = crashes, saving' = saving, initialized \subseteq initialized',
         initialized' \subseteq Lines, writes' \in Nat
  PROVE  ImageInv'
<1> DEFINE some == \E i \in Bytes : mask[i]
<1>1. PICK F : F = [expect EXCEPT ![l] = [i \in Bytes |-> IF mask[i] THEN v ELSE @[i]]]
  OBVIOUS
<1>2. PICK B : B = [allowed EXCEPT ![l] = [i \in Bytes |-> IF mask[i] THEN @[i] \union {v} ELSE @[i]]]
  OBVIOUS
<1>3. expect \in [Lines -> Word] /\ allowed \in [Lines -> [Bytes -> SUBSET Int]]
  BY DEF ImageInv, TypesOK
<1>4. F \in [Lines -> Word] /\ Wrote(expect, F, l, v, mask)
  BY <1>1, <1>3 DEF Word, Wrote
<1>5. B \in [Lines -> [Bytes -> SUBSET Int]] /\ Grants(allowed, B, l, v, mask)
  <2>1. ASSUME NEW k \in Lines PROVE B[k] = IF k = l THEN [i \in Bytes |-> IF mask[i] THEN allowed[l][i] \union {v} ELSE allowed[l][i]] ELSE allowed[k]
    BY <1>2, <1>3
  <2>2. [i \in Bytes |-> IF mask[i] THEN allowed[l][i] \union {v} ELSE allowed[l][i]] \in [Bytes -> SUBSET Int]
    BY <1>3
  <2>3. B \in [Lines -> [Bytes -> SUBSET Int]]
    BY <1>2, <1>3, <2>2
  <2>4. Grants(allowed, B, l, v, mask)
    BY <1>3, <2>1 DEF Grants
  <2> QED BY <2>3, <2>4
<1>6. expect' = F /\ allowed' = B /\ next_version_' = IF some THEN next_version_ + 1 ELSE next_version_
  BY <1>1, <1>2 DEF Write
<1>7. TypesOK'
  <2>1. Files' = Files
    BY SameBlocks
  <2>2. next_version_' \in Nat \ {0}
    BY <1>6, InvFacts
  <2> QED BY <1>4, <1>5, <1>6, <2>1, <2>2 DEF ImageInv, TypesOK, Word
<1>8. PICK s : s = Reached(be, l)
  OBVIOUS
<1>9. PICK w : w = [be |-> s, rows |-> rows]
  OBVIOUS
<1>10. Good(w, expect, allowed, disk, crashes = 0) /\ w.be = s /\ w.rows = rows
  <2>1. Keeps(be, s) /\ Safe(be, s, allowed, disk)
    BY <1>8, InvFacts, ReachedKeeps, ReachedSafe
  <2>2. Good([be |-> s, rows |-> X.rows], expect, allowed, disk, crashes = 0)
    BY <2>1, InvFacts, KeepsGood
  <2> QED BY <1>9, <2>2, InvFacts
<1>11. CASE decoded /\ Hit(X, l)
  <2>1. PICK y : y = row_buffer_block(w, l)
    OBVIOUS
  <2>2. PICK a : a = [y EXCEPT !.be = IF s.d.present[l] THEN @ ELSE store(@, l, make_line)]
    OBVIOUS
  <2>3. PICK m : m = Merged(a.rows[Bank(l)].columns[Column(l)].block, v, mask)
    OBVIOUS
  <2>4. PICK d : d = (a.rows[Bank(l)].dirty \/ Dirties(y, l, mask))
    OBVIOUS
  <2>5. PICK z : z = Filled(a, Bank(l), Column(l), m, d)
    OBVIOUS
  <2>6. Becomes(z)
    <3>1. Becomes([a EXCEPT !.rows[Bank(l)].columns[Column(l)].block = Merged(@, v, mask),
                            !.rows[Bank(l)].dirty = @ \/ Dirties(y, l, mask)])
      BY <1>8, <1>9, <1>11, <2>1, <2>2 DEF Write
    <3>2. [a EXCEPT !.rows[Bank(l)].columns[Column(l)].block = Merged(@, v, mask),
                    !.rows[Bank(l)].dirty = @ \/ Dirties(y, l, mask)] = z
      BY <2>3, <2>4, <2>5, Zenon DEF Filled
    <3> QED BY <3>1, <3>2
  <2>7. Good(z, F, B, disk, crashes = 0)
    <3>1. Hit(w, l)
      BY <1>10, <1>11, InvFacts DEF Hit
    <3>2. a = Allocates(w, y, l)
      BY <1>10, <2>2 DEF Allocates
    <3>3. Usable(l) /\ next_version_ \in Nat \ {0} /\ IsFiniteSet(Lines) /\ cfg.cache \in Nat \ {0}
      BY <1>11, InvFacts
    <3>4. Good(Filled(a, Bank(l), Column(l), m, d), F, B, disk, crashes = 0)
      <4>1. Good(w, expect, allowed, disk, crashes = 0) /\ Wrote(expect, F, l, v, mask) /\ Grants(allowed, B, l, v, mask)
        BY <1>4, <1>5, <1>10
      <4> QED BY <2>1, <2>3, <2>4, <3>1, <3>2, <3>3, <4>1, WriteHitGood, Zenon
    <3> QED BY <2>5, <3>4
  <2> QED BY <1>6, <1>7, <2>6, <2>7, CalmNext
<1>12. CASE ~(decoded /\ Hit(X, l))
  <2>1. PICK z : z = [be |-> store(s, l, Merged(load(s, l), v, mask)), rows |-> rows]
    OBVIOUS
  <2>2. Becomes(z)
    BY <1>8, <1>12, <2>1 DEF Write
  <2>3. Good(z, F, B, disk, crashes = 0)
    <3>1. ~Holds(w.rows, l) /\ next_version_ \in Nat \ {0} /\ IsFiniteSet(Lines) /\ cfg.cache \in Nat \ {0}
      BY <1>10, <1>12, InvFacts
    <3>2. Good([be |-> store(w.be, l, Merged(load(w.be, l), v, mask)), rows |-> w.rows], F, B, disk, crashes = 0)
      BY <1>4, <1>5, <1>10, <3>1, WriteMissGood
    <3> QED BY <1>10, <2>1, <3>2
  <2> QED BY <1>6, <1>7, <2>2, <2>3, CalmNext
<1> QED BY <1>11, <1>12

\* write, with the row open or not.
LEMMA WriteActionNext ==
  ASSUME ImageInv, NEW CONSTANT l \in Lines, write(l)
  PROVE  ImageInv'
<1>1. Calm /\ Usable(l) /\ UNCHANGED <<cfg, disk, initialized, crashes, saving>> /\ writes' = writes + 1
  BY DEF write
<1>2. PICK mask \in cfg.masks : Write(l, 2 * (writes + 1), mask, TRUE)
  BY DEF write
<1>3. writes \in Nat /\ initialized \subseteq Lines
  BY DEF ImageInv, TypesOK
<1>4. PICK v \in Int : v = 2 * (writes + 1)
  BY <1>3
<1>5. mask \in Flags
  BY InvFacts
<1>6. ASSUME Covered, cfg.ecc, NEW i \in Bytes PROVE mask[i]
  <2>1. mask = Zero(TRUE)
    BY <1>6 DEF Covered
  <2> QED BY <2>1 DEF Zero
<1>7. PICK t : t = TRUE
  OBVIOUS
<1>8. Write(l, v, mask, t)
  BY <1>2, <1>4, <1>7, Zenon
<1>9. ~(t /\ Hit(X, l)) => ~Holds(rows, l)
  BY <1>7, InvFacts, HoldsHit
<1>10. /\ cfg' = cfg /\ disk' = disk /\ crashes' = crashes /\ saving' = saving /\ initialized \subseteq initialized'
       /\ initialized' \subseteq Lines /\ writes' \in Nat
  BY <1>1, <1>3
<1> QED BY <1>1, <1>5, <1>6, <1>8, <1>9, <1>10, WriteNext

\* The first use of a line goes past the rows, and none holds it.
LEMMA FirstUseNext ==
  ASSUME ImageInv, NEW CONSTANT l \in Lines, FirstUse(l)
  PROVE  ImageInv'
<1>1. /\ Calm /\ cfg.online /\ l \notin initialized /\ Write(l, 0, Zero(TRUE), FALSE)
      /\ initialized' = initialized \union {l} /\ UNCHANGED <<cfg, disk, writes, crashes, saving>>
  BY DEF FirstUse
<1>2. writes \in Nat /\ initialized \subseteq Lines
  BY DEF ImageInv, TypesOK
<1>3. PICK t : t = FALSE
  OBVIOUS
<1>4. PICK mask : mask = Zero(TRUE)
  OBVIOUS
<1>5. mask \in Flags /\ \A i \in Bytes : mask[i]
  BY <1>4 DEF Zero, Flags
<1>6. Write(l, 0, mask, t)
  BY <1>1, <1>3, <1>4, Zenon
<1>7. ~Holds(rows, l) /\ ~t
  BY <1>1, <1>3, InvFacts, HoldsOpen
<1>8. /\ cfg' = cfg /\ disk' = disk /\ crashes' = crashes /\ saving' = saving /\ initialized \subseteq initialized'
      /\ initialized' \subseteq Lines /\ writes' \in Nat
  BY <1>1, <1>2
<1>9. PICK v \in Int : v = 0
  OBVIOUS
<1>10. Write(l, v, mask, t)
  BY <1>6, <1>9
<1> QED BY <1>1, <1>5, <1>7, <1>8, <1>10, WriteNext

\* flush_storage: rows are written back, then the dirty chunks and the header.
LEMMA CheckpointNext ==
  ASSUME ImageInv, Checkpoint
  PROVE  ImageInv'
<1>1. PICK x : x = FlushedAll(X)
  OBVIOUS
<1>2. PICK order \in Orders(x.be) : Becomes([x EXCEPT !.be = flush(@, order)])
  BY <1>1 DEF Checkpoint
<1>3. Good(x, expect, allowed, disk, crashes = 0) /\ \A b \in Banks : ~x.rows[b].dirty
  BY <1>1, InvFacts, FlushedAllGood
<1>4. PICK r : r = flush(x.be, order)
  OBVIOUS
<1>5. PICK z : z = [be |-> r, rows |-> x.rows]
  OBVIOUS
<1>6. EndOK(x.be) /\ x = [be |-> x.be, rows |-> x.rows]
  BY <1>3 DEF Good, States
<1>7. /\ Keeps(x.be, r) /\ Safe(x.be, r, allowed, disk)
      /\ cfg.kind # "sparse" => Clean(r) /\ r.plan # <<>>
  BY <1>2, <1>4, <1>6, InvFacts, FlushFacts
<1>8. Good(z, expect, allowed, disk, crashes = 0) /\ z.be = r /\ z.rows = x.rows
  BY <1>3, <1>5, <1>7, KeepsGood
<1>9. Becomes(z)
  <2>1. [x EXCEPT !.be = flush(@, order)] = z
    BY <1>4, <1>5, <1>6
  <2> QED BY <1>2, <2>1
<1>10. /\ cfg' = cfg /\ disk' = disk /\ next_version_' = next_version_ /\ initialized' = initialized
       /\ writes' = writes /\ crashes' = crashes /\ expect' = expect /\ allowed' = allowed
       /\ saving' = (cfg.kind # "sparse")
  BY DEF Checkpoint
<1>11. Good(X, expect, allowed, disk, crashes = 0)'
  BY <1>8, <1>9, <1>10, GoodNext DEF Becomes
<1>12. TypesOK'
  <2>1. Files' = Files
    BY <1>10, SameBlocks
  <2> QED BY <1>10, <2>1 DEF ImageInv, TypesOK, Word
<1>13. SavingClean'
  <2>1. Plain' = Plain /\ Banks' = Banks
    BY <1>10 DEF Plain, Banks, Bank
  <2>2. be' = r /\ rows' = x.rows
    BY <1>8, <1>9 DEF Becomes
  <2>3. Plain => Clean(r) /\ r.plan # <<>>
    BY <1>7 DEF Plain
  <2> QED BY <1>3, <2>1, <2>2, <2>3 DEF SavingClean, Clean
<1> QED BY <1>11, <1>12, <1>13 DEF ImageInv

\* dump_binary and load_binary, with no row dirty.
LEMMA ReloadNext ==
  ASSUME ImageInv, Reload
  PROVE  ImageInv'
<1>1. PICK q : q = SetToSeq({l \in Lines : be.d.present[l]})
  OBVIOUS
<1>2. PICK r : r = FoldLeft(LoadLine, clear(FoldLeft(Reached, be, q)), q)
  OBVIOUS
<1>3. PICK z : z = [be |-> r, rows |-> NoRows]
  OBVIOUS
<1>4. Calm /\ cfg.reload /\ (\A b \in Banks : ~rows[b].dirty) /\ UNCHANGED same
  BY DEF Reload
<1>5. Becomes(z)
  BY <1>1, <1>2, <1>3 DEF Reload, NoRows
<1>6. Good(z, expect, allowed, disk, crashes = 0)
  BY <1>1, <1>2, <1>3, <1>4, InvFacts, ReloadGood
<1> QED BY <1>4, <1>5, <1>6, BecomesNext

\* The first of the planned writes is done.
LEMMA TrailStep ==
  ASSUME NEW s \in Ends, s.plan # <<>>, NEW F, NEW D, Trail(s, F, D),
         NEW r, r.d = s.d, r.plan = Tail(s.plan)
  PROVE  Trail(r, F, Written(D, Head(s.plan)))
<1>1. s.plan \in Seq(FileWrite)
  BY DEF Ends
<1>2. Leads(s.plan, FileSteps(F), D, s.d) /\ s.d \in F
  BY DEF Trail
<1>3. PICK d : <<D, Head(s.plan), d>> \in FileSteps(F) /\ Leads(Tail(s.plan), FileSteps(F), d, s.d)
  BY <1>1, <1>2, LeadsTail
<1>4. d = Written(D, Head(s.plan)) /\ d \in F
  BY <1>3 DEF FileSteps
<1> QED BY <1>2, <1>3, <1>4 DEF Trail

\* With nothing dirty the files show what the back end does.
LEMMA CleanFiles ==
  ASSUME NEW s, EndOK(s), Clean(s), NEW l \in Lines
  PROVE  /\ load(s, l) = load(Opened(s.d), l)
         /\ \A i \in Bytes : Shown(load(s, l), i) = ShownIn(s.d, l, i)
<1>1. s.d \in Files
  BY DEF EndOK, Ends
<1>2. PICK o : o = Opened(s.d)
  OBVIOUS
<1>3. o.d = s.d /\ DOMAIN o.cache = {}
  BY <1>1, <1>2, OpenedFacts
<1>4. CASE ~s.d.present[l]
  <2>1. load(s, l) = make_line /\ load(o, l) = make_line /\ \A i \in Bytes : ~make_line.init[i]
    BY <1>3, <1>4 DEF load, make_line, Zero
  <2> QED BY <1>2, <1>4, <2>1 DEF Shown, ShownIn
<1>5. CASE s.d.present[l]
  <2> DEFINE f == [bytes |-> s.d.data[l], init |-> s.d.init[l], version |-> s.d.meta[l].version,
                   ecc |-> s.d.meta[l].ecc, bad |-> s.d.meta[l].bad]
  <2>1. load(o, l) = f
    BY <1>3, <1>5 DEF load
  <2>2. load(s, l) = f
    <3>1. CASE cfg.kind = "chunk" /\ Chunk(l) \in DOMAIN s.cache
      <4>1. ChunkOK(s, Chunk(l)) /\ ~s.cache[Chunk(l)].dirty /\ l \in Mine(Chunk(l))
        BY <3>1 DEF EndOK, Clean, Mine
      <4>2. /\ s.cache[Chunk(l)].data[l] = s.d.data[l] /\ s.cache[Chunk(l)].init[l] = s.d.init[l]
            /\ s.cache[Chunk(l)].meta[l] = s.d.meta[l]
        BY <4>1 DEF ChunkOK
      <4> QED BY <1>5, <3>1, <4>2 DEF load
    <3>2. CASE ~(cfg.kind = "chunk" /\ Chunk(l) \in DOMAIN s.cache)
      BY <1>5, <3>2 DEF load
    <3> QED BY <3>1, <3>2
  <2>3. f.init = s.d.init[l] /\ f.bytes = s.d.data[l]
    OBVIOUS
  <2> HIDE DEF f
  <2> QED BY <1>2, <1>5, <2>1, <2>2, <2>3 DEF Shown, ShownIn
<1> QED BY <1>4, <1>5

\* Where nothing else can go wrong, reads are right.
LEMMA PlainCovered ==
  ASSUME Plain
  PROVE  Covered /\ ~cfg.ecc
BY DEF Plain, Covered

\* The planned writes once one is done.
LEMMA StepKeeps ==
  ASSUME ImageInv, be.plan # <<>>, NEW CONSTANT r, r = [be EXCEPT !.plan = Tail(@)]
  PROVE  /\ EndOK(r) /\ r.d = be.d /\ r.plan = Tail(be.plan) /\ r.cache = be.cache
         /\ r.allocated = be.allocated /\ r.unique = be.unique /\ \A l \in Lines : load(r, l) = load(be, l)
<1>1. be \in Ends /\ Listed(be) /\ \A c \in DOMAIN be.cache : ChunkOK(be, c)
  BY InvFacts DEF EndOK
<1>2. be.plan \in Seq(FileWrite)
  BY <1>1 DEF Ends
<1>3. Tail(be.plan) \in Seq(FileWrite)
  BY <1>2
<1>4. /\ r.d = be.d /\ r.plan = Tail(be.plan) /\ r.cache = be.cache /\ r.lru = be.lru
      /\ r.allocated = be.allocated /\ r.unique = be.unique /\ r \in Ends
  BY <1>1, <1>3 DEF Ends
<1>5. EndOK(r)
  BY <1>1, <1>4 DEF EndOK, Listed, ChunkOK
<1>6. \A l \in Lines : load(r, l) = load(be, l)
  BY <1>4 DEF load
<1> QED BY <1>4, <1>5, <1>6

\* The last write of a flush leaves in the files what a plain memory holds.
LEMMA SavedSound ==
  ASSUME NEW x, NEW E, NEW A, NEW D, NEW C, Good(x, E, A, D, C), Plain, x.be.plan = <<>>,
         Clean(x.be), \A b \in Banks : ~x.rows[b].dirty
  PROVE  Good(x, E, [l \in Lines |-> [i \in Bytes |-> {E[l][i]}]], D, C)
<1> DEFINE s == x.be
           R == x.rows
           B == [l \in Lines |-> [i \in Bytes |-> {E[l][i]}]]
<1>1. Covered /\ ~cfg.ecc
  BY PlainCovered
<1>2. EndOK(s) /\ RowsOK(R) /\ EndSound(s, A, D) /\ RowsSound(s, R, A) /\ \A l \in Lines : LineRight(s, R, E, l)
  BY <1>1 DEF Good
<1>3. \A l \in Lines : \A i \in Bytes : B[l][i] = {E[l][i]}
  OBVIOUS
<1> HIDE DEF B
<1>4. ASSUME NEW l \in Lines, NEW i \in Bytes PROVE Shown(load(s, l), i) = E[l][i]
  <2>1. Bank(l) \in Banks
    BY DEF Banks
  <2>2. Right(load(s, l), E[l]) /\ load(s, l) \in Block
    BY <1>2, <2>1, LoadType DEF LineRight
  <2> QED BY <1>1, <2>2, RightPlain
<1>5. ASSUME NEW l \in Lines, NEW i \in Bytes, Holds(R, l) PROVE Shown(Held(R, l), i) = E[l][i]
  <2>1. Right(Held(R, l), E[l]) /\ Held(R, l) \in Block
    BY <1>2, <1>5, HoldsOpen DEF LineRight
  <2> QED BY <1>1, <2>1, RightPlain
<1>6. CacheSound(s) /\ s.d \in SoundFiles(A) /\ Leads(s.plan, FileSteps(SoundFiles(A)), D, s.d)
  BY <1>2 DEF EndSound, Trail
<1>7. D = s.d
  <2>1. Leads(<<>>, FileSteps(SoundFiles(A)), D, s.d)
    BY <1>6
  <2> QED BY <2>1, LeadsNothing
<1>8. s.d \in SoundFiles(B)
  <2>1. s.d \in Files /\ FilesOK(s.d, A)
    BY <1>6 DEF SoundFiles
  <2>2. ASSUME NEW l \in Lines, NEW i \in Bytes
        PROVE  ShownIn(s.d, l, i) \in B[l][i] /\ (cfg.kind = "chunk" /\ ~s.d.present[l] => ~s.d.init[l][i])
    <3>1. ShownIn(s.d, l, i) = E[l][i]
      BY <1>2, <1>4, CleanFiles
    <3> QED BY <1>3, <2>1, <3>1 DEF FilesOK
  <2>3. FilesOK(s.d, B)
    BY <2>2 DEF FilesOK
  <2> QED BY <2>1, <2>3 DEF SoundFiles
<1>9. Trail(s, SoundFiles(B), D)
  BY <1>7, <1>8, LeadsEmpty DEF Trail
<1>10. EndSound(s, B, D)
  BY <1>3, <1>4, <1>6, <1>9 DEF EndSound
<1>11. RowsSound(s, R, B)
  BY <1>2, <1>3, <1>5 DEF RowsSound
<1>12. Good(x, E, B, D, C)
  BY <1>10, <1>11 DEF Good
<1> QED BY <1>12 DEF B

\* The next of the planned writes; the last one of a flush ends it.
LEMMA StepNext ==
  ASSUME ImageInv, Step
  PROVE  ImageInv'
<1>1. PICK r : r = [be EXCEPT !.plan = Tail(@)]
  OBVIOUS
<1>2. PICK z : z = [be |-> r, rows |-> rows]
  OBVIOUS
<1>3. PICK D : D = Written(disk, Head(be.plan))
  OBVIOUS
<1>4. /\ be.plan # <<>> /\ disk' = D /\ be' = r /\ saving' = (saving /\ Tail(be.plan) # <<>>)
      /\ cfg' = cfg /\ rows' = rows /\ next_version_' = next_version_ /\ initialized' = initialized
      /\ writes' = writes /\ crashes' = crashes /\ expect' = expect
      /\ allowed' = IF saving /\ Tail(be.plan) = <<>>
                    THEN [l \in Lines |-> [i \in Bytes |-> {expect[l][i]}]] ELSE allowed
  BY <1>1, <1>3 DEF Step, Calm
<1>5. /\ EndOK(r) /\ r.d = be.d /\ r.plan = Tail(be.plan) /\ r.cache = be.cache
      /\ r.allocated = be.allocated /\ r.unique = be.unique /\ \A l \in Lines : load(r, l) = load(be, l)
  BY <1>1, <1>4, StepKeeps
<1>6. be \in Ends /\ Good(X, expect, allowed, disk, crashes = 0) /\ X.be = be /\ X.rows = rows /\ RowsOK(rows)
  BY InvFacts DEF EndOK
<1>7. \A F : Trail(be, F, disk) => Trail(r, F, D)
  BY <1>3, <1>4, <1>5, <1>6, TrailStep
<1>8. z.be = r /\ z.rows = rows /\ z \in States
  BY <1>2, <1>5, <1>6 DEF States, EndOK, RowsOK
<1>9. Good(z, expect, allowed, D, crashes = 0)
  <2>1. ASSUME Plain PROVE EndSound(r, allowed, D) /\ RowsSound(r, rows, allowed)
    <3>1. EndSound(be, allowed, disk) /\ RowsSound(be, rows, allowed)
      BY <1>6, <2>1 DEF Good
    <3>2. CacheSound(r)
      BY <1>5, <3>1 DEF EndSound, CacheSound
    <3>3. Trail(r, SoundFiles(allowed), D)
      BY <1>7, <3>1 DEF EndSound
    <3>4. \A l \in Lines : \A i \in Bytes : Shown(load(r, l), i) \in allowed[l][i]
      BY <1>5, <3>1 DEF EndSound
    <3>5. RowsSound(r, rows, allowed)
      BY <1>5, <3>1 DEF RowsSound
    <3> QED BY <3>2, <3>3, <3>4, <3>5 DEF EndSound
  <2>2. ASSUME crashes = 0 PROVE CountOK(r, D)
    <3>1. CountOK(be, disk)
      BY <1>6, <2>2 DEF Good
    <3> QED BY <1>5, <1>7, <3>1 DEF CountOK
  <2>3. Covered => \A l \in Lines : LineRight(r, rows, expect, l)
    BY <1>5, <1>6 DEF Good, LineRight
  <2> QED BY <1>5, <1>6, <1>8, <2>1, <2>2, <2>3 DEF Good
<1>10. Plain /\ saving => (\A b \in Banks : ~rows[b].dirty) /\ Clean(be)
  BY DEF ImageInv, SavingClean
<1>11. PICK B : B = IF saving /\ Tail(be.plan) = <<>>
                    THEN [l \in Lines |-> [i \in Bytes |-> {expect[l][i]}]] ELSE allowed
  OBVIOUS
<1>12. Good(z, expect, B, D, crashes = 0)
  <2>1. CASE ~(saving /\ Tail(be.plan) = <<>>)
    BY <1>9, <1>11, <2>1
  <2>2. CASE saving /\ Tail(be.plan) = <<>> /\ Plain
    <3>1. Clean(r)
      BY <1>5, <1>10, <2>2 DEF Clean
    <3>2. Good(z, expect, [l \in Lines |-> [i \in Bytes |-> {expect[l][i]}]], D, crashes = 0)
      BY <1>5, <1>8, <1>9, <1>10, <2>2, <3>1, SavedSound
    <3> QED BY <1>11, <2>2, <3>2
  <2>3. CASE ~Plain
    BY <1>9, <2>3 DEF Good
  <2> QED BY <2>1, <2>2, <2>3
<1>13. allowed' = B
  BY <1>4, <1>11
<1>14. Good(X, expect, allowed, disk, crashes = 0)'
  BY <1>4, <1>8, <1>12, <1>13, GoodNext
<1>15. TypesOK'
  <2>1. Files' = Files
    BY <1>4, SameBlocks
  <2>2. D \in Files
    <3>1. be.plan \in Seq(FileWrite) /\ disk \in Files
      BY <1>6 DEF Ends, ImageInv, TypesOK
    <3>2. Head(be.plan) \in FileWrite
      BY <1>4, <3>1
    <3> QED BY <1>3, <3>1, <3>2, WriteAny
  <2>3. B \in [Lines -> [Bytes -> SUBSET Int]]
    <3>1. expect \in [Lines -> Word] /\ allowed \in [Lines -> [Bytes -> SUBSET Int]]
      BY DEF ImageInv, TypesOK
    <3>2. [l \in Lines |-> [i \in Bytes |-> {expect[l][i]}]] \in [Lines -> [Bytes -> SUBSET Int]]
      BY <3>1 DEF Word
    <3> QED BY <1>11, <3>1, <3>2
  <2>4. saving' \in BOOLEAN
    BY <1>4
  <2> QED BY <1>4, <1>13, <2>1, <2>2, <2>3, <2>4 DEF ImageInv, TypesOK, Word
<1>16. SavingClean'
  <2>1. Plain' = Plain /\ Banks' = Banks
    BY <1>4 DEF Plain, Banks, Bank
  <2>2. Plain /\ saving' => r.plan # <<>> /\ (\A b \in Banks : ~rows[b].dirty) /\ Clean(r)
    BY <1>4, <1>5, <1>10 DEF Clean
  <2> QED BY <1>4, <2>1, <2>2 DEF SavingClean, Clean
<1> QED BY <1>14, <1>15, <1>16 DEF ImageInv

\* Another run opens files.
LEMMA RestartNext ==
  ASSUME ImageInv, NEW CONSTANT f \in Files, Restart(f), NEW CONSTANT E, NEW CONSTANT C,
         Good([be |-> Opened(f), rows |-> NoRows], E, allowed, f, C),
         expect' = E, E \in [Lines -> Word], (crashes' = 0) = C, crashes' \in Nat
  PROVE  ImageInv'
<1>1. /\ disk' = f /\ be' = Opened(f) /\ rows' = NoRows /\ next_version_' = 1 /\ saving' = FALSE
      /\ cfg' = cfg /\ initialized' = initialized /\ writes' = writes /\ allowed' = allowed
  BY DEF Restart, NoRows
<1>2. PICK x : x = [be |-> Opened(f), rows |-> NoRows]
  OBVIOUS
<1>3. x.be = Opened(f) /\ x.rows = NoRows
  BY <1>2
<1>4. Good(X, expect, allowed, disk, crashes = 0)'
  BY <1>1, <1>2, <1>3, GoodNext
<1>5. TypesOK'
  <2>1. Files' = Files
    BY <1>1, SameBlocks
  <2>2. saving' \in BOOLEAN
    BY <1>1
  <2>3. next_version_' \in Nat \ {0}
    BY <1>1
  <2>4. /\ cfg \in Configs /\ writes \in Nat /\ allowed \in [Lines -> [Bytes -> SUBSET Int]] /\ initialized \subseteq Lines
    BY DEF ImageInv, TypesOK
  <2>5. /\ cfg' = cfg /\ initialized' = initialized /\ writes' = writes /\ allowed' = allowed /\ disk' = f
    BY <1>1
  <2> QED BY <2>1, <2>2, <2>3, <2>4, <2>5 DEF TypesOK, Word
<1>6. SavingClean'
  BY <1>1 DEF SavingClean
<1> QED BY <1>4, <1>5, <1>6 DEF ImageInv

\* Another run opens the files that the destructor flushed.
LEMMA ReopenNext ==
  ASSUME ImageInv, Reopen
  PROVE  ImageInv'
<1>1. PICK r : r = flush(be, be.lru)
  OBVIOUS
<1>2. cfg.kind # "sparse" /\ (\A b \in Banks : ~rows[b].dirty) /\ crashes' = crashes /\ expect' = expect
  BY DEF Reopen
<1>3. be.lru \in Orders(be)
  BY DEF Orders
<1>4. /\ Keeps(be, r) /\ Safe(be, r, allowed, disk) /\ Clean(r)
      /\ r.d.header = [allocated |-> be.allocated, written |-> be.unique]
  BY <1>1, <1>2, <1>3, InvFacts, FlushFacts
<1>5. PICK f : f = r.d
  OBVIOUS
<1>6. f \in Files /\ EndOK(r)
  BY <1>4, <1>5 DEF Keeps, EndOK, Ends
<1>7. Restart(f)
  BY <1>1, <1>5 DEF Reopen
<1>8. Good([be |-> Opened(f), rows |-> NoRows], expect, allowed, f, crashes = 0)
  <2>1. ASSUME Covered, NEW l \in Lines PROVE Right(load(Opened(f), l), expect[l])
    <3>1. Bank(l) \in Banks
      BY DEF Banks
    <3>2. LineRight(be, rows, expect, l)
      BY <2>1, InvFacts DEF Good
    <3>3. Right(load(be, l), expect[l])
      BY <1>2, <3>1, <3>2 DEF LineRight
    <3>4. load(Opened(f), l) = load(r, l)
      BY <1>4, <1>5, <1>6, CleanFiles
    <3>5. load(r, l) = load(be, l)
      BY <1>4 DEF Keeps
    <3> QED BY <3>3, <3>4, <3>5
  <2>2. ASSUME Plain PROVE FilesOK(f, allowed)
    <3>1. EndSound(be, allowed, disk)
      BY <2>2, InvFacts DEF Good
    <3>2. EndSound(r, allowed, disk)
      BY <1>4, <3>1 DEF Safe
    <3> QED BY <1>5, <3>2 DEF EndSound, Trail, SoundFiles
  <2>3. ASSUME crashes = 0 PROVE FilesCount(f)
    <3>1. CountOK(be, disk)
      BY <2>3, InvFacts DEF Good
    <3>2. CountOK(r, disk)
      BY <1>4, <3>1 DEF Safe
    <3>3. r.allocated = be.allocated /\ r.unique = be.unique
      BY <1>4 DEF Keeps
    <3>4. f.header.allocated = be.allocated /\ f.header.written = be.unique
      BY <1>4, <1>5
    <3> QED BY <1>5, <3>2, <3>3, <3>4 DEF CountOK, FilesCount, Trail, SaneFiles
  <2> QED BY <1>6, <2>1, <2>2, <2>3, OpenedGood
<1>9. expect \in [Lines -> Word] /\ crashes \in Nat
  BY DEF ImageInv, TypesOK
<1> QED BY <1>2, <1>6, <1>7, <1>8, <1>9, RestartNext

\* Another run opens the files of a killed process.
LEMMA CrashNext ==
  ASSUME ImageInv, Crash
  PROVE  ImageInv'
<1>1. PICK E : E = [l \in Lines |-> [i \in Bytes |-> InFiles(l, i)]]
  OBVIOUS
<1>2. cfg.kind # "sparse" /\ crashes < cfg.crashes /\ Restart(disk) /\ crashes' = crashes + 1 /\ expect' = E
  BY <1>1 DEF Crash
<1>3. disk \in Files /\ crashes \in Nat
  BY DEF ImageInv, TypesOK
<1>4. E \in [Lines -> Word]
  <2>1. disk.data \in [Lines -> Word]
    BY <1>3 DEF Files
  <2>2. \A l \in Lines : \A i \in Bytes : InFiles(l, i) \in Int
    BY <2>1 DEF InFiles, None, Word
  <2> QED BY <1>1, <2>2 DEF Word
<1>5. PICK f \in Files : f = disk
  BY <1>3
<1>6. PICK o : o = Opened(f)
  OBVIOUS
<1>7. EndOK(o) /\ o.d = f /\ DOMAIN o.cache = {}
  BY <1>6, OpenedFacts
<1>8. ASSUME Covered, NEW l \in Lines PROVE Right(load(Opened(f), l), E[l])
  <2>1. ASSUME cfg.ecc PROVE FALSE
    <3>1. cfg.crashes = 0
      BY <1>8, <2>1 DEF Covered
    <3>2. crashes < 0
      BY <1>2, <3>1
    <3> QED BY <1>3, <3>2
  <2>2. load(o, l) \in Block
    BY <1>7, LoadType
  <2>3. Clean(o)
    BY <1>7 DEF Clean
  <2>4. \A i \in Bytes : Shown(load(o, l), i) = ShownIn(f, l, i)
    BY <1>7, <2>3, CleanFiles
  <2>5. \A i \in Bytes : E[l][i] = ShownIn(f, l, i)
    BY <1>1, <1>5 DEF InFiles, ShownIn
  <2>6. \A i \in Bytes : Shown(load(o, l), i) = E[l][i]
    BY <2>4, <2>5
  <2> QED BY <1>6, <2>1, <2>2, <2>6, RightPlain
<1>9. ASSUME Plain PROVE FilesOK(f, allowed)
  <2>1. EndSound(be, allowed, disk)
    BY <1>9, InvFacts DEF Good
  <2> QED BY <1>5, <2>1 DEF EndSound, Trail, SoundFiles
<1>10. PICK C : C = FALSE
  OBVIOUS
<1>11. Good([be |-> Opened(f), rows |-> NoRows], E, allowed, f, C)
  BY <1>8, <1>9, <1>10, OpenedGood
<1>12. (crashes' = 0) = C /\ crashes' \in Nat
  <2>1. crashes' # 0 /\ crashes' \in Nat
    BY <1>2, <1>3
  <2>2. (crashes' = 0) = FALSE
    BY <2>1
  <2> QED BY <1>10, <2>1, <2>2
<1>13. Restart(f)
  BY <1>2, <1>5
<1> QED BY <1>2, <1>4, <1>11, <1>12, <1>13, RestartNext

(***************************************************************************)
(* The invariant holds, and what follows from it.                          *)
(***************************************************************************)
\* The first run starts on empty files.
LEMMA InitInv ==
  ASSUME Init
  PROVE  ImageInv
<1>1. /\ cfg \in Configs /\ disk = Empty /\ be = Opened(Empty) /\ rows = NoRows /\ next_version_ = 1
      /\ initialized = {} /\ writes = 0 /\ crashes = 0 /\ saving = FALSE
      /\ expect = [l \in Lines |-> Zero(None)] /\ allowed = [l \in Lines |-> Zero({None})]
  BY DEF Init, NoRows
<1>2. PICK f : f = Empty
  OBVIOUS
<1>3. f \in Files
  BY <1>2, EmptyFiles
<1>4. /\ \A l \in Lines : f.present[l] = FALSE /\ f.written[l] = FALSE /\ \A i \in Bytes : f.init[l][i] = FALSE
      /\ f.header.allocated = 0 /\ f.header.written = 0
  BY <1>2 DEF Empty, Zero
<1>5. PICK o : o = Opened(f)
  OBVIOUS
<1>6. o.d = f
  BY <1>3, <1>5, OpenedFacts
<1>7. ASSUME NEW l \in Lines PROVE Right(load(Opened(f), l), expect[l])
  <2>1. load(o, l) = make_line
    BY <1>4, <1>6 DEF load
  <2>2. check_ecc_shadow(make_line) = make_line
    BY DEF check_ecc_shadow, make_line
  <2>3. \A i \in Bytes : Shown(make_line, i) = None
    BY DEF Shown, make_line, Zero
  <2>4. \A i \in Bytes : expect[l][i] = None
    BY <1>1 DEF Zero
  <2> QED BY <1>5, <2>1, <2>2, <2>3, <2>4 DEF Right
<1>8. FilesOK(f, allowed)
  <2>1. \A l \in Lines : \A i \in Bytes : allowed[l][i] = {None}
    BY <1>1 DEF Zero
  <2>2. \A l \in Lines : \A i \in Bytes : ShownIn(f, l, i) = None
    BY <1>4 DEF ShownIn
  <2> QED BY <1>4, <2>1, <2>2 DEF FilesOK
<1>9. FilesCount(f)
  <2>1. {l \in Lines : f.present[l]} = {} /\ {l \in Lines : f.written[l]} = {}
    BY <1>4
  <2>2. Cardinality({}) = 0 /\ Cardinality(Lines) \in Nat
    BY FS_EmptySet, FS_CardinalityType, ConfigsAssumption
  <2>3. HeaderOK(f.header)
    BY <1>4, <2>2 DEF HeaderOK
  <2> QED BY <1>3, <1>4, <2>1, <2>2, <2>3 DEF FilesCount
<1>10. PICK x : x = [be |-> Opened(f), rows |-> NoRows]
  OBVIOUS
<1>11. Good(x, expect, allowed, f, crashes = 0)
  BY <1>3, <1>7, <1>8, <1>9, <1>10, OpenedGood
<1>12. X = x /\ disk = f
  BY <1>1, <1>2, <1>10 DEF X
<1>13. TypesOK
  <2>1. saving \in BOOLEAN
    BY <1>1
  <2>2. expect \in [Lines -> Word]
    BY <1>1 DEF Word, Zero, None
  <2>3. allowed \in [Lines -> [Bytes -> SUBSET Int]]
    BY <1>1 DEF Zero, None
  <2>4. next_version_ \in Nat \ {0} /\ writes \in Nat /\ crashes \in Nat
    BY <1>1
  <2>5. cfg \in Configs /\ initialized \subseteq Lines /\ disk \in Files
    BY <1>1, <1>3, <1>12
  <2> QED BY <2>1, <2>2, <2>3, <2>4, <2>5 DEF TypesOK
<1>14. SavingClean
  BY <1>1 DEF SavingClean
<1> QED BY <1>11, <1>12, <1>13, <1>14 DEF ImageInv

\* A step that changes nothing.
LEMMA StutterNext ==
  ASSUME ImageInv, UNCHANGED vars
  PROVE  ImageInv'
<1>1. UNCHANGED same /\ be' = be /\ rows' = rows
  BY DEF vars, same
<1>2. TypesOK' /\ cfg' = cfg
  BY <1>1, SameTypes
<1>3. PICK x : x = X
  OBVIOUS
<1>4. Good(X, expect, allowed, disk, crashes = 0)'
  <2>1. Good(x, expect, allowed, disk, crashes = 0) /\ x.be = be /\ x.rows = rows
    BY <1>3, InvFacts
  <2>2. /\ initialized \subseteq initialized' /\ expect' = expect /\ allowed' = allowed /\ disk' = disk
        /\ (crashes' = 0) = (crashes = 0)
    BY <1>1 DEF same
  <2> QED BY <1>1, <1>2, <2>1, <2>2, GoodNext
<1>5. SavingClean'
  <2>1. Plain' = Plain /\ Banks' = Banks /\ saving' = saving
    BY <1>1, <1>2 DEF Plain, Banks, Bank, same
  <2> QED BY <1>1, <2>1 DEF ImageInv, SavingClean, Clean
<1> QED BY <1>2, <1>4, <1>5 DEF ImageInv

\* Every step keeps the invariant.
LEMMA NextInv ==
  ASSUME ImageInv, [Next]_vars
  PROVE  ImageInv'
<1>1. ASSUME NEW CONSTANT l \in Lines, activate_row(l) PROVE ImageInv'
  BY <1>1, ActivateNext
<1>2. ASSUME NEW CONSTANT l \in Lines, precharge_all(l) PROVE ImageInv'
  BY <1>2, PrechargeAllNext
<1>3. ASSUME NEW CONSTANT l \in Lines, read(l) PROVE ImageInv'
  BY <1>3, ReadNext
<1>4. ASSUME NEW CONSTANT l \in Lines, write(l) PROVE ImageInv'
  BY <1>4, WriteActionNext
<1>5. ASSUME NEW CONSTANT l \in Lines, FirstUse(l) PROVE ImageInv'
  BY <1>5, FirstUseNext
<1>6. ASSUME NEW CONSTANT b \in Banks, precharge_bank(b) PROVE ImageInv'
  BY <1>6, PrechargeNext
<1>7. CASE Checkpoint
  BY <1>7, CheckpointNext
<1>8. CASE Reload
  BY <1>8, ReloadNext
<1>9. CASE Step
  BY <1>9, StepNext
<1>10. CASE Reopen
  BY <1>10, ReopenNext
<1>11. CASE Crash
  BY <1>11, CrashNext
<1>12. CASE UNCHANGED vars
  BY <1>12, StutterNext
<1> QED BY <1>1, <1>2, <1>3, <1>4, <1>5, <1>6, <1>7, <1>8, <1>9, <1>10, <1>11, <1>12 DEF Next

\* Reads are right: the block read is the one held for the line, or the line
\* of the back end, which is right when no row holds another.
LEMMA InvReads ==
  ASSUME ImageInv, Covered
  PROVE  ReadsReturnLastWrite
<1>1. RowsOK(rows) /\ X.rows = rows /\ \A l \in Lines : LineRight(be, rows, expect, l)
  BY InvFacts DEF Good
<1>2. Separate(cfg.place)
  BY DEF Covered
<1>3. ASSUME NEW l \in Lines
      PROVE  \A i \in Bytes : Shown(Visible(l), i) = expect[l][i] \/ Visible(l).bad
  <2>1. CASE Hit(X, l) /\ Column(l) \in DOMAIN rows[Bank(l)].columns
    <3>1. Holds(rows, l)
      BY <1>1, <1>2, <2>1, HitHolds
    <3>2. Right(Held(rows, l), expect[l])
      BY <1>1, <3>1 DEF LineRight
    <3>3. Visible(l) = check_ecc_shadow(Held(rows, l))
      BY <2>1 DEF Visible, Held
    <3> QED BY <3>2, <3>3 DEF Right
  <2>2. CASE ~(Hit(X, l) /\ Column(l) \in DOMAIN rows[Bank(l)].columns)
    <3>1. ~Holds(rows, l)
      BY <1>1, <2>2, HoldsHit DEF Holds
    <3>2. Right(load(be, l), expect[l])
      BY <1>1, <3>1 DEF LineRight
    <3>3. Visible(l) = check_ecc_shadow(load(be, l))
      BY <2>2 DEF Visible
    <3> QED BY <3>2, <3>3 DEF Right
  <2> QED BY <2>1, <2>2
<1> QED BY <1>3 DEF ReadsReturnLastWrite, Shown

\* The files are sound: they are among those that the plan leads through.
LEMMA InvFiles ==
  ASSUME ImageInv, Separate(cfg.place)
  PROVE  FilesSound
<1> SUFFICES ASSUME cfg.kind # "sparse", ~cfg.ecc, ~cfg.reload, NEW l \in Lines, NEW i \in Bytes
             PROVE  InFiles(l, i) \in allowed[l][i]
  BY DEF FilesSound
<1>1. Plain
  BY DEF Plain
<1>2. EndSound(be, allowed, disk)
  BY <1>1, InvFacts DEF Good
<1>3. FilesOK(disk, allowed)
  BY <1>2 DEF EndSound, Trail, SoundFiles
<1> QED BY <1>3 DEF FilesOK, InFiles, ShownIn

\* The counters are exact; the files that the plan leads through have headers
\* that are accepted.
LEMMA InvCounters ==
  ASSUME ImageInv
  PROVE  CountersExact
<1> SUFFICES ASSUME crashes = 0 PROVE CountOK(be, disk)
  BY DEF CountersExact, CountOK, Trail, SaneFiles, HeaderOK, validate_header_counters
<1> QED BY InvFacts DEF Good

(***************************************************************************)
(* Theorems.                                                               *)
(***************************************************************************)
\* ImageInv is inductive: it holds at first and every operation, every write
\* to a file and every end of a process keeps it.
THEOREM ImageInvariant == Spec => []ImageInv
<1>1. Init => ImageInv
  BY InitInv
<1>2. ImageInv /\ [Next]_vars => ImageInv'
  BY NextInv
<1> QED BY <1>1, <1>2, PTL DEF Spec

\* Any number of lines, banks, chunks and writes, any size of the cache and
\* any placement that gives no two lines the same column: what a read returns
\* is what was last written, or an error that is reported.  With ECC, for
\* writes of whole lines, with no reload and no crash.
THEOREM ReadsStayRight == Spec => [](Covered => ReadsReturnLastWrite)
<1>1. ImageInv => (Covered => ReadsReturnLastWrite)
  BY InvReads
<1> QED BY <1>1, ImageInvariant, PTL

\* A process killed at any moment - any number of them, one after the other -
\* leaves in the files, byte by byte, what the last completed flush saved or
\* something written since.
THEOREM FilesStaySound == Spec => [](Separate(cfg.place) => FilesSound)
<1>1. ImageInv => (Separate(cfg.place) => FilesSound)
  BY InvFiles
<1> QED BY <1>1, ImageInvariant, PTL

\* The counters of allocated and of written lines are exact, and the header
\* of the files passes validate_header_counters at every moment, so that the
\* run after one that was killed anywhere is accepted.
THEOREM CountersStayExact == Spec => []CountersExact
<1>1. ImageInv => CountersExact
  BY InvCounters
<1> QED BY <1>1, ImageInvariant, PTL

(***************************************************************************)
(* AddressMap: the digits of a transaction number determine it, and        *)
(* StackEncode undoes StackDecode.                                         *)
(***************************************************************************)
Positive == Nat \ {0}

\* What take_mod splits is put together again by the digit and the quotient.
LEMMA DivMod ==
    ASSUME NEW n \in Positive, NEW a \in Nat
    PROVE  /\ a \div n \in Nat
           /\ a % n \in 0 .. (n - 1)
           /\ a = n * (a \div n) + (a % n)
BY SMT DEF Positive

\* A number is determined by its lowest digit and the quotient.
LEMMA DivModUnique ==
    ASSUME NEW n \in Positive, NEW a \in Nat, NEW b \in Nat,
           a % n = b % n, a \div n = b \div n
    PROVE  a = b
BY DivMod, SMT

\* The quotient by one radix is below the product of the others.
LEMMA DivBound ==
    ASSUME NEW n \in Positive, NEW m \in Positive, NEW a \in Nat, a < n * m
    PROVE  a \div n < m
<1>1. PICK q \in Nat, r \in Nat : q = a \div n /\ a = n * q + r
  <2>1. a \div n \in Nat /\ a % n \in Nat /\ a = n * (a \div n) + (a % n)
    BY DivMod, SMT
  <2> QED BY <2>1, Zenon
<1>2. SUFFICES ASSUME q >= m PROVE FALSE
  BY <1>1, SMT DEF Positive
<1>3. n * q = n * m + n * (q - m) /\ n * (q - m) >= 0
  BY <1>2, SMT DEF Positive
<1>4. n * q \in Nat /\ n * m \in Nat /\ n * (q - m) \in Int
  BY <1>2, SMT DEF Positive
<1> QED BY <1>1, <1>3, <1>4, SMT

\* One digit of two numbers.
LEMMA DigitStep ==
    ASSUME NEW n \in Positive, NEW m \in Positive, NEW a \in Nat, NEW b \in Nat, a < n * m, b < n * m
    PROVE  /\ a \div n \in Nat /\ b \div n \in Nat
           /\ a \div n < m /\ b \div n < m
           /\ a % n = b % n /\ a \div n = b \div n => a = b
BY DivMod, DivBound, DivModUnique, Zenon

\* A product of radices is a radix.
LEMMA ProductPositive ==
    ASSUME NEW x \in Positive, NEW y \in Positive
    PROVE  x * y \in Positive
BY SMT DEF Positive

\* The number of values that the digits from i on can take.
Products(n) ==
    LET p7 == n[7] * n[8]
        p6 == n[6] * p7
        p5 == n[5] * p6
        p4 == n[4] * p5
        p3 == n[3] * p4
        p2 == n[2] * p3
    IN  <<n[1] * p2, p2, p3, p4, p5, p6, p7, n[8]>>

\* Every product is a radix times the next product.
LEMMA ProductsStep ==
    ASSUME NEW n \in [1 .. 8 -> Positive]
    PROVE  /\ \A i \in 1 .. 8 : Products(n)[i] \in Positive
           /\ \A i \in 1 .. 7 : Products(n)[i] = n[i] * Products(n)[i + 1]
           /\ Products(n)[8] = n[8]
<1> DEFINE p == Products(n)
<1>1. /\ p[8] = n[8] /\ p[7] = n[7] * p[8] /\ p[6] = n[6] * p[7] /\ p[5] = n[5] * p[6]
      /\ p[4] = n[4] * p[5] /\ p[3] = n[3] * p[4] /\ p[2] = n[2] * p[3] /\ p[1] = n[1] * p[2]
  BY DEF Products
<1> HIDE DEF p
<1>2. \A i \in 1 .. 8 : n[i] \in Positive
  OBVIOUS
<1>3. p[8] \in Positive /\ p[7] \in Positive /\ p[6] \in Positive /\ p[5] \in Positive
  BY <1>1, <1>2, ProductPositive, SMT
<1>4. p[4] \in Positive /\ p[3] \in Positive /\ p[2] \in Positive /\ p[1] \in Positive
  BY <1>1, <1>2, <1>3, ProductPositive, SMT
<1>5. \A i \in 1 .. 8 : p[i] \in Positive
  BY <1>3, <1>4, SMT
<1>6. \A i \in 1 .. 7 : p[i] = n[i] * p[i + 1]
  <2>1. \A i \in 1 .. 7 : i = 1 \/ i = 2 \/ i = 3 \/ i = 4 \/ i = 5 \/ i = 6 \/ i = 7
    BY SMT
  <2> QED BY <1>1, <2>1, SMT
<1> QED BY <1>1, <1>5, <1>6 DEF p

\* Every quotient is the one before it, divided by a radix.
LEMMA QuotientsStep ==
    ASSUME NEW n \in [1 .. 8 -> Positive], NEW a \in Nat
    PROVE  /\ Quotients(n, a)[1] = a
           /\ \A i \in 1 .. 7 : Quotients(n, a)[i + 1] = Quotients(n, a)[i] \div n[i]
<1> DEFINE q == Quotients(n, a)
<1>1. /\ q[1] = a /\ q[2] = q[1] \div n[1] /\ q[3] = q[2] \div n[2] /\ q[4] = q[3] \div n[3]
      /\ q[5] = q[4] \div n[4] /\ q[6] = q[5] \div n[5] /\ q[7] = q[6] \div n[6] /\ q[8] = q[7] \div n[7]
  BY DEF Quotients
<1> HIDE DEF q
<1>2. \A i \in 1 .. 7 :
          \/ (i = 1 /\ i + 1 = 2) \/ (i = 2 /\ i + 1 = 3) \/ (i = 3 /\ i + 1 = 4) \/ (i = 4 /\ i + 1 = 5)
          \/ (i = 5 /\ i + 1 = 6) \/ (i = 6 /\ i + 1 = 7) \/ (i = 7 /\ i + 1 = 8)
  BY SMT
<1>3. \A i \in 1 .. 7 : q[i + 1] = q[i] \div n[i]
  BY <1>1, <1>2, ZenonT(30)
<1> QED BY <1>1, <1>3 DEF q

\* take_mod over eight radices is injective below their product.
LEMMA DigitsInjective ==
    ASSUME NEW n \in [1 .. 8 -> Positive], NEW a \in Nat, NEW b \in Nat,
           a < Products(n)[1], b < Products(n)[1], Digits(n, a) = Digits(n, b)
    PROVE  a = b
<1> DEFINE A == Quotients(n, a)
           B == Quotients(n, b)
           p == Products(n)
           Below(i) == A[i] \in Nat /\ B[i] \in Nat /\ A[i] < p[i] /\ B[i] < p[i]
<1>1. \A i \in 1 .. 8 : A[i] % n[i] = B[i] % n[i]
  BY Zenon DEF Digits
<1>2. \A i \in 1 .. 8 : n[i] \in Positive /\ p[i] \in Positive
  BY ProductsStep
<1>3. Below(1)
  BY QuotientsStep
<1>4. ASSUME NEW i \in 1 .. 7, Below(i)
      PROVE  Below(i + 1) /\ (A[i + 1] = B[i + 1] => A[i] = B[i])
  <2>1. p[i] = n[i] * p[i + 1] /\ A[i + 1] = A[i] \div n[i] /\ B[i + 1] = B[i] \div n[i]
    BY ProductsStep, QuotientsStep
  <2>2. n[i] \in Positive /\ p[i + 1] \in Positive /\ A[i] % n[i] = B[i] % n[i]
    BY <1>1, <1>2, SMT
  <2> HIDE DEF A, B, p
  <2> QED BY <1>4, <2>1, <2>2, DigitStep
<1> HIDE DEF A, B, p, Below
<1>5. Below(2) /\ Below(3) /\ Below(4) /\ Below(5) /\ Below(6) /\ Below(7) /\ Below(8)
  BY <1>3, <1>4, SMT
<1>6. A[8] = B[8]
  <2>1. A[8] \in Nat /\ B[8] \in Nat /\ A[8] < n[8] /\ B[8] < n[8] /\ n[8] \in Positive
    BY <1>2, <1>5, ProductsStep DEF Below, p
  <2>2. A[8] % n[8] = B[8] % n[8]
    BY <1>1
  <2> QED BY <2>1, <2>2, SMT DEF Positive
<1>7. A[1] = B[1]
  BY <1>3, <1>4, <1>5, <1>6, SMT
<1> QED BY <1>7, QuotientsStep DEF A, B

\* Every mapping takes every field once.
LEMMA OrderIsPermutation ==
    ASSUME NEW kind \in Kinds
    PROVE  /\ \A i \in 1 .. 8 : Order(kind)[i] \in Fields
           /\ \A i, j \in 1 .. 8 : Order(kind)[i] = Order(kind)[j] => i = j
<1>1. \A i \in 1 .. 8 : i = 1 \/ i = 2 \/ i = 3 \/ i = 4 \/ i = 5 \/ i = 6 \/ i = 7 \/ i = 8
  BY SMT
<1>2. CASE kind = "Default"
  BY <1>1, <1>2, SMTT(30) DEF Order, Fields
<1>3. CASE kind = "RoBaRaCoCh"
  BY <1>1, <1>3, SMTT(30) DEF Order, Fields
<1>4. CASE kind = "ChRaBaRoCo"
  BY <1>1, <1>4, SMTT(30) DEF Order, Fields
<1>5. CASE kind = "RoCoRaBaCh"
  BY <1>1, <1>5, SMTT(30) DEF Order, Fields
<1> QED BY <1>2, <1>3, <1>4, <1>5 DEF Kinds

\* The radices of a mapping are those of the organization in another order.
LEMMA RadixOfOrganization ==
    ASSUME NEW org \in [Fields -> Positive], NEW kind \in Kinds
    PROVE  /\ Radix(org, kind) \in [1 .. 8 -> Positive]
           /\ Products(Radix(org, kind))[1] = Transactions(org)
<1> DEFINE n == Radix(org, kind)
<1>1. n \in [1 .. 8 -> Positive]
  BY OrderIsPermutation DEF Radix
<1>2. \A i \in 1 .. 8 : n[i] = org[Order(kind)[i]]
  BY DEF Radix
<1>3. Products(n)[1] = n[1] * (n[2] * (n[3] * (n[4] * (n[5] * (n[6] * (n[7] * n[8]))))))
  BY DEF Products
<1> HIDE DEF n
<1> SUFFICES Products(n)[1] = Transactions(org)
  BY <1>1 DEF n
<1>4. \A f \in Fields : org[f] \in Int
  BY SMT DEF Positive
<1>5. /\ org["channel"] \in Int /\ org["pseudo_channel"] \in Int /\ org["sid"] \in Int /\ org["rank"] \in Int
      /\ org["bank_group"] \in Int /\ org["bank"] \in Int /\ org["row"] \in Int /\ org["column"] \in Int
  BY <1>4, Zenon DEF Fields
<1>6. CASE kind = "Default"
  <2>1. /\ n[1] = org["column"] /\ n[2] = org["bank"] /\ n[3] = org["bank_group"] /\ n[4] = org["pseudo_channel"]
        /\ n[5] = org["sid"] /\ n[6] = org["rank"] /\ n[7] = org["channel"] /\ n[8] = org["row"]
    BY <1>2, <1>6, SMT DEF Order
  <2> QED BY <1>3, <1>5, <2>1, SMT DEF Transactions
<1>7. CASE kind = "RoBaRaCoCh"
  <2>1. /\ n[1] = org["channel"] /\ n[2] = org["column"] /\ n[3] = org["rank"] /\ n[4] = org["bank"]
        /\ n[5] = org["bank_group"] /\ n[6] = org["pseudo_channel"] /\ n[7] = org["sid"] /\ n[8] = org["row"]
    BY <1>2, <1>7, SMT DEF Order
  <2> QED BY <1>3, <1>5, <2>1, SMT DEF Transactions
<1>8. CASE kind = "ChRaBaRoCo"
  <2>1. /\ n[1] = org["column"] /\ n[2] = org["row"] /\ n[3] = org["bank"] /\ n[4] = org["bank_group"]
        /\ n[5] = org["pseudo_channel"] /\ n[6] = org["sid"] /\ n[7] = org["rank"] /\ n[8] = org["channel"]
    BY <1>2, <1>8, SMT DEF Order
  <2> QED BY <1>3, <1>5, <2>1, SMT DEF Transactions
<1>9. CASE kind = "RoCoRaBaCh"
  <2>1. /\ n[1] = org["channel"] /\ n[2] = org["bank"] /\ n[3] = org["bank_group"] /\ n[4] = org["pseudo_channel"]
        /\ n[5] = org["sid"] /\ n[6] = org["rank"] /\ n[7] = org["column"] /\ n[8] = org["row"]
    BY <1>2, <1>9, SMT DEF Order
  <2> QED BY <1>3, <1>5, <2>1, SMT DEF Transactions
<1> QED BY <1>6, <1>7, <1>8, <1>9 DEF Kinds

\* AddressMapper::decode gives two addresses of the DRAM different
\* coordinates, for every organization and each of the four mappings (not in
\* the efficiency modes of LPDDR, where both sub-channels get the coordinates
\* of the primary one).
THEOREM DecodeInjective ==
    ASSUME NEW org \in [Fields -> Positive], NEW kind \in Kinds,
           NEW a \in 0 .. (Transactions(org) - 1), NEW b \in 0 .. (Transactions(org) - 1),
           Decode(org, kind, FALSE, a) = Decode(org, kind, FALSE, b)
    PROVE  a = b
<1> DEFINE n == Radix(org, kind)
<1>1. n \in [1 .. 8 -> Positive] /\ Products(n)[1] = Transactions(org)
  BY RadixOfOrganization
<1>2. Transactions(org) \in Int /\ a \in Nat /\ b \in Nat /\ a < Transactions(org) /\ b < Transactions(org)
  <2>1. Products(n)[1] \in Positive
    BY <1>1, ProductsStep
  <2> QED BY <1>1, <2>1, SMT DEF Positive
<1>3. ASSUME NEW i \in 1 .. 8
      PROVE  Digits(n, a)[i] = Digits(n, b)[i]
  <2> DEFINE f == Order(kind)[i]
  <2>1. f \in Fields /\ (CHOOSE k \in 1 .. 8 : Order(kind)[k] = f) = i
    BY OrderIsPermutation
  <2>2. /\ Decode(org, kind, FALSE, a)[f] = Digits(n, a)[i]
        /\ Decode(org, kind, FALSE, b)[f] = Digits(n, b)[i]
    BY <2>1, Zenon DEF Decode
  <2> QED BY <2>2
<1>4. Digits(n, a) = Digits(n, b)
  BY <1>3, Zenon DEF Digits
<1> QED BY <1>1, <1>2, <1>4, DigitsInjective

\* A digit and a quotient are taken apart again.
LEMMA DivModOfSum ==
    ASSUME NEW n \in Positive, NEW q \in Nat, NEW r \in 0 .. (n - 1)
    PROVE  (q * n + r) \div n = q /\ (q * n + r) % n = r
<1>1. q * n \in Nat /\ r \in Nat /\ q * n + r \in Nat
  BY SMT DEF Positive
<1>2. PICK k \in Nat, d \in 0 .. (n - 1) :
          k = (q * n + r) \div n /\ d = (q * n + r) % n /\ q * n + r = n * k + d
  BY <1>1, DivMod, Zenon
<1>3. k <= q
  <2>1. SUFFICES ASSUME k >= q + 1 PROVE FALSE
    BY SMT
  <2>2. n * k = n * q + n + n * (k - q - 1) /\ n * (k - q - 1) >= 0 /\ n * k \in Int /\ n * (k - q - 1) \in Int
    BY <2>1, SMT DEF Positive
  <2>3. n * q = q * n
    BY SMT DEF Positive
  <2> QED BY <1>1, <1>2, <2>2, <2>3, SMT DEF Positive
<1>4. q <= k
  <2>1. SUFFICES ASSUME q >= k + 1 PROVE FALSE
    BY SMT
  <2>2. n * q = n * k + n + n * (q - k - 1) /\ n * (q - k - 1) >= 0 /\ n * k \in Int /\ n * (q - k - 1) \in Int
    BY <2>1, SMT DEF Positive
  <2>3. n * q = q * n
    BY SMT DEF Positive
  <2> QED BY <1>1, <1>2, <2>2, <2>3, SMT DEF Positive
<1>5. k = q
  BY <1>3, <1>4, SMT
<1>6. d = r
  <2>1. n * k = q * n
    BY <1>5, SMT DEF Positive
  <2> QED BY <1>1, <1>2, <2>1, SMT DEF Positive
<1> QED BY <1>2, <1>5, <1>6

\* StackAddressMapper: encode gives the system address that decode was given,
\* with any number of stacks, in blocks or in stripes.  Two addresses
\* therefore never share a place of a stack.
THEOREM StackRoundTrip ==
    ASSUME NEW count \in Positive, NEW stripe \in Positive, NEW capacity \in Positive,
           NEW blocked \in BOOLEAN, NEW a \in Nat
    PROVE  StackEncode(count, stripe, capacity, blocked, StackDecode(count, stripe, capacity, blocked, a)) = a
<1>1. CASE count = 1
  BY <1>1 DEF StackDecode, StackEncode
<1>2. CASE count # 1 /\ blocked
  <2>1. PICK q \in Nat, r \in Nat : q = a \div capacity /\ r = a % capacity /\ a = capacity * q + r
    <3>1. a \div capacity \in Nat /\ a % capacity \in Nat /\ a = capacity * (a \div capacity) + (a % capacity)
      BY DivMod, SMT
    <3> QED BY <3>1, Zenon
  <2>2. StackDecode(count, stripe, capacity, blocked, a) = [stack |-> q, local |-> r]
    BY <1>2, <2>1 DEF StackDecode
  <2>3. q * capacity = capacity * q
    BY SMT DEF Positive
  <2>4. StackEncode(count, stripe, capacity, blocked, [stack |-> q, local |-> r]) = q * capacity + r
    BY <1>2 DEF StackEncode
  <2> QED BY <2>1, <2>2, <2>3, <2>4
<1>3. CASE count # 1 /\ ~blocked
  <2>1. PICK q \in Nat, o \in 0 .. (stripe - 1) :
            q = a \div stripe /\ o = a % stripe /\ a = stripe * q + o
    BY DivMod, Zenon
  <2>2. PICK l \in Nat, s \in 0 .. (count - 1) :
            l = q \div count /\ s = q % count /\ q = count * l + s
    BY DivMod, Zenon
  <2>3. StackDecode(count, stripe, capacity, blocked, a) = [stack |-> s, local |-> l * stripe + o]
    BY <1>3, <2>1, <2>2, Zenon DEF StackDecode
  <2>4. (l * stripe + o) \div stripe = l /\ (l * stripe + o) % stripe = o
    BY DivModOfSum
  <2>5. StackEncode(count, stripe, capacity, blocked, [stack |-> s, local |-> l * stripe + o])
            = (l * count + s) * stripe + o
    BY <1>3, <2>4, Zenon DEF StackEncode
  <2>6. (l * count + s) * stripe + o = a
    <3>1. l * count + s = q
      BY <2>2, SMT DEF Positive
    <3>2. q * stripe = stripe * q
      BY SMT DEF Positive
    <3> QED BY <2>1, <3>1, <3>2
  <2> QED BY <2>3, <2>5, <2>6
<1> QED BY <1>1, <1>2, <1>3
=============================================================================
