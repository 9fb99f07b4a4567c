---------------------------- MODULE ContentLayout ----------------------------
(***************************************************************************)
(* The two layouts of w9pt-fs-storage (layout/raw.rs, layout/block_split.rs *)
(* and layout/block_map.rs) and the repository operations that choose       *)
(* between them.  A preparation is a function of the immutable objects, the *)
(* base content and the operation.  It yields the objects to store, in the  *)
(* order the code stores them: payloads, then map pages bottom-up, then the *)
(* manifest.  The code runs each block-split preparation twice, without and *)
(* with storing; both passes read the same immutable objects and are one    *)
(* evaluation here.                                                         *)
(*                                                                          *)
(* `r' is the repository as an operation sees it: the stored objects and    *)
(* the file's context.  `prep' is the preparation's identity and attempt.   *)
(***************************************************************************)
EXTENDS ContentObjects

\* The greatest logical offset: the map's radix domain covers all of them.
MaxOffset == BLOCK_SIZE * BlockDomain - 1

LogicalRange(offset, length) == [start |-> offset, end |-> offset + length]
RangeFits(offset, length) == offset + length <= MaxOffset
is_empty(range) == range.start = range.end

clamp_to_eof(range, size) ==
  IF range.start >= size THEN [range EXCEPT !.end = range.start]
  ELSE [range EXCEPT !.end = Min({@, size})]

\* The blocks a range touches, and whether it covers one entirely.
BlockSpans(range) ==
  IF is_empty(range) THEN {} ELSE (range.start \div BLOCK_SIZE)..((range.end - 1) \div BLOCK_SIZE)

is_full_block(range, index) ==
  range.start <= index * BLOCK_SIZE /\ range.end >= (index + 1) * BLOCK_SIZE

\* A block with the bytes of `data' that the range puts into it.
Overlay(block, range, data, index) ==
  [b \in 1..BLOCK_SIZE |->
     LET at == index * BLOCK_SIZE + b - 1 IN
     IF at >= range.start /\ at < range.end THEN data[at - range.start + 1] ELSE block[b]]

resize(data, n) == [i \in 1..n |-> IF i <= Len(data) THEN data[i] ELSE 0]

copy_from_slice(data, range, input) ==
  [i \in DOMAIN data |-> IF i > range.start /\ i <= range.end THEN input[i - range.start]
                         ELSE data[i]]

Prepared(content, changed, prep, puts) ==
  [err |-> "", content |-> content, changed |-> changed, prep |-> prep, puts |-> puts]

PrepareError(err) == [err |-> err]

Unchanged(content, prep) == Prepared(content, FALSE, prep, <<>>)

\* prepare_manifest after the objects it refers to.  encode_manifest refuses
\* a manifest that is not valid before anything is stored.
WithManifest(r, prep, m, puts) ==
  LET manifest == prepare_manifest(r.context, m, prep.identity, prep.attempt) IN
  IF ~validate_manifest(m) THEN PrepareError("format")
  ELSE Prepared(manifest.ref, TRUE, prep, Append(puts, manifest.put))

----------------------------------------------------------------------------
(* Raw layout: the whole file is one payload.                               *)

RawBlob(r, prep, data) ==
  expected_payload(r.context, ObjectProvenance("raw", prep.identity, prep.attempt, <<>>), data)

StoreRaw(r, prep, generation, data) ==
  IF data = <<>>
  THEN WithManifest(r, prep, FileManifest(r.context.file, generation, 0, Raw, None), <<>>)
  ELSE LET blob == RawBlob(r, prep, data) IN
       WithManifest(r, prep,
         FileManifest(r.context.file, generation, Len(data), Raw, blob.ref), <<blob.put>>)

load_all(r, m) ==
  IF m.size > Limits.raw THEN None
  ELSE IF m.layout = None THEN IF m.size = 0 THEN [data |-> <<>>] ELSE None
  ELSE LET loaded == load_payload(r.objects, r.context, m.layout) IN
       IF loaded # None /\ Len(loaded.data) = m.size THEN loaded ELSE None

create_raw(r, prep, data) ==
  IF Len(data) > Limits.raw THEN PrepareError("limit") ELSE StoreRaw(r, prep, 1, data)

read_raw(r, m, offset, length) ==
  LET range == clamp_to_eof(LogicalRange(offset, length), m.size)
      loaded == load_all(r, m)
  IN IF is_empty(range) THEN [data |-> <<>>]
     ELSE IF loaded = None THEN None
     ELSE [data |-> SubSeq(loaded.data, range.start + 1, range.end)]

write_raw(r, prep, content, m, offset, data) ==
  LET range == LogicalRange(offset, Len(data))
      size == Max({m.size, range.end})
      old == load_all(r, m)
      result == copy_from_slice(resize(old.data, size), range, data)
  IN IF data = <<>> THEN Unchanged(content, prep)
     ELSE IF size > Limits.raw THEN PrepareError("limit")
     ELSE IF old = None THEN PrepareError("corruption")
     ELSE IF result = old.data THEN Unchanged(content, prep)
     ELSE StoreRaw(r, prep, m.generation + 1, result)

write_from_new_raw(r, prep, offset, data) ==
  LET range == LogicalRange(offset, Len(data))
      size == IF data = <<>> THEN 0 ELSE range.end
  IN IF size > Limits.raw THEN PrepareError("limit")
     ELSE StoreRaw(r, prep, 1, copy_from_slice(Zeros(size), range, data))

truncate_raw(r, prep, content, m, size) ==
  LET old == load_all(r, m) IN
  IF size > Limits.raw THEN PrepareError("limit")
  ELSE IF size = m.size THEN Unchanged(content, prep)
  ELSE IF old = None THEN PrepareError("corruption")
  ELSE StoreRaw(r, prep, m.generation + 1, resize(old.data, size))

truncate_from_new_raw(r, prep, size) ==
  IF size > Limits.raw THEN PrepareError("limit") ELSE StoreRaw(r, prep, 1, Zeros(size))

----------------------------------------------------------------------------
(* Block map: lookups and rewrites.  Every result carries `loads', the page *)
(* references it loaded: a page that does not load makes the operation fail *)
(* and each load is charged to the map budget.                              *)

PageAt(r, ref) == load_map_page(r.objects, r.context, r.context.file, ref)
Unloadable(r, refs) == \E ref \in refs : PageAt(r, ref) = None

RECURSIVE lookup(_, _, _)

LookupIn(r, ref, index, page) ==
  LET slot == page_slot(ref.level, ref.first, index) IN
  IF page = None THEN [blob |-> None, loads |-> {ref}]
  ELSE IF slot \notin DOMAIN page.entries THEN [blob |-> None, loads |-> {ref}]
  ELSE IF page.level = 0 THEN [blob |-> page.entries[slot], loads |-> {ref}]
  ELSE [lookup(r, page.entries[slot], index) EXCEPT !.loads = @ \cup {ref}]

lookup(r, ref, index) ==
  IF ref = None THEN [blob |-> None, loads |-> {}]
  ELSE IF ~covers(ref, index) THEN [blob |-> None, loads |-> {}]
  ELSE LookupIn(r, ref, index, PageAt(r, ref))

\* Number and greatest of the blocks below a cutoff, -1 when there is none.
RECURSIVE retained_summary(_, _, _)

NothingRetained(loads) == [count |-> 0, highest |-> -1, loads |-> loads]

\* The summary of a branch from those of its slots.
RetainedBelow(ref, below) ==
  [count |-> MapThenSumSet(LAMBDA s : below[s].count, DOMAIN below),
   highest |-> Max({-1} \cup {below[s].highest : s \in DOMAIN below}),
   loads |-> {ref} \cup UNION {below[s].loads : s \in DOMAIN below}]

RetainedIn(r, ref, cutoff, page) ==
  IF page = None THEN NothingRetained({ref})
  ELSE IF page.level = 0
  THEN LET kept == {s \in DOMAIN page.entries : page.first + s < cutoff} IN
       [count |-> Cardinality(kept),
        highest |-> Max({-1} \cup {page.first + s : s \in kept}), loads |-> {ref}]
  ELSE RetainedBelow(ref, [s \in DOMAIN page.entries |->
                             retained_summary(r, page.entries[s], cutoff)])

retained_summary(r, ref, cutoff) ==
  IF ref = None THEN NothingRetained({})
  ELSE IF ref.first >= cutoff THEN NothingRetained({})
  ELSE IF ref.first + page_coverage(ref.level) <= cutoff
  THEN [count |-> ref.count, highest |-> ref.highest, loads |-> {}]
  ELSE RetainedIn(r, ref, cutoff, PageAt(r, ref))

\* The greatest block no update replaces, -1 when there is none.  Children are
\* visited from the last to the first that has such a block.
RECURSIVE highest_old_excluding(_, _, _)
highest_old_excluding(r, ref, updated) ==
  IF ref = None THEN [highest |-> -1, loads |-> {}]
  ELSE IF \A i \in updated : ~covers(ref, i) THEN [highest |-> ref.highest, loads |-> {}]
  ELSE LET page == PageAt(r, ref) IN
       IF page = None THEN [highest |-> -1, loads |-> {ref}]
       ELSE IF page.level = 0
       THEN [highest |-> Max({-1} \cup ({page.first + s : s \in DOMAIN page.entries} \ updated)),
             loads |-> {ref}]
       ELSE LET child == [s \in DOMAIN page.entries |->
                            highest_old_excluding(r, page.entries[s], updated)]
                found == Max({-1} \cup {s \in DOMAIN child : child[s].highest # -1})
            IN [highest |-> IF found = -1 THEN -1 ELSE child[found].highest,
                loads |-> {ref} \cup UNION {child[s].loads : s \in {t \in DOMAIN child : t >= found}}]

\* The part of the old tree that a lower root can keep: its first subtree.
RECURSIVE root_at_level(_, _, _)
root_at_level(r, ref, level) ==
  IF ref = None THEN [ref |-> None, loads |-> {}]
  ELSE IF ref.level <= level THEN [ref |-> ref, loads |-> {}]
  ELSE LET page == PageAt(r, ref) IN
       IF page = None THEN [ref |-> None, loads |-> {ref}]
       ELSE IF 0 \notin DOMAIN page.entries THEN [ref |-> None, loads |-> {ref}]
       ELSE [root_at_level(r, page.entries[0], level) EXCEPT !.loads = @ \cup {ref}]

Rewritten(ref, puts, loads) == [ref |-> ref, puts |-> puts, loads |-> loads]

\* The slots of a rewritten leaf: what the cutoff keeps, with the updates.
LeafEntries(first, held, updates, cutoff) ==
  LET slots == 0..(FANOUT - 1)
      kept(s) == IF first + s \in DOMAIN updates THEN updates[first + s]
                 ELSE IF s \in DOMAIN held /\ first + s < cutoff THEN held[s] ELSE None
  IN [s \in {t \in slots : kept(t) # None} |-> kept(s)]

\* What the page of a level and first block held: the slots of the old page
\* there, or an older root of a lower level as its first child.
HeldSlots(level, old, same, old_page) ==
  IF old_page # None THEN old_page.entries
  ELSE IF old # None /\ ~same /\ old.level < level THEN 0 :> old
  ELSE <<>>

\* The page that comes of its slots: none when they are empty, the old one
\* when it is unchanged, else a new one after the pages below it.
RewrittenPage(r, prep, page, old, old_page, puts, loads) ==
  LET stored == expected_map_page(r.context, page, prep.identity, prep.attempt) IN
  IF DOMAIN page.entries = {} THEN Rewritten(None, puts, loads)
  ELSE IF old_page = page THEN Rewritten(old, puts, loads)
  ELSE Rewritten(stored.ref, Append(puts, stored.put), loads)

\* A branch over its rewritten children.
RewrittenBranch(r, prep, level, first, old, old_page, below, loads) ==
  RewrittenPage(r, prep,
    BlockMapPage(r.context.file, level, first,
      [s \in {t \in DOMAIN below : below[t].ref # None} |-> below[s].ref]),
    old, old_page, FlattenSeq([i \in 1..FANOUT |-> below[i - 1].puts]),
    loads \cup UNION {below[s].loads : s \in DOMAIN below})

\* Whether a child, None when there is none, has to be rewritten.
ChildAffected(level, first, child, updates, cutoff) ==
  \/ \E i \in DOMAIN updates : page_contains(level, first, i)
  \/ cutoff > first /\ cutoff < first + page_coverage(level)
  \/ child # None /\ child.level # level

\* The page of the given level and first block after the updates, without the
\* blocks from the cutoff on.  Subtrees neither touches are reused.
RECURSIVE rewrite_node(_, _, _, _, _, _, _)

RewriteChild(r, prep, level, first, child, updates, cutoff) ==
  IF first >= cutoff THEN Rewritten(None, <<>>, {})
  ELSE IF ~ChildAffected(level, first, child, updates, cutoff) THEN Rewritten(child, <<>>, {})
  ELSE rewrite_node(r, prep, level, first, child, updates, cutoff)

RewriteSlots(r, prep, level, first, old, old_page, held, loads, updates, cutoff) ==
  IF level = 0
  THEN RewrittenPage(r, prep,
         BlockMapPage(r.context.file, 0, first, LeafEntries(first, held, updates, cutoff)),
         old, old_page, <<>>, loads)
  ELSE RewrittenBranch(r, prep, level, first, old, old_page,
         [s \in 0..(FANOUT - 1) |->
            RewriteChild(r, prep, level - 1, first + s * page_coverage(level - 1),
                         IF s \in DOMAIN held THEN held[s] ELSE None, updates, cutoff)], loads)

RewriteHeld(r, prep, level, first, old, same, old_page, updates, cutoff) ==
  RewriteSlots(r, prep, level, first, old, old_page, HeldSlots(level, old, same, old_page),
               IF same THEN {old} ELSE {}, updates, cutoff)

rewrite_node(r, prep, level, first, old, updates, cutoff) ==
  LET end == first + page_coverage(level)
      touched == \E i \in DOMAIN updates : i >= first /\ i < end
      same == old # None /\ old.level = level /\ old.first = first
  IN IF first >= cutoff THEN Rewritten(None, <<>>, {})
     ELSE IF ~touched /\ end <= cutoff /\ (same \/ old = None) THEN Rewritten(old, <<>>, {})
     ELSE RewriteHeld(r, prep, level, first, old, same, IF same THEN PageAt(r, old) ELSE None,
                      updates, cutoff)

rewrite_tree(r, prep, root, updates, cutoff, level) ==
  LET old == root_at_level(r, root, level)
  IN [rewrite_node(r, prep, level, 0, old.ref, updates, cutoff) EXCEPT !.loads = @ \cup old.loads]

\* Each pass over the map charges the pages it loads.
PageReads(loads) == FoldLeft(LAMBDA n, refs : n + Cardinality(refs), 0, loads)

\* The preflight charges what the preparation reads and writes, then reserves
\* the replay: the same reads and writes again and one reconciling read for
\* each page written.
MapBudgetHolds(reads, writes) ==
  2 * reads + writes <= Limits.page_reads /\ 2 * writes <= Limits.page_writes

----------------------------------------------------------------------------
(* Block-split layout.                                                      *)

NoCutoff == BlockDomain

validate_final_padding(m, index, block) ==
  (m.size % BLOCK_SIZE # 0 /\ index = m.size \div BLOCK_SIZE) =>
    \A b \in (m.size % BLOCK_SIZE) + 1..BLOCK_SIZE : block[b] = 0

\* A block as it is loaded to be read or partly overwritten; None on an error.
LoadBlock(r, m, index, blob) ==
  LET loaded == load_payload(r.objects, r.context, blob) IN
  IF loaded = None THEN None
  ELSE IF Len(loaded.data) = BLOCK_SIZE /\ validate_final_padding(m, index, loaded.data)
  THEN loaded ELSE None

BlockBlob(r, prep, index, block) ==
  expected_payload(r.context, ObjectProvenance("block", prep.identity, prep.attempt, <<index>>),
                   block)

\* What a changed block is replaced by: nothing when it is all zeros, the old
\* payload when it has the same bytes, else a new payload.
Replacement(r, prep, index, old, block) ==
  IF block = Zeros(BLOCK_SIZE) THEN None
  ELSE IF old # None /\ old.digest = Digest(block) THEN old
  ELSE BlockBlob(r, prep, index, block).ref

\* The plan of one pass over the blocks: the blocks to replace, the payloads
\* to store, the resulting summary, and whether everything loaded.
BlockPlan(updates, puts, count, highest, loads, sound) ==
  [updates |-> updates, puts |-> puts, count |-> count, highest |-> highest,
   loads |-> loads, sound |-> sound]

RootCount(root) == IF root = None THEN 0 ELSE root.count

\* A write past a partial last block it does not touch checks that block.
distant_partial_tail(m, range) ==
  LET final == m.size \div BLOCK_SIZE IN
  IF /\ range.end > m.size /\ m.size % BLOCK_SIZE # 0
     /\ final \notin BlockSpans(range)
  THEN {final} ELSE {}

\* The plan of a write from what each block it spans is replaced by.
WritePlan(r, prep, m, found, loaded, block, replacement) ==
  LET changed == {i \in DOMAIN block : replacement[i] # found[i].blob}
      kept == highest_old_excluding(r, m.layout, changed)
      added == {i \in changed : found[i].blob = None}
      removed == {i \in changed : replacement[i] = None}
      written == {i \in changed : replacement[i] # None}
  IN BlockPlan([i \in changed |-> replacement[i]],
       [k \in 1..Cardinality(written) |->
          LET i == SetToSortSeq(written, <)[k] IN BlockBlob(r, prep, i, block[i]).put],
       RootCount(m.layout) + Cardinality(added) - Cardinality(removed),
       Max({kept.highest} \cup written),
       <<UNION {found[i].loads : i \in DOMAIN found}, kept.loads>>,
       \A i \in DOMAIN loaded : loaded[i] # None)

PlanBlocks(r, prep, m, found, loaded, block) ==
  WritePlan(r, prep, m, found, loaded, block,
            [i \in DOMAIN block |-> Replacement(r, prep, i, found[i].blob, block[i])])

PlanLoaded(r, prep, m, range, data, found, loaded) ==
  LET before(i) == IF i \notin DOMAIN loaded THEN Zeros(BLOCK_SIZE)
                   ELSE IF loaded[i] = None THEN Zeros(BLOCK_SIZE) ELSE loaded[i].data
  IN PlanBlocks(r, prep, m, found, loaded,
                [i \in BlockSpans(range) |-> Overlay(before(i), range, data, i)])

PlanFound(r, prep, m, range, data, found) ==
  PlanLoaded(r, prep, m, range, data, found,
    [i \in {j \in DOMAIN found : found[j].blob # None /\ ~is_full_block(range, j)} |->
       LoadBlock(r, m, i, found[i].blob)])

plan_write_pass(r, prep, m, range, data) ==
  PlanFound(r, prep, m, range, data,
    [i \in BlockSpans(range) \cup distant_partial_tail(m, range) |-> lookup(r, m.layout, i)])

\* Shrinking zero-fills the bytes past the new end of the last block kept.
TailLeft(block, tail) == block
ZeroedTail(block, tail) == [b \in 1..BLOCK_SIZE |-> IF b <= tail THEN block[b] ELSE 0]

\* The plan of a truncation that shrinks the file to `last' and a part of it.
ShrinkPlan(r, prep, m, last, kept, found, block, replacement, sound) ==
  LET emptied == retained_summary(r, m.layout, last)
      loads == <<kept.loads, found.loads>>
  IN IF found.blob = None \/ replacement = found.blob
     THEN BlockPlan(<<>>, <<>>, kept.count, kept.highest, loads, sound)
     ELSE IF replacement = None
     THEN BlockPlan(last :> None, <<>>, kept.count - 1, emptied.highest,
            Append(loads, emptied.loads), sound)
     ELSE BlockPlan(last :> replacement, <<BlockBlob(r, prep, last, block).put>>,
            kept.count, kept.highest, loads, sound)

ShrinkTo(r, prep, m, size, found, block, sound) ==
  LET last == size \div BLOCK_SIZE IN
  ShrinkPlan(r, prep, m, last, retained_summary(r, m.layout, visible_blocks(size)), found, block,
             Replacement(r, prep, last, found.blob, block), sound)

\* The plan once the last block, None when there is nothing to load, is loaded.
TruncatePlan(r, prep, m, size, found, loaded) ==
  LET sound == found.blob = None \/ loaded # None IN
  IF size > m.size
  THEN BlockPlan(<<>>, <<>>, RootCount(m.layout),
         IF m.layout = None THEN -1 ELSE m.layout.highest, <<found.loads>>, sound)
  ELSE ShrinkTo(r, prep, m, size, found,
         IF loaded = None THEN Zeros(BLOCK_SIZE) ELSE ZeroedTail(loaded.data, size % BLOCK_SIZE),
         sound)

TruncateFound(r, prep, m, size, last, found) ==
  TruncatePlan(r, prep, m, size, found,
               IF found.blob = None THEN None ELSE LoadBlock(r, m, last, found.blob))

\* The block in which the shorter of the old and the new size ends.
plan_truncate_pass(r, prep, m, size) ==
  LET end == Min({size, m.size})
      last == end \div BLOCK_SIZE
  IN TruncateFound(r, prep, m, size, last,
       IF end % BLOCK_SIZE # 0 THEN lookup(r, m.layout, last) ELSE [blob |-> None, loads |-> {}])

validate_root_summary(root, plan) ==
  IF root = None THEN plan.highest = -1 /\ plan.count = 0
  ELSE root.count = plan.count /\ root.highest = plan.highest

\* The checks of a rewritten tree, and its manifest.
FinishTree(r, prep, generation, size, plan, tree) ==
  LET loads == Append(plan.loads, tree.loads)
  IN IF ~plan.sound \/ Unloadable(r, UNION Range(loads)) THEN PrepareError("corruption")
     ELSE IF plan.count > Limits.materialized THEN PrepareError("limit")
     ELSE IF ~validate_root_summary(tree.ref, plan) THEN PrepareError("corruption")
     ELSE IF ~MapBudgetHolds(PageReads(loads), Len(tree.puts)) THEN PrepareError("limit")
     ELSE WithManifest(r, prep, FileManifest(r.context.file, generation, size, BlockSplit, tree.ref),
                       plan.puts \o tree.puts)

\* The tree of a plan.  `keeps' is a truncation that grows the file and keeps
\* the root as it is.
FinishBlocks(r, prep, m, generation, size, plan, cutoff, keeps) ==
  FinishTree(r, prep, generation, size, plan,
    IF keeps THEN Rewritten(m.layout, <<>>, {})
    ELSE IF plan.highest = -1 THEN Rewritten(None, <<>>, {})
    ELSE rewrite_tree(r, prep, m.layout, plan.updates, cutoff, minimum_root_level(plan.highest)))

\* The bytes of a range from the blocks that were found and loaded.
ReadLoaded(r, range, found, loaded) ==
  LET loads == UNION {found[i].loads : i \in DOMAIN found}
      byte(at) == LET i == at \div BLOCK_SIZE IN
                  IF i \in DOMAIN loaded THEN loaded[i].data[(at % BLOCK_SIZE) + 1] ELSE 0
  IN IF \/ Unloadable(r, loads) \/ Cardinality(loads) > Limits.page_reads
        \/ \E i \in DOMAIN loaded : loaded[i] = None
     THEN None
     ELSE [data |-> [k \in 1..(range.end - range.start) |-> byte(range.start + k - 1)]]

ReadFound(r, m, range, found) ==
  ReadLoaded(r, range, found,
    [i \in {j \in DOMAIN found : found[j].blob # None} |-> LoadBlock(r, m, i, found[i].blob)])

read_block_split(r, m, offset, length) ==
  LET range == clamp_to_eof(LogicalRange(offset, length), m.size) IN
  ReadFound(r, m, range, [i \in BlockSpans(range) |-> lookup(r, m.layout, i)])

\* A plan that replaces nothing within the file leaves the content as it is.
FinishWrite(r, prep, content, m, range, plan) ==
  IF /\ DOMAIN plan.updates = {} /\ range.end <= m.size
     /\ plan.sound /\ ~Unloadable(r, UNION Range(plan.loads))
     /\ PageReads(plan.loads) <= Limits.page_reads
  THEN Unchanged(content, prep)
  ELSE FinishBlocks(r, prep, m, m.generation + 1, Max({m.size, range.end}), plan, NoCutoff, FALSE)

write_block_split(r, prep, content, m, offset, data) ==
  LET range == LogicalRange(offset, Len(data)) IN
  IF data = <<>> THEN Unchanged(content, prep)
  ELSE FinishWrite(r, prep, content, m, range, plan_write_pass(r, prep, m, range, data))

prepare_new_write(r, prep, offset, data) ==
  LET range == LogicalRange(offset, Len(data))
      empty == FileManifest(r.context.file, 1, 0, BlockSplit, None)
  IN FinishBlocks(r, prep, empty, 1, IF data = <<>> THEN 0 ELSE range.end,
                  plan_write_pass(r, prep, empty, range, data), NoCutoff, FALSE)

truncate_block_split(r, prep, content, m, size) ==
  IF size = m.size THEN Unchanged(content, prep)
  ELSE FinishBlocks(r, prep, m, m.generation + 1, size, plan_truncate_pass(r, prep, m, size),
                    visible_blocks(size), size > m.size)

truncate_from_new_block_split(r, prep, size) ==
  WithManifest(r, prep, FileManifest(r.context.file, 1, size, BlockSplit, None), <<>>)

----------------------------------------------------------------------------
(* Repository operations: limits, the checked base manifest, the layout.    *)

Preparation(identity, attempt) == [identity |-> identity, attempt |-> attempt]

prepare_create(r, mutation, attempt, data) ==
  LET method == r.context.policy.method
      prep == Preparation(for_create(mutation, method, data), attempt) IN
  IF Len(data) > Limits.write THEN PrepareError("limit")
  ELSE IF method = Raw THEN create_raw(r, prep, data) ELSE prepare_new_write(r, prep, 0, data)

prepare_write(r, content, mutation, attempt, offset, data) ==
  LET m == load_manifest(r.objects, r.context, content)
      prep == Preparation(for_write(mutation, content, offset, data), attempt)
  IN IF Len(data) > Limits.write THEN PrepareError("limit")
     ELSE IF ~RangeFits(offset, Len(data)) THEN PrepareError("range")
     ELSE IF m = None THEN PrepareError("corruption")
     ELSE IF m.method = Raw THEN write_raw(r, prep, content, m, offset, data)
     ELSE write_block_split(r, prep, content, m, offset, data)

prepare_write_from_new(r, mutation, attempt, offset, data) ==
  LET method == r.context.policy.method
      prep == Preparation(for_write_from_new(mutation, method, offset, data), attempt)
  IN IF Len(data) > Limits.write THEN PrepareError("limit")
     ELSE IF ~RangeFits(offset, Len(data)) THEN PrepareError("range")
     ELSE IF method = Raw THEN write_from_new_raw(r, prep, offset, data)
     ELSE prepare_new_write(r, prep, offset, data)

prepare_truncate(r, content, mutation, attempt, size) ==
  LET m == load_manifest(r.objects, r.context, content)
      prep == Preparation(for_truncate(mutation, content, size), attempt)
  IN IF m = None THEN PrepareError("corruption")
     ELSE IF m.method = Raw THEN truncate_raw(r, prep, content, m, size)
     ELSE truncate_block_split(r, prep, content, m, size)

prepare_truncate_from_new(r, mutation, attempt, size) ==
  LET method == r.context.policy.method
      prep == Preparation(for_truncate_from_new(mutation, method, size), attempt)
  IN IF method = Raw THEN truncate_from_new_raw(r, prep, size)
     ELSE truncate_from_new_block_split(r, prep, size)

read(r, content, offset, length) ==
  LET m == load_manifest(r.objects, r.context, content) IN
  IF length > Limits.read \/ m = None \/ ~RangeFits(offset, length) THEN None
  ELSE IF m.method = Raw THEN read_raw(r, m, offset, length)
  ELSE read_block_split(r, m, offset, length)
=============================================================================
