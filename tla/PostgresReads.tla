---------------------------- MODULE PostgresReads ----------------------------
(***************************************************************************)
(* How the PostgreSQL authority answers the queries of Reads               *)
(* (w9pt-fs-state-postgres/src/read.rs): one statement per scan, which     *)
(* limits the rows it returns by count and by the size of the rows before  *)
(* them, and a plan that cuts the page and checks every row against the    *)
(* record it stands for.  rows are the tables the statements read.         *)
(***************************************************************************)
EXTENDS Reads

\* One row of one table, decoded.
fetch_record(rows, key) == RecordAt(rows, key)

\* The scan statements of the eleven families have one shape.  The sizes
\* they compute, column by column:
sql_retained_bytes(key, rec) ==
    CASE key[1] = "Inode" -> 320 + Len(rec.owner) + Len(rec.group)
      [] key[1] = "ContentMetadata" -> 160
      [] key[1] = "DirectoryEntry" -> 160 + 2 * Len(key[3])
      [] key[1] = "Xattr" -> 160 + 2 * Len(key[3]) + Len(rec.bytes)
      [] key[1] = "XattrStaging" -> 176 + Len(rec.name) + Len(rec.bytes)
      [] key[1] = "Mutation" -> 320
      [] OTHER -> 192

\* The adapter's own copy of the sizes of records.
retained_item_bytes(key, rec) == retained_bytes(key, rec)

decode_scan_candidate(rows, key, bytes, prior) ==
    [key |-> key, cursor |-> scan_cursor(rows, key), bytes |-> bytes, prior |-> prior]

\* The candidates of a scan statement, in its ORDER BY and within its LIMIT,
\* with the sum of the sizes of the candidates before each.
SizedRows(rows, candidates, sizes) ==
    [i \in DOMAIN candidates |->
        decode_scan_candidate(rows, candidates[i], sizes[i], Total(sizes, i - 1))]

\* A slip: a row is left out when the rows before it fill the bytes exactly.
WithinBytesStrictly(sized, q) == SelectSeq(sized, LAMBDA r : r.prior < q.bytes)

\* WHERE prior_bytes <= $n: the row at which the page is full is returned,
\* so that the plan knows that there is more.
WithinBytes(sized, q) == SelectSeq(sized, LAMBDA r : r.prior <= q.bytes)

plan_scan_candidates(candidates, q) ==
    LET sizes == [i \in DOMAIN candidates |-> candidates[i].bytes]
        selected == Max({m \in 0 .. Min({Len(sizes), q.items}) :
                            Total(sizes, m) <= q.bytes})
        seen == Min({selected + 1, Len(candidates)})
    IN IF \/ Len(candidates) > q.items + 1
          \/ \E i \in 2 .. seen : ~CursorLess(candidates[i - 1].cursor, candidates[i].cursor)
       THEN Corruption
       ELSE IF selected = 0 /\ candidates /= <<>> THEN ScanBoundTooSmall(sizes[1])
       ELSE ReadPage(SubSeq(candidates, 1, selected),
                     IF selected < Len(candidates) THEN candidates[selected].cursor
                     ELSE NoResume)

\* What a page has of a row, with the size the adapter gives it.
Fetched(rows, q, key) ==
    IF q.query = "DirectoryPage"
    THEN [item |-> DirectoryPageEntry(rows, key), bytes |-> PageEntryBytes(key)]
    ELSE [item |-> <<key, rows[key]>>, bytes |-> retained_item_bytes(key, rows[key])]

\* fetch_record of every selected candidate, in the same snapshot.
fetch_page(rows, q, page) ==
    IF page.kind /= "Page" THEN page
    ELSE IF \E i \in DOMAIN page.rows :
              LET row == page.rows[i]
              IN \/ row.bytes /= Fetched(rows, q, row.key).bytes
                 \/ row.cursor /= scan_cursor(rows, row.key)
    THEN Corruption
    ELSE [page EXCEPT !.rows = [i \in DOMAIN @ |-> Fetched(rows, q, @[i].key).item]]

postgres_scan(rows, q) ==
    LET candidates == Candidates(rows, q)
        sized == SizedRows(rows, candidates,
                    [i \in DOMAIN candidates |->
                        sql_retained_bytes(candidates[i], rows[candidates[i]])])
    IN fetch_page(rows, q, plan_scan_candidates(WithinBytes(sized, q), q))

\* The statement joins every entry to its child; the loop that reads its
\* rows is that of the plan.
postgres_directory_page(rows, q) ==
    LET joined == [k \in {k \in DOMAIN rows : k[1] = "DirectoryEntry" =>
                                IsInode(rows, rows[k].child)} |-> rows[k]]
        candidates == Candidates(joined, q)
        sized == SizedRows(joined, candidates,
                    [i \in DOMAIN candidates |-> 192 + 2 * Len(candidates[i][3])])
    IN fetch_page(rows, q, plan_scan_candidates(WithinBytes(sized, q), q))

read_point(rows, q) ==
    CASE q.query = "OpenPinCount" ->
           Found(Cardinality({k \in Family(rows, "OpenPin") : k[2] = q.inode}))
      [] q.query = "InodeByQidPath" ->
           Found({rows[k] : k \in InodesByQid(rows, q.qid)})
      [] q.query = "InodeWithContentMetadata" ->
           LET inode == fetch_record(rows, InodeKey(q.inode))
           IN Found(<<inode, IF inode = AbsentRecord THEN AbsentRecord
                             ELSE fetch_record(rows, ContentMetadataKey(q.inode))>>)
      [] q.query = "Point" -> Found(fetch_record(rows, q.key))

postgres_query(rows, q) ==
    CASE q.query = "Scan" -> postgres_scan(rows, q)
      [] q.query = "DirectoryPage" -> postgres_directory_page(rows, q)
      [] OTHER -> read_point(rows, q)

\* read_request, in one read-only transaction.
postgres_read_request(rows, revision, batch) ==
    IF batch.atLeast > revision
    THEN [kind |-> "RevisionUnavailable", current |-> revision]
    ELSE Snapshot(rows, revision, batch,
                  [i \in DOMAIN batch.queries |-> postgres_query(rows, batch.queries[i])])

=============================================================================
