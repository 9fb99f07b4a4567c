------------------------------- MODULE Reads -------------------------------
(***************************************************************************)
(* The read side of a filesystem authority: point queries, bounded scans   *)
(* of a record family and directory pages, answered from one revision      *)
(* (w9pt-fs-state/src/read.rs), and how the reference authority answers    *)
(* them (testing/memory.rs).                                               *)
(*                                                                         *)
(* recs is the complete record map, the families Mutation and WriterLease  *)
(* included.  A cursor is the tuple of ranks of the identities that follow *)
(* the family in a key, or the cookie of a directory entry.                *)
(***************************************************************************)
EXTENDS Records

CONSTANT ByteOrder      \* every identity and name, in the order of its bytes

Start == <<>>
NoResume == <<0>>          \* no cookie is zero
AbsentRecord == [absent |-> TRUE]

(***************************************************************************)
(* Queries.                                                                *)
(***************************************************************************)
Point(key) == [query |-> "Point", key |-> key]
InodeByQidPath(qid) == [query |-> "InodeByQidPath", qid |-> qid]
InodeWithContentMetadata(i) == [query |-> "InodeWithContentMetadata", inode |-> i]
OpenPinCountOf(i) == [query |-> "OpenPinCount", inode |-> i]
Scan(family, parent, after, items, bytes) ==
    [query |-> "Scan", family |-> family, parent |-> parent, after |-> after,
     items |-> items, bytes |-> bytes]
DirectoryPage(parent, after, items, bytes) ==
    [Scan("DirectoryEntry", parent, after, items, bytes) EXCEPT
        !.query = "DirectoryPage"]

(***************************************************************************)
(* Order and size.                                                         *)
(***************************************************************************)
Rank(x) == CHOOSE i \in DOMAIN ByteOrder : ByteOrder[i] = x

scan_cursor(recs, key) ==
    IF key[1] = "DirectoryEntry" THEN <<recs[key].cookie>>
    ELSE [i \in 1 .. Len(key) - 1 |-> Rank(key[i + 1])]

CursorLess(a, b) ==
    IF a = Start THEN b /= Start
    ELSE \E i \in DOMAIN a : a[i] < b[i] /\ \A j \in 1 .. i - 1 : a[j] = b[j]

\* The rows of a scan: its family, or its directory, beyond its cursor.
Ahead(recs, q) ==
    LET rows == {k \in Family(recs, q.family) :
                    /\ q.family = "DirectoryEntry" => k[2] = q.parent
                    /\ CursorLess(q.after, scan_cursor(recs, k))}
        before(k) == {j \in rows : CursorLess(scan_cursor(recs, j), scan_cursor(recs, k))}
    IN [n \in 1 .. Cardinality(rows) |->
            CHOOSE k \in rows : Cardinality(before(k)) = n - 1]

\* RecordKey::retained_bytes and StateRecord::retained_bytes; the result of a
\* mutation, the policy of a content file, a manifest key and the target of a
\* symbolic link are opaque and of no length.
retained_bytes(key, rec) ==
    LET name == IF key[1] \in {"DirectoryEntry", "Xattr"} THEN Len(key[3]) ELSE 0
    IN 64 + name +
       CASE key[1] = "Inode" -> 256 + Len(rec.owner) + Len(rec.group)
         [] key[1] = "ContentMetadata" -> 96
         [] key[1] = "DirectoryEntry" -> 96 + name
         [] key[1] = "Xattr" -> 96 + name + Len(rec.bytes)
         [] key[1] = "XattrStaging" -> 112 + Len(rec.name) + Len(rec.bytes)
         [] key[1] = "Mutation" -> 256
         [] OTHER -> 128

Total(sizes, n) == FoldLeft(LAMBDA a, b : a + b, 0, SubSeq(sizes, 1, n))

(***************************************************************************)
(* Results.                                                                *)
(***************************************************************************)
ReadPage(rows, resume) == [kind |-> "Page", rows |-> rows, resume |-> resume]
ScanBoundTooSmall(bytes) ==
    [kind |-> "ScanBoundTooSmall", query |-> 0, bytes |-> bytes]
Found(record) == [kind |-> "Found", record |-> record]
Corruption == [kind |-> "Corruption"]

\* One entry of a directory page: the entry joined to its child.
DirectoryPageEntry(recs, key) ==
    LET child == Inode(recs, recs[key].child)
    IN [key |-> key, entry |-> recs[key], kind |-> child.kind, qid |-> child.qid,
        rev |-> child.rev]
PageEntryBytes(key) == 192 + 2 * Len(key[3])

\* One candidate more than the page may hold, to know whether there is more.
Candidates(recs, q) ==
    LET all == Ahead(recs, q)
    IN SubSeq(all, 1, Min({Len(all), q.items + 1}))

\* The loop of read_scan and read_directory_page over the candidates.
Cut(recs, candidates, sizes, q) ==
    LET n == Max({m \in 0 .. Min({Len(sizes), q.items}) : Total(sizes, m) <= q.bytes})
    IN IF n = 0 /\ candidates /= <<>> THEN ScanBoundTooSmall(sizes[1])
       ELSE ReadPage(SubSeq(candidates, 1, n),
                     IF n < Len(candidates) THEN scan_cursor(recs, candidates[n]) ELSE NoResume)

read_scan(recs, q) ==
    LET candidates == Candidates(recs, q)
        sizes == [i \in DOMAIN candidates |->
                    retained_bytes(candidates[i], recs[candidates[i]])]
        page == Cut(recs, candidates, sizes, q)
    IN IF page.kind /= "Page" THEN page
       ELSE [page EXCEPT !.rows = [i \in DOMAIN @ |-> <<@[i], recs[@[i]]>>]]

read_directory_page(recs, q) ==
    LET candidates == Candidates(recs, q)
        sizes == [i \in DOMAIN candidates |-> PageEntryBytes(candidates[i])]
        page == Cut(recs, candidates, sizes, q)
    IN IF page.kind /= "Page" THEN page
       ELSE [page EXCEPT !.rows = [i \in DOMAIN @ |-> DirectoryPageEntry(recs, @[i])]]

InodesByQid(recs, qid) == {k \in Family(recs, "Inode") : recs[k].qid = qid}
RecordAt(recs, key) == IF Has(recs, key) THEN recs[key] ELSE AbsentRecord

read_query(recs, q) ==
    CASE q.query = "Scan" -> read_scan(recs, q)
      [] q.query = "DirectoryPage" -> read_directory_page(recs, q)
      [] q.query = "OpenPinCount" -> Found(PinCount(recs, q.inode))
      [] q.query = "InodeByQidPath" ->
           Found({recs[k] : k \in InodesByQid(recs, q.qid)})
      [] q.query = "InodeWithContentMetadata" ->
           Found(<<RecordAt(recs, InodeKey(q.inode)),
                   IF IsInode(recs, q.inode) THEN RecordAt(recs, ContentMetadataKey(q.inode))
                   ELSE AbsentRecord>>)
      [] q.query = "Point" -> Found(RecordAt(recs, q.key))

(***************************************************************************)
(* What a snapshot must be before it is handed out: StateSnapshot::new,    *)
(* ScanPage::validate_against and DirectoryPage::validate_against.  A page *)
(* is bounded, strictly ordered, of its own range, of its own revision and *)
(* resumes at its last row; an inode comes with the metadata it names.  The *)
(* record of a lease has its revision in the fence row, which is left out. *)
(***************************************************************************)
NotAfter(family, record, revision) ==
    family /= "WriterLease" /\ record /= AbsentRecord => record.rev <= revision

validate_against(recs, q, page, revision) ==
    LET key(i) == IF q.query = "Scan" THEN page.rows[i][1] ELSE page.rows[i].key
        size(i) == IF q.query = "Scan" THEN retained_bytes(key(i), recs[key(i)])
                   ELSE PageEntryBytes(key(i))
        last == IF page.rows = <<>> THEN q.after ELSE scan_cursor(recs, key(Len(page.rows)))
    IN /\ Len(page.rows) <= q.items
       /\ Total([i \in DOMAIN page.rows |-> size(i)], Len(page.rows)) <= q.bytes
       /\ \A i \in DOMAIN page.rows :
            /\ key(i)[1] = q.family
            /\ q.family = "DirectoryEntry" => key(i)[2] = q.parent
            /\ CursorLess(IF i = 1 THEN q.after ELSE scan_cursor(recs, key(i - 1)),
                          scan_cursor(recs, key(i)))
            /\ NotAfter(key(i)[1], recs[key(i)], revision)
            /\ q.query = "DirectoryPage" => page.rows[i].rev <= revision
       /\ page.resume /= NoResume => page.rows /= <<>> /\ page.resume = last

ValidResult(recs, q, result, revision) ==
    CASE result.kind = "Page" -> validate_against(recs, q, result, revision)
      [] q.query = "InodeWithContentMetadata" ->
           /\ (result.record[1] = AbsentRecord) <=> (result.record[2] = AbsentRecord)
           /\ NotAfter("Inode", result.record[1], revision)
           /\ NotAfter("ContentMetadata", result.record[2], revision)
      [] q.query = "InodeByQidPath" ->
           \A inode \in result.record : inode.qid = q.qid /\ inode.rev <= revision
      [] q.query = "Point" -> NotAfter(q.key[1], result.record, revision)
      [] OTHER -> TRUE

\* A batch fails at its first scan that cannot return a single record.
Snapshot(recs, revision, batch, results) ==
    LET small == {i \in DOMAIN results : results[i].kind = "ScanBoundTooSmall"}
        known(i) == results[i] /= Corruption
    IN IF small /= {} /\ \A i \in 1 .. Min(small) : known(i)
       THEN [results[Min(small)] EXCEPT !.query = Min(small)]
       ELSE IF \A i \in DOMAIN results :
                 known(i) /\ ValidResult(recs, batch.queries[i], results[i], revision)
       THEN [kind |-> "Snapshot", revision |-> revision, results |-> results]
       ELSE Corruption

read_request(recs, revision, batch) ==
    IF batch.atLeast > revision
    THEN [kind |-> "RevisionUnavailable", current |-> revision]
    ELSE Snapshot(recs, revision, batch,
                  [i \in DOMAIN batch.queries |-> read_query(recs, batch.queries[i])])

=============================================================================
