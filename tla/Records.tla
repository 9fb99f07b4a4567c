------------------------------ MODULE Records ------------------------------
(***************************************************************************)
(* The records a filesystem authority keeps (records.rs, commit.rs) and    *)
(* what it demands of a commit: the preconditions, the transitions a       *)
(* change may make, how the changes apply, and the relations the whole     *)
(* record set must satisfy afterwards.  The reference authority            *)
(* (testing/memory.rs) checks the complete record set of every commit.     *)
(*                                                                         *)
(* One map holds every record, as in the code: a key is a tuple that       *)
(* starts with its RecordFamily.  The identity of a content file is the    *)
(* inode it was created with (both come from one IdentityScope).  The      *)
(* errors of a validation are the set of broken relations; the code        *)
(* reports the first it meets.                                             *)
(***************************************************************************)
EXTENDS Integers, FiniteSets, Sequences, SequencesExt, Authorization

CONSTANTS
    Root,       \* the root inode
    MaxDirectoryAncestorDepth   \* StateLimits::max_directory_ancestor_depth

NoInode == "no inode"

FilesystemKey == <<"Filesystem">>
InodeKey(i) == <<"Inode", i>>
ContentMetadataKey(i) == <<"ContentMetadata", i>>
DirectoryEntryKey(p, n) == <<"DirectoryEntry", p, n>>
OpenKey(o) == <<"Open", o>>
OpenPinKey(i, o) == <<"OpenPin", i, o>>
OrphanKey(i) == <<"Orphan", i>>
LockKey(i, l) == <<"Lock", i, l>>
XattrKey(i, n) == <<"Xattr", i, n>>
XattrStagingKey(s) == <<"XattrStaging", s>>

Has(recs, key) == key \in DOMAIN recs
Family(recs, family) == {k \in DOMAIN recs : k[1] = family}
Inode(recs, i) == recs[InodeKey(i)]
EntriesNaming(recs, i) ==
    {k \in Family(recs, "DirectoryEntry") : recs[k].child = i}
EntriesIn(recs, i) == {k \in Family(recs, "DirectoryEntry") : k[2] = i}
PinCount(recs, i) ==
    Cardinality({k \in Family(recs, "OpenPin") : k[2] = i})

(***************************************************************************)
(* The record families.                                                    *)
(***************************************************************************)
FilesystemRecord == [rev : Nat, root : {Root}, nextQid : Nat,
                     nextCookie : Nat, policy : Nat]

InodeKinds == {"RegularFile", "Directory", "Symlink"}

\* A directory has a parent and a namespace generation; no other kind has.
InodeRecord(ids, principals, groups) ==
    {r \in [rev : Nat, kind : InodeKinds, qid : Nat, owner : principals,
            group : groups, mode : SUBSET ModeBits, links : Nat, gen : Nat,
            parent : ids \cup {NoInode}, dgen : Nat] :
        (r.kind = "Directory") <=> (r.parent /= NoInode)}

DirectoryEntryRecord(ids) == [rev : Nat, child : ids, cookie : Nat]
OpenRecord(ids, clients) ==
    [rev : Nat, inode : ids, client : clients, access : SUBSET {"read", "write"}]
OpenPinRecord == [rev : Nat]
OrphanRecord == [rev : Nat, count : Nat \ {0}]
ContentMetadataRecord == [rev : Nat]

\* A byte range that ends at an offset, or (0, which no finite range has) that
\* runs through the end of the file.
ThroughEof == 0
LockRange == {r \in Nat \X Nat : r[2] = ThroughEof \/ r[1] < r[2]}
overlaps(a, b) ==
    /\ a[2] = ThroughEof \/ b[1] < a[2]
    /\ b[2] = ThroughEof \/ a[1] < b[2]
LockRecord(clients, opens) ==
    [rev : Nat, client : clients, open : opens, range : LockRange,
     kind : {"Shared", "Exclusive"}, gen : Nat]
\* Of two locks on one inode.
conflicts_with(a, b) ==
    /\ <<a.client, a.open>> /= <<b.client, b.open>>
    /\ overlaps(a.range, b.range)
    /\ "Exclusive" \in {a.kind, b.kind}

XattrRecord(values) == [rev : Nat, bytes : values]
XattrStagingRecord(ids, names, values) ==
    {r \in [rev : Nat, inode : ids, name : names, bytes : values, expected : Nat] :
        Len(r.bytes) <= r.expected}
is_complete(staging) == Len(staging.bytes) = staging.expected

(***************************************************************************)
(* Preconditions.                                                          *)
(***************************************************************************)
Absent(key) == <<"absent", key>>
\* A field of a record: its revision, a generation, a link count, a policy.
Field(key, field, value) == <<field, key, value>>
Revision(recs, key) == Field(key, "rev", recs[key].rev)
OpenPinCount(i, n) == <<"pins", i, n>>

PreconditionHolds(recs, p) ==
    CASE p[1] = "absent" -> ~Has(recs, p[2])
      [] p[1] = "pins" -> PinCount(recs, p[2]) = p[3]
      [] OTHER -> Has(recs, p[2]) /\ recs[p[2]][p[1]] = p[3]

evaluate_preconditions(recs, plan) ==
    \A p \in plan.pre : PreconditionHolds(recs, p)

(***************************************************************************)
(* Changes.  A change names the record it writes (key), what it writes     *)
(* (rec) and, for a move, the entry it takes away (from).                  *)
(***************************************************************************)
Change(op, key, rec) == [op |-> op, key |-> key, rec |-> rec, from |-> key]
Insert(key, rec) == Change("Insert", key, rec)
Replace(key, rec) == Change("Replace", key, rec)
Delete(key) == Change("Delete", key, <<>>)
MoveDirectoryEntry(from, to, rec) ==
    [op |-> "MoveDirectoryEntry", key |-> to, rec |-> rec, from |-> from]
AdvanceQidPath == Change("AdvanceQidPath", FilesystemKey, <<>>)
AdvanceDirectoryCookie == Change("AdvanceDirectoryCookie", FilesystemKey, <<>>)
BumpPolicyGeneration ==
    Change("BumpFilesystemPolicyGeneration", FilesystemKey, <<>>)
\* The one adjustment the planners ask for: the orphan loses a pin.
DecreaseOpenPinCount(i) == Change("AdjustOpenPinCount", OrphanKey(i), <<>>)
BumpLockGeneration(i, l) == Change("BumpLockGeneration", LockKey(i, l), <<>>)
PublishXattrStaging(staging, i, n) ==
    [op |-> "PublishXattrStaging", key |-> XattrKey(i, n), rec |-> <<>>,
     from |-> XattrStagingKey(staging)]
RetainResult == Change("RetainResult", <<"Mutation">>, <<>>)

affected_keys(c) == {c.key, c.from}
Allocations == {"AdvanceQidPath", "AdvanceDirectoryCookie"}

ChangesOf(chg, op) == {c \in Range(chg) : c.op = op}
\* Inserted or replaced records of one family.
Writes(chg, op, family) == {c \in ChangesOf(chg, op) : c.key[1] = family}

\* The relations a validation finds broken, as a set of names.
Broken(condition, name) == IF condition THEN {name} ELSE {}

\* validate_preflight: something changes, and no record is written twice,
\* the filesystem header by its two allocations excepted.
preflight_errors(chg) ==
    Broken(chg = <<>>, "EmptyChanges")
    \cup Broken(\E i, j \in DOMAIN chg :
                    /\ i < j
                    /\ affected_keys(chg[i]) \cap affected_keys(chg[j]) /= {}
                    /\ {chg[i].op, chg[j].op} /= Allocations,
                "DuplicateChangeTarget")

WithRevision(rec, revision) == [rec EXCEPT !.rev = revision]
Without(recs, key) == [k \in DOMAIN recs \ {key} |-> recs[k]]
Put(recs, key, rec) ==
    [k \in DOMAIN recs \cup {key} |-> IF k = key THEN rec ELSE recs[k]]

apply_change(recs, c, revision) ==
    CASE c.op \in {"Insert", "Replace"} ->
           Put(recs, c.key, WithRevision(c.rec, revision))
      [] c.op = "Delete" -> Without(recs, c.key)
      [] c.op = "MoveDirectoryEntry" ->
           Put(Without(recs, c.from), c.key, WithRevision(c.rec, revision))
      [] c.op = "AdvanceQidPath" ->
           [recs EXCEPT ![c.key].nextQid = @ + 1, ![c.key].rev = revision]
      [] c.op = "AdvanceDirectoryCookie" ->
           [recs EXCEPT ![c.key].nextCookie = @ + 1, ![c.key].rev = revision]
      [] c.op = "BumpFilesystemPolicyGeneration" ->
           [recs EXCEPT ![c.key].policy = @ + 1, ![c.key].rev = revision]
      [] c.op = "AdjustOpenPinCount" ->
           [recs EXCEPT ![c.key].count = @ - 1, ![c.key].rev = revision]
      [] c.op = "BumpLockGeneration" ->
           [recs EXCEPT ![c.key].gen = @ + 1, ![c.key].rev = revision]
      [] c.op = "PublishXattrStaging" ->
           Put(Without(recs, c.from), c.key,
               [rev |-> revision, bytes |-> recs[c.from].bytes])
      [] c.op = "RetainResult" -> recs

Staged(recs, chg, revision) ==
    FoldLeft(LAMBDA r, c : apply_change(r, c, revision), recs, chg)

\* ApplyFailure::Conflict: an insert meets a record, another write meets none.
ApplyConflict(recs, chg) ==
    \E c \in Range(chg) :
        \/ c.op = "Insert" /\ Has(recs, c.key)
        \/ c.op \notin {"Insert", "RetainResult"} /\ ~Has(recs, c.from)

\* An inserted lock must not conflict with the locks as the changes before it
\* leave them.
LockInsertConflict(recs, chg, revision) ==
    \E n \in DOMAIN chg :
        /\ chg[n] \in Writes(chg, "Insert", "Lock")
        /\ LET before == Staged(recs, SubSeq(chg, 1, n - 1), revision)
           IN \E k \in Family(before, "Lock") :
                /\ k[2] = chg[n].key[2]
                /\ conflicts_with(chg[n].rec, before[k])

(***************************************************************************)
(* What a change may do to the records it finds.                           *)
(***************************************************************************)
\* An entry that a delete or a move takes out of the namespace.
TakenEntries(recs, chg) ==
    {recs[k] : k \in {c.from : c \in ChangesOf(chg, "Delete")
                                  \cup ChangesOf(chg, "MoveDirectoryEntry")}
                     \cap Family(recs, "DirectoryEntry")}

\* A cookie is the next unallocated one, or travels with its entry.
directory_cookie_errors(recs, chg) ==
    LET fresh == {c \in Writes(chg, "Insert", "DirectoryEntry") :
                    ~\E old \in TakenEntries(recs, chg) :
                        old.cookie = c.rec.cookie /\ old.child = c.rec.child}
        next  == recs[FilesystemKey].nextCookie
        bad   == \/ {c.rec.cookie : c \in fresh}
                        /= next .. next + Cardinality(fresh) - 1
                 \/ Cardinality(fresh)
                        /= Cardinality(ChangesOf(chg, "AdvanceDirectoryCookie"))
                 \/ \E c \in Writes(chg, "Replace", "DirectoryEntry") :
                        Has(recs, c.key) /\ recs[c.key].cookie /= c.rec.cookie
                 \/ \E c \in ChangesOf(chg, "MoveDirectoryEntry") :
                        ~ /\ Has(recs, c.from)
                          /\ recs[c.from].cookie = c.rec.cookie
                          /\ recs[c.from].child = c.rec.child
    IN Broken(bad, "DirectoryCookieAllocation")

qid_path_errors(recs, chg) ==
    LET fresh == Writes(chg, "Insert", "Inode")
        next  == recs[FilesystemKey].nextQid
        bad   == \/ {c.rec.qid : c \in fresh}
                        /= next .. next + Cardinality(fresh) - 1
                 \/ Cardinality(fresh)
                        /= Cardinality(ChangesOf(chg, "AdvanceQidPath"))
                 \/ \E c \in Writes(chg, "Replace", "Inode") :
                        Has(recs, c.key) /\ recs[c.key].qid /= c.rec.qid
    IN Broken(bad, "QidPathAllocation")

\* The directories whose entries the changes insert, replace, remove or move.
NamespaceParents(recs, chg) ==
    {k[2] : k \in {c.key : c \in Writes(chg, "Insert", "DirectoryEntry")
                                 \cup Writes(chg, "Replace", "DirectoryEntry")}
                  \cup ({c.from : c \in ChangesOf(chg, "Delete")}
                            \cap Family(recs, "DirectoryEntry"))
                  \cup UNION {affected_keys(c) :
                                c \in ChangesOf(chg, "MoveDirectoryEntry")}}

\* A directory changes parent only together with its one entry.
directory_parent_transition_valid(recs, chg, i, new) ==
    LET old == Inode(recs, i).parent
    IN \/ old = new.parent
       \/ \E c \in ChangesOf(chg, "MoveDirectoryEntry") :
            /\ Has(recs, c.from)
            /\ c.from[2] = old /\ c.key[2] = new.parent
            /\ c.rec.child = i /\ c.rec.cookie = recs[c.from].cookie
       \/ \E d \in ChangesOf(chg, "Delete"),
             c \in Writes(chg, "Insert", "DirectoryEntry") :
            /\ d.key \in EntriesNaming(recs, i) /\ d.key[2] = old
            /\ c.key[2] = new.parent
            /\ c.rec.child = i /\ c.rec.cookie = recs[d.key].cookie

InodeReplacementValid(recs, chg, i, new) ==
    LET old == Inode(recs, i)
    IN /\ new.kind = old.kind
       /\ new.gen = old.gen + 1
       /\ new.dgen = old.dgen + (IF i \in NamespaceParents(recs, chg) THEN 1 ELSE 0)
       /\ directory_parent_transition_valid(recs, chg, i, new)

monotonic_errors(recs, chg) ==
    Broken(\E p \in NamespaceParents(recs, chg) :
             ~\E c \in Writes(chg, "Replace", "Inode") :
                /\ c.key = InodeKey(p) /\ Has(recs, c.key)
                /\ recs[c.key].kind = "Directory"
                /\ c.rec.dgen = recs[c.key].dgen + 1,
           "NamespaceGeneration")
    \cup Broken(\E c \in Writes(chg, "Replace", "Inode") :
                  /\ Has(recs, c.key)
                  /\ ~InodeReplacementValid(recs, chg, c.key[2], c.rec),
                "NonMonotonicTransition")

\* A staged attribute becomes visible only complete and only by its
\* publication: no request drops the staging and writes the attribute itself.
xattr_errors(recs, chg) ==
    LET written == Writes(chg, "Insert", "Xattr") \cup Writes(chg, "Replace", "Xattr")
    IN Broken(\E c \in ChangesOf(chg, "PublishXattrStaging") :
                ~ /\ Has(recs, c.from)
                  /\ XattrKey(recs[c.from].inode, recs[c.from].name) = c.key
                  /\ is_complete(recs[c.from]),
              "InvalidXattrStaging")
       \cup Broken(\E d \in ChangesOf(chg, "Delete"), c \in written :
                    /\ d.key \in Family(recs, "XattrStaging")
                    /\ c.key = XattrKey(recs[d.key].inode, recs[d.key].name),
                   "XattrPublicationRequired")

transition_errors(recs, chg) ==
    directory_cookie_errors(recs, chg) \cup qid_path_errors(recs, chg)
        \cup monotonic_errors(recs, chg) \cup xattr_errors(recs, chg)

(***************************************************************************)
(* What the record set must satisfy after the changes.                     *)
(***************************************************************************)
IsInode(recs, i) == Has(recs, InodeKey(i))
IsDirectory(recs, i) == IsInode(recs, i) /\ Inode(recs, i).kind = "Directory"

\* The chain of parents of a directory, one edge per step.
Ancestry(recs, i) ==
    LET up[d \in 0 .. MaxDirectoryAncestorDepth] ==
            IF d = 0 THEN i
            ELSE IF IsDirectory(recs, up[d - 1])
                 THEN Inode(recs, up[d - 1]).parent ELSE NoInode
    IN up

\* The root is reached within the depth limit, and no inode is met twice.
directory_ancestry_errors(recs, i) ==
    LET up == Ancestry(recs, i)
        depths == DOMAIN up
    IN CASE \E d \in depths : up[d] = Root -> {}
         [] \E d \in depths : ~IsDirectory(recs, up[d]) ->
                {"directory ancestor is missing"}
         [] \E d, e \in depths : d < e /\ up[d] = up[e] -> {"directory cycle"}
         [] OTHER -> {"directory ancestor limit"}

filesystem_errors(recs) ==
    Broken(~IsDirectory(recs, Root) \/ Inode(recs, Root).parent /= Root,
           "filesystem root")

entry_errors(recs) ==
    LET entries == Family(recs, "DirectoryEntry")
    IN Broken(\E k \in entries : ~IsDirectory(recs, k[2]),
              "directory-entry parent")
       \cup Broken(\E k \in entries : ~IsInode(recs, recs[k].child),
                   "directory-entry child inode")
       \cup Broken(\E k \in entries :
                        recs[k].cookie >= recs[FilesystemKey].nextCookie,
                   "directory-entry cookie was not allocated")
       \cup Broken(\E k, l \in entries :
                        k /= l /\ k[2] = l[2] /\ recs[k].cookie = recs[l].cookie,
                   "duplicate directory cookie")

open_errors(recs) ==
    Broken(\E k \in Family(recs, "Open") : ~IsInode(recs, recs[k].inode),
           "open inode")
    \cup Broken(\E k \in Family(recs, "OpenPin") :
                  ~(Has(recs, OpenKey(k[3])) /\ recs[OpenKey(k[3])].inode = k[2]),
                "open-pin open")
    \cup Broken(\E k \in Family(recs, "Orphan") :
                  ~(IsInode(recs, k[2]) /\ Inode(recs, k[2]).links = 0),
                "orphan inode still has links")
    \cup Broken(\E k \in Family(recs, "Orphan") :
                  PinCount(recs, k[2]) /= recs[k].count,
                "orphan open-pin count mismatch")

\* A lock belongs to an open of its inode by the same client.
LockOwned(recs, i, lock) ==
    /\ Has(recs, OpenKey(lock.open))
    /\ recs[OpenKey(lock.open)].inode = i
    /\ recs[OpenKey(lock.open)].client = lock.client

lock_errors(recs) ==
    LET locks == Family(recs, "Lock")
    IN Broken(\E k \in locks : ~IsInode(recs, k[2]), "lock inode")
       \cup Broken(\E k \in locks : ~LockOwned(recs, k[2], recs[k]),
                   "lock owner differs from portable open")
       \cup Broken(\E k, l \in locks :
                        k[2] = l[2] /\ conflicts_with(recs[k], recs[l]),
                   "conflicting byte-range locks coexist")

attribute_errors(recs) ==
    Broken(\E k \in Family(recs, "Xattr") : ~IsInode(recs, k[2]), "xattr inode")
    \cup Broken(\E k \in Family(recs, "XattrStaging") :
                    ~IsInode(recs, recs[k].inode),
                "xattr-staging inode")

inode_errors(recs) ==
    LET inodes == Family(recs, "Inode")
    IN Broken(\E k \in inodes : recs[k].qid >= recs[FilesystemKey].nextQid,
              "inode QID path was not allocated")
       \cup Broken(\E k, l \in inodes : k /= l /\ recs[k].qid = recs[l].qid,
                   "duplicate inode QID path")
       \cup Broken(\E k \in inodes : recs[k].kind = "RegularFile"
                        /\ ~Has(recs, ContentMetadataKey(k[2])),
                   "regular inode content metadata")
       \cup UNION {directory_ancestry_errors(recs, k[2]) :
                     k \in {l \in inodes : recs[l].kind = "Directory"
                                            /\ recs[l].links /= 0}}

\* Each inode is named as often as its link count says; a directory once, in
\* its parent; an inode without links is pinned and recorded as an orphan.
NamedAsCounted(recs, i) ==
    LET inode == Inode(recs, i)
        names == EntriesNaming(recs, i)
    IN CASE inode.kind /= "Directory" -> Cardinality(names) = inode.links
         [] i = Root -> names = {}
         [] inode.links = 0 -> names = {} /\ EntriesIn(recs, i) = {}
         [] OTHER -> \E k \in names : names = {k} /\ k[2] = inode.parent

link_errors(recs) ==
    LET ids == {k[2] : k \in Family(recs, "Inode")}
        unlinked == {i \in ids : Inode(recs, i).links = 0}
    IN Broken(\E i \in ids : ~NamedAsCounted(recs, i),
              "link count differs from namespace")
       \cup Broken(\E i \in unlinked : PinCount(recs, i) = 0,
                   "unpinned zero-link inode was not retired")
       \cup Broken(\E i \in unlinked : ~Has(recs, OrphanKey(i)),
                   "pinned zero-link inode orphan")

validate_record_set(recs) ==
    filesystem_errors(recs) \cup entry_errors(recs) \cup open_errors(recs)
        \cup lock_errors(recs) \cup attribute_errors(recs)
        \cup inode_errors(recs) \cup link_errors(recs)

(***************************************************************************)
(* The reference authority's commit: its outcome, the broken relations of  *)
(* a malformed request, and the records it publishes.                      *)
(***************************************************************************)
Refused(outcome, why, recs) ==
    [outcome |-> outcome, why |-> why, recs |-> recs]

\* A slip: the staged record set is published unvalidated.
CommitUnvalidated(recs, plan, revision) ==
    IF evaluate_preconditions(recs, plan) /\ ~ApplyConflict(recs, plan.chg)
    THEN [outcome |-> "Committed", why |-> {},
          recs |-> Staged(recs, plan.chg, revision)]
    ELSE Refused("Conflict", {}, recs)

commit_request(recs, plan, revision) ==
    LET early == preflight_errors(plan.chg)
        moves == transition_errors(recs, plan.chg)
        staged == Staged(recs, plan.chg, revision)
        final == validate_record_set(staged)
    IN IF early /= {} THEN Refused("MalformedRequest", early, recs)
       ELSE IF ~evaluate_preconditions(recs, plan)
       THEN Refused("Conflict", {}, recs)
       ELSE IF moves /= {} THEN Refused("MalformedRequest", moves, recs)
       ELSE IF ApplyConflict(recs, plan.chg)
               \/ LockInsertConflict(recs, plan.chg, revision)
       THEN Refused("Conflict", {}, recs)
       ELSE IF final /= {} THEN Refused("MalformedRequest", final, recs)
       ELSE [outcome |-> "Committed", why |-> {}, recs |-> staged]

=============================================================================
