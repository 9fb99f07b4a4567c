--------------------------- MODULE PostgresTables ---------------------------
(***************************************************************************)
(* What the PostgreSQL authority demands of a commit inside its            *)
(* transaction (w9pt-fs-state-postgres commit.rs and the schema            *)
(* migration).  Where the reference authority validates the whole record   *)
(* set, this one validates the inodes and opens the request targets and    *)
(* leaves the rest to deferred foreign keys, checked by COMMIT.            *)
(***************************************************************************)
EXTENDS Records

\* The adapter has transition checks of its own, over the rows the
\* transaction has locked.  Over the fields that Records keeps they state what
\* those of the reference authority state, so its operators stand for both;
\* they differ in content_context_id, which the adapter compares when it
\* applies a replacement, and in how the size of a transaction is computed.
validate_directory_transition(recs, chg) == directory_cookie_errors(recs, chg)
validate_qid_path_transition(recs, chg) == qid_path_errors(recs, chg)
validate_monotonic_transition(recs, chg) == monotonic_errors(recs, chg)
validate_xattr_transition(recs, chg) == xattr_errors(recs, chg)
validate_transitions(recs, chg) ==
    validate_directory_transition(recs, chg)
        \cup validate_qid_path_transition(recs, chg)
        \cup validate_monotonic_transition(recs, chg)
        \cup validate_xattr_transition(recs, chg)

\* The locks a request writes are compared with each other and with the rows
\* it neither removes nor replaces, in whatever order its changes come.
validate_lock_conflicts(recs, chg) ==
    LET written == Writes(chg, "Insert", "Lock") \cup Writes(chg, "Replace", "Lock")
        removed == {c.key : c \in Writes(chg, "Replace", "Lock")
                                   \cup ChangesOf(chg, "Delete")}
        final == {<<c.key, c.rec>> : c \in written}
                   \cup {<<k, recs[k]>> : k \in Family(recs, "Lock") \ removed}
    IN \E c \in written, other \in final :
            c.key[2] = other[1][2] /\ conflicts_with(c.rec, other[2])


collect_record_inodes(key, rec) ==
    CASE key[1] = "Filesystem" -> {rec.root}
      [] key[1] = "Inode" -> {key[2]} \cup ({rec.parent} \ {NoInode})
      [] key[1] = "DirectoryEntry" -> {key[2], rec.child}
      [] key[1] \in {"Open", "XattrStaging"} -> {rec.inode}
      [] OTHER -> {key[2]}
collect_record_opens(key, rec) ==
    CASE key[1] = "Open" -> {key[2]}
      [] key[1] = "OpenPin" -> {key[3]}
      [] key[1] = "Lock" -> {rec.open}
      [] OTHER -> {}

targeted_inode_ids(recs, chg) ==
    LET of(c) == CASE c.op \in {"Insert", "Replace"} ->
                        collect_record_inodes(c.key, c.rec)
                   [] c.op = "Delete" /\ Has(recs, c.key) ->
                        collect_record_inodes(c.key, recs[c.key])
                   [] c.op = "MoveDirectoryEntry" ->
                        {c.from[2], c.key[2], c.rec.child}
                   [] c.op \in {"AdjustOpenPinCount", "BumpLockGeneration",
                                "PublishXattrStaging"} -> {c.key[2]}
                   [] OTHER -> {}
    IN UNION {of(c) : c \in Range(chg)}

targeted_open_ids(recs, chg) ==
    LET of(c) == CASE c.op \in {"Insert", "Replace"} ->
                        collect_record_opens(c.key, c.rec)
                   [] c.op = "Delete" /\ Has(recs, c.key) ->
                        collect_record_opens(c.key, recs[c.key])
                   [] OTHER -> {}
    IN UNION {of(c) : c \in Range(chg)}

\* An inode row that is gone leaves nothing behind that names it.
dependent_exists(recs, i) ==
    \/ EntriesIn(recs, i) /= {} \/ EntriesNaming(recs, i) /= {}
    \/ \E k \in Family(recs, "Open") : recs[k].inode = i
    \/ \E k \in Family(recs, "Lock") \cup Family(recs, "Xattr") : k[2] = i
    \/ \E k \in Family(recs, "XattrStaging") : recs[k].inode = i
    \/ PinCount(recs, i) /= 0
    \/ Has(recs, OrphanKey(i))

targeted_directory_errors(recs, i) ==
    LET inode == Inode(recs, i)
    IN Broken(~NamedAsCounted(recs, i), "link count differs from namespace")
       \cup Broken(i = Root /\ inode.parent /= Root, "filesystem root")
       \cup Broken(i /= Root /\ inode.links /= 0 /\ ~IsDirectory(recs, inode.parent),
                   "directory parent")
       \cup IF inode.links /= 0 THEN directory_ancestry_errors(recs, i) ELSE {}

targeted_pin_errors(recs, i) ==
    LET links == Inode(recs, i).links
        pins == PinCount(recs, i)
        orphan == Has(recs, OrphanKey(i))
    IN Broken(orphan /\ links /= 0, "orphan inode still has links")
       \cup Broken(orphan /\ recs[OrphanKey(i)].count /= pins,
                   "orphan open-pin count mismatch")
       \cup Broken(links = 0 /\ pins = 0,
                   "unpinned zero-link inode was not retired")
       \cup Broken(links = 0 /\ ~orphan, "pinned zero-link inode orphan")

targeted_inode_errors(recs, i) ==
    IF ~IsInode(recs, i)
    THEN Broken(dependent_exists(recs, i), "authoritative inode dependency")
    ELSE targeted_pin_errors(recs, i)
         \cup IF IsDirectory(recs, i) THEN targeted_directory_errors(recs, i)
              ELSE Broken(~NamedAsCounted(recs, i),
                          "link count differs from namespace")

\* Only inserted and replaced entries are examined; a moved entry's parent
\* and child are examined as targeted inodes.
targeted_entry_errors(recs, chg) ==
    LET written == Writes(chg, "Insert", "DirectoryEntry")
                     \cup Writes(chg, "Replace", "DirectoryEntry")
    IN Broken(\E c \in written : ~IsDirectory(recs, c.key[2]),
              "directory-entry parent")
       \cup Broken(\E c \in written : ~IsInode(recs, c.rec.child),
                   "directory-entry child inode")
       \cup Broken(\E c \in written : c.rec.cookie >= recs[FilesystemKey].nextCookie,
                   "directory-entry cookie was not allocated")

targeted_lock_errors(recs, chg) ==
    Broken(\E c \in Writes(chg, "Insert", "Lock") \cup Writes(chg, "Replace", "Lock") :
             ~LockOwned(recs, c.key[2], c.rec),
           "lock owner differs from portable open")

targeted_open_errors(recs, o) ==
    Broken(\/ \E k \in Family(recs, "OpenPin") :
                /\ k[3] = o
                /\ ~(Has(recs, OpenKey(o)) /\ recs[OpenKey(o)].inode = k[2])
           \/ \E k \in Family(recs, "Lock") :
                recs[k].open = o /\ ~LockOwned(recs, k[2], recs[k]),
           "open-dependent record")

validate_targeted_invariants(staged, recs, chg) ==
    filesystem_errors(staged)
    \cup targeted_entry_errors(staged, chg)
    \cup targeted_lock_errors(staged, chg)
    \cup UNION {targeted_inode_errors(staged, i) :
                  i \in targeted_inode_ids(recs, chg)}
    \cup UNION {targeted_open_errors(staged, o) : o \in targeted_open_ids(recs, chg)}

\* A directory's parent row must exist, for as long as the directory's row
\* does and whatever its link count.
directory_parent_fk(recs) ==
    \A k \in Family(recs, "Inode") :
        recs[k].kind = "Directory" => IsInode(recs, recs[k].parent)

DEFERRED_FOREIGN_KEYS(recs) ==
    /\ IsInode(recs, Root)
    /\ directory_parent_fk(recs)
    /\ \A k \in Family(recs, "Inode") :
        recs[k].kind = "RegularFile" => Has(recs, ContentMetadataKey(k[2]))
    /\ \A k \in Family(recs, "DirectoryEntry") :
        IsInode(recs, k[2]) /\ IsInode(recs, recs[k].child)
    /\ \A k \in Family(recs, "Open") : IsInode(recs, recs[k].inode)
    /\ \A k \in Family(recs, "OpenPin") :
        Has(recs, OpenKey(k[3])) /\ recs[OpenKey(k[3])].inode = k[2]
    /\ \A k \in Family(recs, "Orphan") \cup Family(recs, "Xattr") :
        IsInode(recs, k[2])
    /\ \A k \in Family(recs, "XattrStaging") : IsInode(recs, recs[k].inode)
    /\ \A k \in Family(recs, "Lock") :
        /\ IsInode(recs, k[2])
        /\ Has(recs, OpenKey(recs[k].open))
        /\ recs[OpenKey(recs[k].open)].inode = k[2]

\* One attempt of the transaction, alone: a failed foreign key is the COMMIT
\* failing, which reaches the caller as a state error.
execute_once(recs, plan, revision) ==
    LET moves == validate_transitions(recs, plan.chg)
        staged == Staged(recs, plan.chg, revision)
        final == validate_targeted_invariants(staged, recs, plan.chg)
    IN IF preflight_errors(plan.chg) /= {}
       THEN Refused("MalformedRequest", preflight_errors(plan.chg), recs)
       ELSE IF ~evaluate_preconditions(recs, plan)
       THEN Refused("Conflict", {}, recs)
       ELSE IF moves /= {} THEN Refused("MalformedRequest", moves, recs)
       ELSE IF validate_lock_conflicts(recs, plan.chg) \/ ApplyConflict(recs, plan.chg)
       THEN Refused("Conflict", {}, recs)
       ELSE IF final /= {} THEN Refused("MalformedRequest", final, recs)
       ELSE IF ~DEFERRED_FOREIGN_KEYS(staged)
       THEN Refused("ForeignKey", {}, recs)
       ELSE [outcome |-> "Committed", why |-> {}, recs |-> staged]

=============================================================================
