--------------------------- MODULE NamespacePlans ---------------------------
(***************************************************************************)
(* The planners of the namespace mutations (w9pt-fs operations/): what a   *)
(* mutation asks the authority to commit, from the records its reads       *)
(* returned.  A planner answers with an errno, with "Internal" for state   *)
(* it holds to be malformed, or with the preconditions and the changes of  *)
(* one CommitRequest.  Operations on regular-file bytes are elsewhere.     *)
(*                                                                         *)
(* Identities of new inodes and opens come from IdentityScope, a function  *)
(* of the mutation: the mutation stands for them, in every attempt.        *)
(***************************************************************************)
EXTENDS Records

Plan(pre, chg) == [errno |-> "ok", pre |-> pre, chg |-> chg]
Fail(errno) == [errno |-> errno, pre |-> {}, chg |-> <<>>]

\* The grant must be of the filesystem's current policy generation.
validate_filesystem(recs, grant) ==
    IF recs[FilesystemKey].policy = grant.policy THEN "ok" ELSE "EAGAIN"

\* A slip: the commit is not tied to the policy generation of the grant.
AnyPolicy(grant) == Field(FilesystemKey, "root", Root)

PolicyPrecondition(grant) == Field(FilesystemKey, "policy", grant.policy)
\* A slip: the plan does not insist on the parent it read.
NoParentPreconditions(recs, p) == {}

ParentPreconditions(recs, p) ==
    {Revision(recs, InodeKey(p)),
     Field(InodeKey(p), "dgen", Inode(recs, p).dgen)}

updated_parent(inode) == [inode EXCEPT !.gen = @ + 1, !.dgen = @ + 1]
updated_target(inode, links) == [inode EXCEPT !.gen = @ + 1, !.links = links]
moved_directory(inode, p) == [inode EXCEPT !.gen = @ + 1, !.parent = p]
ReplaceParent(recs, p) == Replace(InodeKey(p), updated_parent(Inode(recs, p)))

NewInode(recs, grant, attributes, kind, parent) ==
    [rev |-> 0, kind |-> kind, qid |-> recs[FilesystemKey].nextQid,
     owner |-> grant.principal, group |-> attributes.group,
     mode |-> attributes.mode, links |-> 1, gen |-> 1,
     parent |-> IF kind = "Directory" THEN parent ELSE NoInode,
     dgen |-> IF kind = "Directory" THEN 1 ELSE 0]
NewEntry(recs, child) ==
    [rev |-> 0, child |-> child, cookie |-> recs[FilesystemKey].nextCookie]
NewOpen(m, i, op) ==
    <<Insert(OpenKey(m), [rev |-> 0, inode |-> i, client |-> op.caller,
                          access |-> op.access]),
      Insert(OpenPinKey(i, m), [rev |-> 0])>>

\* What adding an entry to a directory asks of the records, in order.
addition_check(recs, grant, op) ==
    IF validate_filesystem(recs, grant) /= "ok" THEN "EAGAIN"
    ELSE IF ~IsInode(recs, op.dir) THEN "EBADF"
    ELSE check_directory_mutation(grant, Inode(recs, op.dir))

(***************************************************************************)
(* create, mkdir and symlink: one read, then a new inode under a new name. *)
(***************************************************************************)
NewNodePlan(recs, grant, m, op, kind, extraAbsent, extra) ==
    LET entry == DirectoryEntryKey(op.dir, op.name)
        attributes == creation_attributes(grant, Inode(recs, op.dir), op.group,
                                          op.mode, kind)
        absent == {entry, InodeKey(m)} \cup extraAbsent
    IN IF addition_check(recs, grant, op) /= "ok"
       THEN Fail(addition_check(recs, grant, op))
       ELSE IF Has(recs, entry) THEN Fail("EEXIST")
       ELSE IF attributes.check /= "ok" THEN Fail(attributes.check)
       ELSE Plan({PolicyPrecondition(grant), Revision(recs, FilesystemKey)}
                    \cup ParentPreconditions(recs, op.dir)
                    \cup {Absent(k) : k \in absent},
                 <<Insert(InodeKey(m),
                          NewInode(recs, grant, attributes, kind, op.dir)),
                   Insert(entry, NewEntry(recs, m))>>
                 \o extra
                 \o <<ReplaceParent(recs, op.dir), AdvanceQidPath,
                      AdvanceDirectoryCookie>>)

plan_new_node(recs, grant, m, op) ==
    NewNodePlan(recs, grant, m, op, op.kind, {}, <<>>)

\* A created file is open at once, and its content metadata is created.
plan_create(recs, grant, m, op) ==
    NewNodePlan(recs, grant, m, op, "RegularFile",
                {ContentMetadataKey(m), OpenKey(m), OpenPinKey(m, m)},
                <<Insert(ContentMetadataKey(m), [rev |-> 0])>> \o NewOpen(m, m, op))

plan_link(recs, grant, op) ==
    LET entry == DirectoryEntryKey(op.dir, op.name)
        target == Inode(recs, op.target)
        check == addition_check(recs, grant, op)
    IN IF check \in {"EAGAIN", "EBADF"} THEN Fail(check)
       ELSE IF ~IsInode(recs, op.target) THEN Fail("EBADF")
       ELSE IF check /= "ok" THEN Fail(check)
       ELSE IF target.kind = "Directory" THEN Fail("EPERM")
       ELSE IF Has(recs, entry) THEN Fail("EEXIST")
       ELSE Plan({PolicyPrecondition(grant), Revision(recs, FilesystemKey),
                  Revision(recs, InodeKey(op.target)),
                  Field(InodeKey(op.target), "links", target.links),
                  Absent(entry)} \cup ParentPreconditions(recs, op.dir),
                 <<Insert(entry, NewEntry(recs, op.target)),
                   Replace(InodeKey(op.target),
                           updated_target(target, target.links + 1)),
                   ReplaceParent(recs, op.dir), AdvanceDirectoryCookie>>)

(***************************************************************************)
(* Taking a name away from an inode, by unlink or by a rename over it: the *)
(* inode keeps its other links, becomes an orphan while it is open, or is  *)
(* deleted.                                                                *)
(***************************************************************************)
LostLinkPreconditions(recs, i) ==
    {Revision(recs, InodeKey(i)), Field(InodeKey(i), "links", Inode(recs, i).links),
     OpenPinCount(i, PinCount(recs, i)), Absent(OrphanKey(i))}

LostLinkChanges(recs, i) ==
    LET inode == Inode(recs, i)
        pins == PinCount(recs, i)
    IN CASE inode.links > 1 ->
              <<Replace(InodeKey(i), updated_target(inode, inode.links - 1))>>
         [] inode.links = 1 /\ pins > 0 ->
              <<Replace(InodeKey(i), updated_target(inode, 0)),
                Insert(OrphanKey(i), [rev |-> 0, count |-> pins])>>
         [] OTHER -> <<Delete(InodeKey(i))>>

MalformedTarget(recs, i) == Has(recs, OrphanKey(i)) \/ Inode(recs, i).links = 0

\* The second read of unlink; target is the child the first read found.
plan_unlink(recs, grant, op, target) ==
    LET entry == DirectoryEntryKey(op.dir, op.name)
        parent == Inode(recs, op.dir)
        inode == Inode(recs, target)
        check == AndThen(check_directory_mutation(grant, parent),
                         check_sticky_directory(grant, parent, inode))
    IN IF validate_filesystem(recs, grant) /= "ok" THEN Fail("EAGAIN")
       ELSE IF ~IsInode(recs, op.dir) THEN Fail("EBADF")
       ELSE IF ~Has(recs, entry) THEN Fail("ENOENT")
       ELSE IF recs[entry].child /= target THEN Fail("EAGAIN")
       ELSE IF ~IsInode(recs, target) THEN Fail("Internal")
       ELSE IF check /= "ok" THEN Fail(check)
       ELSE IF op.removeDir /= (inode.kind = "Directory")
       THEN Fail(IF op.removeDir THEN "ENOTDIR" ELSE "EISDIR")
       ELSE IF MalformedTarget(recs, target) THEN Fail("Internal")
       ELSE IF op.removeDir /\ EntriesIn(recs, target) /= {} THEN Fail("ENOTEMPTY")
       ELSE Plan({PolicyPrecondition(grant), Revision(recs, entry)}
                    \cup ParentPreconditions(recs, op.dir)
                    \cup LostLinkPreconditions(recs, target),
                 <<Delete(entry), ReplaceParent(recs, op.dir)>>
                    \o LostLinkChanges(recs, target))

(***************************************************************************)
(* rename: the second read.  source and dest are the children the first    *)
(* read found (NoInode: no destination).                                   *)
(***************************************************************************)
RenameSource(op) == DirectoryEntryKey(op.dir, op.name)
RenameTarget(op) == DirectoryEntryKey(op.dir2, op.name2)
ChildAt(recs, entry) == IF Has(recs, entry) THEN recs[entry].child ELSE NoInode

rename_check(recs, grant, op, source, dest) ==
    LET old == Inode(recs, op.dir)
        new == Inode(recs, op.dir2)
    IN IF validate_filesystem(recs, grant) /= "ok" THEN "EAGAIN"
       ELSE IF ~IsInode(recs, op.dir) \/ ~IsInode(recs, op.dir2) THEN "EBADF"
       ELSE IF ~Has(recs, RenameSource(op)) THEN "ENOENT"
       ELSE IF \/ ChildAt(recs, RenameSource(op)) /= source
               \/ ChildAt(recs, RenameTarget(op)) /= dest THEN "EAGAIN"
       ELSE IF ~IsInode(recs, source) THEN "Internal"
       ELSE AndThen(check_directory_mutation(grant, old),
            AndThen(check_directory_mutation(grant, new),
                    check_sticky_directory(grant, old, Inode(recs, source))))

\* The two names are one, or name one inode: nothing moves.
RenameIsNoop(op, source, dest) ==
    RenameSource(op) = RenameTarget(op) \/ dest = source

RenamePreconditions(recs, grant, op, source) ==
    {PolicyPrecondition(grant), Revision(recs, RenameSource(op)),
     Revision(recs, InodeKey(source))}
    \cup ParentPreconditions(recs, op.dir) \cup ParentPreconditions(recs, op.dir2)

plan_rename_noop(recs, grant, op, source, dest) ==
    LET check == check_sticky_directory(grant, Inode(recs, op.dir2),
                                        Inode(recs, source))
    IN IF check /= "ok" THEN Fail(check)
       ELSE Plan(RenamePreconditions(recs, grant, op, source)
                    \cup {Revision(recs, RenameTarget(op))}, <<RetainResult>>)

\* What is wrong with the destination, known from this read but reported
\* after the ancestor walk.
rename_destination_check(recs, grant, op, source, dest) ==
    LET isDir(i) == Inode(recs, i).kind = "Directory"
    IN IF dest = NoInode THEN "ok"
       ELSE IF ~IsInode(recs, dest) THEN "Internal"
       ELSE IF isDir(source) /= isDir(dest)
       THEN IF isDir(source) THEN "ENOTDIR" ELSE "EISDIR"
       ELSE check_sticky_directory(grant, Inode(recs, op.dir2), Inode(recs, dest))

RenameChanges(recs, op, source, dest) ==
    <<MoveDirectoryEntry(RenameSource(op), RenameTarget(op),
                         [recs[RenameSource(op)] EXCEPT !.rev = 0]),
      ReplaceParent(recs, op.dir)>>
    \o (IF op.dir = op.dir2 THEN <<>> ELSE <<ReplaceParent(recs, op.dir2)>>)
    \o (IF op.dir /= op.dir2 /\ Inode(recs, source).kind = "Directory"
        THEN <<Replace(InodeKey(source),
                       moved_directory(Inode(recs, source), op.dir2))>>
        ELSE <<>>)
    \o (IF dest = NoInode THEN <<>> ELSE LostLinkChanges(recs, dest))

plan_rename(recs, grant, op, source, dest) ==
    LET check == rename_check(recs, grant, op, source, dest)
        entry == RenameTarget(op)
    IN IF check /= "ok" THEN Fail(check)
       ELSE IF RenameIsNoop(op, source, dest)
       THEN plan_rename_noop(recs, grant, op, source, dest)
       ELSE IF dest = NoInode \/ ~IsInode(recs, dest)
       THEN Plan(RenamePreconditions(recs, grant, op, source) \cup {Absent(entry)},
                 RenameChanges(recs, op, source, NoInode))
       ELSE Plan(RenamePreconditions(recs, grant, op, source)
                    \cup {Revision(recs, entry)} \cup LostLinkPreconditions(recs, dest),
                 RenameChanges(recs, op, source, dest))

(***************************************************************************)
(* open and release: a portable open pins its inode.                       *)
(***************************************************************************)
plan_open(recs, grant, m, op) ==
    LET inode == Inode(recs, op.target)
    IN IF validate_filesystem(recs, grant) /= "ok" THEN Fail("EAGAIN")
       ELSE IF ~IsInode(recs, op.target) THEN Fail("EBADF")
       ELSE IF authorize_open(grant, inode, op.access) /= "ok"
       THEN Fail(authorize_open(grant, inode, op.access))
       ELSE Plan({PolicyPrecondition(grant), Revision(recs, InodeKey(op.target)),
                  Field(InodeKey(op.target), "gen", inode.gen),
                  Absent(OpenKey(m)), Absent(OpenPinKey(op.target, m))},
                 NewOpen(m, op.target, op))

OpenOf(recs, op) ==
    Has(recs, OpenKey(op.open)) /\ recs[OpenKey(op.open)].client = op.caller

\* A slip: the release insists on its open and its pin only.
ReleaseAlone(recs, grant, op, i) ==
    LET pin == OpenPinKey(i, op.open)
    IN IF ~OpenOf(recs, op) THEN Fail("EBADF")
       ELSE Plan({PolicyPrecondition(grant), Revision(recs, OpenKey(op.open)),
                  Revision(recs, pin)},
                 <<Delete(OpenKey(op.open)), Delete(pin)>>
                 \o (IF Has(recs, OrphanKey(i))
                     THEN <<Delete(OrphanKey(i)), Delete(InodeKey(i))>> ELSE <<>>))

\* The second read of release; i is the inode the first read found open.
\* The last release of an orphan retires its inode.
plan_release(recs, grant, op, i) ==
    LET pin == OpenPinKey(i, op.open)
        pins == PinCount(recs, i)
        orphan == Has(recs, OrphanKey(i))
        links == Inode(recs, i).links
        rest == CASE links > 0 /\ ~orphan -> <<>>
                  [] links = 0 /\ orphan /\ pins > 1
                        /\ recs[OrphanKey(i)].count = pins ->
                       <<DecreaseOpenPinCount(i)>>
                  [] links = 0 /\ orphan /\ pins = 1
                        /\ recs[OrphanKey(i)].count = 1 ->
                       <<Delete(OrphanKey(i)), Delete(InodeKey(i))>>
                  [] OTHER -> <<RetainResult>>
    IN IF validate_filesystem(recs, grant) /= "ok" THEN Fail("EAGAIN")
       ELSE IF ~OpenOf(recs, op) THEN Fail("EBADF")
       ELSE IF ~IsInode(recs, i) \/ ~Has(recs, pin) \/ rest = <<RetainResult>>
       THEN Fail("Internal")
       ELSE Plan({PolicyPrecondition(grant), Revision(recs, OpenKey(op.open)),
                  Revision(recs, pin), Revision(recs, InodeKey(i)),
                  OpenPinCount(i, pins)}
                 \cup (IF orphan THEN {Revision(recs, OrphanKey(i))} ELSE {}),
                 <<Delete(OpenKey(op.open)), Delete(pin)>> \o rest)

(***************************************************************************)
(* setattr of mode, owner and group.                                       *)
(***************************************************************************)
setattr_authorize(grant, inode, op) ==
    AndThen(check_mutation_allowed(grant),
    AndThen(IF op.newMode = {} THEN "ok" ELSE check_owner_or_privileged(grant, inode),
            IF op.owner = {} /\ op.group = {} THEN "ok"
            ELSE check_ownership_change(grant, inode, op.owner, op.group)))

Chosen(option, default) == IF option = {} THEN default ELSE CHOOSE v \in option : TRUE

\* The setgid bit is kept only by a member of the inode's (new) group.
selected_update(grant, inode, op) ==
    LET group == Chosen(op.group, inode.group)
        keeps == grant.privileged \/ belongs_to_group(grant, group)
        mode == Chosen(op.newMode, inode.mode)
    IN [inode EXCEPT !.gen = @ + 1, !.group = group,
                     !.owner = Chosen(op.owner, inode.owner),
                     !.mode = IF op.newMode = {} \/ keeps THEN mode
                              ELSE mode \ {"setgid"}]

plan_setattr(recs, grant, op) ==
    LET key == InodeKey(op.target)
        check == setattr_authorize(grant, recs[key], op)
    IN IF validate_filesystem(recs, grant) /= "ok" THEN Fail("EAGAIN")
       ELSE IF ~Has(recs, key) THEN Fail("EBADF")
       ELSE IF check /= "ok" THEN Fail(check)
       ELSE Plan({PolicyPrecondition(grant), Revision(recs, key),
                  Field(key, "gen", recs[key].gen)},
                 <<Replace(key, selected_update(grant, recs[key], op))>>)

=============================================================================
