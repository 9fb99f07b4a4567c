----------------------------- MODULE Namespace -----------------------------
(***************************************************************************)
(* Namespace operations running against one authority.                     *)
(*                                                                         *)
(* Every mutation reads, plans and commits without holding a lock: between *)
(* any two of its reads, and between its last read and its commit, the     *)
(* others may commit.  Each read is one atomic snapshot (ReadBatch), each  *)
(* commit is one request with the preconditions of its plan, and a         *)
(* conflict starts the plan again from its first read, MaxAttempts times   *)
(* in all (MutationRunner.tla has the runner itself: leases, ledger, lost  *)
(* answers).  The export policy and the filesystem's policy generation     *)
(* change while operations run.  A client enumerates a directory page by   *)
(* page and another walks a path, in between.                              *)
(***************************************************************************)
EXTENDS NamespacePlans, PostgresTables

CONSTANTS
    Mutations,          \* the mutations issued, one call each
    Scenarios,          \* function: the initial records and what is issued
    MaxAttempts,        \* max_conflict_retries + 1
    MaxAncestorDepth,   \* EngineLimits::max_ancestor_depth
    ResolveGrant(_, _)  \* ExportPolicy::resolve: caller, policy generation

VARIABLES
    scenario,   \* which of the Scenarios this behaviour is about
    records,    \* the authority's records
    revision,   \* the revision of the last commit
    export,     \* the policy generation the export policy resolves to
    calls,      \* the mutations' progress
    reader,     \* a directory enumeration
    walker      \* a path walk

vars == <<scenario, records, revision, export, calls, reader, walker>>

Issued == Scenarios[scenario]

(***************************************************************************)
(* Calls.                                                                  *)
(***************************************************************************)
NoOp == [op |-> "none"]
IdleCall == [phase |-> "idle", op |-> NoOp, policy |-> 0, tries |-> 0,
             plan |-> Fail("ok"), source |-> NoInode, dest |-> NoInode,
             at |-> NoInode, depth |-> 0, late |-> "ok", page |-> FALSE,
             malformed |-> FALSE, out |-> "none", why |-> {}]

\* A finished call keeps its operation and its answer.
Answer(call, out, why) ==
    [IdleCall EXCEPT !.phase = "done", !.op = call.op, !.out = out, !.why = why]

Planned(call, plan) ==
    IF plan.errno = "ok" THEN [call EXCEPT !.phase = "commit", !.plan = plan]
    ELSE Answer(call, plan.errno,
                IF plan.errno = "Internal" THEN {"malformed state"} ELSE {})

GrantOf(call) == ResolveGrant(call.op.caller, call.policy)

\* unlink, rename and release learn from a first read which inodes to read.
Found(call, source, dest) ==
    [call EXCEPT !.phase = "second", !.source = source, !.dest = dest]

FirstOfEntry(call, entry, dest) ==
    IF validate_filesystem(records, GrantOf(call)) /= "ok"
    THEN Answer(call, "EAGAIN", {})
    ELSE IF ~Has(records, entry) THEN Answer(call, "ENOENT", {})
    ELSE Found(call, records[entry].child, dest)

(***************************************************************************)
(* What an attempt of each operation does with its first read.             *)
(***************************************************************************)
execute_create(m, call) ==
    Planned(call, plan_create(records, GrantOf(call), m, call.op))
execute_new_node(m, call) ==
    Planned(call, plan_new_node(records, GrantOf(call), m, call.op))
execute_link(call) == Planned(call, plan_link(records, GrantOf(call), call.op))
execute_open(m, call) ==
    Planned(call, plan_open(records, GrantOf(call), m, call.op))
execute_setattr(call) ==
    Planned(call, plan_setattr(records, GrantOf(call), call.op))
execute_unlink(call) ==
    FirstOfEntry(call, DirectoryEntryKey(call.op.dir, call.op.name), NoInode)
execute_rename(call) ==
    FirstOfEntry(call, RenameSource(call.op), ChildAt(records, RenameTarget(call.op)))
execute_release(call) ==
    IF validate_filesystem(records, GrantOf(call)) /= "ok"
    THEN Answer(call, "EAGAIN", {})
    ELSE IF ~OpenOf(records, call.op) THEN Answer(call, "EBADF", {})
    ELSE Found(call, records[OpenKey(call.op.open)].inode, NoInode)

\* Each attempt resolves the grant again and compares it with the first.
FirstRead(m, call) ==
    IF export /= call.policy THEN Answer(call, "EAGAIN", {})
    ELSE CASE call.op.op = "create" -> execute_create(m, call)
           [] call.op.op = "node" -> execute_new_node(m, call)
           [] call.op.op = "link" -> execute_link(call)
           [] call.op.op = "open" -> execute_open(m, call)
           [] call.op.op = "setattr" -> execute_setattr(call)
           [] call.op.op = "unlink" -> execute_unlink(call)
           [] call.op.op = "rename" -> execute_rename(call)
           [] call.op.op = "release" -> execute_release(call)

\* The operation arrives, its grant is resolved, its first attempt reads.
Begin(m) ==
    /\ calls[m].phase = "idle"
    /\ m \in Issued.mutations
    /\ \E op \in Issued.operations :
        calls' = [calls EXCEPT ![m] =
                    FirstRead(m, [IdleCall EXCEPT !.op = op, !.policy = export])]
    /\ UNCHANGED <<scenario, records, revision, export, reader, walker>>

Attempt(m) ==
    /\ calls[m].phase = "retry"
    /\ calls' = [calls EXCEPT ![m] = FirstRead(m, calls[m])]
    /\ UNCHANGED <<scenario, records, revision, export, reader, walker>>

\* After the walk: the destination's faults, then its page if it is a
\* directory, read on its own.
AfterPage(call) ==
    IF call.malformed THEN Answer(call, "Internal", {"malformed state"})
    ELSE [call EXCEPT !.phase = "commit"]
AfterWalk(call) ==
    IF call.late /= "ok" THEN Answer(call, call.late, {})
    ELSE IF call.page THEN [call EXCEPT !.phase = "page"]
    ELSE AfterPage(call)

\* ancestor_preconditions: the tests made before an ancestor is read.
WalkTo(call, at, depth) ==
    IF at = call.source THEN Answer(call, "ELOOP", {})
    ELSE IF at = Root THEN AfterWalk(call)
    ELSE IF depth = MaxAncestorDepth THEN Answer(call, "ELOOP", {})
    ELSE [call EXCEPT !.phase = "walk", !.at = at, !.depth = depth]

SecondOfRename(call) ==
    LET op == call.op
        grant == GrantOf(call)
        plan == plan_rename(records, grant, op, call.source, call.dest)
        next == [call EXCEPT
                    !.plan = plan,
                    !.late = rename_destination_check(records, grant, op,
                                                      call.source, call.dest),
                    !.page = IsDirectory(records, call.dest),
                    !.malformed = /\ IsInode(records, call.dest)
                                  /\ MalformedTarget(records, call.dest)]
    IN IF plan.errno /= "ok" \/ RenameIsNoop(op, call.source, call.dest)
       THEN Planned(call, plan)
       ELSE IF IsDirectory(records, call.source) THEN WalkTo(next, op.dir2, 0)
       ELSE AfterWalk(next)

SecondRead(m) ==
    /\ calls[m].phase = "second"
    /\ LET call == calls[m]
           grant == GrantOf(call)
       IN calls' = [calls EXCEPT ![m] =
            CASE call.op.op = "unlink" ->
                   Planned(call, plan_unlink(records, grant, call.op, call.source))
              [] call.op.op = "release" ->
                   Planned(call, plan_release(records, grant, call.op, call.source))
              [] call.op.op = "rename" -> SecondOfRename(call)]
    /\ UNCHANGED <<scenario, records, revision, export, reader, walker>>

\* A slip: the ancestors are walked, their revisions are not kept.
AncestorsUnpinned(m) ==
    /\ calls[m].phase = "walk"
    /\ calls' = [calls EXCEPT ![m] =
            IF ~IsDirectory(records, calls[m].at)
            THEN Answer(calls[m], "Internal", {"ancestor vanished"})
            ELSE WalkTo(calls[m], Inode(records, calls[m].at).parent,
                        calls[m].depth + 1)]
    /\ UNCHANGED <<scenario, records, revision, export, reader, walker>>

\* One ancestor is read; its revision becomes a precondition.
ancestor_preconditions(m) ==
    /\ calls[m].phase = "walk"
    /\ LET call == calls[m]
           next == [call EXCEPT !.plan.pre =
                        @ \cup {Revision(records, InodeKey(call.at))}]
       IN calls' = [calls EXCEPT ![m] =
            IF ~IsDirectory(records, call.at)
            THEN Answer(call, "Internal", {"ancestor vanished"})
            ELSE WalkTo(next, Inode(records, call.at).parent, call.depth + 1)]
    /\ UNCHANGED <<scenario, records, revision, export, reader, walker>>

\* The directory to be replaced is read again, for its emptiness alone.
DestinationPage(m) ==
    /\ calls[m].phase = "page"
    /\ calls' = [calls EXCEPT ![m] =
            IF EntriesIn(records, calls[m].dest) /= {}
            THEN Answer(calls[m], "ENOTEMPTY", {})
            ELSE AfterPage(calls[m])]
    /\ UNCHANGED <<scenario, records, revision, export, reader, walker>>

(***************************************************************************)
(* Enumeration.  stable holds the entries that were there at every moment  *)
(* since the enumeration began; it is history, the code has no such state. *)
(***************************************************************************)
EntryRecords(recs, dir) ==
    {[name |-> k[3], child |-> recs[k].child, cookie |-> recs[k].cookie] :
        k \in EntriesIn(recs, dir)}
StillStable(recs) ==
    [reader EXCEPT !.stable = @ \cap EntryRecords(recs, reader.dir)]

\* A slip: the page starts at the offset instead of after it.
PageFromOffset(recs, dir, after) ==
    {e \in EntryRecords(recs, dir) :
        /\ e.cookie >= after
        /\ \A f \in EntryRecords(recs, dir) : f.cookie >= after => e.cookie <= f.cookie}

\* directory_candidates: the entry with the least cookie above the offset.
read_directory_page(recs, dir, after) ==
    {e \in EntryRecords(recs, dir) :
        /\ e.cookie > after
        /\ \A f \in EntryRecords(recs, dir) : f.cookie > after => e.cookie <= f.cookie}

readdir_check(grant) ==
    LET open == OpenKey(reader.open)
    IN IF validate_filesystem(records, grant) /= "ok" THEN "EAGAIN"
       ELSE IF ~Has(records, open) \/ ~IsInode(records, records[open].inode)
       THEN "EBADF"
       ELSE IF ~IsDirectory(records, records[open].inode) THEN "ENOTDIR"
       ELSE AndThen(check_directory_search(grant, Inode(records, reader.dir)),
                    check_inode_access(grant, Inode(records, reader.dir), {"read"}))

\* execute_readdir with room for one entry; an empty page ends the client's
\* enumeration.
ReadDir ==
    /\ reader.phase = "reading"
    /\ LET check == readdir_check(ResolveGrant(reader.caller, export))
           page == read_directory_page(records, reader.dir, reader.offset)
       IN reader' = IF check /= "ok" THEN [reader EXCEPT !.phase = "failed"]
                    ELSE IF page = {} THEN [reader EXCEPT !.phase = "done"]
                    ELSE LET e == CHOOSE e \in page : TRUE
                         IN [reader EXCEPT !.offset = e.cookie,
                                           !.seen = Append(@, e)]
    /\ UNCHANGED <<scenario, records, revision, export, calls, walker>>

(***************************************************************************)
(* A walk of names from a directory, one component at a time.              *)
(***************************************************************************)
WalkDone(out) == [walker EXCEPT !.phase = "done", !.out = out]
\* A later component that is missing ends the walk; the first one fails it.
WalkMissing == IF walker.first THEN WalkDone("ENOENT") ELSE WalkDone("ok")
Arrived(i, inode) ==
    IF Len(walker.names) = 1 THEN [WalkDone("ok") EXCEPT !.at = i]
    ELSE [walker EXCEPT !.phase = "entry", !.at = i, !.current = inode, !.tries = 0,
                        !.first = FALSE, !.names = Tail(@)]

WalkGrant == ResolveGrant(walker.caller, walker.policy)

\* execute_walk: the grant is resolved once and the starting inode is read.
StartWalk ==
    /\ walker.phase = "start"
    /\ walker' = IF records[FilesystemKey].policy /= export THEN WalkDone("EAGAIN")
                 ELSE IF ~IsInode(records, walker.at) THEN WalkDone("EBADF")
                 ELSE [walker EXCEPT !.phase = "entry", !.policy = export,
                                     !.current = Inode(records, walker.at)]
    /\ UNCHANGED <<scenario, records, revision, export, calls, reader>>

\* The search permission is checked on the record read for the previous
\* component; then ".." reads the parent that record names, and a name reads
\* its entry.
WalkEntry ==
    /\ walker.phase = "entry"
    /\ LET name == Head(walker.names)
           check == check_directory_search(WalkGrant, walker.current)
           up == walker.current.parent
           entry == DirectoryEntryKey(walker.at, name)
       IN walker' =
            IF check /= "ok" THEN WalkDone(check)
            ELSE IF name = ".." /\ walker.at = Root THEN Arrived(Root, walker.current)
            ELSE IF validate_filesystem(records, WalkGrant) /= "ok"
            THEN WalkDone("EAGAIN")
            ELSE IF name = ".."
            THEN IF IsInode(records, up) THEN Arrived(up, Inode(records, up))
                 ELSE WalkDone("EBADF")
            ELSE IF ~Has(records, entry) THEN WalkMissing
            ELSE [walker EXCEPT !.phase = "child", !.found = records[entry].child]
    /\ UNCHANGED <<scenario, records, revision, export, calls, reader>>

\* A slip: the inode is read without looking at the entry again.
ChildAlone ==
    /\ walker.phase = "child"
    /\ walker' = IF IsInode(records, walker.found)
                 THEN Arrived(walker.found, Inode(records, walker.found))
                 ELSE WalkDone("Internal")
    /\ UNCHANGED <<scenario, records, revision, export, calls, reader>>

\* read_child: entry and inode are read together; when the entry changed in
\* between, both reads are made again.
WalkChild ==
    /\ walker.phase = "child"
    /\ LET entry == DirectoryEntryKey(walker.at, Head(walker.names))
       IN walker' =
            IF validate_filesystem(records, WalkGrant) /= "ok"
            THEN WalkDone("EAGAIN")
            ELSE IF ChildAt(records, entry) /= walker.found
            THEN IF walker.tries + 1 = MaxAttempts THEN WalkDone("EAGAIN")
                 ELSE [walker EXCEPT !.phase = "entry", !.tries = @ + 1]
            ELSE IF ~IsInode(records, walker.found) THEN WalkDone("Internal")
            ELSE Arrived(walker.found, Inode(records, walker.found))
    /\ UNCHANGED <<scenario, records, revision, export, calls, reader>>

(***************************************************************************)
(* Commits.                                                                *)
(***************************************************************************)
Commit(m) ==
    /\ calls[m].phase = "commit"
    /\ LET call == calls[m]
           result == commit_request(records, call.plan, revision + 1)
           committed == result.outcome = "Committed"
       IN /\ records' = result.recs
          /\ revision' = IF committed THEN revision + 1 ELSE revision
          /\ reader' = StillStable(result.recs)
          /\ calls' = [calls EXCEPT ![m] =
                CASE committed -> Answer(call, "ok", {})
                  [] result.outcome = "Conflict" ->
                       IF call.tries + 1 = MaxAttempts
                       THEN Answer(call, "EAGAIN", {})
                       ELSE [IdleCall EXCEPT !.phase = "retry", !.op = call.op,
                                !.policy = call.policy, !.tries = call.tries + 1]
                  [] OTHER -> Answer(call, "Internal", result.why)]
    /\ UNCHANGED <<scenario, export, walker>>

\* The administrator changes what the export policy grants, and commits the
\* new policy generation to the filesystem, in either order.
ChangeExport ==
    /\ Issued.policyChanges
    /\ export = 1
    /\ export' = 2
    /\ UNCHANGED <<scenario, records, revision, calls, reader, walker>>

CommitPolicyGeneration ==
    /\ Issued.policyChanges
    /\ records[FilesystemKey].policy = 1
    /\ records' = apply_change(records, BumpPolicyGeneration, revision + 1)
    /\ revision' = revision + 1
    /\ UNCHANGED <<scenario, export, calls, reader, walker>>

Init ==
    /\ scenario \in DOMAIN Scenarios
    /\ records = Issued.records
    /\ revision = 1
    /\ export = 1
    /\ calls = [m \in Mutations |-> IdleCall]
    /\ reader = [Issued.reader EXCEPT !.stable =
                    EntryRecords(Issued.records, Issued.reader.dir)]
    /\ walker = Issued.walker

Next ==
    \/ \E m \in Mutations :
        \/ Begin(m)
        \/ Attempt(m)
        \/ SecondRead(m)
        \/ ancestor_preconditions(m)
        \/ DestinationPage(m)
        \/ Commit(m)
    \/ ReadDir
    \/ StartWalk
    \/ WalkEntry
    \/ WalkChild
    \/ ChangeExport
    \/ CommitPolicyGeneration

Spec == Init /\ [][Next]_vars

(***************************************************************************)
(* Properties.                                                             *)
(***************************************************************************)
Ids == {k[2] : k \in UNION {Family(Scenarios[s].records, "Inode") :
                              s \in DOMAIN Scenarios}} \cup Mutations
Callers == {op.caller : op \in UNION {Scenarios[s].operations :
                                        s \in DOMAIN Scenarios}}
Principals == {ResolveGrant(c, g).principal : c \in Callers, g \in {1, 2}}
                \cup {Inode(Issued.records, i).owner :
                        i \in {k[2] : k \in Family(Issued.records, "Inode")}}
Groups == UNION {ResolveGrant(c, g).groups : c \in Callers, g \in {1, 2}}
            \cup {Inode(Issued.records, i).group :
                    i \in {k[2] : k \in Family(Issued.records, "Inode")}}

\* Every record has the shape of its family, and the record set satisfies
\* every relation that validate_record_set_with_limits states.
NamespaceTypeOK ==
    /\ records[FilesystemKey] \in FilesystemRecord
    /\ \A k \in Family(records, "Inode") :
        records[k] \in InodeRecord(Ids, Principals, Groups)
    /\ \A k \in Family(records, "DirectoryEntry") :
        records[k] \in DirectoryEntryRecord(Ids)
    /\ \A k \in Family(records, "Open") :
        records[k] \in OpenRecord(Ids, Callers)
    /\ \A k \in Family(records, "OpenPin") : records[k] \in OpenPinRecord
    /\ \A k \in Family(records, "Orphan") : records[k] \in OrphanRecord
    /\ \A k \in Family(records, "ContentMetadata") :
        records[k] \in ContentMetadataRecord
    /\ validate_record_set(records) = {}
    /\ \A m \in Mutations : calls[m].tries < MaxAttempts

Reasons(op) == UNION {calls[m].why : m \in {n \in Mutations : calls[n].op.op = op}}

\* No rename of a directory, whatever other renames commit between the steps
\* of its ancestor walk, reaches the authority as a request that would make
\* a directory its own ancestor: the revisions collected by
\* ancestor_preconditions turn every such race into a conflict.
RenameNeverCycles == "directory cycle" \notin Reasons("rename")

\* Races between removals, renames and additions never make a request the
\* authority must reject as malformed, except one that the planners cannot
\* see: a directory deeper than the authority allows, a rename over the
\* source's own parent, and an ancestor that vanished during the walk, which
\* answer with an internal error.
NamespaceIntact ==
    /\ Reasons("create") \cup Reasons("unlink") \cup Reasons("setattr") = {}
    /\ Reasons("node") \subseteq {"directory ancestor limit"}
    /\ Reasons("rename") \subseteq {"directory ancestor limit", "directory cycle",
                                    "DuplicateChangeTarget", "ancestor vanished"}

\* An inode without a name lives exactly as long as it is open: releases,
\* opens and removals in any order keep its orphan record equal to the pins
\* that hold it.  Only an open or a link of an inode that is already an
\* orphan is refused, and as an internal error, because plan_open and
\* plan_link do not look at the link count.
OrphansPinned ==
    /\ \A k \in Family(records, "Inode") :
        records[k].links = 0 =>
            /\ Has(records, OrphanKey(k[2]))
            /\ records[OrphanKey(k[2])].count = PinCount(records, k[2])
            /\ PinCount(records, k[2]) > 0
    /\ Reasons("release") = {}
    /\ Reasons("open") \subseteq {"orphan open-pin count mismatch"}
    /\ Reasons("link") \subseteq {"orphan inode still has links",
                                  "link count differs from namespace"}

\* What an operation's caller must be allowed, in one state of the records.
Authorized(recs, op) ==
    LET grant == ResolveGrant(op.caller, recs[FilesystemKey].policy)
        at(i) == Inode(recs, i)
        removes(entry) ==
            check_sticky_directory(grant, at(entry[2]), at(recs[entry].child)) = "ok"
    IN CASE op.op \in {"create", "node", "link"} ->
              check_directory_mutation(grant, at(op.dir)) = "ok"
         [] op.op = "unlink" ->
              /\ check_directory_mutation(grant, at(op.dir)) = "ok"
              /\ removes(DirectoryEntryKey(op.dir, op.name))
         [] op.op = "rename" ->
              /\ check_directory_mutation(grant, at(op.dir)) = "ok"
              /\ check_directory_mutation(grant, at(op.dir2)) = "ok"
              /\ removes(RenameSource(op))
              /\ Has(recs, RenameTarget(op)) => removes(RenameTarget(op))
         [] op.op = "open" -> authorize_open(grant, at(op.target), op.access) = "ok"
         [] op.op = "setattr" -> setattr_authorize(grant, at(op.target), op) = "ok"
         [] op.op = "release" -> OpenOf(recs, op)

\* A mutation commits only if its caller is allowed to make it at that very
\* moment, under the policy generation and the modes then in force, however
\* much changed since the grant was resolved and the permissions checked.
CommittedAuthorized ==
    [][\A m \in Mutations :
        (calls[m].phase = "commit" /\ calls'[m].out = "ok")
            => Authorized(records, calls[m].op)]_vars

\* An enumeration returns no cookie twice and, when it ends, has returned
\* every entry that was in the directory from its beginning to its end,
\* however entries were added, removed and renamed between its pages.
PagesComplete ==
    /\ \A i, j \in DOMAIN reader.seen :
        i < j => reader.seen[i].cookie < reader.seen[j].cookie
    /\ reader.phase = "done" => reader.stable \subseteq Range(reader.seen)

\* A walk racing removals and renames answers with what was there, ENOENT,
\* EBADF or EAGAIN; it never takes an entry and its inode from different
\* moments and reports the state as malformed.
WalksConsistent == walker.out /= "Internal"

\* The directories whose depth exceeds the limit although no targeted inode
\* shows it: what the reference authority finds by looking at everything.
HiddenDepth(plan) ==
    LET staged == Staged(records, plan.chg, revision + 1)
    IN validate_record_set(staged) = {"directory ancestor limit"}
       /\ validate_targeted_invariants(staged, records, plan.chg) = {}

\* A removed directory that is still open names a parent the plan deletes.
OrphanKeepsParent(plan) ==
    \E k \in Family(records, "Inode") :
        /\ records[k].kind = "Directory" /\ records[k].links = 0
        /\ Delete(InodeKey(records[k].parent)) \in Range(plan.chg)


=============================================================================
