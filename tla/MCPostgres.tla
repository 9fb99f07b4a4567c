----------------------------- MODULE MCPostgres -----------------------------
(***************************************************************************)
(* Instances of PostgresAuthority: small tables and three connections,     *)
(* each with the one request it makes.                                     *)
(***************************************************************************)
EXTENDS PostgresAuthority

CONSTANTS c1, c2, c3

MCClients == {c1, c2, c3}

Everything == {ModeBit[c][r] : c \in DOMAIN ModeBit,
                               r \in {"read", "write", "execute"}}
Directory(qid, parent, links) ==
    [rev |-> 2, kind |-> "Directory", qid |-> qid, owner |-> "alice",
     group |-> "staff", mode |-> Everything, links |-> links, gen |-> 1,
     parent |-> parent, dgen |-> 1]
OpenBy(client, inode) ==
    [rev |-> 2, inode |-> inode, client |-> client, access |-> {"read"}]
Lock(client, open, from, to, kind) ==
    [rev |-> 2, client |-> client, open |-> open, range |-> <<from, to>>,
     kind |-> kind, gen |-> 1]

MCByteOrder == <<"a", "b", "boot", "f", "fs", "g", "l1", "l2", "lx", "m1", "m2", "m3",
                 "n", "name", "nm", "oa", "ob", "ox", "oy", Root, "s">>

File(qid, links) == [Directory(qid, NoInode, links) EXCEPT !.kind = "RegularFile",
                                                           !.dgen = 0]

\* A root with a removed directory "a" that is still open and whose removed
\* child "b" is open too; both clients have the root open; a file "f" has
\* two names.
Records0 ==
    FilesystemKey :> [rev |-> 2, root |-> Root, nextQid |-> 5, nextCookie |-> 3,
                      policy |-> 1]
    @@ InodeKey(Root) :> Directory(1, Root, 1)
    @@ InodeKey("a") :> Directory(2, Root, 0)
    @@ InodeKey("b") :> Directory(3, "a", 0)
    @@ InodeKey("f") :> File(4, 2)
    @@ ContentMetadataKey("f") :> [rev |-> 2]
    @@ DirectoryEntryKey(Root, "name") :> [rev |-> 2, child |-> "f", cookie |-> 1]
    @@ DirectoryEntryKey(Root, "n") :> [rev |-> 2, child |-> "f", cookie |-> 2]
    @@ XattrKey("f", "n") :> [rev |-> 2, bytes |-> <<7>>]
    @@ OrphanKey("a") :> [rev |-> 2, count |-> 1]
    @@ OrphanKey("b") :> [rev |-> 2, count |-> 1]
    @@ OpenKey("oa") :> OpenBy("x", "a") @@ OpenPinKey("a", "oa") :> [rev |-> 2]
    @@ OpenKey("ob") :> OpenBy("x", "b") @@ OpenPinKey("b", "ob") :> [rev |-> 2]
    @@ OpenKey("ox") :> OpenBy("x", Root) @@ OpenPinKey(Root, "ox") :> [rev |-> 2]
    @@ OpenKey("oy") :> OpenBy("y", Root) @@ OpenPinKey(Root, "oy") :> [rev |-> 2]
    @@ LockKey(Root, "lx") :> Lock("x", "ox", 0, 4, "Exclusive")
    @@ XattrStagingKey("s") :> [rev |-> 2, inode |-> Root, name |-> "n",
                                bytes |-> <<7>>, expected |-> 1]

Fence(holder, token) ==
    [scope |-> "fs", holder |-> holder, lease |-> "l", token |-> token]
Fence1 == Fence("w1", 1)
Lease1(deadline) == [greatest |-> 1, active |-> [fence |-> Fence1, deadline |-> deadline]]

Boot(revision, kind, id) ==
    [revision |-> revision, by |-> "boot", keys |-> {FilesystemKey},
     origin |-> <<kind, id>>]
Acquire1 == [kind |-> "acquire", id |-> "acquire1", fence |-> Fence("w1", 0),
             duration |-> 2]

\* A lease was granted at revision 2 and the records written at 3.
Tables(deadline) ==
    [created |-> TRUE, revision |-> 3, oldest |-> 1, records |-> Records0,
     ledger |-> [m \in {"boot"} |-> [print |-> "p", revision |-> 3, fence |-> Fence1]],
     fences |-> "fs" :> Lease1(deadline),
     leaseOps |-> "acquire1" :> [request |-> Acquire1,
        outcome |-> [kind |-> "Applied", grant |-> Lease1(deadline).active]],
     changes |-> 2 :> Boot(2, "lease", "acquire1") @@ 3 :> Boot(3, "mutation", "boot"),
     log |-> <<Boot(2, "lease", "acquire1"), Boot(3, "mutation", "boot")>>]
Fresh ==
    [created |-> FALSE, revision |-> 1, oldest |-> 1, records |-> <<>>,
     ledger |-> <<>>, fences |-> <<>>, leaseOps |-> <<>>, changes |-> <<>>,
     log |-> <<>>]

Commit(id, print, pre, chg) ==
    [kind |-> "commit", id |-> id, print |-> print, fence |-> Fence1,
     plan |-> [pre |-> pre, chg |-> chg]]
Acquire(id, holder, duration) ==
    [kind |-> "acquire", id |-> id, fence |-> Fence(holder, 0), duration |-> duration]
Renew(id, fence) == [kind |-> "renew", id |-> id, fence |-> fence, duration |-> 2]
Release(id, fence) == [kind |-> "release", id |-> id, fence |-> fence, duration |-> 0]

At2(key) == Field(key, "rev", 2)
PolicyBump(id, print) ==
    Commit(id, print, {At2(FilesystemKey)}, <<BumpPolicyGeneration>>)
Unlocks == Delete(LockKey(Root, "lx"))
Locks(l, open, client, from, to, kind) ==
    Insert(LockKey(Root, l), Lock(client, open, from, to, kind))

RootChanged ==
    Replace(InodeKey(Root), [Records0[InodeKey(Root)] EXCEPT !.gen = 2, !.dgen = 2])
Entry(name, child) ==
    Insert(DirectoryEntryKey(Root, name), [rev |-> 0, child |-> child, cookie |-> 3])
Creates(id) ==
    Commit(id, "p", {At2(InodeKey(Root))},
           <<Insert(InodeKey("g"), File(5, 1)), Entry("nm", "g"),
             Insert(ContentMetadataKey("g"), [rev |-> 0]), RootChanged,
             AdvanceQidPath, AdvanceDirectoryCookie>>)

Scenario(tables, maxTime, maxFaults, r1, r2, r3) ==
    [db |-> tables, maxTime |-> maxTime, faults |-> maxFaults,
     requests |-> c1 :> r1 @@ c2 :> r2 @@ c3 :> r3]

MCScenarios ==
    [\* One mutation from two connections, and another that conflicts with it.
     replay |-> Scenario(Tables(5), 0, 2,
        PolicyBump("m1", "p"), PolicyBump("m1", "p"), PolicyBump("m2", "p")),
     \* One identity for two requests; a request that is malformed.
     mismatch |-> Scenario(Tables(5), 0, 1,
        Commit("m1", "p", {}, <<RetainResult>>),
        PolicyBump("m1", "q"), Commit("m3", "p", {}, <<>>)),
     \* The lease expires and is taken over while its holder commits.
     takeover |-> Scenario(Tables(1), 2, 1,
        PolicyBump("m1", "p"), Acquire("a2", "w2", 2), Renew("n1", Fence1)),
     \* A file is created, twice by one mutation, and another gets a name.
     names |-> Scenario(Tables(5), 0, 1,
        Creates("m1"), Creates("m1"),
        Commit("m2", "p", {At2(InodeKey(Root))},
               <<Entry("nm", "f"), Replace(InodeKey("f"), [File(4, 3) EXCEPT !.gen = 2]),
                 RootChanged, AdvanceDirectoryCookie>>)),
     \* Byte-range locks and a staged attribute.
     locks |-> Scenario(Tables(5), 0, 1,
        Commit("m1", "p", {}, <<Unlocks, Locks("l1", "oy", "y", 2, ThroughEof, "Shared")>>),
        Commit("m2", "p", {}, <<Locks("l2", "oy", "y", 3, 5, "Exclusive")>>),
        Commit("m3", "p", {}, <<PublishXattrStaging("s", Root, "n"),
                                BumpLockGeneration(Root, "lx")>>)),
     \* A new authority: one lease operation twice, and a competitor.
     first |-> Scenario(Fresh, 0, 2,
        Acquire("a1", "w1", 2), Acquire("a1", "w1", 2), Acquire("a2", "w2", 2)),
     \* The lease history has room for one operation: a rejection or a release.
     full |-> Scenario([Tables(5) EXCEPT !.leaseOps = Put(@, "a0",
            [request |-> Acquire("a0", "w2", 1), outcome |-> Rejected("Busy")])], 0, 1,
        Acquire("a2", "w2", 2), Release("r1", Fence1), Acquire("a2", "w3", 2)),
     \* The removed parent of an open directory cannot be deleted.
     orphan |-> Scenario(Tables(5), 1, 1,
        Commit("m1", "p", {}, <<Delete(OpenKey("oa")), Delete(OpenPinKey("a", "oa")),
                                Delete(OrphanKey("a")), Delete(InodeKey("a"))>>),
        Release("r1", Fence1), Acquire("a2", "w2", 9))]

=============================================================================
