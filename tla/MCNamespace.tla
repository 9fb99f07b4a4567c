---------------------------- MODULE MCNamespace ----------------------------
(***************************************************************************)
(* Instances of Namespace: four small file systems, each with the          *)
(* operations that race on it.                                             *)
(***************************************************************************)
EXTENDS Namespace

CONSTANTS m1, m2, m3

MCMutations == {m1, m2, m3}
Symmetry == Permutations(MCMutations)

Everything == {ModeBit[c][r] : c \in DOMAIN ModeBit,
                               r \in {"read", "write", "execute"}}
Directory(qid, parent) ==
    [rev |-> 1, kind |-> "Directory", qid |-> qid, owner |-> "alice",
     group |-> "staff", mode |-> Everything, links |-> 1, gen |-> 1,
     parent |-> parent, dgen |-> 1]
File(qid, links) ==
    [Directory(qid, NoInode) EXCEPT !.kind = "RegularFile", !.links = links,
                                    !.dgen = 0]
Entry(child, cookie) == [rev |-> 1, child |-> child, cookie |-> cookie]
OpenBy(caller, inode) ==
    [rev |-> 1, inode |-> inode, client |-> caller, access |-> {"read"}]
Header(qids, cookies) ==
    FilesystemKey :> [rev |-> 1, root |-> Root, nextQid |-> qids,
                      nextCookie |-> cookies, policy |-> 1]

\* alice owns everything; bob is in no group; the second policy generation
\* makes the export read-only for bob.
MCGrant(caller, generation) ==
    [principal |-> caller, privileged |-> FALSE, policy |-> generation,
     groups |-> IF caller = "alice" THEN {"staff"} ELSE {"guests"},
     readOnly |-> caller = "bob" /\ generation = 2]

NoReader == [phase |-> "none", dir |-> Root, open |-> "o", caller |-> "alice",
             offset |-> 0, seen |-> <<>>, stable |-> {}]
NoWalker == [phase |-> "none", caller |-> "alice", at |-> Root, names |-> <<>>,
             current |-> Directory(1, Root), found |-> NoInode, tries |-> 0,
             first |-> TRUE, policy |-> 0, out |-> "none"]

Rename(p, n, q, o) == [op |-> "rename", caller |-> "alice", dir |-> p, name |-> n,
                       dir2 |-> q, name2 |-> o]
Unlink(p, n, dir) == [op |-> "unlink", caller |-> "alice", dir |-> p, name |-> n,
                      removeDir |-> dir]
Mkdir(p, n) == [op |-> "node", caller |-> "alice", dir |-> p, name |-> n,
                kind |-> "Directory", group |-> "staff", mode |-> Everything]
Create(p, n) == [op |-> "create", caller |-> "alice", dir |-> p, name |-> n,
                 group |-> "staff", mode |-> Everything, access |-> {"write"}]
Link(p, n, t) == [op |-> "link", caller |-> "alice", dir |-> p, name |-> n,
                  target |-> t]
Open(t) == [op |-> "open", caller |-> "alice", target |-> t, access |-> {"read"}]
Release(o) == [op |-> "release", caller |-> "alice", open |-> o]
Chmod(t, mode) == [op |-> "setattr", caller |-> "alice", target |-> t,
                   newMode |-> {mode}, owner |-> {}, group |-> {}]
By(caller, op) == [op EXCEPT !.caller = caller]

(***************************************************************************)
(* Directories only: /p/a/c and /b/d, moved into each other.  No parent is *)
(* shared by the moves that would close a cycle.                           *)
(***************************************************************************)
Tree ==
    Header(7, 6)
    @@ InodeKey(Root) :> Directory(1, Root)
    @@ InodeKey("p") :> Directory(2, Root)
    @@ InodeKey("a") :> Directory(3, "p")
    @@ InodeKey("c") :> Directory(4, "a")
    @@ InodeKey("b") :> Directory(5, Root)
    @@ InodeKey("d") :> Directory(6, "b")
    @@ DirectoryEntryKey(Root, "x") :> Entry("p", 1)
    @@ DirectoryEntryKey("p", "x") :> Entry("a", 2)
    @@ DirectoryEntryKey("a", "x") :> Entry("c", 3)
    @@ DirectoryEntryKey(Root, "y") :> Entry("b", 4)
    @@ DirectoryEntryKey("b", "x") :> Entry("d", 5)

Moves ==
    [records |-> Tree, mutations |-> MCMutations, policyChanges |-> FALSE,
     reader |-> NoReader, walker |-> NoWalker,
     operations |->
        {Rename("p", "x", "d", "y"), Rename(Root, "y", "c", "y"),
         Rename("a", "x", "p", "x"), Rename("a", "x", "b", "x"),
         Rename("b", "x", "c", "y"), Unlink("b", "x", TRUE), Mkdir("c", "y")}]

(***************************************************************************)
(* A file with two names, open once; an open directory inside another.     *)
(***************************************************************************)
Open1 == "o"
Files ==
    Header(5, 5)
    @@ InodeKey(Root) :> Directory(1, Root)
    @@ InodeKey("a") :> Directory(2, Root)
    @@ InodeKey("c") :> Directory(3, "a")
    @@ InodeKey("f") :> File(4, 2)
    @@ ContentMetadataKey("f") :> [rev |-> 1]
    @@ DirectoryEntryKey(Root, "x") :> Entry("a", 1)
    @@ DirectoryEntryKey(Root, "y") :> Entry("f", 2)
    @@ DirectoryEntryKey(Root, "z") :> Entry("f", 3)
    @@ DirectoryEntryKey("a", "x") :> Entry("c", 4)
    @@ OpenKey(Open1) :> OpenBy("alice", "f")
    @@ OpenPinKey("f", Open1) :> [rev |-> 1]

Orphans ==
    [records |-> Files, mutations |-> MCMutations, policyChanges |-> FALSE,
     reader |-> NoReader, walker |-> NoWalker,
     operations |->
        {Unlink(Root, "y", FALSE), Rename(Root, "z", Root, "y"),
         Rename(Root, "z", "a", "y"), Unlink(Root, "z", FALSE), Link("a", "y", "f"),
         Open("f"), Release(Open1), Create(Root, "z")}]

(***************************************************************************)
(* Removed directories: /p/a/c is open, and removed with its parents.      *)
(***************************************************************************)
Removals ==
    [records |->
        Tree @@ OpenKey(Open1) :> OpenBy("alice", "c")
             @@ OpenPinKey("c", Open1) :> [rev |-> 1],
     mutations |-> MCMutations, policyChanges |-> FALSE,
     reader |-> NoReader, walker |-> NoWalker,
     operations |->
        {Unlink("a", "x", TRUE), Unlink("p", "x", TRUE), Release(Open1),
         Mkdir("c", "y"), Open("c"), Rename("b", "x", "a", "x"),
         Rename("a", "x", "p", "x")}]

(***************************************************************************)
(* bob works in a directory whose modes and policy alice changes.          *)
(***************************************************************************)
Sticky == Everything \cup {"sticky"}
Private == {"u+r", "u+w", "u+x"}
Rights ==
    [records |-> Files, mutations |-> {m1, m2, m3}, policyChanges |-> TRUE,
     reader |-> NoReader, walker |-> NoWalker,
     operations |->
        {By("bob", Unlink(Root, "y", FALSE)),
         By("bob", Rename(Root, "z", "a", "y")),
         By("bob", [Mkdir("a", "y") EXCEPT !.group = "guests"]),
         By("bob", Open("f")), Chmod(Root, Sticky), Chmod("a", Private),
         Chmod("f", Private)}]

(***************************************************************************)
(* An enumeration of the root and a walk, among changes to what they read. *)
(***************************************************************************)
Reads ==
    [records |-> Files @@ OpenKey("d") :> OpenBy("alice", Root)
                       @@ OpenPinKey(Root, "d") :> [rev |-> 1],
     mutations |-> {m1, m2}, policyChanges |-> FALSE,
     reader |-> [NoReader EXCEPT !.phase = "reading", !.open = "d"],
     walker |-> [NoWalker EXCEPT !.phase = "start",
                                 !.names = <<"x", "x", "..", "x">>],
     operations |->
        {Unlink(Root, "y", FALSE), Rename(Root, "y", Root, "w"),
         Rename(Root, "x", Root, "z"), Rename("a", "x", Root, "x"),
         Unlink("a", "x", TRUE), Create(Root, "w"), Chmod("a", Private)}]

MCScenarios == [moves |-> Moves, orphans |-> Orphans, removals |-> Removals,
                rights |-> Rights, reads |-> Reads]

=============================================================================
