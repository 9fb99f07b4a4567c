--------------------------- MODULE Authorization ---------------------------
(***************************************************************************)
(* The permission rules of w9pt-fs (authorization.rs): what a resolved     *)
(* export grant may do to an inode.  A mode is the set of its bits, each   *)
(* named by the class it belongs to and the right it gives; principals and *)
(* groups are opaque identities.  A check answers "ok" or the errno that   *)
(* authorization_client_error gives the client.                            *)
(***************************************************************************)

ModeBit == [owner |-> [read |-> "u+r", write |-> "u+w", execute |-> "u+x"],
            group |-> [read |-> "g+r", write |-> "g+w", execute |-> "g+x"],
            other |-> [read |-> "o+r", write |-> "o+w", execute |-> "o+x"]]

ModeBits == {ModeBit[c][r] : c \in DOMAIN ModeBit,
                             r \in {"read", "write", "execute"}}
            \cup {"sticky", "setgid"}

\* Result::and_then: the second check runs only when the first one passes.
AndThen(first, second) == IF first = "ok" THEN second ELSE first

belongs_to_group(grant, group) == group \in grant.groups

PermissionClass(grant, inode) ==
    IF grant.principal = inode.owner THEN "owner"
    ELSE IF belongs_to_group(grant, inode.group) THEN "group" ELSE "other"

check_inode_access(grant, inode, required) ==
    LET class == PermissionClass(grant, inode)
        granted == IF grant.privileged
                   THEN \/ "execute" \notin required
                        \/ inode.kind = "Directory"
                        \/ \E c \in DOMAIN ModeBit :
                               ModeBit[c].execute \in inode.mode
                   ELSE {ModeBit[class][r] : r \in required} \subseteq inode.mode
    IN IF granted THEN "ok" ELSE "EACCES"

check_mutation_allowed(grant) == IF grant.readOnly THEN "EROFS" ELSE "ok"

require_directory(inode) == IF inode.kind = "Directory" THEN "ok" ELSE "ENOTDIR"

check_directory_search(grant, inode) ==
    AndThen(require_directory(inode),
            check_inode_access(grant, inode, {"execute"}))

\* A directory that was removed while it is still open takes no new entries.
check_directory_mutation(grant, inode) ==
    AndThen(check_mutation_allowed(grant),
    AndThen(require_directory(inode),
    IF inode.links = 0
    THEN "EPERM"
    ELSE check_inode_access(grant, inode, {"write", "execute"})))

check_sticky_directory(grant, directory, target) ==
    AndThen(require_directory(directory),
            IF \/ "sticky" \notin directory.mode
               \/ grant.privileged
               \/ grant.principal \in {directory.owner, target.owner}
            THEN "ok" ELSE "EPERM")

check_owner_or_privileged(grant, inode) ==
    IF grant.privileged \/ grant.principal = inode.owner THEN "ok" ELSE "EPERM"

\* owner and group are options: the empty set, or the one requested identity.
check_ownership_change(grant, inode, owner, group) ==
    AndThen(check_mutation_allowed(grant),
    IF grant.privileged THEN "ok"
    ELSE AndThen(check_owner_or_privileged(grant, inode),
                 IF owner \subseteq {inode.owner} /\ group \subseteq grant.groups
                 THEN "ok" ELSE "EPERM"))

\* The group a new inode gets, the bits it gets, or the refusal.
creation_attributes(grant, parent, group, mode, kind) ==
    LET inherits == "setgid" \in parent.mode
        newGroup == IF inherits THEN parent.group ELSE group
        allowed  == inherits \/ grant.privileged \/ belongs_to_group(grant, group)
        wanted   == IF inherits /\ kind = "Directory"
                    THEN mode \cup {"setgid"} ELSE mode
        keeps    == \/ kind = "Directory"
                    \/ grant.privileged
                    \/ belongs_to_group(grant, newGroup)
    IN [check |-> AndThen(require_directory(parent),
                          IF allowed THEN "ok" ELSE "EPERM"),
        group |-> newGroup,
        mode  |-> IF keeps THEN wanted ELSE wanted \ {"setgid"}]

\* authorize_open: what each kind of inode asks of the opener.
authorize_open(grant, inode, access) ==
    CASE inode.kind = "Directory" ->
           IF access /= {"read"} THEN "EISDIR"
           ELSE AndThen(check_directory_search(grant, inode),
                        check_inode_access(grant, inode, {"read"}))
      [] inode.kind = "RegularFile" ->
           AndThen(IF "write" \in access THEN check_mutation_allowed(grant)
                                         ELSE "ok",
                   check_inode_access(grant, inode, access))
      [] inode.kind = "Symlink" -> "ELOOP"

=============================================================================
