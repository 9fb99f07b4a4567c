----------------------------- MODULE MCSession -----------------------------
(* Request mixes for model checking Session, one per question asked of it. *)
EXTENDS Session, TLC

Req(kind, tag, fid, other, old, n) ==
    [kind |-> kind, tag |-> tag, fid |-> fid, other |-> other, old |-> old, n |-> n]

Version == {Req("version", NOTAG, NoFid, NoFid, NOTAG, 1)}
On(kind, sizes) == {Req(kind, t, f, NoFid, NOTAG, n) : t \in Tags, f \in Fids, n \in sizes}
Pair(kind) == {Req(kind, t, f, g, NOTAG, 0) : t \in Tags, f \in Fids, g \in Fids}
Attach == On("attach", {0})
Flush == {Req("flush", t, NoFid, NoFid, u, 0) : t \in Tags, u \in Tags}

(* Frames that break the rules on tags and dialects.                       *)
Odd == {Req("version", NOTAG, NoFid, NoFid, NOTAG, 0)}
       \cup {Req("version", t, NoFid, NoFid, NOTAG, 1) : t \in Tags}
       \cup {Req("attr", NOTAG, f, NoFid, NOTAG, 0) : f \in Fids}

FlushRequests == Version \cup Attach \cup Flush
HandleRequests == Version \cup On("auth", {0}) \cup Attach \cup Pair("attach")
                  \cup Pair("walk") \cup Pair("clone") \cup Pair("xattrwalk")
                  \cup On("xattrcreate", {2}) \cup On("open", {0}) \cup On("read", {0})
                  \cup On("write", {1, 2}) \cup On("clunk", {0}) \cup On("remove", {0})
OtherRequests == Odd \cup On("file", {0}) \cup On("attr", {0})
                 \cup On("namespace", {0}) \cup Pair("namespace")
AllRequests == HandleRequests \cup OtherRequests

TagSymmetry == Permutations(Tags)
Symmetry == Permutations(Tags) \cup Permutations(Fids)
=============================================================================
