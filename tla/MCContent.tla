------------------------------ MODULE MCContent ------------------------------
(* Small files and mutations for ContentPublication. *)
EXTENDS ContentPublication

MCLimits == [raw |-> 24, write |-> 24, read |-> 40, materialized |-> 16,
             page_reads |-> 40, page_writes |-> 40]

Mutate(kind, mutation, offset, data) ==
  [kind |-> kind, mutation |-> mutation, offset |-> offset, data |-> data, master |-> 0, to |-> 0]

Keyed(op, master, to) == [op EXCEPT !.master = master, !.to = to]

Context(method, compressed, dek) ==
  FileCryptoContext(1, 7, FileStoragePolicy(method, compressed, dek # 0), 1, dek)

Scenario(authority, context, initial, ops, reading, faults, restarts, refusals) ==
  [authority |-> authority, context |-> context, initial |-> initial, ops |-> ops,
   reader |-> reading, faults |-> faults, restarts |-> restarts, refusals |-> refusals]

Reading(kind, offset, length, master) ==
  [kind |-> kind, offset |-> offset, length |-> length, master |-> master]

MCScenarios == {
  \* Two creators of one file.
  Scenario("head", Context(Raw, TRUE, 0), None,
    <<Mutate("create", 11, 0, <<5, 5, 5, 5>>), Mutate("create", 12, 0, <<6>>)>>,
    None, 1, 1, {}),
  \* A write across blocks against a truncation inside a block.
  Scenario("head", Context(BlockSplit, TRUE, 0), Mutate("create", 10, 0, <<1, 2, 3, 4, 5, 6, 7>>),
    <<Mutate("write", 11, 5, <<8, 8, 8>>), Mutate("truncate", 12, 4, <<>>)>>,
    None, 1, 1, {}),
  \* Sparse blocks of an encrypted file; a reader holds on to the old content.
  Scenario("head", Context(BlockSplit, FALSE, 9), Mutate("write", 10, 13, <<3, 4>>),
    <<Mutate("write", 11, 1, <<7>>), Mutate("truncate", 12, 20, <<>>)>>,
    Reading("read", 10, 6, 0), 0, 1, {}),
  \* Two appends to a file nothing was written to.
  Scenario("inode", Context(Raw, TRUE, 0), None,
    <<Mutate("append", 11, 0, <<4, 4, 4, 4>>), Mutate("append", 12, 0, <<5>>)>>,
    Reading("read", 0, 9, 0), 1, 1, {}),
  \* An append against the truncation that removes its block, and a chmod.
  Scenario("inode", Context(BlockSplit, TRUE, 0), Mutate("create", 10, 0, <<1, 2, 3, 4>>),
    <<Mutate("append", 11, 0, <<6, 6, 6>>), Mutate("truncate", 12, 2, <<>>),
      Mutate("chmod", 13, 0, <<>>)>>,
    None, 0, 1, {}),
  \* A write, a rewrap of the file's key and a reader that has the old master.
  Scenario("inode", Context(BlockSplit, FALSE, 9), None,
    <<Keyed(Mutate("write", 11, 2, <<2, 2>>), 1, 0), Keyed(Mutate("rewrap", 12, 0, <<>>), 1, 2),
      Keyed(Mutate("truncate", 13, 1, <<>>), 2, 0)>>,
    Reading("fsync", 0, 0, 1), 0, 1, {"representation"}),
  \* A write of nothing, a write past the limit, and growth of a new file.
  Scenario("inode", Context(Raw, FALSE, 0), None,
    <<Mutate("write", 11, 0, <<>>), Mutate("write", 12, 23, <<1, 1>>), Mutate("truncate", 13, 5, <<>>)>>,
    Reading("read", 3, 9, 0), 1, 1, {"limit"})
  }
=============================================================================
