------------------------- MODULE ContentPublication -------------------------
(***************************************************************************)
(* Clients that change one file at the same time: each prepares immutable   *)
(* objects, stores them one by one, and then publishes the manifest.  The   *)
(* publication point is either the file's mutable head object               *)
(* (w9pt-fs-storage/src/publisher.rs) or the inode record of the metadata   *)
(* authority (write and setattr of w9pt-fs, with the content metadata that  *)
(* holds the wrapped key).                                                  *)
(*                                                                          *)
(* A client may stop between any two stored objects and a later incarnation *)
(* repeat the same mutation from the start.  A request whose answer is lost *)
(* stays in `network' and may take effect at any later time, or never.      *)
(* Reads of immutable objects are part of the step that uses them: what     *)
(* they return does not change.                                             *)
(***************************************************************************)
EXTENDS ContentLayout, TargetStore

CONSTANTS Scenarios,          \* the files, mutations, faults and restarts to start from
          MaxPublishRetries,  \* StorageLimits::max_publish_retries
          MaxConflictRetries  \* EngineLimits::max_conflict_retries

VARIABLES scenario,   \* authority, policy, mutations and reader of this behaviour
          objects,    \* immutable objects of the target, by key
          head,       \* the head object, None before the file is created
          inode,      \* the inode record's content fields
          metadata,   \* the content metadata record
          ledger,     \* mutations the metadata authority has committed
          network,    \* requests whose answer was lost and that may still land
          calls,      \* the local state of each client
          reader,     \* the local state of a reader
          history,    \* history: every publication, with the bytes it stands for
          budget      \* faults and restarts that may still happen

vars == <<scenario, objects, head, inode, metadata, ledger, network, calls, reader,
          history, budget>>

Op(c) == scenario.ops[c]
OnHead == scenario.authority = "head"

----------------------------------------------------------------------------
(* The file's content context, from its retained metadata.                  *)

ContentMetadata(file, id, policy, dek, master, revision) ==
  [file |-> file, id |-> id, policy |-> policy, dek |-> dek, master |-> master,
   revision |-> revision]

\* The wrapped key opens only under the master that wrapped it last.
unwrap_dek(meta, master) == IF master = meta.master THEN [dek |-> meta.dek] ELSE None

open_committed_context(meta, master) ==
  IF ~meta.policy.encrypted THEN FileCryptoContext(meta.file, meta.id, meta.policy, meta.revision, 0)
  ELSE LET key == unwrap_dek(meta, master) IN
       IF key = None THEN None
       ELSE FileCryptoContext(meta.file, meta.id, meta.policy, meta.revision, key.dek)

rewrap_content_metadata(meta, old_master, new_master) ==
  IF ~meta.policy.encrypted \/ unwrap_dek(meta, old_master) = None THEN None
  ELSE [meta EXCEPT !.master = new_master]

Repository(context) == [objects |-> objects, context |-> context]

----------------------------------------------------------------------------
(* What a mutation does to the bytes of the file, and its preparation.      *)

Effect(op, bytes) ==
  LET start == IF op.kind = "append" THEN Len(bytes) ELSE op.offset
      stop == start + Len(op.data)
  IN IF op.kind \in {"rewrap", "chmod"} THEN bytes
     ELSE IF op.kind = "truncate"
     THEN [i \in 1..op.offset |-> IF i \in DOMAIN bytes THEN bytes[i] ELSE 0]
     ELSE IF op.data = <<>> THEN bytes
     ELSE [i \in 1..Max({Len(bytes), stop}) |->
             IF i > start /\ i <= stop THEN op.data[i - start]
             ELSE IF i \in DOMAIN bytes THEN bytes[i] ELSE 0]

\* `content' is the base, None when nothing is published yet.
Prepare(r, op, content, attempt) ==
  LET start == IF op.kind # "append" THEN op.offset
               ELSE IF content = None THEN 0 ELSE content.size
  IN IF op.kind = "create" THEN prepare_create(r, op.mutation, attempt, op.data)
     ELSE IF op.kind = "truncate" /\ content = None
     THEN prepare_truncate_from_new(r, op.mutation, attempt, op.offset)
     ELSE IF op.kind = "truncate"
     THEN prepare_truncate(r, content, op.mutation, attempt, op.offset)
     ELSE IF content = None THEN prepare_write_from_new(r, op.mutation, attempt, start, op.data)
     ELSE prepare_write(r, content, op.mutation, attempt, start, op.data)

----------------------------------------------------------------------------
(* Clients.  A call's stages: load (read the publication point and prepare), *)
(* put (store the prepared objects in order), publish, resolve (read back an *)
(* ambiguous head replacement), done.                                        *)

Start(incarnation) ==
  [stage |-> "load", incarnation |-> incarnation, attempt |-> 0, base |-> None,
   prepared |-> None, next |-> 0, fingerprint |-> None, answer |-> ""]

Answer(call, answer) == [call EXCEPT !.stage = "done", !.answer = answer]

Faulty == budget.faults > 0
UseFault == budget' = [budget EXCEPT !.faults = @ - 1]

Publication(c, content) ==
  [mutation |-> Op(c).mutation, client |-> c, incarnation |-> calls[c].incarnation,
   content |-> content, bytes |-> Effect(Op(c), history[Len(history)].bytes)]

\* The call after a definitive conflict: prepared again, or given up.
Rebased(call, limit) ==
  IF call.attempt + 1 > limit THEN Answer(call, "conflict")
  ELSE [call EXCEPT !.stage = "load", !.attempt = @ + 1, !.base = None, !.prepared = None,
                    !.next = 0]

----------------------------------------------------------------------------
(* Publication through the head object.                                     *)

load_content(r, h) ==
  IF h.key \notin DOMAIN r.objects THEN None
  ELSE LET o == r.objects[h.key]
           content == ContentRef(o.packed, h.key, h.digest) IN
       IF /\ validate_head(h, r.context.file)
          /\ o.packed.generation = h.generation
          /\ o.provenance.identity.mutation = h.mutation
          /\ load_manifest(r.objects, r.context, content) # None
       THEN [content |-> content, mutation |-> h.mutation,
             fingerprint |-> o.provenance.identity.fingerprint, head |-> h]
       ELSE None

validate_preparation(prepared, base, op) ==
  LET identity == prepared.prep.identity
      content == prepared.content
  IN /\ identity.mutation = op.mutation
     /\ identity.base = IF base = None THEN NEW_FILE ELSE from_content(base.content)
     /\ prepared.changed =>
          validate_object_key(scenario.context, content.file,
            ObjectProvenance("manifest", identity, prepared.prep.attempt, <<content.generation>>),
            content.key)

\* What mutate_rebased decides once the preparation is stored.
AfterHeadPreparation(call, op) ==
  LET identity == call.prepared.prep.identity IN
  IF ~validate_preparation(call.prepared, call.base, op) THEN Answer(call, "preparation")
  ELSE IF call.base = None THEN [call EXCEPT !.stage = "publish"]
  ELSE IF call.base.mutation = op.mutation
  THEN Answer(call, IF call.base.fingerprint = identity.fingerprint THEN "published"
                    ELSE "fingerprint")
  ELSE IF call.fingerprint \notin {None, [is |-> identity.fingerprint]}
  THEN Answer(call, "fingerprint")
  ELSE IF ~call.prepared.changed THEN Answer(call, "unchanged")
  ELSE IF call.prepared.content.generation # call.base.content.generation + 1
  THEN Answer(call, "generation")
  ELSE [call EXCEPT !.stage = "publish", !.fingerprint = [is |-> identity.fingerprint]]

\* The engine goes on to its commit whether or not the bytes changed.
AfterPreparation(call, op) ==
  IF OnHead THEN AfterHeadPreparation(call, op) ELSE [call EXCEPT !.stage = "publish"]

WithPrepared(call, op, prepared) ==
  LET ready == [call EXCEPT !.prepared = prepared, !.next = 1] IN
  IF prepared.err # "" THEN Answer(call, prepared.err)
  ELSE IF prepared.puts = <<>> THEN AfterPreparation(ready, op)
  ELSE [ready EXCEPT !.stage = "put"]

\* A creation prepares without looking at the head; every other mutation on
\* the content it loads, None when that fails.
PrepareOnHead(call, op, current) ==
  IF op.kind # "create" /\ head = None THEN Answer(call, "missing")
  ELSE IF op.kind # "create" /\ current = None THEN Answer(call, "corruption")
  ELSE WithPrepared([call EXCEPT !.base = current], op,
         Prepare(Repository(scenario.context), op,
                 IF current = None THEN None ELSE current.content, call.attempt))

LoadHead(c) ==
  LET op == Op(c)
  IN /\ OnHead
     /\ calls[c].stage = "load"
     /\ \/ /\ calls' = [calls EXCEPT ![c] = PrepareOnHead(@, op,
                          IF op.kind = "create" \/ head = None THEN None
                          ELSE load_content(Repository(scenario.context), head))]
           /\ UNCHANGED budget
        \/ /\ op.kind # "create"
           /\ Faulty /\ UseFault
           /\ calls' = [calls EXCEPT ![c] = Answer(@, "target")]
     /\ UNCHANGED <<scenario, objects, head, inode, metadata, ledger, network, reader, history>>

\* put_immutable for the next prepared object, with resolve_ambiguous_immutable.
PutImmutable(c) ==
  LET call == calls[c]
      put == call.prepared.puts[call.next]
      absent == put.key \notin DOMAIN objects
      stored == IF call.next = Len(call.prepared.puts) THEN AfterPreparation(call, Op(c))
                ELSE [call EXCEPT !.next = @ + 1]
  IN /\ call.stage = "put"
     /\ \E reply \in {Expected(absent)} \cup Disturbed(absent), readable \in BOOLEAN :
          LET present == ~absent \/ reply.applied
              same == IF absent THEN TRUE ELSE objects[put.key] = put.object
              outcome == create_immutable(reply.status, present)
          IN /\ readable \/ outcome = "ambiguous"
             /\ reply # Expected(absent) => Faulty
             /\ IF reply = Expected(absent) THEN UNCHANGED budget ELSE UseFault
             /\ objects' = IF reply.applied THEN (put.key :> put.object) @@ objects ELSE objects
             /\ network' = IF outcome = "ambiguous" /\ ~present
                           THEN network \cup {[put |-> put]} ELSE network
             /\ calls' = [calls EXCEPT ![c] =
                  IF outcome = "error" THEN Answer(@, "target")
                  ELSE IF outcome = "ambiguous" /\ ~(readable /\ present) THEN Answer(@, "ambiguous")
                  ELSE IF same THEN stored ELSE Answer(@, "collision")]
     /\ UNCHANGED <<scenario, head, inode, metadata, ledger, reader, history>>

Desired(c) == FileHead(scenario.context.file, calls[c].prepared.content, Op(c).mutation)

\* publish_head: the prepared manifest is read back before the head is touched.
PublishHead(c) ==
  LET call == calls[c]
      expected == IF call.base = None THEN None ELSE call.base.head
      holds == head = expected
      limit == IF Op(c).kind = "create" THEN 0 ELSE MaxPublishRetries
      cas == [cas |-> Desired(c), expected |-> expected,
              publication |-> Publication(c, call.prepared.content)]
  IN /\ OnHead
     /\ call.stage = "publish"
     /\ IF ~validate_content(objects, scenario.context, call.prepared.content)
        THEN /\ calls' = [calls EXCEPT ![c] = Answer(@, "corruption")]
             /\ UNCHANGED <<head, network, history, budget>>
        ELSE \E reply \in {Expected(holds)} \cup Disturbed(holds) :
               LET outcome == replace_conditionally(reply.status, head # None \/ reply.applied,
                                                    expected # None)
               IN /\ reply # Expected(holds) => Faulty
                  /\ IF reply = Expected(holds) THEN UNCHANGED budget ELSE UseFault
                  /\ head' = IF reply.applied THEN cas.cas ELSE head
                  /\ history' = IF reply.applied THEN Append(history, cas.publication) ELSE history
                  /\ network' = IF outcome = "ambiguous" /\ holds /\ ~reply.applied
                                THEN network \cup {cas} ELSE network
                  /\ calls' = [calls EXCEPT ![c] =
                       IF outcome = "replaced" THEN Answer(@, "published")
                       ELSE IF outcome = "conflict" THEN Rebased(@, limit)
                       ELSE IF outcome = "ambiguous" THEN [@ EXCEPT !.stage = "resolve"]
                       ELSE Answer(@, "target")]
     /\ UNCHANGED <<scenario, objects, inode, metadata, ledger, reader>>

\* An observed other head is taken for a conflict, though the request may land.
ReadbackAsConflict(call, observed, desired, readable) ==
  IF readable /\ observed = desired THEN Answer(call, "published")
  ELSE IF readable THEN Rebased(call, MaxPublishRetries)
  ELSE Answer(call, "ambiguous")

resolve_ambiguous(call, observed, desired, readable) ==
  IF readable /\ observed = desired THEN Answer(call, "published") ELSE Answer(call, "ambiguous")

ResolveHead(c) ==
  /\ calls[c].stage = "resolve"
  /\ \E readable \in BOOLEAN :
       /\ ~readable => Faulty
       /\ IF readable THEN UNCHANGED budget ELSE UseFault
       /\ calls' = [calls EXCEPT ![c] = resolve_ambiguous(@, head, Desired(c), readable)]
  /\ UNCHANGED <<scenario, objects, head, inode, metadata, ledger, network, reader, history>>

\* A request whose answer was lost takes effect now.
Deliver ==
  \E request \in network :
    /\ network' = network \ {request}
    /\ \/ /\ "put" \in DOMAIN request
          /\ objects' = objects @@ (request.put.key :> request.put.object)
          /\ UNCHANGED <<head, history>>
       \/ /\ "cas" \in DOMAIN request
          /\ head = request.expected
          /\ head' = request.cas
          /\ history' = Append(history, request.publication)
          /\ UNCHANGED objects
    /\ UNCHANGED <<scenario, inode, metadata, ledger, calls, reader, budget>>

----------------------------------------------------------------------------
(* Publication through the inode record: plan_write, the size path of       *)
(* plan_setattr, the attribute path (chmod) and rewrap_content_context.      *)

content_base(i) == IF i.content = None THEN NEW_FILE ELSE from_content(i.content)

\* A plan that stores nothing: chmod, rewrap, and a write of no bytes, which
\* only retains its result.
StoresNothing(op) == op.kind \in {"chmod", "rewrap"} \/ (op.kind = "write" /\ op.data = <<>>)

\* The mutation ledger: a mutation that has committed is never applied again.
NeverRecorded(op) == FALSE
Recorded(op) == op.mutation \in ledger

\* The ledger probe and the snapshot of inode and metadata a plan starts from.
PlanContent(c) ==
  LET op == Op(c)
      context == open_committed_context(metadata, op.master)
      planned == [calls[c] EXCEPT !.base = [inode |-> inode, metadata |-> metadata]]
  IN /\ ~OnHead
     /\ calls[c].stage = "load"
     /\ calls' = [calls EXCEPT ![c] =
          IF Recorded(op) THEN Answer(@, "published")
          ELSE IF op.kind = "rewrap" /\ rewrap_content_metadata(metadata, op.master, op.to) = None
          THEN Answer(@, "representation")
          ELSE IF StoresNothing(op) THEN [planned EXCEPT !.stage = "publish"]
          ELSE IF context = None THEN Answer(@, "representation")
          ELSE WithPrepared(planned, op, Prepare(Repository(context), op, inode.content, @.attempt))]
     /\ UNCHANGED <<scenario, objects, head, inode, metadata, ledger, network, reader, history,
                    budget>>

validate_publish_content(call, op) ==
  LET identity == call.prepared.prep.identity
      base == content_base(inode)
  IN /\ identity.mutation = op.mutation
     /\ identity.base = content_base(call.base.inode)
     /\ base = content_base(call.base.inode)
     /\ call.prepared.content.file = inode.file
     /\ call.prepared.content.generation = base.generation + ToInt(call.prepared.changed)

\* The preconditions every plan puts on its commit.
PlanHolds(call, op) ==
  /\ op.kind # "rewrap" => inode = call.base.inode
  /\ (op.kind = "rewrap" \/ ~StoresNothing(op)) => metadata.revision = call.base.metadata.revision

\* How the authority takes the request: replayed, in conflict, or committed.
CommitVerdict(call, op) ==
  IF Recorded(op) THEN "replay" ELSE IF PlanHolds(call, op) THEN "commit" ELSE "conflict"

\* One atomic commit.  When its answer is lost the engine repeats the request.
CommitContent(c) ==
  LET call == calls[c]
      op == Op(c)
      verdict == CommitVerdict(call, op)
      valid == IF StoresNothing(op) THEN TRUE ELSE validate_publish_content(call, op)
      commits == verdict = "commit" /\ valid
      content == IF StoresNothing(op) THEN inode.content ELSE call.prepared.content
  IN /\ ~OnHead
     /\ call.stage = "publish"
     /\ \E lost \in BOOLEAN :
          /\ lost => (commits /\ Faulty)
          /\ IF lost THEN UseFault ELSE UNCHANGED budget
          /\ calls' = [calls EXCEPT ![c] =
               IF lost THEN @
               ELSE IF verdict = "conflict" THEN Rebased(@, MaxConflictRetries)
               ELSE IF verdict = "commit" /\ ~valid THEN Answer(@, "malformed")
               ELSE Answer(@, "published")]
     /\ ledger' = IF commits THEN ledger \cup {op.mutation} ELSE ledger
     /\ inode' = IF commits /\ op.kind # "rewrap" /\ ~(op.kind = "write" /\ op.data = <<>>)
                 THEN [inode EXCEPT !.content = content, !.generation = @ + 1]
                 ELSE inode
     /\ metadata' = IF commits /\ op.kind = "rewrap"
                    THEN [rewrap_content_metadata(metadata, op.master, op.to) EXCEPT
                            !.revision = @ + 1]
                    ELSE metadata
     /\ history' = IF commits THEN Append(history, Publication(c, content)) ELSE history
     /\ UNCHANGED <<scenario, objects, head, network, reader>>

----------------------------------------------------------------------------
(* A reader selects the published content and then loads its objects; fsync *)
(* selects it the same way and checks that its manifest loads.              *)

SelectContent ==
  LET context == IF OnHead THEN scenario.context
                 ELSE open_committed_context(metadata, scenario.reader.master)
      content == IF ~OnHead THEN inode.content
                 ELSE IF head = None THEN None
                 ELSE LET h == load_content(Repository(context), head) IN
                      IF h = None THEN None ELSE h.content
  IN /\ scenario.reader # None
     /\ reader.stage = "idle"
     /\ reader' = IF context = None THEN [reader EXCEPT !.stage = "refused"]
                  ELSE [reader EXCEPT !.stage = "selected", !.content = content, !.context = context,
                                      !.bytes = history[Len(history)].bytes]
     /\ UNCHANGED <<scenario, objects, head, inode, metadata, ledger, network, calls, history,
                    budget>>

ReadSelected ==
  LET want == scenario.reader
      r == Repository(reader.context)
  IN /\ reader.stage = "selected"
     /\ reader' = [reader EXCEPT !.stage = "done", !.data =
          IF reader.content = None THEN [data |-> <<>>]
          ELSE IF want.kind = "fsync"
          THEN IF validate_content(objects, reader.context, reader.content) THEN [data |-> <<>>]
               ELSE None
          ELSE read(r, reader.content, want.offset, want.length)]
     /\ UNCHANGED <<scenario, objects, head, inode, metadata, ledger, network, calls, history,
                    budget>>

\* The client is gone, or its caller repeats the mutation with the same identity.
Restart(c) ==
  /\ budget.restarts > 0
  /\ calls[c] # Start(calls[c].incarnation)
  /\ budget' = [budget EXCEPT !.restarts = @ - 1]
  /\ calls' = [calls EXCEPT ![c] = Start(@.incarnation + 1)]
  /\ UNCHANGED <<scenario, objects, head, inode, metadata, ledger, network, reader, history>>

----------------------------------------------------------------------------
(* A behaviour starts with the content its scenario created: the mutation   *)
(* `initial', already stored and published, or nothing.                     *)

Stored(puts) ==
  [key \in {put.key : put \in Range(puts)} |->
     (CHOOSE put \in Range(puts) : put.key = key).object]

InitialPreparation(s) ==
  IF s.initial = None THEN None
  ELSE Prepare([objects |-> <<>>, context |-> s.context], s.initial, None, 0)

Init ==
  \E s \in Scenarios : \E first \in {InitialPreparation(s)} :
    LET content == IF first = None THEN None ELSE first.content
    IN /\ scenario = s
       /\ objects = IF first = None THEN <<>> ELSE Stored(first.puts)
       /\ head = IF s.authority = "head" /\ first # None
                 THEN FileHead(s.context.file, content, s.initial.mutation) ELSE None
       /\ inode = [file |-> s.context.file,
                   content |-> IF s.authority = "inode" THEN content ELSE None, generation |-> 1]
       /\ metadata = ContentMetadata(s.context.file, s.context.id, s.context.policy, s.context.dek, 1, 1)
       /\ ledger = {}
       /\ network = {}
       /\ calls = [c \in DOMAIN s.ops |-> Start(1)]
       /\ reader = [stage |-> "idle", content |-> None, context |-> None, bytes |-> <<>>,
                    data |-> None]
       /\ history = <<[mutation |-> 0, client |-> 0, incarnation |-> 0, content |-> content,
                       bytes |-> IF s.initial = None THEN <<>> ELSE Effect(s.initial, <<>>)]>>
       /\ budget = [faults |-> s.faults, restarts |-> s.restarts]

Next ==
  \/ \E c \in DOMAIN calls :
       \/ LoadHead(c) \/ PutImmutable(c) \/ PublishHead(c) \/ ResolveHead(c)
       \/ PlanContent(c) \/ CommitContent(c) \/ Restart(c)
  \/ Deliver \/ SelectContent \/ ReadSelected

Spec == Init /\ [][Next]_vars

----------------------------------------------------------------------------
(* Properties.                                                              *)

\* What is published is always complete and holds the bytes of the mutations
\* published so far, in their order: the manifest, the map pages and the
\* payloads behind the head or the inode record are all stored and load, for
\* every place a client may have stopped at; and a reader that selected an
\* earlier content still reads exactly that content's bytes
\* (repository.rs prepare_manifest, block_split.rs write and truncate).
ContentExact ==
  LET last == history[Len(history)]
      context == IF OnHead THEN scenario.context ELSE open_committed_context(metadata, metadata.master)
      current == IF ~OnHead THEN inode.content
                 ELSE IF head = None THEN None
                 ELSE load_content(Repository(context), head).content
      seen == SubSeq(reader.bytes, scenario.reader.offset + 1,
                     Min({Len(reader.bytes), scenario.reader.offset + scenario.reader.length}))
  IN /\ current = last.content
     /\ current # None => /\ current.size = Len(last.bytes)
                          /\ read(Repository(context), current, 0, Limits.read) = [data |-> last.bytes]
     /\ reader.stage = "done" =>
          reader.data = [data |-> IF scenario.reader.kind = "fsync" THEN <<>> ELSE seen]

\* An answer is true and final.  A mutation reported as published has been
\* published; one reported as refused (by a conflict, a definite failure, or
\* because it changes nothing) was not published by that call and no request
\* of that call can still publish it (publisher.rs resolve_ambiguous).
AnswersTrue ==
  \A c \in DOMAIN calls :
    LET call == calls[c]
        own(publication) == publication.client = c /\ publication.incarnation = call.incarnation
    IN /\ call.answer = "published" => \E i \in DOMAIN history : history[i].mutation = Op(c).mutation
       /\ call.answer \notin {"", "published", "ambiguous"} =>
            /\ \A i \in DOMAIN history : ~own(history[i])
            /\ \A request \in network : "cas" \in DOMAIN request =>
                 ~(own(request.publication) /\ head = request.expected)

\* A mutation is published once.  The inode record's ledger makes that hold
\* for any number of repetitions.  The head remembers only the last mutation:
\* there a mutation is published again only by a later incarnation of the
\* client, and only after another mutation was published in between
\* (publisher.rs mutate_rebased).
PublishedOnceEach ==
  \A i, j \in DOMAIN history :
    (i < j /\ history[i].mutation = history[j].mutation) =>
      /\ OnHead
      /\ j > i + 1
      /\ history[i].incarnation < history[j].incarnation

\* Clients fail only where a request or a rival gives them reason to: however
\* often a mutation is repeated and rebased, no two preparations store
\* different objects under one key, nothing that is read is incomplete or
\* corrupt, and no preparation is refused at publication
\* (repository.rs put_immutable, keys.rs).
FailuresExplained ==
  \A c \in DOMAIN calls :
    \/ calls[c].answer \in {"", "published", "unchanged", "conflict"} \cup scenario.refusals
    \/ calls[c].answer \in {"target", "ambiguous"} /\ budget.faults < scenario.faults
=============================================================================
