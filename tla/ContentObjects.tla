--------------------------- MODULE ContentObjects ---------------------------
(***************************************************************************)
(* The immutable objects of w9pt-fs-storage: who prepared them, under which *)
(* key they are stored, how they are represented, and what a reader checks  *)
(* before it uses one.                                                      *)
(*                                                                          *)
(* A file's bytes are a sequence of small integers.  A canonical encoding   *)
(* is the sequence of the integers it holds, a digest is an integer hash of *)
(* such a sequence, and a stored object is the record of its header,        *)
(* provenance and body.  Bodies of manifests and map pages are kept         *)
(* decoded; payloads are kept as the codec leaves them.                     *)
(***************************************************************************)
EXTENDS Integers, SequencesExt, FiniteSetsExt

CONSTANTS BLOCK_SIZE,       \* bytes of one block
          FANOUT,           \* slots of one map page
          MinimumSavings,   \* bytes LZ4 has to save to be used
          Limits            \* record of the repository's StorageLimits

None == [none |-> TRUE]
Raw == 1
BlockSplit == 2

\* blake3, as an integer hash of what is hashed, combined pairwise.
RECURSIVE HashOf(_, _, _)
HashOf(ints, lo, hi) ==
  IF lo > hi THEN 7
  ELSE IF lo = hi THEN ints[lo] + 1
  ELSE LET mid == (lo + hi) \div 2 IN
       (HashOf(ints, lo, mid) * 257 + HashOf(ints, mid + 1, hi) + 1) % 8000009

Digest(ints) == (HashOf(ints, 1, Len(ints)) * 257 + Len(ints)) % 8000009

----------------------------------------------------------------------------
(* Identities of preparations and the keys derived from them.               *)

BaseContentIdentity(generation, digest) == [generation |-> generation, digest |-> digest]
NEW_FILE == BaseContentIdentity(0, 0)
from_content(content) == BaseContentIdentity(content.generation, content.digest)

PreparationIdentity(mutation, base, parts) ==
  [mutation |-> mutation, base |-> base, fingerprint |-> Digest(parts)]

for_create(mutation, method, data) ==
  PreparationIdentity(mutation, NEW_FILE, <<1, method, Len(data)>> \o data)

for_write(mutation, base, offset, data) ==
  PreparationIdentity(mutation, from_content(base), <<2, offset, Len(data)>> \o data)

for_write_from_new(mutation, method, offset, data) ==
  PreparationIdentity(mutation, NEW_FILE, <<3, method, offset, Len(data)>> \o data)

for_truncate(mutation, base, size) ==
  PreparationIdentity(mutation, from_content(base), <<4, size>>)

for_truncate_from_new(mutation, method, size) ==
  PreparationIdentity(mutation, NEW_FILE, <<5, method, size>>)

validate_result_generation(identity, generation) ==
  IF generation = 1 THEN identity.base = NEW_FILE
  ELSE identity.base # NEW_FILE /\ identity.base.generation + 1 = generation

IdentityInts(identity, attempt) ==
  <<identity.mutation, identity.base.generation, identity.base.digest,
    identity.fingerprint, attempt>>

\* Why an object was stored: its kind, its preparation, and its place in the
\* file (a block index, a page's level and first block) or its generation.
ObjectProvenance(kind, identity, attempt, place) ==
  [kind |-> kind, identity |-> identity, attempt |-> attempt, place |-> place]

FileStoragePolicy(method, compressed, encrypted) ==
  [method |-> method, compressed |-> compressed, encrypted |-> encrypted]

\* The bytes of the file key are an integer, 0 when the file has none.
FileCryptoContext(file, id, policy, revision, dek) ==
  [file |-> file, id |-> id, policy |-> policy, revision |-> revision, dek |-> dek]

ToInt(b) == IF b THEN 1 ELSE 0
PolicyInts(policy) == <<policy.method, ToInt(policy.compressed), ToInt(policy.encrypted)>>

\* The token names the file, its context and key, the preparation and the
\* policy, but not the revision of the wrapped key: a rewrap keeps old keys.
preparation_token(context, identity, attempt) ==
  Digest(<<context.file, context.id, context.dek>> \o IdentityInts(identity, attempt)
           \o PolicyInts(context.policy))

KindTag(kind) == CASE kind = "manifest" -> 1 [] kind = "raw" -> 2
                   [] kind = "block" -> 3 [] kind = "map" -> 4

ComponentsWithoutBase(identity, attempt) == <<identity.mutation, identity.fingerprint, attempt>>

components(identity, attempt) == IdentityInts(identity, attempt)

\* Manifests and raw payloads have one key per attempt; a block and a map page
\* add their place.  Keys of an encrypted file show only the token.
object_key(context, file, p) ==
  LET name == IF context.policy.encrypted
              THEN <<preparation_token(context, p.identity, p.attempt)>>
              ELSE components(p.identity, p.attempt)
  IN <<KindTag(p.kind), file>> \o name \o (IF p.kind = "manifest" THEN <<>> ELSE p.place)

validate_object_key(context, file, p, key) == object_key(context, file, p) = key

HeadKey(file) == <<0, file>>

----------------------------------------------------------------------------
(* Representation: compression of payloads, the sealed object, its checks.  *)

\* LZ4 compression, by a code that shortens runs of one byte.
Squeeze(data) == IF data # <<>> /\ \A i \in DOMAIN data : data[i] = data[1]
                 THEN <<Len(data), data[1]>>
                 ELSE <<0>> \o data

Expand(packed) == IF Head(packed) = 0 THEN Tail(packed)
                  ELSE [i \in 1..Head(packed) |-> packed[2]]

compress_payload(policy, data) ==
  IF policy.compressed /\ Len(Squeeze(data)) + MinimumSavings <= Len(data)
  THEN [codec |-> "lz4", body |-> Squeeze(data)]
  ELSE [codec |-> "identity", body |-> data]

decompress_payload(packed) ==
  IF packed.codec = "lz4" THEN Expand(packed.body) ELSE packed.body

\* The header, the key and the policy are sealed with the body: by a checksum
\* in a plain file, by the file's key in an encrypted one.
encode_object(context, kind, key, p, packed) ==
  [kind |-> kind, encrypted |-> context.policy.encrypted, context |-> context.id,
   seal |-> [key |-> key, policy |-> context.policy, dek |-> context.dek],
   provenance |-> p, packed |-> packed]

decode_object(context, kind, key, object) ==
  /\ object.kind = kind
  /\ object.encrypted = context.policy.encrypted
  /\ object.context = context.id
  /\ object.seal = [key |-> key, policy |-> context.policy, dek |-> context.dek]

validate_context(context, file, method) ==
  context.file = file /\ context.policy.method = method

----------------------------------------------------------------------------
(* Block maps: a radix tree of pages of FANOUT slots.  A leaf names the      *)
(* payloads of its blocks, a branch names pages one level lower.  A page is  *)
(* a function of the slots it has.                                           *)

page_coverage(level) == FANOUT^(level + 1)

BLOCK_MAP_MAX_LEVEL == 3
BlockDomain == page_coverage(BLOCK_MAP_MAX_LEVEL)

minimum_root_level(highest) == Min({l \in 0..BLOCK_MAP_MAX_LEVEL : highest < page_coverage(l)})

page_contains(level, first, index) == index \in first..(first + page_coverage(level) - 1)

page_slot(level, first, index) == (index - first) \div (FANOUT^level)

BlobRef(key, plaintext_len, stored_len, digest) ==
  [key |-> key, plaintext_len |-> plaintext_len, stored_len |-> stored_len, digest |-> digest]

PageRef(key, digest, level, first, count, highest) ==
  [key |-> key, digest |-> digest, level |-> level, first |-> first, count |-> count,
   highest |-> highest]

BlockMapPage(file, level, first, entries) ==
  [file |-> file, level |-> level, first |-> first, entries |-> entries]

summary(page) ==
  LET slots == DOMAIN page.entries IN
  IF page.level = 0
  THEN [count |-> Cardinality(slots), highest |-> page.first + Max(slots)]
  ELSE [count |-> MapThenSumSet(LAMBDA s : page.entries[s].count, slots),
        highest |-> page.entries[Max(slots)].highest]

covers(ref, index) == page_contains(ref.level, ref.first, index)

validate_page_ref(ref) ==
  /\ ref.level \in 0..BLOCK_MAP_MAX_LEVEL
  /\ ref.first % page_coverage(ref.level) = 0
  /\ ref.first + page_coverage(ref.level) <= BlockDomain
  /\ ref.count \in 1..page_coverage(ref.level)
  /\ ref.count <= Limits.materialized
  /\ covers(ref, ref.highest)
  /\ ref.count <= ref.highest - ref.first + 1

Zeros(n) == [i \in 1..n |-> 0]

validate_slots(page) == DOMAIN page.entries # {} /\ DOMAIN page.entries \subseteq 0..(FANOUT - 1)

validate_page(page) ==
  /\ page.first % page_coverage(page.level) = 0
  /\ page.first + page_coverage(page.level) <= BlockDomain
  /\ validate_slots(page)
  /\ \A s \in DOMAIN page.entries :
       LET e == page.entries[s] IN
       IF page.level = 0
       THEN e.plaintext_len = BLOCK_SIZE /\ e.digest # Digest(Zeros(BLOCK_SIZE))
       ELSE /\ validate_page_ref(e)
            /\ e.level = page.level - 1
            /\ e.first = page.first + s * page_coverage(page.level - 1)

validate_page_context(page, ref, file) ==
  /\ validate_page_ref(ref)
  /\ page.file = file /\ page.level = ref.level /\ page.first = ref.first
  /\ summary(page) = [count |-> ref.count, highest |-> ref.highest]

BlobInts(b) == b.key \o <<b.plaintext_len, b.stored_len, b.digest>>
PageRefInts(r) == r.key \o <<r.digest, r.level, r.first, r.count, r.highest>>

encode_block_map_page(page) ==
  <<page.file, page.level, page.first>> \o
    FlattenSeq([i \in 1..FANOUT |->
      IF i - 1 \notin DOMAIN page.entries THEN <<>>
      ELSE <<i - 1>> \o (IF page.level = 0 THEN BlobInts(page.entries[i - 1])
                         ELSE PageRefInts(page.entries[i - 1]))])

----------------------------------------------------------------------------
(* Manifests and heads.  `layout' is the raw payload or the map's root.      *)

FileManifest(file, generation, size, method, layout) ==
  [file |-> file, generation |-> generation, size |-> size, method |-> method,
   layout |-> layout]

encode_manifest(m) ==
  <<m.file, m.generation, m.size, m.method>> \o
    (IF m.layout = None THEN <<>>
     ELSE IF m.method = Raw THEN BlobInts(m.layout) ELSE PageRefInts(m.layout))

visible_blocks(size) == (size \div BLOCK_SIZE) + ToInt(size % BLOCK_SIZE # 0)

validate_manifest(m) ==
  /\ m.generation > 0
  /\ IF m.method = Raw
     THEN IF m.size = 0 THEN m.layout = None
          ELSE /\ m.size <= Limits.raw
               /\ m.layout # None /\ m.layout.plaintext_len = m.size
     ELSE m.layout # None =>
            /\ validate_page_ref(m.layout)
            /\ m.layout.first = 0
            /\ m.layout.level = minimum_root_level(m.layout.highest)
            /\ m.layout.highest * BLOCK_SIZE < m.size
            /\ m.layout.count <= Limits.materialized

ContentRef(m, key, digest) ==
  [file |-> m.file, generation |-> m.generation, size |-> m.size, method |-> m.method,
   key |-> key, digest |-> digest]

validate_content_ref(m, content) == ContentRef(m, content.key, content.digest) = content

FileHead(file, content, mutation) ==
  [file |-> file, generation |-> content.generation, key |-> content.key,
   digest |-> content.digest, mutation |-> mutation]

validate_head(head, file) == head.file = file /\ head.generation > 0

\* The bytes of a stored manifest or page, which its digest covers: the seal,
\* the provenance and the canonical body.
EncodedInts(object, canonical) ==
  object.seal.key \o <<object.context, object.seal.dek>>
    \o IdentityInts(object.provenance.identity, object.provenance.attempt)
    \o object.provenance.place \o PolicyInts(object.seal.policy) \o canonical

ManifestDigest(object) == Digest(EncodedInts(object, encode_manifest(object.packed)))
PageDigest(object) == Digest(EncodedInts(object, encode_block_map_page(object.packed)))

----------------------------------------------------------------------------
(* Encoding one object for storage, as the pair of its key and the object,   *)
(* and loading one: None stands for every error a load can report.           *)

StoredAs(key, object) == [key |-> key, object |-> object]

expected_payload(context, p, data) ==
  LET key == object_key(context, context.file, p)
      object == encode_object(context, p.kind, key, p, compress_payload(context.policy, data))
  IN [put |-> StoredAs(key, object),
      ref |-> BlobRef(key, Len(data), Len(object.packed.body), Digest(data))]

expected_map_page(context, page, identity, attempt) ==
  LET p == ObjectProvenance("map", identity, attempt, <<page.level, page.first>>)
      key == object_key(context, page.file, p)
      object == encode_object(context, "map", key, p, page)
      s == summary(page)
  IN [put |-> StoredAs(key, object),
      ref |-> PageRef(key, PageDigest(object), page.level, page.first, s.count, s.highest)]

prepare_manifest(context, m, identity, attempt) ==
  LET p == ObjectProvenance("manifest", identity, attempt, <<m.generation>>)
      key == object_key(context, m.file, p)
      object == encode_object(context, "manifest", key, p, m)
  IN [put |-> StoredAs(key, object), ref |-> ContentRef(m, key, ManifestDigest(object))]

load_payload(objects, context, blob) ==
  IF blob.key \notin DOMAIN objects THEN None
  ELSE LET o == objects[blob.key] IN
       IF /\ \E kind \in {"raw", "block"} : decode_object(context, kind, blob.key, o)
          /\ Len(o.packed.body) = blob.stored_len
          /\ validate_object_key(context, context.file, o.provenance, blob.key)
          /\ Len(decompress_payload(o.packed)) = blob.plaintext_len
          /\ Digest(decompress_payload(o.packed)) = blob.digest
       THEN [data |-> decompress_payload(o.packed)]
       ELSE None

validate_page_children(page) ==
  \A s \in DOMAIN page.entries :
    LET key == page.entries[s].key
        place == IF page.level = 0 THEN <<page.first + s>>
                 ELSE <<page.entries[s].level, page.entries[s].first>>
    IN IsSuffix(place, key)

load_map_page(objects, context, file, ref) ==
  IF ref.key \notin DOMAIN objects THEN None
  ELSE LET o == objects[ref.key] IN
       IF /\ validate_context(context, file, context.policy.method)
          /\ decode_object(context, "map", ref.key, o)
          /\ PageDigest(o) = ref.digest
          /\ o.provenance.place = <<ref.level, ref.first>>
          /\ validate_object_key(context, file, o.provenance, ref.key)
          /\ validate_page(o.packed)
          /\ validate_page_context(o.packed, ref, file)
          /\ validate_page_children(o.packed)
       THEN o.packed
       ELSE None

validate_manifest_payloads(m) ==
  m.layout # None => m.layout.key[1] = (IF m.method = Raw THEN KindTag("raw") ELSE KindTag("map"))

load_manifest(objects, context, content) ==
  IF content.key \notin DOMAIN objects THEN None
  ELSE LET o == objects[content.key] IN
       IF /\ validate_context(context, content.file, content.method)
          /\ decode_object(context, "manifest", content.key, o)
          /\ ManifestDigest(o) = content.digest
          /\ o.provenance.place = <<content.generation>>
          /\ validate_result_generation(o.provenance.identity, content.generation)
          /\ validate_object_key(context, content.file, o.provenance, content.key)
          /\ validate_manifest(o.packed)
          /\ validate_content_ref(o.packed, content)
          /\ validate_manifest_payloads(o.packed)
       THEN o.packed
       ELSE None

validate_content(objects, context, content) == load_manifest(objects, context, content) # None
=============================================================================
