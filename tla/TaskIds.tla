-------------------------------- MODULE TaskIds ---------------------------------
(***************************************************************************)
(* How a task gets its id in the Rust SDK (rust/src/id_generator.rs,       *)
(* digest.rs, url.rs, http.rs, oci.rs and Proxy::task_id of lib.rs), which *)
(* decides the seed peers that serve it and what they know it by.          *)
(*                                                                         *)
(* A text is the sequence of its letters, none of them for a text that is  *)
(* not given.  A url is a record:                                          *)
(*   form    "http" (http or https), "other" (another scheme) or           *)
(*           "malformed"                                                   *)
(*   host    scheme and authority                                          *)
(*   kind    of its path: "empty", "root", "file", "blobs", "manifests"    *)
(*   ref     what the path ends in: [algorithm, text], the algorithm ""    *)
(*           when it has no colon                                          *)
(*   query   its segments: [key, value, escapes, semicolon], the value a   *)
(*           text, escapes telling the spellings of one key and value      *)
(*           apart                                                         *)
(* A hash is what it is taken of: different texts have different hashes.   *)
(***************************************************************************)
EXTENDS Integers, Sequences, SequencesExt, TLC

CONSTANT SortedKeys     \* the keys of queries, in the order of their bytes

ASSUME KeysAssumption ==
    SortedKeys \in Seq(ToSet(SortedKeys)) /\ IsInjective(SortedKeys)

\* What a url is.
IsUrl(url) ==
    /\ url = [form |-> url.form, host |-> url.host, kind |-> url.kind, ref |-> url.ref,
              query |-> url.query]
    /\ Len(url.query) \in Nat

(* digest.rs *)

Algorithms == {"crc32", "sha256", "sha512"}

IsDigest(ref) ==
    /\ ref.algorithm \in Algorithms
    /\ ref.algorithm = "crc32" => ref.text # <<>>
    /\ ref.algorithm = "sha256" => Len(ref.text) = 64
    /\ ref.algorithm = "sha512" => Len(ref.text) = 128

\* A digest without its algorithm.
Encoded(ref) == ref.text

\* Whatever the blob is called by.
IsBlobUrl(url) == url.kind = "blobs"

IsManifestDigestUrl(url) == url.kind = "manifests" /\ IsDigest(url.ref)

(* http.rs *)

\* The signatures of s3, gcs, oss, obs and cos, and the namespace of containerd.
DefaultFilters ==
    {"X-Amz-Algorithm", "X-Amz-Credential", "X-Amz-Date", "X-Amz-Expires",
     "X-Amz-SignedHeaders", "X-Amz-Signature", "X-Amz-Security-Token",
     "X-Amz-User-Agent"}
    \cup {"X-Goog-Algorithm", "X-Goog-Credential", "X-Goog-Date", "X-Goog-Expires",
          "X-Goog-SignedHeaders", "X-Goog-Signature"}
    \cup {"OSSAccessKeyId", "Expires", "Signature", "SecurityToken"}
    \cup {"AccessKeyId", "X-Obs-Date", "X-Obs-Security-Token"}
    \cup {"q-sign-algorithm", "q-ak", "q-sign-time", "q-key-time", "q-header-list",
          "q-url-param-list", "q-signature", "x-cos-security-token"}
    \cup {"ns"}

(* url.rs *)

HasEmptyPath(url) == url.kind = "empty"

\* What the url crate makes of the path.
Parsed(url) == [url EXCEPT !.kind = IF @ = "empty" THEN "root" ELSE @]

\* A key and value decoded and escaped again have one spelling.
QueryEscape(segment) ==
    [key |-> segment.key, value |-> segment.value, escapes |-> FALSE, semicolon |-> FALSE]

\* The pairs of one key, in order.
Pairs(query, key) ==
    LET pairs[n \in 0 .. Len(query)] ==
            IF n = 0 THEN <<>>
            ELSE IF ~query[n].semicolon /\ query[n].key = key
            THEN Append(pairs[n - 1], QueryEscape(query[n]))
            ELSE pairs[n - 1]
    IN pairs[Len(query)]

Written(url, pairs) ==
    [Parsed(url) EXCEPT !.query = pairs,
                        !.kind = IF HasEmptyPath(url) THEN url.kind ELSE @]

\* Mutant: the pairs are filtered, not sorted.
FilterQueryParamsUnsorted(url, filter) ==
    LET kept == SelectSeq(url.query, LAMBDA s : ~s.semicolon /\ s.key \notin filter)
    IN IF filter = {} THEN url
       ELSE Written(url, [i \in DOMAIN kept |-> QueryEscape(kept[i])])

\* Those of a key that is kept.
Kept(url, filter, key) == IF key \in filter THEN <<>> ELSE Pairs(url.query, key)

\* Without a filter the url stays as it is; with one the pairs it leaves are sorted by
\* key, those of one key staying in order.
FilterQueryParams(url, filter) ==
    IF filter = {} THEN url
    ELSE Written(url, FlattenSeq([i \in DOMAIN SortedKeys |->
                                    Kept(url, filter, SortedKeys[i])]))

(* id_generator.rs and lib.rs *)

NoTask == <<"none">>

\* The letters of a url: of what stands before the last part of its path one, the path's
\* last part, and of every segment of the query its key and its value.
UrlText(url) ==
    <<[form |-> url.form, host |-> url.host, kind |-> url.kind,
       algorithm |-> url.ref.algorithm]>>
    \o url.ref.text
    \o FlattenSeq([i \in DOMAIN url.query |->
                      <<[url.query[i] EXCEPT !.value = <<>>]>> \o url.query[i].value])

\* What the id is taken of.  Url, tag, application and piece length are hashed as one
\* text, one behind the other without a separator.
TaskID(by, parameter) ==
    CASE by = "content" -> <<"hash", parameter.content>>
      [] by = "digest" ->
            IF IsDigest(parameter.url.ref)
            THEN <<"digest", Encoded(parameter.url.ref)>>
            ELSE NoTask
      [] by = "url" ->
            IF parameter.filter # {} /\ parameter.url.form = "malformed"
            THEN NoTask
            ELSE <<"hash", UrlText(FilterQueryParams(parameter.url, parameter.filter))
                           \o parameter.tag \o parameter.application \o parameter.piece
                           \o <<"STANDARD">>>>

\* Content before digest before url.
TakenOf(p) ==
    IF p.content # <<>> THEN "content"
    ELSE IF p.by_digest /\ (IsBlobUrl(p.url) \/ IsManifestDigestUrl(p.url)) THEN "digest"
    ELSE "url"

\* The id for the parameters of a request, NoTask if it cannot be made.
TaskOf(p) == TaskID(TakenOf(p), p)

(* oci.rs *)

\* Registry, repository and reference of an image as they are written.
ResolveRegistry(image) ==
    IF image.registry = "docker.io" THEN "registry-1.docker.io" ELSE image.registry

RegistryUrl(image, kind, ref) ==
    [form |-> "http", host |-> <<ResolveRegistry(image), image.repository>>,
     kind |-> kind, ref |-> ref, query |-> <<>>]

BuildBlobUrl(image, digest) == RegistryUrl(image, "blobs", digest)

BuildManifestUrl(image, ref) == RegistryUrl(image, "manifests", ref)

\* Config and layers, each once.
BlobDigests(manifest) == {manifest.config} \cup ToSet(manifest.layers)

\* The first manifest of an index, a sequence of [platform, manifest], that is for the
\* platform; none if there is no such.
PlatformManifest(index, platform) ==
    LET entries == SelectSeq(index, LAMBDA e : e.platform = platform)
    IN IF entries = <<>> THEN <<>> ELSE <<Head(entries).manifest>>
================================================================================
