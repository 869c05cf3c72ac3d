-------------------------------- MODULE Requests --------------------------------
(***************************************************************************)
(* What the requests of the Rust SDK say of a file, and whether the seed   *)
(* peers and the SDK understand the same by it (rust/src/lib.rs: the       *)
(* request types, GetRequest::send and proxy_headers, the messages of      *)
(* preheat and delete, the images behind preheat_image, delete_image and   *)
(* stat_image).                                                            *)
(*                                                                         *)
(* One caller's get_into (GetInto) with what its request says and its      *)
(* attempts meet, among preheats, deletes and stats of other callers.  The *)
(* SDK picks the seed peers by the id it derives from a request, the seed  *)
(* peer keeps the file by the id it derives from what it is sent.  Which   *)
(* seed peers these are, and that some of them may fail, is the subject of *)
(* FanOut and ImageTasks: here a preheat or a delete is one step.          *)
(***************************************************************************)
EXTENDS GetInto, TaskIds, Errors

CONSTANTS
    Gets, Preheats, Deletes,    \* the requests callers make
    ImagePreheats, ImageDeletes, Stats,
    Indexes,        \* the index of manifests behind a reference in the registry
    LocalPlatform,
    Unprintable,    \* texts with a character no header may hold
    Answers         \* statuses of the answers that are not 2xx

\* What the type of a status code can hold.
ASSUME AnswersAssumption == Answers \subseteq 100 .. 999

ASSUME UrlsAssumption ==
    \A r \in Gets \cup Preheats \cup Deletes :
        /\ IsUrl(r.url)
        /\ \A i \in DOMAIN r.url.query : r.url.query[i].key \in ToSet(SortedKeys)

VARIABLES
    request,        \* of the get_into in hand
    last,           \* what the attempt that just failed met, and whether it was transient
    held,           \* what the seed peers hold: <<id picked by, id kept by>>
    files,          \* what they were given and not told to delete (history): <<file
                    \* they were picked for, file they keep>>
    report          \* the layers a stat_image has just found held

requestVars == <<request, last, held, files, report>>
allVars == <<vars, requestVars>>

--------------------------------------------------------------------------------
(* The request types with their defaults. *)

DefaultGetRequest ==
    [header |-> <<>>, piece |-> <<>>, tag |-> <<>>, application |-> <<>>,
     filter |-> DefaultFilters, content |-> <<>>, by_digest |-> TRUE, replicas |-> 2]

DefaultPreheatRequest == DefaultGetRequest @@ ("scope" :> "Default")

DefaultDeleteRequest ==
    [piece |-> <<>>, tag |-> <<>>, application |-> <<>>, filter |-> DefaultFilters,
     content |-> <<>>, by_digest |-> TRUE, replicas |-> 2, scope |-> "Default"]

DefaultPreheatImageRequest ==
    [platform |-> <<>>, piece |-> <<>>, tag |-> <<>>, application |-> <<>>,
     filter |-> DefaultFilters, content |-> <<>>, by_digest |-> TRUE, replicas |-> 2,
     scope |-> "Default", concurrent |-> 4]

DefaultDeleteImageRequest ==
    DefaultDeleteRequest @@ [platform |-> <<>>, concurrent |-> 4]

DefaultStatImageRequest ==
    [platform |-> <<>>, piece |-> <<>>, tag |-> <<>>, application |-> <<>>,
     filter |-> DefaultFilters, by_digest |-> TRUE]

ValidGet(r) == r.replicas > 0 /\ r.url.form = "http"

Valid(r) == r.replicas > 0

ValidImage(r) == r.replicas > 0 /\ r.concurrent > 0

--------------------------------------------------------------------------------
(* What is sent for them. *)

\* The headers of the SDK; a text or a filter that is empty makes none.
Header(r) ==
    LET value == [name \in {"Piece-Length", "Tag", "Application", "Content", "By-Digest",
                            "Filter"} |->
                    CASE name = "Piece-Length" -> r.piece
                      [] name = "Tag" -> r.tag
                      [] name = "Application" -> r.application
                      [] name = "Content" -> r.content
                      [] name = "By-Digest" -> r.by_digest
                      [] name = "Filter" -> r.filter]
        texts == {"Piece-Length", "Tag", "Application", "Content"}
    IN [name \in {"By-Digest"} \cup {name \in {"Filter"} : r.filter # {}}
                 \cup {name \in texts : value[name] # <<>>} |-> value[name]]

\* Over the headers of the caller.
ProxyHeaders(r) ==
    [name \in DOMAIN Header(r) \cup DOMAIN r.header |->
        IF name \in DOMAIN Header(r) THEN Header(r)[name] ELSE r.header[name]]

HeadersFail(r) ==
    (ToSet(r.tag \o r.application \o r.content) \cup r.filter) \cap Unprintable # {}

\* What the proxy of a seed peer reads of the request in the headers.
Told(r) ==
    LET headers == ProxyHeaders(r)
        Text(name) == IF name \in DOMAIN headers THEN headers[name] ELSE <<>>
    IN [url |-> r.url, piece |-> Text("Piece-Length"), tag |-> Text("Tag"),
        application |-> Text("Application"), content |-> Text("Content"),
        by_digest |-> headers["By-Digest"],
        filter |-> IF "Filter" \in DOMAIN headers THEN headers["Filter"]
                   ELSE DefaultFilters]

\* The pair a get leaves at the seed peers it picks.
Received(r) == <<TaskOf(r), TaskOf(Told(r))>>

\* What decides on a task, of what a message or request says of a url.
Parameters(r, url, content) ==
    [url |-> url, piece |-> r.piece, tag |-> r.tag, application |-> r.application,
     filter |-> r.filter, content |-> content, by_digest |-> r.by_digest]

\* The Download of a preheat.
Download(r) == Parameters(r, r.url, r.content)

\* The pair a preheat leaves at the seed peers it picks.
Preheated(r) == <<TaskOf(r), TaskOf(Download(r))>>

\* The manifest of an image for its platform, as a sequence of it or none.
Manifest(r) ==
    PlatformManifest(Indexes[r.image.ref],
                     IF r.platform = <<>> THEN LocalPlatform ELSE r.platform[1])

\* The urls of an image: its manifest, by the digest, and its blobs.
Urls(r) ==
    LET m == Manifest(r)[1]
    IN {BuildManifestUrl(r.image, m.digest)} \cup
       {BuildBlobUrl(r.image, d) : d \in BlobDigests(m)}

\* The request for one of them.
Target(r, url) == Parameters(r, url, r.content)

\* There is a manifest for the platform, and every target gets an id.
HasTargets(r) ==
    Manifest(r) # <<>> /\ \A url \in Urls(r) : TaskOf(Target(r, url)) # NoTask

\* Mutant: the tag of the stat is not sent.
StatMessageWithoutTag(r) ==
    [url |-> BuildManifestUrl(r.image, r.image.ref), platform |-> r.platform,
     piece |-> r.piece, tag |-> <<>>, application |-> r.application,
     filter |-> r.filter, by_digest |-> r.by_digest]

\* The StatImageRequest of the scheduler's API.
StatMessage(r) ==
    [url |-> BuildManifestUrl(r.image, r.image.ref), platform |-> r.platform,
     piece |-> r.piece, tag |-> r.tag, application |-> r.application,
     filter |-> r.filter, by_digest |-> r.by_digest]

\* What the scheduler finds for it: the blobs held under the ids of their urls.
Found(message) ==
    LET image == [image |-> message.url, platform |-> message.platform]
        Blob(d) == [message.url EXCEPT !.kind = "blobs", !.ref = d]
        Id(d) == TaskOf(Parameters(message, Blob(d), <<>>))
    IN {Blob(d) : d \in {d \in BlobDigests(Manifest(image)[1]) :
                            \E pair \in held : pair[2] = Id(d)}}

--------------------------------------------------------------------------------
(* What an attempt may meet instead, and the error it becomes. *)

Nothing == [met |-> "nothing", status |-> NoStatus, type |-> "", code |-> "",
            backend |-> FALSE]
Unreachable == [Nothing EXCEPT !.met = "unreachable"]
Slow == [Nothing EXCEPT !.met = "slow"]
BadHeader == [Nothing EXCEPT !.met = "bad header"]

\* Of the proxy of a seed peer.
Response(s, t) == [Nothing EXCEPT !.met = "response", !.status = s, !.type = t]

Responses == {Response(s, t) : s \in Answers, t \in {"backend", "proxy", "dfdaemon"}}

\* Of its dfdaemon: a code, or the answer of the origin in the details.  The channel's own
\* timeout is a status too, with a code that tonic chooses: DeadlineExceeded, which is
\* transient, or Cancelled, which is not.
Status(c) == [Nothing EXCEPT !.met = "status", !.code = c]

BackendStatus(s) == [Status("Internal") EXCEPT !.backend = TRUE, !.status = s]

Statuses ==
    {Status(c) :
        c \in {"Internal", "Unavailable", "Unknown", "Aborted", "DeadlineExceeded",
               "Cancelled", "NotFound", "ResourceExhausted", "InvalidArgument"}}
    \cup {BackendStatus(s) : s \in Answers \cup {NoStatus}}

\* The error of GetRequest::send.
SendError(outcome) ==
    CASE outcome.met = "slow" -> Plain("RequestTimeout")
      [] outcome.met = "unreachable" -> Plain("Internal")
      [] outcome.met = "bad header" -> Plain("InvalidArgument")
      [] OTHER -> FromResponse(outcome)

\* The error of an attempt of preheat or delete.
DfdaemonError(outcome) ==
    IF outcome.met = "unreachable" THEN Plain("Internal") ELSE FromStatus(outcome)

Meets(outcome, error) == last' = [outcome |-> outcome, transient |-> IsRetryable(error)]

Calm == last' = [outcome |-> Nothing, transient |-> FALSE]

--------------------------------------------------------------------------------
(* A get_into. *)

NoRequest == [replicas |-> 0]

\* The query is the pairs it decodes to, sorted by key.
Sorted(url) ==
    url.query = FlattenSeq([i \in DOMAIN SortedKeys |-> Pairs(url.query, SortedKeys[i])])

\* What a request is for (what the history goes by): a content, a digest, or a url for a
\* tag, an application and a piece length.  Two urls are the same that differ at most in
\* the query and leave for every key the same values, decoded; one for which nothing is
\* filtered and that is not sorted is itself only.
Identity(r) ==
    LET Values(key) == [i \in DOMAIN Kept(r.url, r.filter, key) |->
                            Kept(r.url, r.filter, key)[i].value]
    IN IF r.content # <<>> THEN <<"content", r.content>>
       ELSE IF r.by_digest /\ r.url.kind \in {"blobs", "manifests"} /\ IsDigest(r.url.ref)
       THEN <<"digest", r.url.ref>>
       ELSE <<"url", [r.url EXCEPT !.query = <<>>],
              [key \in ToSet(SortedKeys) |-> Values(key)],
              IF r.filter = {} /\ ~Sorted(r.url) THEN <<r.url.query>> ELSE <<>>,
              r.tag, r.application, r.piece>>

\* The seed peer is told by the SDK only how to derive the id: there is a filter to
\* send where it is taken of the url, and no header of the caller that is read as one of
\* the SDK's.
ToldAll(r) == (r.filter # {} \/ TakenOf(r) # "url") /\ r.header = <<>>

\* The file a seed peer keeps for a get: the one asked for, unless it is told otherwise.
KeptFor(r) == IF ToldAll(r) THEN Identity(r) ELSE Identity(Told(r))

Same(file) == <<file, file>>

Begin(r) ==
    /\ ValidGet(r)
    /\ TaskOf(r) # NoTask
    /\ Call
    /\ request' = r
    /\ Calm
    /\ report' = {}
    /\ UNCHANGED <<held, files>>

\* The request is invalid, it has no task id, or no seed peer serves its task.
BeginInVain ==
    /\ CallInVain
    /\ Calm
    /\ report' = {}
    /\ UNCHANGED <<request, held, files>>

AttemptFails(outcome) ==
    /\ Fail(IF IsRetryable(SendError(outcome)) THEN "transient" ELSE "definitive")
    /\ outcome = BadHeader <=> HeadersFail(request)
    /\ Meets(outcome, SendError(outcome))
    /\ UNCHANGED <<request, held, files, report>>

\* The seed peer answers with the file, which it keeps from now on.
Receive ==
    /\ Respond
    /\ ~HeadersFail(request)
    /\ held' = held \cup {Received(request)}
    /\ files' = files \cup {<<Identity(request), KeptFor(request)>>}
    /\ Calm
    /\ UNCHANGED <<request, report>>

BodyBreaks(outcome) ==
    /\ Break
    /\ Meets(outcome, SendError(outcome))
    /\ UNCHANGED <<request, held, files, report>>

Go ==
    /\ Chunk \/ End \/ Decide
    /\ Calm
    /\ UNCHANGED <<request, held, files, report>>

Finish ==
    /\ Drop \/ TakeResult
    /\ request' = NoRequest
    /\ Calm
    /\ UNCHANGED <<held, files, report>>

--------------------------------------------------------------------------------
(* The other calls, of other tasks of the caller's program. *)

Preheat(r) ==
    /\ pc = "idle"
    /\ Valid(r) /\ TaskOf(r) # NoTask
    /\ held' = held \cup {Preheated(r)}
    /\ files' = files \cup {Same(Identity(r))}
    /\ Calm
    /\ report' = {}
    /\ UNCHANGED <<vars, request>>

\* The seed peers that are picked are told the id.
Delete(r) ==
    /\ pc = "idle"
    /\ Valid(r) /\ TaskOf(r) # NoTask
    /\ held' = held \ {Same(TaskOf(r))}
    /\ files' = files \ {Same(Identity(r))}
    /\ Calm
    /\ report' = {}
    /\ UNCHANGED <<vars, request>>

\* An attempt of one of them fails.
Refused(outcome) ==
    /\ pc = "idle"
    /\ Meets(outcome, DfdaemonError(outcome))
    /\ report' = {}
    /\ UNCHANGED <<vars, request, held, files>>

PreheatImage(r) ==
    /\ pc = "idle"
    /\ ValidImage(r) /\ HasTargets(r)
    /\ held' = held \cup {Preheated(Target(r, url)) : url \in Urls(r)}
    /\ files' = files \cup {Same(Identity(Target(r, url))) : url \in Urls(r)}
    /\ Calm
    /\ report' = {}
    /\ UNCHANGED <<vars, request>>

DeleteImage(r) ==
    /\ pc = "idle"
    /\ ValidImage(r) /\ HasTargets(r)
    /\ held' = held \ {Same(TaskOf(Target(r, url))) : url \in Urls(r)}
    /\ files' = files \ {Same(Identity(Target(r, url))) : url \in Urls(r)}
    /\ Calm
    /\ report' = {}
    /\ UNCHANGED <<vars, request>>

StatImage(r) ==
    /\ pc = "idle"
    /\ report' = Found(StatMessage(r))
    /\ Calm
    /\ UNCHANGED <<vars, request, held, files>>

--------------------------------------------------------------------------------
RequestsInit ==
    /\ Init
    /\ request = NoRequest
    /\ last = [outcome |-> Nothing, transient |-> FALSE]
    /\ held = {}
    /\ files = {}
    /\ report = {}

Attempting ==
    \/ \E outcome \in Responses \cup {Unreachable, Slow, BadHeader} : AttemptFails(outcome)
    \/ Receive
    \/ \E outcome \in {Unreachable, Slow} : BodyBreaks(outcome)
    \/ Go

RequestsNext ==
    \/ \E r \in Gets : Begin(r)
    \/ BeginInVain
    \/ Attempting
    \/ Finish
    \/ \E r \in Preheats : Preheat(r)
    \/ \E r \in Deletes : Delete(r)
    \/ \E outcome \in Statuses \cup {Unreachable} : Refused(outcome)
    \/ \E r \in ImagePreheats : PreheatImage(r)
    \/ \E r \in ImageDeletes : DeleteImage(r)
    \/ \E r \in Stats : StatImage(r)

\* The timeout of the request ends every attempt.
RequestsSpec ==
    RequestsInit /\ [][RequestsNext]_allVars /\ WF_allVars(Attempting)

--------------------------------------------------------------------------------
(* Properties. *)

\* The layers a stat asks about.
Layer(r, d) == Parameters(r, BuildBlobUrl(r.image, d), <<>>)

Layers(r) == {Layer(r, d) : d \in BlobDigests(Manifest(r)[1])}

\* The requests for the urls of the images that are preheated or deleted.
Targets ==
    UNION {{Target(r, url) : url \in Urls(r)} :
               r \in {r \in ImagePreheats \cup ImageDeletes : HasTargets(r)}}

\* All that seed peers are asked for or told of.
Known ==
    LET gets == {r \in Gets : ValidGet(r)}
    IN {r \in gets \cup {Told(r) : r \in gets} \cup Preheats \cup Deletes \cup Targets
              \cup UNION {Layers(r) : r \in Stats} : TaskOf(r) # NoTask}

\* What an id is made of, and the one text or digest it comes to.
Spelled(p) ==
    CASE TakenOf(p) = "content" -> <<"content", p.content>>
      [] TakenOf(p) = "digest" -> <<"digest", p.url.ref>>
      [] TakenOf(p) = "url" ->
            <<"url", FilterQueryParams(p.url, p.filter), p.tag, p.application, p.piece>>

Text(p) ==
    CASE TakenOf(p) = "content" -> <<"hash", p.content>>
      [] TakenOf(p) = "digest" -> <<"digest", p.url.ref.text>>
      [] TakenOf(p) = "url" ->
            <<"hash", UrlText(FilterQueryParams(p.url, p.filter))
                      \o p.tag \o p.application \o p.piece \o <<"STANDARD">>>>

\* They come to the same though they are made of something else: the end of one part may
\* as well be the beginning of another.
RunTogether(p, q) == Spelled(p) # Spelled(q) /\ Text(p) = Text(q)

Apart == {p \in Known : \A q \in Known : ~RunTogether(p, q)}

\* A get, a preheat and a delete, of an image too, find the file at the seed peers they
\* pick if and only if it was put there for a request for the same file and not deleted
\* since: whatever the spelling of the url, its signature, the registry of a blob or the
\* way the request went, by the headers of a get or the message of a preheat
\* (lib.rs:274-299, url.rs:17-20).  A get that tells the seed peer something else than it
\* goes by itself finds what such a get left.  Only requests whose parts run together
\* with those of another are not in it: a tag and an application of the same letters,
\* which lib.rs:276-280 has identify different tasks, come to the same id.
HoldsWhatIsAsked ==
    /\ \A r \in Gets \cap Apart :
        Told(r) \in Apart /\ ~HeadersFail(r) =>
            (Received(r) \in held <=> <<Identity(r), KeptFor(r)>> \in files)
    /\ \A r \in Preheats \cap Apart :
            Preheated(r) \in held <=> Same(Identity(r)) \in files
    /\ \A r \in (Deletes \cup Targets) \cap Apart :
            Same(TaskOf(r)) \in held <=> Same(Identity(r)) \in files

TransientAsDocumented(outcome) ==
    \/ outcome.met \in {"unreachable", "slow"}
    \/ /\ outcome.met = "response" \/ outcome.backend
       /\ outcome.status \in {NoStatus, 408, 429} \/ outcome.status \div 100 = 5
    \/ /\ outcome.met = "status" /\ ~outcome.backend
       /\ outcome.code \in {"Internal", "Unavailable", "Unknown", "Aborted",
                            "DeadlineExceeded"}

\* An attempt that met an unreachable or slow seed peer, or an answer 5xx, 408 or 429,
\* of the origin, the proxy or dfdaemon, is transient, and one that met another answer
\* is not, whether the answer came over HTTP or in the details of a gRPC status
\* (rust/README.md:85-91).
RetriedAsDocumented ==
    /\ last.transient <=> TransientAsDocumented(last.outcome)
    /\ pc = "decide" /\ result # "ok" =>
        (result = "transient" <=> TransientAsDocumented(last.outcome))

\* A stat_image reports no blob but those of the image, and of these the ones seed peers
\* were given for the same tag, application, piece length and filter, by preheat_image,
\* one by one or by a get, and not told to delete since (lib.rs:190-191); of blobs whose
\* id runs together with another's it may report too many.
StatTellsWhatIsHeld ==
    [][\A r \in Stats :
         StatImage(r) =>
            /\ report' \subseteq {BuildBlobUrl(r.image, d) : d \in BlobDigests(Manifest(r)[1])}
            /\ \A d \in BlobDigests(Manifest(r)[1]) : Layer(r, d) \in Apart =>
                    (BuildBlobUrl(r.image, d) \in report' <=>
                        \E file \in files : file[2] = Identity(Layer(r, d)))
      ]_allVars

--------------------------------------------------------------------------------
(* What the proofs of these properties go by. *)

Underway == pc \in {"send", "read", "decide"} => request \in Gets /\ ValidGet(request)
                                                /\ TaskOf(request) # NoTask

\* What the seed peers hold they hold under the id they were picked by, or it came of a
\* get that did not tell all.
PickedByTheIdKept ==
    \A pair \in held : \/ pair = <<pair[2], pair[2]>>
                       \/ \E r \in Gets : ~ToldAll(r) /\ pair = Received(r)

\* What is held of the files that are asked for is what was put there.
HeldInStep ==
    \A p, q \in Apart :
        <<TaskOf(p), TaskOf(q)>> \in held <=> <<Identity(p), Identity(q)>> \in files

\* And so is what is kept for another file than it was picked for.
OthersInStep ==
    \A p \in Apart :
        (\E pair \in held : pair # Same(TaskOf(p)) /\ pair[2] = TaskOf(p))
            <=> \E file \in files : file # Same(Identity(p)) /\ file[2] = Identity(p)
================================================================================
