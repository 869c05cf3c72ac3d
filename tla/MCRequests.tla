------------------------------- MODULE MCRequests -------------------------------
(* One file under two spellings and signatures of its url, with and without a tag,  *)
(* an application and a filter, one blob in two registries, a blob by a digest of an *)
(* unknown algorithm, a malformed url, and an image of two platforms whose layers    *)
(* the blobs are.                                                                    *)
EXTENDS Requests

MCFile == <<1, 2>>
MCKeys == <<"Signature", "a", "b">>

Ref(algorithm, text) == [algorithm |-> algorithm, text |-> text]
Name(letter) == Ref("", <<letter>>)
D1 == Ref("crc32", <<"d1">>)
D2 == Ref("crc32", <<"d2">>)
M1 == Ref("crc32", <<"m1">>)
Md5 == Ref("md5", <<"d1">>)

Pair(key, value) == [key |-> key, value |-> value, escapes |-> FALSE, semicolon |-> FALSE]
Plus(pair) == [pair EXCEPT !.escapes = TRUE]

Url(host, kind, ref, query) ==
    [form |-> "http", host |-> <<host>>, kind |-> kind, ref |-> ref, query |-> query]

File1 == Url("h", "file", Name("f"), <<Pair("a", <<"1">>), Pair("Signature", <<"s1">>), Pair("b", <<"2">>)>>)
File1Again == Url("h", "file", Name("f"), <<Pair("Signature", <<"s2">>), Pair("b", <<"2">>), Plus(Pair("a", <<"1">>))>>)
Malformed == [File1 EXCEPT !.form = "malformed"]

Image == [registry |-> "docker.io", repository |-> "r", ref |-> Name("latest")]
Blob1 == BuildBlobUrl(Image, D1)
Mirrored == BuildBlobUrl([Image EXCEPT !.registry = "mirror"], D1)

MCGets ==
    {DefaultGetRequest @@ ("url" :> url) : url \in {File1Again, Mirrored}}
    \cup {[DefaultGetRequest EXCEPT !.filter = {}, !.application = <<"a">>] @@ ("url" :> File1),
          [DefaultGetRequest EXCEPT !.replicas = 0] @@ ("url" :> File1),
          [DefaultGetRequest EXCEPT !.tag = <<"line break">>] @@ ("url" :> File1),
          [DefaultGetRequest EXCEPT !.content = <<"c">>] @@ ("url" :> Mirrored)}

MCPreheats ==
    {DefaultPreheatRequest @@ ("url" :> File1),
     [DefaultPreheatRequest EXCEPT !.tag = <<"t">>] @@ ("url" :> File1Again),
     DefaultPreheatRequest @@ ("url" :> Malformed)}

MCDeletes ==
    {DefaultDeleteRequest @@ ("url" :> url) : url \in {File1Again, Blob1}}
    \cup {[DefaultDeleteRequest EXCEPT !.application = <<"t">>] @@ ("url" :> File1),
          [DefaultDeleteRequest EXCEPT !.filter = {}] @@ ("url" :> Malformed),
          [DefaultDeleteRequest EXCEPT !.content = <<"c">>] @@ ("url" :> BuildBlobUrl(Image, Md5))}

ByUrl == [tag |-> <<"t">>, application |-> <<"a">>, piece |-> <<"4">>, by_digest |-> FALSE, platform |-> <<"linux/arm64">>]

MCImagePreheats ==
    {DefaultPreheatImageRequest @@ ("image" :> Image),
     ByUrl @@ DefaultPreheatImageRequest @@ ("image" :> Image)}

MCImageDeletes ==
    {DefaultDeleteImageRequest @@ ("image" :> Image),
     ByUrl @@ DefaultDeleteImageRequest @@ ("image" :> Image)}

MCStats ==
    {[DefaultStatImageRequest EXCEPT !.platform = <<"linux/amd64">>] @@ ("image" :> Image),
     ByUrl @@ DefaultStatImageRequest @@ ("image" :> Image)}

\* The two platforms have a layer in common.
MCIndexes ==
    Name("latest") :>
        <<[platform |-> "linux/amd64",
           manifest |-> [digest |-> M1, config |-> D2, layers |-> <<D1, D1>>]],
          [platform |-> "linux/arm64",
           manifest |-> [digest |-> D2, config |-> D1, layers |-> <<D1>>]]>>
================================================================================
