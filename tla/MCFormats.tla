----------------------------- MODULE MCFormats ------------------------------
(***************************************************************************)
(* The pure parts of jetrun, each checked against a reference over bounded  *)
(* inputs. A state is an input; the invariants say what must be made of it. *)
(***************************************************************************)
EXTENDS Manifests, Shards, Hosts, FiniteSetsExt

CONSTANTS None, TokenLookup, MaxBytes, MaxShards

MCRepo == <<"acme", "api">>
RepoMap == <<"acme", "api">> :> [project |-> "api", pipeline |-> "ci"]
        @@ <<"web", "ci">>   :> [project |-> "site", pipeline |-> "deploy"]

Hook == INSTANCE WebhookEvents

(* Trees and manifests *)
ValidNames == {<<Letter>>, <<Letter, Letter>>, <<Dot, Letter>>, <<Letter, Dot>>}
D == [i \in 1 .. DigestLen |-> 2]
Nodes == {FileNode(D, n, x) : n \in {0, Base - 1}, x \in BOOLEAN} \cup {DirNode(D)}
           \cup {SymlinkNode([i \in 1 .. n |-> Dot]) : n \in 0 .. Base + 1}
Trees == UNION {[S -> Nodes] : S \in {S \in SUBSET ValidNames : Cardinality(S) <= 2}}

\* Entries that are right, and entries with names and nodes that are not
Names2 == ValidNames \cup {<<>>, <<Dot>>, <<Dot, Dot>>, <<Slash>>, <<Letter, Nul>>, <<NotUtf8>>,
                           <<Letter, Letter, Letter>>}
Payloads == {<<TagDir, D>>, <<TagFile, D \o <<1, 3>> >>, <<TagSymlink, <<1, Dot>> >>,
             <<TagSymlink, <<0>> >>, <<TagSymlink, <<1, NotUtf8>> >>, <<0, <<>> >>}
Entries == {<<p[1]>> \o Field(n) \o p[2] : p \in Payloads, n \in Names2}
Manifests ==
    {<<Version, k>> \o e \o f : k \in 1 .. 2, e \in Entries, f \in Entries \cup {<<>>}}
      \cup UNION {[1 .. n -> 0 .. Base - 1] : n \in 0 .. MaxBytes}

(* Digests *)
DigestSamples == [1 .. Bytes -> {0, 10, 179, 255}]
Digits == {<<n, c>> : n \in {0, 3, 11, 15}, c \in {"lower", "upper"}} \cup {Colon}
Texts == UNION {[1 .. n -> Digits] : n \in 0 .. 2 * Bytes}
           \cup {ToHex(d) : d \in DigestSamples} \cup {ToPrefixed(d) : d \in DigestSamples}
           \cup {Prefix \o ToPrefixed(d) : d \in DigestSamples}
FieldLists == UNION {[1 .. n -> UNION {[1 .. k -> 0 .. 1] : k \in 0 .. 2}] : n \in 0 .. 2}

(* Webhooks *)
Messages == {<<p, w>> \in Hook!Providers \X Happenings : w \in DOMAIN From[p]}
Bodies == [project : {<<"acme">>, <<"web">>, <<"acme", "x">>}, pipeline : {<<"api">>, <<"ci">>},
           commit_sha : {None, Sha}, reference : {None, "feature"}] \cup {None}

(* Signatures: of the body b1 or another, with the configured secret or another *)
Secrets == {None, <<>>, <<"s">>, <<"t">>}
SignatureHeaders == {None} \cup [prefix : {"sha256=", "sha1=", ""},
    mac : {Hook!NoMac} \cup {Hook!Mac(k, b) : k \in {<<"s">>, <<"t">>}, b \in {"b1", "b2"}}]
HeaderSets == {"x-hub-signature-256" :> x @@ "x-hub-signature" :> y @@ "x-gitlab-token" :> k :
                 x, y \in SignatureHeaders, k \in Secrets}
OwnHeader == "github" :> "x-hub-signature-256" @@ "bitbucket" :> "x-hub-signature"
               @@ "gitlab" :> "x-gitlab-token"

Init == sample = NoSample
Next ==
    /\ sample = NoSample
    /\ \/ \E t \in Trees : sample' = [of |-> "tree", tree |-> t]
       \/ \E b \in Manifests : sample' = [of |-> "manifest", bytes |-> b]
       \/ \E d \in DigestSamples : sample' = [of |-> "digest", digest |-> d]
       \/ \E x \in Texts : sample' = [of |-> "text", text |-> x]
       \/ \E f, g \in FieldLists : sample' = [of |-> "fields", one |-> f, two |-> g]
       \/ \E m \in Messages : \E lost \in kSubset(0, DOMAIN From[m[1]][m[2]].json)
                                \cup kSubset(1, DOMAIN From[m[1]][m[2]].json)
                                \cup kSubset(2, DOMAIN From[m[1]][m[2]].json) :
            sample' = [of |-> "message", host |-> m[1], what |-> m[2], lost |-> lost]
       \/ \E p \in Hook!Providers, h \in HeaderSets, k \in Secrets :
            sample' = [of |-> "signature", host |-> p, headers |-> h, secret |-> k]
       \/ \E k \in Hook!Tokens, b \in Bodies : sample' = [of |-> "trigger", token |-> k, body |-> b]
Spec == Init /\ [][Next]_sample

\* A digest is found again under the names it is stored, logged and routed by:
\* hex with and without prefix, the fan-out directory, and one shard of any
\* number of them (digest.rs).
DigestsRoute == Is("digest") => ParsesBack(sample.digest) /\ RoutesOnce(sample.digest, MaxShards)

\* Only the text of a digest is parsed as one, in either case and with at most
\* one prefix (digest.rs, parse).
OnlyDigestsParse == Is("text") => ParsesOnlyDigests(sample.text)

\* Two lists of fields that are hashed field by field never hash the same bytes
\* (digest.rs, update_framed).
FramesDistinct == Is("fields") => FramesDiffer(sample.one, sample.two)

\* Where the code and its comments disagree, see the properties at the end
Contested == {<<"github", "delete">>, <<"gitlab", "delete">>, <<"gitlab", "test">>,
              <<"gitlab", "retitled">>, <<"bitbucket", "retitled">>}

Received == Hook!Webhook(sample.host, From[sample.host][sample.what].event,
                [x \in DOMAIN From[sample.host][sample.what].json \ sample.lost |->
                   From[sample.host][sample.what].json[x]])

\* What happens in a repository starts a run, of the pipeline the repository is
\* mapped to, for the same reasons on all three hosts; a payload that lacks
\* fields never starts one that the whole payload would not (webhook/mod.rs).
HostsAgree == Is("message") /\ <<sample.host, sample.what>> \notin Contested =>
    /\ Received.answer = "accepted" => Wanted(sample.what) /\ Received.run = RepoMap[Repo]
    /\ sample.lost = {} => (Received.answer = "accepted" <=> Wanted(sample.what))

\* The run is for the commit and the branch or tag that the host named: the same
\* normalized event whichever host sends it (webhook/mod.rs).
EventsNormalized == Is("message") /\ sample.lost = {} /\ Wanted(sample.what) =>
    LET sent == From[sample.host][sample.what]
        e == Hook!Parse(sample.host, sent.event, sent.json)
    IN  /\ e.sha = Sha /\ e.repo = Repo /\ e.actor = "dev"
        /\ sample.what = "push" => e.kind = Hook!Push("feature") /\ e.ref = <<Hook!Heads, "feature">>
        /\ sample.what = "tag" => e.kind = Hook!Tag("v1") /\ e.ref = <<Hook!Tags, "v1">>
        /\ sample.what \in {"opened", "reopened", "commits"} =>
             e.kind = Hook!PullRequest(7, IF sample.what = "commits" THEN "synchronize"
                                          ELSE sample.what, "feature", "main")

\* A delivery is verified if and only if the header of its own host proves the
\* secret that is configured for it, over this body where there is a MAC; the
\* header that GitHub and Bitbucket use for different things proves nothing to
\* GitHub. Only a secret that is missing is the server's own fault (verify.rs).
VerifiedIsProven == Is("signature") =>
    LET got == Hook!Verify(sample.host, sample.headers, "b1", sample.secret)
        own == sample.headers[OwnHeader[sample.host]]
        proven == IF sample.host = "gitlab" THEN own = sample.secret
                  ELSE own = [prefix |-> "sha256=", mac |-> Hook!Mac(sample.secret, "b1")]
    IN  /\ Hook!Ok(got) <=> sample.secret \in Secrets \ {None, <<>>} /\ own # None /\ proven
        /\ Hook!Ok(got) => (got.body_authenticated <=> sample.host # "gitlab")
        /\ ~Hook!Ok(got) =>
             (Hook!Status(got) = "server error" <=> sample.secret \in {None, <<>>})

\* Without a token that is known, the API trigger queues nothing and does not
\* tell whether the body was right (http.rs, trigger).
TriggerNeedsToken == Is("trigger") /\ sample.token # "known" =>
    /\ Hook!Trigger(sample.token, sample.body).run = None
    /\ \A b \in Bodies : Hook!Trigger(sample.token, b) = Hook!Trigger(sample.token, sample.body)

\* A digest names one thing: its texts parse back to it and nothing else does, it
\* has one directory and one shard, and different lists of fields have different
\* ones.
DigestsIdentify == DigestsRoute /\ OnlyDigestsParse /\ FramesDistinct

\* A run is started for what happened and for nothing else, the same on every
\* host, for the commit that was named; a host proves a secret first, and a caller
\* of the API has a token.
RunsHaveReasons == HostsAgree /\ EventsNormalized /\ VerifiedIsProven /\ TriggerNeedsToken

\* Deleting a branch starts no run ("a deletion must not be read as a push",
\* webhook/mod.rs:362-363): GitHub's and GitLab's do.
DeletionStartsNoRun == Is("message") /\ sample.what = "delete" => Received.answer # "accepted"

\* A test delivery starts no run ("clicking "Test webhook" in the UI burns a
\* build", webhook/mod.rs:101-103): GitLab's does.
TestStartsNoRun == Is("message") /\ sample.what = "test" => Received.answer # "accepted"

\* A change of a pull request that brings no commits starts no run (the test of
\* webhook/mod.rs:503-511 for GitHub, where a label or an assignee starts none):
\* GitLab's and Bitbucket's updates do, as they do not tell the two apart.
EditStartsNoRun == Is("message") /\ sample.what = "retitled" => Received.answer # "accepted"

\* The API trigger runs the project and pipeline it names (http.rs, TriggerBody):
\* it looks them up as the name of a repository.
TriggerRunsWhatItNames == Is("trigger") =>
    LET got == Hook!Trigger(sample.token, sample.body).run
    IN  got # None => <<got.project>> = sample.body.project /\ <<got.pipeline>> = sample.body.pipeline

=============================================================================
