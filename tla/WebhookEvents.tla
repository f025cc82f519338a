--------------------------- MODULE WebhookEvents ----------------------------
(***************************************************************************)
(* Whether a webhook is verified, and what it means then: verify and parse  *)
(* with their three providers, should_trigger and dispatch; and the API     *)
(* trigger.                                                                 *)
(*                                                                          *)
(* A JSON payload is a function from the paths that the code reads to       *)
(* values; a path that is not in its domain is absent or null. A git ref is *)
(* a pair of its prefix and the rest, an event of Bitbucket a pair of the   *)
(* parts around the colon, a repository's name the sequence of its parts.   *)
(***************************************************************************)
EXTENDS Naturals, Sequences, Functions

CONSTANTS
    None,         \* no value
    RepoMap,      \* ServerState.repo_map
    TokenLookup   \* the lookup of API tokens, a TODO in the code, is there

Providers == {"github", "gitlab", "bitbucket"}

\* EventKind
Push(branch)   == [kind |-> "Push", branch |-> branch]
Tag(name)      == [kind |-> "Tag", name |-> name]
Ping           == [kind |-> "Ping"]
Ignored(event) == [kind |-> "Ignored", event |-> event]
PullRequest(number, action, source, target) ==
    [kind |-> "PullRequest", number |-> number, action |-> action,
     source |-> source, target |-> target]

Event(kind, repo, sha, ref, actor) ==
    [kind |-> kind, repo |-> repo, sha |-> sha, ref |-> ref, actor |-> actor]
Err(why) == [error |-> why]
Ok(result) == "error" \notin DOMAIN result

\* The helpers s and u, and the two ways their None is handled
Get(j, path) == IF path \in DOMAIN j THEN j[path] ELSE None
OrElse(a, b) == IF a # None THEN a ELSE b

Heads == "refs/heads/"
Tags == "refs/tags/"

\* short_ref
ShortRef(ref) == ref[2]

(***************************************************************************)
(* github                                                                   *)
(***************************************************************************)

\* Mutant: a tag is taken for a branch of its name.
GithubPushBranch(j, repo) ==
    LET ref == Get(j, "ref")
    IN  IF ref = None THEN Err("MissingField")
        ELSE Event(Push(ShortRef(ref)), repo, Get(j, "after"), ref, Get(j, "pusher.name"))

GithubPush(j, repo) ==
    LET ref == Get(j, "ref")
    IN  IF ref = None THEN Err("MissingField")
        ELSE Event(IF ref[1] = Tags THEN Tag(ShortRef(ref)) ELSE Push(ShortRef(ref)),
                   repo, Get(j, "after"), ref, Get(j, "pusher.name"))

GithubPull(j, repo) ==
    Event(PullRequest(OrElse(OrElse(Get(j, "number"), Get(j, "pull_request.number")), 0),
                      OrElse(Get(j, "action"), ""),
                      OrElse(Get(j, "pull_request.head.ref"), ""),
                      Get(j, "pull_request.base.ref")),
          repo, Get(j, "pull_request.head.sha"), None, Get(j, "sender.login"))

Github(event, j) ==
    LET repo == OrElse(Get(j, "repository.full_name"), <<>>)
    IN  CASE event = "ping"         -> Event(Ping, repo, None, None, None)
          [] event = "push"         -> GithubPush(j, repo)
          [] event = "pull_request" -> GithubPull(j, repo)
          [] OTHER                  -> Event(Ignored(event), repo, None, None, None)

(***************************************************************************)
(* gitlab                                                                   *)
(***************************************************************************)
GitlabPush(j, repo, actor, event) ==
    LET ref == Get(j, "ref")
    IN  IF ref = None THEN Err("MissingField")
        ELSE Event(IF event = "Push Hook" THEN Push(ShortRef(ref)) ELSE Tag(ShortRef(ref)),
                   repo, OrElse(Get(j, "checkout_sha"), Get(j, "after")), ref, actor)

GitlabAction(raw) ==
    CASE raw = "open"   -> "opened"
      [] raw = "reopen" -> "reopened"
      [] raw = "update" -> "synchronize"
      [] OTHER          -> raw

GitlabPull(j, repo, actor) ==
    Event(PullRequest(OrElse(Get(j, "object_attributes.iid"), 0),
                      GitlabAction(OrElse(Get(j, "object_attributes.action"), "")),
                      OrElse(Get(j, "object_attributes.source_branch"), ""),
                      Get(j, "object_attributes.target_branch")),
          repo, Get(j, "object_attributes.last_commit.id"), None, actor)

Gitlab(event, j) ==
    LET repo  == OrElse(Get(j, "project.path_with_namespace"), <<>>)
        actor == OrElse(Get(j, "user_username"), Get(j, "user.username"))
    IN  CASE event \in {"Push Hook", "Tag Push Hook"} -> GitlabPush(j, repo, actor, event)
          [] event = "Merge Request Hook"             -> GitlabPull(j, repo, actor)
          [] OTHER                                    -> Event(Ignored(event), repo, None, None, None)

(***************************************************************************)
(* bitbucket: only the first of a push's changes is read                    *)
(***************************************************************************)

\* Mutant: a change without `new` is read as a push to a branch without a name.
BitbucketPushNamed(j, repo, actor) ==
    LET changes == OrElse(Get(j, "push.changes"), <<>>)
    IN  IF changes = <<>> THEN Err("MissingField")
        ELSE LET new  == OrElse(Get(changes[1], "new"), [p \in {} |-> None])
                 name == OrElse(Get(new, "name"), "")
                 tag  == Get(new, "type") = "tag"
             IN  Event(IF tag THEN Tag(name) ELSE Push(name), repo, Get(new, "target.hash"),
                       <<IF tag THEN Tags ELSE Heads, name>>, actor)

BitbucketPush(j, repo, actor) ==
    LET changes == OrElse(Get(j, "push.changes"), <<>>)
    IN  IF changes = <<>> THEN Err("MissingField")
        ELSE IF Get(changes[1], "new") = None
          THEN Event(Ignored("repo:push (branch deleted)"), repo, None, None, actor)
        ELSE LET new  == changes[1]["new"]
                 name == OrElse(Get(new, "name"), "")
                 tag  == Get(new, "type") = "tag"
             IN  Event(IF tag THEN Tag(name) ELSE Push(name), repo, Get(new, "target.hash"),
                       <<IF tag THEN Tags ELSE Heads, name>>, actor)

BitbucketAction(rest) ==
    CASE rest = "created" -> "opened"
      [] rest = "updated" -> "synchronize"
      [] OTHER            -> rest

BitbucketPull(rest, j, repo, actor) ==
    Event(PullRequest(OrElse(Get(j, "pullrequest.id"), 0),
                      BitbucketAction(rest),
                      OrElse(Get(j, "pullrequest.source.branch.name"), ""),
                      Get(j, "pullrequest.destination.branch.name")),
          repo, Get(j, "pullrequest.source.commit.hash"), None, actor)

Bitbucket(event, j) ==
    LET repo  == OrElse(Get(j, "repository.full_name"), <<>>)
        actor == OrElse(Get(j, "actor.nickname"), Get(j, "actor.display_name"))
    IN  CASE event = <<"diagnostics", "ping">> -> Event(Ping, repo, None, None, None)
          [] event = <<"repo", "push">>        -> BitbucketPush(j, repo, actor)
          [] event[1] = "pullrequest"          -> BitbucketPull(event[2], j, repo, actor)
          [] OTHER                             -> Event(Ignored(event), repo, None, None, None)

(***************************************************************************)
(* parse, should_trigger, enqueue and dispatch                              *)
(***************************************************************************)
Parse(provider, event, j) ==
    IF event = None THEN Err("MissingHeader")
    ELSE IF j = None THEN Err("BadJson")
    ELSE CASE provider = "github"    -> Github(event, j)
           [] provider = "gitlab"    -> Gitlab(event, j)
           [] provider = "bitbucket" -> Bitbucket(event, j)

ShouldTrigger(e) ==
    \/ e.kind.kind \in {"Push", "Tag"}
    \/ /\ e.kind.kind = "PullRequest"
       /\ e.kind.action \in {"opened", "reopened", "synchronize", "updated"}

\* The project and the pipeline that a run is queued for
Enqueue(e) == IF e.repo \in DOMAIN RepoMap THEN RepoMap[e.repo] ELSE Err("UnknownRepo")

Answer(answer, run) == [answer |-> answer, run |-> run]

\* The answer to the provider; a repository nobody mapped is acknowledged too
Dispatch(e) ==
    IF ShouldTrigger(e) /\ Ok(Enqueue(e)) THEN Answer("accepted", Enqueue(e))
    ELSE Answer("ignored", None)

Webhook(provider, event, j) ==
    LET e == Parse(provider, event, j)
    IN  IF Ok(e) THEN Dispatch(e) ELSE Answer("bad request", None)

(***************************************************************************)
(* verify: a signature header is its prefix and, if it is hex of the right  *)
(* length, the MAC it spells, else NoMac. A secret is None if there is none *)
(* and the empty sequence if it is empty.                                   *)
(***************************************************************************)
Mac(secret, body) == <<secret, body>>
NoMac == <<>>
Verified(bodyAuthenticated) == [body_authenticated |-> bodyAuthenticated]

VerifyHmac(sig, body, secret) ==
    IF sig.prefix # "sha256=" \/ sig.mac = NoMac THEN Err("MalformedSignature")
    ELSE IF sig.mac = Mac(secret, body) THEN Verified(TRUE)
    ELSE Err("SignatureMismatch")

\* Mutant: GitHub's other header is tried where the first is absent.
VerifyEither(provider, headers, body, secret) ==
    LET sig == OrElse(headers["x-hub-signature-256"], headers["x-hub-signature"])
    IN  IF secret \in {None, <<>>} THEN Err("NoSecretConfigured")
        ELSE IF provider = "gitlab"
          THEN IF headers["x-gitlab-token"] = secret THEN Verified(FALSE)
               ELSE Err("SignatureMismatch")
        ELSE IF sig = None THEN Err("MissingHeader")
        ELSE VerifyHmac(sig, body, secret)

Verify(provider, headers, body, secret) ==
    LET own == CASE provider = "github"    -> headers["x-hub-signature-256"]
                 [] provider = "bitbucket" -> headers["x-hub-signature"]
                 [] provider = "gitlab"    -> headers["x-gitlab-token"]
    IN  IF secret \in {None, <<>>} THEN Err("NoSecretConfigured")
        ELSE IF own = None
          THEN Err(IF provider = "github" /\ headers["x-hub-signature"] # None
                     THEN "LegacySha1Refused" ELSE "MissingHeader")
        ELSE IF provider # "gitlab" THEN VerifyHmac(own, body, secret)
        ELSE IF own = secret THEN Verified(FALSE) ELSE Err("SignatureMismatch")

\* The status of a delivery that is not verified
Status(e) == IF e.error = "NoSecretConfigured" THEN "server error" ELSE "unauthorized"

(***************************************************************************)
(* trigger: a token is absent, too long, malformed, unknown or known        *)
(***************************************************************************)
Tokens == {"absent", "long", "malformed", "unknown", "known"}

Authenticates(token) == TokenLookup /\ token = "known"

TriggerEvent(body) ==
    Event(Push(IF body.reference = None THEN "api" ELSE body.reference),
          body.project \o body.pipeline, body.commit_sha, body.reference, None)

\* Mutant: the token's length is checked, but not the token.
TriggerUnauthenticated(token, body) ==
    IF token = "absent" THEN Answer("unauthorized", None)
    ELSE IF token = "long" \/ body = None THEN Answer("bad request", None)
    ELSE IF ~Ok(Enqueue(TriggerEvent(body))) THEN Answer("bad request", None)
    ELSE Answer("accepted", Enqueue(TriggerEvent(body)))

Trigger(token, body) ==
    IF token = "absent" THEN Answer("unauthorized", None)
    ELSE IF token = "long" THEN Answer("bad request", None)
    ELSE IF ~Authenticates(token) THEN Answer("unauthorized", None)
    ELSE IF body = None THEN Answer("bad request", None)
    ELSE IF ~Ok(Enqueue(TriggerEvent(body))) THEN Answer("bad request", None)
    ELSE Answer("accepted", Enqueue(TriggerEvent(body)))
=============================================================================
