------------------------------- MODULE Hosts --------------------------------
(***************************************************************************)
(* External: what GitHub, GitLab and Bitbucket send when something happens  *)
(* in a repository, in the fields that jet-server reads, as its parsers and *)
(* their tests expect them.                                                 *)
(***************************************************************************)
EXTENDS Naturals, Sequences, TLC

CONSTANTS Repo, Sha, ZeroSha

Happenings == {"push", "delete", "tag", "opened", "reopened", "commits", "retitled", "closed",
               "merged", "reviewed", "test", "issue"}

\* What a run is wanted for
Wanted(what) == what \in {"push", "tag", "opened", "reopened", "commits"}

Sent(event, json) == [event |-> event, json |-> json]

FromGithub ==
    LET repo == "repository.full_name" :> Repo
        push(ref, sha) == Sent("push", repo @@ "ref" :> ref @@ "after" :> sha
                                       @@ "pusher.name" :> "dev")
        pull(action) == Sent("pull_request",
            repo @@ "action" :> action @@ "number" :> 7
                 @@ "pull_request.head.ref" :> "feature" @@ "pull_request.base.ref" :> "main"
                 @@ "pull_request.head.sha" :> Sha @@ "sender.login" :> "dev")
    IN  "push"     :> push(<<"refs/heads/", "feature">>, Sha)
     @@ "delete"   :> push(<<"refs/heads/", "feature">>, ZeroSha)
     @@ "tag"      :> push(<<"refs/tags/", "v1">>, Sha)
     @@ "opened"   :> pull("opened")
     @@ "reopened" :> pull("reopened")
     @@ "commits"  :> pull("synchronize")
     @@ "retitled" :> pull("edited")
     @@ "closed"   :> pull("closed")
     @@ "merged"   :> pull("closed")
     @@ "reviewed" :> Sent("pull_request_review", repo)
     @@ "test"     :> Sent("ping", repo)
     @@ "issue"    :> Sent("issues", repo)

\* checkout_sha is null for a deletion; the Test button sends a push
FromGitlab ==
    LET repo == "project.path_with_namespace" :> Repo @@ "user_username" :> "dev"
        push(event, ref) == Sent(event, repo @@ "ref" :> ref @@ "after" :> Sha
                                             @@ "checkout_sha" :> Sha)
        merge(action) == Sent("Merge Request Hook",
            repo @@ "object_attributes.action" :> action @@ "object_attributes.iid" :> 7
                 @@ "object_attributes.source_branch" :> "feature"
                 @@ "object_attributes.target_branch" :> "main"
                 @@ "object_attributes.last_commit.id" :> Sha)
    IN  "push"     :> push("Push Hook", <<"refs/heads/", "feature">>)
     @@ "delete"   :> Sent("Push Hook", repo @@ "ref" :> <<"refs/heads/", "feature">>
                                             @@ "after" :> ZeroSha)
     @@ "tag"      :> push("Tag Push Hook", <<"refs/tags/", "v1">>)
     @@ "opened"   :> merge("open")
     @@ "reopened" :> merge("reopen")
     @@ "commits"  :> merge("update")
     @@ "retitled" :> merge("update")
     @@ "closed"   :> merge("close")
     @@ "merged"   :> merge("merge")
     @@ "reviewed" :> merge("approved")
     @@ "test"     :> push("Push Hook", <<"refs/heads/", "feature">>)
     @@ "issue"    :> Sent("Issue Hook", repo)

\* There is no reopening a pull request
FromBitbucket ==
    LET repo == "repository.full_name" :> Repo @@ "actor.nickname" :> "dev"
        push(change) == Sent(<<"repo", "push">>, repo @@ "push.changes" :> <<change>>)
        new(type, name) == "new" :> ("type" :> type @@ "name" :> name @@ "target.hash" :> Sha)
        pull(key) == Sent(<<"pullrequest", key>>,
            repo @@ "pullrequest.id" :> 7 @@ "pullrequest.source.branch.name" :> "feature"
                 @@ "pullrequest.destination.branch.name" :> "main"
                 @@ "pullrequest.source.commit.hash" :> Sha)
    IN  "push"     :> push(new("branch", "feature"))
     @@ "delete"   :> push("old" :> "feature")
     @@ "tag"      :> push(new("tag", "v1"))
     @@ "opened"   :> pull("created")
     @@ "commits"  :> pull("updated")
     @@ "retitled" :> pull("updated")
     @@ "closed"   :> pull("rejected")
     @@ "merged"   :> pull("fulfilled")
     @@ "reviewed" :> pull("approved")
     @@ "test"     :> Sent(<<"diagnostics", "ping">>, repo)
     @@ "issue"    :> Sent(<<"issue", "created">>, repo)

From == "github" :> FromGithub @@ "gitlab" :> FromGitlab @@ "bitbucket" :> FromBitbucket
=============================================================================
