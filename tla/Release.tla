------------------------------ MODULE Release ------------------------------
(* scripts/release.py publish: a package directory becomes the assets of a   *)
(* draft, which is downloaded, compared and made public. Several            *)
(* publications of one tag may run: by the workflow, by hand, or again after *)
(* the tag was moved. Anyone may move the tag, every command may fail, and   *)
(* an asset may arrive damaged.                                              *)
CONSTANTS Publishers, Commits, Files,
  CommitOf         \* the commit a publication is for

VARIABLES
  step,            \* what each publication does next, or how it ended
  package,         \* its directory: the commit it was built from, and whether intact
  remoteTag,       \* the commit that the tag names on GitHub
  release          \* the release of the tag

vars == <<step, package, remoteTag, release>>

\* The bytes of a file, which two builds never agree on.
Bytes(p, intact) == [build |-> p, intact |-> intact]
Whole(p) == [f \in Files |-> Bytes(p, TRUE)]

Release(state, assets) == [state |-> state, assets |-> assets]
NoAssets == [f \in {} |-> {}]

Init ==
  /\ step = [p \in Publishers |-> "start"]
  /\ package \in [Publishers -> [commit : Commits, intact : BOOLEAN]]
  /\ remoteTag \in Commits
  /\ release = Release("none", NoAssets)

Goes(p, from, to) == step[p] = from /\ step' = [step EXCEPT ![p] = to]

\* An exception ends the publication, a killed runner too.
Fail(p) ==
  /\ step[p] \notin {"failed", "published"}
  /\ step' = [step EXCEPT ![p] = "failed"]
  /\ UNCHANGED <<package, remoteTag, release>>

\* verify of the directory that is to be published.
Verify(p) ==
  /\ package[p] = [commit |-> CommitOf[p], intact |-> TRUE]
  /\ Goes(p, "start", "check tag")
  /\ UNCHANGED <<package, remoteTag, release>>

verify_remote_tag(p, from, to) ==
  /\ remoteTag = CommitOf[p]
  /\ Goes(p, from, to)
  /\ UNCHANGED <<package, remoteTag, release>>

\* Mutant: a release that exists is taken over.
CreateOver(p) ==
  /\ Goes(p, "create", "upload")
  /\ release' = IF release.state = "none" THEN Release("draft", NoAssets) ELSE release
  /\ UNCHANGED <<package, remoteTag>>

\* gh release create fails on a release or draft that exists.
Create(p) ==
  /\ release.state = "none"
  /\ Goes(p, "create", "upload")
  /\ release' = Release("draft", NoAssets)
  /\ UNCHANGED <<package, remoteTag>>

\* One asset; without --clobber an asset that exists is an error.
Upload(p, f) ==
  /\ step[p] = "upload"
  /\ f \notin DOMAIN release.assets
  /\ \E intact \in BOOLEAN :
       release' = [release EXCEPT !.assets =
                     [g \in DOMAIN @ \cup {f} |-> IF g = f THEN Bytes(p, intact) ELSE @[g]]]
  /\ step' = IF DOMAIN release'.assets = Files THEN [step EXCEPT ![p] = "download"] ELSE step
  /\ UNCHANGED <<package, remoteTag>>

\* The assets are downloaded, verified and compared with the directory.
Compare(p) ==
  /\ Goes(p, "download", "check again")
  /\ release.assets = Whole(p)
  /\ UNCHANGED <<package, remoteTag, release>>

Publish(p) ==
  /\ Goes(p, "edit", "published")
  /\ release' = [release EXCEPT !.state = "public"]
  /\ UNCHANGED <<package, remoteTag>>

MoveTag ==
  /\ remoteTag' \in Commits \ {remoteTag}
  /\ UNCHANGED <<step, package, release>>

Next ==
  \/ \E p \in Publishers :
       \/ Fail(p)
       \/ Verify(p)
       \/ verify_remote_tag(p, "check tag", "create")
       \/ Create(p)
       \/ \E f \in Files : Upload(p, f)
       \/ Compare(p)
       \/ verify_remote_tag(p, "check again", "edit")
       \/ Publish(p)
  \/ MoveTag

Spec == Init /\ [][Next]_vars

\* What is public is one whole build of the commit it was published for, as
\* its files were verified, however many publications of the tag ran, failed
\* or left a draft behind, and only the one that created it made it public.
PublishedIsVerified ==
  release.state = "public" =>
    \E p \in Publishers :
      /\ step[p] = "published"
      /\ package[p].commit = CommitOf[p]
      /\ release.assets = Whole(p)
      /\ \A q \in Publishers : step[q] \notin {"upload", "download", "check again", "edit"}
=============================================================================
