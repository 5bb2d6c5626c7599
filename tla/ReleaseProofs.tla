--------------------------- MODULE ReleaseProofs ---------------------------
(* What scripts/release.py makes public is what it verified, for any number  *)
(* of publications of the tag, of files and of commits.                      *)
EXTENDS Release, TLAPS

Working == {"upload", "download", "check again", "edit"}
Steps == {"start", "check tag", "create", "published", "failed"} \cup Working

(* One publication at a time works on the draft, the one that created it:    *)
(* no other gets past Create as long as there is a release, draft or not.    *)
ReleaseInv ==
  /\ step \in [Publishers -> Steps]
  /\ release = Release(release.state, release.assets)
  /\ \A p, q \in Publishers : step[p] \in Working /\ step[q] \in Working => p = q
  /\ \A p \in Publishers :
       /\ step[p] \in Working => release.state = "draft"
       /\ step[p] \in {"check again", "edit"} => release.assets = Whole(p)
       /\ step[p] \notin {"start", "failed"} => package[p].commit = CommitOf[p]
  /\ PublishedIsVerified

LEMMA InitReleaseInv ==
  ASSUME Init
  PROVE  ReleaseInv
BY DEF Init, ReleaseInv, PublishedIsVerified, Steps, Working, Release

\* A step of one publication that leaves the release alone.
LEMMA GoesReleaseInv ==
  ASSUME ReleaseInv, NEW p \in Publishers, NEW to \in Steps, UNCHANGED <<package, release>>,
         step' = [step EXCEPT ![p] = to], step[p] # "published",
         to \in Working => step[p] \in Working,
         to \in {"check again", "edit"} => release.assets = Whole(p),
         to \notin {"start", "failed"} => package[p].commit = CommitOf[p]
  PROVE  ReleaseInv'
<1>1. step' \in [Publishers -> Steps]
  BY DEF ReleaseInv
<1>2. \A q \in Publishers : step'[q] = IF q = p THEN to ELSE step[q]
  BY DEF ReleaseInv
<1>3. PublishedIsVerified'
  BY <1>2 DEF ReleaseInv, PublishedIsVerified, Working
<1> QED BY <1>1, <1>2, <1>3 DEF ReleaseInv

LEMMA NextReleaseInv ==
  ASSUME ReleaseInv, [Next]_vars
  PROVE  ReleaseInv'
<1>1. ASSUME NEW p \in Publishers, Fail(p) PROVE ReleaseInv'
  BY <1>1, GoesReleaseInv DEF Fail, Steps, Working
<1>2. ASSUME NEW p \in Publishers, Verify(p) PROVE ReleaseInv'
  <2>1. package[p].commit = CommitOf[p]
    <3>1. package[p] = [commit |-> CommitOf[p], intact |-> TRUE]
      BY <1>2 DEF Verify
    <3>2. [commit |-> CommitOf[p], intact |-> TRUE].commit = CommitOf[p]
      OBVIOUS
    <3> QED BY <3>1, <3>2, Zenon
  <2>2. /\ step[p] = "start" /\ step' = [step EXCEPT ![p] = "check tag"]
        /\ UNCHANGED <<package, release>>
    BY <1>2 DEF Verify, Goes
  <2> QED BY <2>1, <2>2, GoesReleaseInv DEF Steps, Working
<1>3. ASSUME NEW p \in Publishers, verify_remote_tag(p, "check tag", "create")
      PROVE  ReleaseInv'
  BY <1>3, GoesReleaseInv DEF verify_remote_tag, Goes, Steps, Working, ReleaseInv
<1>4. ASSUME NEW p \in Publishers, Create(p) PROVE ReleaseInv'
  <2>1. \A q \in Publishers : step'[q] = IF q = p THEN "upload" ELSE step[q]
    BY <1>4 DEF Create, Goes, ReleaseInv
  <2>2. \A q \in Publishers : step[q] \notin Working
    BY <1>4 DEF Create, ReleaseInv
  <2>3. step' \in [Publishers -> Steps] /\ package' = package /\ step[p] = "create"
    BY <1>4 DEF Create, Goes, ReleaseInv, Steps, Working
  <2>4. release' = Release("draft", NoAssets) /\ release'.state = "draft"
    BY <1>4 DEF Create, Release
  <2> QED BY <2>1, <2>2, <2>3, <2>4 DEF ReleaseInv, PublishedIsVerified, Working, Release
<1>5. ASSUME NEW p \in Publishers, NEW f \in Files, Upload(p, f) PROVE ReleaseInv'
  <2>1. PICK to \in {"upload", "download"} : step' = [step EXCEPT ![p] = to]
    BY <1>5 DEF Upload, ReleaseInv
  <2>2. \A q \in Publishers : step'[q] = IF q = p THEN to ELSE step[q]
    BY <2>1 DEF ReleaseInv
  <2>3. step' \in [Publishers -> Steps] /\ package' = package /\ step[p] = "upload"
    BY <1>5, <2>1 DEF Upload, ReleaseInv, Steps, Working
  <2>4. release.state = "draft" /\ \A q \in Publishers \ {p} : step[q] \notin Working
    BY <2>3 DEF ReleaseInv, Working
  <2>5. release'.state = "draft" /\ release' = Release(release'.state, release'.assets)
    BY <1>5, <2>4 DEF Upload, ReleaseInv, Release
  <2> QED BY <2>2, <2>3, <2>4, <2>5 DEF ReleaseInv, PublishedIsVerified, Working
<1>6. ASSUME NEW p \in Publishers, Compare(p) PROVE ReleaseInv'
  BY <1>6, GoesReleaseInv DEF Compare, Goes, Steps, Working, ReleaseInv
<1>7. ASSUME NEW p \in Publishers, verify_remote_tag(p, "check again", "edit")
      PROVE  ReleaseInv'
  BY <1>7, GoesReleaseInv DEF verify_remote_tag, Goes, Steps, Working, ReleaseInv
<1>8. ASSUME NEW p \in Publishers, Publish(p) PROVE ReleaseInv'
  <2>1. /\ step[p] = "edit" /\ step' \in [Publishers -> Steps] /\ package' = package
        /\ \A q \in Publishers : step'[q] = IF q = p THEN "published" ELSE step[q]
    BY <1>8 DEF Publish, Goes, ReleaseInv, Steps
  <2>2. \A q \in Publishers : step'[q] \notin Working
    BY <2>1 DEF ReleaseInv, Working
  <2>3. /\ release'.state = "public" /\ release'.assets = Whole(p)
        /\ release' = Release(release'.state, release'.assets)
    BY <1>8, <2>1 DEF Publish, ReleaseInv, Release
  <2>4. package[p].commit = CommitOf[p]
    BY <2>1 DEF ReleaseInv
  <2>5. PublishedIsVerified'
    BY <2>1, <2>2, <2>3, <2>4 DEF PublishedIsVerified, Working, Whole, Bytes
  <2> QED BY <2>1, <2>2, <2>3, <2>4, <2>5 DEF ReleaseInv, Working
<1>9. ASSUME UNCHANGED <<step, package, release>> PROVE ReleaseInv'
  BY <1>9 DEF ReleaseInv, PublishedIsVerified
<1> QED
  BY <1>1, <1>2, <1>3, <1>4, <1>5, <1>6, <1>7, <1>8, <1>9 DEF Next, vars, MoveTag

(* What is public is one whole build of the commit it was published for,     *)
(* whatever else was started, failed or left behind (publish of release.py). *)
THEOREM WhatIsPublishedIsVerified == Spec => []PublishedIsVerified
<1>1. ReleaseInv => PublishedIsVerified
  BY DEF ReleaseInv
<1> QED BY <1>1, InitReleaseInv, NextReleaseInv, PTL DEF Spec
=============================================================================
