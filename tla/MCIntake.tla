------------------------------- MODULE MCIntake -------------------------------
(* Instances of Intake: a video with a short link to it, and a page.         *)
EXTENDS Intake, TLC

CONSTANTS video, link, page, r1, c1, g1, t1, t2

MCUrls   == {video, link, page}
MCCanon  == video :> video @@ link :> video @@ page :> page
MCItems  == r1 :> <<"bad", video>>
MCUrlOf  == c1 :> page
MCCandidates == g1 :> <<link>>
Threads  == {t1, t2}
Alike    == Permutations(Threads)
===============================================================================
