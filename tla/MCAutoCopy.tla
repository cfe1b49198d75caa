----------------------------- MODULE MCAutoCopy -----------------------------
(* A download grabbed from the app in the four ways it can be. *)
EXTENDS AutoCopy
MCPlans ==
  [Downloads -> [own : {TRUE}, title : {"movie"}, at : {100}, date : {110},
                 dest : Places, direct : BOOLEAN]]
=============================================================================
