----------------------- MODULE MCOnlineCandidateService -----------------------
(* Two workers; requests both may answer, only the cloud may, and nobody may. *)
EXTENDS OnlineCandidateService

CONSTANTS cloud, ai

MCSources == {cloud, ai}
MCRequests == {[id |-> 1, eligible |-> {cloud, ai}],
               [id |-> 2, eligible |-> {cloud}],
               [id |-> 3, eligible |-> {}]}

=============================================================================
