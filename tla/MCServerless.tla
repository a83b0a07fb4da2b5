---------------------------- MODULE MCServerless ----------------------------
(* One POST of any kind on the serverless path; a send whose answer is lost
   makes it two messages of the same job. *)
EXTENDS Serverless

OnePost == {"a"}
OneJob == [p \in OnePost |-> "job"]
AnyKind == [OnePost -> Kinds]

=============================================================================
