-------------------------- MODULE MCPublishService --------------------------
(* Every draft of the instances of PublishService has its own content.     *)
EXTENDS PublishService

OwnContent(d) == d
=============================================================================
