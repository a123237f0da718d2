------------------------------ MODULE MCLogin ------------------------------
(***************************************************************************)
(* Instances of Login for TLC.                                             *)
(***************************************************************************)
EXTENDS Login, TLC

CONSTANTS ann, bob, dingtalk, wechat, number, caller1, caller2

=============================================================================
