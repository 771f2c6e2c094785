----------------------------- MODULE MCBatchCalls -----------------------------
(* Small instances of BatchCalls: arrays of up to three keys, so that a key   *)
(* can be asked for twice, in one namespace or in two.                        *)
EXTENDS BatchCalls

TwoNamespaces == {"ns1", "ns2"}
TwoIds        == {"a", "b"}
===============================================================================
