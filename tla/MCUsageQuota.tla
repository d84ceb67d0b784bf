---------------------------- MODULE MCUsageQuota ----------------------------
(* The limits of a small instance of UsageQuota for TLC: low enough to be    *)
(* reached by two requests and a batch.                                      *)
EXTENDS UsageQuota

Limits == [k \in Kinds |-> CASE k = "chat_images" -> 2 [] k = "ocr" -> 3 [] OTHER -> 1]
=============================================================================
