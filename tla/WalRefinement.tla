--------------------------- MODULE WalRefinement ----------------------------
(***************************************************************************)
(* The publish protocol implements the log of ref transactions.            *)
(***************************************************************************)
EXTENDS WalPublish

Abstract == INSTANCE RefLog WITH entries <- hist,
                                 answer <- [r \in Requests |-> resp[r].kind]

\* The protocol implements the log of ref transactions that clients are promised:
\* every commit_manifest is a Commit, every answer of process_batch an Answer, and
\* no other step is seen by a client.
ImplementsRefLog == Abstract!Spec
=============================================================================
