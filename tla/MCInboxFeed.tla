---------------------------- MODULE MCInboxFeed ----------------------------
(* A finite instance of the blackboard and the inbox feed for TLC: two     *)
(* bridges publish, two drafts want the same path.                         *)
EXTENDS InboxFeed

CONSTANTS p1, p2, doc1, doc2, v1, v2, c1

MCPublishers == {p1, p2}
MCPaths      == {doc1, doc2}
MCContents   == {v1, v2}
MCDrafts     == {[by |-> p1, path |-> doc1, content |-> v1],
                 [by |-> p2, path |-> doc1, content |-> v2],
                 [by |-> p2, path |-> doc2, content |-> v1]}
MCRewriters  == {c1}
MCListeners  == {"counter", "agents"}
=============================================================================
