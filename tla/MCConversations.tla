--------------------------- MODULE MCConversations ---------------------------
(* Two instances of the conversation store: turns of two requests that add   *)
(* an item each, and one request that adds up to two items or deletes one    *)
(* while a client lists the conversation.                                    *)
EXTENDS ConversationPages, TLC

CONSTANTS Parts, PageProc, PageItem

VARIABLE part

Turns == INSTANCE Conversations WITH MaxBatch <- 1
Pages == INSTANCE ConversationPages WITH Proc <- PageProc, Item <- PageItem

ConversationsInit == part \in Parts /\ PInit

ConversationsNext ==
  \/ part = "turns" /\ Turns!Next /\ UNCHANGED <<part, pager, stable>>
  \/ part = "pages" /\ Pages!PNext /\ UNCHANGED part

ConversationsSpec ==
  ConversationsInit /\ [][ConversationsNext]_<<pageVars, part>>

\* Items, conversations and requests are interchangeable, the ones of PageItem
\* and PageProc among themselves; the others stay unused beside them.
Symmetry == Permutations(Item) \cup Permutations(Conv) \cup Permutations(Proc)
=============================================================================
