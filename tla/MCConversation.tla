---------------------------- MODULE MCConversation ----------------------------
(* Small instances of Conversation: the payload mixes a question, an order  *)
(* and a stranger's message; delivered twice, it runs against itself.       *)
EXTENDS Conversation

CONSTANTS question, order, stranger

MCBatches == {{question, order, stranger}}
MCStrangers == {stranger}
MCOrders == {order}
==============================================================================
