--------------------------- MODULE MCAskRuleCall ---------------------------
(* Three handlers: two questions can be open at once and one handler is spare. *)
EXTENDS AskRuleCall
CONSTANTS h1, h2, h3
HandlerSet == {h1, h2, h3}
=============================================================================
