---------------------------- MODULE MCRuleSync ----------------------------
(* One daemon, a rule, the name of its first clone, the internal rule.      *)
EXTENDS RuleSync

MCNodeOrder == <<"n1">>
MCNames == {"r", "clone", "dns"}
MCCloneNames == [x \in MCNames |-> IF x = "r" THEN <<"clone">> ELSE <<>>]
MCEntered == {[enabled |-> TRUE, action |-> "allow", duration |-> "until restart"]}
=============================================================================
