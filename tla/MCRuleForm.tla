---------------------------- MODULE MCRuleForm ----------------------------
(* A small instance of RuleForm: two nodes, two names in ASCII and one     *)
(* that is not, and words of every kind the form tells apart.              *)
EXTENDS RuleForm

MCNodeOrder == <<"n1", "n2">>
\* The name outside ASCII, as it is encoded again and again: a run opens and
\* applies it at most twice.
MCEncoded == <<"e1", "e2", "e3", "e4", "e5">>
MCNames == {"app", "slug"} \cup ToSet(MCEncoded)
MCReencoded ==
  [x \in MCNames |->
     IF \E i \in 1 .. 4 : MCEncoded[i] = x
     THEN MCEncoded[1 + CHOOSE i \in 1 .. 4 : MCEncoded[i] = x] ELSE x]
MCTypedNames == {"app", "slug"}
MCWords == {"jose", "bin", "80", "tcp", "org", "star", "rx", "brace", "dir", "net", "ip"}
MCSlug == [k \in {"allow", "deny", "reject"} \X (MCWords \cup {""}) |-> "slug"]
MCDurations == <<"once", "always">>

Simple(field, w) ==
  [type |-> "simple", operand |-> field, data |-> Plain(w), sensitive |-> FALSE]
RuleWith(list, criteria, duration) ==
  [enabled |-> TRUE, action |-> "allow", duration |-> duration, list |-> list,
   sensitive |-> FALSE, criteria |-> criteria]

\* A rule with a criterion the form has no field for, a list with a brace, and
\* plain ones: with a duration the dialog does not offer, and with a name and a
\* path outside ASCII, which come in UTF-8.
MCForeign ==
  {"app", "slug"} \X
  {RuleWith(TRUE, <<Simple("dest.port", "80"), Simple("iface.out", "80")>>, "always"),
   RuleWith(TRUE, <<Simple("process.path", "bin"),
                    [Simple("dest.host", "brace") EXCEPT !.type = "regexp"]>>, "always"),
   RuleWith(FALSE, <<[Simple("process.path", "star") EXCEPT !.type = "regexp"]>>, "7d")}
  \cup {<<"e1", RuleWith(FALSE, <<[Simple("process.path", "jose") EXCEPT !.data.recoded = 1]>>,
                         "always")>>}

MCConnections ==
  {[name |-> "app", host |-> "org", wildcard |-> "rx",
    word |-> [f \in {"process.path", "process.command", "dest.host", "dest.port", "user.id",
                              "dest.ip"} |->
                CASE f = "process.path" -> "jose" [] f = "dest.host" -> "star"
                  [] f = "dest.ip" -> "ip" [] OTHER -> "80"]]}

MCTyped ==
  [f \in Fields |->
     CASE f = "process.path" -> {"bin"} [] f = "dest.port" -> {"star"}
       [] f = "lists.ips" -> {"bin", "dir"} [] OTHER -> {}]
=============================================================================
