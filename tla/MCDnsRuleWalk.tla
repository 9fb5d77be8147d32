--------------------------- MODULE MCDnsRuleWalk ---------------------------
(* Lists of up to four rules for the walk, three for the legacy modes.        *)
EXTENDS DnsRuleWalk

RuleOf(act) == [act |-> act, bind |-> {}, tag |-> Anon, loaded |-> TRUE, race |-> FALSE,
                speculative |-> FALSE, fallback |-> FALSE, limit |-> FALSE, others |-> TRUE]

MCTag == {"a", Anon}

EvaluateA == [RuleOf("evaluate") EXCEPT !.tag = "a"]
EvaluateB == [RuleOf("evaluate") EXCEPT !.speculative = TRUE]
Options == RuleOf("options")
Plain == RuleOf("route")
Fallback == [Plain EXCEPT !.fallback = TRUE]
Ahead == [Fallback EXCEPT !.speculative = TRUE]
Absent == [Plain EXCEPT !.loaded = FALSE]
Limit == [Plain EXCEPT !.limit = TRUE]
LimitFallback == [Fallback EXCEPT !.limit = TRUE]
OnA(r) == [r EXCEPT !.bind = {"a"}]
OnB(r) == [r EXCEPT !.bind = {Anon}]
OnBoth(r) == [r EXCEPT !.bind = {"a", Anon}]
Race(r) == [r EXCEPT !.race = TRUE]
Unmatched(r) == [r EXCEPT !.others = FALSE]

Second == {EvaluateB, [EvaluateB EXCEPT !.loaded = FALSE], Options, Fallback, Race(OnA(Plain))}

Third == {Options, Fallback, OnA(Plain), Race(OnA(RuleOf("respond"))), Race(OnA(Absent)),
          Race(OnB(RuleOf("drop"))), Race(OnBoth(Plain)), Unmatched(OnA(Plain)),
          Unmatched(Race(OnA(Plain)))}

Fourth == {EvaluateB, Fallback, Ahead, Absent, RuleOf("respond"), RuleOf("answer"),
           OnA(RuleOf("respond")), OnBoth(Plain)}

Legacy == {Options, Plain, Fallback, Absent, Limit, LimitFallback, RuleOf("answer"), RuleOf("drop")}

MCRule == {EvaluateA} \cup Second \cup Third \cup Fourth \cup Legacy

MCWalkLists == {l \in {<<EvaluateA, p, q, r>> : p \in Second, q \in Third, r \in Fourth} : Valid(l)}

MCLegacyLists == [1..3 -> Legacy]
=============================================================================
