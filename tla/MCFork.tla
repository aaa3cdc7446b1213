--------------------------------- MODULE MCFork -------------------------------
(***************************************************************************)
(* The smallest pipeline with a fan-out, a join and a gate:                *)
(*                                                                         *)
(*   start -> fork -> {a, b} -> join (gate, one attempt) -> exit           *)
(*                                                                         *)
(* and the same pipeline with a review loop instead of the gate, as        *)
(* specs/pipelines/sp-workflow.dot has it: join goes back to fork when its *)
(* worker prefers the label "fail".                                        *)
(***************************************************************************)
EXTENDS RunProperties

MCNodes == {"start", "fork", "a", "b", "join", "exit"}
MCRank == [n \in MCNodes |->
    CASE n = "a" -> 1 [] n = "b" -> 2 [] n = "exit" -> 3 [] n = "fork" -> 4
      [] n = "join" -> 5 [] n = "start" -> 6]
MCShape == [n \in MCNodes |->
    CASE n = "start" -> "START" [] n = "exit" -> "EXIT"
      [] n = "fork" -> "FAN_OUT" [] n = "join" -> "FAN_IN"
      [] OTHER -> "CODERGEN"]
Plain(s, d) == [src |-> s, dst |-> d, label |-> NoLabel, weight |-> 0,
                guarded |-> FALSE, cond |-> {}]
MCEdges ==
    {Plain("start", "fork"), Plain("fork", "a"), Plain("fork", "b"),
     Plain("a", "join"), Plain("b", "join"), Plain("join", "exit")}
MCGates == {"join"}
MCRetryTarget == [g \in MCGates |-> "join"]
MCGateLimit == [g \in MCGates |-> 1]
MCLabels == {"pass", "fail"}

Report(v) == [verdict |-> v, label |-> NoLabel, suggest |-> {},
              upd |-> NoUpdate]
MCAnswers == [n \in MCNodes |->
    IF n = "join" THEN {Report("pass"), Report("fail")} ELSE {Report("pass")}]

\* The review loop: join sends the work back on "fail", goes on on "pass".
Labelled(s, d, l) == [Plain(s, d) EXCEPT !.label = l]
MCLoopEdges == (MCEdges \ {Plain("join", "exit")}) \union
               {Labelled("join", "fork", "fail"), Labelled("join", "exit", "pass")}
MCNoGates == {}
MCNoTarget == [g \in {} |-> "join"]
MCNoLimit == [g \in {} |-> 1]
MCLoopAnswers == [n \in MCNodes |->
    IF n = "join" THEN {[Report("pass") EXCEPT !.label = l] : l \in MCLabels}
    ELSE {Report("pass")}]
=============================================================================
