------------------------------ MODULE MCApproval ------------------------------
(***************************************************************************)
(* A fan-out whose join a human signs; the human's label then routes:      *)
(*                                                                         *)
(*   start -> fork -> {a, b} -> join (gate, retries itself) -> sign (HUMAN)*)
(*   sign -> exit                                                          *)
(*   sign -[hold]-> park (a tool that leads back to the human)             *)
(*   sign -[more]-> wide (a fan-out beyond MaxFanOutWidth)                 *)
(*   sign -[stop]-> end  (a node with no way on)                           *)
(*                                                                         *)
(* validate() accepts every one of these.                                  *)
(***************************************************************************)
EXTENDS RunProperties

MCNodes == {"start", "fork", "a", "b", "join", "sign", "park", "wide", "end",
            "exit"}
MCRank == [n \in MCNodes |->
    CASE n = "a" -> 1 [] n = "b" -> 2 [] n = "end" -> 3 [] n = "exit" -> 4
      [] n = "fork" -> 5 [] n = "join" -> 6 [] n = "park" -> 7
      [] n = "sign" -> 8 [] n = "start" -> 9 [] n = "wide" -> 10]
MCShape == [n \in MCNodes |->
    CASE n = "start" -> "START" [] n = "exit" -> "EXIT"
      [] n = "fork" -> "FAN_OUT" [] n = "join" -> "FAN_IN"
      [] n = "sign" -> "HUMAN" [] n = "park" -> "TOOL"
      [] n = "wide" -> "FAN_OUT" [] OTHER -> "CODERGEN"]
Labelled(s, d, l) == [src |-> s, dst |-> d, label |-> l, weight |-> 0,
                      guarded |-> FALSE, cond |-> {}]
Plain(s, d) == Labelled(s, d, NoLabel)
MCEdges ==
    {Plain("start", "fork"), Plain("fork", "a"), Plain("fork", "b"),
     Plain("a", "join"), Plain("b", "join"), Plain("join", "sign"),
     [Plain("sign", "exit") EXCEPT !.weight = 1],
     Labelled("sign", "park", "hold"), Plain("park", "sign"),
     Labelled("sign", "wide", "more"), Plain("wide", "a"), Plain("wide", "b"),
     Plain("wide", "end"), Labelled("sign", "end", "stop")}
MCGates == {"join"}
MCRetryTarget == [g \in MCGates |-> "join"]
MCGateLimit == [g \in MCGates |-> 2]
MCLabels == {"pass", "fail", "hold", "more", "stop"}

Report(v, l) == [verdict |-> v, label |-> l, suggest |-> {}, upd |-> NoUpdate]
MCAnswers == [n \in MCNodes |->
    CASE n = "join" -> {Report(v, NoLabel) : v \in {"pass", "fail"}}
      [] n = "sign" -> {Report("pass", l) :
                          l \in {NoLabel, "hold", "more", "stop"}}
      [] OTHER -> {Report("pass", NoLabel)}]
=============================================================================
