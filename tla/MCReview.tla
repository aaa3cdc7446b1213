------------------------------- MODULE MCReview -------------------------------
(***************************************************************************)
(* A review pipeline with every card-driven construct but HUMAN:           *)
(*                                                                         *)
(*   start -> fork -> {a, b} -> join -> check -> note -> pub -> exit       *)
(*                               ^        |  \-> exit                      *)
(*                               +--------+                                *)
(*                                                                         *)
(* check is a goal gate that retries join; on a pass it goes to the tool   *)
(* note (and through it to pub) when flag f is set, else straight to exit. *)
(* Both branches write f, b last in node-id order.                         *)
(***************************************************************************)
EXTENDS RunProperties

MCNodes == {"start", "fork", "a", "b", "join", "check", "note", "pub", "exit"}
MCRank == [n \in MCNodes |->
    CASE n = "a" -> 1 [] n = "b" -> 2 [] n = "check" -> 3 [] n = "exit" -> 4
      [] n = "fork" -> 5 [] n = "join" -> 6 [] n = "note" -> 7 [] n = "pub" -> 8
      [] n = "start" -> 9]
MCShape == [n \in MCNodes |->
    CASE n = "start" -> "START" [] n = "exit" -> "EXIT"
      [] n = "fork" -> "FAN_OUT" [] n = "join" -> "FAN_IN"
      [] n = "note" -> "TOOL" [] OTHER -> "CODERGEN"]
Plain(s, d) == [src |-> s, dst |-> d, label |-> NoLabel, weight |-> 0,
                guarded |-> FALSE, cond |-> {}]
MCEdges ==
    {Plain("start", "fork"), Plain("fork", "a"), Plain("fork", "b"),
     Plain("a", "join"), Plain("b", "join"), Plain("join", "check"),
     Plain("check", "exit"),
     [Plain("check", "note") EXCEPT !.guarded = TRUE,
                                   !.cond = {c \in Contexts : c["f"]}],
     Plain("note", "pub"), Plain("pub", "exit")}
MCGates == {"check"}
MCRetryTarget == [g \in MCGates |-> "join"]
MCGateLimit == [g \in MCGates |-> 2]
MCLabels == {"pass", "fail"}

Report(v, u) == [verdict |-> v, label |-> NoLabel, suggest |-> {}, upd |-> u]
MCAnswers == [n \in MCNodes |->
    CASE n = "check" -> {Report("pass", NoUpdate), Report("fail", NoUpdate)}
      [] n = "a" -> {Report("pass", [k \in {"f"} |-> TRUE])}
      [] n = "b" -> {Report("pass", [k \in {"f"} |-> x]) : x \in BOOLEAN}
                    \union {Report("pass", NoUpdate)}
      [] OTHER -> {Report("pass", NoUpdate)}]

\* The theorems about structured pipelines are about this one too.
ReviewLevel == [n \in MCNodes |->
    CASE n = "start" -> 0 [] n = "fork" -> 1 [] n \in {"a", "b"} -> 2
      [] n = "join" -> 3 [] n = "check" -> 4 [] n = "note" -> 5
      [] n = "pub" -> 6 [] n = "exit" -> 7]
ReviewThread == [n \in MCNodes |-> IF n \in {"a", "b"} THEN n ELSE "start"]

\* Structured, WaysOn and Unnested, with levels and threads that witness them.
ASSUME ReviewIsStructured ==
    /\ \A n \in Nodes : Carded(n) => Shape[n] \in CardShapes \union {"FAN_IN", "TOOL"}
    /\ \A e \in Edges : Shape[e.src] = "TOOL" =>
          Shape[e.dst] \in CardShapes \union {"EXIT"}
    /\ Layered(ReviewLevel, ReviewThread)
    /\ \A g \in Gates : OnceOnly(ReviewLevel, RetryTarget[g])
    /\ WaysOn
=============================================================================
