-------------------------------- MODULE MCGated -------------------------------
(***************************************************************************)
(* A pipeline whose every dispatch has a replay-stable idempotency key:    *)
(* the entry, the tool's successor and the gates' retries.                 *)
(*                                                                         *)
(*   start -> draft (gate, retries itself) -> note (tool)                  *)
(*         -> pub (gate, retries itself) -> file (tool) -> exit            *)
(***************************************************************************)
EXTENDS RunProperties

MCNodes == {"start", "draft", "note", "pub", "file", "exit"}
MCRank == [n \in MCNodes |->
    CASE n = "draft" -> 1 [] n = "exit" -> 2 [] n = "file" -> 3
      [] n = "note" -> 4 [] n = "pub" -> 5 [] n = "start" -> 6]
MCShape == [n \in MCNodes |->
    CASE n = "start" -> "START" [] n = "exit" -> "EXIT"
      [] n \in {"note", "file"} -> "TOOL" [] OTHER -> "CODERGEN"]
Plain(s, d) == [src |-> s, dst |-> d, label |-> NoLabel, weight |-> 0,
                guarded |-> FALSE, cond |-> {}]
MCEdges == {Plain("start", "draft"), Plain("draft", "note"),
            Plain("note", "pub"), Plain("pub", "file"),
            Plain("file", "exit")}
MCGates == {"draft", "pub"}
MCRetryTarget == [g \in MCGates |-> g]
MCGateLimit == [g \in MCGates |-> 2]
MCLabels == {"pass", "fail"}

Report(v) == [verdict |-> v, label |-> NoLabel, suggest |-> {},
              upd |-> NoUpdate]
MCAnswers == [n \in MCNodes |-> {Report("pass"), Report("fail")}]

\* The theorems about pipelines with one card at a time, and with replay-stable
\* keys, are about this one too.
ASSUME GatedIsSequential ==
    /\ Sequential /\ WaysOn /\ Unguarded
    /\ \E level \in [Nodes -> 0..3] : Ordered(level)
    /\ \A n \in Nodes : ~Counted(n)
    /\ \A g, h \in Gates : RetryTarget[h] = g => GateLimit[h] <= GateLimit[g]
=============================================================================
