------------------------------- MODULE Authoring -------------------------------
(***************************************************************************)
(* The authoring tools (use_cases/authoring.py) on one pipeline of the     *)
(* git-backed store (adapters/pipeline_store.py).  An edit loads the file, *)
(* changes the definition in memory and saves it: the repository is made   *)
(* if there is none, the file is rewritten, added and committed.  There is *)
(* no lock, and an edit may be interrupted between any two of these steps. *)
(*                                                                         *)
(* File system and git are external: opening a file for writing empties    *)
(* it; `git commit -- <path>` commits what the file holds then, and fails  *)
(* without an identity or without a change.  Of two overlapping writes the *)
(* later one is taken whole.                                               *)
(***************************************************************************)
EXTENDS Definition

CONSTANTS Editors,     \* processes that handle a tool call
          Existing,    \* definitions that may be there at the start
          Sheets,      \* stylesheets an author may set
          MaxCopies,   \* bound: how often one declaration is repeated
          MaxEdits,    \* bound: edits in one behaviour
          MaxCrashes,  \* bound: interrupted edits
          Absent,      \* there is no file
          Truncated    \* the file is empty

ASSUME AuthoringAssumption ==
    /\ Existing \subseteq Definitions /\ Sheets \subseteq Seq(Rule)
    /\ MaxCopies \in Nat /\ MaxEdits \in Nat /\ MaxCrashes \in Nat
    /\ {Absent, Truncated} \intersect Definitions = {} /\ Absent # Truncated

VARIABLES repo,     \* "none", "init" (no identity yet), "ready"
          tracked,  \* git knows the file
          file,     \* what <spec_id>.dot holds
          head,     \* what its last commit holds
          editors,  \* the calls in progress
          owed,     \* history: declarations whose addition was acknowledged
          overlap,  \* history: two edits have been in progress at a time
          edits, crashes

disk == <<repo, tracked, file, head>>
history == <<owed, overlap, edits, crashes>>
avars == <<repo, tracked, file, head, editors, owed, overlap, edits, crashes>>

Phases == {"idle", "repo", "config", "open", "write", "add", "commit", "reply"}

\* A call: its next step, what it found, what it will store, what it adds.
Call == [phase : Phases, base : Definitions \union {Absent, Truncated},
         doc : Definitions, adds : SUBSET Decls]
Idle == [phase |-> "idle", base |-> Absent, doc |-> EmptyDefinition, adds |-> {}]

\* Nothing yet, a plain directory with a definition, or a repository with one.
AInit ==
    /\ \/ repo = "none" /\ file = Absent /\ head = Absent
       \/ repo = "none" /\ file \in Existing /\ head = Absent
       \/ repo = "ready" /\ file \in Existing /\ head = file
    /\ tracked = (repo = "ready")
    /\ editors = [e \in Editors |-> Idle]
    /\ owed = {} /\ overlap = FALSE /\ edits = 0 /\ crashes = 0

-----------------------------------------------------------------------------
\* The change in memory, after the load: everything up to store.save.
Edit(e, doc, adds, drops) ==
    /\ editors[e].phase = "idle"
    /\ edits < MaxEdits
    /\ \A n \in Decls : doc.nodes[n] <= MaxCopies
    /\ \A a \in Arcs : doc.arcs[a] <= MaxCopies
    /\ editors' = [editors EXCEPT ![e] =
           [phase |-> "repo", base |-> file, doc |-> doc, adds |-> adds]]
    /\ owed' = owed \ drops
    /\ overlap' = (overlap \/ \E f \in Editors : editors[f].phase # "idle")
    /\ edits' = edits + 1
    /\ UNCHANGED <<disk, crashes>>

\* load and parse: a missing file or an empty one is an error, and the call
\* ends without a step.
Loaded == file \notin {Absent, Truncated}

CreateGraph(e) == Edit(e, EmptyDefinition, {}, Decls)

AddNode(e) ==
    /\ Loaded
    /\ \E n \in Decls :
         Edit(e, WithNodes(file, [file.nodes EXCEPT ![n] = @ + 1]), {n}, {})

\* The node's declarations and the edges at either end of it.
RemoveNode(e) ==
    /\ Loaded
    /\ \E x \in Ids :
         LET gone == {n \in Decls : n.id = x}
             nodes == [n \in Decls |-> IF n \in gone THEN 0 ELSE file.nodes[n]]
             arcs == [a \in Arcs |->
                         IF x \in {a.src, a.dst} THEN 0 ELSE file.arcs[a]]
         IN  Edit(e, WithNodes(WithArcs(file, arcs), nodes), {}, gone)

\* Neither end has to exist.
AddEdge(e) ==
    /\ Loaded
    /\ \E a \in Arcs :
         Edit(e, WithArcs(file, [file.arcs EXCEPT ![a] = @ + 1]), {}, {})

\* Every edge between the two nodes, or those with the given label.
RemoveEdge(e) ==
    /\ Loaded
    /\ \E a \in Arcs, labels \in {{"some"}, {"none", "some"}} :
         LET gone == {b \in Arcs : /\ b.src = a.src /\ b.dst = a.dst
                                   /\ b.label \in labels}
             arcs == [b \in Arcs |-> IF b \in gone THEN 0 ELSE file.arcs[b]]
         IN  Edit(e, WithArcs(file, arcs), {}, {})

SetStylesheet(e) ==
    /\ Loaded
    /\ \E s \in Sheets : Edit(e, WithStyle(file, s), {}, {})

-----------------------------------------------------------------------------
Step(e, from, to) ==
    /\ editors[e].phase = from
    /\ editors' = [editors EXCEPT ![e].phase = to]

\* ensure_repo: a directory with .git is left as it is.
EnsureRepo(e) ==
    /\ IF repo = "none" THEN repo' = "init" /\ Step(e, "repo", "config")
                        ELSE repo' = repo /\ Step(e, "repo", "open")
    /\ UNCHANGED <<tracked, file, head, history>>

\* The two settings that make an identity.
Configure(e) ==
    /\ Step(e, "config", "open")
    /\ repo' = "ready"
    /\ UNCHANGED <<tracked, file, head, history>>

\* write_text: the file is emptied, then filled.
OpenFile(e) ==
    /\ Step(e, "open", "write")
    /\ file' = Truncated
    /\ UNCHANGED <<repo, tracked, head, history>>

\* Mutant: the text is still in the buffer when git runs.
TextUnflushed(e) == Truncated

Text(e) == editors[e].doc

WriteFile(e) ==
    /\ Step(e, "write", "add")
    /\ file' = Text(e)
    /\ UNCHANGED <<repo, tracked, head, history>>

\* Mutant: git add is not needed.
TrackedBefore == tracked

TrackedNow == TRUE

GitAdd(e) ==
    /\ Step(e, "add", "commit")
    /\ tracked' = TrackedNow
    /\ UNCHANGED <<repo, file, head, history>>

CanCommit == repo = "ready" /\ tracked /\ file # head

GitCommit(e) ==
    /\ CanCommit
    /\ Step(e, "commit", "reply")
    /\ head' = file
    /\ UNCHANGED <<repo, tracked, file, history>>

\* Mutant: the exit code of git is not looked at.
AfterFailureIgnored(e) == [editors[e] EXCEPT !.phase = "reply"]

AfterFailure(e) == Idle

\* The tool answers with an error.
CommitFails(e) ==
    /\ ~CanCommit
    /\ editors[e].phase = "commit"
    /\ editors' = [editors EXCEPT ![e] = AfterFailure(e)]
    /\ UNCHANGED <<disk, history>>

\* git finds its index locked by the git of another call.
GitBusy(e) ==
    /\ editors[e].phase \in {"add", "commit"}
    /\ \E f \in Editors \ {e} : editors[f].phase \in {"add", "commit"}
    /\ editors' = [editors EXCEPT ![e] = AfterFailure(e)]
    /\ UNCHANGED <<disk, history>>

\* The tool answers with success.
Reply(e) ==
    /\ editors[e].phase = "reply"
    /\ editors' = [editors EXCEPT ![e] = Idle]
    /\ owed' = owed \union editors[e].adds
    /\ UNCHANGED <<disk, overlap, edits, crashes>>

\* The process dies.
Interrupt(e) ==
    /\ editors[e].phase # "idle"
    /\ crashes < MaxCrashes
    /\ crashes' = crashes + 1
    /\ editors' = [editors EXCEPT ![e] = Idle]
    /\ UNCHANGED <<disk, owed, overlap, edits>>

Request(e) == CreateGraph(e) \/ AddNode(e) \/ RemoveNode(e) \/ AddEdge(e)
              \/ RemoveEdge(e) \/ SetStylesheet(e)
Save(e) == EnsureRepo(e) \/ Configure(e) \/ OpenFile(e) \/ WriteFile(e)
           \/ GitAdd(e) \/ GitCommit(e)
Fail(e) == CommitFails(e) \/ GitBusy(e) \/ Interrupt(e)

ANext == \E e \in Editors : Request(e) \/ Save(e) \/ Fail(e) \/ Reply(e)

ASpec == AInit /\ [][ANext]_avars

-----------------------------------------------------------------------------
\* The disk and the calls have their types.
AuthoringTypeOK ==
    /\ repo \in {"none", "init", "ready"} /\ tracked \in BOOLEAN
    /\ {file, head} \subseteq Definitions \union {Absent, Truncated}
    /\ editors \in [Editors -> Call]
    /\ owed \subseteq Decls /\ overlap \in BOOLEAN /\ crashes \in Nat

\* launch_run accepts the file it loads.
Accepted == Loaded /\ Issues(file) = {}

\* What can be launched can be run: at whatever moment launch_run reads the
\* file, also in the middle of edits, an accepted definition keeps every run
\* inside its graph (FR-004, SC-007).
AcceptedIsRunnable == Accepted => RunsInside(file)

\* The conditions that validate has evaluated once, in the empty context, can be
\* evaluated in every context of a run, and decide as the grammar says; so does
\* any other text that a definition might hold.
GuardsDecide ==
    /\ AllWellEvaluated
    /\ Accepted => \A a \in ArcsOf(file) : a.guard # NoGuard => WellEvaluated(a.guard)

\* No loss: while edits do not overlap, a declaration that was acknowledged and
\* that nobody asked to remove since is in the commit and in every complete
\* file, whatever was interrupted or failed in between.
NoLostEdit ==
    ~overlap => \A n \in owed : /\ head \notin {Absent, Truncated}
                                /\ n \in NodesOf(head)
                                /\ Loaded => n \in NodesOf(file)

\* A commit is complete: while edits do not overlap, no commit holds the
\* emptied file of an edit, interrupted or not.
CommitIsComplete == ~overlap => head # Truncated

\* An error changes nothing: while edits neither overlap nor are interrupted, a
\* call that ends without an acknowledgement leaves the file as it found it
\* ("the stored definition is unchanged").
ErrorLeavesFile ==
    [][~overlap /\ crashes' = 0 =>
          \A e \in Editors :
              editors[e].phase \notin {"idle", "reply"} /\ editors'[e].phase = "idle"
                  => file = editors[e].base]_avars

-----------------------------------------------------------------------------
(***************************************************************************)
(* Why: what a call that has the disk to itself knows of it.               *)
(***************************************************************************)
Busy(e) == editors[e].phase # "idle"
Alone == \A e, f \in Editors : Busy(e) /\ Busy(f) => e = f

\* It stores all that is owed and all it adds, and git sees what it stored.
Keeps(e) ==
    /\ Busy(e) => owed \union editors[e].adds \subseteq NodesOf(editors[e].doc)
    /\ editors[e].phase \in {"add", "commit", "reply"} => file = editors[e].doc
    /\ editors[e].phase = "reply" => head = editors[e].doc

\* Between calls, a repository holds the file as it is.
Clean == \/ repo = "none" /\ head = Absent
         \/ repo = "ready" /\ file = head

\* Until it writes, the file is what it found, and so is the last commit, if any.
Traceless(e) ==
    LET c == editors[e]
    IN  /\ c.phase \in {"repo", "reply"} => Clean
        /\ c.phase = "config" => repo = "init" /\ head = Absent
        /\ c.phase \in {"repo", "config", "open"} => file = c.base
        /\ c.phase \in {"open", "write", "add", "commit"} =>
              repo = "ready" /\ head \in {c.base, Absent}
        /\ c.phase = "commit" => tracked

\* The inductive invariant of the edits and the save: while they do not overlap,
\* at most one call is under way, it stores all that is owed, and without an
\* interruption the repository is where its next step expects it.
AInv ==
    /\ AuthoringTypeOK
    /\ ~overlap => /\ Alone /\ \A e \in Editors : Keeps(e)
                   /\ NoLostEdit /\ CommitIsComplete
    /\ ~overlap /\ crashes = 0 =>
          /\ \A e \in Editors : Traceless(e)
          /\ (\A e \in Editors : ~Busy(e)) => Clean
=============================================================================
