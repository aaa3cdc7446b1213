---------------------------- MODULE Authoring_proofs ---------------------------
(***************************************************************************)
(* The edits of a stored definition, and provisioning beside them: for any *)
(* declarations, stylesheets and profiles, any number of processes, calls  *)
(* and interruptions.                                                      *)
(***************************************************************************)
EXTENDS Provisioning, Definition_proofs

LEMMA Distinct ==
    /\ Absent \notin Definitions /\ Truncated \notin Definitions
    /\ Absent # Truncated
  BY AuthoringAssumption

LEMMA EmptyTyped == EmptyDefinition \in Definitions
  BY DEF EmptyDefinition, Definitions

LEMMA IdleTyped == Idle \in Call /\ Idle.phase = "idle"
  BY EmptyTyped DEF Idle, Call, Phases

LEMMA WithNodesTyped ==
    ASSUME NEW d \in Definitions, NEW f \in [Decls -> Nat]
    PROVE  /\ WithNodes(d, f) \in Definitions
           /\ NodesOf(WithNodes(d, f)) = {n \in Decls : f[n] > 0}
  BY DEF WithNodes, Definitions, NodesOf

LEMMA WithArcsTyped ==
    ASSUME NEW d \in Definitions, NEW f \in [Arcs -> Nat]
    PROVE  WithArcs(d, f) \in Definitions /\ NodesOf(WithArcs(d, f)) = NodesOf(d)
  BY DEF WithArcs, Definitions, NodesOf

LEMMA WithStyleTyped ==
    ASSUME NEW d \in Definitions, NEW s \in Seq(Rule)
    PROVE  WithStyle(d, s) \in Definitions /\ NodesOf(WithStyle(d, s)) = NodesOf(d)
  BY DEF WithStyle, Definitions, NodesOf

-----------------------------------------------------------------------------
(***************************************************************************)
(* A request: whatever it stores, adds and drops.                          *)
(***************************************************************************)
\* What an edit may ask for, given the file it found.
Proper(doc, adds, drops) ==
    /\ doc \in Definitions /\ adds \subseteq Decls
    /\ adds \subseteq NodesOf(doc)
    /\ \A n \in Decls \ drops : Loaded /\ n \in NodesOf(file) => n \in NodesOf(doc)
    /\ Loaded \/ drops = Decls

LEMMA RequestProper ==
    ASSUME AuthoringTypeOK, NEW e \in Editors, Request(e)
    PROVE  \E doc, adds, drops :
              Proper(doc, adds, drops) /\ Edit(e, doc, adds, drops)
<1>0. Loaded => file \in Definitions
  BY DEF AuthoringTypeOK, Loaded
<1>1. CASE CreateGraph(e)
  <2>1. Proper(EmptyDefinition, {}, Decls)
    BY EmptyTyped DEF Proper
  <2> QED
    BY <1>1, <2>1 DEF CreateGraph
<1>2. CASE AddNode(e)
  <2>1. PICK n \in Decls :
           Edit(e, WithNodes(file, [file.nodes EXCEPT ![n] = @ + 1]), {n}, {})
    BY <1>2 DEF AddNode
  <2>2. PICK f : f = [file.nodes EXCEPT ![n] = @ + 1]
    OBVIOUS
  <2>3. Loaded /\ file \in Definitions /\ file.nodes \in [Decls -> Nat]
    BY <1>0, <1>2 DEF AddNode, Definitions
  <2>4. /\ f \in [Decls -> Nat] /\ f[n] > 0
        /\ \A m \in Decls : file.nodes[m] > 0 => f[m] > 0
    BY <2>2, <2>3
  <2>5. Proper(WithNodes(file, f), {n}, {})
    BY <2>3, <2>4, WithNodesTyped DEF Proper, NodesOf
  <2> QED
    BY <2>1, <2>2, <2>5
<1>3. CASE RemoveNode(e)
  <2>1. PICK x \in Ids :
          Edit(e, WithNodes(WithArcs(file, [a \in Arcs |->
                      IF x \in {a.src, a.dst} THEN 0 ELSE file.arcs[a]]),
                  [n \in Decls |-> IF n \in {m \in Decls : m.id = x} THEN 0
                                   ELSE file.nodes[n]]),
               {}, {m \in Decls : m.id = x})
    BY <1>3, Zenon DEF RemoveNode
  <2>2. PICK gone, f, g :
           /\ gone = {m \in Decls : m.id = x}
           /\ f = [n \in Decls |-> IF n \in {m \in Decls : m.id = x} THEN 0
                                   ELSE file.nodes[n]]
           /\ g = [a \in Arcs |-> IF x \in {a.src, a.dst} THEN 0 ELSE file.arcs[a]]
    OBVIOUS
  <2>3. /\ Loaded /\ file \in Definitions /\ file.nodes \in [Decls -> Nat]
        /\ file.arcs \in [Arcs -> Nat]
    BY <1>0, <1>3 DEF RemoveNode, Definitions
  <2>4. /\ f \in [Decls -> Nat] /\ g \in [Arcs -> Nat]
        /\ \A m \in Decls \ gone : file.nodes[m] > 0 => f[m] > 0
    BY <2>2, <2>3
  <2>5. WithArcs(file, g) \in Definitions
    BY <2>3, <2>4, WithArcsTyped
  <2>6. Proper(WithNodes(WithArcs(file, g), f), {}, gone)
    BY <2>3, <2>4, <2>5, WithNodesTyped DEF Proper, NodesOf
  <2> QED
    BY <2>1, <2>2, <2>6
<1>4. CASE AddEdge(e)
  <2>1. PICK a \in Arcs :
           Edit(e, WithArcs(file, [file.arcs EXCEPT ![a] = @ + 1]), {}, {})
    BY <1>4 DEF AddEdge
  <2>2. PICK g : g = [file.arcs EXCEPT ![a] = @ + 1]
    OBVIOUS
  <2>3. Loaded /\ file \in Definitions /\ file.arcs \in [Arcs -> Nat]
    BY <1>0, <1>4 DEF AddEdge, Definitions
  <2>4. g \in [Arcs -> Nat]
    BY <2>2, <2>3
  <2>5. Proper(WithArcs(file, g), {}, {})
    BY <2>3, <2>4, WithArcsTyped DEF Proper
  <2> QED
    BY <2>1, <2>2, <2>5
<1>5. CASE RemoveEdge(e)
  <2>1. PICK G :
           Edit(e, WithArcs(file, [b \in Arcs |-> IF b \in G THEN 0
                                                 ELSE file.arcs[b]]), {}, {})
    BY <1>5, Zenon DEF RemoveEdge
  <2>2. PICK g : g = [b \in Arcs |-> IF b \in G THEN 0 ELSE file.arcs[b]]
    OBVIOUS
  <2>3. Loaded /\ file \in Definitions /\ file.arcs \in [Arcs -> Nat]
    BY <1>0, <1>5 DEF RemoveEdge, Definitions
  <2>4. g \in [Arcs -> Nat]
    BY <2>2, <2>3
  <2>5. Proper(WithArcs(file, g), {}, {})
    BY <2>3, <2>4, WithArcsTyped DEF Proper
  <2> QED
    BY <2>1, <2>2, <2>5
<1>6. CASE SetStylesheet(e)
  <2>1. PICK s \in Sheets : Edit(e, WithStyle(file, s), {}, {})
    BY <1>6 DEF SetStylesheet
  <2>2. Loaded /\ file \in Definitions /\ s \in Seq(Rule)
    BY <1>0, <1>6, <2>1, AuthoringAssumption DEF SetStylesheet
  <2>3. Proper(WithStyle(file, s), {}, {})
    BY <2>2, WithStyleTyped DEF Proper
  <2> QED
    BY <2>1, <2>3
<1> QED
  BY <1>1, <1>2, <1>3, <1>4, <1>5, <1>6 DEF Request

-----------------------------------------------------------------------------
(***************************************************************************)
(* A step of one call.  While nothing overlaps all others are idle, and of *)
(* an idle call there is nothing to say.                                   *)
(***************************************************************************)
LEMMA OneCall ==
    ASSUME AInv, NEW e \in Editors, NEW q \in Call,
           editors' = [editors EXCEPT ![e] = q]
    PROVE  /\ editors' \in [Editors -> Call]
           /\ \A f \in Editors : editors'[f] = IF f = e THEN q ELSE editors[f]
  BY DEF AInv, AuthoringTypeOK

DiskTyped == /\ repo \in {"none", "init", "ready"} /\ tracked \in BOOLEAN
             /\ {file, head} \subseteq Definitions \union {Absent, Truncated}

LEMMA CallStep ==
    ASSUME AInv, NEW e \in Editors, NEW q \in Call,
           editors' = [editors EXCEPT ![e] = q], DiskTyped',
           owed' \subseteq Decls, overlap' \in BOOLEAN, crashes' \in Nat,
           ~overlap' => \A f \in Editors \ {e} : ~Busy(f),
           ~overlap' => Keeps(e)' /\ NoLostEdit' /\ CommitIsComplete',
           ~overlap' /\ crashes' = 0 =>
               Traceless(e)' /\ (q.phase = "idle" => Clean')
    PROVE  AInv'
<1>1. /\ editors' \in [Editors -> Call]
      /\ \A f \in Editors : editors'[f] = IF f = e THEN q ELSE editors[f]
  BY OneCall
<1>2. AuthoringTypeOK'
  BY <1>1 DEF AuthoringTypeOK, DiskTyped
<1>3. ASSUME ~overlap', NEW f \in Editors, f # e
      PROVE  editors'[f].phase = "idle" /\ Keeps(f)' /\ Traceless(f)'
  <2>1. editors'[f].phase = "idle"
    BY <1>1, <1>3 DEF Busy
  <2> QED
    BY <2>1 DEF Keeps, Traceless, Busy
<1>4. ~overlap' => Alone'
  BY <1>3 DEF Alone, Busy
<1>5. ~overlap' => \A f \in Editors : Keeps(f)'
  BY <1>3
<1>6. ~overlap' /\ crashes' = 0 => \A f \in Editors : Traceless(f)'
  BY <1>3
<1>7. ~overlap' /\ crashes' = 0 => ((\A f \in Editors : ~Busy(f)') => Clean')
  BY <1>1 DEF Busy
<1> QED
  BY <1>2, <1>4, <1>5, <1>6, <1>7 DEF AInv

\* What holds of a call that is under way, and of the disk it works on.
LEMMA Known ==
    ASSUME AInv, NEW e \in Editors
    PROVE  /\ editors[e] \in Call /\ DiskTyped
           /\ owed \subseteq Decls /\ overlap \in BOOLEAN /\ crashes \in Nat
           /\ ~overlap => Keeps(e) /\ NoLostEdit /\ CommitIsComplete
           /\ ~overlap /\ crashes = 0 => Traceless(e)
           /\ ~overlap /\ Busy(e) => \A f \in Editors \ {e} : ~Busy(f)
  BY DEF AInv, AuthoringTypeOK, DiskTyped, Alone

\* A call that goes on to its next phase, and what this asks of the disk.
LEMMA PhaseStep ==
    ASSUME AInv, NEW e \in Editors, NEW from, NEW to \in Phases \ {"idle", "repo"},
           from # "idle", Step(e, from, to), DiskTyped',
           UNCHANGED <<owed, overlap, crashes>>,
           NEW c, c = editors[e],
           ~overlap => /\ to \in {"add", "commit", "reply"} => file' = c.doc
                       /\ to = "reply" => head' = c.doc
                       /\ NoLostEdit' /\ CommitIsComplete',
           ~overlap /\ crashes = 0 =>
               /\ to = "reply" => Clean'
               /\ to = "config" => repo' = "init" /\ head' = Absent
               /\ to \in {"config", "open"} => file' = c.base
               /\ to \in {"open", "write", "add", "commit"} =>
                     repo' = "ready" /\ head' \in {c.base, Absent}
               /\ to = "commit" => tracked'
    PROVE  AInv'
<1>1. PICK q : q = [editors[e] EXCEPT !.phase = to]
  OBVIOUS
<1>2. c \in Call /\ c.phase = from /\ Busy(e)
  BY Known DEF Step, Busy
<1>3. /\ q \in Call /\ q.phase = to /\ q.base = c.base /\ q.doc = c.doc
      /\ q.adds = c.adds
  BY <1>1, <1>2 DEF Call
<1>4. editors' = [editors EXCEPT ![e] = q]
  BY <1>1, Known DEF Step, AInv, AuthoringTypeOK
<1>5. editors'[e] = q
  BY <1>3, <1>4, OneCall
<1>6. ~overlap' => Keeps(e)'
  <2>1. ~overlap => owed \union c.adds \subseteq NodesOf(c.doc)
    BY <1>2, Known DEF Keeps
  <2>2. NodesOf(q.doc)' = NodesOf(c.doc)
    BY <1>3 DEF NodesOf
  <2> QED
    BY <1>3, <1>5, <2>1, <2>2 DEF Keeps, Busy, NodesOf
<1>7. ~overlap' /\ crashes' = 0 => Traceless(e)' /\ (q.phase = "idle" => Clean')
  BY <1>3, <1>5 DEF Traceless
<1> QED
  BY <1>2, <1>3, <1>4, <1>6, <1>7, Known, CallStep

-----------------------------------------------------------------------------
(***************************************************************************)
(* The actions.                                                            *)
(***************************************************************************)
\* What an edit stores holds all that is still owed: the file does.
LEMMA RequestKeeps ==
    ASSUME AInv, NEW e \in Editors, Request(e)
    PROVE  AInv'
<1>0. AuthoringTypeOK /\ DiskTyped
  BY Known DEF AInv
<1>1. PICK doc, adds, drops :
         Proper(doc, adds, drops) /\ Edit(e, doc, adds, drops)
  BY <1>0, RequestProper
<1>2. PICK q : q = [phase |-> "repo", base |-> file, doc |-> doc, adds |-> adds]
  OBVIOUS
<1>3. /\ q \in Call /\ q.phase = "repo" /\ q.base = file /\ q.doc = doc
      /\ q.adds = adds
  BY <1>0, <1>1, <1>2 DEF Proper, Call, Phases, DiskTyped
<1>4. /\ editors' = [editors EXCEPT ![e] = q] /\ owed' = owed \ drops
      /\ overlap' = (overlap \/ \E f \in Editors : Busy(f))
      /\ editors[e].phase = "idle"
      /\ UNCHANGED <<repo, tracked, file, head, crashes>>
  BY <1>1, <1>2 DEF Edit, disk, Busy
<1>5. editors'[e] = q
  BY <1>3, <1>4, OneCall
<1>6. DiskTyped' /\ owed' \subseteq Decls /\ overlap' \in BOOLEAN /\ crashes' \in Nat
  BY <1>0, <1>4, Known DEF DiskTyped
<1>7. ASSUME ~overlap'
      PROVE  /\ \A f \in Editors : ~Busy(f)
             /\ Keeps(e)' /\ NoLostEdit' /\ CommitIsComplete'
  <2>1. ~overlap /\ \A f \in Editors : ~Busy(f)
    BY <1>4, <1>7, Known
  <2>2. NoLostEdit /\ CommitIsComplete
    BY <2>1, Known
  <2>3. NoLostEdit' /\ CommitIsComplete'
    BY <1>4, <2>1, <2>2 DEF NoLostEdit, CommitIsComplete, Loaded, NodesOf
  <2>4. owed' \union adds \subseteq NodesOf(doc)
    BY <1>0, <1>1, <1>4, <2>1, <2>2, Known DEF Proper, NoLostEdit
  <2>5. Keeps(e)'
    BY <1>3, <1>5, <2>4 DEF Keeps, Busy, NodesOf
  <2> QED
    BY <2>1, <2>3, <2>5
<1>8. ASSUME ~overlap', crashes' = 0 PROVE Traceless(e)' /\ q.phase # "idle"
  <2>1. Clean
    BY <1>4, <1>7, <1>8, Known DEF AInv
  <2> QED
    BY <1>3, <1>4, <1>5, <2>1 DEF Traceless, Clean
<1> QED
  BY <1>3, <1>4, <1>6, <1>7, <1>8, CallStep

LEMMA EnsureRepoKeeps ==
    ASSUME AInv, NEW e \in Editors, EnsureRepo(e)
    PROVE  AInv'
<1>1. /\ DiskTyped /\ UNCHANGED <<tracked, file, head, owed, overlap, crashes>>
      /\ editors[e].phase = "repo" /\ Busy(e)
  BY Known DEF EnsureRepo, Step, history, Busy
<1>2. PICK c : c = editors[e]
  OBVIOUS
<1>3. ~overlap => NoLostEdit' /\ CommitIsComplete'
  BY <1>1, Known DEF NoLostEdit, CommitIsComplete, Loaded, NodesOf
<1>4. ~overlap /\ crashes = 0 => Clean /\ file = c.base
  BY <1>1, <1>2, Known DEF Traceless
<1>5. CASE repo = "none"
  <2>1. repo' = "init" /\ Step(e, "repo", "config")
    BY <1>5 DEF EnsureRepo
  <2>2. DiskTyped'
    BY <1>1, <2>1 DEF DiskTyped
  <2>3. "config" \in Phases \ {"idle", "repo"}
    BY DEF Phases
  <2> QED
    BY <1>1, <1>2, <1>3, <1>4, <1>5, <2>1, <2>2, <2>3, PhaseStep DEF Clean
<1>6. CASE repo # "none"
  <2>1. repo' = repo /\ Step(e, "repo", "open")
    BY <1>6 DEF EnsureRepo
  <2>2. DiskTyped'
    BY <1>1, <2>1 DEF DiskTyped
  <2>3. "open" \in Phases \ {"idle", "repo"}
    BY DEF Phases
  <2> QED
    BY <1>1, <1>2, <1>3, <1>4, <1>6, <2>1, <2>2, <2>3, PhaseStep DEF Clean
<1> QED
  BY <1>5, <1>6

LEMMA ConfigureKeeps ==
    ASSUME AInv, NEW e \in Editors, Configure(e)
    PROVE  AInv'
<1>1. /\ DiskTyped /\ UNCHANGED <<tracked, file, head, owed, overlap, crashes>>
      /\ Step(e, "config", "open") /\ repo' = "ready"
      /\ editors[e].phase = "config" /\ "open" \in Phases \ {"idle", "repo"}
  BY Known DEF Configure, Step, history, Phases
<1>2. PICK c : c = editors[e]
  OBVIOUS
<1>3. DiskTyped'
  BY <1>1 DEF DiskTyped
<1>4. ~overlap => NoLostEdit' /\ CommitIsComplete'
  BY <1>1, Known DEF NoLostEdit, CommitIsComplete, Loaded, NodesOf
<1>5. ~overlap /\ crashes = 0 => head = Absent /\ file = c.base
  BY <1>1, <1>2, Known DEF Traceless
<1> QED
  BY <1>1, <1>2, <1>3, <1>4, <1>5, PhaseStep

\* The emptied file is no loss: it is not complete.
LEMMA OpenFileKeeps ==
    ASSUME AInv, NEW e \in Editors, OpenFile(e)
    PROVE  AInv'
<1>1. /\ DiskTyped /\ UNCHANGED <<repo, tracked, head, owed, overlap, crashes>>
      /\ Step(e, "open", "write") /\ file' = Truncated
      /\ editors[e].phase = "open" /\ "write" \in Phases \ {"idle", "repo"}
  BY Known DEF OpenFile, Step, history, Phases
<1>2. PICK c : c = editors[e]
  OBVIOUS
<1>3. DiskTyped'
  BY <1>1 DEF DiskTyped
<1>4. ~overlap => NoLostEdit' /\ CommitIsComplete'
  BY <1>1, Known DEF NoLostEdit, CommitIsComplete, Loaded, NodesOf
<1>5. ~overlap /\ crashes = 0 => repo = "ready" /\ head \in {c.base, Absent}
  BY <1>1, <1>2, Known DEF Traceless
<1> QED
  BY <1>1, <1>2, <1>3, <1>4, <1>5, PhaseStep

LEMMA WriteFileKeeps ==
    ASSUME AInv, NEW e \in Editors, WriteFile(e)
    PROVE  AInv'
<1>1. /\ DiskTyped /\ UNCHANGED <<repo, tracked, head, owed, overlap, crashes>>
      /\ Step(e, "write", "add") /\ file' = editors[e].doc
      /\ editors[e].phase = "write" /\ "add" \in Phases \ {"idle", "repo"}
  BY Known DEF WriteFile, Text, Step, history, Phases
<1>2. PICK c : c = editors[e]
  OBVIOUS
<1>3. DiskTyped' /\ Busy(e)
  BY <1>1, Known DEF DiskTyped, Call, Busy
<1>4. ~overlap => NoLostEdit' /\ CommitIsComplete'
  <2>1. ~overlap => owed \subseteq NodesOf(editors[e].doc) /\ NoLostEdit
                    /\ CommitIsComplete
    BY <1>3, Known DEF Keeps
  <2> QED
    BY <1>1, <2>1 DEF NoLostEdit, CommitIsComplete, Loaded, NodesOf
<1>5. ~overlap /\ crashes = 0 => repo = "ready" /\ head \in {c.base, Absent}
  BY <1>1, <1>2, Known DEF Traceless
<1> QED
  BY <1>1, <1>2, <1>3, <1>4, <1>5, PhaseStep

LEMMA GitAddKeeps ==
    ASSUME AInv, NEW e \in Editors, GitAdd(e)
    PROVE  AInv'
<1>1. /\ DiskTyped /\ UNCHANGED <<repo, file, head, owed, overlap, crashes>>
      /\ Step(e, "add", "commit") /\ tracked' = TRUE
      /\ editors[e].phase = "add" /\ "commit" \in Phases \ {"idle", "repo"}
  BY Known DEF GitAdd, TrackedNow, Step, history, Phases
<1>2. PICK c : c = editors[e]
  OBVIOUS
<1>3. DiskTyped'
  BY <1>1 DEF DiskTyped
<1>4. ~overlap => NoLostEdit' /\ CommitIsComplete' /\ file' = c.doc
  BY <1>1, <1>2, Known DEF Keeps, NoLostEdit, CommitIsComplete, Loaded, NodesOf
<1>5. ~overlap /\ crashes = 0 => repo = "ready" /\ head \in {c.base, Absent}
  BY <1>1, <1>2, Known DEF Traceless
<1> QED
  BY <1>1, <1>2, <1>3, <1>4, <1>5, PhaseStep

\* The commit holds what the call has written, and so all that is owed.
LEMMA GitCommitKeeps ==
    ASSUME AInv, NEW e \in Editors, GitCommit(e)
    PROVE  AInv'
<1>1. /\ DiskTyped /\ UNCHANGED <<repo, tracked, file, owed, overlap, crashes>>
      /\ Step(e, "commit", "reply") /\ head' = file /\ repo = "ready"
      /\ editors[e].phase = "commit" /\ "reply" \in Phases \ {"idle", "repo"}
  BY Known DEF GitCommit, CanCommit, Step, history, Phases
<1>2. PICK c : c = editors[e]
  OBVIOUS
<1>3. DiskTyped' /\ Busy(e) /\ c.doc \in Definitions
  BY <1>1, <1>2, Known DEF DiskTyped, Call, Busy
<1>4. ~overlap => NoLostEdit' /\ CommitIsComplete' /\ file' = c.doc /\ head' = c.doc
  <2>1. ~overlap => /\ owed \subseteq NodesOf(c.doc) /\ file = c.doc
                    /\ NoLostEdit /\ CommitIsComplete
    BY <1>1, <1>2, <1>3, Known DEF Keeps
  <2> QED
    BY <1>1, <1>3, <2>1, Distinct DEF NoLostEdit, CommitIsComplete, Loaded, NodesOf
<1>5. Clean'
  BY <1>1 DEF Clean
<1> QED
  BY <1>1, <1>2, <1>3, <1>4, <1>5, PhaseStep

\* A call that ends without touching the disk.
LEMMA GivesUp ==
    ASSUME AInv, NEW e \in Editors, Busy(e), editors' = [editors EXCEPT ![e] = Idle],
           UNCHANGED <<repo, tracked, file, head, owed, overlap>>, crashes' \in Nat,
           ~overlap /\ crashes' = 0 => Clean
    PROVE  AInv'
<1>1. DiskTyped' /\ owed' \subseteq Decls /\ overlap' \in BOOLEAN
  BY Known DEF DiskTyped
<1>2. editors'[e] = Idle /\ Idle \in Call /\ Idle.phase = "idle"
  BY OneCall, IdleTyped
<1>3. Keeps(e)' /\ Traceless(e)'
  BY <1>2 DEF Keeps, Traceless, Busy
<1>4. ~overlap' => NoLostEdit' /\ CommitIsComplete'
  BY Known DEF NoLostEdit, CommitIsComplete, Loaded, NodesOf
<1>5. ~overlap' /\ crashes' = 0 => Clean'
  BY DEF Clean
<1>6. ~overlap' => \A f \in Editors \ {e} : ~Busy(f)
  BY Known
<1> QED
  BY <1>1, <1>2, <1>3, <1>4, <1>5, <1>6, CallStep

\* A commit that fails for a call that was alone and undisturbed had nothing to
\* change: the file is what it found, and what the last commit holds.
LEMMA NothingToCommit ==
    ASSUME AInv, NEW e \in Editors, CommitFails(e), ~overlap, crashes = 0
    PROVE  repo = "ready" /\ file = head /\ file = editors[e].base
<1>1. PICK c : c = editors[e]
  OBVIOUS
<1>2. /\ c.phase = "commit" /\ c \in Call /\ c.doc \in Definitions
      /\ ~(repo = "ready" /\ tracked /\ file # head)
  BY <1>1, Known DEF CommitFails, CanCommit, Call
<1>3. /\ file = c.doc /\ repo = "ready" /\ tracked
      /\ head \in {c.base, Absent}
  BY <1>1, <1>2, Known DEF Keeps, Traceless
<1> QED
  BY <1>1, <1>2, <1>3, Distinct

\* git is only busy when another call is under way.
LEMMA BusyOverlaps ==
    ASSUME AInv, NEW e \in Editors, GitBusy(e)
    PROVE  overlap
<1>1. PICK f \in Editors \ {e} : Busy(f) /\ Busy(e)
  BY DEF GitBusy, Busy
<1> QED
  BY <1>1, Known

LEMMA FailKeeps ==
    ASSUME AInv, NEW e \in Editors, Fail(e)
    PROVE  AInv'
<1>0. crashes \in Nat
  BY Known
<1>1. CASE CommitFails(e)
  <2>1. /\ Busy(e) /\ editors' = [editors EXCEPT ![e] = Idle]
        /\ UNCHANGED <<repo, tracked, file, head, owed, overlap, crashes>>
    BY <1>1 DEF CommitFails, AfterFailure, disk, history, Busy
  <2>2. ~overlap /\ crashes' = 0 => Clean
    BY <1>1, <2>1, NothingToCommit DEF Clean
  <2> QED
    BY <1>0, <2>1, <2>2, GivesUp
<1>2. CASE GitBusy(e)
  <2>1. /\ Busy(e) /\ editors' = [editors EXCEPT ![e] = Idle]
        /\ UNCHANGED <<repo, tracked, file, head, owed, overlap, crashes>>
    BY <1>2 DEF GitBusy, AfterFailure, disk, history, Busy
  <2>2. overlap /\ overlap' = overlap /\ crashes' \in Nat
    BY <1>0, <1>2, <2>1, BusyOverlaps
  <2> QED
    BY <2>1, <2>2, GivesUp
<1>3. CASE Interrupt(e)
  <2>1. /\ Busy(e) /\ editors' = [editors EXCEPT ![e] = Idle]
        /\ UNCHANGED <<repo, tracked, file, head, owed, overlap>>
        /\ crashes' = crashes + 1
    BY <1>3 DEF Interrupt, disk, Busy
  <2>2. crashes' \in Nat /\ crashes' # 0
    BY <1>0, <2>1
  <2> QED
    BY <2>1, <2>2, GivesUp
<1> QED
  BY <1>1, <1>2, <1>3 DEF Fail

\* What is acknowledged is in the commit, and in the file if that is complete.
LEMMA ReplyKeeps ==
    ASSUME AInv, NEW e \in Editors, Reply(e)
    PROVE  AInv'
<1>1. PICK c : c = editors[e]
  OBVIOUS
<1>2. /\ c \in Call /\ c.phase = "reply" /\ Busy(e) /\ c.doc \in Definitions
      /\ c.adds \subseteq Decls /\ editors' = [editors EXCEPT ![e] = Idle]
      /\ owed' = owed \union c.adds
      /\ UNCHANGED <<repo, tracked, file, head, overlap, crashes>>
  BY <1>1, Known DEF Reply, disk, Busy, Call
<1>3. /\ DiskTyped' /\ owed' \subseteq Decls /\ overlap' \in BOOLEAN
      /\ crashes' \in Nat
  BY <1>2, Known DEF DiskTyped
<1>4. editors'[e] = Idle /\ Idle \in Call /\ Idle.phase = "idle"
  BY <1>2, OneCall, IdleTyped
<1>5. Keeps(e)' /\ Traceless(e)'
  BY <1>4 DEF Keeps, Traceless, Busy
<1>6. ~overlap' => \A f \in Editors \ {e} : ~Busy(f)
  BY <1>2, Known
<1>7. ~overlap' => CommitIsComplete' /\ NoLostEdit'
  <2>1. ~overlap => /\ owed' \subseteq NodesOf(c.doc) /\ CommitIsComplete
                    /\ file = c.doc /\ head = c.doc
    BY <1>1, <1>2, Known DEF Keeps
  <2> QED
    BY <1>2, <2>1, Distinct DEF NoLostEdit, CommitIsComplete, Loaded, NodesOf
<1>8. ~overlap' /\ crashes' = 0 => Clean'
  BY <1>1, <1>2, Known DEF Traceless, Clean
<1> QED
  BY <1>2, <1>3, <1>4, <1>5, <1>6, <1>7, <1>8, CallStep

-----------------------------------------------------------------------------
(***************************************************************************)
(* The invariant.                                                          *)
(***************************************************************************)
LEMMA InitKeeps == AInit => AInv
<1> SUFFICES ASSUME AInit PROVE AInv
  OBVIOUS
<1>1. /\ DiskTyped /\ Clean /\ head # Truncated
      /\ owed = {} /\ overlap = FALSE /\ crashes = 0
  BY Distinct, AuthoringAssumption DEF AInit, DiskTyped, Clean
<1>2. /\ editors \in [Editors -> Call]
      /\ \A e \in Editors : editors[e] = Idle /\ editors[e].phase = "idle"
  BY IdleTyped DEF AInit
<1>3. \A e \in Editors : ~Busy(e) /\ Keeps(e) /\ Traceless(e)
  BY <1>2 DEF Busy, Keeps, Traceless
<1>4. AuthoringTypeOK
  BY <1>1, <1>2 DEF AuthoringTypeOK, DiskTyped
<1>5. Alone /\ NoLostEdit /\ CommitIsComplete
  BY <1>1, <1>3 DEF Alone, NoLostEdit, CommitIsComplete
<1> QED
  BY <1>1, <1>3, <1>4, <1>5 DEF AInv

LEMMA StepKeeps == AInv /\ [ANext]_avars => AInv'
<1> SUFFICES ASSUME AInv, [ANext]_avars PROVE AInv'
  OBVIOUS
<1>1. ASSUME NEW e \in Editors, Save(e) PROVE AInv'
  BY <1>1, EnsureRepoKeeps, ConfigureKeeps, OpenFileKeeps, WriteFileKeeps,
     GitAddKeeps, GitCommitKeeps DEF Save
<1>2. CASE UNCHANGED avars
  BY <1>2 DEF avars, AInv, AuthoringTypeOK, Alone, Keeps, NoLostEdit,
              CommitIsComplete, Traceless, Clean, Busy, Loaded, NodesOf
<1> QED
  BY <1>1, <1>2, RequestKeeps, FailKeeps, ReplyKeeps DEF ANext

\* Any number of calls on one definition, interrupted or not, keep the inductive
\* invariant (authoring.py, pipeline_store.py).
THEOREM AuthoringInvariant == ASpec => []AInv
<1>1. AInit => AInv
  BY InitKeeps
<1>2. AInv /\ [ANext]_avars => AInv'
  BY StepKeeps
<1> QED
  BY <1>1, <1>2, PTL DEF ASpec

\* An acknowledged declaration is never lost by calls that do not overlap,
\* whatever is interrupted or fails in between.
THEOREM NoEditIsLost == ASpec => []NoLostEdit
<1>1. AInv => (~overlap => NoLostEdit)
  BY DEF AInv
<1>2. AInv => NoLostEdit
  BY <1>1 DEF NoLostEdit
<1> QED
  BY <1>2, AuthoringInvariant, PTL

\* No commit holds the emptied file of an edit.
THEOREM CommitsAreComplete == ASpec => []CommitIsComplete
<1>1. AInv => (~overlap => CommitIsComplete)
  BY DEF AInv
<1>2. AInv => CommitIsComplete
  BY <1>1 DEF CommitIsComplete
<1> QED
  BY <1>2, AuthoringInvariant, PTL

\* Of the steps of one call, only a failure ends it without an answer.
LEMMA EndsByFailing ==
    ASSUME AInv, NEW e \in Editors, NEW f \in Editors,
           Request(f) \/ Save(f) \/ Fail(f) \/ Reply(f),
           editors[e].phase \notin {"idle", "reply"}, editors'[e].phase = "idle"
    PROVE  f = e /\ Fail(e)
<1>1. \A to, from : Step(f, from, to) /\ e = f => editors'[e].phase = to
  BY Known DEF Step, AInv, AuthoringTypeOK, Call
<1>2. \A to, from : Step(f, from, to) => e = f
  BY Known DEF Step, AInv, AuthoringTypeOK, Call
<1>3. ~Save(f)
  BY <1>1, <1>2 DEF Save, EnsureRepo, Configure, OpenFile, WriteFile, GitAdd,
                    GitCommit
<1>4. CASE Request(f)
  <2>1. PICK doc, adds, drops :
           Proper(doc, adds, drops) /\ Edit(f, doc, adds, drops)
    BY <1>4, RequestProper DEF AInv
  <2>2. PICK q : q = [phase |-> "repo", base |-> file, doc |-> doc, adds |-> adds]
    OBVIOUS
  <2>3. q.phase = "repo" /\ editors' = [editors EXCEPT ![f] = q]
        /\ editors[f].phase = "idle"
    BY <2>1, <2>2 DEF Edit
  <2>4. e # f
    BY <2>3
  <2>5. editors'[e] = editors[e]
    BY <2>3, <2>4 DEF AInv, AuthoringTypeOK
  <2> QED
    BY <2>5
<1>5. CASE Reply(f)
  <2>1. editors[f].phase = "reply" /\ editors' = [editors EXCEPT ![f] = Idle]
    BY <1>5 DEF Reply
  <2>2. e # f
    BY <2>1
  <2>3. editors'[e] = editors[e]
    BY <2>1, <2>2 DEF AInv, AuthoringTypeOK
  <2> QED
    BY <2>3
<1>6. CASE Fail(f)
  <2>1. editors' = [editors EXCEPT ![f] = Idle]
    BY <1>6 DEF Fail, CommitFails, GitBusy, Interrupt, AfterFailure
  <2>2. e # f => editors'[e] = editors[e]
    BY <2>1 DEF AInv, AuthoringTypeOK
  <2> QED
    BY <1>6, <2>2
<1> QED
  BY <1>3, <1>4, <1>5, <1>6

\* So a call that was alone and undisturbed leaves the file as it found it.
LEMMA FailureLeavesFile ==
    ASSUME AInv, ANext, ~overlap, crashes' = 0, NEW e \in Editors,
           editors[e].phase \notin {"idle", "reply"}, editors'[e].phase = "idle"
    PROVE  file = editors[e].base
<1>1. Fail(e)
  BY EndsByFailing DEF ANext
<1>2. crashes \in Nat
  BY Known
<1>3. ~Interrupt(e)
  BY <1>2 DEF Interrupt
<1>4. CommitFails(e)
  BY <1>1, <1>3, BusyOverlaps DEF Fail
<1>5. crashes = 0
  BY <1>4 DEF CommitFails, history
<1> QED
  BY <1>4, <1>5, NothingToCommit

-----------------------------------------------------------------------------
(***************************************************************************)
(* Provisioning.                                                           *)
(***************************************************************************)
(***************************************************************************)
(* What a node resolves to is a profile, or none.                          *)
(***************************************************************************)
LEMMA SpecificityTyped ==
    ASSUME NEW rule \in Rule
    PROVE  Specificity(rule) \in 0..3
<1>1. rule.by \in {"*", "shape", "class", "id"}
  BY DEF Rule
<1>2. rule.by = "*" => Specificity(rule) = 0
  BY Zenon DEF Specificity
<1>3. rule.by = "shape" => Specificity(rule) = 1
  BY Zenon DEF Specificity
<1>4. rule.by = "class" => Specificity(rule) = 2
  BY Zenon DEF Specificity
<1>5. rule.by = "id" => Specificity(rule) = 3
  BY Zenon DEF Specificity
<1> QED
  BY <1>1, <1>2, <1>3, <1>4, <1>5

LEMMA StyledTyped ==
    ASSUME NEW style \in Seq(Rule), NEW n
    PROVE  Styled(style, n) \in Profiles \union {NoProfile}
<1> DEFINE hits == {i \in DOMAIN style : Selects(style[i], n)}
           Rank(i) == Specificity(style[i])
           Beats(i, j) == \/ Specificity(style[i]) > Specificity(style[j])
                          \/ Specificity(style[i]) = Specificity(style[j]) /\ i >= j
<1>1. \A i \in DOMAIN style : style[i] \in Rule /\ i \in 1..Len(style)
  OBVIOUS
<1>2. \A i \in hits : i \in 1..Len(style) /\ Rank(i) \in 0..3
  BY <1>1, SpecificityTyped
<1>3. CASE hits = {}
  BY <1>3, Zenon DEF Styled
<1>4. CASE hits # {}
  <2> HIDE DEF hits, Rank
  <2>1. PICK a \in hits : \A j \in hits : Rank(j) <= Rank(a)
    <3>1. PICK T : T = {3 - Rank(i) : i \in hits}
      OBVIOUS
    <3>2. T \subseteq Nat /\ T # {}
      BY <1>2, <1>4, <3>1
    <3>3. PICK x \in T : \A y \in T : x <= y
      BY <3>2, NatMin
    <3> QED
      BY <1>2, <3>1, <3>3
  <2>2. PICK b \in hits : /\ Rank(b) = Rank(a)
                          /\ \A j \in hits : Rank(j) = Rank(a) => j <= b
    <3>1. PICK H, L : H = {j \in hits : Rank(j) = Rank(a)} /\ L = Len(style)
      OBVIOUS
    <3>2. PICK T : T = {L - i : i \in H}
      OBVIOUS
    <3>3. L \in Nat /\ H \subseteq 1..L /\ a \in H
      BY <1>2, <3>1
    <3>4. T \subseteq Nat /\ T # {}
      BY <3>2, <3>3
    <3>5. PICK x \in T : \A y \in T : x <= y
      BY <3>4, NatMin
    <3>6. PICK b \in H : x = L - b
      BY <3>2
    <3>7. \A j \in H : L - b <= L - j
      BY <3>2, <3>5, <3>6
    <3>8. \A j \in H : j <= b
      BY <3>3, <3>7
    <3> QED
      BY <3>1, <3>8
  <2>3. \A j \in hits : \/ Rank(b) > Rank(j)
                        \/ Rank(b) = Rank(j) /\ b >= j
    BY <1>2, <2>1, <2>2
  <2>4. \A j \in hits : Beats(b, j)
    BY <2>3 DEF Rank
  <2>5. PICK i : i = CHOOSE k \in hits : \A j \in hits : Beats(k, j)
    OBVIOUS
  <2>6. i \in hits
    BY <2>4, <2>5, Zenon
  <2>7. style[i].profile \in Profiles
    BY <1>1, <2>6 DEF hits, Rule
  <2>8. Styled(style, n) = style[i].profile
    BY <1>4, <2>5, Zenon DEF Styled, hits
  <2> QED
    BY <2>7, <2>8
<1> QED
  BY <1>3, <1>4

LEMMA ResolvedTyped ==
    ASSUME NEW d \in Definitions
    PROVE  ResolvedWorkerProfiles(d) \subseteq Profiles
<1>1. ASSUME NEW n \in Decls, ResolveProfile(d, n) # NoProfile
      PROVE  ResolveProfile(d, n) \in Profiles
  <2>1. n.profile \in Profiles \union {NoProfile} /\ d.style \in Seq(Rule)
    BY DefinitionAssumption DEF Decl, Definitions
  <2> QED
    BY <1>1, <2>1, StyledTyped DEF ResolveProfile
<1>2. PICK named : named = {n \in Workers(d) : ResolveProfile(d, n) # NoProfile}
  OBVIOUS
<1>3. named \subseteq Decls
  BY <1>2 DEF Workers, NodesOf
<1>4. \A x \in {n.id : n \in named} : (CHOOSE n \in named : n.id = x) \in named
  OBVIOUS
<1>5. ResolvedWorkerProfiles(d) =
         {ResolveProfile(d, CHOOSE n \in named : n.id = x) :
             x \in {n.id : n \in named}}
  BY <1>2, Zenon DEF ResolvedWorkerProfiles
<1> QED
  BY <1>1, <1>2, <1>3, <1>4, <1>5

\* A worker that has a profile, the same in all declarations of its name, has it
\* in the list.
LEMMA ResolvedHolds ==
    ASSUME NEW d, NEW n \in Workers(d), ResolveProfile(d, n) # NoProfile,
           \A k \in Workers(d) :
               k.id = n.id => ResolveProfile(d, k) = ResolveProfile(d, n)
    PROVE  ResolveProfile(d, n) \in ResolvedWorkerProfiles(d)
<1>1. PICK named : named = {k \in Workers(d) : ResolveProfile(d, k) # NoProfile}
  OBVIOUS
<1>2. PICK k : k = CHOOSE j \in named : j.id = n.id
  OBVIOUS
<1>3. n \in named
  BY <1>1
<1>4. k \in named /\ k.id = n.id
  BY <1>2, <1>3
<1>5. ResolveProfile(d, k) = ResolveProfile(d, n)
  BY <1>1, <1>4
<1>6. ResolvedWorkerProfiles(d) =
         {ResolveProfile(d, CHOOSE j \in named : j.id = x) :
             x \in {j.id : j \in named}}
  BY <1>1, Zenon DEF ResolvedWorkerProfiles
<1>7. n.id \in {j.id : j \in named}
  BY <1>3
<1>8. ResolveProfile(d, k) \in ResolvedWorkerProfiles(d)
  BY <1>2, <1>6, <1>7, Zenon
<1> QED
  BY <1>5, <1>8

-----------------------------------------------------------------------------
(***************************************************************************)
(* The calls.  Each step changes one of them.                              *)
(***************************************************************************)
LEMMA NoCallTyped == NoCall \in MakerCall /\ NoCall.phase = "idle"
  BY EmptyTyped DEF NoCall, MakerCall

Spared == \A p \in Profiles : Present(p) => Present(p)'

LEMMA CallTaken ==
    ASSUME PInv, NEW m \in Makers, NEW q \in MakerCall,
           makers' = [makers EXCEPT ![m] = q]
    PROVE  /\ makers' \in [Makers -> MakerCall]
           /\ \A k \in Makers : makers'[k] = IF k = m THEN q ELSE makers[k]
  BY DEF PInv

\* A call that nothing was taken from is attended to as before.
LEMMA StillAttended ==
    ASSUME PInv, Spared, NEW k \in Makers, makers'[k] = makers[k]
    PROVE  Attended(k)'
<1>1. PICK c : c = makers[k]
  OBVIOUS
<1>2. /\ c.phase \in {"create", "model"} => c.name \in Profiles
      /\ c.phase # "idle" => \A p \in ResolvedWorkerProfiles(c.doc) :
            Present(p) \/ p \in c.todo \/ (c.phase = "create" /\ p = c.name)
  BY <1>1, Zenon DEF PInv, Attended
<1>3. c.doc \in Definitions
  BY <1>1 DEF PInv, MakerCall
<1>4. \A p \in ResolvedWorkerProfiles(c.doc) : Present(p) => Present(p)'
  BY <1>3, ResolvedTyped DEF Spared
<1>5. c.phase # "idle" => \A p \in ResolvedWorkerProfiles(c.doc) :
         Present(p)' \/ p \in c.todo \/ (c.phase = "create" /\ p = c.name)
  BY <1>2, <1>4
<1>6. makers'[k] = c /\ ResolvedWorkerProfiles(c.doc)' = ResolvedWorkerProfiles(c.doc)
  BY <1>1 DEF ResolvedWorkerProfiles, Workers, NodesOf, ResolveProfile, Styled,
              Selects, Specificity
<1> QED
  BY <1>2, <1>5, <1>6 DEF Attended

\* What a step of one call has to keep.
LEMMA MakerStep ==
    ASSUME PInv, NEW m \in Makers, NEW q \in MakerCall,
           makers' = [makers EXCEPT ![m] = q],
           host' \in [Profiles -> {"absent", "bare", "ready"}], Spared,
           q.phase \in {"create", "model"} => q.name \in Profiles,
           q.phase # "idle" => \A p \in ResolvedWorkerProfiles(q.doc) :
               Present(p)' \/ p \in q.todo \/ (q.phase = "create" /\ p = q.name),
           promised' \subseteq Definitions,
           \A d \in promised' \ promised :
               \A p \in ResolvedWorkerProfiles(d) : Present(p)',
           crashes' = 0 => /\ crashes = 0
                           /\ \A p \in Profiles : host'[p] = "bare" =>
                                 \/ q.phase = "model" /\ q.name = p
                                 \/ /\ host[p] = "bare"
                                    /\ ~(/\ makers[m].phase = "model"
                                         /\ makers[m].name = p)
    PROVE  PInv'
<1>1. /\ makers' \in [Makers -> MakerCall]
      /\ \A k \in Makers : makers'[k] = IF k = m THEN q ELSE makers[k]
  BY CallTaken
<1>2. \A d : ResolvedWorkerProfiles(d)' = ResolvedWorkerProfiles(d)
  BY DEF ResolvedWorkerProfiles, Workers, NodesOf, ResolveProfile, Styled,
         Selects, Specificity
<1>3. Attended(m)'
  <2>1. makers'[m] = q /\ ResolvedWorkerProfiles(q.doc)' = ResolvedWorkerProfiles(q.doc)
    BY <1>1, <1>2
  <2> QED
    BY <2>1 DEF Attended
<1>4. \A k \in Makers : Attended(k)'
  BY <1>1, <1>3, StillAttended
<1>5. \A d \in promised' : \A p \in ResolvedWorkerProfiles(d)' : Present(p)'
  <2>1. \A d \in promised : \A p \in ResolvedWorkerProfiles(d) : Present(p)'
    BY ResolvedTyped DEF PInv, Spared
  <2> QED
    BY <1>2, <2>1
<1>6. crashes' = 0 => Finishing'
  <2> SUFFICES ASSUME crashes' = 0, NEW p \in Profiles, host'[p] = "bare"
               PROVE  \E k \in Makers : makers'[k].phase = "model" /\ makers'[k].name = p
    BY Zenon DEF Finishing
  <2>1. CASE q.phase = "model" /\ q.name = p
    BY <1>1, <2>1
  <2>2. CASE /\ host[p] = "bare"
             /\ ~(makers[m].phase = "model" /\ makers[m].name = p)
    <3>1. PICK k \in Makers : makers[k].phase = "model" /\ makers[k].name = p
      BY <2>2 DEF PInv, Finishing
    <3> QED
      BY <1>1, <2>2, <3>1
  <2> QED
    BY <2>1, <2>2
<1> QED
  BY <1>1, <1>4, <1>5, <1>6, Zenon DEF PInv

\* What is known of a call.
LEMMA CallKnown ==
    ASSUME PInv, NEW m \in Makers, NEW c, c = makers[m]
    PROVE  /\ c \in MakerCall /\ host \in [Profiles -> {"absent", "bare", "ready"}]
           /\ promised \subseteq Definitions /\ c.doc \in Definitions
           /\ ResolvedWorkerProfiles(c.doc) \subseteq Profiles
           /\ c.phase \in {"create", "model"} => c.name \in Profiles
           /\ c.phase # "idle" => \A p \in ResolvedWorkerProfiles(c.doc) :
                 Present(p) \/ p \in c.todo \/ (c.phase = "create" /\ p = c.name)
<1>1. c \in MakerCall /\ c.doc \in Definitions
  BY DEF PInv, MakerCall
<1>2. ResolvedWorkerProfiles(c.doc) \subseteq Profiles
  BY <1>1, ResolvedTyped
<1>3. /\ c.phase \in {"create", "model"} => c.name \in Profiles
      /\ c.phase # "idle" => \A p \in ResolvedWorkerProfiles(c.doc) :
            Present(p) \/ p \in c.todo \/ (c.phase = "create" /\ p = c.name)
  BY Zenon DEF PInv, Attended
<1> QED
  BY <1>1, <1>2, <1>3 DEF PInv

\* A call that proceeds, as a record.
LEMMA Proceeds ==
    ASSUME PInv, NEW m \in Makers, NEW c, c = makers[m],
           NEW phase \in {"check", "create", "model"}, NEW todo \in SUBSET Profiles,
           NEW name \in Profiles \union {NoProfile}, Proceed(m, phase, todo, name)
    PROVE  \E q \in MakerCall :
              /\ makers' = [makers EXCEPT ![m] = q]
              /\ q.phase = phase /\ q.doc = c.doc /\ q.todo = todo /\ q.name = name
<1>1. PICK q : q = [phase |-> phase, doc |-> c.doc, models |-> c.models,
                    todo |-> todo, name |-> name]
  OBVIOUS
<1>2. q \in MakerCall
  BY <1>1, CallKnown DEF MakerCall
<1>3. makers' = [makers EXCEPT ![m] = q]
  BY <1>1 DEF Proceed
<1> QED
  BY <1>1, <1>2, <1>3

-----------------------------------------------------------------------------
(***************************************************************************)
(* The actions.                                                            *)
(***************************************************************************)
LEMMA StartKeeps ==
    ASSUME AInv, PInv, NEW m \in Makers, StartProvisioning(m)
    PROVE  PInv'
<1>1. file \in Definitions
  BY DEF StartProvisioning, Loaded, AInv, AuthoringTypeOK
<1>2. PICK models \in BOOLEAN :
         makers' = [makers EXCEPT ![m] =
             [phase |-> "check", doc |-> file, models |-> models,
              todo |-> ResolvedWorkerProfiles(file), name |-> NoProfile]]
  BY DEF StartProvisioning
<1>3. PICK q : q = [phase |-> "check", doc |-> file, models |-> models,
                    todo |-> ResolvedWorkerProfiles(file), name |-> NoProfile]
  OBVIOUS
<1>4. /\ q \in MakerCall /\ q.phase = "check" /\ q.doc = file
      /\ q.todo = ResolvedWorkerProfiles(file)
  BY <1>1, <1>3, ResolvedTyped DEF MakerCall
<1>5. /\ makers' = [makers EXCEPT ![m] = q] /\ makers[m].phase = "idle"
      /\ UNCHANGED <<host, promised, crashes>>
  BY <1>2, <1>3 DEF StartProvisioning
<1>6. Spared /\ host \in [Profiles -> {"absent", "bare", "ready"}]
      /\ promised \subseteq Definitions
  BY <1>5, Zenon DEF Spared, Present, PInv
<1> QED
  BY <1>4, <1>5, <1>6, MakerStep

LEMMA CheckKeeps ==
    ASSUME PInv, NEW m \in Makers, CheckProfile(m)
    PROVE  PInv'
<1>1. PICK c : c = makers[m]
  OBVIOUS
<1>2. PICK p, phase :
         /\ p \in c.todo
         /\ phase = (IF host[p] = "absent" THEN "create" ELSE "check")
         /\ Proceed(m, phase, c.todo \ {p}, p)
  BY <1>1 DEF CheckProfile
<1>3. /\ c.phase = "check" /\ UNCHANGED <<host, promised, crashes>>
      /\ c.todo \subseteq Profiles /\ p \in Profiles
  BY <1>1, <1>2, CallKnown DEF CheckProfile, avars, MakerCall
<1>4. PICK q \in MakerCall :
         /\ makers' = [makers EXCEPT ![m] = q] /\ q.phase = phase
         /\ q.doc = c.doc /\ q.todo = c.todo \ {p} /\ q.name = p
  BY <1>1, <1>2, <1>3, Proceeds
<1>5. Spared /\ (\A r : Present(r)' <=> Present(r))
  BY <1>3 DEF Spared, Present
<1>6. \A r \in ResolvedWorkerProfiles(q.doc) :
         Present(r)' \/ r \in q.todo \/ (q.phase = "create" /\ r = q.name)
  <2>1. \A r \in ResolvedWorkerProfiles(c.doc) : Present(r) \/ r \in c.todo
    BY <1>1, <1>3, CallKnown
  <2>2. Present(p) \/ q.phase = "create"
    BY <1>2, <1>4 DEF Present
  <2> QED
    BY <1>4, <1>5, <2>1, <2>2
<1>7. host \in [Profiles -> {"absent", "bare", "ready"}] /\ promised \subseteq Definitions
  BY <1>1, CallKnown
<1> QED
  BY <1>1, <1>3, <1>4, <1>5, <1>6, <1>7, MakerStep

LEMMA CreateKeeps ==
    ASSUME PInv, NEW m \in Makers, CreateProfile(m)
    PROVE  PInv'
<1>1. PICK c, p : c = makers[m] /\ p = c.name
  OBVIOUS
<1>2. /\ c.phase = "create" /\ UNCHANGED <<promised, crashes>>
      /\ c.todo \subseteq Profiles /\ p \in Profiles
  BY <1>1, CallKnown DEF CreateProfile, avars, MakerCall
<1>3. PICK phase, level :
         /\ \/ phase = "model" /\ level = "bare"
            \/ phase = "check" /\ level = "ready"
         /\ host' = [host EXCEPT ![p] = level]
         /\ Proceed(m, phase, c.todo, p)
  BY <1>1 DEF CreateProfile, AfterCreate
<1>4. PICK q \in MakerCall :
         /\ makers' = [makers EXCEPT ![m] = q] /\ q.phase = phase
         /\ q.doc = c.doc /\ q.todo = c.todo /\ q.name = p
  BY <1>1, <1>2, <1>3, Proceeds
<1>5. /\ host \in [Profiles -> {"absent", "bare", "ready"}]
      /\ promised \subseteq Definitions
      /\ ResolvedWorkerProfiles(c.doc) \subseteq Profiles
  BY <1>1, CallKnown
<1>6. /\ host' \in [Profiles -> {"absent", "bare", "ready"}]
      /\ host'[p] = level /\ \A r \in Profiles \ {p} : host'[r] = host[r]
  BY <1>2, <1>3, <1>5
<1>7. Spared /\ Present(p)'
  BY <1>3, <1>6 DEF Spared, Present
<1>8. \A r \in ResolvedWorkerProfiles(q.doc) : Present(r)' \/ r \in q.todo
  <2>1. \A r \in ResolvedWorkerProfiles(c.doc) : Present(r) \/ r \in c.todo \/ r = p
    BY <1>1, <1>2, CallKnown
  <2> QED
    BY <1>4, <1>5, <1>7, <2>1 DEF Spared
<1>9. \A r \in Profiles : host'[r] = "bare" =>
         (q.phase = "model" /\ q.name = r) \/ host[r] = "bare"
  BY <1>3, <1>4, <1>6
<1> QED
  BY <1>1, <1>2, <1>4, <1>5, <1>6, <1>7, <1>8, <1>9, MakerStep

LEMMA SetModelKeeps ==
    ASSUME PInv, NEW m \in Makers, SetModel(m)
    PROVE  PInv'
<1>1. PICK c, p : c = makers[m] /\ p = c.name
  OBVIOUS
<1>2. /\ c.phase = "model" /\ UNCHANGED <<promised, crashes>>
      /\ c.todo \subseteq Profiles /\ p \in Profiles
      /\ host' = [host EXCEPT ![p] = "ready"] /\ Proceed(m, "check", c.todo, p)
  BY <1>1, CallKnown DEF SetModel, avars, MakerCall
<1>3. PICK q \in MakerCall :
         /\ makers' = [makers EXCEPT ![m] = q] /\ q.phase = "check"
         /\ q.doc = c.doc /\ q.todo = c.todo /\ q.name = p
  BY <1>1, <1>2, Proceeds
<1>4. /\ host \in [Profiles -> {"absent", "bare", "ready"}]
      /\ promised \subseteq Definitions
      /\ ResolvedWorkerProfiles(c.doc) \subseteq Profiles
  BY <1>1, CallKnown
<1>5. /\ host' \in [Profiles -> {"absent", "bare", "ready"}]
      /\ host'[p] = "ready" /\ \A r \in Profiles \ {p} : host'[r] = host[r]
  BY <1>2, <1>4
<1>6. Spared
  BY <1>5 DEF Spared, Present
<1>7. \A r \in ResolvedWorkerProfiles(q.doc) : Present(r)' \/ r \in q.todo
  <2>1. \A r \in ResolvedWorkerProfiles(c.doc) : Present(r) \/ r \in c.todo
    BY <1>1, <1>2, CallKnown
  <2> QED
    BY <1>3, <1>4, <1>6, <2>1 DEF Spared
<1>8. \A r \in Profiles : host'[r] = "bare" => host[r] = "bare" /\ r # p
  BY <1>5
<1> QED
  BY <1>1, <1>2, <1>3, <1>4, <1>5, <1>6, <1>7, <1>8, MakerStep

\* A call that ends: with an error, with an answer, or for good.
LEMMA EndKeeps ==
    ASSUME AInv, PInv, NEW m \in Makers,
           CreateRaises(m) \/ ReportProfiles(m) \/ BreakOff(m)
    PROVE  PInv'
<1>1. PICK c : c = makers[m]
  OBVIOUS
<1>2. /\ makers' = [makers EXCEPT ![m] = NoCall] /\ host' = host
      /\ host \in [Profiles -> {"absent", "bare", "ready"}]
      /\ promised \subseteq Definitions /\ c.doc \in Definitions
  BY <1>1, CallKnown DEF CreateRaises, ReportProfiles, BreakOff, avars
<1>3. Spared /\ (\A r : Present(r)' <=> Present(r))
  BY <1>2 DEF Spared, Present
<1>4. /\ promised' \subseteq Definitions
      /\ \A d \in promised' \ promised :
            \A p \in ResolvedWorkerProfiles(d) : Present(p)'
  <2>1. CASE ReportProfiles(m)
    <3>1. /\ c.phase = "check" /\ c.todo = {}
          /\ promised' = promised \union {c.doc}
      BY <1>1, <2>1 DEF ReportProfiles
    <3>2. \A p \in ResolvedWorkerProfiles(c.doc) : Present(p)
      BY <1>1, <3>1, CallKnown
    <3> QED
      BY <1>2, <1>3, <3>1, <3>2
  <2>2. CASE ~ReportProfiles(m)
    BY <1>2, <2>2 DEF CreateRaises, BreakOff
  <2> QED
    BY <2>1, <2>2
<1>5. crashes' = 0 => crashes = 0 /\ c.phase # "model"
  <2>1. CASE BreakOff(m)
    BY <2>1 DEF BreakOff, AInv, AuthoringTypeOK
  <2>2. CASE ~BreakOff(m)
    BY <1>1, <2>2 DEF CreateRaises, ReportProfiles, avars
  <2> QED
    BY <2>1, <2>2
<1> QED
  BY <1>1, <1>2, <1>3, <1>4, <1>5, NoCallTyped, MakerStep

-----------------------------------------------------------------------------
(***************************************************************************)
(* The invariants.                                                         *)
(***************************************************************************)
LEMMA ProvisioningInit == PInit => AInv /\ PInv
<1> SUFFICES ASSUME PInit PROVE AInv /\ PInv
  OBVIOUS
<1>1. AInv
  BY InitKeeps DEF PInit
<1>2. /\ host \in [Profiles -> {"absent", "bare", "ready"}]
      /\ \A p \in Profiles : host[p] # "bare"
  BY DEF PInit
<1>3. makers \in [Makers -> MakerCall] /\ \A m \in Makers : makers[m].phase = "idle"
  BY NoCallTyped DEF PInit
<1>4. (\A m \in Makers : Attended(m)) /\ Finishing
  BY <1>2, <1>3 DEF Attended, Finishing
<1> QED
  BY <1>1, <1>2, <1>3, <1>4 DEF PInit, PInv

\* Provisioning leaves the calls and the disk of authoring alone.
LEMMA AuthoringUndisturbed ==
    ASSUME AInv, NEW m \in Makers, Provision(m)
    PROVE  AInv'
<1>1. /\ UNCHANGED <<repo, tracked, file, head, editors, owed, overlap>>
      /\ crashes' \in Nat /\ (crashes' = 0 => crashes = 0)
  BY DEF Provision, StartProvisioning, CheckProfile, CreateProfile, CreateRaises,
         SetModel, ReportProfiles, BreakOff, avars, disk, AInv, AuthoringTypeOK
<1>2. AuthoringTypeOK'
  BY <1>1 DEF AInv, AuthoringTypeOK
<1>3. ~overlap' => /\ Alone' /\ \A e \in Editors : Keeps(e)'
                   /\ NoLostEdit' /\ CommitIsComplete'
  BY <1>1 DEF AInv, Alone, Keeps, NoLostEdit, CommitIsComplete, Busy, Loaded, NodesOf
<1>4. ~overlap' /\ crashes' = 0 =>
          /\ \A e \in Editors : Traceless(e)'
          /\ (\A e \in Editors : ~Busy(e)') => Clean'
  BY <1>1 DEF AInv, Traceless, Clean, Busy
<1> QED
  BY <1>2, <1>3, <1>4 DEF AInv

LEMMA ProvisioningStep == AInv /\ PInv /\ [PNext]_pvars => AInv' /\ PInv'
<1> SUFFICES ASSUME AInv, PInv, [PNext]_pvars PROVE AInv' /\ PInv'
  OBVIOUS
<1>1. ASSUME NEW m \in Makers, Provision(m) PROVE AInv' /\ PInv'
  BY <1>1, AuthoringUndisturbed, StartKeeps, CheckKeeps, CreateKeeps, SetModelKeeps,
     EndKeeps DEF Provision
<1>2. ASSUME [ANext]_avars, UNCHANGED hvars PROVE AInv' /\ PInv'
  <2>1. AInv'
    BY <1>2, StepKeeps
  <2>2. crashes' = 0 => crashes = 0
    <3>1. crashes \in Nat /\ (crashes' = crashes \/ crashes' = crashes + 1)
      BY <1>2 DEF ANext, Request, CreateGraph, AddNode, RemoveNode, AddEdge,
                  RemoveEdge, SetStylesheet, Edit, Save, EnsureRepo, Configure,
                  OpenFile, WriteFile, GitAdd, GitCommit, Fail, CommitFails,
                  GitBusy, Interrupt, Reply, history, avars, AInv, AuthoringTypeOK
    <3> QED
      BY <3>1
  <2>3. Spared /\ (\A p : Present(p)' <=> Present(p))
    BY <1>2 DEF Spared, Present, hvars
  <2>4. \A m \in Makers : Attended(m)'
    BY <1>2, <2>3, StillAttended DEF hvars
  <2>5. \A d : ResolvedWorkerProfiles(d)' = ResolvedWorkerProfiles(d)
    BY DEF ResolvedWorkerProfiles, Workers, NodesOf, ResolveProfile, Styled,
           Selects, Specificity
  <2>6. crashes' = 0 => Finishing'
    BY <1>2, <2>2 DEF hvars, PInv, Finishing
  <2>7. /\ host' \in [Profiles -> {"absent", "bare", "ready"}]
        /\ makers' \in [Makers -> MakerCall] /\ promised' \subseteq Definitions
        /\ \A d \in promised' : \A p \in ResolvedWorkerProfiles(d)' : Present(p)'
    BY <1>2, <2>3, <2>5 DEF hvars, PInv
  <2> QED
    BY <2>1, <2>4, <2>6, <2>7 DEF PInv
<1>3. CASE UNCHANGED pvars
  BY <1>2, <1>3 DEF pvars
<1> QED
  BY <1>1, <1>2, <1>3 DEF PNext

\* Any number of provisioning and authoring calls keep both inductive invariants
\* (authoring.py, pipeline_store.py, provisioning.py).
THEOREM ProvisioningInvariant == PSpec => [](AInv /\ PInv)
<1>1. PInit => AInv /\ PInv
  BY ProvisioningInit
<1>2. AInv /\ PInv /\ [PNext]_pvars => AInv' /\ PInv'
  BY ProvisioningStep
<1> QED
  BY <1>1, <1>2, PTL DEF PSpec

\* Beside provisioning, too, no acknowledged declaration is lost and no commit
\* holds an emptied file.
THEOREM StoredBesideProvisioning == PSpec => [](NoLostEdit /\ CommitIsComplete)
<1>1. AInv => (~overlap => NoLostEdit /\ CommitIsComplete)
  BY DEF AInv
<1>2. AInv => NoLostEdit /\ CommitIsComplete
  BY <1>1 DEF NoLostEdit, CommitIsComplete
<1> QED
  BY <1>2, ProvisioningInvariant, PTL

\* Launch finds every profile of a definition whose provisioning was acknowledged
\* (provisioning.py), whatever else happens to the host and the definition.
THEOREM ProvisionedLaunches == PSpec => []ProvisionedIsLaunchable
<1>1. ASSUME PInv, NEW d \in promised, Issues(d) = {} PROVE WorkersFound(d)
  <2> SUFFICES ASSUME NEW n \in Workers(d),
                      \A k \in Workers(d) : k.id = n.id =>
                          ResolveProfile(d, k) = ResolveProfile(d, n)
               PROVE  host[ResolveProfile(d, n)] # "absent"
    BY Zenon DEF WorkersFound
  <2>1. ProfileIssues(d) = {}
    BY <1>1 DEF Issues
  <2>2. Issue(n.id, "profile") \in ProfileIssues(d)
           \/ ResolveProfile(d, n) # NoProfile
    BY DEF ProfileIssues
  <2>3. ResolveProfile(d, n) \in ResolvedWorkerProfiles(d)
    BY <2>1, <2>2, ResolvedHolds
  <2> QED
    BY <1>1, <2>3, Zenon DEF PInv, Present
<1>2. PInv => ProvisionedIsLaunchable
  BY <1>1 DEF ProvisionedIsLaunchable
<1> QED
  BY <1>2, ProvisioningInvariant, PTL

\* Whatever launch_run accepts keeps a run inside its graph, at whatever moment of
\* whatever edits it reads the file (pipeline.py validate, FR-004).
THEOREM AcceptedRuns == PSpec => []AcceptedIsRunnable
<1>1. AInv => AcceptedIsRunnable
  <2> SUFFICES ASSUME AInv, Loaded, Issues(file) = {} PROVE RunsInside(file)
    BY DEF AcceptedIsRunnable, Accepted
  <2>1. file \in Definitions
    BY DEF AInv, AuthoringTypeOK, Loaded
  <2> QED
    BY <2>1, ValidIsRunnable
<1> QED
  BY <1>1, ProvisioningInvariant, PTL

\* The guards of an accepted definition, and all other texts, raise in every
\* context or in none, and decide as the grammar of guard.py says.
THEOREM GuardsAlwaysDecide == PSpec => []GuardsDecide
<1>1. \A toks \in Seq(Tokens) : WellEvaluated(toks)
  BY RaisesWhateverTheContext, SentencesDecide DEF WellEvaluated
<1>2. AllWellEvaluated
  BY <1>1, GuardAssumption DEF AllWellEvaluated
<1>3. ASSUME NEW a \in ArcsOf(file), a.guard # NoGuard PROVE WellEvaluated(a.guard)
  <2>1. a.guard \in Seq(Tokens)
    BY <1>3, DeclarationsTyped DEF Arc
  <2> QED
    BY <1>1, <2>1
<1>4. GuardsDecide
  BY <1>2, <1>3 DEF GuardsDecide
<1> QED
  BY <1>4, PTL

\* Without an interruption no profile is left without its model.
THEOREM ModelsAreComplete == PSpec => []ModelsComplete
<1>1. PInv => ModelsComplete
  BY DEF PInv, Finishing, ModelsComplete
<1> QED
  BY <1>1, ProvisioningInvariant, PTL

\* A call that ends with an error leaves the file as it found it, beside
\* provisioning as without it.
THEOREM ErrorsLeaveTheFile == PSpec => ErrorLeavesFile
<1> DEFINE A == ~overlap /\ crashes' = 0 =>
          \A e \in Editors :
              editors[e].phase \notin {"idle", "reply"} /\ editors'[e].phase = "idle"
                  => file = editors[e].base
<1>1. ASSUME NEW m \in Makers, Provision(m) PROVE editors' = editors
  BY <1>1 DEF Provision, StartProvisioning, CheckProfile, CreateProfile,
              CreateRaises, SetModel, ReportProfiles, BreakOff, avars
<1>2. ASSUME AInv, [PNext]_pvars PROVE [A]_avars
  <2>1. CASE ANext
    BY <1>2, <2>1, FailureLeavesFile
  <2>2. CASE UNCHANGED pvars
    BY <2>2 DEF pvars
  <2>3. CASE \E m \in Makers : Provision(m)
    BY <1>1, <2>3
  <2> QED
    BY <1>2, <2>1, <2>2, <2>3 DEF PNext
<1> QED
  BY <1>2, ProvisioningInvariant, PTL DEF PSpec, ErrorLeavesFile
=============================================================================
