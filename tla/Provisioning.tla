------------------------------ MODULE Provisioning ------------------------------
(***************************************************************************)
(* The provisioning tool (use_cases/provisioning.py) beside the authoring  *)
(* calls: it reads the definition, then creates on the host, one by one,   *)
(* the profiles its worker nodes resolve to and the host lacks.  Creating  *)
(* a profile takes two calls of the host when a model belongs to it: the   *)
(* profile is cloned, then its model is set.                               *)
(*                                                                         *)
(* The host is external: create_profile raises for a profile that exists.  *)
(* No call of the plugin deletes a profile.                                *)
(***************************************************************************)
EXTENDS Authoring

CONSTANTS Makers,       \* processes that handle a provisioning call
          Tiered,       \* profiles whose name carries a tier with a model
          HostAtStart   \* profiles the host has from the start

ASSUME ProvisioningAssumption ==
    Tiered \subseteq Profiles /\ HostAtStart \subseteq Profiles

VARIABLES host,      \* each profile: "absent", "bare" (its model is not set), "ready"
          makers,    \* the calls in progress
          promised   \* history: definitions whose provisioning was acknowledged

hvars == <<host, makers, promised>>
pvars == <<avars, hvars>>

\* A call: what it does next, what it was asked for, what it has still to look
\* at, and the profile it is at.
MakerCall == [phase : {"idle", "check", "create", "model"}, doc : Definitions,
              models : BOOLEAN, todo : SUBSET Profiles,
              name : Profiles \union {NoProfile}]

NoCall == [phase |-> "idle", doc |-> EmptyDefinition, models |-> FALSE,
           todo |-> {}, name |-> NoProfile]

PInit ==
    /\ AInit
    /\ host = [p \in Profiles |-> IF p \in HostAtStart THEN "ready" ELSE "absent"]
    /\ makers = [m \in Makers |-> NoCall]
    /\ promised = {}

-----------------------------------------------------------------------------
\* Mutant: the nodes that name a profile themselves.
ResolvedOwn(d) == {n.profile : n \in Workers(d)} \ {NoProfile}

\* resolved_worker_profiles: one profile per name; the bag of declarations does
\* not say which declaration of a name is the last.
ResolvedWorkerProfiles(d) ==
    LET named == {n \in Workers(d) : ResolveProfile(d, n) # NoProfile}
    IN  {ResolveProfile(d, CHOOSE n \in named : n.id = x) :
            x \in {n.id : n \in named}}

\* The tool is called, with the models of the tiers or without.
StartProvisioning(m) ==
    /\ makers[m].phase = "idle"
    /\ edits < MaxEdits
    /\ Loaded
    /\ \E models \in BOOLEAN :
         makers' = [makers EXCEPT ![m] =
             [phase |-> "check", doc |-> file, models |-> models,
              todo |-> ResolvedWorkerProfiles(file), name |-> NoProfile]]
    /\ edits' = edits + 1
    /\ UNCHANGED <<disk, editors, owed, overlap, crashes, host, promised>>

Proceed(m, phase, todo, name) ==
    makers' = [makers EXCEPT ![m] =
        [phase |-> phase, doc |-> makers[m].doc, models |-> makers[m].models,
         todo |-> todo, name |-> name]]

\* registry.exists, in the order of the list, which decides nothing.
CheckProfile(m) ==
    /\ makers[m].phase = "check"
    /\ \E p \in makers[m].todo :
         Proceed(m, IF host[p] = "absent" THEN "create" ELSE "check",
                 makers[m].todo \ {p}, p)
    /\ UNCHANGED <<avars, host, promised>>

NeedsModel(m) == makers[m].models /\ makers[m].name \in Tiered

\* Mutant: the model is left to a later call.
AfterCreateDone(m) == "check"

AfterCreate(m) == IF NeedsModel(m) THEN "model" ELSE "check"

CreateProfile(m) ==
    /\ makers[m].phase = "create" /\ host[makers[m].name] = "absent"
    /\ host' = [host EXCEPT ![makers[m].name] =
                   IF NeedsModel(m) THEN "bare" ELSE "ready"]
    /\ Proceed(m, AfterCreate(m), makers[m].todo, makers[m].name)
    /\ UNCHANGED <<avars, promised>>

\* Another call has created it since: the tool answers with an error.
CreateRaises(m) ==
    /\ makers[m].phase = "create" /\ host[makers[m].name] # "absent"
    /\ makers' = [makers EXCEPT ![m] = NoCall]
    /\ UNCHANGED <<avars, host, promised>>

SetModel(m) ==
    /\ makers[m].phase = "model"
    /\ host' = [host EXCEPT ![makers[m].name] = "ready"]
    /\ Proceed(m, "check", makers[m].todo, makers[m].name)
    /\ UNCHANGED <<avars, promised>>

\* The tool answers with success.
ReportProfiles(m) ==
    /\ makers[m].phase = "check" /\ makers[m].todo = {}
    /\ promised' = promised \union {makers[m].doc}
    /\ makers' = [makers EXCEPT ![m] = NoCall]
    /\ UNCHANGED <<avars, host>>

\* The process dies, or a call of the host raises.
BreakOff(m) ==
    /\ makers[m].phase # "idle"
    /\ crashes < MaxCrashes
    /\ crashes' = crashes + 1
    /\ makers' = [makers EXCEPT ![m] = NoCall]
    /\ UNCHANGED <<disk, editors, owed, overlap, edits, host, promised>>

Provision(m) ==
    \/ StartProvisioning(m) \/ CheckProfile(m) \/ CreateProfile(m)
    \/ CreateRaises(m) \/ SetModel(m) \/ ReportProfiles(m) \/ BreakOff(m)

PNext == \/ ANext /\ UNCHANGED hvars
         \/ \E m \in Makers : Provision(m)

PSpec == PInit /\ [][PNext]_pvars

-----------------------------------------------------------------------------
\* A run of d never needs a profile the host lacks: every worker that edges and
\* gate retries can lead to has its profile there.  A name with declarations of
\* several profiles is left aside.
WorkersFound(d) ==
    LET visited == Visited(d)
        Agreed(n) == \A k \in Workers(d) :
            k.id = n.id => ResolveProfile(d, k) = ResolveProfile(d, n)
    IN  \A n \in Workers(d) :
            n.id \in visited /\ Agreed(n) => host[ResolveProfile(d, n)] # "absent"

\* Provisioning that was acknowledged is enough: whatever else was created,
\* interrupted or edited meanwhile, launch finds every profile of the definition
\* that was read (provisioning.py: "an operator/agent can provision exactly
\* those profiles first").
ProvisionedIsLaunchable == \A d \in promised : Issues(d) = {} => WorkersFound(d)

\* While nothing is interrupted, no profile stays without the model it was
\* created for, whoever else saw it in between.  (A profile whose creation was
\* interrupted stays so for good: the next call finds that it exists.)
ModelsComplete ==
    crashes = 0 /\ (\A m \in Makers : makers[m].phase = "idle")
        => \A p \in Profiles : host[p] # "bare"

-----------------------------------------------------------------------------
(***************************************************************************)
(* Why: no call deletes a profile.                                         *)
(***************************************************************************)
Present(p) == host[p] # "absent"

\* A profile the call was asked for is there, or the call will still see to it.
Attended(m) ==
    LET c == makers[m]
    IN  /\ c.phase \in {"create", "model"} => c.name \in Profiles
        /\ c.phase # "idle" => \A p \in ResolvedWorkerProfiles(c.doc) :
              Present(p) \/ p \in c.todo \/ (c.phase = "create" /\ p = c.name)

\* The call that created a profile without its model has that still to do.
Finishing == \A p \in Profiles : host[p] = "bare" =>
                 \E m \in Makers : makers[m].phase = "model" /\ makers[m].name = p

\* The inductive invariant of provision_profiles, for any number of calls: each
\* still attends to every profile it was asked for, what was promised is there,
\* and without an interruption a profile that has no model yet is being finished.
PInv ==
    /\ host \in [Profiles -> {"absent", "bare", "ready"}]
    /\ makers \in [Makers -> MakerCall] /\ promised \subseteq Definitions
    /\ \A m \in Makers : Attended(m)
    /\ \A d \in promised : \A p \in ResolvedWorkerProfiles(d) : Present(p)
    /\ crashes = 0 => Finishing
=============================================================================
