--------------------------- MODULE TemplateStore ---------------------------
(***************************************************************************)
(* The in-memory template store of services/api/poc_web.py and the jobs    *)
(* that pin a template version.  Every store method runs under the store's *)
(* lock.  A job pins id, version and name when it is created and resolves  *)
(* the definitions when its conversion starts; other requests register     *)
(* versions, disable and enable templates in between.  Templates live in   *)
(* memory only, the results of conversions are durable.                    *)
(***************************************************************************)
EXTENDS Naturals, Sequences

CONSTANTS
    TemplateIds,
    Names, Fields, Mappings,
    Seed,         \* seeded template id -> the request that seeds it
    Requests,     \* registrations clients may send
    Principals,
    SeedActor,
    Jobs,
    None,         \* omitted in a request
    Malformed,    \* an actor or approver that fails validation
    Authentication,  \* local auth is enabled
    MaxVersions,  \* bound on the versions of a template
    MaxRestarts

Statuses == {"active", "inactive"}
Actions == {"created", "versioned", "disabled", "enabled"}
Actors == Principals \cup {SeedActor}

(* Mapping stands for the attributes an update may leave out, as it may    *)
(* the status.                                                             *)
RequestType ==
    [name : Names, fields : Fields, mapping : Mappings \cup {None},
     status : Statuses \cup {None}, actor : Actors \cup {Malformed},
     approved_by : Principals \cup {None, Malformed}]

ASSUME RequestsAssumption ==
    /\ Requests \subseteq RequestType
    /\ DOMAIN Seed \subseteq TemplateIds
    /\ \A id \in DOMAIN Seed :
        Seed[id] \in RequestType /\ Seed[id].actor = SeedActor /\ Seed[id].approved_by = None
ASSUME ConstantsAssumption ==
    /\ None \notin Statuses \cup Principals \cup {Malformed}
    /\ Malformed \notin Actors
    /\ Authentication \in BOOLEAN
    /\ MaxVersions \in Nat /\ MaxRestarts \in Nat

VARIABLES
    templates,  \* id -> [name, status, current_version, versions, change_history]
    accepted,   \* id -> the registrations that took effect (history variable)
    job,        \* job -> its life
    pin,        \* job -> snapshot stored with it, or None
    promise,    \* job -> the definitions at its creation (history variable)
    used,       \* job -> the definitions its conversion worked with, or None
    restarts

vars == <<templates, accepted, job, pin, promise, used, restarts>>

-----------------------------------------------------------------------------
(* Registration.                                                           *)

(* An id without a record.                                                 *)
Absent == [name |-> None, status |-> "active", current_version |-> 0,
           versions |-> <<>>, change_history |-> <<>>]
Known(t) == t.versions # <<>>

(* With authentication the actor and the approver are the caller; a        *)
(* malformed approver is refused before it is replaced.                    *)
Trusted(r, caller) ==
    IF ~Authentication THEN r
    ELSE [r EXCEPT !.actor = caller,
                   !.approved_by = IF r.approved_by \in {None, Malformed}
                                   THEN r.approved_by ELSE caller]

Valid(r) == r.actor # Malformed /\ r.approved_by # Malformed

(* Bug: an omitted attribute falls back to its default.                    *)
InheritedDefault(t, r) == r.mapping
(* _template_version_value: the request's, else that of the latest         *)
(* version, whatever its status.                                           *)
Inherited(t, r) ==
    IF r.mapping = None /\ Known(t) THEN t.versions[Len(t.versions)].mapping ELSE r.mapping

NewStatus(t, r) == IF r.status # None THEN r.status ELSE t.status

(* _template_change_action.                                                *)
ChangeAction(t, status) ==
    IF ~Known(t) THEN "created"
    ELSE IF status = "inactive" /\ t.status # "inactive" THEN "disabled"
    ELSE IF status = "active" /\ t.status = "inactive" THEN "enabled"
    ELSE "versioned"

NewEvent(t, r) ==
    [action |-> ChangeAction(t, NewStatus(t, r)), version |-> Len(t.versions) + 1,
     actor |-> r.actor, approved_by |-> r.approved_by]

NewVersion(t, r) ==
    [version |-> Len(t.versions) + 1, status |-> NewStatus(t, r), fields |-> r.fields,
     mapping |-> Inherited(t, r), event |-> NewEvent(t, r)]

(* The record after register_template.                                     *)
Registered(t, r) ==
    [name |-> r.name, status |-> NewStatus(t, r), current_version |-> Len(t.versions) + 1,
     versions |-> Append(t.versions, NewVersion(t, r)),
     change_history |-> Append(t.change_history, NewEvent(t, r))]

(* POST /api/templates; an invalid request changes nothing.                *)
Register(id, r, caller) ==
    /\ Len(templates[id].versions) < MaxVersions
    /\ Valid(Trusted(r, caller))
    /\ templates' = [templates EXCEPT ![id] = Registered(@, Trusted(r, caller))]
    /\ accepted' = [accepted EXCEPT ![id] = Append(@, [request |-> r, caller |-> caller])]
    /\ UNCHANGED <<job, pin, promise, used, restarts>>

-----------------------------------------------------------------------------
(* Jobs.                                                                   *)

Usable(id) == Known(templates[id]) /\ templates[id].status = "active"

Definitions(t, v, name) ==
    [version |-> t.versions[v].version, name |-> name,
     fields |-> t.versions[v].fields, mapping |-> t.versions[v].mapping]

(* What the store holds for a template now.                                *)
Current(id) == Definitions(templates[id], Len(templates[id].versions), templates[id].name)

(* get_or_create_job calls latest_job_snapshot; an unknown or inactive     *)
(* template creates no job.                                                *)
CreateJob(j, id) ==
    /\ job[j] = "none"
    /\ Usable(id)
    /\ job' = [job EXCEPT ![j] = "created"]
    /\ pin' = [pin EXCEPT ![j] = [template_id |-> id,
                                  template_version |-> templates[id].current_version,
                                  name |-> templates[id].name]]
    /\ promise' = [promise EXCEPT ![j] = Current(id)]
    /\ UNCHANGED <<templates, accepted, used, restarts>>

(* The versions mapping_snapshot may pick for a number.                    *)
Candidates(t, v) == {i \in DOMAIN t.versions : t.versions[i].version = v}

(* Bug: the definitions current when the conversion starts.                *)
ResolvedLatest(j) == {Current(pin[j].template_id)}
(* mapping_snapshot(template_version) under the pinned name; the status    *)
(* is not looked at.                                                       *)
Resolved(j) ==
    LET t == templates[pin[j].template_id]
    IN {Definitions(t, i, pin[j].name) :
            i \in {c \in Candidates(t, pin[j].template_version) :
                     \A d \in Candidates(t, pin[j].template_version) : c <= d}}

(* _direct_convert_template_snapshot, in the thread that created the job.  *)
ConvertJob(j) ==
    /\ job[j] = "created"
    /\ \E d \in Resolved(j) : used' = [used EXCEPT ![j] = d]
    /\ job' = [job EXCEPT ![j] = "converted"]
    /\ UNCHANGED <<templates, accepted, pin, promise, restarts>>

(* POST /api/convert: no pin, the current version of an active template.   *)
DirectConvert(j, id) ==
    /\ job[j] = "none"
    /\ Usable(id)
    /\ job' = [job EXCEPT ![j] = "converted"]
    /\ used' = [used EXCEPT ![j] = Current(id)]
    /\ promise' = [promise EXCEPT ![j] = Current(id)]
    /\ UNCHANGED <<templates, accepted, pin, restarts>>

-----------------------------------------------------------------------------

(* with_representative_defaults.                                           *)
Seeded == [id \in TemplateIds |->
             IF id \in DOMAIN Seed THEN Registered(Absent, Seed[id]) ELSE Absent]
SeedLog == [id \in TemplateIds |->
              IF id \in DOMAIN Seed THEN <<[request |-> Seed[id], caller |-> SeedActor]>> ELSE <<>>]

(* A new process: the seeds only; the threads of created jobs are gone.    *)
Restart ==
    /\ restarts < MaxRestarts
    /\ restarts' = restarts + 1
    /\ templates' = Seeded
    /\ accepted' = SeedLog
    /\ job' = [j \in Jobs |-> IF job[j] = "created" THEN "abandoned" ELSE job[j]]
    /\ UNCHANGED <<pin, promise, used>>

Init ==
    /\ templates = Seeded
    /\ accepted = SeedLog
    /\ job = [j \in Jobs |-> "none"]
    /\ pin = [j \in Jobs |-> None]
    /\ promise = [j \in Jobs |-> None]
    /\ used = [j \in Jobs |-> None]
    /\ restarts = 0

Next ==
    \/ \E id \in TemplateIds, r \in Requests, p \in Principals : Register(id, r, p)
    \/ \E j \in Jobs, id \in TemplateIds : CreateJob(j, id)
    \/ \E j \in Jobs : ConvertJob(j)
    \/ \E j \in Jobs, id \in TemplateIds : DirectConvert(j, id)
    \/ Restart

Spec == Init /\ [][Next]_vars

-----------------------------------------------------------------------------
(* Correctness.                                                            *)

EventType == [action : Actions, version : Nat \ {0}, actor : Actors,
              approved_by : Principals \cup {None}]

VersionType == [version : Nat \ {0}, status : Statuses, fields : Fields,
                mapping : Mappings \cup {None}, event : EventType]

TemplateType == [name : Names \cup {None}, status : Statuses, current_version : Nat,
                 versions : Seq(VersionType), change_history : Seq(EventType)]

PinType == [template_id : TemplateIds, template_version : Nat \ {0}, name : Names]

(* Records, versions and events keep their shape.                          *)
TypeOK ==
    /\ templates \in [TemplateIds -> TemplateType]
    /\ job \in [Jobs -> {"none", "created", "converted", "abandoned"}]
    /\ pin \in [Jobs -> PinType \cup {None}]
    /\ \A j \in Jobs : job[j] = "created" => pin[j] \in PinType
    /\ restarts \in 0..MaxRestarts

(***************************************************************************)
(* The change history explains the template (docs/template-change-         *)
(* history.md): version i carries the i-th event, both projections agree,  *)
(* and "disabled" and "enabled" are recorded exactly where the status      *)
(* changes.                                                                *)
(***************************************************************************)
HistoryExplainsStatus ==
    \A id \in TemplateIds : Known(templates[id]) =>
        LET t == templates[id] IN
        /\ t.current_version = Len(t.versions) /\ t.current_version = Len(t.change_history)
        /\ t.status = t.versions[t.current_version].status
        /\ \A i \in 1..t.current_version :
            /\ t.change_history[i] = t.versions[i].event
            /\ t.versions[i].version = i /\ t.change_history[i].version = i
            /\ t.change_history[i].action = "created" <=> i = 1
            /\ i > 1 =>
                LET before == t.versions[i - 1].status
                    after == t.versions[i].status
                IN /\ t.change_history[i].action = "disabled" <=>
                        before = "active" /\ after = "inactive"
                   /\ t.change_history[i].action = "enabled" <=>
                        before = "inactive" /\ after = "active"

(* The last registration up to the i-th that gave an attribute.            *)
LastGiven(log, i, given(_)) ==
    LET S == {k \in 1..i : given(log[k].request)}
    IN IF S = {} THEN 0 ELSE CHOOSE k \in S : \A m \in S : m <= k

(***************************************************************************)
(* Updates lose nothing: an attribute or a status that an update leaves    *)
(* out is the one given last, through any number of such updates, and      *)
(* never that of another template or of a version before it.               *)
(***************************************************************************)
UpdatesLoseNothing ==
    \A id \in TemplateIds :
        LET log == accepted[id]
            t == templates[id]
            HasMapping(r) == r.mapping # None
            HasStatus(r) == r.status # None
        IN /\ Len(log) = t.current_version
           /\ \A i \in 1..t.current_version :
                LET m == LastGiven(log, i, HasMapping)
                    s == LastGiven(log, i, HasStatus)
                IN /\ t.versions[i].fields = log[i].request.fields
                   /\ t.versions[i].mapping = IF m = 0 THEN None ELSE log[m].request.mapping
                   /\ t.versions[i].status = IF s = 0 THEN "active" ELSE log[s].request.status

(***************************************************************************)
(* With authentication every change is attributed to the principal who     *)
(* made it, and nobody else appears as its approver.                       *)
(***************************************************************************)
ChangesAttributed ==
    Authentication =>
        \A id \in TemplateIds :
            \A i \in 1..templates[id].current_version :
                LET e == templates[id].change_history[i] IN
                /\ e.actor = accepted[id][i].caller
                /\ e.approved_by \in {None, accepted[id][i].caller}

(***************************************************************************)
(* A conversion works with the name and the definitions that were current, *)
(* and belonged to an active template, when its job was created, whatever  *)
(* was registered, disabled or restarted since; a created job can always   *)
(* be converted.                                                           *)
(***************************************************************************)
PinnedDefinitionsUsed ==
    \A j \in Jobs :
        /\ job[j] = "created" => Resolved(j) = {promise[j]}
        /\ job[j] = "converted" => used[j] = promise[j]

(***************************************************************************)
(* A recorded version never changes and never disappears within the life   *)
(* of a process: an update only appends to versions and history.           *)
(***************************************************************************)
VersionsKept ==
    \A id \in TemplateIds :
        restarts' = restarts =>
            \A i \in 1..Len(templates[id].versions) :
                /\ i \in DOMAIN templates'[id].versions
                /\ i \in DOMAIN templates'[id].change_history
                /\ templates'[id].versions[i] = templates[id].versions[i]
                /\ templates'[id].change_history[i] = templates[id].change_history[i]
VersionsImmutable == [][VersionsKept]_vars
===========================================================================
