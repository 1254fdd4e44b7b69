------------------------ MODULE TemplateStoreProofs ------------------------
(***************************************************************************)
(* For any templates, requests and jobs: versions are never rewritten, the *)
(* history explains them, changes are attributed, and jobs convert with    *)
(* the definitions they pinned.                                            *)
(***************************************************************************)
EXTENDS TemplateStore, TLAPS

(* Version numbers are positions, and both projections are as long.        *)
Numbered(t) ==
    /\ t.current_version = Len(t.versions)
    /\ Len(t.change_history) = Len(t.versions)
    /\ \A i \in 1..Len(t.versions) : t.versions[i].version = i
    /\ Known(t) => t.name \in Names

(* HistoryExplainsStatus of one version and of one template.               *)
ExplainedAt(t, i) ==
    /\ t.change_history[i] = t.versions[i].event
    /\ t.change_history[i].version = i
    /\ t.change_history[i].action = "created" <=> i = 1
    /\ i > 1 =>
        /\ t.change_history[i].action = "disabled" <=>
             t.versions[i - 1].status = "active" /\ t.versions[i].status = "inactive"
        /\ t.change_history[i].action = "enabled" <=>
             t.versions[i - 1].status = "inactive" /\ t.versions[i].status = "active"

Explained(t) ==
    Known(t) =>
        /\ t.status = t.versions[t.current_version].status
        /\ \A i \in 1..t.current_version : ExplainedAt(t, i)

(* ChangesAttributed of one template and its log.                          *)
Attributed(t, log) ==
    /\ Len(log) = Len(t.versions)
    /\ Authentication =>
        \A i \in 1..Len(t.versions) :
            /\ t.change_history[i].actor = log[i].caller
            /\ t.change_history[i].approved_by \in {None, log[i].caller}

LogType == [TemplateIds -> Seq([request : RequestType, caller : Actors])]

StoreInv ==
    /\ TypeOK
    /\ accepted \in LogType
    /\ \A id \in TemplateIds :
        Numbered(templates[id]) /\ Explained(templates[id]) /\ Attributed(templates[id], accepted[id])

(* The pinned version is still there, as it was.                           *)
Held(j) ==
    LET t == templates[pin[j].template_id]
    IN /\ pin[j].template_version \in 1..Len(t.versions)
       /\ promise[j] = Definitions(t, pin[j].template_version, pin[j].name)

JobInv ==
    /\ DOMAIN promise = Jobs /\ DOMAIN used = Jobs
    /\ \A j \in Jobs :
        /\ job[j] = "created" => Held(j)
        /\ job[j] = "converted" => used[j] = promise[j]

Inv == StoreInv /\ JobInv

-----------------------------------------------------------------------------
(* A registration.                                                         *)

(* A validated request, as it reaches the record.                          *)
LEMMA TrustedRequest ==
    ASSUME NEW r \in RequestType, NEW p \in Principals, Valid(Trusted(r, p))
    PROVE  /\ Trusted(r, p) \in RequestType
           /\ Trusted(r, p).actor \in Actors
           /\ Trusted(r, p).approved_by \in Principals \cup {None}
           /\ Authentication => /\ Trusted(r, p).actor = p
                                /\ Trusted(r, p).approved_by \in {None, p}
  BY ConstantsAssumption DEF Trusted, Valid, RequestType, Actors

(* Appending keeps what is there.                                          *)
LEMMA AppendKeeps ==
    ASSUME NEW S, NEW s \in Seq(S), NEW e \in S
    PROVE  /\ Append(s, e) \in Seq(S)
           /\ Len(Append(s, e)) = Len(s) + 1
           /\ Append(s, e)[Len(s) + 1] = e
           /\ \A i \in 1..Len(s) : Append(s, e)[i] = s[i]
           /\ Append(s, e) # <<>>
  OBVIOUS

(* The new version and its event are well typed.                           *)
LEMMA NewVersionType ==
    ASSUME NEW t \in TemplateType, NEW r \in RequestType, r.actor \in Actors,
           r.approved_by \in Principals \cup {None}
    PROVE  /\ NewStatus(t, r) \in Statuses
           /\ NewEvent(t, r) \in EventType
           /\ NewVersion(t, r) \in VersionType
<1>1. NewStatus(t, r) \in Statuses
  BY DEF NewStatus, TemplateType, RequestType
<1>2. ChangeAction(t, NewStatus(t, r)) \in Actions
  BY DEF ChangeAction, Actions
<1>3. Len(t.versions) \in Nat /\ Len(t.versions) + 1 \in Nat \ {0}
  BY DEF TemplateType
<1>4. NewEvent(t, r) \in EventType
  BY <1>2, <1>3 DEF NewEvent, EventType
<1>5. Inherited(t, r) \in Mappings \cup {None}
  <2>1. CASE r.mapping = None /\ Known(t)
    <3>1. t.versions \in Seq(VersionType) /\ t.versions # <<>>
      BY <2>1 DEF TemplateType, Known
    <3>2. t.versions[Len(t.versions)] \in VersionType
      BY <3>1
    <3> QED
      BY <2>1, <3>2 DEF Inherited, VersionType
  <2>2. CASE ~(r.mapping = None /\ Known(t))
    BY <2>2 DEF Inherited, RequestType
  <2> QED
    BY <2>1, <2>2
<1> QED
  BY <1>1, <1>3, <1>4, <1>5 DEF NewVersion, VersionType, RequestType

(* The record after a registration, field by field.                        *)
LEMMA RegisteredRecord ==
    ASSUME NEW t \in TemplateType, NEW r \in RequestType, r.actor \in Actors,
           r.approved_by \in Principals \cup {None}, Numbered(t), Explained(t)
    PROVE  LET u == Registered(t, r) IN
           /\ u \in TemplateType /\ Numbered(u) /\ Explained(u)
           /\ Len(u.versions) = Len(t.versions) + 1
           /\ \A i \in 1..Len(t.versions) :
                u.versions[i] = t.versions[i] /\ u.change_history[i] = t.change_history[i]
           /\ u.change_history[Len(t.versions) + 1] = NewEvent(t, r)
<1> DEFINE u == Registered(t, r)
           n == Len(t.versions)
<1>1. /\ NewStatus(t, r) \in Statuses /\ NewEvent(t, r) \in EventType
      /\ NewVersion(t, r) \in VersionType
  BY NewVersionType
<1>2. /\ t.versions \in Seq(VersionType) /\ t.change_history \in Seq(EventType)
      /\ n \in Nat /\ Len(t.change_history) = n /\ t.current_version = n
      /\ t.status \in Statuses
  BY DEF TemplateType, Numbered
<1>3. /\ u.versions = Append(t.versions, NewVersion(t, r))
      /\ u.change_history = Append(t.change_history, NewEvent(t, r))
      /\ u.current_version = n + 1 /\ u.status = NewStatus(t, r) /\ u.name = r.name
  BY DEF Registered
<1>4. /\ u.versions \in Seq(VersionType) /\ Len(u.versions) = n + 1
      /\ u.versions[n + 1] = NewVersion(t, r) /\ u.versions # <<>>
      /\ \A i \in 1..n : u.versions[i] = t.versions[i]
  BY <1>1, <1>2, <1>3, AppendKeeps
<1>5. /\ u.change_history \in Seq(EventType) /\ Len(u.change_history) = n + 1
      /\ u.change_history[n + 1] = NewEvent(t, r)
      /\ \A i \in 1..n : u.change_history[i] = t.change_history[i]
  BY <1>1, <1>2, <1>3, AppendKeeps
<1>6. u \in TemplateType
  BY <1>1, <1>2, <1>4, <1>5 DEF Registered, TemplateType, RequestType
<1>7. Numbered(u)
  <2>1. NewVersion(t, r).version = n + 1
    BY DEF NewVersion
  <2>2. ASSUME NEW i \in 1..(n + 1) PROVE u.versions[i].version = i
    <3>1. CASE i = n + 1
      BY <1>4, <2>1, <3>1
    <3>2. CASE i \in 1..n
      BY <1>4, <3>2 DEF Numbered
    <3> QED
      BY <1>2, <3>1, <3>2
  <2> QED
    BY <1>2, <1>3, <1>4, <1>5, <2>2 DEF Numbered, RequestType
<1>8. Explained(u)
  <2>1. /\ NewVersion(t, r).status = NewStatus(t, r) /\ NewVersion(t, r).event = NewEvent(t, r)
        /\ NewEvent(t, r).version = n + 1
        /\ NewEvent(t, r).action = ChangeAction(t, NewStatus(t, r))
    BY DEF NewVersion, NewEvent
  <2>2. Known(t) <=> n # 0
    BY <1>2 DEF Known
  <2>3. ASSUME NEW i \in 1..n PROVE ExplainedAt(u, i)
    <3>1. ExplainedAt(t, i)
      BY <1>2, <2>2 DEF Explained
    <3>2. i > 1 => i - 1 \in 1..n
      BY <1>2
    <3> QED
      BY <1>4, <1>5, <3>1, <3>2 DEF ExplainedAt
  <2>4. ExplainedAt(u, n + 1)
    <3>1. CASE n = 0
      BY <1>2, <1>4, <1>5, <2>1, <2>2, <3>1 DEF ChangeAction, ExplainedAt
    <3>2. CASE n # 0
      <4>1. n \in 1..n /\ n + 1 - 1 = n /\ n + 1 # 1 /\ u.versions[n].status = t.status
        BY <1>2, <1>4, <2>2, <3>2 DEF Explained
      <4> QED
        BY <1>1, <1>2, <1>4, <1>5, <2>1, <2>2, <3>2, <4>1 DEF ChangeAction, Statuses, ExplainedAt
    <3> QED
      BY <3>1, <3>2
  <2>5. \A i \in 1..(n + 1) : i \in 1..n \/ i = n + 1
    BY <1>2
  <2>6. \A i \in 1..u.current_version : ExplainedAt(u, i)
    BY <1>3, <2>3, <2>4, <2>5
  <2>7. u.status = u.versions[u.current_version].status
    BY <1>3, <1>4, <2>1
  <2> QED
    BY <2>6, <2>7 DEF Explained
<1> QED
  BY <1>4, <1>5, <1>6, <1>7, <1>8

(* A registration extends the log of its template and keeps it attributed. *)
LEMMA RegisteredAttributed ==
    ASSUME NEW t \in TemplateType, NEW r \in RequestType, NEW p \in Actors,
           r.actor \in Actors, r.approved_by \in Principals \cup {None},
           Authentication => r.actor = p /\ r.approved_by \in {None, p},
           Numbered(t), Explained(t),
           NEW log \in Seq([request : RequestType, caller : Actors]),
           NEW q \in RequestType, Attributed(t, log)
    PROVE  /\ Append(log, [request |-> q, caller |-> p]) \in Seq([request : RequestType, caller : Actors])
           /\ Attributed(Registered(t, r), Append(log, [request |-> q, caller |-> p]))
<1> DEFINE u == Registered(t, r)
           n == Len(t.versions)
           e == [request |-> q, caller |-> p]
           log2 == Append(log, e)
<1>1. /\ Len(u.versions) = n + 1
      /\ \A i \in 1..n : u.change_history[i] = t.change_history[i]
      /\ u.change_history[n + 1] = NewEvent(t, r)
  BY RegisteredRecord
<1>2. n \in Nat /\ Len(log) = n
  BY DEF TemplateType, Attributed
<1>3. e \in [request : RequestType, caller : Actors]
  OBVIOUS
<1>4. /\ log2 \in Seq([request : RequestType, caller : Actors]) /\ Len(log2) = n + 1
      /\ log2[n + 1] = e /\ \A i \in 1..n : log2[i] = log[i]
  BY <1>2, <1>3, AppendKeeps
<1>5. /\ NewEvent(t, r).actor = r.actor /\ NewEvent(t, r).approved_by = r.approved_by
      /\ e.caller = p
  BY DEF NewEvent
<1>6. ASSUME Authentication, NEW i \in 1..(n + 1)
      PROVE  /\ u.change_history[i].actor = log2[i].caller
             /\ u.change_history[i].approved_by \in {None, log2[i].caller}
  <2>1. CASE i = n + 1
    BY <1>1, <1>4, <1>5, <1>6, <2>1
  <2>2. CASE i \in 1..n
    BY <1>1, <1>4, <1>6, <2>2 DEF Attributed
  <2> QED
    BY <1>2, <2>1, <2>2
<1> QED
  BY <1>1, <1>4, <1>6 DEF Attributed

-----------------------------------------------------------------------------
(* The seeded store.                                                       *)

LEMMA AbsentRecord ==
    /\ Absent \in TemplateType /\ Numbered(Absent) /\ Explained(Absent)
    /\ Attributed(Absent, <<>>)
  BY DEF Absent, TemplateType, Statuses, Numbered, Explained, Known, Attributed

LEMMA SeededStore ==
    /\ Seeded \in [TemplateIds -> TemplateType]
    /\ SeedLog \in LogType
    /\ \A id \in TemplateIds :
        Numbered(Seeded[id]) /\ Explained(Seeded[id]) /\ Attributed(Seeded[id], SeedLog[id])
<1>1. ASSUME NEW id \in TemplateIds
      PROVE  /\ Seeded[id] \in TemplateType /\ Numbered(Seeded[id]) /\ Explained(Seeded[id])
             /\ SeedLog[id] \in Seq([request : RequestType, caller : Actors])
             /\ Attributed(Seeded[id], SeedLog[id])
  <2>1. CASE id \notin DOMAIN Seed
    BY <2>1, AbsentRecord DEF Seeded, SeedLog
  <2>2. CASE id \in DOMAIN Seed
    <3>1. /\ Seed[id] \in RequestType /\ Seed[id].actor = SeedActor /\ SeedActor \in Actors
          /\ Seed[id].approved_by = None
      BY <2>2, RequestsAssumption DEF Actors
    <3>2. Seeded[id] = Registered(Absent, Seed[id])
      BY <2>2 DEF Seeded
    <3>3. Seeded[id] \in TemplateType /\ Numbered(Seeded[id]) /\ Explained(Seeded[id])
      BY <3>1, <3>2, AbsentRecord, RegisteredRecord
    <3>4. SeedLog[id] = Append(<<>>, [request |-> Seed[id], caller |-> SeedActor])
      BY <2>2 DEF SeedLog
    <3>5. <<>> \in Seq([request : RequestType, caller : Actors])
      OBVIOUS
    <3>6. /\ SeedLog[id] \in Seq([request : RequestType, caller : Actors])
          /\ Attributed(Seeded[id], SeedLog[id])
      BY <3>1, <3>2, <3>4, <3>5, AbsentRecord, RegisteredAttributed
    <3> QED
      BY <3>3, <3>6
  <2> QED
    BY <2>1, <2>2
<1> QED
  BY <1>1 DEF Seeded, SeedLog, LogType

LEMMA InitInv == Init => Inv
<1> SUFFICES ASSUME Init PROVE Inv
  OBVIOUS
<1>1. TypeOK
  BY SeededStore, ConstantsAssumption DEF Init, TypeOK
<1>2. StoreInv
  BY <1>1, SeededStore DEF Init, StoreInv
<1>3. JobInv
  BY DEF Init, JobInv
<1> QED
  BY <1>2, <1>3 DEF Inv

-----------------------------------------------------------------------------
(* Steps.                                                                  *)

(* What a registration does to the store.                                  *)
LEMMA RegisterStep ==
    ASSUME Inv, NEW id \in TemplateIds, NEW r \in Requests, NEW p \in Principals, Register(id, r, p)
    PROVE  Inv' /\ VersionsKept
<1> DEFINE q == Trusted(r, p)
           t == templates[id]
<1>1. /\ r \in RequestType /\ p \in Actors /\ t \in TemplateType
      /\ accepted[id] \in Seq([request : RequestType, caller : Actors])
      /\ Numbered(t) /\ Explained(t) /\ Attributed(t, accepted[id])
  BY RequestsAssumption DEF Inv, StoreInv, TypeOK, LogType, Actors
<1>2. /\ q \in RequestType /\ q.actor \in Actors /\ q.approved_by \in Principals \cup {None}
      /\ Authentication => q.actor = p /\ q.approved_by \in {None, p}
  BY <1>1, TrustedRequest DEF Register
<1>3. /\ templates' = [templates EXCEPT ![id] = Registered(t, q)]
      /\ accepted' = [accepted EXCEPT ![id] = Append(accepted[id], [request |-> r, caller |-> p])]
      /\ UNCHANGED <<job, pin, promise, used, restarts>>
  BY DEF Register
<1> HIDE DEF q, t
<1>4. LET u == Registered(t, q) IN
      /\ u \in TemplateType /\ Numbered(u) /\ Explained(u)
      /\ Len(u.versions) = Len(t.versions) + 1
      /\ \A i \in 1..Len(t.versions) :
           u.versions[i] = t.versions[i] /\ u.change_history[i] = t.change_history[i]
  BY <1>1, <1>2, RegisteredRecord
<1>5. /\ Append(accepted[id], [request |-> r, caller |-> p]) \in Seq([request : RequestType, caller : Actors])
      /\ Attributed(Registered(t, q), Append(accepted[id], [request |-> r, caller |-> p]))
  BY <1>1, <1>2, RegisteredAttributed
<1>6. templates \in [TemplateIds -> TemplateType] /\ accepted \in LogType
  BY DEF Inv, StoreInv, TypeOK
<1>7. templates'[id] = Registered(t, q) /\ \A d \in TemplateIds : d # id => templates'[d] = templates[d]
  BY <1>3, <1>6
<1>8. TypeOK'
  BY <1>3, <1>4, <1>6 DEF Inv, StoreInv, TypeOK
<1>9. accepted' \in LogType
  BY <1>3, <1>5, <1>6 DEF LogType
<1>10. \A d \in TemplateIds :
         Numbered(templates'[d]) /\ Explained(templates'[d]) /\ Attributed(templates'[d], accepted'[d])
  <2> TAKE d \in TemplateIds
  <2>1. CASE d = id
    BY <1>3, <1>4, <1>5, <1>6, <1>7, <2>1 DEF LogType
  <2>2. CASE d # id
    BY <1>3, <1>6, <1>7, <2>2 DEF LogType, Inv, StoreInv
  <2> QED
    BY <2>1, <2>2
<1>11. ASSUME NEW d \in TemplateIds
       PROVE  /\ Len(templates[d].versions) \in Nat /\ Len(templates'[d].versions) \in Nat
              /\ Len(templates'[d].versions) >= Len(templates[d].versions)
              /\ \A i \in 1..Len(templates[d].versions) :
                   /\ templates'[d].versions[i] = templates[d].versions[i]
                   /\ templates'[d].change_history[i] = templates[d].change_history[i]
  <2>1. templates[d] \in TemplateType /\ templates'[d] \in TemplateType
    BY <1>6, <1>8 DEF TypeOK
  <2>2. Len(templates[d].versions) \in Nat /\ Len(templates'[d].versions) \in Nat
    BY <2>1 DEF TemplateType
  <2>3. CASE d = id
    BY <1>4, <1>7, <2>2, <2>3 DEF t
  <2>4. CASE d # id
    BY <1>7, <2>2, <2>4
  <2> QED
    BY <2>2, <2>3, <2>4
<1>12. JobInv'
  <2>1. ASSUME NEW j \in Jobs, job[j] = "created" PROVE Held(j)'
    <3>1. Held(j) /\ pin[j].template_id \in TemplateIds /\ pin' = pin /\ promise' = promise
      BY <1>3, <2>1 DEF Inv, JobInv, StoreInv, TypeOK, PinType
    <3> DEFINE d == pin[j].template_id
               v == pin[j].template_version
    <3>2. v \in 1..Len(templates[d].versions)
      BY <3>1 DEF Held
    <3>3. /\ v \in 1..Len(templates'[d].versions)
          /\ templates'[d].versions[v] = templates[d].versions[v]
      <4> d \in TemplateIds
        BY <3>1
      <4>1. /\ Len(templates[d].versions) \in Nat /\ Len(templates'[d].versions) \in Nat
            /\ Len(templates'[d].versions) >= Len(templates[d].versions)
        BY <1>11
      <4>2. templates'[d].versions[v] = templates[d].versions[v]
        BY <1>11, <3>2
      <4> QED
        BY <3>2, <4>1, <4>2
    <3> QED
      BY <3>1, <3>3 DEF Held, Definitions
  <2> QED
    BY <1>3, <2>1 DEF Inv, JobInv
<1>13. VersionsKept
  <2> SUFFICES ASSUME NEW d \in TemplateIds, NEW i \in 1..Len(templates[d].versions)
               PROVE  /\ i \in DOMAIN templates'[d].versions
                      /\ i \in DOMAIN templates'[d].change_history
                      /\ templates'[d].versions[i] = templates[d].versions[i]
                      /\ templates'[d].change_history[i] = templates[d].change_history[i]
    BY DEF VersionsKept
  <2>1. templates'[d] \in TemplateType /\ Numbered(templates'[d])
    BY <1>8, <1>10 DEF TypeOK
  <2>2. /\ DOMAIN templates'[d].versions = 1..Len(templates'[d].versions)
        /\ DOMAIN templates'[d].change_history = 1..Len(templates'[d].versions)
    BY <2>1 DEF TemplateType, Numbered
  <2> QED
    BY <1>11, <2>2
<1> QED
  BY <1>8, <1>9, <1>10, <1>12, <1>13 DEF Inv, StoreInv

(* The versions of an untouched store are kept.                            *)
LEMMA UntouchedKept ==
    ASSUME Inv, UNCHANGED templates
    PROVE  VersionsKept
<1> SUFFICES ASSUME NEW d \in TemplateIds, NEW i \in 1..Len(templates[d].versions)
             PROVE  i \in DOMAIN templates[d].versions /\ i \in DOMAIN templates[d].change_history
  BY DEF VersionsKept
<1>1. templates[d] \in TemplateType /\ Numbered(templates[d])
  BY DEF Inv, StoreInv, TypeOK
<1> QED
  BY <1>1 DEF TemplateType, Numbered

(* A usable template has a name and a current version, its last one.       *)
LEMMA UsableTemplate ==
    ASSUME Inv, NEW id \in TemplateIds, Usable(id)
    PROVE  LET t == templates[id] IN
           /\ t.current_version = Len(t.versions) /\ t.name \in Names
           /\ Len(t.versions) \in Nat \ {0} /\ t.current_version \in 1..Len(t.versions)
<1>1. templates[id] \in TemplateType /\ Numbered(templates[id]) /\ Known(templates[id])
  BY DEF Inv, StoreInv, TypeOK, Usable
<1> QED
  BY <1>1 DEF TemplateType, Numbered, Known

(* Exactly the pinned version is resolved, as it was promised.             *)
LEMMA ResolvedAsPromised ==
    ASSUME Inv, NEW j \in Jobs, job[j] = "created"
    PROVE  Resolved(j) = {promise[j]}
<1> DEFINE t == templates[pin[j].template_id]
           v == pin[j].template_version
<1>1. Held(j) /\ t \in TemplateType /\ Numbered(t)
  BY DEF Inv, StoreInv, TypeOK, JobInv, PinType
<1>2. v \in 1..Len(t.versions) /\ promise[j] = Definitions(t, v, pin[j].name)
  BY <1>1 DEF Held
<1>3. DOMAIN t.versions = 1..Len(t.versions) /\ Len(t.versions) \in Nat
  BY <1>1 DEF TemplateType
<1>4. Candidates(t, v) = {v}
  BY <1>1, <1>2, <1>3 DEF Candidates, Numbered
<1>5. {c \in Candidates(t, v) : \A d \in Candidates(t, v) : c <= d} = {v}
  BY <1>2, <1>3, <1>4
<1> QED
  BY <1>2, <1>5 DEF Resolved

LEMMA CreateJobStep ==
    ASSUME Inv, NEW j \in Jobs, NEW id \in TemplateIds, CreateJob(j, id)
    PROVE  Inv'
<1> DEFINE s == [template_id |-> id, template_version |-> templates[id].current_version,
                 name |-> templates[id].name]
<1>1. /\ templates[id].current_version = Len(templates[id].versions)
      /\ templates[id].name \in Names /\ Len(templates[id].versions) \in Nat \ {0}
      /\ templates[id].current_version \in 1..Len(templates[id].versions)
  BY UsableTemplate DEF CreateJob
<1>2. s \in PinType
  BY <1>1 DEF PinType
<1>3. /\ job' = [job EXCEPT ![j] = "created"] /\ pin' = [pin EXCEPT ![j] = s]
      /\ promise' = [promise EXCEPT ![j] = Current(id)]
      /\ UNCHANGED <<templates, accepted, used, restarts>>
  BY DEF CreateJob
<1>4. /\ job \in [Jobs -> {"none", "created", "converted", "abandoned"}]
      /\ pin \in [Jobs -> PinType \cup {None}] /\ DOMAIN promise = Jobs
  BY DEF Inv, StoreInv, TypeOK, JobInv
<1>5. TypeOK'
  BY <1>2, <1>3 DEF Inv, StoreInv, TypeOK
<1>6. StoreInv'
  BY <1>3, <1>5 DEF Inv, StoreInv
<1>7. Held(j)'
  <2>1. pin'[j] = s /\ promise'[j] = Current(id)
    BY <1>3, <1>4
  <2> QED
    BY <1>1, <1>3, <2>1 DEF Held, Current
<1>8. ASSUME NEW k \in Jobs, k # j
      PROVE  /\ job'[k] = "created" => Held(k)'
             /\ job'[k] = "converted" => used'[k] = promise'[k]
  <2>1. job'[k] = job[k] /\ pin'[k] = pin[k] /\ promise'[k] = promise[k] /\ used'[k] = used[k]
    BY <1>3, <1>4, <1>8
  <2> QED
    BY <1>3, <2>1 DEF Inv, JobInv, Held
<1>9. JobInv'
  BY <1>3, <1>4, <1>7, <1>8 DEF Inv, JobInv
<1> QED
  BY <1>6, <1>9 DEF Inv

LEMMA ConvertSteps ==
    ASSUME Inv, NEW j \in Jobs, ConvertJob(j) \/ \E id \in TemplateIds : DirectConvert(j, id)
    PROVE  Inv'
<1>1. /\ job' = [job EXCEPT ![j] = "converted"]
      /\ UNCHANGED <<templates, accepted, pin, restarts>>
      /\ job \in [Jobs -> {"none", "created", "converted", "abandoned"}]
      /\ DOMAIN promise = Jobs /\ DOMAIN used = Jobs
  BY DEF ConvertJob, DirectConvert, Inv, StoreInv, TypeOK, JobInv
<1>2. /\ DOMAIN used' = Jobs /\ DOMAIN promise' = Jobs /\ used'[j] = promise'[j]
      /\ \A k \in Jobs : k # j => used'[k] = used[k] /\ promise'[k] = promise[k]
  <2>1. CASE ConvertJob(j)
    <3>1. \E d \in {promise[j]} : used' = [used EXCEPT ![j] = d]
      BY <2>1, ResolvedAsPromised DEF ConvertJob
    <3> QED
      BY <1>1, <2>1, <3>1 DEF ConvertJob
  <2>2. CASE \E id \in TemplateIds : DirectConvert(j, id)
    BY <1>1, <2>2 DEF DirectConvert
  <2> QED
    BY <2>1, <2>2
<1>3. StoreInv'
  BY <1>1 DEF Inv, StoreInv, TypeOK
<1>4. ASSUME NEW k \in Jobs
      PROVE  /\ job'[k] = "created" => Held(k)'
             /\ job'[k] = "converted" => used'[k] = promise'[k]
  <2>1. CASE k = j
    BY <1>1, <1>2, <2>1
  <2>2. CASE k # j
    BY <1>1, <1>2, <2>2 DEF Inv, JobInv, Held
  <2> QED
    BY <2>1, <2>2
<1> QED
  BY <1>2, <1>3, <1>4 DEF Inv, JobInv

LEMMA RestartStep ==
    ASSUME Inv, Restart
    PROVE  Inv' /\ VersionsKept
<1>1. restarts' = restarts + 1 /\ restarts \in 0..MaxRestarts /\ restarts < MaxRestarts
  BY DEF Restart, Inv, StoreInv, TypeOK
<1>2. TypeOK'
  BY <1>1, SeededStore, ConstantsAssumption DEF Restart, Inv, StoreInv, TypeOK
<1>3. StoreInv'
  BY <1>2, SeededStore DEF Restart, StoreInv
<1>4. JobInv'
  BY DEF Restart, Inv, StoreInv, TypeOK, JobInv
<1>5. VersionsKept
  BY <1>1 DEF VersionsKept
<1> QED
  BY <1>3, <1>4, <1>5 DEF Inv

(* The inductive invariant, and what a step keeps.                         *)
LEMMA StepInv == Inv /\ [Next]_vars => Inv' /\ (VersionsKept \/ UNCHANGED vars)
<1> SUFFICES ASSUME Inv, [Next]_vars PROVE Inv' /\ (VersionsKept \/ UNCHANGED vars)
  OBVIOUS
<1>1. CASE \E id \in TemplateIds, r \in Requests, p \in Principals : Register(id, r, p)
  BY <1>1, RegisterStep
<1>2. CASE \E j \in Jobs, id \in TemplateIds : CreateJob(j, id)
  <2>1. UNCHANGED templates
    BY <1>2 DEF CreateJob
  <2> QED
    BY <1>2, <2>1, CreateJobStep, UntouchedKept
<1>3. CASE \E j \in Jobs : ConvertJob(j) \/ \E id \in TemplateIds : DirectConvert(j, id)
  <2>1. UNCHANGED templates
    BY <1>3 DEF ConvertJob, DirectConvert
  <2> QED
    BY <1>3, <2>1, ConvertSteps, UntouchedKept
<1>4. CASE Restart
  BY <1>4, RestartStep
<1>5. CASE UNCHANGED vars
  BY <1>5 DEF vars, Inv, StoreInv, TypeOK, JobInv, Held
<1> QED
  BY <1>1, <1>2, <1>3, <1>4, <1>5 DEF Next

(* Every reachable state satisfies the inductive invariant.                *)
THEOREM TemplateInvariant == Spec => []Inv
  BY InitInv, StepInv, PTL DEF Spec

(* Records, versions, events and pins stay well typed.                     *)
THEOREM TemplateTypeCorrect == Spec => []TypeOK
<1>1. Inv => TypeOK
  BY DEF Inv, StoreInv
<1> QED
  BY <1>1, TemplateInvariant, PTL

(* The change history explains every version and every status change.      *)
THEOREM HistoryIsExact == Spec => []HistoryExplainsStatus
<1>1. Inv => HistoryExplainsStatus
  BY DEF Inv, StoreInv, Numbered, Explained, ExplainedAt, HistoryExplainsStatus
<1> QED
  BY <1>1, TemplateInvariant, PTL

(* With authentication changes carry the identity of the caller.           *)
THEOREM ChangesAreAttributed == Spec => []ChangesAttributed
<1>1. Inv => ChangesAttributed
  BY DEF Inv, StoreInv, Numbered, Attributed, ChangesAttributed
<1> QED
  BY <1>1, TemplateInvariant, PTL

(* Jobs convert with the definitions current at their creation.            *)
THEOREM PinsAreHonoured == Spec => []PinnedDefinitionsUsed
<1>1. Inv => PinnedDefinitionsUsed
  BY ResolvedAsPromised DEF PinnedDefinitionsUsed, Inv, JobInv
<1> QED
  BY <1>1, TemplateInvariant, PTL

(* No step of a running process rewrites or drops a recorded version.      *)
THEOREM VersionsAreImmutable == Spec => VersionsImmutable
<1>1. Inv /\ [Next]_vars => [VersionsKept]_vars
  BY StepInv
<1> QED
  BY <1>1, TemplateInvariant, PTL DEF Spec, VersionsImmutable

-----------------------------------------------------------------------------
(***************************************************************************)
(* Updates lose nothing.  LastGiven picks the greatest position of a set;  *)
(* that there is one comes with the invariant, which names it for every    *)
(* version: k, or 0 for an attribute that nobody gave yet.                 *)
(***************************************************************************)
Latest(log, a, i, k) ==
    /\ k > 0 => log[k].request[a] # None
    /\ \A m \in 1..i : log[m].request[a] # None => m <= k
GivenBy(log, a, i, default, v) ==
    \E k \in 0..i : Latest(log, a, i, k) /\ v = IF k = 0 THEN default ELSE log[k].request[a]

Faithful(t, log) ==
    /\ Len(log) = Len(t.versions)
    /\ ~Known(t) => t.status = "active"
    /\ \A i \in 1..Len(t.versions) :
        /\ t.versions[i].fields = log[i].request.fields
        /\ GivenBy(log, "mapping", i, None, t.versions[i].mapping)
        /\ GivenBy(log, "status", i, "active", t.versions[i].status)

LogSeq == Seq([request : RequestType, caller : Actors])

LEMMA GivenKept ==
    ASSUME NEW log \in LogSeq, NEW log2 \in LogSeq, NEW a, NEW d, NEW v, NEW i \in Nat,
           \A m \in 1..i : log2[m] = log[m], GivenBy(log, a, i, d, v)
    PROVE  GivenBy(log2, a, i, d, v)
<1>1. PICK k \in 0..i : Latest(log, a, i, k) /\ v = IF k = 0 THEN d ELSE log[k].request[a]
  BY DEF GivenBy
<1>2. k > 0 => log2[k] = log[k]
  OBVIOUS
<1> QED
  BY <1>1, <1>2 DEF GivenBy, Latest

(* What a registration leaves out stays the one given last.                *)
LEMMA GivenOmitted ==
    ASSUME NEW log \in LogSeq, NEW a, NEW d, NEW v, NEW i \in Nat,
           log[i + 1].request[a] = None, GivenBy(log, a, i, d, v)
    PROVE  GivenBy(log, a, i + 1, d, v)
<1>1. PICK k \in 0..i : Latest(log, a, i, k) /\ v = IF k = 0 THEN d ELSE log[k].request[a]
  BY DEF GivenBy
<1>2. k \in 0..(i + 1) /\ \A m \in 1..(i + 1) : m \in 1..i \/ m = i + 1
  OBVIOUS
<1> QED
  BY <1>1, <1>2 DEF GivenBy, Latest

LEMMA GivenNow ==
    ASSUME NEW log \in LogSeq, NEW a, NEW d, NEW i \in Nat, log[i + 1].request[a] # None
    PROVE  GivenBy(log, a, i + 1, d, log[i + 1].request[a])
<1>1. i + 1 \in 0..(i + 1) /\ i + 1 # 0 /\ Latest(log, a, i + 1, i + 1)
  BY DEF Latest
<1> QED
  BY <1>1 DEF GivenBy

LEMMA GivenNever ==
    ASSUME NEW log \in LogSeq, NEW a, NEW d
    PROVE  GivenBy(log, a, 0, d, d)
<1>1. 0 \in 0..0 /\ Latest(log, a, 0, 0)
  BY DEF Latest
<1> QED
  BY <1>1 DEF GivenBy

(* The greatest position, once there is one, is what CHOOSE takes.         *)
LEMMA LastGivenIs ==
    ASSUME NEW log, NEW a, NEW i \in Nat, NEW k \in 0..i, Latest(log, a, i, k)
    PROVE  LET S == {m \in 1..i : log[m].request[a] # None}
           IN (IF S = {} THEN 0 ELSE CHOOSE x \in S : \A m \in S : m <= x) = k
<1> DEFINE S == {m \in 1..i : log[m].request[a] # None}
<1>1. CASE k = 0
  <2>1. S = {}
    BY <1>1 DEF Latest
  <2> QED
    BY <1>1, <2>1
<1>2. CASE k # 0
  <2>1. k \in S /\ \A m \in S : m <= k
    BY <1>2 DEF Latest
  <2>2. \A x \in S : (\A m \in S : m <= x) => x = k
    BY <2>1
  <2>3. (CHOOSE x \in S : \A m \in S : m <= x) = k
    BY <2>1, <2>2
  <2> QED
    BY <2>1, <2>3
<1> QED
  BY <1>1, <1>2

(* Authentication changes neither what is registered nor what is left out. *)
LEMMA TrustedKeeps ==
    ASSUME NEW r \in RequestType, NEW p
    PROVE  /\ Trusted(r, p).fields = r.fields
           /\ Trusted(r, p).mapping = r.mapping
           /\ Trusted(r, p).status = r.status
  BY DEF Trusted, RequestType

(* A registration keeps the record faithful to the log it extends.         *)
LEMMA RegisteredFaithful ==
    ASSUME NEW t \in TemplateType, Numbered(t), Explained(t), NEW log \in LogSeq, Faithful(t, log),
           NEW r \in RequestType, r.actor \in Actors, r.approved_by \in Principals \cup {None},
           NEW q \in RequestType, NEW p \in Actors,
           r.fields = q.fields, r.mapping = q.mapping, r.status = q.status
    PROVE  Faithful(Registered(t, r), Append(log, [request |-> q, caller |-> p]))
<1> DEFINE u == Registered(t, r)
           n == Len(t.versions)
           e == [request |-> q, caller |-> p]
           log2 == Append(log, e)
           v == NewVersion(t, r)
<1>1. n \in Nat /\ t.versions \in Seq(VersionType) /\ Len(log) = n
  BY DEF TemplateType, Faithful
<1>2. /\ log2 \in LogSeq /\ Len(log2) = n + 1 /\ log2[n + 1] = e
      /\ \A i \in 1..n : log2[i] = log[i]
  BY <1>1, AppendKeeps DEF LogSeq
<1>3. /\ Len(u.versions) = n + 1 /\ u.versions # <<>> /\ u.versions[n + 1] = v
      /\ \A i \in 1..n : u.versions[i] = t.versions[i]
  <2>1. v \in VersionType /\ u.versions = Append(t.versions, v)
    BY NewVersionType DEF Registered
  <2> QED
    BY <1>1, <2>1, AppendKeeps
<1>4. v.fields = q.fields /\ v.mapping = Inherited(t, r) /\ v.status = NewStatus(t, r)
  BY DEF NewVersion
<1>5. Known(t) <=> n # 0
  BY <1>1 DEF Known
<1> HIDE DEF u, log2, v
<1>6. GivenBy(log2, "mapping", n + 1, None, v.mapping)
  <2>1. CASE q.mapping # None
    <3>1. log2[n + 1].request["mapping"] # None /\ v.mapping = log2[n + 1].request["mapping"]
      BY <1>2, <1>4, <2>1 DEF Inherited
    <3> QED
      BY <1>1, <1>2, <3>1, GivenNow
  <2>2. CASE q.mapping = None
    <3>1. log2[n + 1].request["mapping"] = None
      BY <1>2, <2>2
    <3>2. CASE n = 0
      <4>1. v.mapping = None /\ GivenBy(log2, "mapping", 0, None, None)
        BY <1>2, <1>4, <1>5, <2>2, <3>2, GivenNever DEF Inherited
      <4> QED
        BY <1>1, <1>2, <3>1, <3>2, <4>1, GivenOmitted
    <3>3. CASE n # 0
      <4>1. v.mapping = t.versions[n].mapping /\ n \in 1..n
        BY <1>1, <1>4, <1>5, <2>2, <3>3 DEF Inherited
      <4>2. GivenBy(log, "mapping", n, None, v.mapping)
        BY <4>1 DEF Faithful
      <4> QED
        BY <1>1, <1>2, <3>1, <4>2, GivenKept, GivenOmitted
    <3> QED
      BY <3>2, <3>3
  <2> QED
    BY <2>1, <2>2
<1>7. GivenBy(log2, "status", n + 1, "active", v.status)
  <2>1. CASE q.status # None
    <3>1. log2[n + 1].request["status"] # None /\ v.status = log2[n + 1].request["status"]
      BY <1>2, <1>4, <2>1 DEF NewStatus
    <3> QED
      BY <1>1, <1>2, <3>1, GivenNow
  <2>2. CASE q.status = None
    <3>1. log2[n + 1].request["status"] = None /\ v.status = t.status
      BY <1>2, <1>4, <2>2 DEF NewStatus
    <3>2. CASE n = 0
      <4>1. v.status = "active"
        BY <1>5, <3>1, <3>2 DEF Faithful
      <4> QED
        BY <1>1, <1>2, <3>1, <3>2, <4>1, GivenNever, GivenOmitted
    <3>3. CASE n # 0
      <4>1. v.status = t.versions[n].status /\ n \in 1..n
        BY <1>1, <1>5, <3>1, <3>3 DEF Explained, Numbered
      <4>2. GivenBy(log, "status", n, "active", v.status)
        BY <4>1 DEF Faithful
      <4> QED
        BY <1>1, <1>2, <3>1, <4>2, GivenKept, GivenOmitted
    <3> QED
      BY <3>2, <3>3
  <2> QED
    BY <2>1, <2>2
<1>8. ASSUME NEW i \in 1..n
      PROVE  /\ u.versions[i].fields = log2[i].request.fields
             /\ GivenBy(log2, "mapping", i, None, u.versions[i].mapping)
             /\ GivenBy(log2, "status", i, "active", u.versions[i].status)
  <2>1. i \in Nat /\ (\A m \in 1..i : log2[m] = log[m]) /\ u.versions[i] = t.versions[i]
    BY <1>1, <1>2, <1>3
  <2>2. /\ t.versions[i].fields = log[i].request.fields
        /\ GivenBy(log, "mapping", i, None, t.versions[i].mapping)
        /\ GivenBy(log, "status", i, "active", t.versions[i].status)
    BY DEF Faithful
  <2> QED
    BY <1>2, <2>1, <2>2, GivenKept
<1>9. \A i \in 1..(n + 1) : i \in 1..n \/ i = n + 1
  BY <1>1
<1> QED
  BY <1>2, <1>3, <1>4, <1>6, <1>7, <1>8, <1>9 DEF Faithful, Known, u, log2

AllFaithful == \A id \in TemplateIds : Faithful(templates[id], accepted[id])

LEMMA SeededFaithful == \A id \in TemplateIds : Faithful(Seeded[id], SeedLog[id])
<1> SUFFICES ASSUME NEW id \in TemplateIds PROVE Faithful(Seeded[id], SeedLog[id])
  OBVIOUS
<1>1. Faithful(Absent, <<>>) /\ <<>> \in LogSeq
  BY DEF Faithful, Absent, LogSeq
<1>2. CASE id \notin DOMAIN Seed
  BY <1>1, <1>2 DEF Seeded, SeedLog
<1>3. CASE id \in DOMAIN Seed
  <2>1. /\ Seed[id] \in RequestType /\ Seed[id].actor = SeedActor /\ SeedActor \in Actors
        /\ Seed[id].approved_by = None
    BY <1>3, RequestsAssumption DEF Actors
  <2>2. Faithful(Registered(Absent, Seed[id]),
                 Append(<<>>, [request |-> Seed[id], caller |-> SeedActor]))
    BY <1>1, <2>1, AbsentRecord, RegisteredFaithful
  <2>3. SeedLog[id] = Append(<<>>, [request |-> Seed[id], caller |-> SeedActor])
    BY <1>3 DEF SeedLog
  <2> QED
    BY <1>3, <2>2, <2>3 DEF Seeded
<1> QED
  BY <1>2, <1>3

LEMMA FaithfulStep == Inv /\ AllFaithful /\ [Next]_vars => AllFaithful'
<1> SUFFICES ASSUME Inv, AllFaithful, [Next]_vars PROVE AllFaithful'
  OBVIOUS
<1>1. ASSUME NEW id \in TemplateIds, NEW r \in Requests, NEW p \in Principals, Register(id, r, p)
      PROVE  AllFaithful'
  <2> DEFINE q == Trusted(r, p)
             t == templates[id]
             e == [request |-> r, caller |-> p]
  <2>1. /\ r \in RequestType /\ p \in Actors /\ t \in TemplateType
        /\ accepted[id] \in LogSeq /\ Numbered(t) /\ Explained(t) /\ Faithful(t, accepted[id])
    BY RequestsAssumption DEF Inv, StoreInv, TypeOK, LogType, LogSeq, Actors, AllFaithful
  <2>2. q \in RequestType /\ q.actor \in Actors /\ q.approved_by \in Principals \cup {None}
    BY <1>1, <2>1, TrustedRequest DEF Register
  <2>3. q.fields = r.fields /\ q.mapping = r.mapping /\ q.status = r.status
    BY <2>1, TrustedKeeps
  <2>4. /\ templates' = [templates EXCEPT ![id] = Registered(t, q)]
        /\ accepted' = [accepted EXCEPT ![id] = Append(accepted[id], e)]
    BY <1>1 DEF Register
  <2> HIDE DEF q, t
  <2>5. Faithful(Registered(t, q), Append(accepted[id], e))
    BY <2>1, <2>2, <2>3, RegisteredFaithful
  <2>6. templates \in [TemplateIds -> TemplateType] /\ DOMAIN accepted = TemplateIds
    BY DEF Inv, StoreInv, TypeOK, LogType
  <2>7. ASSUME NEW d \in TemplateIds PROVE Faithful(templates'[d], accepted'[d])
    <3>1. CASE d = id
      BY <2>4, <2>5, <2>6, <3>1
    <3>2. CASE d # id
      BY <2>4, <2>6, <3>2 DEF AllFaithful
    <3> QED
      BY <3>1, <3>2
  <2> QED
    BY <2>7 DEF AllFaithful
<1>2. CASE UNCHANGED <<templates, accepted>>
  BY <1>2 DEF AllFaithful
<1>3. CASE Restart
  BY <1>3, SeededFaithful DEF Restart, AllFaithful
<1> QED
  BY <1>1, <1>2, <1>3 DEF Next, CreateJob, ConvertJob, DirectConvert, vars

(***************************************************************************)
(* What an update leaves out is what was given last: register_template     *)
(* reads the omitted attributes from the latest version and the omitted    *)
(* status from the record, through any number of updates and templates.    *)
(***************************************************************************)
THEOREM UpdatesKeepWhatWasGiven == Spec => []UpdatesLoseNothing
<1>1. Init => AllFaithful
  BY SeededFaithful DEF Init, AllFaithful
<1>2. Inv /\ AllFaithful => UpdatesLoseNothing
  <2> SUFFICES ASSUME Inv, AllFaithful, NEW id \in TemplateIds
               PROVE  LET log == accepted[id]
                          t == templates[id]
                          HasMapping(r) == r.mapping # None
                          HasStatus(r) == r.status # None
                      IN /\ Len(log) = t.current_version
                         /\ \A i \in 1..t.current_version :
                              LET m == LastGiven(log, i, HasMapping)
                                  s == LastGiven(log, i, HasStatus)
                              IN /\ t.versions[i].fields = log[i].request.fields
                                 /\ t.versions[i].mapping = IF m = 0 THEN None ELSE log[m].request.mapping
                                 /\ t.versions[i].status = IF s = 0 THEN "active" ELSE log[s].request.status
    BY DEF UpdatesLoseNothing
  <2> DEFINE log == accepted[id]
             t == templates[id]
             HasMapping(r) == r.mapping # None
             HasStatus(r) == r.status # None
  <2>1. Faithful(t, log) /\ Numbered(t) /\ t \in TemplateType
    BY DEF AllFaithful, Inv, StoreInv, TypeOK
  <2>2. t.current_version = Len(t.versions) /\ Len(t.versions) \in Nat /\ Len(log) = Len(t.versions)
    BY <2>1 DEF Faithful, Numbered, TemplateType
  <2>3. ASSUME NEW i \in 1..t.current_version
        PROVE  LET m == LastGiven(log, i, HasMapping)
                   s == LastGiven(log, i, HasStatus)
               IN /\ t.versions[i].fields = log[i].request.fields
                  /\ t.versions[i].mapping = IF m = 0 THEN None ELSE log[m].request.mapping
                  /\ t.versions[i].status = IF s = 0 THEN "active" ELSE log[s].request.status
    <3>1. /\ t.versions[i].fields = log[i].request.fields
          /\ GivenBy(log, "mapping", i, None, t.versions[i].mapping)
          /\ GivenBy(log, "status", i, "active", t.versions[i].status)
          /\ i \in Nat
      BY <2>1, <2>2 DEF Faithful
    <3>2. PICK k \in 0..i : /\ Latest(log, "mapping", i, k)
                            /\ t.versions[i].mapping = IF k = 0 THEN None ELSE log[k].request["mapping"]
      BY <3>1 DEF GivenBy
    <3>3. PICK l \in 0..i : /\ Latest(log, "status", i, l)
                            /\ t.versions[i].status = IF l = 0 THEN "active" ELSE log[l].request["status"]
      BY <3>1 DEF GivenBy
    <3>4. LastGiven(log, i, HasMapping) = k
      BY <3>1, <3>2, LastGivenIs DEF LastGiven
    <3>5. LastGiven(log, i, HasStatus) = l
      BY <3>1, <3>3, LastGivenIs DEF LastGiven
    <3> QED
      BY <3>1, <3>2, <3>3, <3>4, <3>5
  <2> QED
    BY <2>2, <2>3
<1> QED
  BY <1>1, <1>2, FaithfulStep, TemplateInvariant, PTL DEF Spec
============================================================================
