------------------------- MODULE TunnelStateProofs -------------------------
(***************************************************************************)
(* For any processes, tunnels and weathers of a kind: no tunnel is left at *)
(* Cloudflare in silence, and a tunnel that is listed as online has its    *)
(* own connector.  The first holds where a failing runtime comes without   *)
(* failures between the creation of a tunnel and its record, and without   *)
(* overlap: a start that fails at the runtime drops the warnings it has    *)
(* collected.  The second needs also that commands overlap only while the  *)
(* provider and the files do not fail between creation and record.         *)
(***************************************************************************)
EXTENDS TunnelState, TLAPS

FaultsApart ==
    \A w \in Weathers : "runtime" \in w => {"configure", "token", "overlap"} \cap w = {}

Provisioning == {"open", "start"}
Created == {"configure", "keep", "persist"}
Decided == {"up", "rollback", "record"}
Deleted == {"clean", "record", "forget"}

(* Which steps a command takes. *)
StepInv == \A p \in Procs :
    /\ job[p].op = "idle" => job[p] = NoJob
    /\ job[p].op \in Provisioning =>
           job[p].step \in {"find", "create"} \cup Created \cup Decided
    /\ job[p].op \in Removals => job[p].step \in {"delete"} \cup Deleted
    /\ job[p].step = "rollback" => "runtime" \in faults

(* A removal is alone, and so is every command without overlap. *)
AloneInv == \A p, q \in Procs :
    /\ job[p].op # "idle"
    /\ job[q].op # "idle"
    /\ "overlap" \notin faults \/ job[p].op \in Removals
    => p = q

(* Cloudflare has one tunnel of the name, at most. *)
OneInv == \A t, u \in live : t = u

(* What a command that provisions holds is there, or it has failed. *)
Held(p) ==
    job[p].op \in Provisioning =>
        /\ job[p].step \in {"find", "create"} =>
               job[p].descriptor = NoDescriptor /\ job[p].tunnel = "pending"
        /\ job[p].step = "create" /\ "overlap" \notin faults => live = {}
        /\ job[p].step \in Created =>
               job[p].descriptor.id \in live /\ job[p].tunnel = "pending"
        /\ job[p].step \in Decided =>
               \/ job[p].descriptor.id \in live /\ job[p].tunnel # "manual"
               \/ job[p].descriptor = NoDescriptor /\ job[p].tunnel = "manual"

HeldInv == \A p \in Procs : Held(p)

(* A removal removes what is recorded, and nothing untold remains. *)
RemovalInv == \A p \in Procs :
    job[p].op \in Removals =>
        /\ job[p].step = "delete" => job[p].descriptor = entry.descriptor
        /\ job[p].step \in Deleted => live \subseteq told

(* A live tunnel is recorded, or told of, or a command will do one of them.*)
Carries(p, t) ==
    /\ job[p].op \in Provisioning
    /\ \/ job[p].descriptor.id = t
       \/ job[p].tunnel = "manual" /\ "runtime" \notin faults

CoverInv == \A t \in live :
    entry.descriptor.id = t \/ t \in told \/ \E p \in Procs : Carries(p, t)

IInv ==
    /\ TypeOK /\ StepInv /\ AloneInv /\ OneInv /\ HeldInv /\ RemovalInv
    /\ CoverInv

LEMMA Apart == ASSUME FaultsApart, TypeOK, "runtime" \in faults
               PROVE  {"configure", "token", "overlap"} \cap faults = {}
BY DEF FaultsApart, TypeOK

---------------------------------------------------------------------------
(* What a step makes of the job of its process.                            *)

Steps == {"idle", "find", "create", "configure", "keep", "persist", "up",
          "rollback", "record", "delete", "clean", "forget"}

(* The others' jobs stay. *)
Only(p) == job' \in [Procs -> Jobs] /\ \A q \in Procs : q # p => job'[q] = job[q]

LEMMA NoJobFacts ==
  /\ NoJob \in Jobs
  /\ NoJob.op = "idle" /\ NoJob.step = "idle" /\ NoJob.token = NoTunnel
  /\ NoJob.descriptor = NoDescriptor /\ NoJob.tunnel = "pending"
  /\ NoDescriptor.id = NoTunnel
BY DEF NoJob, Jobs, NoDescriptor, Descriptors, MaybeTunnel

LEMMA JobFacts ==
  ASSUME NEW j \in Jobs
  PROVE  /\ j.op \in {"idle", "open", "start", "remove", "teardown"} /\ j.step \in Steps
         /\ j.token \in MaybeTunnel /\ j.tunnel \in {"pending", "active", "manual"}
         /\ j.descriptor \in Descriptors /\ j.descriptor.id \in MaybeTunnel
         /\ j.descriptor.path \in BOOLEAN
BY DEF Jobs, Steps, Descriptors, Removals

LEMMA Assigned ==
  ASSUME TypeOK, NEW p \in Procs, NEW j \in Jobs, job' = [job EXCEPT ![p] = j]
  PROVE  Only(p) /\ job'[p] = j
BY DEF TypeOK, Only

LEMMA Goes ==
  ASSUME TypeOK, NEW p \in Procs, NEW step \in Steps, Goto(p, step)
  PROVE  /\ Only(p)
         /\ job'[p].step = step /\ job'[p].op = job[p].op /\ job'[p].token = job[p].token
         /\ job'[p].descriptor = job[p].descriptor /\ job'[p].tunnel = job[p].tunnel
<1> DEFINE j == [job[p] EXCEPT !.step = step]
<1>1. /\ j \in Jobs
      /\ j.step = step /\ j.op = job[p].op /\ j.token = job[p].token
      /\ j.descriptor = job[p].descriptor /\ j.tunnel = job[p].tunnel
  BY DEF TypeOK, Jobs, Steps
<1>2. job' = [job EXCEPT ![p] = j]
  BY DEF Goto
<1> HIDE DEF j
<1> QED  BY <1>1, <1>2, Assigned

LEMMA Finishes ==
  ASSUME TypeOK, NEW p \in Procs, Finish(p)
  PROVE  Only(p) /\ job'[p] = NoJob
BY Assigned, NoJobFacts DEF Finish

LEMMA Fails ==
  ASSUME TypeOK, NEW p \in Procs, ProviderFails(p)
  PROVE  /\ Only(p)
         /\ job'[p].step \in {"up", "record"} /\ job'[p].op = job[p].op
         /\ job'[p].token = NoTunnel /\ job'[p].descriptor = NoDescriptor
         /\ job'[p].tunnel = "manual"
<1> DEFINE j == [job[p] EXCEPT !.step = Provisioned(p), !.tunnel = "manual",
                               !.descriptor = NoDescriptor, !.token = NoTunnel]
<1>1. Provisioned(p) \in {"up", "record"}
  BY DEF Provisioned
<1>2. /\ j \in Jobs
      /\ j.step = Provisioned(p) /\ j.op = job[p].op /\ j.token = NoTunnel
      /\ j.descriptor = NoDescriptor /\ j.tunnel = "manual"
  BY <1>1 DEF TypeOK, Jobs, NoDescriptor, Descriptors, MaybeTunnel
<1>3. job' = [job EXCEPT ![p] = j]
  BY DEF ProviderFails
<1> HIDE DEF j
<1> QED  BY <1>1, <1>2, <1>3, Assigned

(* A command that provisions begins. *)
LEMMA Begins ==
  ASSUME TypeOK, StepInv, NEW p \in Procs, Open(p) \/ Start(p)
  PROVE  /\ Only(p)
         /\ job[p] = NoJob
         /\ job'[p].op \in Provisioning /\ job'[p].step = "find"
         /\ job'[p].token = NoTunnel /\ job'[p].descriptor = NoDescriptor
         /\ job'[p].tunnel = "pending"
         /\ UNCHANGED <<faults, live, fresh, dns, store, env, told>>
         /\ entry' \in Entries
         /\ entry'.tunnel = entry.tunnel /\ entry'.descriptor = entry.descriptor
         /\ AllIdle \/ ("overlap" \in faults /\ \A q \in Procs : job[q].op \notin Removals)
<1>1. job[p] = NoJob
  BY DEF StepInv, Open, Start
<1>2. PICK op \in Provisioning : job' = [job EXCEPT ![p] = [@ EXCEPT !.op = op, !.step = "find"]]
  BY DEF Open, Start, Provisioning
<1> DEFINE j == [job[p] EXCEPT !.op = op, !.step = "find"]
<1>3. /\ j \in Jobs
      /\ j.op = op /\ j.step = "find" /\ j.token = NoTunnel /\ j.descriptor = NoDescriptor
      /\ j.tunnel = "pending"
  <2>1. job[p] \in Jobs
    BY <1>1, NoJobFacts
  <2>2. /\ j \in Jobs /\ j.op = op /\ j.step = "find" /\ j.token = job[p].token
        /\ j.descriptor = job[p].descriptor /\ j.tunnel = job[p].tunnel
    BY <2>1 DEF Jobs, Provisioning
  <2> HIDE DEF j
  <2> QED  BY <1>1, <2>2, NoJobFacts
<1>4. job' = [job EXCEPT ![p] = j]
  BY <1>2
<1> HIDE DEF j
<1>5. Only(p) /\ job'[p] = j
  BY <1>3, <1>4, Assigned
<1>6. /\ entry' \in Entries
      /\ entry'.tunnel = entry.tunnel /\ entry'.descriptor = entry.descriptor
  BY DEF Open, Start, TypeOK, Entries
<1>7. /\ UNCHANGED <<faults, live, fresh, dns, store, env, told>>
      /\ AllIdle \/ ("overlap" \in faults /\ \A q \in Procs : job[q].op \notin Removals)
  BY DEF Open, Start, Admitted, cloud, files
<1> QED  BY <1>1, <1>3, <1>5, <1>6, <1>7

LEMMA Finds ==
  ASSUME TypeOK, NEW p \in Procs, NEW t \in Tunnels,
         job' = [job EXCEPT ![p] = [@ EXCEPT !.step = "configure", !.descriptor.id = t]]
  PROVE  /\ Only(p)
         /\ job'[p].step = "configure" /\ job'[p].op = job[p].op
         /\ job'[p].token = job[p].token /\ job'[p].tunnel = job[p].tunnel
         /\ job'[p].descriptor.id = t
<1> DEFINE j == [job[p] EXCEPT !.step = "configure", !.descriptor.id = t]
<1>1. job[p] \in Jobs
  BY DEF TypeOK
<1>2. /\ j \in Jobs
      /\ j.step = "configure" /\ j.op = job[p].op /\ j.token = job[p].token
      /\ j.tunnel = job[p].tunnel /\ j.descriptor.id = t
  BY <1>1 DEF Jobs, Descriptors, MaybeTunnel
<1>3. job' = [job EXCEPT ![p] = j]
  OBVIOUS
<1> HIDE DEF j
<1> QED  BY <1>2, <1>3, Assigned

LEMMA Creates ==
  ASSUME TypeOK, NEW p \in Procs, NEW t \in Tunnels,
         job' = [job EXCEPT ![p] = [@ EXCEPT !.step = "configure", !.token = t,
                                             !.descriptor.id = t]]
  PROVE  /\ Only(p)
         /\ job'[p].step = "configure" /\ job'[p].op = job[p].op
         /\ job'[p].token = t /\ job'[p].tunnel = job[p].tunnel
         /\ job'[p].descriptor.id = t
<1> DEFINE j == [job[p] EXCEPT !.step = "configure", !.token = t, !.descriptor.id = t]
<1>1. job[p] \in Jobs
  BY DEF TypeOK
<1>2. /\ j \in Jobs
      /\ j.step = "configure" /\ j.op = job[p].op /\ j.token = t
      /\ j.tunnel = job[p].tunnel /\ j.descriptor.id = t
  BY <1>1 DEF Jobs, Descriptors, MaybeTunnel
<1>3. job' = [job EXCEPT ![p] = j]
  OBVIOUS
<1> HIDE DEF j
<1> QED  BY <1>2, <1>3, Assigned

LEMMA Keeps ==
  ASSUME TypeOK, NEW p \in Procs, NEW stored \in BOOLEAN,
         job' = [job EXCEPT ![p] = [@ EXCEPT !.step = "persist", !.descriptor.path = stored]]
  PROVE  /\ Only(p)
         /\ job'[p].step = "persist" /\ job'[p].op = job[p].op
         /\ job'[p].token = job[p].token /\ job'[p].tunnel = job[p].tunnel
         /\ job'[p].descriptor.id = job[p].descriptor.id
         /\ job'[p].descriptor.path = stored
<1> DEFINE j == [job[p] EXCEPT !.step = "persist", !.descriptor.path = stored]
<1>1. job[p] \in Jobs
  BY DEF TypeOK
<1>2. /\ j \in Jobs
      /\ j.step = "persist" /\ j.op = job[p].op /\ j.token = job[p].token
      /\ j.tunnel = job[p].tunnel
      /\ j.descriptor.id = job[p].descriptor.id /\ j.descriptor.path = stored
  BY <1>1 DEF Jobs, Descriptors
<1>3. job' = [job EXCEPT ![p] = j]
  OBVIOUS
<1> HIDE DEF j
<1> QED  BY <1>2, <1>3, Assigned

LEMMA Persists ==
  ASSUME TypeOK, NEW p \in Procs,
         job' = [job EXCEPT ![p] = [@ EXCEPT !.step = Provisioned(p), !.tunnel = "active"]]
  PROVE  /\ Only(p)
         /\ job'[p].step \in {"up", "record"} /\ job'[p].op = job[p].op
         /\ job'[p].token = job[p].token /\ job'[p].tunnel = "active"
         /\ job'[p].descriptor = job[p].descriptor
<1> DEFINE j == [job[p] EXCEPT !.step = Provisioned(p), !.tunnel = "active"]
<1>1. job[p] \in Jobs /\ Provisioned(p) \in {"up", "record"}
  BY DEF TypeOK, Provisioned
<1>2. /\ j \in Jobs
      /\ j.step = Provisioned(p) /\ j.op = job[p].op /\ j.token = job[p].token
      /\ j.tunnel = "active" /\ j.descriptor = job[p].descriptor
  BY <1>1 DEF Jobs
<1>3. job' = [job EXCEPT ![p] = j]
  OBVIOUS
<1> HIDE DEF j
<1> QED  BY <1>1, <1>2, <1>3, Assigned

LEMMA Removes ==
  ASSUME TypeOK, StepInv, NEW p \in Procs, NEW op \in Removals, NEW force \in BOOLEAN,
         Remove(p, op, force)
  PROVE  /\ Only(p) /\ AllIdle
         /\ job'[p].op = op /\ job'[p].token = NoTunnel
         /\ job'[p].descriptor = entry.descriptor
         /\ \/ job'[p].step = "forget" /\ entry.tunnel = "none"
            \/ job'[p].step = "delete"
<1> DEFINE step == IF entry.tunnel = "none" THEN "forget" ELSE "delete"
           j    == [job[p] EXCEPT !.op = op, !.force = force, !.descriptor = entry.descriptor,
                                  !.step = step]
<1>1. job[p] \in Jobs /\ job[p].token = NoTunnel
  BY NoJobFacts DEF TypeOK, StepInv, Remove
<1>2. entry.descriptor \in Descriptors
  BY DEF TypeOK, Entries
<1>3. /\ j \in Jobs
      /\ j.step = step /\ j.op = op /\ j.token = NoTunnel /\ j.descriptor = entry.descriptor
  BY <1>1, <1>2 DEF Jobs, Removals
<1>4. job' = [job EXCEPT ![p] = j]
  BY DEF Remove
<1> HIDE DEF j
<1>5. Only(p) /\ job'[p] = j
  BY <1>3, <1>4, Assigned
<1> QED  BY <1>3, <1>5 DEF Remove, Admitted

---------------------------------------------------------------------------
(* The silent leak, step by step.                                          *)

LEMMA HeldFrame ==
  ASSUME NEW p \in Procs, Held(p), job'[p] = job[p], UNCHANGED <<faults, live>>
  PROVE  Held(p)'
BY DEF Held

LEMMA CarriesFrame ==
  ASSUME NEW p \in Procs, NEW t, Carries(p, t), job'[p] = job[p], UNCHANGED faults
  PROVE  Carries(p, t)'
BY DEF Carries

(* No removal is under way beside a command that provisions.               *)
LEMMA NoRemoval ==
  ASSUME TypeOK, AloneInv, NEW p \in Procs, job[p].op \in Provisioning, NEW q \in Procs
  PROVE  job[q].op \notin Removals
BY DEF AloneInv, Provisioning, Removals

(* A step of a command that provisions, which leaves Cloudflare and the    *)
(* entry alone.                                                            *)
LEMMA Provisions ==
  ASSUME IInv, NEW p \in Procs, Only(p), TypeOK', UNCHANGED <<faults, live, entry, told>>,
         job[p].op \in Provisioning, job'[p].op = job[p].op,
         job'[p].step \in {"find", "create"} \cup Created \cup Decided,
         job'[p].step = "rollback" => "runtime" \in faults,
         Held(p)',
         \A t \in live : Carries(p, t) => Carries(p, t)'
  PROVE  IInv'
<1>1. \A q \in Procs : q # p => job'[q] = job[q]
  BY DEF Only
<1>2. job[p].op \notin Removals /\ job[p].op # "idle"
  BY DEF Provisioning, Removals
<1>3. StepInv'
  <2> SUFFICES ASSUME NEW q \in Procs, q = p
               PROVE  /\ job'[q].op = "idle" => job'[q] = NoJob
                      /\ job'[q].op \in Provisioning =>
                             job'[q].step \in {"find", "create"} \cup Created \cup Decided
                      /\ job'[q].op \in Removals => job'[q].step \in {"delete"} \cup Deleted
                      /\ job'[q].step = "rollback" => "runtime" \in faults
    BY <1>1 DEF IInv, StepInv
  <2> QED  BY <1>2
<1>4. AloneInv' /\ OneInv'
  BY <1>1 DEF IInv, AloneInv, OneInv
<1>5. HeldInv'
  BY <1>1, HeldFrame DEF IInv, HeldInv
<1>6. RemovalInv'
  BY <1>1, <1>2 DEF IInv, RemovalInv
<1>7. CoverInv'
  <2> SUFFICES ASSUME NEW t \in live, entry.descriptor.id # t, t \notin told
               PROVE  \E q \in Procs : Carries(q, t)'
    BY DEF CoverInv
  <2>1. PICK q \in Procs : Carries(q, t)
    BY DEF IInv, CoverInv
  <2> QED  BY <1>1, <2>1, CarriesFrame
<1> QED  BY <1>3, <1>4, <1>5, <1>6, <1>7 DEF IInv

LEMMA FailsInv ==
  ASSUME IInv, NEW p \in Procs, job[p].op \in Provisioning, ProviderFails(p),
         UNCHANGED <<faults, live, fresh, entry, told>>,
         dns' \in MaybeTunnel, store' \in MaybeTunnel, env' \in MaybeTunnel,
         job[p].step = "find" \/ "runtime" \notin faults
  PROVE  IInv'
<1>1. /\ Only(p)
      /\ job'[p].step \in {"up", "record"} /\ job'[p].op = job[p].op
      /\ job'[p].descriptor = NoDescriptor /\ job'[p].tunnel = "manual"
  BY Fails DEF IInv
<1>2. TypeOK'
  BY <1>1 DEF IInv, TypeOK, Only
<1>3. Held(p)'
  BY <1>1 DEF Held, Created, Decided
<1>4. ASSUME NEW t \in live, Carries(p, t) PROVE Carries(p, t)'
  <2>1. CASE "runtime" \notin faults
    BY <1>1, <2>1 DEF Carries
  <2>2. CASE job[p].step = "find"
    <3>1. job[p].descriptor = NoDescriptor /\ job[p].tunnel = "pending"
      BY <2>2 DEF IInv, HeldInv, Held
    <3>2. t # NoTunnel
      BY TunnelStateAssumption DEF IInv, TypeOK
    <3> QED  BY <1>4, <3>1, <3>2, NoJobFacts DEF Carries
  <2> QED  BY <2>1, <2>2
<1>5. job'[p].step \in Decided /\ job'[p].step # "rollback"
  BY <1>1 DEF Decided
<1> QED  BY <1>1, <1>2, <1>3, <1>4, <1>5, Provisions

LEMMA BeginInv ==
  ASSUME FaultsApart, IInv, NEW p \in Procs, Open(p) \/ Start(p)
  PROVE  IInv'
<1>1. /\ Only(p)
      /\ job[p] = NoJob
      /\ job'[p].op \in Provisioning /\ job'[p].step = "find"
      /\ job'[p].token = NoTunnel /\ job'[p].descriptor = NoDescriptor
      /\ job'[p].tunnel = "pending"
      /\ UNCHANGED <<faults, live, fresh, dns, store, env, told>>
      /\ entry' \in Entries
      /\ entry'.tunnel = entry.tunnel /\ entry'.descriptor = entry.descriptor
      /\ AllIdle \/ ("overlap" \in faults /\ \A q \in Procs : job[q].op \notin Removals)
  BY Begins DEF IInv
<1>2. \A q \in Procs : q # p => job'[q] = job[q]
  BY <1>1 DEF Only
<1>3. job'[p].op \notin Removals /\ job'[p].op # "idle"
  BY <1>1 DEF Provisioning, Removals
<1>4. TypeOK'
  BY <1>1 DEF IInv, TypeOK, Only
<1>5. StepInv'
  BY <1>1, <1>2, <1>3 DEF IInv, StepInv
<1>6. AloneInv' /\ OneInv'
  BY <1>1, <1>2, <1>3 DEF IInv, AloneInv, OneInv, AllIdle
<1>7. Held(p)'
  BY <1>1 DEF Held, Created, Decided
<1>8. HeldInv'
  BY <1>1, <1>2, <1>7, HeldFrame DEF IInv, HeldInv
<1>9. RemovalInv'
  BY <1>1, <1>2, <1>3 DEF IInv, RemovalInv
<1>10. CoverInv'
  <2> SUFFICES ASSUME NEW t \in live, entry.descriptor.id # t, t \notin told
               PROVE  \E q \in Procs : Carries(q, t)'
    BY <1>1 DEF CoverInv
  <2>1. PICK q \in Procs : Carries(q, t)
    BY DEF IInv, CoverInv
  <2>2. q # p
    BY <1>1, <2>1, NoJobFacts DEF Carries, Provisioning
  <2> QED  BY <1>1, <1>2, <2>1, <2>2, CarriesFrame
<1> QED  BY <1>4, <1>5, <1>6, <1>8, <1>9, <1>10 DEF IInv

(* The steps of find, create, configure, keep and persist are those of     *)
(* commands that provision.                                                *)
LEMMA ProvisionSteps ==
  ASSUME IInv, NEW p \in Procs, job[p].step \in {"find", "create", "up", "rollback"} \cup Created
  PROVE  job[p].op \in Provisioning
<1>1. job[p] \in Jobs
  BY DEF IInv, TypeOK
<1> QED  BY <1>1, JobFacts, NoJobFacts
         DEF IInv, StepInv, Provisioning, Removals, Created, Decided, Deleted

LEMMA FindInv ==
  ASSUME FaultsApart, IInv, NEW p \in Procs, Find(p)
  PROVE  IInv'
<1>1. /\ job[p].op \in Provisioning /\ job[p].step = "find"
      /\ UNCHANGED <<faults, live, fresh, dns, store, env, entry, told>>
  BY ProvisionSteps DEF Find, cloud, files
<1>2. job[p].descriptor = NoDescriptor /\ job[p].tunnel = "pending"
  BY <1>1 DEF IInv, HeldInv, Held
<1>3. \A t \in live : ~ Carries(p, t)
  BY <1>2, NoJobFacts, TunnelStateAssumption DEF IInv, TypeOK, Carries
<1>4. CASE live = {} /\ Goto(p, "create")
  <2>1. /\ Only(p) /\ job'[p].step = "create" /\ job'[p].op = job[p].op
        /\ job'[p].descriptor = NoDescriptor /\ job'[p].tunnel = "pending"
    BY <1>2, <1>4, Goes DEF IInv, Steps
  <2>2. TypeOK'
    BY <1>1, <2>1 DEF IInv, TypeOK, Only
  <2>3. Held(p)'
    BY <1>1, <1>4, <2>1 DEF Held, Created, Decided
  <2> QED  BY <1>1, <1>3, <2>1, <2>2, <2>3, Provisions
<1>5. ASSUME NEW t \in live,
             job' = [job EXCEPT ![p] = [@ EXCEPT !.step = "configure", !.descriptor.id = t]]
      PROVE  IInv'
  <2>1. /\ Only(p) /\ job'[p].step = "configure" /\ job'[p].op = job[p].op
        /\ job'[p].descriptor.id = t /\ job'[p].tunnel = "pending"
    BY <1>2, <1>5, Finds DEF IInv, TypeOK
  <2>2. TypeOK'
    BY <1>1, <2>1 DEF IInv, TypeOK, Only
  <2>3. Held(p)'
    BY <1>1, <2>1 DEF Held, Created, Decided
  <2> QED  BY <1>1, <1>3, <2>1, <2>2, <2>3, Provisions DEF Created
<1>6. CASE ProviderFails(p)
  BY <1>1, <1>6, FailsInv DEF IInv, TypeOK
<1> QED  BY <1>4, <1>5, <1>6 DEF Find

(* A tunnel is created where there was none.                               *)
LEMMA CreatedInv ==
  ASSUME IInv, NEW p \in Procs, job[p].op \in Provisioning, job[p].step = "create",
         NEW t \in fresh, live = {}, live' = {t}, fresh' = fresh \ {t},
         job' = [job EXCEPT ![p] = [@ EXCEPT !.step = "configure", !.token = t,
                                             !.descriptor.id = t]],
         UNCHANGED <<faults, dns, store, env, entry, told>>
  PROVE  IInv'
<1>1. t \in Tunnels
  BY DEF IInv, TypeOK
<1>2. /\ Only(p) /\ job'[p].step = "configure" /\ job'[p].op = job[p].op
      /\ job'[p].descriptor.id = t /\ job'[p].tunnel = "pending"
  <2>1. job[p].tunnel = "pending"
    BY DEF IInv, HeldInv, Held
  <2> QED  BY <1>1, <2>1, Creates DEF IInv
<1>3. \A q \in Procs : q # p => job'[q] = job[q]
  BY <1>2 DEF Only
<1>4. job[p].op \notin Removals /\ job[p].op # "idle"
  BY DEF Provisioning, Removals
<1>5. TypeOK'
  BY <1>1, <1>2 DEF IInv, TypeOK, Only
<1>6. StepInv'
  BY <1>2, <1>3, <1>4 DEF IInv, StepInv, Created
<1>7. AloneInv' /\ OneInv'
  BY <1>2, <1>3 DEF IInv, AloneInv, OneInv
<1>8. HeldInv'
  <2> SUFFICES ASSUME NEW q \in Procs, job'[q].op \in Provisioning PROVE Held(q)'
    BY DEF HeldInv, Held
  <2>1. CASE q = p
    BY <1>2, <2>1 DEF Held, Created, Decided
  <2>2. CASE q # p
    <3>1. Held(q) /\ job'[q] = job[q]
      BY <1>3, <2>2 DEF IInv, HeldInv
    <3>2. "overlap" \in faults
      BY <1>4, <2>2, <3>1 DEF IInv, AloneInv, Provisioning
    <3> QED  BY <3>1, <3>2 DEF Held
  <2> QED  BY <2>1, <2>2
<1>9. RemovalInv'
  BY <1>2, <1>3, <1>4, NoRemoval DEF IInv, RemovalInv
<1>10. CoverInv'
  BY <1>2 DEF CoverInv, Carries
<1> QED  BY <1>5, <1>6, <1>7, <1>8, <1>9, <1>10 DEF IInv

LEMMA CreateInv ==
  ASSUME FaultsApart, IInv, NEW p \in Procs, Create(p)
  PROVE  IInv'
<1>1. job[p].op \in Provisioning /\ job[p].step = "create"
  BY ProvisionSteps DEF Create
<1>2. CASE live = {}
  BY <1>1, <1>2, CreatedInv DEF Create, files
<1>3. CASE live # {}
  <2>1. /\ ProviderFails(p)
        /\ UNCHANGED <<faults, live, fresh, dns, store, env, entry, told>>
    BY <1>3 DEF Create, files
  <2>2. "overlap" \in faults
    BY <1>1, <1>3 DEF IInv, HeldInv, Held
  <2>3. "runtime" \notin faults
    BY <2>2, Apart DEF IInv
  <2> QED  BY <1>1, <2>1, <2>3, FailsInv DEF IInv, TypeOK
<1> QED  BY <1>2, <1>3

(* A step that only moves on, with what the command holds. *)
LEMMA GoesInv ==
  ASSUME IInv, NEW p \in Procs, job[p].op \in Provisioning, NEW step \in Steps, Goto(p, step),
         UNCHANGED <<faults, live, fresh, entry, told>>,
         dns' \in MaybeTunnel, store' \in MaybeTunnel, env' \in MaybeTunnel,
         \/ job[p].step \in Created /\ step \in Created \cup Decided
         \/ job[p].step \in Decided /\ step \in Decided,
         step = "rollback" => "runtime" \in faults
  PROVE  IInv'
<1>1. /\ Only(p) /\ job'[p].step = step /\ job'[p].op = job[p].op
      /\ job'[p].descriptor = job[p].descriptor /\ job'[p].tunnel = job[p].tunnel
  BY Goes DEF IInv
<1>2. TypeOK'
  BY <1>1 DEF IInv, TypeOK, Only
<1>3. Held(p)'
  BY <1>1 DEF IInv, HeldInv, Held, Created, Decided
<1>4. \A t \in live : Carries(p, t) => Carries(p, t)'
  BY <1>1 DEF Carries
<1> QED  BY <1>1, <1>2, <1>3, <1>4, Provisions

LEMMA ConfigureInv ==
  ASSUME FaultsApart, IInv, NEW p \in Procs, Configure(p)
  PROVE  IInv'
<1>1. /\ job[p].op \in Provisioning /\ job[p].step = "configure"
      /\ UNCHANGED <<faults, live, fresh, store, env, entry, told>>
  BY ProvisionSteps DEF Configure, files, Created
<1>2. CASE dns' = job[p].descriptor.id /\ Goto(p, "keep")
  <2>1. dns' \in MaybeTunnel
    BY <1>2, JobFacts DEF IInv, TypeOK
  <2>2. "keep" \in Steps
    BY DEF Steps
  <2> QED  BY <1>1, <1>2, <2>1, <2>2, GoesInv DEF IInv, TypeOK, Created
<1>3. CASE "configure" \in faults /\ ProviderFails(p) /\ UNCHANGED dns
  BY <1>1, <1>3, Apart, FailsInv DEF IInv, TypeOK
<1> QED  BY <1>2, <1>3 DEF Configure

LEMMA KeepInv ==
  ASSUME FaultsApart, IInv, NEW p \in Procs, Keep(p)
  PROVE  IInv'
<1>1. /\ job[p].op \in Provisioning /\ job[p].step = "keep"
      /\ UNCHANGED <<faults, live, fresh, dns, env, entry, told>>
  BY ProvisionSteps DEF Keep, cloud, Created
<1>2. /\ job[p].descriptor.id \in live /\ job[p].tunnel = "pending"
      /\ job[p].token \in MaybeTunnel
  BY <1>1, JobFacts DEF IInv, HeldInv, Held, Created, TypeOK
<1>3. ASSUME NEW stored \in BOOLEAN, store' \in MaybeTunnel,
             job' = [job EXCEPT ![p] = [@ EXCEPT !.step = "persist", !.descriptor.path = stored]]
      PROVE  IInv'
  <2>1. /\ Only(p) /\ job'[p].step = "persist" /\ job'[p].op = job[p].op
        /\ job'[p].descriptor.id = job[p].descriptor.id /\ job'[p].tunnel = "pending"
    BY <1>2, <1>3, Keeps DEF IInv
  <2>2. TypeOK'
    BY <1>1, <1>3, <2>1 DEF IInv, TypeOK, Only
  <2>3. Held(p)'
    BY <1>1, <1>2, <2>1 DEF Held, Created, Decided
  <2>4. \A t \in live : Carries(p, t) => Carries(p, t)'
    BY <1>1, <1>2, <2>1 DEF Carries
  <2> QED  BY <1>1, <2>1, <2>2, <2>3, <2>4, Provisions DEF Created
<1>4. CASE "token" \in faults /\ store' \in {store, NoTunnel} /\ ProviderFails(p)
  BY <1>1, <1>4, Apart, FailsInv DEF IInv, TypeOK, MaybeTunnel
<1>5. CASE job[p].token = NoTunnel
  <2>1. store' = store /\ (store # NoTunnel) \in BOOLEAN
    BY <1>5 DEF Keep
  <2> QED  BY <1>3, <1>5, <2>1 DEF Keep, IInv, TypeOK
<1>6. CASE job[p].token # NoTunnel
  BY <1>2, <1>3, <1>4, <1>6 DEF Keep
<1> QED  BY <1>5, <1>6

LEMMA PersistInv ==
  ASSUME FaultsApart, IInv, NEW p \in Procs, Persist(p)
  PROVE  IInv'
<1>1. /\ job[p].op \in Provisioning /\ job[p].step = "persist"
      /\ UNCHANGED <<faults, live, fresh, dns, store, entry, told>>
  BY ProvisionSteps DEF Persist, cloud, Created
<1>2. /\ job[p].descriptor.id \in live /\ job[p].token \in MaybeTunnel
      /\ store \in MaybeTunnel /\ env \in MaybeTunnel
  BY <1>1, JobFacts DEF IInv, HeldInv, Held, Created, TypeOK
<1>3. env' \in MaybeTunnel
  BY <1>2 DEF Persist, MaybeTunnel
<1>4. CASE job' = [job EXCEPT ![p] = [@ EXCEPT !.step = Provisioned(p), !.tunnel = "active"]]
  <2>1. /\ Only(p) /\ job'[p].step \in {"up", "record"} /\ job'[p].op = job[p].op
        /\ job'[p].descriptor = job[p].descriptor /\ job'[p].tunnel = "active"
    BY <1>4, Persists DEF IInv
  <2>2. TypeOK'
    BY <1>1, <1>3, <2>1 DEF IInv, TypeOK, Only
  <2>3. Held(p)'
    BY <1>1, <1>2, <2>1 DEF Held, Created, Decided
  <2>4. \A t \in live : Carries(p, t) => Carries(p, t)'
    BY <1>1, <2>1 DEF IInv, HeldInv, Held, Created, Carries
  <2> QED  BY <1>1, <2>1, <2>2, <2>3, <2>4, Provisions DEF Decided
<1>5. CASE Goto(p, Provisioned(p))
  <2>1. Provisioned(p) \in Steps \cap Decided /\ Provisioned(p) # "rollback"
    BY DEF Provisioned, Steps, Decided
  <2> QED  BY <1>1, <1>3, <1>5, <2>1, GoesInv DEF IInv, TypeOK, Created
<1> QED  BY <1>4, <1>5 DEF Persist

LEMMA BringUpInv ==
  ASSUME FaultsApart, IInv, NEW p \in Procs, BringUp(p)
  PROVE  IInv'
<1>1. /\ job[p].op \in Provisioning /\ job[p].step = "up"
      /\ UNCHANGED <<faults, live, fresh, dns, store, env, entry, told>>
  BY ProvisionSteps DEF BringUp, cloud, files
<1>2. PICK step \in {"record", "rollback"} :
          Goto(p, step) /\ (step = "rollback" => "runtime" \in faults)
  BY DEF BringUp
<1> QED  BY <1>1, <1>2, GoesInv DEF IInv, TypeOK, Steps, Decided

(* Where a runtime fails, the command that rolls back is alone.            *)
LEMMA RollBackInv ==
  ASSUME FaultsApart, IInv, NEW p \in Procs, RollBack(p)
  PROVE  IInv'
<1>1. /\ job[p].op \in Provisioning /\ job[p].step = "rollback"
      /\ UNCHANGED <<faults, store, env, entry, told>>
  BY ProvisionSteps DEF RollBack, files
<1>2. Only(p) /\ job'[p] = NoJob
  BY Finishes DEF IInv, RollBack
<1>3. "runtime" \in faults /\ "overlap" \notin faults
  BY <1>1, Apart DEF IInv, StepInv
<1>4. \A q \in Procs : job'[q] = NoJob
  <2> SUFFICES ASSUME NEW q \in Procs, q # p PROVE job[q] = NoJob
    BY <1>2 DEF Only
  <2>1. job[q].op = "idle"
    BY <1>1, <1>3 DEF IInv, AloneInv, Provisioning
  <2> QED  BY <2>1 DEF IInv, StepInv
<1>5. \A q \in Procs : job'[q].op = "idle" /\ job'[q].step = "idle"
  BY <1>4, NoJobFacts
<1>6. \/ job[p].descriptor.id \in live
      \/ job[p].descriptor.id = NoTunnel /\ job[p].tunnel = "manual"
  BY <1>1, NoJobFacts DEF IInv, HeldInv, Held, Decided
<1>7. /\ live' \subseteq live /\ fresh' = fresh /\ dns' \in MaybeTunnel
      /\ \A t \in live' : ~ \E q \in Procs : Carries(q, t)
  <2>1. ASSUME NEW t \in live, NEW q \in Procs, Carries(q, t)
        PROVE  q = p /\ job[p].descriptor.id = t
    BY <1>1, <1>3, <2>1 DEF Carries, IInv, AloneInv, Provisioning
  <2>2. CASE job[p].descriptor.id = NoTunnel
    <3>1. UNCHANGED <<live, fresh, dns>> /\ NoTunnel \notin live
      BY <2>2, TunnelStateAssumption DEF RollBack, cloud, IInv, TypeOK
    <3> QED  BY <2>1, <2>2, <3>1 DEF IInv, TypeOK
  <2>3. CASE job[p].descriptor.id # NoTunnel
    <3>1. /\ live' = live \ {job[p].descriptor.id} /\ dns' = NoTunnel
          /\ fresh' = fresh
      BY <2>3 DEF RollBack, Delete
    <3> QED  BY <2>1, <3>1 DEF MaybeTunnel
  <2> QED  BY <2>2, <2>3
<1>8. TypeOK'
  BY <1>1, <1>2, <1>7 DEF IInv, TypeOK, Only
<1>9. StepInv' /\ AloneInv' /\ OneInv' /\ HeldInv' /\ RemovalInv'
  BY <1>4, <1>5, <1>7
  DEF IInv, StepInv, AloneInv, OneInv, HeldInv, Held, RemovalInv, Provisioning, Removals
<1>10. CoverInv'
  BY <1>1, <1>7 DEF IInv, CoverInv
<1> QED  BY <1>8, <1>9, <1>10 DEF IInv

LEMMA RecordInv ==
  ASSUME FaultsApart, IInv, NEW p \in Procs, Record(p)
  PROVE  IInv'
<1>1. /\ job[p].op \in Provisioning /\ job[p].step = "record"
      /\ UNCHANGED <<faults, live, fresh, dns, store, env>>
  BY DEF Record, cloud, files, Provisioning
<1>2. Only(p) /\ job'[p] = NoJob
  BY Finishes DEF IInv, Record
<1>3. \A q \in Procs : q # p => job'[q] = job[q]
  BY <1>2 DEF Only
<1>4. /\ job[p].op \notin Removals /\ job[p].op # "idle"
      /\ job'[p].op = "idle" /\ job'[p].step = "idle"
  BY <1>1, <1>2, NoJobFacts DEF Provisioning, Removals
<1>5. /\ entry'.feature = entry.feature
      /\ entry'.tunnel = job[p].tunnel /\ entry'.descriptor = job[p].descriptor
      /\ entry' \in Entries
  <2>1. /\ job[p].tunnel \in {"pending", "active", "manual"}
        /\ job[p].descriptor \in Descriptors
    BY JobFacts DEF IInv, TypeOK
  <2> QED  BY <2>1 DEF Record, IInv, TypeOK, Entries
<1>6. \/ /\ job[p].descriptor.id \in live /\ job[p].tunnel # "manual"
         /\ told' = told
      \/ /\ job[p].descriptor.id = NoTunnel /\ job[p].tunnel = "manual"
         /\ told' = told \cup live
  BY <1>1, NoJobFacts DEF IInv, HeldInv, Held, Decided, Record, Tell
<1>7. TypeOK'
  <2>1. NoTunnel \notin live
    BY TunnelStateAssumption DEF IInv, TypeOK
  <2>2. entry'.descriptor.id # NoTunnel <=> entry'.tunnel \in {"pending", "active"}
    BY <1>5, <1>6, <2>1, JobFacts DEF IInv, TypeOK
  <2> QED  BY <1>1, <1>2, <1>5, <1>6, <2>2 DEF IInv, TypeOK, Only
<1>8. StepInv'
  BY <1>1, <1>2, <1>3, <1>4 DEF IInv, StepInv, Provisioning, Removals
<1>9. AloneInv' /\ OneInv'
  BY <1>1, <1>3, <1>4 DEF IInv, AloneInv, OneInv
<1>10. HeldInv'
  <2>1. Held(p)'
    BY <1>4 DEF Held, Provisioning
  <2> QED  BY <1>1, <1>3, <2>1, HeldFrame DEF IInv, HeldInv
<1>11. RemovalInv'
  BY <1>1, <1>3, <1>4, NoRemoval DEF IInv, RemovalInv, Removals
<1>12. CoverInv'
  BY <1>1, <1>5, <1>6 DEF IInv, OneInv, CoverInv
<1> QED  BY <1>7, <1>8, <1>9, <1>10, <1>11, <1>12 DEF IInv

(* A step of a removal, which is alone and stays so, or ends. *)
LEMMA Removing ==
  ASSUME IInv, NEW p \in Procs, Only(p), TypeOK', UNCHANGED faults, live' \subseteq live,
         job[p].op \in Removals,
         \/ job'[p] = NoJob
         \/ job'[p].op \in Removals /\ job'[p].step \in Deleted,
         live' \subseteq told'
  PROVE  IInv'
<1>1. \A q \in Procs : q # p => job'[q] = NoJob
  <2> SUFFICES ASSUME NEW q \in Procs, q # p PROVE job[q] = NoJob
    BY DEF Only
  <2>1. job[q].op = "idle"
    BY DEF IInv, AloneInv, Removals
  <2> QED  BY <2>1 DEF IInv, StepInv
<1>2. NoJob.op \notin Provisioning \cup Removals /\ NoJob.step = "idle" /\ NoJob.op = "idle"
  BY NoJobFacts DEF Provisioning, Removals
<1>3. job'[p].op \notin Provisioning
  BY <1>2 DEF Provisioning, Removals
<1>4. StepInv'
  <2>1. job'[p].op \in Removals => job'[p].op # "idle" /\ job'[p].step # "rollback"
    BY <1>2 DEF Removals, Deleted
  <2> QED  BY <1>1, <1>2, <1>3, <2>1 DEF StepInv
<1>5. AloneInv' /\ OneInv'
  BY <1>1, <1>2 DEF IInv, AloneInv, OneInv
<1>6. HeldInv'
  BY <1>1, <1>2, <1>3 DEF HeldInv, Held
<1>7. RemovalInv'
  <2>1. job'[p].step \in Deleted => job'[p].step # "delete"
    BY DEF Deleted
  <2> QED  BY <1>1, <1>2, <2>1 DEF RemovalInv
<1>8. CoverInv'
  BY DEF CoverInv
<1> QED  BY <1>4, <1>5, <1>6, <1>7, <1>8 DEF IInv

LEMMA RemovalSteps ==
  ASSUME IInv, NEW p \in Procs, job[p].step \in {"delete", "clean", "forget"}
  PROVE  job[p].op \in Removals
<1>1. job[p] \in Jobs
  BY DEF IInv, TypeOK
<1> QED  BY <1>1, JobFacts, NoJobFacts
         DEF IInv, StepInv, Provisioning, Removals, Created, Decided

LEMMA RemoveInv ==
  ASSUME FaultsApart, IInv, NEW p \in Procs, NEW op \in Removals, NEW force \in BOOLEAN,
         Remove(p, op, force)
  PROVE  IInv'
<1>1. /\ Only(p) /\ AllIdle
      /\ job'[p].op = op
      /\ job'[p].descriptor = entry.descriptor
      /\ \/ job'[p].step = "forget" /\ entry.tunnel = "none"
         \/ job'[p].step = "delete"
  BY Removes DEF IInv
<1>2. UNCHANGED <<faults, live, fresh, dns, store, env, entry, told>>
  BY DEF Remove, cloud, files
<1>3. TypeOK'
  BY <1>1, <1>2 DEF IInv, TypeOK, Only
<1>4. \A q \in Procs : q # p => job'[q].op = "idle" /\ job'[q] = NoJob
  BY <1>1 DEF IInv, StepInv, AllIdle, Only
<1>5. op \notin Provisioning /\ op # "idle" /\ job'[p].step # "rollback"
  BY <1>1 DEF Provisioning, Removals
<1>6. StepInv'
  BY <1>1, <1>4, <1>5, NoJobFacts DEF StepInv, Provisioning, Removals, Deleted
<1>7. AloneInv' /\ OneInv'
  BY <1>2, <1>4 DEF IInv, AloneInv, OneInv
<1>8. HeldInv'
  BY <1>1, <1>4, <1>5 DEF HeldInv, Held, Provisioning
<1>9. \A t \in live : entry.descriptor.id = t \/ t \in told
  BY <1>1 DEF IInv, CoverInv, Carries, AllIdle, Provisioning
<1>10. RemovalInv'
  <2>1. entry.tunnel = "none" => live \subseteq told
    BY <1>9, TunnelStateAssumption DEF IInv, TypeOK
  <2> QED  BY <1>1, <1>2, <1>4, <2>1, NoJobFacts DEF RemovalInv, Removals, Deleted
<1>11. CoverInv'
  BY <1>2, <1>9 DEF CoverInv
<1> QED  BY <1>3, <1>6, <1>7, <1>8, <1>10, <1>11 DEF IInv

LEMMA DeleteTunnelInv ==
  ASSUME FaultsApart, IInv, NEW p \in Procs, DeleteTunnel(p)
  PROVE  IInv'
<1>1. /\ job[p].op \in Removals /\ job[p].step = "delete"
      /\ UNCHANGED <<faults, store, env, entry>>
  BY RemovalSteps DEF DeleteTunnel, files
<1>2. /\ Only(p)
      /\ \/ job'[p] = NoJob
         \/ job'[p].op = job[p].op /\ job'[p].step \in Deleted
  <2>1. {"clean", "forget"} \subseteq Steps \cap Deleted
    BY DEF Steps, Deleted
  <2>2. Finish(p) \/ \E step \in {"clean", "forget"} : Goto(p, step)
    BY DEF DeleteTunnel
  <2> QED  BY <2>1, <2>2, Finishes, Goes DEF IInv
<1>3. \A t \in live : job[p].descriptor.id = t \/ t \in told
  <2>1. job[p].descriptor = entry.descriptor
    BY <1>1 DEF IInv, RemovalInv
  <2>2. \A t \in live : \A q \in Procs : ~ Carries(q, t)
    BY <1>1, NoRemoval DEF IInv, Carries
  <2> QED  BY <2>1, <2>2 DEF IInv, CoverInv
<1>4. /\ live' \subseteq live /\ fresh' = fresh /\ dns' \in MaybeTunnel
      /\ live' \subseteq told' /\ told' \subseteq Tunnels
  BY <1>3 DEF DeleteTunnel, Delete, Tell, cloud, IInv, TypeOK, MaybeTunnel
<1>5. TypeOK'
  BY <1>1, <1>2, <1>4 DEF IInv, TypeOK, Only
<1> QED  BY <1>1, <1>2, <1>4, <1>5, Removing

LEMMA CleanInv ==
  ASSUME FaultsApart, IInv, NEW p \in Procs, Clean(p)
  PROVE  IInv'
<1>1. /\ job[p].op \in Removals /\ job[p].step = "clean"
      /\ UNCHANGED <<faults, live, fresh, dns, entry, told>>
      /\ Goto(p, "record")
      /\ store' \in {store, NoTunnel} /\ env' = NoTunnel
  BY RemovalSteps DEF Clean, cloud
<1>2. "record" \in Steps /\ "record" \in Deleted /\ "clean" \in Deleted
  BY DEF Steps, Deleted
<1>3. Only(p) /\ job'[p].op = job[p].op /\ job'[p].step = "record"
  BY <1>1, <1>2, Goes DEF IInv
<1>4. TypeOK'
  BY <1>1, <1>3 DEF IInv, TypeOK, Only, MaybeTunnel
<1>5. live \subseteq told
  BY <1>1, <1>2 DEF IInv, RemovalInv
<1> QED  BY <1>1, <1>2, <1>3, <1>4, <1>5, Removing

(* Disabled as the entry's tunnel, or none as before, agrees with no       *)
(* descriptor.                                                             *)
LEMMA DisabledType ==
  ASSUME TypeOK
  PROVE  /\ Disabled \in Entries
         /\ Disabled.tunnel = "disabled" /\ Disabled.descriptor = NoDescriptor
BY DEF TypeOK, Disabled, Entries, NoDescriptor, Descriptors, MaybeTunnel

LEMMA RecordRemovedInv ==
  ASSUME FaultsApart, IInv, NEW p \in Procs, RecordRemoved(p)
  PROVE  IInv'
<1>1. /\ job[p].op \in Removals /\ job[p].step = "record"
      /\ UNCHANGED <<faults, live, fresh, dns, store, env, told>>
      /\ entry' = Disabled
  BY DEF RecordRemoved, cloud, files
<1>2. "forget" \in Steps /\ "forget" \in Deleted /\ "record" \in Deleted
  BY DEF Steps, Deleted
<1>3. /\ Only(p)
      /\ \/ job'[p] = NoJob
         \/ job'[p].op = job[p].op /\ job'[p].step = "forget"
  BY <1>2, Finishes, Goes DEF IInv, RecordRemoved
<1>4. TypeOK'
  BY <1>1, <1>3, DisabledType, NoJobFacts DEF IInv, TypeOK, Only
<1>5. live \subseteq told
  BY <1>1, <1>2 DEF IInv, RemovalInv
<1> QED  BY <1>1, <1>2, <1>3, <1>4, <1>5, Removing

LEMMA Forgotten ==
  ASSUME TypeOK, NEW p \in Procs, Forget(p)
  PROVE  /\ entry' \in Entries
         /\ \/ entry'.tunnel = "none" /\ entry.tunnel = "none"
            \/ entry'.tunnel = "disabled"
         /\ entry'.descriptor.id = NoTunnel
<1> DEFINE left == IF entry.tunnel = "none" THEN entry ELSE Disabled
<1>1. /\ left \in Entries
      /\ \/ left.tunnel = "none" /\ entry.tunnel = "none"
         \/ left.tunnel = "disabled"
      /\ left.descriptor.id = NoTunnel
  BY DisabledType, NoJobFacts DEF TypeOK
<1>2. entry' = [left EXCEPT !.feature = "removed"]
  BY DEF Forget
<1> HIDE DEF left
<1> QED  BY <1>1, <1>2 DEF Entries

LEMMA ForgetInv ==
  ASSUME FaultsApart, IInv, NEW p \in Procs, Forget(p)
  PROVE  IInv'
<1>1. /\ job[p].op \in Removals /\ job[p].step = "forget"
      /\ UNCHANGED <<faults, live, fresh, dns, store, told>>
      /\ env' = NoTunnel
  BY RemovalSteps DEF Forget, cloud
<1>2. Only(p) /\ job'[p] = NoJob
  BY Finishes DEF IInv, Forget
<1>3. TypeOK'
  BY <1>1, <1>2, Forgotten DEF IInv, TypeOK, Only, MaybeTunnel
<1>4. live \subseteq told
  BY <1>1 DEF IInv, RemovalInv, Deleted
<1> QED  BY <1>1, <1>2, <1>3, <1>4, Removing

LEMMA StutterInv == IInv /\ UNCHANGED vars => IInv'
BY DEF vars, cloud, files, IInv, TypeOK, StepInv, AloneInv, OneInv, HeldInv, Held, RemovalInv,
       CoverInv, Carries

LEMMA InitInv == Init => IInv
<1> SUFFICES ASSUME Init PROVE IInv
  OBVIOUS
<1>1. \A p \in Procs : job[p] = NoJob /\ job[p].op = "idle" /\ job[p].step = "idle"
  BY NoJobFacts DEF Init
<1>2. TypeOK
  <2>1. /\ entry \in Entries /\ entry.tunnel = "none"
        /\ entry.descriptor = NoDescriptor
    BY DEF Init, Entries, NoDescriptor, Descriptors, MaybeTunnel
  <2>2. job \in [Procs -> Jobs]
    BY NoJobFacts DEF Init
  <2> QED  BY <2>1, <2>2, NoJobFacts DEF Init, TypeOK, MaybeTunnel
<1>3. StepInv /\ AloneInv /\ HeldInv /\ RemovalInv
  BY <1>1 DEF StepInv, AloneInv, HeldInv, Held, RemovalInv, Provisioning, Removals
<1>4. OneInv /\ CoverInv
  BY DEF Init, OneInv, CoverInv
<1> QED  BY <1>2, <1>3, <1>4 DEF IInv

(* The inductive invariant is kept by every step. *)
LEMMA InvStep == ASSUME FaultsApart, IInv, [Next]_vars PROVE IInv'
BY BeginInv, FindInv, CreateInv, ConfigureInv, KeepInv, PersistInv, BringUpInv, RollBackInv,
   RecordInv, RemoveInv, DeleteTunnelInv, CleanInv, RecordRemovedInv, ForgetInv, StutterInv
DEF Next

LEMMA Inductive == ASSUME FaultsApart PROVE Spec => []IInv
<1>1. IInv /\ [Next]_vars => IInv'
  BY InvStep
<1> QED  BY <1>1, InitInv, PTL DEF Spec

(* The variables keep their types, and a recorded descriptor goes with the *)
(* status of the tunnel, whatever provisions, starts and removals come.    *)
THEOREM TunnelTypes == ASSUME FaultsApart PROVE Spec => []TypeOK
<1>1. IInv => TypeOK
  BY DEF IInv
<1> QED
  BY <1>1, Inductive, PTL

(* No tunnel is left at Cloudflare in silence: between commands, each one  *)
(* is named by the recorded descriptor, or a command has warned about it.  *)
THEOREM NoLeakInSilence == ASSUME FaultsApart PROVE Spec => []NoSilentLeak
<1>1. IInv => NoSilentLeak
  BY DEF IInv, CoverInv, Carries, NoSilentLeak, AllIdle, Provisioning
<1> QED
  BY <1>1, Inductive, PTL

---------------------------------------------------------------------------
(* The connector of a tunnel that is online.                               *)

CommandsApart ==
    \A w \in Weathers : "overlap" \in w => {"configure", "token", "env"} \cap w = {}

(* A command has made t and has its token still to store or to write.      *)
Makes(p, t, steps) == job[p].step \in steps /\ job[p].token = t

Storing == {"configure", "keep"}

(* Where neither the runtime fails nor commands overlap, no file outlives  *)
(* its tunnel: the next one may fail before its own token is stored.       *)
Spare == "runtime" \notin faults /\ "overlap" \notin faults

TokenOK(p) ==
    /\ job[p].step \in {"find", "create"} => job[p].token = NoTunnel
    /\ job[p].step \in Created =>
           job[p].token = NoTunnel \/ job[p].token = job[p].descriptor.id

(* A command that will record its tunnel as active has given the connector *)
(* its token, or the one that made the tunnel will.                        *)
UseOK(p) ==
    job[p].op \in Provisioning /\ job[p].step \in Decided /\ job[p].tunnel = "active" =>
        \/ env = job[p].descriptor.id
        \/ \E q \in Procs : Makes(q, job[p].descriptor.id, Created)

SpareOK(p) ==
    Spare /\ job[p].op \in Provisioning =>
        /\ job[p].token # NoTunnel => entry.descriptor.id = NoTunnel
        /\ job[p].step \in {"persist"} \cup Decided /\ job[p].descriptor.id # NoTunnel =>
               store = NoTunnel \/ job[p].descriptor.path

CommandOK(p) == TokenOK(p) /\ UseOK(p) /\ SpareOK(p)
CommandInv == \A p \in Procs : CommandOK(p)

FreshInv == live \cap fresh = {} /\ entry.descriptor.id \notin fresh

StoreInv == \A t \in live :
    store \in {t, NoTunnel} \/ \E p \in Procs : Makes(p, t, Storing)

(* A removal has cleared the connector's file, or a command that could not *)
(* write it is about to record the tunnel as pending.                      *)
Clears(p) == job[p].op \in Removals /\ job[p].step \in {"record", "forget"}
Demotes(p) ==
    /\ "overlap" \notin faults
    /\ job[p].op \in Provisioning /\ job[p].step \in Decided /\ job[p].tunnel = "pending"

EnvInv ==
    entry.tunnel = "active" /\ entry.descriptor.id \in live =>
        \/ env = entry.descriptor.id
        \/ \E p \in Procs : Makes(p, entry.descriptor.id, Created) \/ Clears(p) \/ Demotes(p)

SpareInv == Spare =>
    /\ \/ store \in live \cup {NoTunnel}
       \/ \E p \in Procs : job[p].step = "clean" /\ job[p].descriptor.path
    /\ \/ entry.descriptor.id \in live \cup {NoTunnel}
       \/ \E p \in Procs : job[p].op \in Removals /\ job[p].step \in Deleted
    /\ entry.descriptor.id # NoTunnel => store = NoTunnel \/ entry.descriptor.path

ConnectorInv == CommandInv /\ FreshInv /\ StoreInv /\ EnvInv /\ SpareInv

LEMMA Calm == ASSUME CommandsApart, FaultsApart, TypeOK, {"configure", "token", "env"} \cap faults # {}
              PROVE  /\ "overlap" \notin faults
                     /\ {"configure", "token"} \cap faults # {} => Spare
BY DEF CommandsApart, FaultsApart, TypeOK, Spare

LEMMA Alone ==
  ASSUME IInv, NEW p \in Procs, job[p].op # "idle",
         "overlap" \notin faults \/ job[p].op \in Removals,
         NEW q \in Procs, q # p
  PROVE  /\ job[q] = NoJob /\ job[q].op = "idle" /\ job[q].step = "idle"
         /\ job[q].token = NoTunnel
<1>1. job[q].op = "idle"
  BY DEF IInv, AloneInv
<1> QED  BY <1>1, NoJobFacts DEF IInv, StepInv

LEMMA NoTunnelThere == ASSUME TypeOK PROVE NoTunnel \notin live /\ NoTunnel \notin fresh
BY TunnelStateAssumption DEF TypeOK

(* An idle process is at nothing. *)
LEMMA IdleOK ==
  ASSUME NEW p \in Procs, job[p] = NoJob
  PROVE  CommandOK(p)
<1>1. job[p].op = "idle" /\ job[p].step = "idle"
  BY NoJobFacts
<1> QED  BY <1>1 DEF CommandOK, TokenOK, UseOK, SpareOK, Provisioning, Created

LEMMA IdleOKNext ==
  ASSUME NEW p \in Procs, job'[p] = NoJob
  PROVE  CommandOK(p)'
<1>1. job'[p].op = "idle" /\ job'[p].step = "idle"
  BY NoJobFacts
<1> QED  BY <1>1 DEF CommandOK, TokenOK, UseOK, SpareOK, Provisioning, Created

(* A step that leaves Cloudflare and the files alone, and the recorded     *)
(* tunnel, and after which the command still makes what it made.           *)
LEMMA Quiet ==
  ASSUME IInv, ConnectorInv, NEW p \in Procs, Only(p),
         UNCHANGED <<faults, live, fresh, store, env>>,
         entry'.tunnel = entry.tunnel, entry'.descriptor = entry.descriptor,
         job[p].op \notin Removals,
         \A t \in live : /\ Makes(p, t, Storing) => Makes(p, t, Storing)'
                         /\ Makes(p, t, Created) => Makes(p, t, Created)',
         Demotes(p) => Demotes(p)',
         CommandOK(p)'
  PROVE  ConnectorInv'
<1>1. \A q \in Procs : q # p => job'[q] = job[q]
  BY DEF Only
<1>2. ASSUME NEW t \in live, NEW q \in Procs
      PROVE  /\ Makes(q, t, Storing) => Makes(q, t, Storing)'
             /\ Makes(q, t, Created) => Makes(q, t, Created)'
  <2>1. CASE q = p
    BY <2>1
  <2>2. CASE q # p
    BY <1>1, <2>2 DEF Makes
  <2> QED  BY <2>1, <2>2
<1>3. \A q \in Procs : (Clears(q) => Clears(q)') /\ (Demotes(q) => Demotes(q)')
  <2>1. ~ Clears(p)
    BY DEF Clears
  <2> QED  BY <1>1, <2>1 DEF Clears, Demotes
<1>4. CommandInv'
  <2> SUFFICES ASSUME NEW q \in Procs, q # p PROVE CommandOK(q)'
    BY DEF CommandInv
  <2>1. CommandOK(q) /\ job'[q] = job[q]
    BY <1>1 DEF ConnectorInv, CommandInv
  <2>2. UseOK(q)'
    <3> SUFFICES ASSUME job[q].op \in Provisioning, job[q].step \in Decided, job[q].tunnel = "active",
                        env # job[q].descriptor.id
                 PROVE  \E r \in Procs : Makes(r, job[q].descriptor.id, Created)'
      BY <2>1 DEF UseOK
    <3>1. job[q].descriptor.id \in live
      BY DEF IInv, HeldInv, Held
    <3>2. PICK r \in Procs : Makes(r, job[q].descriptor.id, Created)
      BY <2>1 DEF CommandOK, UseOK
    <3>3. Makes(r, job[q].descriptor.id, Created)'
      BY <1>2, <2>1, <3>1, <3>2 DEF Makes
    <3> QED  BY <3>3
  <2> QED  BY <2>1, <2>2 DEF CommandOK, TokenOK, SpareOK, Spare
<1>5. FreshInv'
  BY DEF ConnectorInv, FreshInv
<1>6. StoreInv'
  BY <1>2 DEF ConnectorInv, StoreInv
<1>7. EnvInv'
  BY <1>2, <1>3 DEF ConnectorInv, EnvInv
<1>8. SpareInv'
  <2>1. \A q \in Procs : job[q].step = "clean" => q # p
    BY DEF IInv, StepInv, Provisioning, Created, Decided, Removals, TypeOK, Jobs, NoJob
  <2> QED  BY <1>1, <2>1 DEF ConnectorInv, SpareInv, Spare
<1> QED  BY <1>4, <1>5, <1>6, <1>7, <1>8 DEF ConnectorInv

LEMMA ConnectedBegin ==
  ASSUME IInv, ConnectorInv, NEW p \in Procs, Open(p) \/ Start(p)
  PROVE  ConnectorInv'
<1>1. /\ Only(p)
      /\ job[p] = NoJob
      /\ job'[p].op \in Provisioning /\ job'[p].step = "find" /\ job'[p].token = NoTunnel
      /\ UNCHANGED <<faults, live, fresh, store, env>>
      /\ entry'.tunnel = entry.tunnel /\ entry'.descriptor = entry.descriptor
  BY Begins DEF IInv
<1>2. CommandOK(p)'
  BY <1>1 DEF CommandOK, TokenOK, UseOK, SpareOK, Created, Decided
<1>3. job[p].op \notin Removals /\ job[p].op \notin Provisioning /\ job[p].step = "idle"
  BY <1>1, NoJobFacts DEF Removals, Provisioning
<1> QED  BY <1>1, <1>2, <1>3, Quiet DEF Makes, Storing, Created, Demotes

(* The provider fails a command that has made no tunnel.                   *)
LEMMA ConnectedFails ==
  ASSUME IInv, ConnectorInv, NEW p \in Procs, job[p].op \in Provisioning,
         job[p].step \notin Decided, job[p].token = NoTunnel, ProviderFails(p),
         UNCHANGED <<faults, live, fresh, store, env, entry>>
  PROVE  ConnectorInv'
<1>1. /\ Only(p)
      /\ job'[p].step \in {"up", "record"} /\ job'[p].op = job[p].op
      /\ job'[p].token = NoTunnel /\ job'[p].descriptor.id = NoTunnel
      /\ job'[p].tunnel = "manual"
  BY Fails, NoJobFacts DEF IInv
<1>2. CommandOK(p)'
  BY <1>1 DEF CommandOK, TokenOK, UseOK, SpareOK, Created
<1>3. job[p].op \notin Removals /\ \A t \in live : t # job[p].token
  BY NoTunnelThere DEF Removals, Provisioning, IInv
<1> QED  BY <1>1, <1>2, <1>3, Quiet DEF Makes, Demotes

LEMMA ConnectedFind ==
  ASSUME IInv, ConnectorInv, NEW p \in Procs, Find(p)
  PROVE  ConnectorInv'
<1>1. /\ job[p].op \in Provisioning /\ job[p].step = "find"
      /\ UNCHANGED <<faults, live, fresh, store, env, entry>>
  BY ProvisionSteps DEF Find, cloud, files
<1>2. job[p].token = NoTunnel
  BY <1>1 DEF ConnectorInv, CommandInv, CommandOK, TokenOK
<1>3. /\ job[p].op \notin Removals /\ job[p].step \notin Decided
      /\ \A t \in live : t # job[p].token
  BY <1>1, <1>2, NoTunnelThere DEF Removals, Provisioning, Decided, IInv
<1>4. ASSUME Only(p), job'[p].step \in {"create", "configure"}, job'[p].op = job[p].op,
             job'[p].token = NoTunnel
      PROVE  ConnectorInv'
  <2>1. CommandOK(p)'
    BY <1>4 DEF CommandOK, TokenOK, UseOK, SpareOK, Decided
  <2> QED  BY <1>1, <1>3, <1>4, <2>1, Quiet DEF Makes, Demotes
<1>5. CASE Goto(p, "create")
  BY <1>2, <1>4, <1>5, Goes DEF IInv, Steps
<1>6. ASSUME NEW t \in live,
             job' = [job EXCEPT ![p] = [@ EXCEPT !.step = "configure", !.descriptor.id = t]]
      PROVE  ConnectorInv'
  BY <1>2, <1>4, <1>6, Finds DEF IInv, TypeOK
<1>7. CASE ProviderFails(p)
  BY <1>1, <1>2, <1>3, <1>7, ConnectedFails
<1> QED  BY <1>5, <1>6, <1>7 DEF Find

(* A tunnel is made: no file and no record names it yet.                   *)
LEMMA ConnectedCreated ==
  ASSUME IInv, ConnectorInv, NEW p \in Procs, job[p].op \in Provisioning,
         job[p].step = "create", NEW t \in fresh, live = {}, live' = {t}, fresh' = fresh \ {t},
         job' = [job EXCEPT ![p] = [@ EXCEPT !.step = "configure", !.token = t,
                                             !.descriptor.id = t]],
         UNCHANGED <<faults, store, env, entry>>
  PROVE  ConnectorInv'
<1>1. /\ Only(p) /\ job'[p].step = "configure" /\ job'[p].op = job[p].op
      /\ job'[p].token = t /\ job'[p].descriptor.id = t
  BY Creates DEF IInv, TypeOK
<1>2. \A q \in Procs : q # p => job'[q] = job[q]
  BY <1>1 DEF Only
<1>3. Spare => store = NoTunnel /\ entry.descriptor.id = NoTunnel
  <2>1. \A q \in Procs : job[q].step # "clean" /\ job[q].op \notin Removals
    BY NoRemoval, RemovalSteps DEF IInv
  <2> QED  BY <2>1 DEF ConnectorInv, SpareInv
<1>4. CommandOK(p)'
  BY <1>1, <1>3 DEF CommandOK, TokenOK, UseOK, SpareOK, Spare, Decided
<1>5. ASSUME NEW q \in Procs, q # p PROVE CommandOK(q)'
  <2>1. CommandOK(q) /\ job'[q] = job[q]
    BY <1>2, <1>5 DEF ConnectorInv, CommandInv
  <2>2. UseOK(q)'
    BY <2>1 DEF UseOK, IInv, HeldInv, Held
  <2> QED  BY <2>1, <2>2 DEF CommandOK, TokenOK, SpareOK, Spare
<1>6. FreshInv' /\ StoreInv' /\ EnvInv'
  BY <1>1 DEF ConnectorInv, FreshInv, StoreInv, EnvInv, Makes, Storing
<1>7. SpareInv'
  BY <1>3 DEF SpareInv, Spare
<1> QED  BY <1>4, <1>5, <1>6, <1>7 DEF ConnectorInv, CommandInv

LEMMA ConnectedCreate ==
  ASSUME IInv, ConnectorInv, NEW p \in Procs, Create(p)
  PROVE  ConnectorInv'
<1>1. job[p].op \in Provisioning /\ job[p].step = "create" /\ job[p].step \notin Decided
  BY ProvisionSteps DEF Create, Decided
<1>2. job[p].token = NoTunnel
  BY <1>1 DEF ConnectorInv, CommandInv, CommandOK, TokenOK
<1>3. CASE live = {}
  BY <1>1, <1>3, ConnectedCreated DEF Create, files
<1>4. CASE live # {}
  BY <1>1, <1>2, <1>4, ConnectedFails DEF Create, files
<1> QED  BY <1>3, <1>4

(* The provider fails a command that has made a tunnel: the command is     *)
(* alone, and neither a file nor a record names another one.               *)
LEMMA ConnectedMakerFails ==
  ASSUME FaultsApart, CommandsApart, IInv, ConnectorInv, NEW p \in Procs,
         job[p].op \in Provisioning, job[p].step \in Storing, job[p].token # NoTunnel,
         {"configure", "token"} \cap faults # {}, ProviderFails(p),
         store' \in {store, NoTunnel}, UNCHANGED <<faults, live, fresh, env, entry>>
  PROVE  ConnectorInv'
<1>1. "overlap" \notin faults /\ Spare
  BY Calm DEF IInv
<1>2. /\ Only(p)
      /\ job'[p].step \in {"up", "record"} /\ job'[p].op = job[p].op
      /\ job'[p].token = NoTunnel /\ job'[p].descriptor.id = NoTunnel
      /\ job'[p].tunnel = "manual"
  BY Fails, NoJobFacts DEF IInv
<1>3. \A q \in Procs : q # p => job[q] = NoJob /\ job'[q] = NoJob /\ job[q].step = "idle"
  BY <1>1, <1>2, Alone DEF Only, Provisioning
<1>4. entry.descriptor.id = NoTunnel
  BY <1>1 DEF ConnectorInv, CommandInv, CommandOK, SpareOK
<1>5. store \in live \cup {NoTunnel}
  <2>1. \A q \in Procs : job[q].step # "clean"
    BY <1>3 DEF Storing
  <2> QED  BY <1>1, <2>1 DEF ConnectorInv, SpareInv
<1>6. CommandInv'
  <2>1. CommandOK(p)'
    BY <1>2 DEF CommandOK, TokenOK, UseOK, SpareOK, Created
  <2> QED  BY <1>3, <2>1, IdleOKNext DEF CommandInv
<1>7. FreshInv' /\ EnvInv'
  BY <1>4, NoTunnelThere DEF ConnectorInv, FreshInv, EnvInv, IInv
<1>8. StoreInv' /\ SpareInv'
  BY <1>4, <1>5 DEF StoreInv, SpareInv, IInv, OneInv
<1> QED  BY <1>6, <1>7, <1>8 DEF ConnectorInv

LEMMA ConnectedConfigure ==
  ASSUME FaultsApart, CommandsApart, IInv, ConnectorInv, NEW p \in Procs, Configure(p)
  PROVE  ConnectorInv'
<1>1. /\ job[p].op \in Provisioning /\ job[p].step = "configure"
      /\ UNCHANGED <<faults, live, fresh, store, env, entry>>
  BY ProvisionSteps DEF Configure, files, Created
<1>2. job[p].op \notin Removals /\ job[p].step \notin Decided /\ job[p].step \in Storing
  BY <1>1 DEF Removals, Provisioning, Decided, Storing
<1>3. CASE Goto(p, "keep")
  <2>1. /\ Only(p) /\ job'[p].step = "keep" /\ job'[p].op = job[p].op
        /\ job'[p].token = job[p].token /\ job'[p].descriptor = job[p].descriptor
    BY <1>3, Goes DEF IInv, Steps
  <2>2. CommandOK(p)
    BY DEF ConnectorInv, CommandInv
  <2>3. CommandOK(p)'
    BY <1>1, <2>1, <2>2 DEF CommandOK, TokenOK, UseOK, SpareOK, Spare, Created, Decided
  <2> QED  BY <1>1, <1>2, <2>1, <2>3, Quiet DEF Makes, Storing, Created, Demotes
<1>4. CASE "configure" \in faults /\ ProviderFails(p)
  BY <1>1, <1>2, <1>4, ConnectedFails, ConnectedMakerFails
<1> QED  BY <1>3, <1>4 DEF Configure

(* A command stores the token of the tunnel that it has made.              *)
LEMMA ConnectedKept ==
  ASSUME IInv, ConnectorInv, NEW p \in Procs, job[p].op \in Provisioning,
         job[p].step = "keep", job[p].token # NoTunnel, store' = job[p].token,
         job' = [job EXCEPT ![p] = [@ EXCEPT !.step = "persist", !.descriptor.path = TRUE]],
         UNCHANGED <<faults, live, fresh, env, entry>>
  PROVE  ConnectorInv'
<1> DEFINE made == job[p].descriptor.id
<1>1. /\ Only(p) /\ job'[p].step = "persist" /\ job'[p].op = job[p].op
      /\ job'[p].token = job[p].token /\ job'[p].tunnel = job[p].tunnel
      /\ job'[p].descriptor.id = made /\ job'[p].descriptor.path = TRUE
  BY Keeps DEF IInv
<1>2. \A q \in Procs : q # p => job'[q] = job[q]
  BY <1>1 DEF Only
<1>3. job[p].token = made /\ made \in live /\ \A t \in live : t = made
  BY DEF ConnectorInv, CommandInv, CommandOK, TokenOK, Created, IInv, HeldInv, Held, OneInv
<1>4. Spare => entry.descriptor.id = NoTunnel
  BY DEF ConnectorInv, CommandInv, CommandOK, SpareOK
<1>5. job[p].op # "idle" /\ job[p].op \notin Removals
  BY DEF Provisioning, Removals
<1>6. ASSUME NEW t, NEW q \in Procs, Makes(q, t, Created) PROVE Makes(q, t, Created)'
  <2>1. CASE q = p
    BY <1>1, <1>6, <2>1 DEF Makes, Created
  <2>2. CASE q # p
    BY <1>2, <1>6, <2>2 DEF Makes
  <2> QED  BY <2>1, <2>2
<1>7. CommandOK(p)'
  BY <1>1, <1>3, <1>4 DEF CommandOK, TokenOK, UseOK, SpareOK, Spare, Created, Decided
<1>8. ASSUME NEW q \in Procs, q # p PROVE CommandOK(q)'
  <2>1. CommandOK(q) /\ job'[q] = job[q]
    BY <1>2, <1>8 DEF ConnectorInv, CommandInv
  <2>2. CASE "overlap" \in faults
    <3>1. UseOK(q)'
      BY <1>6, <2>1 DEF CommandOK, UseOK
    <3> QED  BY <2>1, <2>2, <3>1 DEF CommandOK, TokenOK, SpareOK, Spare
  <2>3. CASE "overlap" \notin faults
    BY <1>5, <1>8, <2>1, <2>3, Alone, IdleOKNext
  <2> QED  BY <2>2, <2>3
<1>9. FreshInv' /\ StoreInv'
  BY <1>3 DEF ConnectorInv, FreshInv, StoreInv
<1>10. EnvInv'
  <2>1. \A q \in Procs : (Clears(q) => Clears(q)') /\ (Demotes(q) => Demotes(q)')
    BY <1>2, <1>5 DEF Clears, Demotes, Decided
  <2> QED  BY <1>6, <2>1 DEF ConnectorInv, EnvInv
<1>11. SpareInv'
  BY <1>3, <1>4 DEF SpareInv, Spare
<1> QED  BY <1>7, <1>8, <1>9, <1>10, <1>11 DEF ConnectorInv, CommandInv

LEMMA ConnectedKeep ==
  ASSUME FaultsApart, CommandsApart, IInv, ConnectorInv, NEW p \in Procs, Keep(p)
  PROVE  ConnectorInv'
<1>1. /\ job[p].op \in Provisioning /\ job[p].step = "keep"
      /\ UNCHANGED <<faults, live, fresh, env, entry>>
  BY ProvisionSteps DEF Keep, cloud, Created
<1>2. job[p].op \notin Removals /\ job[p].step \notin Decided /\ job[p].step \in Storing
  BY <1>1 DEF Removals, Provisioning, Decided, Storing
<1>3. CASE job[p].token = NoTunnel
  <2>1. /\ store' = store
        /\ job' = [job EXCEPT ![p] = [@ EXCEPT !.step = "persist",
                                               !.descriptor.path = store # NoTunnel]]
    BY <1>3 DEF Keep
  <2>2. /\ Only(p) /\ job'[p].step = "persist" /\ job'[p].op = job[p].op
        /\ job'[p].token = NoTunnel /\ job'[p].descriptor.path = (store # NoTunnel)
    BY <1>3, <2>1, Keeps, (store # NoTunnel) \in BOOLEAN DEF IInv
  <2>3. CommandOK(p)'
    BY <2>1, <2>2 DEF CommandOK, TokenOK, UseOK, SpareOK, Decided
  <2>4. \A t \in live : t # job[p].token
    BY <1>3, NoTunnelThere DEF IInv
  <2> QED  BY <1>1, <1>2, <2>1, <2>2, <2>3, <2>4, Quiet DEF Makes, Demotes
<1>4. CASE job[p].token # NoTunnel
  <2>1. \/ /\ store' = job[p].token
           /\ job' = [job EXCEPT ![p] = [@ EXCEPT !.step = "persist", !.descriptor.path = TRUE]]
        \/ "token" \in faults /\ store' \in {store, NoTunnel} /\ ProviderFails(p)
    BY <1>4 DEF Keep
  <2> QED  BY <1>1, <1>2, <1>4, <2>1, ConnectedKept, ConnectedMakerFails
<1> QED  BY <1>3, <1>4

(* The token that the connector gets is that of the command's tunnel, or   *)
(* the maker of that tunnel will give it.                                  *)
LEMMA ConnectedGiven ==
  ASSUME IInv, ConnectorInv, NEW p \in Procs, job[p].op \in Provisioning,
         job[p].step = "persist",
         \/ job[p].token # NoTunnel /\ env' = job[p].token
         \/ job[p].token = NoTunnel /\ store # NoTunnel /\ env' = store,
         job' = [job EXCEPT ![p] = [@ EXCEPT !.step = Provisioned(p), !.tunnel = "active"]],
         UNCHANGED <<faults, live, fresh, store, entry>>
  PROVE  ConnectorInv'
<1> DEFINE made == job[p].descriptor.id
<1>1. /\ Only(p) /\ job'[p].step \in {"up", "record"} /\ job'[p].op = job[p].op
      /\ job'[p].token = job[p].token /\ job'[p].descriptor = job[p].descriptor
  BY Persists DEF IInv
<1>2. \A q \in Procs : q # p => job'[q] = job[q]
  BY <1>1 DEF Only
<1>3. made \in live /\ \A t \in live : t = made
  BY DEF Created, IInv, HeldInv, Held, OneInv
<1>4. CommandOK(p)
  BY DEF ConnectorInv, CommandInv
<1>5. ASSUME NEW t, NEW q \in Procs, Makes(q, t, Storing)
      PROVE  q # p /\ Makes(q, t, Storing)' /\ Makes(q, t, Created)'
  BY <1>2, <1>5 DEF Makes, Storing, Created
<1>6. env' = made \/ \E q \in Procs : Makes(q, made, Created)'
  <2>1. CASE job[p].token # NoTunnel
    BY <1>4, <2>1 DEF CommandOK, TokenOK, Created
  <2>2. CASE job[p].token = NoTunnel
    BY <1>3, <1>5, <2>2 DEF ConnectorInv, StoreInv
  <2> QED  BY <2>1, <2>2
<1>7. CommandOK(p)'
  <2>1. UseOK(p)'
    BY <1>1, <1>6 DEF UseOK
  <2> QED  BY <1>1, <1>4, <2>1 DEF CommandOK, TokenOK, SpareOK, Spare, Created, Decided
<1>8. ASSUME NEW q \in Procs, q # p PROVE CommandOK(q)'
  <2>1. CommandOK(q) /\ job'[q] = job[q]
    BY <1>2, <1>8 DEF ConnectorInv, CommandInv
  <2>2. UseOK(q)'
    <3> SUFFICES ASSUME job[q].op \in Provisioning, job[q].step \in Decided,
                        job[q].tunnel = "active"
                 PROVE  job[q].descriptor.id = made
      BY <1>6, <2>1 DEF UseOK
    <3> QED  BY <1>3 DEF IInv, HeldInv, Held
  <2> QED  BY <2>1, <2>2 DEF CommandOK, TokenOK, SpareOK, Spare
<1>9. FreshInv' /\ StoreInv'
  BY <1>5 DEF ConnectorInv, FreshInv, StoreInv
<1>10. EnvInv'
  BY <1>3, <1>6 DEF EnvInv
<1>11. SpareInv'
  <2>1. job[p].op \notin Removals /\ job[p].step # "clean"
    BY DEF Provisioning, Removals
  <2> QED  BY <1>2, <2>1 DEF ConnectorInv, SpareInv, Spare
<1> QED  BY <1>7, <1>8, <1>9, <1>10, <1>11 DEF ConnectorInv, CommandInv

(* The connector's file is not written: the command, which is alone, will  *)
(* record its tunnel as pending.                                           *)
LEMMA ConnectedNotGiven ==
  ASSUME FaultsApart, CommandsApart, IInv, ConnectorInv, NEW p \in Procs,
         job[p].op \in Provisioning, job[p].step = "persist", "env" \in faults,
         Goto(p, Provisioned(p)), UNCHANGED <<faults, live, fresh, store, entry>>
  PROVE  ConnectorInv'
<1>1. "overlap" \notin faults
  BY Calm DEF IInv
<1>2. Provisioned(p) \in {"up", "record"} /\ {"up", "record"} \subseteq Steps \cap Decided
  BY DEF Provisioned, Steps, Decided
<1>3. /\ Only(p) /\ job'[p].step \in {"up", "record"} /\ job'[p].op = job[p].op
      /\ job'[p].token = job[p].token /\ job'[p].descriptor = job[p].descriptor
      /\ job'[p].tunnel = "pending"
  <2>1. job[p].tunnel = "pending"
    BY DEF IInv, HeldInv, Held, Created
  <2> QED  BY <1>2, <2>1, Goes DEF IInv
<1>4. \A q \in Procs : q # p => /\ job[q] = NoJob /\ job'[q] = NoJob
                                /\ job[q].step = "idle" /\ job[q].op = "idle"
  BY <1>1, <1>3, Alone DEF Only, Provisioning
<1>5. CommandInv'
  <2>1. CommandOK(p)
    BY DEF ConnectorInv, CommandInv
  <2>2. CommandOK(p)'
    BY <1>3, <2>1 DEF CommandOK, TokenOK, UseOK, SpareOK, Spare, Created, Decided
  <2> QED  BY <1>4, <2>2, IdleOKNext DEF CommandInv
<1>6. FreshInv' /\ StoreInv'
  BY <1>4 DEF ConnectorInv, FreshInv, StoreInv, Makes, Storing
<1>7. EnvInv'
  <2>1. Demotes(p)'
    BY <1>1, <1>2, <1>3 DEF Demotes
  <2> QED  BY <2>1 DEF EnvInv
<1>8. SpareInv'
  <2>1. \A q \in Procs : job[q].op \notin Removals /\ job[q].step # "clean"
    BY <1>4 DEF Provisioning, Removals
  <2> QED  BY <2>1 DEF ConnectorInv, SpareInv, Spare
<1> QED  BY <1>5, <1>6, <1>7, <1>8 DEF ConnectorInv

LEMMA ConnectedPersist ==
  ASSUME FaultsApart, CommandsApart, IInv, ConnectorInv, NEW p \in Procs, Persist(p)
  PROVE  ConnectorInv'
<1>1. /\ job[p].op \in Provisioning /\ job[p].step = "persist"
      /\ UNCHANGED <<faults, live, fresh, store, entry>>
  BY ProvisionSteps DEF Persist, cloud, Created
<1> DEFINE token == IF job[p].token # NoTunnel THEN job[p].token
                    ELSE IF job[p].descriptor.path THEN store ELSE NoTunnel
<1>2. CASE /\ token # NoTunnel /\ env' = token
           /\ job' = [job EXCEPT ![p] = [@ EXCEPT !.step = Provisioned(p), !.tunnel = "active"]]
  BY <1>1, <1>2, ConnectedGiven
<1>3. CASE "env" \in faults /\ Goto(p, Provisioned(p))
  BY <1>1, <1>3, ConnectedNotGiven
<1>4. CASE token = NoTunnel /\ env' = env /\ Goto(p, Provisioned(p))
  <2>1. job[p].token = NoTunnel /\ job[p].tunnel = "pending"
    BY <1>1, <1>4 DEF IInv, HeldInv, Held, Created
  <2>2. Provisioned(p) \in {"up", "record"} /\ {"up", "record"} \subseteq Steps \cap Decided
    BY DEF Provisioned, Steps, Decided
  <2>3. /\ Only(p) /\ job'[p].step \in {"up", "record"} /\ job'[p].op = job[p].op
        /\ job'[p].token = NoTunnel /\ job'[p].descriptor = job[p].descriptor
        /\ job'[p].tunnel = "pending"
    BY <1>4, <2>1, <2>2, Goes DEF IInv
  <2>4. CommandOK(p)
    BY DEF ConnectorInv, CommandInv
  <2>5. CommandOK(p)'
    BY <1>1, <2>3, <2>4 DEF CommandOK, TokenOK, UseOK, SpareOK, Spare, Created, Decided
  <2>6. /\ job[p].op \notin Removals /\ job[p].step \notin Decided
        /\ \A t \in live : t # job[p].token
    BY <1>1, <2>1, NoTunnelThere DEF Removals, Provisioning, Decided, IInv
  <2> QED  BY <1>1, <1>4, <2>3, <2>5, <2>6, Quiet DEF Makes, Demotes
<1> QED  BY <1>2, <1>3, <1>4 DEF Persist

LEMMA ConnectedBringUp ==
  ASSUME IInv, ConnectorInv, NEW p \in Procs, BringUp(p)
  PROVE  ConnectorInv'
<1>1. /\ job[p].op \in Provisioning /\ job[p].step = "up"
      /\ UNCHANGED <<faults, live, fresh, store, env, entry>>
  BY ProvisionSteps DEF BringUp, cloud, files
<1>2. PICK step \in {"record", "rollback"} : Goto(p, step)
  BY DEF BringUp
<1>3. {"up", "record", "rollback"} \subseteq Steps \cap Decided
  BY DEF Steps, Decided
<1>4. /\ Only(p) /\ job'[p].step = step /\ job'[p].op = job[p].op
      /\ job'[p].token = job[p].token /\ job'[p].descriptor = job[p].descriptor
      /\ job'[p].tunnel = job[p].tunnel
  BY <1>2, <1>3, Goes DEF IInv
<1>5. \A t, steps : Makes(p, t, steps) /\ steps \in {Storing, Created} => FALSE
  BY <1>1 DEF Makes, Storing, Created
<1>6. CommandOK(p)
  BY DEF ConnectorInv, CommandInv
<1>7. CommandOK(p)'
  <2>1. UseOK(p)'
    <3> SUFFICES ASSUME job[p].tunnel = "active", env # job[p].descriptor.id
                 PROVE  \E q \in Procs : Makes(q, job[p].descriptor.id, Created)'
      BY <1>1, <1>4 DEF UseOK
    <3>1. PICK q \in Procs : Makes(q, job[p].descriptor.id, Created)
      BY <1>1, <1>3, <1>6 DEF CommandOK, UseOK
    <3>2. job'[q] = job[q]
      BY <1>4, <1>5, <3>1 DEF Only
    <3> QED  BY <1>4, <3>1, <3>2 DEF Makes
  <2>2. TokenOK(p)'
    BY <1>2, <1>4 DEF TokenOK, Created
  <2>3. SpareOK(p)'
    BY <1>1, <1>3, <1>4, <1>6 DEF CommandOK, SpareOK, Spare
  <2> QED  BY <2>1, <2>2, <2>3 DEF CommandOK
<1>8. job[p].op \notin Removals /\ (Demotes(p) => Demotes(p)')
  BY <1>1, <1>3, <1>4 DEF Removals, Provisioning, Demotes
<1> QED  BY <1>1, <1>4, <1>5, <1>7, <1>8, Quiet

LEMMA ConnectedRollBack ==
  ASSUME FaultsApart, IInv, ConnectorInv, NEW p \in Procs, RollBack(p)
  PROVE  ConnectorInv'
<1>1. /\ job[p].op \in Provisioning /\ job[p].step = "rollback"
      /\ UNCHANGED <<faults, store, env, entry>>
  BY ProvisionSteps DEF RollBack, files
<1>2. "runtime" \in faults /\ "overlap" \notin faults
  BY <1>1, Apart DEF IInv, StepInv
<1>3. Only(p) /\ job'[p] = NoJob
  BY Finishes DEF IInv, RollBack
<1>4. \A q \in Procs : q # p => /\ job[q] = NoJob /\ job'[q] = NoJob
                                /\ job[q].step = "idle" /\ job[q].op = "idle"
  BY <1>1, <1>2, <1>3, Alone DEF Only, Provisioning
<1>5. CommandInv'
  BY <1>3, <1>4, IdleOKNext DEF CommandInv
<1>6. /\ \/ live' = live /\ job[p].descriptor.id = NoTunnel
         \/ live' = {}
      /\ fresh' = fresh
  BY <1>1 DEF RollBack, Delete, cloud, IInv, OneInv, HeldInv, Held, Decided, NoDescriptor
<1>7. FreshInv' /\ StoreInv'
  BY <1>1, <1>4, <1>6 DEF ConnectorInv, FreshInv, StoreInv, Makes, Storing
<1>8. EnvInv'
  <2> SUFFICES ASSUME live' = live, job[p].descriptor.id = NoTunnel,
                      entry.tunnel = "active", entry.descriptor.id \in live
               PROVE  env = entry.descriptor.id
    BY <1>1, <1>6 DEF EnvInv
  <2>1. job[p].tunnel # "pending"
    BY <1>1, NoTunnelThere DEF IInv, HeldInv, Held, Decided
  <2>2. \A q \in Procs : ~ Makes(q, entry.descriptor.id, Created) /\ ~ Clears(q) /\ ~ Demotes(q)
    BY <1>1, <1>4, <2>1 DEF Makes, Clears, Demotes, Created, Provisioning, Removals
  <2> QED  BY <2>2 DEF ConnectorInv, EnvInv
<1>9. SpareInv'
  BY <1>1, <1>2 DEF SpareInv, Spare
<1> QED  BY <1>5, <1>7, <1>8, <1>9 DEF ConnectorInv

LEMMA ConnectedRecord ==
  ASSUME IInv, ConnectorInv, NEW p \in Procs, Record(p)
  PROVE  ConnectorInv'
<1>1. /\ job[p].op \in Provisioning /\ job[p].step = "record" /\ job[p].step \in Decided
      /\ UNCHANGED <<faults, live, fresh, store, env>>
  BY DEF Record, cloud, files, Provisioning, Decided
<1>2. Only(p) /\ job'[p] = NoJob
  BY Finishes DEF IInv, Record
<1>3. \A q \in Procs : q # p => job'[q] = job[q]
  BY <1>2 DEF Only
<1>4. entry'.tunnel = job[p].tunnel /\ entry'.descriptor = job[p].descriptor
  <2>1. /\ job[p].tunnel \in {"pending", "active", "manual"}
        /\ job[p].descriptor \in Descriptors
    BY JobFacts DEF IInv, TypeOK
  <2> QED  BY <2>1 DEF Record, IInv, TypeOK, Entries
<1>5. job[p].descriptor.id \in live \cup {NoTunnel}
  BY <1>1, NoJobFacts DEF IInv, HeldInv, Held
<1>6. /\ job[p].op \notin Removals /\ job[p].op # "idle" /\ job[p].step # "clean"
      /\ job[p].step \notin Storing \cup Created
  BY <1>1 DEF Provisioning, Removals, Storing, Created
<1>7. ASSUME NEW t, NEW q \in Procs, NEW steps \in {Storing, Created}, Makes(q, t, steps)
      PROVE  q # p /\ Makes(q, t, steps)'
  BY <1>3, <1>6, <1>7 DEF Makes
<1>8. CommandInv'
  <2> SUFFICES ASSUME NEW q \in Procs, q # p PROVE CommandOK(q)'
    BY <1>2, IdleOKNext DEF CommandInv
  <2>1. CommandOK(q) /\ job'[q] = job[q]
    BY <1>3 DEF ConnectorInv, CommandInv
  <2>2. CASE "overlap" \in faults
    <3>1. UseOK(q)'
      BY <1>1, <1>7, <2>1 DEF CommandOK, UseOK
    <3> QED  BY <1>1, <2>1, <2>2, <3>1 DEF CommandOK, TokenOK, SpareOK, Spare
  <2>3. CASE "overlap" \notin faults
    BY <1>6, <2>1, <2>3, Alone, IdleOKNext
  <2> QED  BY <2>2, <2>3
<1>9. FreshInv' /\ StoreInv'
  BY <1>1, <1>4, <1>5, <1>7, NoTunnelThere DEF ConnectorInv, FreshInv, StoreInv, IInv
<1>10. EnvInv'
  <2>1. UseOK(p)
    BY DEF ConnectorInv, CommandInv, CommandOK
  <2> QED  BY <1>1, <1>4, <1>7, <2>1 DEF UseOK, EnvInv
<1>11. SpareInv'
  <2>1. SpareOK(p)
    BY DEF ConnectorInv, CommandInv, CommandOK
  <2>2. Spare /\ entry'.descriptor.id # NoTunnel => store' = NoTunnel \/ entry'.descriptor.path
    BY <1>1, <1>4, <2>1 DEF SpareOK
  <2>3. Spare => \/ store' \in live' \cup {NoTunnel}
                 \/ \E q \in Procs : job'[q].step = "clean" /\ job'[q].descriptor.path
    BY <1>1, <1>3, <1>6 DEF ConnectorInv, SpareInv
  <2> QED  BY <1>1, <1>4, <1>5, <2>2, <2>3 DEF SpareInv, Spare
<1> QED  BY <1>8, <1>9, <1>10, <1>11 DEF ConnectorInv

(* A removal is alone; what it leaves behind.                              *)
LEMMA ConnectedRemoving ==
  ASSUME IInv, ConnectorInv, NEW p \in Procs, job[p].op \in Removals, Only(p),
         \/ job'[p] = NoJob
         \/ job'[p].op \in Removals /\ job'[p].step \in Deleted,
         live' \subseteq live, fresh' = fresh, store' \in {store, NoTunnel},
         entry'.descriptor.id \in {entry.descriptor.id, NoTunnel},
         EnvInv', SpareInv'
  PROVE  ConnectorInv'
<1>1. \A q \in Procs : q # p => /\ job[q].step = "idle" /\ job'[q] = NoJob
  BY Alone DEF Only, Removals
<1>2. job[p].step \notin Storing
  BY DEF IInv, StepInv, Deleted, Storing
<1>3. CommandInv'
  <2>1. CommandOK(p)'
    <3>1. CASE job'[p] = NoJob
      BY <3>1, IdleOKNext
    <3>2. CASE job'[p].op \in Removals /\ job'[p].step \in Deleted
      BY <3>2 DEF CommandOK, TokenOK, UseOK, SpareOK, Removals, Provisioning, Deleted, Created
    <3> QED  BY <3>1, <3>2
  <2> QED  BY <1>1, <2>1, IdleOKNext DEF CommandInv
<1>4. FreshInv'
  BY NoTunnelThere DEF ConnectorInv, FreshInv, IInv
<1>5. StoreInv'
  <2>1. \A q \in Procs : job[q].step \notin Storing
    BY <1>1, <1>2 DEF Storing
  <2> QED  BY <2>1 DEF ConnectorInv, StoreInv, Makes
<1> QED  BY <1>3, <1>4, <1>5 DEF ConnectorInv

LEMMA ConnectedRemove ==
  ASSUME IInv, ConnectorInv, NEW p \in Procs, NEW op \in Removals, NEW force \in BOOLEAN,
         Remove(p, op, force)
  PROVE  ConnectorInv'
<1>1. /\ Only(p) /\ AllIdle /\ job'[p].op = op
      /\ job'[p].step \in {"forget", "delete"}
  BY Removes DEF IInv
<1>2. UNCHANGED <<faults, live, fresh, store, env, entry>>
  BY DEF Remove, cloud, files
<1>3. \A q \in Procs : job[q] = NoJob /\ job[q].step = "idle" /\ job[q].op = "idle"
  BY <1>1, NoJobFacts DEF AllIdle, IInv, StepInv
<1>4. \A q \in Procs : q # p => job'[q] = NoJob
  BY <1>1, <1>3 DEF Only
<1>5. CommandInv'
  <2>1. CommandOK(p)'
    BY <1>1 DEF CommandOK, TokenOK, UseOK, SpareOK, Removals, Provisioning, Created
  <2> QED  BY <1>4, <2>1, IdleOKNext DEF CommandInv
<1>6. FreshInv' /\ StoreInv' /\ EnvInv'
  BY <1>2, <1>3 DEF ConnectorInv, FreshInv, StoreInv, EnvInv, Makes, Clears, Demotes, Storing,
                    Created, Removals, Provisioning
<1>7. SpareInv'
  BY <1>2, <1>3 DEF ConnectorInv, SpareInv, Spare, Removals
<1> QED  BY <1>5, <1>6, <1>7 DEF ConnectorInv

(* What the connector's file and the token store's hold before a removal   *)
(* comes to its first step but delete.                                     *)
LEMMA RemovalFiles ==
  ASSUME IInv, ConnectorInv, NEW p \in Procs, job[p].op \in Removals
  PROVE  /\ ~ Clears(p) /\ entry.tunnel = "active" /\ entry.descriptor.id \in live =>
                env = entry.descriptor.id
         /\ Spare => \/ store \in live \cup {NoTunnel}
                     \/ job[p].step = "clean" /\ job[p].descriptor.path
         /\ Spare => \/ entry.descriptor.id \in live \cup {NoTunnel}
                     \/ job[p].step \in Deleted
<1>1. \A q \in Procs : q # p => /\ job[q].step = "idle" /\ job[q].op = "idle"
  BY Alone DEF Removals
<1>2. job[p].step \notin Created /\ job[p].op \notin Provisioning
  BY DEF IInv, StepInv, Deleted, Created, Provisioning, Removals
<1>3. \A q \in Procs : ~ Makes(q, entry.descriptor.id, Created) /\ ~ Demotes(q)
  BY <1>1, <1>2 DEF Makes, Demotes, Created, Provisioning
<1>4. \A q \in Procs : q # p => ~ Clears(q) /\ job[q].step # "clean" /\ job[q].op \notin Removals
  BY <1>1 DEF Clears, Removals
<1> QED  BY <1>3, <1>4 DEF ConnectorInv, EnvInv, SpareInv

LEMMA ConnectedDelete ==
  ASSUME IInv, ConnectorInv, NEW p \in Procs, DeleteTunnel(p)
  PROVE  ConnectorInv'
<1>1. /\ job[p].op \in Removals /\ job[p].step = "delete"
      /\ UNCHANGED <<faults, store, env, entry>>
  BY RemovalSteps DEF DeleteTunnel, files
<1>2. {"clean", "forget"} \subseteq Steps \cap Deleted
  BY DEF Steps, Deleted
<1>3. /\ Only(p)
      /\ \/ job'[p] = NoJob
         \/ job'[p].op \in Removals /\ job'[p].step \in Deleted
  <2>1. Finish(p) \/ \E step \in {"clean", "forget"} : Goto(p, step)
    BY DEF DeleteTunnel
  <2> QED  BY <1>1, <1>2, <2>1, Finishes, Goes DEF IInv
<1>4. \/ live' = live /\ fresh' = fresh
      \/ /\ job[p].descriptor.id # NoTunnel /\ live' \subseteq live /\ fresh' = fresh
         /\ Goto(p, "clean")
  BY DEF DeleteTunnel, Delete, cloud
<1>5. job[p].descriptor = entry.descriptor
  BY <1>1 DEF IInv, RemovalInv
<1>6. job[p].step \notin Deleted /\ ~ Clears(p)
  BY <1>1 DEF Deleted, Clears
<1>7. EnvInv'
  BY <1>1, <1>4, <1>6, RemovalFiles DEF EnvInv
<1>8. SpareInv'
  <2> SUFFICES ASSUME Spare PROVE SpareInv'
    BY <1>1 DEF SpareInv, Spare
  <2>1. entry.descriptor.id # NoTunnel => store = NoTunnel \/ entry.descriptor.path
    BY DEF ConnectorInv, SpareInv
  <2>2. store \in live \cup {NoTunnel} /\ entry.descriptor.id \in live \cup {NoTunnel}
    BY <1>1, <1>6, RemovalFiles
  <2>3. CASE live' = live
    BY <1>1, <2>1, <2>2, <2>3 DEF SpareInv
  <2>4. CASE job[p].descriptor.id # NoTunnel /\ Goto(p, "clean")
    <3>1. /\ job'[p].step = "clean" /\ job'[p].step \in Deleted /\ job'[p].op \in Removals
          /\ job'[p].descriptor = entry.descriptor
      BY <1>1, <1>2, <1>5, <2>4, Goes DEF IInv
    <3>2. store = NoTunnel \/ job'[p].descriptor.path
      BY <1>5, <2>1, <2>4, <3>1
    <3> QED  BY <1>1, <2>1, <3>1, <3>2 DEF SpareInv
  <2> QED  BY <1>4, <2>3, <2>4
<1> QED  BY <1>1, <1>3, <1>4, <1>7, <1>8, ConnectedRemoving

LEMMA ConnectedClean ==
  ASSUME IInv, ConnectorInv, NEW p \in Procs, Clean(p)
  PROVE  ConnectorInv'
<1>1. /\ job[p].op \in Removals /\ job[p].step = "clean"
      /\ UNCHANGED <<faults, live, fresh, entry>>
      /\ store' = (IF job[p].descriptor.path THEN NoTunnel ELSE store)
  BY RemovalSteps DEF Clean, cloud
<1>2. /\ Only(p) /\ job'[p].op \in Removals /\ job'[p].step = "record"
      /\ job'[p].step \in Deleted
  <2>1. "record" \in Steps \cap Deleted
    BY DEF Steps, Deleted
  <2> QED  BY <1>1, <2>1, Goes DEF IInv, Clean
<1>3. Clears(p)'
  BY <1>2 DEF Clears
<1>4. EnvInv'
  BY <1>3 DEF EnvInv
<1>5. SpareInv'
  BY <1>1, <1>2, RemovalFiles DEF ConnectorInv, SpareInv, Spare
<1> QED  BY <1>1, <1>2, <1>4, <1>5, ConnectedRemoving

(* The entry's tunnel is none or disabled, and names no tunnel.            *)
LEMMA ConnectedEnds ==
  ASSUME IInv, ConnectorInv, NEW p \in Procs, job[p].op \in Removals,
         job[p].step \in {"record", "forget"}, Only(p),
         \/ job'[p] = NoJob
         \/ job'[p].op \in Removals /\ job'[p].step \in Deleted,
         UNCHANGED <<faults, live, fresh, store>>,
         entry'.tunnel # "active", entry'.descriptor.id = NoTunnel
  PROVE  ConnectorInv'
<1>1. EnvInv'
  BY DEF EnvInv
<1>2. SpareInv'
  BY RemovalFiles DEF SpareInv, Spare
<1> QED  BY <1>1, <1>2, ConnectedRemoving

LEMMA ConnectedRecordRemoved ==
  ASSUME IInv, ConnectorInv, NEW p \in Procs, RecordRemoved(p)
  PROVE  ConnectorInv'
<1>1. /\ job[p].op \in Removals /\ job[p].step = "record"
      /\ UNCHANGED <<faults, live, fresh, store>>
  BY DEF RecordRemoved, cloud, files
<1>2. /\ Only(p)
      /\ \/ job'[p] = NoJob
         \/ job'[p].op \in Removals /\ job'[p].step \in Deleted
  <2>1. "forget" \in Steps \cap Deleted
    BY DEF Steps, Deleted
  <2> QED  BY <1>1, <2>1, Finishes, Goes DEF IInv, RecordRemoved
<1>3. entry'.tunnel # "active" /\ entry'.descriptor.id = NoTunnel
  BY DisabledType, NoJobFacts DEF RecordRemoved, IInv
<1> QED  BY <1>1, <1>2, <1>3, ConnectedEnds

LEMMA ConnectedForget ==
  ASSUME IInv, ConnectorInv, NEW p \in Procs, Forget(p)
  PROVE  ConnectorInv'
<1>1. /\ job[p].op \in Removals /\ job[p].step = "forget"
      /\ UNCHANGED <<faults, live, fresh, store>>
  BY RemovalSteps DEF Forget, cloud
<1>2. Only(p) /\ job'[p] = NoJob
  BY Finishes DEF IInv, Forget
<1>3. entry'.tunnel # "active" /\ entry'.descriptor.id = NoTunnel
  BY Forgotten DEF IInv
<1> QED  BY <1>1, <1>2, <1>3, ConnectedEnds

LEMMA ConnectedStutter ==
  ASSUME ConnectorInv, UNCHANGED vars
  PROVE  ConnectorInv'
BY DEF vars, cloud, files, ConnectorInv, CommandInv, CommandOK, TokenOK, UseOK, SpareOK, FreshInv,
       StoreInv, EnvInv, SpareInv, Makes, Clears, Demotes, Spare

LEMMA ConnectedInit == Init => ConnectorInv
<1> SUFFICES ASSUME Init PROVE ConnectorInv
  OBVIOUS
<1>1. CommandInv
  BY IdleOK DEF Init, CommandInv
<1>2. FreshInv /\ entry.descriptor.id = NoTunnel /\ entry.tunnel = "none" /\ store = NoTunnel
  BY NoJobFacts, TunnelStateAssumption DEF Init, FreshInv
<1> QED  BY <1>1, <1>2 DEF Init, ConnectorInv, StoreInv, EnvInv, SpareInv

LEMMA ConnectorStep ==
  ASSUME FaultsApart, CommandsApart, IInv, ConnectorInv, [Next]_vars
  PROVE  ConnectorInv'
BY ConnectedBegin, ConnectedFind, ConnectedCreate, ConnectedConfigure, ConnectedKeep,
   ConnectedPersist, ConnectedBringUp, ConnectedRollBack, ConnectedRecord, ConnectedRemove,
   ConnectedDelete, ConnectedClean, ConnectedRecordRemoved, ConnectedForget, ConnectedStutter
DEF Next

(* Between commands, a tunnel that is listed as online and that Cloudflare *)
(* has is the one whose token its connector got, whichever commands came   *)
(* and whatever of them failed.                                            *)
THEOREM ConnectorsOwn == ASSUME FaultsApart, CommandsApart PROVE Spec => []ConnectorOwn
<1>1. IInv /\ ConnectorInv => ConnectorOwn
  <2> SUFFICES ASSUME IInv, ConnectorInv, AllIdle, entry.tunnel = "active",
                      entry.descriptor.id \in live
               PROVE  env = entry.descriptor.id
    BY DEF ConnectorOwn
  <2>1. \A p \in Procs : job[p].op = "idle" /\ job[p].step = "idle"
    BY NoJobFacts DEF AllIdle, IInv, StepInv
  <2> QED  BY <2>1 DEF ConnectorInv, EnvInv, Makes, Clears, Demotes, Created, Removals, Provisioning
<1>2. IInv /\ ConnectorInv /\ [Next]_vars => ConnectorInv'
  BY ConnectorStep
<1>3. IInv /\ [Next]_vars => IInv'
  BY InvStep
<1> QED  BY <1>1, <1>2, <1>3, InitInv, ConnectedInit, PTL DEF Spec
=============================================================================
