----------------------- MODULE FeatureLifecycleProofs -----------------------
(***************************************************************************)
(* What a feature's starts and teardowns guarantee for any set of calls,   *)
(* scenarios and crashes. CommitsKept needs nothing of the scenarios; the  *)
(* others hold where no teardown runs beside another call of the feature   *)
(* (TeardownsAlone), and two of them where one provider makes the          *)
(* feature's sandboxes (OneProvider): the code serializes neither.         *)
(*                                                                         *)
(*   CallInv      the types, and which request and runtime each step is of *)
(*   AloneInv     which calls a scenario lets run together                 *)
(*   RecordedInv  a recorded worktree is listed, or its removal is under   *)
(*                way                                                      *)
(*   WorkInv, CommitInv   what the steps that remove or reset something    *)
(*                were asked for, and what they saw before                 *)
(*   FindInv      the sandbox is in the entry, or in the call that will    *)
(*                write it                                                 *)
(*   GoneInv      what an unforced teardown has already made sure of       *)
(***************************************************************************)
EXTENDS FeatureLifecycle, TLAPS

---------------------------------------------------------------------------
(* What each change of the registry makes of the feature's entry.          *)

LEMMA RuntimeTypes ==
  /\ Sandbox \in Runtime
  /\ \A kind \in Kinds : Bare(kind) \in Runtime /\ Bare(kind).provider = kind /\ Bare(kind) # Sandbox
BY DEF Sandbox, Bare, Runtime, Kinds

LEMMA StartEntryType ==
  ASSUME NEW status \in StoredStatus, NEW pid \in Procs \cup {NoPid}, NEW runtime \in Runtime
  PROVE  /\ StartEntry(status, pid, runtime) \in Entry
         /\ StartEntry(status, pid, runtime).status = status
         /\ StartEntry(status, pid, runtime).setup = pid
         /\ StartEntry(status, pid, runtime).runtime = runtime
BY DEF StartEntry, Entry, TunnelStatus

LEMMA Upserted ==
  ASSUME NEW reg \in Registry, NEW e \in Entry
  PROVE  LET new == UpsertStartedFeature(reg, Feature, e)
         IN  /\ new \in Registry
             /\ Listed(new, Feature)
             /\ new[Feature].status = e.status
             /\ new[Feature].setup = e.setup
             /\ new[Feature].runtime = e.runtime
<1> DEFINE kept == IF Listed(reg, Feature) /\ e.tunnel = "none"
                   THEN [e EXCEPT !.tunnel = reg[Feature].tunnel]
                   ELSE e
<1>1. /\ kept \in Entry
      /\ kept.status = e.status /\ kept.setup = e.setup /\ kept.runtime = e.runtime
  BY DEF Registry, Entry, Listed
<1>2. UpsertStartedFeature(reg, Feature, e) = [reg EXCEPT ![Feature] = kept]
  BY DEF UpsertStartedFeature
<1> HIDE DEF kept
<1> QED
  BY <1>1, <1>2, FeatureLifecycleAssumption DEF Registry, Listed

LEMMA SetupStarted ==
  ASSUME NEW reg \in Registry, NEW p \in Procs, NEW runtime \in Runtime
  PROVE  LET new  == RecordSetupStarted(reg, Feature, p, runtime)
             live == Listed(reg, Feature) /\ reg[Feature].status # "removed"
         IN  /\ new \in Registry
             /\ Listed(new, Feature)
             /\ new[Feature].status # "removed"
             /\ new[Feature].setup = p
             /\ new[Feature].runtime = IF live THEN reg[Feature].runtime ELSE runtime
<1>1. CASE Listed(reg, Feature) /\ reg[Feature].status # "removed"
  <2> DEFINE marked == [reg[Feature] EXCEPT !.setup = p]
  <2>1. /\ marked \in Entry
        /\ marked.setup = p /\ marked.status = reg[Feature].status
        /\ marked.runtime = reg[Feature].runtime
    BY <1>1 DEF Registry, Entry, Listed
  <2>2. RecordSetupStarted(reg, Feature, p, runtime) = [reg EXCEPT ![Feature] = marked]
    BY <1>1 DEF RecordSetupStarted
  <2> HIDE DEF marked
  <2> QED
    BY <1>1, <2>1, <2>2, FeatureLifecycleAssumption DEF Registry, Listed
<1>2. CASE ~ (Listed(reg, Feature) /\ reg[Feature].status # "removed")
  <2>1. "active" \in StoredStatus /\ "active" # "removed"
    BY DEF StoredStatus
  <2> QED
    BY <1>2, <2>1, StartEntryType, Upserted DEF RecordSetupStarted
<1> QED  BY <1>1, <1>2

LEMMA SetupRuntime ==
  ASSUME NEW reg \in Registry, NEW p \in Procs, NEW runtime \in Runtime
  PROVE  LET new == RecordSetupRuntime(reg, Feature, p, runtime)
         IN  /\ new \in Registry
             /\ ~ MarkedBy(reg, Feature, p) => new = reg
             /\ MarkedBy(reg, Feature, p) =>
                  /\ Listed(new, Feature)
                  /\ new[Feature].status = reg[Feature].status
                  /\ new[Feature].setup = p
                  /\ new[Feature].runtime = runtime
<1>1. CASE MarkedBy(reg, Feature, p)
  <2> DEFINE named == [reg[Feature] EXCEPT !.runtime = runtime]
  <2>1. /\ named \in Entry
        /\ named.setup = p /\ named.status = reg[Feature].status /\ named.runtime = runtime
    BY <1>1 DEF Registry, Entry, MarkedBy, Listed
  <2>2. RecordSetupRuntime(reg, Feature, p, runtime) = [reg EXCEPT ![Feature] = named]
    BY <1>1 DEF RecordSetupRuntime
  <2> HIDE DEF named
  <2> QED
    BY <1>1, <2>1, <2>2, FeatureLifecycleAssumption DEF Registry, Listed
<1>2. CASE ~ MarkedBy(reg, Feature, p)
  BY <1>2 DEF RecordSetupRuntime
<1> QED  BY <1>1, <1>2

LEMMA SetupDiscarded ==
  ASSUME NEW reg \in Registry, NEW p \in Procs, NEW previous \in Entry \cup {NoEntry}
  PROVE  LET new == DiscardSetup(reg, Feature, p, previous)
         IN  /\ new \in Registry
             /\ ~ MarkedBy(reg, Feature, p) => new = reg
             /\ MarkedBy(reg, Feature, p) => new[Feature] = previous
BY DEF DiscardSetup, Registry

LEMMA TeardownRecorded ==
  ASSUME NEW reg \in Registry
  PROVE  LET new == RecordTeardown(reg, Feature)
         IN  /\ new \in Registry
             /\ ~ Listed(reg, Feature) => new = reg
             /\ Listed(reg, Feature) =>
                  /\ Listed(new, Feature)
                  /\ new[Feature].status = "removed"
                  /\ new[Feature].setup = NoPid
                  /\ new[Feature].runtime = reg[Feature].runtime
<1>1. CASE Listed(reg, Feature)
  <2> DEFINE e == [reg[Feature] EXCEPT !.status = "removed", !.setup = NoPid,
                     !.tunnel = IF reg[Feature].tunnel = "none" THEN "none" ELSE "disabled"]
  <2>1. /\ e \in Entry
        /\ e.status = "removed" /\ e.setup = NoPid /\ e.runtime = reg[Feature].runtime
    BY <1>1 DEF Registry, Entry, Listed, StoredStatus, TunnelStatus
  <2>2. RecordTeardown(reg, Feature) = [reg EXCEPT ![Feature] = e]
    BY <1>1 DEF RecordTeardown
  <2> HIDE DEF e
  <2> QED
    BY <1>1, <2>1, <2>2, FeatureLifecycleAssumption DEF Registry, Listed
<1>2. CASE ~ Listed(reg, Feature)
  BY <1>2 DEF RecordTeardown
<1> QED  BY <1>1, <1>2

---------------------------------------------------------------------------
(* The variables' types, and what a call is about at each of its steps.    *)

StartedKinds == {r.kind : r \in Starts}
Provided(kind) == IF kind = "sbx" THEN Sandbox ELSE Bare(kind)

SbxSteps == {"recordRuntime", "retain", "clearRuntime"}
InGuestSteps == {"cleanWorktree", "cleanBranch", "cleanEntry"}
PreparedSteps ==
    {"recordRuntime", "environment", "retain", "destroyFailed", "clearRuntime", "recordStart"}

CallOK(p) ==
    /\ pc[p] \in StartSteps =>
        /\ job[p].request \in StartRequest
        /\ job[p].request.kind \in StartedKinds
    /\ pc[p] \in TeardownSteps => job[p].request \in TeardownRequest
    /\ pc[p] \in SbxSteps => job[p].request.kind = "sbx"
    /\ pc[p] \in InGuestSteps => job[p].request.kind = "in_guest"
    /\ pc[p] \in PreparedSteps => job[p].runtime = Provided(job[p].request.kind)

CallInv == TypeOK /\ \A p \in Procs : CallOK(p)

LEMMA StepNames ==
  /\ "idle" \notin StartSteps \cup TeardownSteps
  /\ StartSteps \cap TeardownSteps = {}
  /\ SbxSteps \cup InGuestSteps \cup PreparedSteps \subseteq StartSteps
BY DEF StartSteps, TeardownSteps, SbxSteps, InGuestSteps, PreparedSteps

LEMMA NoJobType == NoJob \in Job
BY RuntimeTypes DEF NoJob, Job, Kinds

LEMMA CallInitInv == ASSUME Init PROVE CallInv
<1>1. registry \in Registry
  BY DEF Init, EmptyRegistry, Registry
<1>2. job \in [Procs -> Job]
  BY NoJobType DEF Init
<1>3. TypeOK
  BY <1>1, <1>2 DEF Init, TypeOK
<1> QED
  BY <1>3, StepNames DEF Init, CallInv, CallOK

LEMMA CallReturn ==
  ASSUME CallInv, NEW p \in Procs, Leave(p), UNCHANGED scenario
  PROVE  /\ pc' \in [Procs -> StartSteps \cup TeardownSteps \cup {"idle"}]
         /\ job' \in [Procs -> Job]
         /\ \A q \in Procs : CallOK(q)'
<1>1. /\ pc' \in [Procs -> StartSteps \cup TeardownSteps \cup {"idle"}]
      /\ job' \in [Procs -> Job]
  BY NoJobType DEF CallInv, TypeOK, Leave, Goto
<1>2. ASSUME NEW q \in Procs PROVE CallOK(q)'
  <2>1. CASE q = p
    BY <2>1, StepNames DEF CallInv, TypeOK, Leave, Goto, CallOK
  <2>2. CASE q # p
    BY <2>2 DEF CallInv, TypeOK, Leave, Goto, CallOK, StartedKinds, Starts
  <2> QED  BY <2>1, <2>2
<1> QED  BY <1>1, <1>2

(* The step is of one call, to another step of it, and what the call knows *)
(* stays or becomes new.                                                   *)
LEMMA CallGoesOn ==
  ASSUME CallInv, NEW p \in Procs, NEW step \in StartSteps \cup TeardownSteps, NEW new \in Job,
         Goto(p, step), job' = [job EXCEPT ![p] = new], UNCHANGED scenario,
         step \in StartSteps => new.request \in StartRequest /\ new.request.kind \in StartedKinds,
         step \in TeardownSteps => new.request \in TeardownRequest,
         step \in SbxSteps => new.request.kind = "sbx",
         step \in InGuestSteps => new.request.kind = "in_guest",
         step \in PreparedSteps => new.runtime = Provided(new.request.kind)
  PROVE  /\ pc' \in [Procs -> StartSteps \cup TeardownSteps \cup {"idle"}]
         /\ job' \in [Procs -> Job]
         /\ \A q \in Procs : CallOK(q)'
<1>1. /\ pc' \in [Procs -> StartSteps \cup TeardownSteps \cup {"idle"}]
      /\ job' \in [Procs -> Job]
  BY DEF CallInv, TypeOK, Goto
<1>2. ASSUME NEW q \in Procs PROVE CallOK(q)'
  <2>1. CASE q = p
    <3>1. pc'[q] = step /\ job'[q] = new /\ StartedKinds' = StartedKinds
      BY <2>1 DEF CallInv, TypeOK, Goto, StartedKinds, Starts
    <3> QED  BY <3>1 DEF CallOK
  <2>2. CASE q # p
    BY <2>2 DEF CallInv, TypeOK, Goto, CallOK, StartedKinds, Starts
  <2> QED  BY <2>1, <2>2
<1> QED  BY <1>1, <1>2

LEMMA CallMovesOn ==
  ASSUME CallInv, NEW p \in Procs, NEW step \in StartSteps \cup TeardownSteps,
         Goto(p, step), UNCHANGED <<job, scenario>>,
         step \in StartSteps => pc[p] \in StartSteps,
         step \in TeardownSteps => pc[p] \in TeardownSteps,
         step \in SbxSteps => job[p].request.kind = "sbx",
         step \in InGuestSteps => job[p].request.kind = "in_guest",
         step \in PreparedSteps => pc[p] \in PreparedSteps
  PROVE  /\ pc' \in [Procs -> StartSteps \cup TeardownSteps \cup {"idle"}]
         /\ job' \in [Procs -> Job]
         /\ \A q \in Procs : CallOK(q)'
<1>1. job[p] \in Job /\ job' = [job EXCEPT ![p] = job[p]] /\ CallOK(p)
  BY DEF CallInv, TypeOK
<1> DEFINE same == job[p]
<1>2. /\ step \in StartSteps => same.request \in StartRequest /\ same.request.kind \in StartedKinds
      /\ step \in TeardownSteps => same.request \in TeardownRequest
      /\ step \in PreparedSteps => same.runtime = Provided(same.request.kind)
  BY <1>1 DEF CallOK
<1> QED  BY <1>1, <1>2, CallGoesOn

(* What the calls share. *)
WorldOK ==
    /\ scenario \in Scenarios
    /\ worktree \in {"absent", "clean", "dirty"}
    /\ branch \in {"absent", "merged", "unmerged"}
    /\ registry \in Registry
    /\ alive \subseteq Kinds
    /\ recorded \in BOOLEAN
    /\ known \in BOOLEAN

CallsOK ==
    /\ pc \in [Procs -> StartSteps \cup TeardownSteps \cup {"idle"}]
    /\ job \in [Procs -> Job]
    /\ \A p \in Procs : CallOK(p)

LEMMA EntryRuntime == ASSUME CallInv PROVE TeardownRuntime \in Runtime
<1>1. Listed(registry, Feature) => entry.runtime \in Runtime
  BY DEF CallInv, TypeOK, Registry, Entry, Listed, entry
<1> QED
  BY <1>1, RuntimeTypes DEF TeardownRuntime, Kinds

LEMMA AsksFor ==
  ASSUME CallInv
  PROVE  Starts \subseteq StartRequest /\ Teardowns \subseteq TeardownRequest
BY FeatureLifecycleAssumption DEF CallInv, TypeOK, Starts, Teardowns

LEMMA KindsAsked == ASSUME CallInv PROVE StartedKinds \subseteq Kinds
BY AsksFor DEF StartedKinds, StartRequest

LEMMA StartCheckStep ==
  ASSUME CallInv, NEW p \in Procs, NEW r \in Starts, StartCheck(p, r)
  PROVE  WorldOK' /\ CallsOK'
<1> DEFINE recreate == r.kind # "in_guest" /\ branch # "absent" /\ worktree = "absent"
                          /\ Listed(registry, Feature)
           reuse == r.reuse \/ recreate
           asked == [r EXCEPT !.reuse = reuse]
           new == [NoJob EXCEPT !.request = asked, !.existed = worktree # "absent"]
<1>1. r \in StartRequest /\ r.kind \in StartedKinds
  BY AsksFor DEF StartedKinds
<1>2. asked \in StartRequest /\ asked.kind = r.kind
  BY <1>1 DEF StartRequest
<1>3. new \in Job /\ new.request = asked
  <2> HIDE DEF asked
  <2> QED  BY <1>2, NoJobType DEF NoJob, Job
<1>4. job' = [job EXCEPT ![p] = new] /\ Goto(p, "create") /\ UNCHANGED scenario
  BY DEF StartCheck
<1>5. WorldOK'
  BY DEF StartCheck, CallInv, TypeOK, WorldOK
<1>6. /\ "create" \in StartSteps /\ "create" \notin TeardownSteps
      /\ "create" \notin SbxSteps \cup InGuestSteps \cup PreparedSteps
  BY DEF StartSteps, TeardownSteps, SbxSteps, InGuestSteps, PreparedSteps
<1> HIDE DEF asked, new
<1>7. CallsOK'
  BY <1>1, <1>2, <1>3, <1>4, <1>6, CallGoesOn DEF CallsOK
<1> QED  BY <1>5, <1>7

LEMMA TeardownPlanStep ==
  ASSUME CallInv, NEW p \in Procs, NEW r \in Teardowns, TeardownPlan(p, r)
  PROVE  WorldOK' /\ CallsOK'
<1> DEFINE new == [NoJob EXCEPT !.request = r, !.existed = worktree # "absent",
                                !.runtime = TeardownRuntime]
<1>1. r \in TeardownRequest
  BY AsksFor
<1>2. new \in Job /\ new.request = r
  BY <1>1, NoJobType, EntryRuntime DEF NoJob, Job
<1>3. job' = [job EXCEPT ![p] = new] /\ Goto(p, "destroy") /\ UNCHANGED scenario
  BY DEF TeardownPlan
<1>4. WorldOK'
  BY DEF TeardownPlan, CallInv, TypeOK, WorldOK
<1>5. "destroy" \in TeardownSteps /\ "destroy" \notin StartSteps
  BY DEF StartSteps, TeardownSteps
<1> HIDE DEF new
<1>6. CallsOK'
  BY <1>1, <1>2, <1>3, <1>5, StepNames, CallGoesOn DEF CallsOK
<1> QED  BY <1>4, <1>6

LEMMA AbandonStep ==
  ASSUME CallInv, NEW p \in Procs, pc[p] \in StartSteps, Abandon(p), UNCHANGED scenario
  PROVE  CallsOK'
<1>1. CASE job[p].request.kind = "in_guest"
  <2>1. Goto(p, "cleanWorktree") /\ UNCHANGED job
    BY <1>1 DEF Abandon
  <2>2. /\ "cleanWorktree" \in StartSteps /\ "cleanWorktree" \notin TeardownSteps
        /\ "cleanWorktree" \notin SbxSteps \cup PreparedSteps
    BY DEF StartSteps, TeardownSteps, SbxSteps, PreparedSteps
  <2> QED  BY <1>1, <2>1, <2>2, CallMovesOn DEF CallsOK
<1>2. CASE job[p].request.kind # "in_guest"
  BY <1>2, CallReturn DEF Abandon, CallsOK
<1> QED  BY <1>1, <1>2

LEMMA StartStepTypes ==
  ASSUME CallInv, NEW p \in Procs, StartStep(p)
  PROVE  WorldOK' /\ CallsOK'
<1>1. CASE CreateWorktree(p)
  <2>1. WorldOK'
    BY <1>1 DEF CreateWorktree, CallInv, TypeOK, WorldOK
  <2>2. CallsOK'
    BY <1>1, CallMovesOn DEF CreateWorktree, CallsOK, StartSteps, TeardownSteps, SbxSteps,
                             InGuestSteps, PreparedSteps
  <2> QED  BY <2>1, <2>2
<1>2. CASE CreateFails(p)
  BY <1>2, CallReturn DEF CreateFails, CallInv, TypeOK, WorldOK, CallsOK
<1>3. CASE WriteAhead(p)
  <2>1. job[p].request \in StartRequest /\ job[p].request.kind \in StartedKinds
    BY <1>3 DEF WriteAhead, CallInv, CallOK, StartSteps
  <2>2. job[p].request.kind \in Kinds
    BY <2>1 DEF StartRequest
  <2>3. WorldOK'
    <3>1. RecordSetupStarted(registry, Feature, p, Bare(job[p].request.kind)) \in Registry
      BY <2>2, RuntimeTypes, SetupStarted DEF CallInv, TypeOK
    <3>2. registry' \in Registry
      BY <1>3, <3>1 DEF WriteAhead, CallInv, TypeOK
    <3>3. recorded' \in BOOLEAN
      BY <1>3 DEF WriteAhead, CallInv, TypeOK
    <3> QED  BY <1>3, <3>2, <3>3 DEF WriteAhead, CallInv, TypeOK, WorldOK
  <2>4. PICK previous \in Entry \cup {NoEntry, Unwritten} :
          job' = [job EXCEPT ![p].previous = previous]
    <3>1. CASE job' = [job EXCEPT ![p].previous = entry]
      <4>1. entry \in Entry \cup {NoEntry}
        BY DEF CallInv, TypeOK, Registry, entry
      <4> QED  BY <3>1, <4>1
    <3>2. CASE UNCHANGED job
      <4>1. job[p].previous \in Entry \cup {NoEntry, Unwritten}
            /\ job' = [job EXCEPT ![p].previous = job[p].previous]
        BY <3>2 DEF CallInv, TypeOK, Job
      <4> QED  BY <4>1
    <3> QED  BY <1>3, <3>1, <3>2 DEF WriteAhead
  <2> DEFINE new == [job[p] EXCEPT !.previous = previous]
  <2>5. new \in Job /\ new.request = job[p].request /\ job' = [job EXCEPT ![p] = new]
    BY <2>4 DEF CallInv, TypeOK, Job
  <2> HIDE DEF new
  <2>6. /\ "setup" \in StartSteps
        /\ "setup" \notin TeardownSteps \cup SbxSteps \cup InGuestSteps \cup PreparedSteps
    BY DEF StartSteps, TeardownSteps, SbxSteps, InGuestSteps, PreparedSteps
  <2>7. Goto(p, "setup") /\ UNCHANGED scenario
    BY <1>3 DEF WriteAhead
  <2>8. CallsOK'
    BY <2>1, <2>5, <2>6, <2>7, CallGoesOn DEF CallsOK
  <2> QED  BY <2>3, <2>8
<1>4. CASE Setup(p)
  <2>1. WorldOK'
    BY <1>4 DEF Setup, CallInv, TypeOK, WorldOK
  <2>2. CallsOK'
    BY <1>4, CallMovesOn DEF Setup, CallsOK, StartSteps, TeardownSteps, SbxSteps, InGuestSteps,
                             PreparedSteps
  <2> QED  BY <2>1, <2>2
<1>5. CASE SetupFails(p)
  <2>1. pc[p] \in StartSteps
    BY <1>5 DEF SetupFails, StartSteps
  <2> QED  BY <1>5, <2>1, AbandonStep DEF SetupFails, CallInv, TypeOK, WorldOK
<1>6. CASE Prepare(p)
  <2>1. job[p].request \in StartRequest /\ job[p].request.kind \in StartedKinds
    BY <1>6 DEF Prepare, CallInv, CallOK, StartSteps
  <2>2. job[p].request.kind \in Kinds
    BY <2>1 DEF StartRequest
  <2>3. WorldOK'
    BY <1>6 DEF Prepare, CallInv, TypeOK, WorldOK, Kinds
  <2> DEFINE runtime == Provided(job[p].request.kind)
             new == [job[p] EXCEPT !.runtime = runtime]
             step == IF job[p].request.kind = "sbx" THEN "recordRuntime" ELSE "environment"
  <2>4. job' = [job EXCEPT ![p] = new] /\ Goto(p, step) /\ UNCHANGED scenario
    BY <1>6 DEF Prepare, Provided, CallInv, TypeOK
  <2>5. runtime \in Runtime
    BY <2>2, RuntimeTypes DEF Provided
  <2>6. new \in Job /\ new.request = job[p].request /\ new.runtime = runtime
    BY <2>5 DEF CallInv, TypeOK, Job
  <2>7. /\ step \in StartSteps /\ step \notin TeardownSteps \cup InGuestSteps
        /\ step \in SbxSteps => job[p].request.kind = "sbx"
    BY DEF StartSteps, TeardownSteps, SbxSteps, InGuestSteps
  <2>8. CallsOK'
    <3> HIDE DEF new, step
    <3>1. runtime = Provided(new.request.kind)
      BY <2>6
    <3> HIDE DEF runtime
    <3> QED  BY <2>1, <2>4, <2>6, <2>7, <3>1, CallGoesOn DEF CallsOK
  <2> QED  BY <2>3, <2>8
<1>7. CASE PrepareFails(p)
  <2>1. WorldOK'
    BY <1>7 DEF PrepareFails, CallInv, TypeOK, WorldOK, Kinds
  <2>2. pc[p] \in StartSteps
    BY <1>7 DEF PrepareFails, StartSteps
  <2> QED  BY <1>7, <2>1, <2>2, AbandonStep DEF PrepareFails
<1>8. CASE RecordRuntime(p)
  <2>1. job[p].runtime \in Runtime
    BY DEF CallInv, TypeOK, Job
  <2>2. WorldOK'
    BY <1>8, <2>1, SetupRuntime DEF RecordRuntime, RecordProvisional, CallInv, TypeOK, WorldOK
  <2>3. CallsOK'
    BY <1>8, CallMovesOn DEF RecordRuntime, CallsOK, StartSteps, TeardownSteps, SbxSteps,
                             InGuestSteps, PreparedSteps
  <2> QED  BY <2>2, <2>3
<1>9. CASE Environment(p)
  <2>1. WorldOK'
    BY <1>9 DEF Environment, CallInv, TypeOK, WorldOK, Kinds
  <2>2. CallsOK'
    BY <1>9, CallMovesOn DEF Environment, CallsOK, StartSteps, TeardownSteps, SbxSteps,
                             InGuestSteps, PreparedSteps
  <2> QED  BY <2>1, <2>2
<1>10. CASE EnvironmentFails(p)
  <2>1. WorldOK'
    BY <1>10 DEF EnvironmentFails, CallInv, TypeOK, WorldOK, Kinds
  <2>2. job[p].request \in StartRequest
    BY <1>10 DEF EnvironmentFails, CallInv, CallOK, StartSteps
  <2> DEFINE step == IF job[p].request.keep THEN "retain" ELSE "destroyFailed"
  <2>3. /\ Goto(p, step) /\ UNCHANGED <<job, scenario>>
        /\ pc[p] \in StartSteps \cap PreparedSteps
    BY <1>10 DEF EnvironmentFails, StartSteps, PreparedSteps
  <2>4. /\ step \in StartSteps /\ step \notin TeardownSteps \cup InGuestSteps
        /\ step \in SbxSteps => job[p].request.kind = "sbx"
    BY <2>2 DEF StartRequest, StartSteps, TeardownSteps, InGuestSteps, SbxSteps
  <2> HIDE DEF step
  <2>5. CallsOK'
    BY <2>3, <2>4, CallMovesOn DEF CallsOK
  <2> QED  BY <2>1, <2>5
<1>11. CASE Retain(p) \/ Started(p)
  <2>1. PICK status \in StoredStatus : Conclude(p, status)
    BY <1>11 DEF Retain, Started, StoredStatus
  <2>2. job[p].runtime \in Runtime
    BY DEF CallInv, TypeOK, Job
  <2>3. WorldOK'
    <3>1. StartEntry(status, NoPid, job[p].runtime) \in Entry
      BY <2>2, StartEntryType
    <3>2. RecordStart(registry, Feature, StartEntry(status, NoPid, job[p].runtime)) \in Registry
      BY <3>1, Upserted DEF RecordStart, CallInv, TypeOK
    <3> QED  BY <2>1, <3>2 DEF Conclude, CallInv, TypeOK, WorldOK
  <2> QED  BY <2>1, <2>3, CallReturn DEF Conclude, CallsOK
<1>12. CASE DestroyFailed(p)
  <2>1. WorldOK'
    BY <1>12 DEF DestroyFailed, CallInv, TypeOK, WorldOK
  <2>2. pc[p] \in StartSteps \cap PreparedSteps /\ UNCHANGED scenario
    BY <1>12 DEF DestroyFailed, StartSteps, PreparedSteps
  <2>3. CASE job[p].request.kind = "sbx" /\ Goto(p, "clearRuntime") /\ UNCHANGED job
    BY <2>1, <2>2, <2>3, CallMovesOn DEF CallsOK, StartSteps, TeardownSteps, SbxSteps,
                                         InGuestSteps, PreparedSteps
  <2>4. CASE Abandon(p)
    BY <2>1, <2>2, <2>4, AbandonStep
  <2> QED  BY <1>12, <2>1, <2>3, <2>4 DEF DestroyFailed
<1>13. CASE ClearRuntime(p)
  <2>1. Bare("sbx") \in Runtime
    BY RuntimeTypes DEF Kinds
  <2>2. WorldOK'
    BY <1>13, <2>1, SetupRuntime DEF ClearRuntime, RecordProvisional, CallInv, TypeOK, WorldOK
  <2> QED  BY <1>13, <2>2, CallReturn DEF ClearRuntime, CallsOK
<1>14. CASE CleanWorktree(p)
  <2>1. WorldOK'
    BY <1>14 DEF CleanWorktree, CallInv, TypeOK, WorldOK
  <2>2. job[p].request.kind = "in_guest"
    BY <1>14 DEF CleanWorktree, CallInv, CallOK, InGuestSteps
  <2>3. CallsOK'
    BY <1>14, <2>2, CallMovesOn DEF CleanWorktree, CallsOK, StartSteps, TeardownSteps, SbxSteps,
                                    InGuestSteps, PreparedSteps
  <2> QED  BY <2>1, <2>3
<1>15. CASE CleanBranch(p)
  <2>1. WorldOK'
    BY <1>15 DEF CleanBranch, CallInv, TypeOK, WorldOK
  <2>2. job[p].request.kind = "in_guest"
    BY <1>15 DEF CleanBranch, CallInv, CallOK, InGuestSteps
  <2>3. CASE Leave(p)
    BY <1>15, <2>1, <2>3, CallReturn DEF CleanBranch, CallsOK
  <2>4. CASE Goto(p, "cleanEntry") /\ UNCHANGED job
    BY <1>15, <2>1, <2>2, <2>4, CallMovesOn DEF CleanBranch, CallsOK, StartSteps, TeardownSteps,
                                          SbxSteps, InGuestSteps, PreparedSteps
  <2> QED  BY <1>15, <2>1, <2>3, <2>4 DEF CleanBranch
<1>16. CASE CleanEntry(p)
  <2>1. job[p].previous \in Entry \cup {NoEntry, Unwritten}
    BY DEF CallInv, TypeOK, Job
  <2>2. WorldOK'
    BY <1>16, <2>1, SetupDiscarded DEF CleanEntry, CallInv, TypeOK, WorldOK
  <2> QED  BY <1>16, <2>2, CallReturn DEF CleanEntry, CallsOK
<1> QED
  BY <1>1, <1>2, <1>3, <1>4, <1>5, <1>6, <1>7, <1>8, <1>9, <1>10, <1>11, <1>12, <1>13, <1>14,
     <1>15, <1>16 DEF StartStep

LEMMA TeardownStepTypes ==
  ASSUME CallInv, NEW p \in Procs, TeardownStep(p)
  PROVE  WorldOK' /\ CallsOK'
<1> DEFINE after == AfterRuntime(p)
<1>1. /\ after \in TeardownSteps
      /\ TeardownSteps \cap (StartSteps \cup SbxSteps \cup InGuestSteps \cup PreparedSteps) = {}
  BY StepNames DEF AfterRuntime, TeardownSteps, StartSteps
<1>2. CASE SpecNotMoved(p) \/ RecheckStops(p)
  BY <1>2, CallReturn DEF SpecNotMoved, RecheckStops, CallInv, TypeOK, WorldOK, CallsOK
<1>3. CASE Destroy(p) \/ DestroyUnverified(p)
  <2>1. WorldOK'
    BY <1>3 DEF Destroy, DestroyUnverified, CallInv, TypeOK, WorldOK
  <2>2. pc[p] \in TeardownSteps /\ UNCHANGED scenario
    BY <1>3 DEF Destroy, DestroyUnverified, TeardownSteps
  <2>3. Leave(p) \/ (Goto(p, after) /\ UNCHANGED job)
    BY <1>3 DEF Destroy, DestroyUnverified
  <2> HIDE DEF after
  <2> QED  BY <1>1, <2>1, <2>2, <2>3, CallReturn, CallMovesOn DEF CallsOK
<1>4. CASE Recheck(p)
  <2>1. WorldOK'
    BY <1>4 DEF Recheck, CallInv, TypeOK, WorldOK
  <2>2. CallsOK'
    BY <1>1, <1>4, CallMovesOn DEF Recheck, CallsOK, TeardownSteps
  <2> QED  BY <2>1, <2>2
<1>5. CASE RemoveWorktree(p) \/ Prune(p)
  <2>1. WorldOK'
    BY <1>5 DEF RemoveWorktree, Prune, CallInv, TypeOK, WorldOK
  <2>2. PICK gone \in BOOLEAN : job' = [job EXCEPT ![p] = [@ EXCEPT !.gone = gone]]
    <3>1. job[p].gone \in BOOLEAN /\ job = [job EXCEPT ![p] = [@ EXCEPT !.gone = job[p].gone]]
      BY DEF CallInv, TypeOK, Job
    <3>2. CASE RemoveWorktree(p)
      BY <3>1, <3>2 DEF RemoveWorktree
    <3>3. CASE Prune(p)
      <4>1. (job[p].gone \/ worktree = "absent") \in BOOLEAN
        BY <3>1
      <4>2. job' = [job EXCEPT ![p] = [@ EXCEPT !.gone = job[p].gone \/ worktree = "absent"]]
        BY <3>3 DEF Prune, CallInv, TypeOK
      <4> QED  BY <4>1, <4>2
    <3> QED  BY <1>5, <3>2, <3>3
  <2> DEFINE new == [job[p] EXCEPT !.gone = gone]
             step == IF pc[p] = "remove" THEN "prune" ELSE "deleteBranch"
  <2>3. new \in Job /\ new.request = job[p].request /\ job' = [job EXCEPT ![p] = new]
    BY <2>2 DEF CallInv, TypeOK, Job
  <2>4. pc[p] \in TeardownSteps /\ Goto(p, step) /\ UNCHANGED scenario /\ step \in TeardownSteps
    BY <1>5 DEF RemoveWorktree, Prune, TeardownSteps
  <2>5. job[p].request \in TeardownRequest
    BY <2>4 DEF CallInv, CallOK
  <2> HIDE DEF new, step
  <2>6. CallsOK'
    BY <1>1, <2>3, <2>4, <2>5, CallGoesOn DEF CallsOK
  <2> QED  BY <2>1, <2>6
<1>6. CASE RemoveFails(p)
  <2>1. WorldOK'
    BY <1>6 DEF RemoveFails, CallInv, TypeOK, WorldOK
  <2>2. /\ pc[p] \in TeardownSteps /\ UNCHANGED scenario
        /\ Leave(p) \/ (Goto(p, "prune") /\ UNCHANGED job)
    BY <1>6 DEF RemoveFails, TeardownSteps
  <2>3. "prune" \in TeardownSteps
    BY DEF TeardownSteps
  <2> QED  BY <1>1, <2>1, <2>2, <2>3, CallReturn, CallMovesOn DEF CallsOK
<1>7. CASE DeleteBranch(p)
  <2>1. WorldOK'
    BY <1>7 DEF DeleteBranch, CallInv, TypeOK, WorldOK
  <2>2. CallsOK'
    BY <1>1, <1>7, CallMovesOn DEF DeleteBranch, CallsOK, TeardownSteps
  <2> QED  BY <2>1, <2>2
<1>8. CASE Removed(p)
  <2>1. WorldOK'
    BY <1>8, TeardownRecorded DEF Removed, CallInv, TypeOK, WorldOK
  <2> QED  BY <1>8, <2>1, CallReturn DEF Removed, CallsOK
<1> QED
  BY <1>2, <1>3, <1>4, <1>5, <1>6, <1>7, <1>8 DEF TeardownStep

LEMMA EditTypes == ASSUME CallInv, Edit PROVE WorldOK' /\ CallsOK'
<1>1. WorldOK'
  BY DEF Edit, CallInv, TypeOK, WorldOK
<1> DEFINE late(p) == job[p].late \/ pc[p] = "remove"
<1>2. job' = [p \in Procs |-> [job[p] EXCEPT !.late = late(p)]]
  BY DEF Edit
<1>3. ASSUME NEW p \in Procs
      PROVE  job'[p] \in Job /\ job'[p].request = job[p].request /\ job'[p].runtime = job[p].runtime
  <2>1. late(p) \in BOOLEAN
    BY DEF CallInv, TypeOK, Job
  <2> HIDE DEF late
  <2>2. job'[p] = [job[p] EXCEPT !.late = late(p)] /\ job[p] \in Job
    BY <1>2 DEF CallInv, TypeOK
  <2> QED  BY <2>1, <2>2 DEF Job
<1>4. job' \in [Procs -> Job]
  BY <1>2, <1>3
<1>5. ASSUME NEW p \in Procs PROVE CallOK(p)'
  BY <1>3 DEF Edit, CallInv, CallOK, StartedKinds, Starts
<1> QED
  BY <1>1, <1>4, <1>5 DEF Edit, CallInv, TypeOK, CallsOK

LEMMA CallStep == ASSUME CallInv, [Next]_vars PROVE CallInv'
<1>1. CASE UNCHANGED vars
  BY <1>1 DEF vars, CallInv, TypeOK, CallOK, StartedKinds, Starts
<1>2. ASSUME NEW p \in Procs, NEW r \in Starts, StartCheck(p, r) PROVE CallInv'
  BY <1>2, StartCheckStep DEF CallInv, TypeOK, WorldOK, CallsOK
<1>3. ASSUME NEW p \in Procs, StartStep(p) PROVE CallInv'
  BY <1>3, StartStepTypes DEF CallInv, TypeOK, WorldOK, CallsOK
<1>4. ASSUME NEW p \in Procs, NEW r \in Teardowns, TeardownPlan(p, r) PROVE CallInv'
  BY <1>4, TeardownPlanStep DEF CallInv, TypeOK, WorldOK, CallsOK
<1>5. ASSUME NEW p \in Procs, TeardownStep(p) PROVE CallInv'
  BY <1>5, TeardownStepTypes DEF CallInv, TypeOK, WorldOK, CallsOK
<1>6. ASSUME NEW p \in Procs, Crash(p) PROVE CallInv'
  BY <1>6, CallReturn DEF Crash, CallInv, TypeOK
<1>7. CASE Edit
  BY <1>7, EditTypes DEF CallInv, TypeOK, WorldOK, CallsOK
<1>8. CASE Commit \/ Merge \/ DevcontainerUp
  BY <1>8 DEF Commit, Merge, DevcontainerUp, CallInv, TypeOK, CallOK, StartedKinds, Starts, Kinds
<1> QED
  BY <1>1, <1>2, <1>3, <1>4, <1>5, <1>6, <1>7, <1>8 DEF Next

LEMMA CallInvariance == Spec => []CallInv
<1>1. Init => CallInv
  BY CallInitInv
<1>2. CallInv /\ [Next]_vars => CallInv'
  BY CallStep
<1> QED  BY <1>1, <1>2, PTL DEF Spec

(* The variables keep their types: the entry, the worktree, the runtimes   *)
(* and the calls of start_feature and teardown_feature.                    *)
THEOREM Types == Spec => []TypeOK
<1>1. CallInv => TypeOK
  BY DEF CallInv
<1> QED  BY <1>1, CallInvariance, PTL

---------------------------------------------------------------------------
(* Which calls are under way together.                                     *)

AloneInv ==
    \A p, q \in Procs : p # q /\ pc[p] # "idle" /\ pc[q] # "idle" =>
        \/ scenario.overlap = "all"
        \/ scenario.overlap = "starts" /\ pc[p] \in StartSteps /\ pc[q] \in StartSteps

Moves(p) ==
    /\ pc' = [pc EXCEPT ![p] = pc'[p]]
    /\ \/ pc'[p] = "idle"
       \/ MayBegin(p, StartSteps) /\ pc'[p] \in StartSteps
       \/ MayBegin(p, TeardownSteps) /\ pc'[p] \in TeardownSteps
       \/ pc[p] \in StartSteps /\ pc'[p] \in StartSteps
       \/ pc[p] \in TeardownSteps /\ pc'[p] \in TeardownSteps

LEMMA GoMoves ==
  ASSUME CallInv, NEW p \in Procs, NEW step, Goto(p, step),
         \/ step = "idle"
         \/ MayBegin(p, StartSteps) /\ step \in StartSteps
         \/ MayBegin(p, TeardownSteps) /\ step \in TeardownSteps
         \/ pc[p] \in StartSteps /\ step \in StartSteps
         \/ pc[p] \in TeardownSteps /\ step \in TeardownSteps
  PROVE  Moves(p)
<1>1. pc'[p] = step /\ pc' = [pc EXCEPT ![p] = step]
  BY DEF CallInv, TypeOK, Goto
<1> QED  BY <1>1 DEF Moves

LEMMA StartMoves == ASSUME CallInv, NEW p \in Procs, StartStep(p) PROVE Moves(p)
<1>1. PICK step \in StartSteps \cup {"idle"} : pc[p] \in StartSteps /\ Goto(p, step)
  <2>1. ASSUME CreateWorktree(p) \/ CreateFails(p) \/ WriteAhead(p) \/ Setup(p)
        PROVE  \E step \in StartSteps \cup {"idle"} : pc[p] \in StartSteps /\ Goto(p, step)
    BY <2>1 DEF CreateWorktree, CreateFails, WriteAhead, Setup, Leave, StartSteps
  <2>2. ASSUME pc[p] \in StartSteps, Abandon(p)
        PROVE  \E step \in StartSteps \cup {"idle"} : pc[p] \in StartSteps /\ Goto(p, step)
    BY <2>2 DEF Abandon, Leave, StartSteps
  <2>3. ASSUME SetupFails(p) \/ PrepareFails(p)
        PROVE  \E step \in StartSteps \cup {"idle"} : pc[p] \in StartSteps /\ Goto(p, step)
    <3>1. pc[p] \in StartSteps /\ Abandon(p)
      BY <2>3 DEF SetupFails, PrepareFails, StartSteps
    <3> QED  BY <2>2, <3>1
  <2>4. ASSUME Prepare(p) \/ RecordRuntime(p) \/ Environment(p) \/ EnvironmentFails(p)
        PROVE  \E step \in StartSteps \cup {"idle"} : pc[p] \in StartSteps /\ Goto(p, step)
    BY <2>4 DEF Prepare, RecordRuntime, Environment, EnvironmentFails, StartSteps
  <2>5. ASSUME DestroyFailed(p)
        PROVE  \E step \in StartSteps \cup {"idle"} : pc[p] \in StartSteps /\ Goto(p, step)
    <3>1. pc[p] \in StartSteps /\ (Abandon(p) \/ Goto(p, "clearRuntime"))
      BY <2>5 DEF DestroyFailed, StartSteps
    <3> QED  BY <2>2, <3>1 DEF StartSteps
  <2>6. ASSUME \/ Retain(p) \/ Started(p) \/ ClearRuntime(p)
               \/ CleanWorktree(p) \/ CleanBranch(p) \/ CleanEntry(p)
        PROVE  \E step \in StartSteps \cup {"idle"} : pc[p] \in StartSteps /\ Goto(p, step)
    BY <2>6 DEF Retain, Started, Conclude, ClearRuntime, CleanWorktree, CleanBranch, CleanEntry,
                Leave, StartSteps
  <2> QED  BY <2>1, <2>3, <2>4, <2>5, <2>6 DEF StartStep
<1> QED  BY <1>1, GoMoves

LEMMA TeardownMoves == ASSUME CallInv, NEW p \in Procs, TeardownStep(p) PROVE Moves(p)
<1>1. PICK step \in TeardownSteps \cup {"idle"} : pc[p] \in TeardownSteps /\ Goto(p, step)
  BY DEF TeardownStep, SpecNotMoved, Destroy, DestroyUnverified, AfterRuntime, Recheck,
         RecheckStops, RemoveWorktree, RemoveFails, Prune, DeleteBranch, Removed, Leave,
         TeardownSteps
<1> QED  BY <1>1, GoMoves

LEMMA PcMoves ==
  ASSUME CallInv, [Next]_vars
  PROVE  UNCHANGED pc \/ \E p \in Procs : Moves(p)
<1>1. ASSUME NEW p \in Procs, NEW r \in Starts, StartCheck(p, r) PROVE Moves(p)
  BY <1>1, GoMoves DEF StartCheck, StartSteps
<1>2. ASSUME NEW p \in Procs, NEW r \in Teardowns, TeardownPlan(p, r) PROVE Moves(p)
  BY <1>2, GoMoves DEF TeardownPlan, TeardownSteps
<1>3. ASSUME NEW p \in Procs, Crash(p) PROVE Moves(p)
  BY <1>3, GoMoves DEF Crash, Leave
<1>4. CASE UNCHANGED vars \/ Edit \/ Commit \/ Merge \/ DevcontainerUp
  BY <1>4 DEF vars, Edit, Commit, Merge, DevcontainerUp
<1> QED
  BY <1>1, <1>2, <1>3, <1>4, StartMoves, TeardownMoves DEF Next

LEMMA StepStays == ASSUME NEW p \in Procs, StartStep(p) \/ TeardownStep(p) PROVE UNCHANGED scenario
BY DEF StartStep, CreateWorktree, CreateFails, WriteAhead, Setup, SetupFails, Prepare,
       PrepareFails, RecordRuntime, Environment, EnvironmentFails, Retain, Started, Conclude,
       DestroyFailed, ClearRuntime, CleanWorktree, CleanBranch, CleanEntry, TeardownStep,
       SpecNotMoved, Destroy, DestroyUnverified, Recheck, RecheckStops, RemoveWorktree,
       RemoveFails, Prune, DeleteBranch, Removed

LEMMA ScenarioStays == ASSUME [Next]_vars PROVE UNCHANGED scenario
BY StepStays DEF Next, vars, StartCheck, TeardownPlan, Crash, Edit, Commit, Merge, DevcontainerUp

LEMMA AloneStep == ASSUME CallInv, AloneInv, [Next]_vars PROVE AloneInv'
<1>1. CASE UNCHANGED pc
  BY <1>1, ScenarioStays DEF AloneInv
<1>2. ASSUME NEW p \in Procs, Moves(p) PROVE AloneInv'
  <2>1. ASSUME NEW a \in Procs, NEW b \in Procs, a # b, pc'[a] # "idle", pc'[b] # "idle"
        PROVE  \/ scenario.overlap = "all"
               \/ scenario.overlap = "starts" /\ pc'[a] \in StartSteps /\ pc'[b] \in StartSteps
    BY <1>2, <2>1, StepNames DEF Moves, MayBegin, CallInv, TypeOK, AloneInv
  <2> QED  BY <2>1, ScenarioStays DEF AloneInv
<1> QED  BY <1>1, <1>2, PcMoves

LEMMA AloneInvariance == Spec => []AloneInv
<1>1. Init => AloneInv
  BY DEF Init, AloneInv
<1>2. CallInv /\ AloneInv /\ [Next]_vars => AloneInv'
  BY AloneStep
<1> QED  BY <1>1, <1>2, CallInvariance, PTL DEF Spec

---------------------------------------------------------------------------
(* The record of a worktree, and the user's work, where no teardown runs   *)
(* beside another call of the feature.                                     *)

TeardownsAlone == \A s \in Scenarios : s.overlap # "all"

LEMMA NoneBeside ==
  ASSUME TeardownsAlone, CallInv, AloneInv, NEW p \in Procs, NEW q \in Procs, p # q,
         pc[p] \in TeardownSteps
  PROVE  pc[q] = "idle"
BY StepNames DEF TeardownsAlone, CallInv, TypeOK, AloneInv

RecordedOK(p) ==
    /\ pc[p] = "cleanEntry" /\ recorded => ~ MarkedBy(registry, Feature, p)
    /\ pc[p] \in TeardownSteps /\ job[p].gone => worktree = "absent"

RecordedInv ==
    /\ recorded => worktree # "absent" /\ Listed(registry, Feature) /\ entry.status # "removed"
    /\ \A p \in Procs : RecordedOK(p)

LEMMA RecordKept ==
  ASSUME RecordedInv, UNCHANGED <<registry, recorded>>,
         worktree' = "absent" <=> worktree = "absent",
         \A p \in Procs :
            /\ pc'[p] = "cleanEntry" => pc[p] = "cleanEntry"
            /\ pc'[p] \in TeardownSteps /\ job'[p].gone => pc[p] \in TeardownSteps /\ job[p].gone
  PROVE  RecordedInv'
BY DEF RecordedInv, RecordedOK, entry

LEMMA ReturnForgets ==
  ASSUME CallInv, NEW p \in Procs, Leave(p)
  PROVE  /\ pc'[p] = "idle"
         /\ \A q \in Procs : q # p => pc'[q] = pc[q] /\ job'[q] = job[q]
BY DEF CallInv, TypeOK, Leave, Goto

LEMMA ProcNotNone == NoPid \notin Procs
BY FeatureLifecycleAssumption

LEMMA StartsSteps == ASSUME NEW p \in Procs, StartStep(p) PROVE pc[p] \in StartSteps
BY DEF StartStep, CreateWorktree, CreateFails, WriteAhead, Setup, SetupFails, Prepare,
       PrepareFails, RecordRuntime, Environment, EnvironmentFails, Retain, Started,
       DestroyFailed, ClearRuntime, CleanWorktree, CleanBranch, CleanEntry, StartSteps

LEMMA TeardownsSteps == ASSUME NEW p \in Procs, TeardownStep(p) PROVE pc[p] \in TeardownSteps
BY DEF TeardownStep, SpecNotMoved, Destroy, DestroyUnverified, Recheck, RecheckStops,
       RemoveWorktree, RemoveFails, Prune, DeleteBranch, Removed, TeardownSteps

LEMMA StartBeside ==
  ASSUME TeardownsAlone, CallInv, AloneInv, NEW p \in Procs, StartStep(p)
  PROVE  \A q \in Procs : pc[q] \notin TeardownSteps /\ pc'[q] \notin TeardownSteps
<1>1. pc[p] \in StartSteps
  BY StartsSteps
<1>2. \A q \in Procs : pc[q] \notin TeardownSteps
  BY <1>1, NoneBeside, StepNames
<1> QED
  BY <1>1, <1>2, StartMoves, StepNames DEF Moves, MayBegin, CallInv, TypeOK

LEMMA TeardownBeside ==
  ASSUME TeardownsAlone, CallInv, AloneInv, NEW p \in Procs, TeardownStep(p)
  PROVE  /\ pc[p] \in TeardownSteps
         /\ pc'[p] \in TeardownSteps \cup {"idle"}
         /\ \A q \in Procs : q # p => pc[q] = "idle" /\ pc'[q] = "idle"
<1>1. pc[p] \in TeardownSteps
  BY TeardownsSteps
<1> QED
  BY <1>1, TeardownMoves, NoneBeside, StepNames DEF Moves, MayBegin, CallInv, TypeOK

LEMMA RecordedStartStep ==
  ASSUME TeardownsAlone, CallInv, AloneInv, RecordedInv, NEW p \in Procs, StartStep(p)
  PROVE  RecordedInv'
<1>2. \A q \in Procs : pc[q] \notin TeardownSteps /\ pc'[q] \notin TeardownSteps
  BY StartBeside
<1>3. CASE CreateWorktree(p)
  BY <1>2, <1>3 DEF CreateWorktree, Goto, CallInv, TypeOK, RecordedInv, RecordedOK, entry
<1>4. CASE WriteAhead(p)
  <2>1. job[p].request.kind \in Kinds
    BY <1>4 DEF WriteAhead, CallInv, CallOK, StartSteps, StartRequest
  <2>2. pc' = [pc EXCEPT ![p] = "setup"] /\ UNCHANGED worktree
    BY <1>4 DEF WriteAhead, Goto
  <2>3. CASE UNCHANGED <<registry, recorded>>
    BY <1>2, <2>2, <2>3, RecordKept DEF CallInv, TypeOK
  <2>4. CASE /\ registry' = RecordSetupStarted(registry, Feature, p, Bare(job[p].request.kind))
             /\ recorded' = (worktree # "absent")
    <3>1. /\ Listed(registry', Feature)
          /\ registry'[Feature].status # "removed"
          /\ registry'[Feature].setup = p
      BY <2>1, <2>4, RuntimeTypes, SetupStarted DEF CallInv, TypeOK
    <3>2. pc'[p] # "cleanEntry" /\ \A q \in Procs : q # p => ~ MarkedBy(registry', Feature, q)
      BY <2>2, <3>1 DEF MarkedBy, CallInv, TypeOK
    <3> QED  BY <1>2, <2>2, <2>4, <3>1, <3>2 DEF RecordedInv, RecordedOK, entry
  <2> QED  BY <1>4, <2>3, <2>4 DEF WriteAhead
<1>5. CASE CreateFails(p) \/ Setup(p) \/ Prepare(p) \/ Environment(p) \/ EnvironmentFails(p)
  BY <1>2, <1>5, RecordKept
  DEF CreateFails, Setup, Prepare, Environment, EnvironmentFails, Leave, Goto, CallInv, TypeOK
<1>6. CASE SetupFails(p) \/ PrepareFails(p) \/ DestroyFailed(p)
  <2>1. Goto(p, "cleanWorktree") \/ Goto(p, "clearRuntime") \/ Goto(p, "idle")
    BY <1>6 DEF SetupFails, PrepareFails, DestroyFailed, Abandon, Leave
  <2>2. UNCHANGED <<registry, recorded, worktree>>
    BY <1>6 DEF SetupFails, PrepareFails, DestroyFailed
  <2> QED  BY <1>2, <2>1, <2>2, RecordKept DEF Goto, CallInv, TypeOK
<1>7. CASE RecordRuntime(p) \/ ClearRuntime(p)
  <2>1. PICK runtime \in Runtime : RecordProvisional(p, runtime)
    BY <1>7, RuntimeTypes DEF RecordRuntime, ClearRuntime, CallInv, TypeOK, Job, Kinds
  <2>2. Goto(p, "environment") \/ Goto(p, "idle")
    BY <1>7 DEF RecordRuntime, ClearRuntime, Leave
  <2>3. UNCHANGED <<recorded, worktree>>
    BY <1>7 DEF RecordRuntime, ClearRuntime
  <2>4. registry' = registry \/ registry' = RecordSetupRuntime(registry, Feature, p, runtime)
    BY <2>1 DEF RecordProvisional
  <2>5. /\ Listed(registry, Feature) =>
               Listed(registry', Feature) /\ registry'[Feature].status = entry.status
        /\ \A q \in Procs : MarkedBy(registry', Feature, q) => MarkedBy(registry, Feature, q)
    BY <2>4, SetupRuntime DEF MarkedBy, CallInv, TypeOK, entry
  <2>6. \A q \in Procs : pc'[q] = "cleanEntry" => pc[q] = "cleanEntry"
    BY <2>2 DEF Goto, CallInv, TypeOK
  <2> QED  BY <1>2, <2>3, <2>5, <2>6 DEF RecordedInv, RecordedOK, entry
<1>8. CASE Retain(p) \/ Started(p)
  <2>1. PICK status \in {"active", "failed_retained"} : Conclude(p, status)
    BY <1>8 DEF Retain, Started
  <2>2. /\ UNCHANGED <<recorded, worktree>>
        /\ \A q \in Procs : pc'[q] = "cleanEntry" => pc[q] = "cleanEntry"
    BY <2>1 DEF Conclude, Leave, Goto, CallInv, TypeOK
  <2>3. CASE UNCHANGED registry
    BY <1>2, <2>2, <2>3 DEF RecordedInv, RecordedOK, entry
  <2>4. CASE registry' = RecordStart(registry, Feature, StartEntry(status, NoPid, job[p].runtime))
    <3>1. StartEntry(status, NoPid, job[p].runtime) \in Entry
          /\ StartEntry(status, NoPid, job[p].runtime).status = status
          /\ StartEntry(status, NoPid, job[p].runtime).setup = NoPid
      <4>1. job[p].runtime \in Runtime /\ status \in StoredStatus /\ NoPid \in Procs \cup {NoPid}
        BY DEF CallInv, TypeOK, Job, StoredStatus
      <4> QED  BY <4>1, StartEntryType
    <3>2. /\ Listed(registry', Feature)
          /\ registry'[Feature].status # "removed"
          /\ registry'[Feature].setup = NoPid
      BY <2>4, <3>1, Upserted DEF RecordStart, CallInv, TypeOK
    <3>3. \A q \in Procs : ~ MarkedBy(registry', Feature, q)
      BY <3>2, ProcNotNone DEF MarkedBy
    <3> QED  BY <1>2, <2>2, <3>2, <3>3 DEF RecordedInv, RecordedOK, entry
  <2> QED  BY <2>1, <2>3, <2>4 DEF Conclude
<1>9. CASE CleanWorktree(p)
  <2>1. UNCHANGED registry /\ \A q \in Procs : pc'[q] = "cleanEntry" => pc[q] = "cleanEntry"
    BY <1>9 DEF CleanWorktree, Goto, CallInv, TypeOK
  <2> QED  BY <1>2, <1>9, <2>1 DEF CleanWorktree, RecordedInv, RecordedOK, entry
<1>10. CASE CleanBranch(p)
  <2>1. UNCHANGED <<registry, recorded, worktree>>
    BY <1>10 DEF CleanBranch
  <2>2. \A q \in Procs : pc'[q] = "cleanEntry" => pc[q] = "cleanEntry" \/ worktree = "absent"
    BY <1>10 DEF CleanBranch, Leave, Goto, CallInv, TypeOK
  <2> QED  BY <1>2, <2>1, <2>2 DEF RecordedInv, RecordedOK, entry
<1>11. CASE CleanEntry(p)
  <2>1. /\ UNCHANGED <<recorded, worktree>>
        /\ \A q \in Procs : pc'[q] = "cleanEntry" => pc[q] = "cleanEntry"
    BY <1>11 DEF CleanEntry, Leave, Goto, CallInv, TypeOK
  <2>2. recorded => UNCHANGED registry
    <3>1. job[p].previous # Unwritten => job[p].previous \in Entry \cup {NoEntry}
      BY DEF CallInv, TypeOK, Job
    <3>2. recorded => ~ MarkedBy(registry, Feature, p)
      BY <1>11 DEF CleanEntry, RecordedInv, RecordedOK
    <3> QED  BY <1>11, <3>1, <3>2, SetupDiscarded DEF CleanEntry, CallInv, TypeOK
  <2> QED  BY <1>2, <2>1, <2>2 DEF RecordedInv, RecordedOK, entry
<1> QED
  BY <1>3, <1>4, <1>5, <1>6, <1>7, <1>8, <1>9, <1>10, <1>11 DEF StartStep

LEMMA RecordedTeardownStep ==
  ASSUME TeardownsAlone, CallInv, AloneInv, RecordedInv, NEW p \in Procs, TeardownStep(p)
  PROVE  RecordedInv'
<1>1. pc[p] \in TeardownSteps /\ \A q \in Procs : q # p => pc[q] = "idle" /\ pc'[q] = "idle"
  BY TeardownBeside
<1>2. \A q \in Procs : pc[q] # "cleanEntry" /\ pc'[q] # "cleanEntry"
  BY TeardownBeside DEF TeardownSteps
<1>3. CASE SpecNotMoved(p) \/ Destroy(p) \/ DestroyUnverified(p) \/ Recheck(p) \/ RecheckStops(p)
             \/ RemoveFails(p) \/ DeleteBranch(p)
  <2>1. UNCHANGED <<registry, recorded, worktree>> /\ (UNCHANGED job \/ Leave(p))
    BY <1>3 DEF SpecNotMoved, Destroy, DestroyUnverified, Recheck, RecheckStops, RemoveFails,
                DeleteBranch
  <2>2. \A q \in Procs :
            pc'[q] \in TeardownSteps /\ job'[q].gone => pc[q] \in TeardownSteps /\ job[q].gone
    BY <1>1, <2>1, StepNames DEF Leave, Goto, CallInv, TypeOK
  <2> QED  BY <1>2, <2>1, <2>2, RecordKept
<1>4. CASE RemoveWorktree(p)
  <2>1. UNCHANGED registry /\ (recorded' => recorded /\ UNCHANGED worktree)
    BY <1>4 DEF RemoveWorktree
  <2>2. worktree' = "absent" \/ UNCHANGED <<worktree, job>>
    BY <1>4 DEF RemoveWorktree
  <2> QED  BY <1>1, <1>2, <2>1, <2>2, StepNames DEF RecordedInv, RecordedOK, entry
<1>5. CASE Prune(p)
  <2>1. UNCHANGED <<registry, recorded, worktree>>
    BY <1>5 DEF Prune
  <2>2. job'[p].gone => job[p].gone \/ worktree = "absent"
    BY <1>5 DEF Prune, CallInv, TypeOK, Job
  <2> QED  BY <1>1, <1>2, <2>1, <2>2, StepNames DEF RecordedInv, RecordedOK, entry
<1>6. CASE Removed(p)
  <2>1. UNCHANGED <<recorded, worktree>> /\ (UNCHANGED registry \/ worktree = "absent")
    BY <1>1, <1>6 DEF Removed, RecordedInv, RecordedOK
  <2>2. \A q \in Procs : pc'[q] = "idle"
    BY <1>1, <1>6, ReturnForgets DEF Removed
  <2> QED  BY <1>2, <2>1, <2>2, StepNames DEF RecordedInv, RecordedOK, entry
<1> QED  BY <1>3, <1>4, <1>5, <1>6 DEF TeardownStep

LEMMA RecordedStep ==
  ASSUME TeardownsAlone, CallInv, AloneInv, RecordedInv, [Next]_vars
  PROVE  RecordedInv'
<1>1. ASSUME NEW p \in Procs, NEW r \in Starts, StartCheck(p, r) PROVE RecordedInv'
  <2>1. /\ UNCHANGED <<registry, recorded, worktree>>
        /\ pc'[p] = "create"
        /\ \A q \in Procs : q # p => pc'[q] = pc[q] /\ job'[q] = job[q]
    BY <1>1 DEF StartCheck, Goto, CallInv, TypeOK
  <2> QED  BY <2>1, RecordKept DEF StartSteps, TeardownSteps
<1>2. ASSUME NEW p \in Procs, NEW r \in Teardowns, TeardownPlan(p, r) PROVE RecordedInv'
  <2>1. /\ UNCHANGED <<registry, recorded, worktree>>
        /\ pc'[p] = "destroy" /\ job'[p].gone = FALSE
        /\ \A q \in Procs : q # p => pc'[q] = pc[q] /\ job'[q] = job[q]
    BY <1>2 DEF TeardownPlan, Goto, CallInv, TypeOK, NoJob
  <2> QED  BY <2>1, RecordKept
<1>3. ASSUME NEW p \in Procs, Crash(p) PROVE RecordedInv'
  <2>1. UNCHANGED <<registry, recorded, worktree>>
    BY <1>3 DEF Crash
  <2> QED  BY <1>3, <2>1, ReturnForgets, RecordKept, StepNames DEF Crash
<1>4. CASE Edit
  <2>1. UNCHANGED <<registry, recorded, pc>> /\ worktree # "absent" /\ worktree' # "absent"
    BY <1>4 DEF Edit
  <2>2. \A p \in Procs : job'[p].gone = job[p].gone
    BY <1>4 DEF Edit, CallInv, TypeOK, Job
  <2> QED  BY <2>1, <2>2, RecordKept
<1>5. CASE UNCHANGED vars \/ Commit \/ Merge \/ DevcontainerUp
  BY <1>5, RecordKept DEF vars, Commit, Merge, DevcontainerUp
<1> QED
  BY <1>1, <1>2, <1>3, <1>4, <1>5, RecordedStartStep, RecordedTeardownStep DEF Next

(* Where no teardown runs beside another call, a worktree whose start was  *)
(* written ahead is listed as long as it exists.                           *)
THEOREM RecordedListed == ASSUME TeardownsAlone PROVE Spec => []RecordedWorktreeListed
<1>1. Init => RecordedInv
  BY StepNames DEF Init, RecordedInv, RecordedOK
<1>2. CallInv /\ AloneInv /\ RecordedInv /\ [Next]_vars => RecordedInv'
  BY RecordedStep
<1>3. RecordedInv => RecordedWorktreeListed
  BY DEF RecordedInv, RecordedWorktreeListed
<1> QED  BY <1>1, <1>2, <1>3, CallInvariance, AloneInvariance, PTL DEF Spec

(* What an unforced teardown is about to remove was clean when it looked   *)
(* last.                                                                   *)
WorkOK(p) ==
    pc[p] = "remove" /\ job[p].existed /\ ~ DiscardsChanges(job[p].request) /\ worktree = "dirty" =>
        job[p].late

WorkInv == \A p \in Procs : WorkOK(p)

LEMMA WorkStep ==
  ASSUME TeardownsAlone, CallInv, AloneInv, WorkInv, [Next]_vars
  PROVE  WorkInv'
<1>1. ASSUME NEW p \in Procs, NEW r \in Starts, StartCheck(p, r) PROVE WorkInv'
  BY <1>1 DEF StartCheck, Goto, CallInv, TypeOK, WorkInv, WorkOK
<1>2. ASSUME NEW p \in Procs, StartStep(p) PROVE WorkInv'
  BY <1>2, StartBeside DEF TeardownSteps, WorkInv, WorkOK
<1>3. ASSUME NEW p \in Procs, NEW r \in Teardowns, TeardownPlan(p, r) PROVE WorkInv'
  BY <1>3 DEF TeardownPlan, Goto, CallInv, TypeOK, WorkInv, WorkOK
<1>4. ASSUME NEW p \in Procs, TeardownStep(p) PROVE WorkInv'
  <2>1. \A q \in Procs : q # p => pc'[q] # "remove"
    BY <1>4, TeardownBeside
  <2>2. CASE Destroy(p) \/ DestroyUnverified(p)
    <3>1. pc'[p] = "remove" => UNCHANGED job /\ (job[p].existed => DiscardsChanges(job[p].request))
      BY <2>2 DEF Destroy, DestroyUnverified, AfterRuntime, Leave, Goto, CallInv, TypeOK
    <3> QED  BY <2>1, <3>1 DEF WorkInv, WorkOK
  <2>3. CASE Recheck(p)
    BY <2>1, <2>3 DEF Recheck, WorkInv, WorkOK
  <2>4. CASE SpecNotMoved(p) \/ RecheckStops(p) \/ RemoveWorktree(p) \/ RemoveFails(p) \/ Prune(p)
               \/ DeleteBranch(p) \/ Removed(p)
    <3>1. pc'[p] # "remove"
      BY <2>4 DEF SpecNotMoved, RecheckStops, RemoveWorktree, RemoveFails, Prune, DeleteBranch,
                  Removed, Leave, Goto, CallInv, TypeOK
    <3> QED  BY <2>1, <3>1 DEF WorkInv, WorkOK
  <2> QED  BY <1>4, <2>2, <2>3, <2>4 DEF TeardownStep
<1>5. ASSUME NEW p \in Procs, Crash(p) PROVE WorkInv'
  BY <1>5, ReturnForgets DEF Crash, WorkInv, WorkOK
<1>6. CASE Edit
  <2>1. ASSUME NEW p \in Procs, pc'[p] = "remove" PROVE job'[p].late
    BY <1>6, <2>1 DEF Edit, CallInv, TypeOK, Job
  <2> QED  BY <2>1 DEF WorkInv, WorkOK
<1>7. CASE UNCHANGED vars \/ Commit \/ Merge \/ DevcontainerUp
  BY <1>7 DEF vars, Commit, Merge, DevcontainerUp, WorkInv, WorkOK
<1> QED
  BY <1>1, <1>2, <1>3, <1>4, <1>5, <1>6, <1>7 DEF Next

(* Who removes a worktree. *)
LEMMA WorktreeGoes ==
  ASSUME CallInv, [Next]_vars, worktree # "absent", worktree' = "absent"
  PROVE  \E p \in Procs : Acts(p) /\ ((RemoveWorktree(p) /\ job[p].existed) \/ CleanWorktree(p))
<1>1. ASSUME NEW p \in Procs, StartStep(p) PROVE CleanWorktree(p)
  BY <1>1 DEF StartStep, CreateWorktree, CreateFails, WriteAhead, Setup, SetupFails, Prepare,
              PrepareFails, RecordRuntime, Environment, EnvironmentFails, Retain, Started,
              Conclude, DestroyFailed, ClearRuntime, CleanBranch, CleanEntry
<1>2. ASSUME NEW p \in Procs, TeardownStep(p) PROVE RemoveWorktree(p) /\ job[p].existed
  BY <1>2 DEF TeardownStep, SpecNotMoved, Destroy, DestroyUnverified, Recheck, RecheckStops,
              RemoveWorktree, RemoveFails, Prune, DeleteBranch, Removed
<1>3. ASSUME NEW p \in Procs, RemoveWorktree(p) \/ CleanWorktree(p) PROVE Acts(p)
  BY <1>3 DEF RemoveWorktree, CleanWorktree, Goto, Acts, CallInv, TypeOK
<1> QED
  BY <1>1, <1>2, <1>3 DEF Next, vars, StartCheck, TeardownPlan, Crash, Edit, Commit, Merge,
                          DevcontainerUp

(* Where no teardown runs beside another call, uncommitted changes go only *)
(* by consent, or with the worktree of a failed in-guest start.            *)
THEOREM UncommittedWorkKept == ASSUME TeardownsAlone PROVE Spec => WorkKept
<1> DEFINE kept ==
      worktree = "dirty" /\ worktree' = "absent" =>
        \E p \in Procs :
            /\ Acts(p)
            /\ \/ pc[p] = "remove" /\ (DiscardsChanges(job[p].request) \/ job[p].late)
               \/ pc[p] = "cleanWorktree"
<1>1. Init => WorkInv
  BY DEF Init, WorkInv, WorkOK
<1>2. CallInv /\ AloneInv /\ WorkInv /\ [Next]_vars => WorkInv'
  BY WorkStep
<1>3. ASSUME CallInv, WorkInv, [Next]_vars PROVE [kept]_vars
  <2>1. CASE worktree = "dirty" /\ worktree' = "absent"
    <3>1. PICK p \in Procs : Acts(p) /\ ((RemoveWorktree(p) /\ job[p].existed) \/ CleanWorktree(p))
      BY <1>3, <2>1, WorktreeGoes
    <3>2. CASE RemoveWorktree(p) /\ job[p].existed
      BY <1>3, <2>1, <3>1, <3>2 DEF RemoveWorktree, WorkInv, WorkOK
    <3>3. CASE CleanWorktree(p)
      BY <3>1, <3>3 DEF CleanWorktree
    <3> QED  BY <3>1, <3>2, <3>3
  <2> QED  BY <2>1
<1> QED  BY <1>1, <1>2, <1>3, CallInvariance, AloneInvariance, PTL DEF Spec, WorkKept

---------------------------------------------------------------------------
(* The user's commits, where calls run one at a time.                      *)

CommitInv ==
    scenario.overlap = "none" =>
        \A p \in Procs : pc[p] = "create" /\ ~ job[p].request.reuse =>
            worktree = "absent" /\ branch = "absent"

LEMMA OneAtATime ==
  ASSUME CallInv, AloneInv, scenario.overlap = "none", NEW p \in Procs, pc[p] # "idle"
  PROVE  \A q \in Procs : q # p => pc[q] = "idle"
BY DEF AloneInv

LEMMA CommitStep == ASSUME CallInv, AloneInv, CommitInv, [Next]_vars PROVE CommitInv'
<1> SUFFICES ASSUME scenario.overlap = "none" PROVE CommitInv'
  BY ScenarioStays DEF CommitInv
<1>1. ASSUME NEW p \in Procs, NEW r \in Starts, StartCheck(p, r) PROVE CommitInv'
  <2> DEFINE recreate == r.kind # "in_guest" /\ branch # "absent" /\ worktree = "absent"
                            /\ Listed(registry, Feature)
             reuse == r.reuse \/ recreate
  <2>1. r \in StartRequest /\ job[p] \in Job
    BY AsksFor DEF CallInv, TypeOK
  <2>2. \A q \in Procs : q # p => pc'[q] = "idle"
    BY <1>1 DEF StartCheck, MayBegin, Goto, CallInv, TypeOK
  <2>3. job' = [job EXCEPT ![p] = [NoJob EXCEPT !.request = [r EXCEPT !.reuse = reuse],
                                                !.existed = worktree # "absent"]]
    BY <1>1 DEF StartCheck
  <2>4. job'[p].request.reuse = reuse
    <3> HIDE DEF reuse
    <3> QED  BY <2>1, <2>3 DEF CallInv, TypeOK, NoJob, StartRequest
  <2>5. /\ worktree # "absent" => reuse
        /\ IF reuse THEN TRUE ELSE branch = "absent"
        /\ branch' = IF reuse /\ branch = "absent" THEN "merged" ELSE branch
        /\ UNCHANGED worktree
    BY <1>1 DEF StartCheck
  <2> QED  BY <2>2, <2>4, <2>5 DEF CommitInv
<1>2. ASSUME NEW p \in Procs, StartStep(p) PROVE CommitInv'
  <2>1. \A q \in Procs : q # p => pc[q] = "idle"
    BY <1>2, StartsSteps, OneAtATime, StepNames
  <2>2. \A q \in Procs : q # p => pc'[q] = "idle"
    BY <1>2, <2>1, StartMoves DEF Moves, CallInv, TypeOK
  <2>3. pc'[p] # "create"
    BY <1>2 DEF StartStep, CreateWorktree, CreateFails, WriteAhead, Setup, SetupFails, Prepare,
                PrepareFails, RecordRuntime, Environment, EnvironmentFails, Retain, Started,
                Conclude, DestroyFailed, ClearRuntime, CleanWorktree, CleanBranch, CleanEntry,
                Abandon, Leave, Goto, CallInv, TypeOK
  <2> QED  BY <2>2, <2>3 DEF CommitInv
<1>3. ASSUME NEW p \in Procs, NEW r \in Teardowns, TeardownPlan(p, r) PROVE CommitInv'
  BY <1>3 DEF TeardownPlan, MayBegin, Goto, CallInv, TypeOK, CommitInv
<1>4. ASSUME NEW p \in Procs, TeardownStep(p) PROVE CommitInv'
  <2>1. pc[p] \in TeardownSteps /\ \A q \in Procs : q # p => pc[q] = "idle"
    BY <1>4, TeardownsSteps, OneAtATime, StepNames
  <2>2. \A q \in Procs : pc'[q] # "create"
    BY <1>4, <2>1, TeardownMoves, StepNames
    DEF Moves, MayBegin, CallInv, TypeOK, StartSteps, TeardownSteps
  <2> QED  BY <2>2 DEF CommitInv
<1>5. ASSUME NEW p \in Procs, Crash(p) PROVE CommitInv'
  BY <1>5, ReturnForgets DEF Crash, CommitInv
<1>6. CASE Edit
  <2>1. \A p \in Procs : job'[p].request = job[p].request
    BY <1>6 DEF Edit, CallInv, TypeOK, Job
  <2> QED  BY <1>6, <2>1 DEF Edit, CommitInv
<1>7. CASE UNCHANGED vars \/ Commit \/ Merge \/ DevcontainerUp
  BY <1>7 DEF vars, Commit, Merge, DevcontainerUp, CommitInv
<1> QED
  BY <1>1, <1>2, <1>3, <1>4, <1>5, <1>6, <1>7 DEF Next

(* Of calls one at a time, only a branch step that was asked to force, or  *)
(* a failed in-guest start, loses commits that are nowhere else.           *)
THEOREM CommitsNeverReset == Spec => CommitsKept
<1> DEFINE kept ==
      scenario.overlap = "none" /\ branch = "unmerged" /\ branch' # "unmerged" =>
        \A p \in Procs : Acts(p) =>
            \/ pc[p] = "deleteBranch" /\ BranchAction(job[p].request) = "force"
            \/ pc[p] = "cleanBranch"
<1>1. Init => CommitInv
  BY DEF Init, CommitInv
<1>2. CallInv /\ AloneInv /\ CommitInv /\ [Next]_vars => CommitInv'
  BY CommitStep
<1>3. ASSUME CallInv, CommitInv, [Next]_vars PROVE [kept]_vars
  <2> SUFFICES ASSUME scenario.overlap = "none", branch = "unmerged", branch' # "unmerged",
                      NEW p \in Procs, Acts(p)
               PROVE  \/ pc[p] = "deleteBranch" /\ BranchAction(job[p].request) = "force"
                      \/ pc[p] = "cleanBranch"
    OBVIOUS
  <2>1. ASSUME NEW q \in Procs, NEW r \in Starts, StartCheck(q, r) PROVE FALSE
    BY <1>3, <2>1 DEF StartCheck
  <2>2. ASSUME NEW q \in Procs, StartStep(q) PROVE q = p /\ pc[p] = "cleanBranch"
    <3>1. q = p
      BY <1>3, <2>2, StartMoves DEF Moves, Acts, CallInv, TypeOK
    <3>2. ~ CreateWorktree(q)
      BY <1>3 DEF CreateWorktree, CommitInv
    <3>3. CleanBranch(q)
      BY <2>2, <3>2
      DEF StartStep, CreateFails, WriteAhead, Setup, SetupFails, Prepare, PrepareFails,
          RecordRuntime, Environment, EnvironmentFails, Retain, Started, Conclude, DestroyFailed,
          ClearRuntime, CleanWorktree, CleanEntry
    <3> QED  BY <3>1, <3>3 DEF CleanBranch
  <2>3. ASSUME NEW q \in Procs, TeardownStep(q)
        PROVE  pc[p] = "deleteBranch" /\ BranchAction(job[p].request) = "force"
    <3>1. q = p
      BY <1>3, <2>3, TeardownMoves DEF Moves, Acts, CallInv, TypeOK
    <3>2. DeleteBranch(q)
      BY <2>3 DEF TeardownStep, SpecNotMoved, Destroy, DestroyUnverified, Recheck, RecheckStops,
                  RemoveWorktree, RemoveFails, Prune, Removed
    <3> QED  BY <3>1, <3>2 DEF DeleteBranch, Deletable
  <2>4. CASE \/ \E q \in Procs : (\E r \in Teardowns : TeardownPlan(q, r)) \/ Crash(q)
             \/ Edit \/ Commit \/ Merge \/ DevcontainerUp \/ UNCHANGED vars
    BY <2>4 DEF TeardownPlan, Crash, Edit, Commit, Merge, DevcontainerUp, vars, Acts
  <2> QED  BY <1>3, <2>1, <2>2, <2>3, <2>4 DEF Next
<1> QED  BY <1>1, <1>2, <1>3, CallInvariance, AloneInvariance, PTL DEF Spec, CommitsKept

---------------------------------------------------------------------------
(* What a teardown finds, where a feature that is started with the sbx     *)
(* provider is started with no other, except in-guest at another time.     *)

OneProvider ==
    \A s \in Scenarios : \A r, q \in s.starts :
        r.kind = "sbx" => q.kind = "sbx" \/ (q.kind = "in_guest" /\ s.overlap = "none")

LEMMA KindsTogether ==
  ASSUME OneProvider, CallInv, "sbx" \in StartedKinds, NEW kind \in StartedKinds
  PROVE  kind = "sbx" \/ (kind = "in_guest" /\ scenario.overlap = "none")
<1>1. PICK r, q \in scenario.starts : r.kind = "sbx" /\ q.kind = kind
  BY DEF StartedKinds, Starts
<1> QED  BY <1>1 DEF OneProvider, CallInv, TypeOK

LEMMA SbxTogether ==
  ASSUME OneProvider, CallInv, AloneInv, NEW p \in Procs, NEW q \in Procs, p # q,
         pc[p] \in StartSteps, pc[q] \in StartSteps, job[p].request.kind = "sbx"
  PROVE  job[q].request.kind = "sbx"
<1>1. "sbx" \in StartedKinds /\ job[q].request.kind \in StartedKinds
  BY DEF CallInv, CallOK
<1>2. scenario.overlap # "none"
  BY StepNames DEF AloneInv
<1> QED  BY <1>1, <1>2, KindsTogether

MarkedStays(e) == e # NoEntry /\ e.setup # NoPid => e.status # "removed"

FindOK(p) ==
    /\ pc[p] \in StartSteps /\ job[p].previous # Unwritten => MarkedStays(job[p].previous)
    /\ pc[p] \in StartSteps /\ job[p].request.kind # "sbx" => ~ known
    /\ pc[p] \in StartSteps /\ job[p].request.kind = "sbx" /\ (pc[p] # "create" \/ job[p].existed) =>
        worktree # "absent"
    /\ pc[p] = "clearRuntime" /\ known => ~ MarkedBy(registry, Feature, p)
    /\ pc[p] = "destroy" /\ known => job[p].runtime = Sandbox
    /\ pc[p] \in TeardownSteps \ {"destroy"} => ~ known

FindInv ==
    /\ MarkedStays(entry)
    /\ known =>
        /\ "sbx" \in StartedKinds
        /\ Listed(registry, Feature)
        /\ entry.runtime = Sandbox
        /\ entry.status # "removed"
        /\ worktree # "absent"
    /\ \A p \in Procs : FindOK(p)

LEMMA FindInitInv == ASSUME Init PROVE FindInv
<1>1. entry = NoEntry
  BY DEF Init, EmptyRegistry, entry
<1> QED  BY <1>1, StepNames DEF Init, FindInv, FindOK, MarkedStays, StartSteps, TeardownSteps

LEMMA FindKept ==
  ASSUME CallInv, FindInv, UNCHANGED <<scenario, registry>>, known' \in BOOLEAN, known' => known,
         worktree' = "absent" => worktree = "absent",
         \A p \in Procs :
            \/ pc'[p] = "idle"
            \/ pc'[p] = pc[p] /\ job'[p] = job[p]
            \/ /\ pc[p] \in StartSteps /\ pc'[p] \in StartSteps \ {"create", "clearRuntime"}
               /\ pc[p] # "create"
               /\ job'[p].request = job[p].request /\ job'[p].previous = job[p].previous
  PROVE  FindInv'
<1>1. ASSUME NEW p \in Procs PROVE FindOK(p)'
  BY StepNames DEF FindInv, FindOK, TeardownSteps
<1>2. StartedKinds' = StartedKinds /\ entry' = entry
  BY DEF StartedKinds, Starts, entry
<1> QED  BY <1>1, <1>2 DEF FindInv

LEMMA FindStartStep ==
  ASSUME TeardownsAlone, OneProvider, CallInv, AloneInv, FindInv, NEW p \in Procs, StartStep(p)
  PROVE  FindInv'
<1> DEFINE kind == job[p].request.kind
<1>1. /\ pc[p] \in StartSteps /\ kind \in StartedKinds /\ kind \in Kinds
      /\ scenario' = scenario /\ StartedKinds' = StartedKinds
  BY StartsSteps, StepStays DEF CallInv, CallOK, StartRequest, StartedKinds, Starts
<1>2. \A q \in Procs : pc[q] \notin TeardownSteps /\ pc'[q] \notin TeardownSteps
  BY StartBeside
<1>3. /\ "destroy" \in TeardownSteps /\ "idle" \notin StartSteps
      /\ "clearRuntime" \in StartSteps /\ "create" # "clearRuntime"
  BY DEF StartSteps, TeardownSteps
<1>4. MarkedStays(entry) /\ \A q \in Procs : FindOK(q)
  BY DEF FindInv
<1>5. CASE SetupFails(p) \/ PrepareFails(p) \/ Setup(p) \/ Prepare(p) \/ Environment(p)
             \/ EnvironmentFails(p) \/ CreateFails(p)
  <2>1. /\ UNCHANGED <<registry, known>>
        /\ worktree' = "absent" => worktree = "absent"
    BY <1>5 DEF SetupFails, PrepareFails, Setup, Prepare, Environment, EnvironmentFails, CreateFails
  <2>2. \/ Leave(p)
        \/ \E step \in StartSteps \ {"create", "clearRuntime"} :
              Goto(p, step) /\ pc[p] # "create" /\ UNCHANGED job
        \/ Prepare(p)
    BY <1>5 DEF SetupFails, PrepareFails, Setup, Environment, EnvironmentFails, CreateFails, Abandon,
                StartSteps
  <2>3. CASE Leave(p)
    BY <1>1, <2>1, <2>3, FindKept, ReturnForgets DEF CallInv, TypeOK
  <2>4. CASE \E step \in StartSteps \ {"create", "clearRuntime"} :
               Goto(p, step) /\ pc[p] # "create" /\ UNCHANGED job
    BY <1>1, <2>1, <2>4, FindKept DEF Goto, CallInv, TypeOK
  <2>5. CASE Prepare(p)
    <3>1. /\ pc'[p] \in StartSteps \ {"create", "clearRuntime"} /\ pc[p] # "create"
          /\ \A q \in Procs : q # p => pc'[q] = pc[q] /\ job'[q] = job[q]
      BY <2>5 DEF Prepare, Goto, CallInv, TypeOK, StartSteps
    <3>2. job'[p].request = job[p].request /\ job'[p].previous = job[p].previous
      BY <2>5 DEF Prepare, CallInv, TypeOK, Job
    <3> QED  BY <1>1, <2>1, <3>1, <3>2, FindKept DEF CallInv, TypeOK
  <2> QED  BY <2>2, <2>3, <2>4, <2>5
<1>6. CASE CreateWorktree(p)
  <2>1. /\ UNCHANGED <<registry, known, job>>
        /\ pc' = [pc EXCEPT ![p] = "writeAhead"]
        /\ job[p].existed => UNCHANGED worktree
        /\ ~ job[p].existed => worktree' # "absent"
    BY <1>6 DEF CreateWorktree, Goto
  <2>2. ASSUME NEW q \in Procs PROVE FindOK(q)'
    BY <1>1, <1>2, <1>3, <1>4, <2>1 DEF FindOK, CallInv, TypeOK, MarkedBy
  <2> QED  BY <1>1, <2>1, <2>2 DEF FindInv, entry
<1>7. CASE WriteAhead(p)
  <2>1. /\ UNCHANGED <<known, worktree>>
        /\ pc' = [pc EXCEPT ![p] = "setup"] /\ pc[p] = "writeAhead"
    BY <1>7 DEF WriteAhead, Goto
  <2>2. /\ \A q \in Procs : q # p => job'[q] = job[q]
        /\ job'[p].request = job[p].request
        /\ job'[p].previous = entry \/ job'[p].previous = job[p].previous
    BY <1>7 DEF WriteAhead, CallInv, TypeOK, Job
  <2>3. \/ UNCHANGED registry
        \/ /\ Listed(registry', Feature) /\ entry'.status # "removed" /\ entry'.setup = p
           /\ known => entry'.runtime = entry.runtime
    BY <1>1, <1>7, RuntimeTypes, SetupStarted DEF WriteAhead, FindInv, CallInv, TypeOK, entry
  <2>4. ASSUME NEW q \in Procs PROVE FindOK(q)'
    BY <1>1, <1>2, <1>3, <1>4, <2>1, <2>2, <2>3 DEF FindOK, CallInv, TypeOK, MarkedBy, entry
  <2>5. MarkedStays(entry')
    BY <1>4, <2>3 DEF MarkedStays, entry
  <2> QED  BY <1>1, <2>1, <2>3, <2>4, <2>5 DEF FindInv, entry
<1>8. CASE RecordRuntime(p)
  <2>1. kind = "sbx" /\ job[p].runtime = Sandbox /\ pc[p] = "recordRuntime"
    BY <1>8 DEF RecordRuntime, CallInv, CallOK, SbxSteps, PreparedSteps, Provided
  <2>2. worktree # "absent" /\ UNCHANGED <<worktree, job>> /\ pc' = [pc EXCEPT ![p] = "environment"]
    BY <1>1, <1>4, <1>8, <2>1 DEF RecordRuntime, FindOK, Goto
  <2>3. \/ UNCHANGED <<registry, known>>
        \/ /\ Listed(registry', Feature) /\ entry'.status # "removed" /\ entry'.setup = p
           /\ entry'.runtime = Sandbox
    <3>1. \/ UNCHANGED registry
          \/ /\ MarkedBy(registry, Feature, p)
             /\ registry' = RecordSetupRuntime(registry, Feature, p, Sandbox)
      BY <1>8, <2>1, RuntimeTypes, SetupRuntime DEF RecordRuntime, RecordProvisional, CallInv, TypeOK
    <3>2. CASE UNCHANGED registry
      BY <1>8, <3>2 DEF RecordRuntime, CallInv, TypeOK
    <3>3. CASE /\ MarkedBy(registry, Feature, p)
               /\ registry' = RecordSetupRuntime(registry, Feature, p, Sandbox)
      <4>1. entry # NoEntry /\ entry.setup = p /\ entry.status # "removed"
        BY <1>4, <3>3, ProcNotNone DEF MarkedStays, MarkedBy, Listed, entry
      <4> QED  BY <3>3, <4>1, RuntimeTypes, SetupRuntime DEF CallInv, TypeOK, entry
    <3> QED  BY <3>1, <3>2, <3>3
  <2>4. \A q \in Procs : pc[q] \in StartSteps => job[q].request.kind = "sbx"
    BY <1>1, <2>1, SbxTogether
  <2>5. ASSUME NEW q \in Procs PROVE FindOK(q)'
    BY <1>1, <1>2, <1>3, <1>4, <2>1, <2>2, <2>3, <2>4 DEF FindOK, CallInv, TypeOK, MarkedBy, entry
  <2>6. MarkedStays(entry')
    BY <1>4, <2>3 DEF MarkedStays, entry
  <2> QED  BY <1>1, <2>1, <2>2, <2>3, <2>5, <2>6 DEF FindInv, entry
<1>9. CASE Retain(p) \/ Started(p)
  <2>1. PICK status \in {"active", "failed_retained"} : Conclude(p, status)
    BY <1>9 DEF Retain, Started
  <2>2. job[p].runtime = Provided(kind) /\ pc[p] # "create" /\ job[p].runtime \in Runtime
    BY <1>9 DEF Retain, Started, CallInv, CallOK, PreparedSteps, TypeOK, Job
  <2>3. /\ UNCHANGED worktree /\ pc'[p] = "idle"
        /\ \A q \in Procs : q # p => pc'[q] = pc[q] /\ job'[q] = job[q]
    BY <2>1, ReturnForgets DEF Conclude
  <2>4. \/ UNCHANGED <<registry, known>>
        \/ /\ Listed(registry', Feature) /\ entry'.status # "removed" /\ entry'.setup = NoPid
           /\ entry'.runtime = job[p].runtime
           /\ known' = (known \/ job[p].runtime = Sandbox)
    <3> DEFINE new == StartEntry(status, NoPid, job[p].runtime)
    <3>1. new \in Entry /\ new.status = status /\ new.setup = NoPid /\ new.runtime = job[p].runtime
      <4>1. status \in StoredStatus /\ NoPid \in Procs \cup {NoPid}
        BY DEF StoredStatus
      <4> QED  BY <2>2, <4>1, StartEntryType
    <3>2. UNCHANGED <<registry, known>> \/ (registry' = RecordStart(registry, Feature, new)
                                            /\ known' = (known \/ job[p].runtime = Sandbox))
      BY <2>1 DEF Conclude
    <3> HIDE DEF new
    <3> QED  BY <3>1, <3>2, Upserted DEF RecordStart, CallInv, TypeOK, entry
  <2>5. CASE kind = "sbx"
    <3>1. job[p].runtime = Sandbox /\ worktree # "absent"
      BY <1>1, <1>4, <2>2, <2>5 DEF Provided, FindOK
    <3>2. \A q \in Procs : pc[q] \in StartSteps => job[q].request.kind = "sbx"
      BY <1>1, <2>5, SbxTogether
    <3>3. ASSUME NEW q \in Procs PROVE FindOK(q)'
      BY <1>1, <1>2, <1>3, <1>4, <2>3, <2>4, <3>2, ProcNotNone DEF FindOK, MarkedBy, entry
    <3>4. MarkedStays(entry')
      BY <1>4, <2>4 DEF MarkedStays, entry
    <3> QED  BY <1>1, <2>3, <2>4, <2>5, <3>1, <3>3, <3>4 DEF FindInv, entry
  <2>6. CASE kind # "sbx"
    <3>1. job[p].runtime # Sandbox /\ ~ known
      BY <1>1, <1>4, <2>2, <2>6, RuntimeTypes DEF Provided, FindOK
    <3>2. ~ known'
      BY <2>4, <3>1
    <3>3. MarkedStays(entry')
      BY <1>4, <2>4 DEF MarkedStays, entry
    <3>4. ASSUME NEW q \in Procs PROVE FindOK(q)'
      BY <1>1, <1>2, <1>3, <1>4, <2>3, <3>2 DEF FindOK
    <3> QED  BY <3>2, <3>3, <3>4 DEF FindInv
  <2> QED  BY <2>5, <2>6
<1>10. CASE DestroyFailed(p)
  <2>1. /\ UNCHANGED <<registry, worktree>> /\ pc[p] = "destroyFailed"
        /\ \/ /\ known' = (known /\ kind # "sbx") /\ kind = "sbx"
              /\ Goto(p, "clearRuntime") /\ UNCHANGED job
           \/ (UNCHANGED known \/ known' = (known /\ kind # "sbx")) /\ Abandon(p)
    BY <1>10 DEF DestroyFailed
  <2>2. CASE Abandon(p)
    <3>1. known' \in BOOLEAN /\ (known' => known)
      <4>1. known = TRUE \/ known = FALSE
        BY DEF CallInv, TypeOK
      <4>2. CASE UNCHANGED known
        BY <4>1, <4>2, Zenon
      <4>3. CASE known' = (known /\ kind # "sbx")
        <5>1. CASE kind = "sbx"
          <6>1. known' = FALSE
            BY <4>3, <5>1
          <6> QED  BY <6>1
        <5>2. CASE kind # "sbx"
          <6>1. known' = known
            BY <4>1, <4>3, <5>2
          <6> QED  BY <4>1, <6>1, Zenon
        <5> QED  BY <5>1, <5>2
      <4> QED  BY <2>1, <4>2, <4>3
    <3>2. Leave(p) \/ (Goto(p, "cleanWorktree") /\ UNCHANGED job)
      BY <2>2 DEF Abandon
    <3>3. CASE Leave(p)
      BY <1>1, <2>1, <3>1, <3>3, FindKept, ReturnForgets
    <3>4. CASE Goto(p, "cleanWorktree") /\ UNCHANGED job
      BY <1>1, <2>1, <3>1, <3>4, FindKept DEF Goto, CallInv, TypeOK, StartSteps
    <3> QED  BY <3>2, <3>3, <3>4
  <2>3. CASE /\ known' = (known /\ kind # "sbx") /\ kind = "sbx"
             /\ Goto(p, "clearRuntime") /\ UNCHANGED job
    <3>1. ~ known'
      BY <2>3
    <3>2. pc' = [pc EXCEPT ![p] = "clearRuntime"] /\ UNCHANGED job
      BY <2>3 DEF Goto
    <3>3. ASSUME NEW q \in Procs PROVE FindOK(q)'
      BY <1>1, <1>2, <1>3, <1>4, <2>1, <3>1, <3>2 DEF FindOK, CallInv, TypeOK
    <3> QED  BY <1>4, <2>1, <3>1, <3>3 DEF FindInv, entry
  <2> QED  BY <2>1, <2>2, <2>3
<1>11. CASE ClearRuntime(p)
  <2>1. /\ UNCHANGED <<worktree, known>> /\ pc[p] = "clearRuntime" /\ pc'[p] = "idle"
        /\ \A q \in Procs : q # p => pc'[q] = pc[q] /\ job'[q] = job[q]
    BY <1>11, ReturnForgets DEF ClearRuntime
  <2>2. known => ~ MarkedBy(registry, Feature, p)
    BY <1>4, <2>1 DEF FindOK
  <2>3. \/ UNCHANGED registry
        \/ /\ ~ known /\ Listed(registry, Feature) /\ Listed(registry', Feature)
           /\ entry'.status = entry.status /\ entry'.setup = p /\ entry.setup = p
    <3>1. Bare("sbx") \in Runtime
      BY RuntimeTypes DEF Kinds
    <3> QED
      BY <1>11, <2>2, <3>1, SetupRuntime
      DEF ClearRuntime, RecordProvisional, MarkedBy, CallInv, TypeOK, entry
  <2>4. ASSUME NEW q \in Procs PROVE FindOK(q)'
    BY <1>1, <1>2, <1>3, <1>4, <2>1, <2>3 DEF FindOK, MarkedBy, entry
  <2>5. MarkedStays(entry')
    BY <1>4, <2>3 DEF MarkedStays, Listed, entry
  <2> QED  BY <1>1, <2>1, <2>3, <2>4, <2>5 DEF FindInv, entry
<1>12. CASE CleanWorktree(p)
  <2>1. kind = "in_guest" /\ ~ known
    BY <1>1, <1>4, <1>12 DEF CleanWorktree, CallInv, CallOK, InGuestSteps, FindOK
  <2>2. UNCHANGED <<registry, known, job>> /\ pc' = [pc EXCEPT ![p] = "cleanBranch"]
    BY <1>12 DEF CleanWorktree, Goto
  <2>3. \A q \in Procs : pc[q] \in StartSteps => job[q].request.kind # "sbx"
    BY <1>1, <2>1, SbxTogether
  <2>4. "cleanBranch" \in StartSteps
    BY DEF StartSteps
  <2>5. ASSUME NEW q \in Procs PROVE FindOK(q)'
    BY <1>1, <1>2, <1>3, <1>4, <2>1, <2>2, <2>3, <2>4 DEF FindOK, CallInv, TypeOK
  <2> QED  BY <1>4, <2>1, <2>2, <2>5 DEF FindInv, entry
<1>13. CASE CleanBranch(p)
  <2>1. UNCHANGED <<registry, known, worktree>> /\ pc[p] = "cleanBranch"
    BY <1>13 DEF CleanBranch
  <2>2. CASE Leave(p)
    BY <1>1, <2>1, <2>2, FindKept, ReturnForgets DEF CallInv, TypeOK
  <2>3. CASE Goto(p, "cleanEntry") /\ UNCHANGED job
    BY <1>1, <2>1, <2>3, FindKept DEF Goto, CallInv, TypeOK, StartSteps
  <2> QED  BY <1>13, <2>2, <2>3 DEF CleanBranch
<1>14. CASE CleanEntry(p)
  <2>1. /\ UNCHANGED <<worktree, known>> /\ pc'[p] = "idle"
        /\ \A q \in Procs : q # p => pc'[q] = pc[q] /\ job'[q] = job[q]
    BY <1>14, ReturnForgets DEF CleanEntry
  <2>2. ~ known
    BY <1>1, <1>4, <1>14 DEF CleanEntry, CallInv, CallOK, InGuestSteps, FindOK
  <2>3. MarkedStays(entry')
    <3>1. CASE UNCHANGED registry
      BY <1>4, <3>1 DEF entry
    <3>2. CASE /\ job[p].previous # Unwritten
               /\ registry' = DiscardSetup(registry, Feature, p, job[p].previous)
      <4>1. job[p].previous \in Entry \cup {NoEntry} /\ MarkedStays(job[p].previous)
        BY <1>1, <1>4, <3>2 DEF CallInv, TypeOK, Job, FindOK
      <4> QED  BY <1>4, <3>2, <4>1, SetupDiscarded DEF CallInv, TypeOK, entry
    <3> QED  BY <1>14, <3>1, <3>2 DEF CleanEntry
  <2>4. ASSUME NEW q \in Procs PROVE FindOK(q)'
    BY <1>1, <1>2, <1>3, <1>4, <2>1, <2>2 DEF FindOK
  <2> QED  BY <2>1, <2>2, <2>3, <2>4 DEF FindInv
<1> QED
  BY <1>5, <1>6, <1>7, <1>8, <1>9, <1>10, <1>11, <1>12, <1>13, <1>14 DEF StartStep

LEMMA FindTeardownStep ==
  ASSUME TeardownsAlone, CallInv, AloneInv, FindInv, NEW p \in Procs, TeardownStep(p)
  PROVE  FindInv'
<1>1. /\ pc[p] \in TeardownSteps /\ pc'[p] \in TeardownSteps \cup {"idle"}
      /\ \A q \in Procs : q # p => pc'[q] = "idle"
      /\ scenario' = scenario /\ StartedKinds' = StartedKinds
  BY TeardownBeside, StepStays DEF StartedKinds, Starts
<1>2. \A q \in Procs : pc'[q] \notin StartSteps /\ pc'[q] \notin {"clearRuntime"}
  BY <1>1, StepNames DEF StartSteps, TeardownSteps
<1>3. MarkedStays(entry) /\ FindOK(p)
  BY DEF FindInv
<1>4. pc'[p] # "destroy"
  BY DEF TeardownStep, SpecNotMoved, Destroy, DestroyUnverified, AfterRuntime, Recheck,
         RecheckStops, RemoveWorktree, RemoveFails, Prune, DeleteBranch, Removed, Leave, Goto,
         CallInv, TypeOK
<1>5. CASE SpecNotMoved(p)
  BY <1>2, <1>3, <1>5, ReturnForgets, FindKept DEF SpecNotMoved, CallInv, TypeOK
<1>6. CASE Destroy(p) \/ DestroyUnverified(p)
  <2>1. UNCHANGED <<registry, worktree>> /\ (known' => known)
    <3>1. CASE Destroy(p)
      BY <3>1 DEF Destroy
    <3>2. CASE DestroyUnverified(p)
      BY <3>2 DEF DestroyUnverified
    <3> QED  BY <1>6, <3>1, <3>2
  <2>2. pc'[p] # "idle" => ~ known'
    <3>1. known => job[p].runtime = Sandbox
      BY <1>3, <1>6 DEF Destroy, DestroyUnverified, FindOK
    <3>2. CASE Destroy(p)
      <4>1. known => "sbx" \notin alive'
        BY <3>1, <3>2 DEF Destroy, Sandbox, Bare
      <4> QED  BY <3>2, <4>1 DEF Destroy
    <3>3. CASE DestroyUnverified(p)
      BY <3>3, ReturnForgets DEF DestroyUnverified
    <3> QED  BY <1>6, <3>2, <3>3
  <2>3. ASSUME NEW q \in Procs PROVE FindOK(q)'
    BY <1>1, <1>2, <1>4, <2>2, StepNames DEF FindOK
  <2> QED  BY <1>1, <1>3, <2>1, <2>3 DEF FindInv, entry
<1>7. CASE Recheck(p) \/ RecheckStops(p) \/ RemoveWorktree(p) \/ RemoveFails(p) \/ Prune(p)
             \/ DeleteBranch(p) \/ Removed(p)
  <2>1. ~ known /\ UNCHANGED known
    BY <1>1, <1>3, <1>7
    DEF Recheck, RecheckStops, RemoveWorktree, RemoveFails, Prune, DeleteBranch, Removed, FindOK
  <2>2. MarkedStays(entry')
    <3>1. UNCHANGED registry \/ registry' = RecordTeardown(registry, Feature)
      BY <1>7 DEF Recheck, RecheckStops, RemoveWorktree, RemoveFails, Prune, DeleteBranch, Removed
    <3> QED
      BY <1>3, <3>1, TeardownRecorded DEF CallInv, TypeOK, MarkedStays, Listed, entry
  <2>3. ASSUME NEW q \in Procs PROVE FindOK(q)'
    BY <1>2, <1>4, <2>1 DEF FindOK
  <2> QED  BY <2>1, <2>2, <2>3 DEF FindInv
<1> QED  BY <1>5, <1>6, <1>7 DEF TeardownStep

LEMMA FindStep ==
  ASSUME TeardownsAlone, OneProvider, CallInv, AloneInv, FindInv, [Next]_vars
  PROVE  FindInv'
<1>1. ASSUME NEW p \in Procs, NEW r \in Starts, StartCheck(p, r) PROVE FindInv'
  <2>1. /\ UNCHANGED <<scenario, registry, known, worktree>>
        /\ pc'[p] = "create"
        /\ \A q \in Procs : q # p => pc'[q] = pc[q] /\ job'[q] = job[q]
    BY <1>1 DEF StartCheck, Goto, CallInv, TypeOK
  <2>2. /\ job'[p].previous = Unwritten
        /\ job'[p].existed = (worktree # "absent")
        /\ job'[p].request.kind = r.kind
    <3> DEFINE reuse == r.reuse \/ (r.kind # "in_guest" /\ branch # "absent" /\ worktree = "absent"
                                      /\ Listed(registry, Feature))
               new == [NoJob EXCEPT !.request = [r EXCEPT !.reuse = reuse],
                                    !.existed = worktree # "absent"]
    <3>1. r \in StartRequest
      BY AsksFor
    <3>2. job' = [job EXCEPT ![p] = new]
      BY <1>1 DEF StartCheck
    <3>3. job'[p] = new
      BY <3>2 DEF CallInv, TypeOK
    <3> QED  BY <3>1, <3>3 DEF NoJob, StartRequest
  <2>3. r.kind # "sbx" => ~ known
    <3>1. CASE r.kind = "in_guest"
      <4>1. worktree = "absent"
        BY <1>1, <3>1, AsksFor DEF StartCheck, StartRequest
      <4> QED  BY <4>1 DEF FindInv
    <3>2. CASE r.kind = "container"
      <4>1. r.kind \in StartedKinds
        BY DEF StartedKinds
      <4> QED  BY <3>2, <4>1, KindsTogether DEF FindInv
    <3> QED  BY <3>1, <3>2, AsksFor DEF StartRequest, Kinds
  <2>4. ASSUME NEW q \in Procs PROVE FindOK(q)'
    <3>1. CASE q = p
      BY <2>1, <2>2, <2>3, <3>1 DEF FindOK, StartSteps, TeardownSteps
    <3>2. CASE q # p
      BY <2>1, <3>2 DEF FindInv, FindOK, MarkedBy
    <3> QED  BY <3>1, <3>2
  <2> QED  BY <2>1, <2>4 DEF FindInv, entry, StartedKinds, Starts
<1>2. ASSUME NEW p \in Procs, NEW r \in Teardowns, TeardownPlan(p, r) PROVE FindInv'
  <2>1. /\ UNCHANGED <<scenario, registry, known, worktree>>
        /\ pc'[p] = "destroy"
        /\ \A q \in Procs : q # p => pc'[q] = pc[q] /\ job'[q] = job[q]
    BY <1>2 DEF TeardownPlan, Goto, CallInv, TypeOK
  <2>2. job'[p].runtime = TeardownRuntime
    BY <1>2 DEF TeardownPlan, CallInv, TypeOK, NoJob
  <2>3. known => job'[p].runtime = Sandbox
    BY <2>2 DEF FindInv, TeardownRuntime
  <2>4. ASSUME NEW q \in Procs PROVE FindOK(q)'
    <3>1. CASE q = p
      BY <2>1, <2>3, <3>1 DEF FindOK, StartSteps, TeardownSteps
    <3>2. CASE q # p
      BY <2>1, <3>2 DEF FindInv, FindOK, MarkedBy
    <3> QED  BY <3>1, <3>2
  <2> QED  BY <2>1, <2>4 DEF FindInv, entry, StartedKinds, Starts
<1>3. ASSUME NEW p \in Procs, Crash(p) PROVE FindInv'
  BY <1>3, ReturnForgets, FindKept DEF Crash, CallInv, TypeOK
<1>4. CASE Edit
  <2>1. UNCHANGED <<scenario, registry, known, pc>> /\ worktree' # "absent"
    BY <1>4 DEF Edit
  <2>2. \A q \in Procs : /\ job'[q].request = job[q].request /\ job'[q].previous = job[q].previous
                         /\ job'[q].existed = job[q].existed /\ job'[q].runtime = job[q].runtime
    BY <1>4 DEF Edit, CallInv, TypeOK, Job
  <2>3. ASSUME NEW q \in Procs PROVE FindOK(q)'
    BY <2>1, <2>2 DEF FindInv, FindOK, MarkedBy
  <2> QED  BY <2>1, <2>3 DEF FindInv, entry, StartedKinds, Starts
<1>5. CASE UNCHANGED vars \/ Commit \/ Merge \/ DevcontainerUp
  BY <1>5, FindKept DEF vars, Commit, Merge, DevcontainerUp, CallInv, TypeOK
<1> QED
  BY <1>1, <1>2, <1>3, <1>4, <1>5, FindStartStep, FindTeardownStep DEF Next

LEMMA FindInvariance ==
  ASSUME TeardownsAlone, OneProvider PROVE Spec => []FindInv
<1>1. Init => FindInv
  BY FindInitInv
<1>2. CallInv /\ AloneInv /\ FindInv /\ [Next]_vars => FindInv'
  BY FindStep
<1> QED  BY <1>1, <1>2, CallInvariance, AloneInvariance, PTL DEF Spec

(* Where no teardown runs beside another call, and a feature with a        *)
(* sandbox is started with no other provider, the entry names a sandbox    *)
(* the registry was told of as long as there may be one.                   *)
THEOREM SandboxFindable ==
  ASSUME TeardownsAlone, OneProvider PROVE Spec => []RuntimeFindable
<1>1. FindInv => RuntimeFindable
  BY DEF FindInv, RuntimeFindable
<1> QED  BY <1>1, FindInvariance, PTL

---------------------------------------------------------------------------
(* What an unforced teardown leaves behind.                                *)

(* The registry speaks of kinds that are started only. *)
KindOK(p) ==
    pc[p] \in StartSteps /\ job[p].previous \notin {Unwritten, NoEntry} =>
        job[p].previous.runtime.provider \in StartedKinds

(* An unforced teardown acts on what the entry names, and has removed it.  *)
GoneOK(p) ==
    pc[p] \in TeardownSteps /\ ~ job[p].request.force =>
        /\ job[p].existed
        /\ pc[p] = "destroy" =>
            /\ job[p].runtime.provider # "in_guest"
            /\ Listed(registry, Feature) => job[p].runtime = entry.runtime
        /\ pc[p] # "destroy" => "container" \notin alive \/ ~ Listed(registry, Feature)
        /\ pc[p] \in {"prune", "deleteBranch", "recordTeardown"} => worktree = "absent"

GoneInv ==
    /\ Listed(registry, Feature) => entry.runtime.provider \in StartedKinds
    /\ "container" \in alive => "container" \in StartedKinds
    /\ \A p \in Procs : KindOK(p) /\ GoneOK(p)

LEMMA GoneInitInv == ASSUME Init PROVE GoneInv
BY StepNames DEF Init, EmptyRegistry, Listed, GoneInv, KindOK, GoneOK

LEMMA GoneKept ==
  ASSUME GoneInv, UNCHANGED <<scenario, registry>>,
         "container" \in alive' => "container" \in alive,
         worktree = "absent" => worktree' = "absent",
         \A p \in Procs :
            \/ pc'[p] = "idle"
            \/ pc'[p] = pc[p] /\ job'[p] = job[p]
            \/ pc[p] \in StartSteps /\ pc'[p] \in StartSteps /\ job'[p].previous = job[p].previous
  PROVE  GoneInv'
<1>1. ASSUME NEW p \in Procs PROVE KindOK(p)' /\ GoneOK(p)'
  BY StepNames DEF GoneInv, KindOK, GoneOK, entry, StartedKinds, Starts
<1> QED  BY <1>1 DEF GoneInv, entry, StartedKinds, Starts

LEMMA GoneStartStep ==
  ASSUME TeardownsAlone, CallInv, AloneInv, GoneInv, NEW p \in Procs, StartStep(p)
  PROVE  GoneInv'
<1> DEFINE kind == job[p].request.kind
<1>1. /\ pc[p] \in StartSteps /\ kind \in StartedKinds /\ kind \in Kinds
      /\ scenario' = scenario /\ StartedKinds' = StartedKinds
  BY StartsSteps, StepStays DEF CallInv, CallOK, StartRequest, StartedKinds, Starts
<1>2. \A q \in Procs : GoneOK(q)'
  BY StartBeside DEF GoneOK
<1>3. \A q \in Procs : KindOK(q)
  BY DEF GoneInv
<1>4. \A q \in Procs : q # p => pc'[q] = pc[q] /\ job'[q] = job[q]
  BY DEF StartStep, CreateWorktree, CreateFails, WriteAhead, Setup, SetupFails, Prepare,
         PrepareFails, RecordRuntime, Environment, EnvironmentFails, Retain, Started, Conclude,
         DestroyFailed, ClearRuntime, CleanWorktree, CleanBranch, CleanEntry, Abandon, Leave,
         Goto, CallInv, TypeOK
<1>5. "container" \in alive' => "container" \in alive
  BY DEF StartStep, CreateWorktree, CreateFails, WriteAhead, Setup, SetupFails, Prepare,
         PrepareFails, RecordRuntime, Environment, EnvironmentFails, Retain, Started, Conclude,
         DestroyFailed, ClearRuntime, CleanWorktree, CleanBranch, CleanEntry
<1>6. \/ pc'[p] = "idle"
      \/ job'[p].previous = job[p].previous
      \/ job'[p].previous = entry
  <2>1. CASE WriteAhead(p)
    BY <2>1 DEF WriteAhead, CallInv, TypeOK, Job
  <2>2. CASE Prepare(p)
    BY <2>2 DEF Prepare, CallInv, TypeOK, Job
  <2>3. CASE ~ WriteAhead(p) /\ ~ Prepare(p)
    <3>1. UNCHANGED job \/ Leave(p)
      BY <2>3 DEF StartStep, CreateWorktree, CreateFails, Setup, SetupFails, PrepareFails,
                  RecordRuntime, Environment, EnvironmentFails, Retain, Started, Conclude,
                  DestroyFailed, ClearRuntime, CleanWorktree, CleanBranch, CleanEntry, Abandon
    <3> QED  BY <3>1, ReturnForgets
  <2> QED  BY <2>1, <2>2, <2>3
<1>7. ASSUME NEW q \in Procs PROVE KindOK(q)'
  <2>1. CASE q = p
    BY <1>1, <1>3, <1>6, <2>1, StepNames DEF GoneInv, KindOK, Listed, entry
  <2>2. CASE q # p
    BY <1>1, <1>3, <1>4, <2>2 DEF KindOK
  <2> QED  BY <2>1, <2>2
<1>8. Listed(registry', Feature) => entry'.runtime.provider \in StartedKinds
  <2>1. CASE UNCHANGED registry
    BY <2>1 DEF GoneInv, entry
  <2>2. CASE WriteAhead(p)
    <3>1. Bare(kind) \in Runtime /\ Bare(kind).provider = kind
      BY <1>1, RuntimeTypes
    <3>2. UNCHANGED registry \/ registry' = RecordSetupStarted(registry, Feature, p, Bare(kind))
      BY <2>2 DEF WriteAhead
    <3>3. \/ entry'.runtime = entry.runtime /\ Listed(registry, Feature)
          \/ entry'.runtime = Bare(kind)
          \/ UNCHANGED registry
      BY <3>1, <3>2, SetupStarted DEF CallInv, TypeOK, entry
    <3> QED  BY <1>1, <2>1, <3>1, <3>3 DEF GoneInv
  <2>3. CASE RecordRuntime(p) \/ ClearRuntime(p)
    <3>1. PICK runtime \in Runtime : runtime.provider = kind /\ RecordProvisional(p, runtime)
      <4>1. pc[p] \in SbxSteps \cap PreparedSteps
        BY <2>3 DEF RecordRuntime, ClearRuntime, SbxSteps, PreparedSteps
      <4>2. kind = "sbx" /\ job[p].runtime = Sandbox
        BY <4>1 DEF CallInv, CallOK, Provided
      <4>3. Sandbox \in Runtime /\ Sandbox.provider = "sbx"
        BY RuntimeTypes DEF Sandbox
      <4>4. Bare("sbx") \in Runtime /\ Bare("sbx").provider = "sbx"
        BY RuntimeTypes DEF Kinds
      <4> QED  BY <2>3, <4>2, <4>3, <4>4 DEF RecordRuntime, ClearRuntime
    <3>2. UNCHANGED registry \/ registry' = RecordSetupRuntime(registry, Feature, p, runtime)
      BY <3>1 DEF RecordProvisional
    <3>3. UNCHANGED registry \/ entry'.runtime = runtime
      BY <3>2, SetupRuntime DEF CallInv, TypeOK, entry
    <3> QED  BY <1>1, <2>1, <3>1, <3>3
  <2>4. CASE Retain(p) \/ Started(p)
    <3>1. PICK status \in StoredStatus : Conclude(p, status)
      BY <2>4 DEF Retain, Started, StoredStatus
    <3> DEFINE new == StartEntry(status, NoPid, job[p].runtime)
    <3>2. job[p].runtime = Provided(kind) /\ job[p].runtime \in Runtime
      BY <2>4 DEF Retain, Started, CallInv, CallOK, PreparedSteps, TypeOK, Job
    <3>3. job[p].runtime.provider = kind
      BY <1>1, <3>2, RuntimeTypes DEF Provided, Sandbox
    <3>4. new \in Entry /\ new.runtime = job[p].runtime
      <4>1. NoPid \in Procs \cup {NoPid}
        OBVIOUS
      <4> QED  BY <3>2, <4>1, StartEntryType
    <3>5. UNCHANGED registry \/ registry' = RecordStart(registry, Feature, new)
      BY <3>1 DEF Conclude
    <3> HIDE DEF new
    <3>6. UNCHANGED registry \/ entry'.runtime = job[p].runtime
      BY <3>4, <3>5, Upserted DEF RecordStart, CallInv, TypeOK, entry
    <3> QED  BY <1>1, <2>1, <3>3, <3>6
  <2>5. CASE CleanEntry(p)
    <3>1. UNCHANGED registry \/ (job[p].previous # Unwritten
             /\ registry' = DiscardSetup(registry, Feature, p, job[p].previous))
      BY <2>5 DEF CleanEntry
    <3>2. job[p].previous # Unwritten => job[p].previous \in Entry \cup {NoEntry}
      BY DEF CallInv, TypeOK, Job
    <3>3. UNCHANGED registry \/ (job[p].previous # Unwritten /\ entry' = job[p].previous)
      BY <3>1, <3>2, SetupDiscarded DEF CallInv, TypeOK, entry
    <3> QED  BY <1>1, <1>3, <2>1, <3>3 DEF KindOK, Listed, entry
  <2> QED
    BY <2>1, <2>2, <2>3, <2>4, <2>5
    DEF StartStep, CreateWorktree, CreateFails, Setup, SetupFails, Prepare, PrepareFails,
        Environment, EnvironmentFails, DestroyFailed, CleanWorktree, CleanBranch
<1> QED  BY <1>1, <1>2, <1>5, <1>7, <1>8 DEF GoneInv

LEMMA GoneTeardownStep ==
  ASSUME TeardownsAlone, OneProvider, CallInv, AloneInv, GoneInv,
         NEW p \in Procs, TeardownStep(p)
  PROVE  GoneInv'
<1>1. /\ pc[p] \in TeardownSteps /\ pc'[p] \in TeardownSteps \cup {"idle"}
      /\ \A q \in Procs : q # p => pc'[q] = "idle"
      /\ scenario' = scenario /\ StartedKinds' = StartedKinds
  BY TeardownBeside, StepStays DEF StartedKinds, Starts
<1>2. \A q \in Procs : KindOK(q)'
  BY <1>1, StepNames DEF KindOK
<1>3. "container" \in alive' => "container" \in alive
  BY DEF TeardownStep, SpecNotMoved, Destroy, DestroyUnverified, Recheck, RecheckStops,
         RemoveWorktree, RemoveFails, Prune, DeleteBranch, Removed
<1>4. /\ Listed(registry', Feature) => entry'.runtime.provider \in StartedKinds
      /\ Listed(registry', Feature) => Listed(registry, Feature)
  <2>1. UNCHANGED registry \/ registry' = RecordTeardown(registry, Feature)
    BY DEF TeardownStep, SpecNotMoved, Destroy, DestroyUnverified, Recheck, RecheckStops,
           RemoveWorktree, RemoveFails, Prune, DeleteBranch, Removed
  <2> QED  BY <2>1, TeardownRecorded DEF GoneInv, CallInv, TypeOK, entry
<1>5. \/ job'[p].request = job[p].request /\ job'[p].existed = job[p].existed
      \/ pc'[p] = "idle"
  <2>1. CASE RemoveWorktree(p) \/ Prune(p)
    BY <2>1 DEF RemoveWorktree, Prune, CallInv, TypeOK, Job
  <2>2. CASE ~ (RemoveWorktree(p) \/ Prune(p))
    <3>1. UNCHANGED job \/ Leave(p)
      BY <2>2 DEF TeardownStep, SpecNotMoved, Destroy, DestroyUnverified, Recheck, RecheckStops,
                  RemoveFails, DeleteBranch, Removed
    <3> QED  BY <3>1, ReturnForgets
  <2> QED  BY <2>1, <2>2
<1>6. pc'[p] # "destroy"
  BY DEF TeardownStep, SpecNotMoved, Destroy, DestroyUnverified, AfterRuntime, Recheck,
         RecheckStops, RemoveWorktree, RemoveFails, Prune, DeleteBranch, Removed, Leave, Goto,
         CallInv, TypeOK
<1>7. ASSUME pc'[p] # "idle", ~ job[p].request.force
      PROVE  /\ "container" \notin alive' \/ ~ Listed(registry', Feature)
             /\ pc'[p] \in {"prune", "deleteBranch", "recordTeardown"} => worktree' = "absent"
  <2>1. GoneOK(p)
    BY DEF GoneInv
  <2>2. CASE Destroy(p)
    <3>1. /\ job[p].runtime.provider # "in_guest"
          /\ Listed(registry, Feature) => job[p].runtime = entry.runtime
      BY <1>1, <1>7, <2>1, <2>2 DEF Destroy, GoneOK
    <3>2. pc'[p] \in {"recheck", "remove"}
      BY <2>2 DEF Destroy, AfterRuntime, Goto, CallInv, TypeOK
    <3>3. ASSUME "container" \in alive, Listed(registry, Feature)
          PROVE  "container" \notin alive'
      <4>1. /\ "container" \in StartedKinds /\ "sbx" \notin StartedKinds
            /\ StartedKinds \subseteq Kinds
        BY <3>3, KindsTogether, KindsAsked DEF GoneInv
      <4>2. job[p].runtime.provider = "container"
        BY <3>1, <3>3, <4>1 DEF GoneInv, Kinds
      <4> QED  BY <2>2, <4>2 DEF Destroy, Bare
    <3> QED  BY <1>3, <1>4, <3>2, <3>3
  <2>3. CASE DestroyUnverified(p)
    BY <1>7, <2>3, ReturnForgets DEF DestroyUnverified
  <2>4. CASE ~ (Destroy(p) \/ DestroyUnverified(p) \/ SpecNotMoved(p))
    <3>1. pc[p] # "destroy"
      BY <2>4 DEF TeardownStep, Recheck, RecheckStops, RemoveWorktree, RemoveFails, Prune,
                  DeleteBranch, Removed
    <3>2. /\ job[p].existed
          /\ "container" \notin alive \/ ~ Listed(registry, Feature)
          /\ pc[p] \in {"prune", "deleteBranch", "recordTeardown"} => worktree = "absent"
      BY <1>1, <1>7, <2>1, <3>1 DEF GoneOK
    <3>3. pc'[p] \in {"prune", "deleteBranch", "recordTeardown"} => worktree' = "absent"
      BY <1>7, <2>4, <3>2, ReturnForgets
      DEF TeardownStep, Recheck, RecheckStops, RemoveWorktree, RemoveFails, Prune, DeleteBranch,
          Removed, Goto, CallInv, TypeOK
    <3> QED  BY <1>3, <1>4, <3>2, <3>3
  <2>5. CASE SpecNotMoved(p)
    BY <1>7, <2>5, ReturnForgets DEF SpecNotMoved
  <2> QED  BY <2>2, <2>3, <2>4, <2>5
<1>8. ASSUME NEW q \in Procs PROVE GoneOK(q)'
  <2>1. CASE pc'[q] = "idle"
    BY <2>1, StepNames DEF GoneOK
  <2>2. CASE pc'[q] # "idle"
    <3>1. q = p /\ (~ job[p].request.force => job[p].existed)
      BY <1>1, <2>2 DEF GoneInv, GoneOK
    <3> QED  BY <1>5, <1>6, <1>7, <2>2, <3>1 DEF GoneOK
  <2> QED  BY <2>1, <2>2
<1> QED  BY <1>1, <1>2, <1>3, <1>4, <1>8 DEF GoneInv

LEMMA GoneStep ==
  ASSUME TeardownsAlone, OneProvider, CallInv, AloneInv, GoneInv, [Next]_vars
  PROVE  GoneInv'
<1>1. ASSUME NEW p \in Procs, NEW r \in Starts, StartCheck(p, r) PROVE GoneInv'
  <2>1. /\ UNCHANGED <<scenario, registry, alive, worktree>>
        /\ pc'[p] = "create" /\ job'[p].previous = Unwritten
        /\ \A q \in Procs : q # p => pc'[q] = pc[q] /\ job'[q] = job[q]
    BY <1>1 DEF StartCheck, Goto, CallInv, TypeOK, NoJob
  <2>2. ASSUME NEW q \in Procs PROVE KindOK(q)' /\ GoneOK(q)'
    BY <2>1 DEF GoneInv, KindOK, GoneOK, entry, StartedKinds, Starts, TeardownSteps
  <2> QED  BY <2>1, <2>2 DEF GoneInv, entry, StartedKinds, Starts
<1>2. ASSUME NEW p \in Procs, NEW r \in Teardowns, TeardownPlan(p, r) PROVE GoneInv'
  <2>1. /\ UNCHANGED <<scenario, registry, alive, worktree>>
        /\ pc'[p] = "destroy"
        /\ \A q \in Procs : q # p => pc'[q] = pc[q] /\ job'[q] = job[q]
        /\ TeardownRuntime.provider = "in_guest" => r.force
        /\ worktree = "absent" => r.force
    BY <1>2 DEF TeardownPlan, Goto, CallInv, TypeOK
  <2>2. /\ job'[p].request = r
        /\ job'[p].runtime = TeardownRuntime
        /\ job'[p].existed = (worktree # "absent")
    BY <1>2 DEF TeardownPlan, CallInv, TypeOK, NoJob
  <2>3. Listed(registry, Feature) => TeardownRuntime = entry.runtime
    BY DEF TeardownRuntime
  <2>4. ASSUME NEW q \in Procs PROVE KindOK(q)' /\ GoneOK(q)'
    <3>1. CASE q = p
      BY <2>1, <2>2, <2>3, <3>1 DEF KindOK, GoneOK, StartSteps, entry
    <3>2. CASE q # p
      BY <2>1, <3>2 DEF GoneInv, KindOK, GoneOK, entry, StartedKinds, Starts
    <3> QED  BY <3>1, <3>2
  <2> QED  BY <2>1, <2>4 DEF GoneInv, entry, StartedKinds, Starts
<1>3. ASSUME NEW p \in Procs, Crash(p) PROVE GoneInv'
  BY <1>3, ReturnForgets, GoneKept DEF Crash
<1>4. CASE Edit
  <2>1. /\ UNCHANGED <<scenario, registry, alive, pc>> /\ worktree # "absent"
        /\ \A q \in Procs : /\ job'[q].request = job[q].request /\ job'[q].previous = job[q].previous
                            /\ job'[q].existed = job[q].existed /\ job'[q].runtime = job[q].runtime
    BY <1>4 DEF Edit, CallInv, TypeOK, Job
  <2>2. ASSUME NEW q \in Procs PROVE KindOK(q)' /\ GoneOK(q)'
    BY <2>1 DEF GoneInv, KindOK, GoneOK, entry, StartedKinds, Starts
  <2> QED  BY <2>1, <2>2 DEF GoneInv, entry, StartedKinds, Starts
<1>5. CASE DevcontainerUp
  <2>1. /\ UNCHANGED <<scenario, registry, worktree, pc, job>>
        /\ worktree # "absent" /\ \A p \in Procs : pc[p] \notin {"recheck", "remove"}
        /\ Listed(registry, Feature) /\ entry.runtime.provider = "container"
    BY <1>5 DEF DevcontainerUp
  <2>2. ASSUME NEW q \in Procs PROVE KindOK(q)' /\ GoneOK(q)'
    BY <2>1 DEF GoneInv, KindOK, GoneOK, entry, StartedKinds, Starts, TeardownSteps
  <2> QED  BY <2>1, <2>2 DEF GoneInv, entry, StartedKinds, Starts
<1>6. CASE UNCHANGED vars \/ Commit \/ Merge
  BY <1>6, GoneKept DEF vars, Commit, Merge
<1> QED
  BY <1>1, <1>2, <1>3, <1>4, <1>5, <1>6, GoneStartStep, GoneTeardownStep DEF Next

(* Under the same conditions an unforced teardown records a removal only   *)
(* when neither the worktree nor a container or known sandbox is left.     *)
THEOREM RemovalVerified ==
  ASSUME TeardownsAlone, OneProvider PROVE Spec => TeardownVerified
<1> DEFINE verified ==
      \A p \in Procs :
        Acts(p) /\ pc[p] = "recordTeardown" /\ registry' # registry /\ ~ job[p].request.force =>
            /\ worktree = "absent"
            /\ "container" \notin alive
            /\ ~ (known /\ "sbx" \in alive)
<1>1. Init => GoneInv
  BY GoneInitInv
<1>2. CallInv /\ AloneInv /\ GoneInv /\ [Next]_vars => GoneInv'
  BY GoneStep
<1>3. ASSUME CallInv, AloneInv, FindInv, GoneInv, [Next]_vars PROVE [verified]_vars
  <2> SUFFICES ASSUME NEW p \in Procs, Acts(p), pc[p] = "recordTeardown", registry' # registry,
                      ~ job[p].request.force
               PROVE  worktree = "absent" /\ "container" \notin alive /\ ~ known
    OBVIOUS
  <2>1. pc[p] \in TeardownSteps
    BY DEF TeardownSteps
  <2>2. worktree = "absent" /\ ("container" \notin alive \/ ~ Listed(registry, Feature)) /\ ~ known
    BY <1>3, <2>1 DEF GoneInv, GoneOK, FindInv, FindOK
  <2>3. Listed(registry, Feature)
    <3>1. PICK q \in Procs : StartStep(q) \/ TeardownStep(q)
      BY <1>3 DEF Next, vars, StartCheck, TeardownPlan, Crash, Edit, Commit, Merge, DevcontainerUp
    <3>2. q = p
      BY <1>3, <3>1, StartMoves, TeardownMoves DEF Moves, Acts, CallInv, TypeOK
    <3>3. TeardownStep(p)
      BY <2>1, <3>1, <3>2, StartsSteps, StepNames
    <3>4. registry' = RecordTeardown(registry, Feature)
      BY <3>3 DEF TeardownStep, SpecNotMoved, Destroy, DestroyUnverified, Recheck, RecheckStops,
                  RemoveWorktree, RemoveFails, Prune, DeleteBranch, Removed
    <3> QED  BY <1>3, <3>4, TeardownRecorded DEF CallInv, TypeOK
  <2> QED  BY <2>2, <2>3
<1> QED
  BY <1>1, <1>2, <1>3, CallInvariance, AloneInvariance, FindInvariance, PTL DEF Spec, TeardownVerified
=============================================================================
