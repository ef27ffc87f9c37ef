------------------------- MODULE InGuestRuntimeProofs -------------------------
(* What a start and the teardowns of an in-guest runtime guarantee for any    *)
(* number of failing commands and deaths.                                     *)
EXTENDS InGuestRuntime, TLAPS

(* From `devcontainer up` to the removal of the provider state it is there.   *)
WithState == {"up", "spools", "probe", "proxies", "containers", "networks", "spoolVolumes",
              "inspect", "erase", "unstage", "forget"}
StateInv == pc \in WithState => state # Absent

(* Commands that keep off the teardown find the state when they act.          *)
CommandInv == command # "none" => pc = "idle" /\ state # Absent

(* The kinds of what is left of the project in Docker.                        *)
Left == {KindOf(object) : object \in docker \cap Objects}

(* From its inspection on, the residue has all that is left.                  *)
ResidueInv ==
    /\ pc \in {"erase", "unstage", "forget"} => Left \subseteq residue
    /\ pc \in {"unstage", "forget"} => /\ secrets => "lease-materialization" \in residue
                                       /\ ledger => "tool-request-ledger" \in residue
    /\ pc = "forget" /\ residue = {} => ~stage

IInv == TypeOK /\ Findable /\ StateInv /\ CommandInv /\ ResidueInv

-----------------------------------------------------------------------------
(* The kinds of objects, and what a destroy removes.                          *)

LEMMA KindTypes == \A object \in Objects : KindOf(object) \in Kinds
BY DEF KindOf, Objects, Compose, Kinds

LEMMA StepNames ==
    /\ "new" \in Steps /\ "idle" \in Steps /\ "facade" \in Steps /\ "prepare" \in Steps
    /\ "up" \in Steps /\ "spools" \in Steps /\ "probe" \in Steps /\ "proxies" \in Steps
    /\ "find" \in Steps /\ "containers" \in Steps /\ "networks" \in Steps
    /\ "spoolVolumes" \in Steps /\ "inspect" \in Steps /\ "erase" \in Steps
    /\ "unstage" \in Steps /\ "forget" \in Steps /\ "cleanup" \in Steps /\ "finish" \in Steps
BY DEF Steps

LEMMA StateNames == Absent \in States /\ "prepared" \in States /\ "identified" \in States
BY DEF States

LEMMA ResidueNames ==
    {"lease-materialization", "tool-request-ledger", "compose-inputs", "provider-state"} \subseteq Kinds
BY DEF Kinds

LEMMA LeftKinds == Left \subseteq Kinds
BY KindTypes DEF Left

LEMMA OwnedOnly == (OwnedProxy \cup OwnedContainers) \cap Neighbours = {}
BY DEF OwnedProxy, OwnedContainers, ProxyName, ProjectLabel, Compose, Neighbours

LEMMA SpoolsOnly ==
    /\ {"network", "volume", "spool"} \cap Neighbours = {}
    /\ Objects \cap Neighbours = {}
BY DEF Neighbours, Objects, Compose

-----------------------------------------------------------------------------
LEMMA InitInv == ASSUME Init PROVE IInv
<1> USE InGuestAssumption DEF Init
<1>1. TypeOK
  <2>1. 0 \in 0..MaxFaults
    BY SMT
  <2>2. docker \subseteq Objects \cup Neighbours /\ residue \subseteq Kinds
    OBVIOUS
  <2> QED  BY <2>1, <2>2, StepNames, StateNames DEF TypeOK
<1>2. docker \cap Objects = {}
  BY SpoolsOnly
<1> QED  BY <1>1, <1>2 DEF IInv, Findable, StateInv, WithState, CommandInv, ResidueInv

-----------------------------------------------------------------------------
(* Types.                                                                     *)
LEMMA TypeStep == ASSUME TypeOK, [Next]_vars PROVE TypeOK'
<1> USE InGuestAssumption, StepNames, StateNames DEF TypeOK, world
<1>1. ASSUME Faulty PROVE faults' \in 0..MaxFaults
  BY <1>1 DEF Faulty
<1>2. ASSUME Fail PROVE pc' \in {"cleanup", "find"} /\ failing' = TRUE
  BY <1>2 DEF Fail
<1>3. ASSUME NEW outcome \in {"unverified", "residue", "clean"}, Report(outcome)
      PROVE  /\ report' \in {"unverified", "residue", "clean"}
             /\ pc' \in {"cleanup", "finish"}
             /\ failing => pc' = "cleanup"
  BY <1>3 DEF Report
<1>5. CASE Expire
  BY <1>5 DEF Expire
<1>6. CASE Start
  BY <1>6 DEF Start
<1>7. CASE Facade
  <2>1. stage' \in BOOLEAN /\ pc' \in Steps /\ failing' \in BOOLEAN
    BY <1>7, <1>2 DEF Facade
  <2> QED  BY <1>7, <2>1 DEF Facade
<1>8. CASE Prepare
  <2>1. state' \in States /\ pc' \in Steps /\ failing' \in BOOLEAN
    BY <1>8, <1>2 DEF Prepare
  <2> QED  BY <1>8, <2>1 DEF Prepare
<1>9. CASE Up
  <2>1. docker' \subseteq Objects \cup Neighbours
    BY <1>9 DEF Up, Objects
  <2>2. state' \in States /\ pc' \in Steps /\ failing' \in BOOLEAN /\ faults' \in 0..MaxFaults
    BY <1>9, <1>1, <1>2 DEF Up
  <2> QED  BY <1>9, <2>1, <2>2 DEF Up
<1>10. CASE Check
  <2>1. pc' \in Steps /\ failing' \in BOOLEAN /\ faults' \in 0..MaxFaults
    BY <1>10, <1>1, <1>2 DEF Check, Spools, Probe
  <2> QED  BY <1>10, <2>1 DEF Check
<1>11. CASE Proxies
  <2>1. docker' \subseteq Objects \cup Neighbours
    BY <1>11 DEF Proxies, ReconcileProxy, Objects
  <2>2. pc' \in Steps /\ failing' \in BOOLEAN /\ faults' \in 0..MaxFaults /\ active' \in BOOLEAN
    BY <1>11, <1>1, <1>2 DEF Proxies
  <2> QED  BY <1>11, <2>1, <2>2 DEF Proxies
<1>12. ASSUME NEW c \in {"exec", "dispatch"}, Command(c) PROVE TypeOK'
  BY <1>12 DEF Command
<1>13. CASE Exec
  BY <1>13 DEF Exec
<1>14. CASE Dispatch
  BY <1>14 DEF Dispatch
<1>15. CASE Teardown
  BY <1>15 DEF Teardown
<1>16. CASE Find
  BY <1>16, <1>3 DEF Find
<1>17. CASE Abort
  BY <1>17, <1>1, <1>3 DEF Abort
<1>18. ASSUME NEW objects, NEW next \in {"networks", "spoolVolumes", "inspect"}, Remove(objects, next)
       PROVE  TypeOK'
  BY <1>18, <1>1 DEF Remove
<1>19. CASE RemoveContainers
  BY <1>19, <1>18 DEF RemoveContainers
<1>20. CASE RemoveNetworks
  BY <1>20, <1>18 DEF RemoveNetworks
<1>21. CASE RemoveSpools
  BY <1>21, <1>18 DEF RemoveSpools
<1>22. CASE InspectResidue
  BY <1>22, LeftKinds DEF InspectResidue, Left
<1>23. CASE Erase
  <2>1. residue' \subseteq Kinds
    BY <1>23, ResidueNames DEF Erase
  <2>2. secrets' \in BOOLEAN /\ ledger' \in BOOLEAN /\ faults' \in 0..MaxFaults
    BY <1>23, <1>1 DEF Erase
  <2> QED  BY <1>23, <2>1, <2>2 DEF Erase
<1>24. CASE Unstage
  <2>1. residue' \subseteq Kinds
    BY <1>24, ResidueNames DEF Unstage
  <2>2. stage' \in BOOLEAN /\ faults' \in 0..MaxFaults
    BY <1>24, <1>1 DEF Unstage
  <2> QED  BY <1>24, <2>1, <2>2 DEF Unstage
<1>25. CASE Forget
  BY <1>25, <1>1, <1>3, ResidueNames DEF Forget
<1>26. CASE Cleanup
  BY <1>26 DEF Cleanup
<1>27. CASE Finish
  <2>1. worktree' \in BOOLEAN /\ active' \in BOOLEAN
    BY <1>27 DEF Finish
  <2>2. faults' \in 0..MaxFaults
    BY <1>27, <1>1 DEF Finish
  <2> QED  BY <1>27, <2>1, <2>2 DEF Finish
<1>28. CASE Die
  BY <1>28, <1>1 DEF Die
<1>29. CASE UNCHANGED vars
  BY <1>29 DEF vars
<1> QED
  BY <1>5, <1>6, <1>7, <1>8, <1>9, <1>10, <1>11, <1>12, <1>13, <1>14, <1>15, <1>16, <1>17,
     <1>19, <1>20, <1>21, <1>22, <1>23, <1>24, <1>25, <1>26, <1>27, <1>28, <1>29
  DEF Next, Begin, Destroy

-----------------------------------------------------------------------------
(* The parts of the invariant that follow the steps of the processes.         *)
LEMMA StateStep == ASSUME TypeOK, StateInv, CommandInv, ~Beside, [Next]_vars PROVE StateInv' /\ CommandInv'
<1> USE DEF StateInv, CommandInv, WithState, world
<1>1. ASSUME Fail PROVE pc' = "cleanup" \/ (pc' = "find" /\ state # Absent)
  BY <1>1 DEF Fail
<1>2. ASSUME NEW outcome, Report(outcome) PROVE pc' \in {"cleanup", "finish"}
  BY <1>2 DEF Report
<1>3. CASE Expire
  BY <1>3 DEF Expire
<1>4. CASE Start
  BY <1>4 DEF Start
<1>5. CASE Facade
  BY <1>5, <1>1 DEF Facade
<1>6. CASE Prepare
  <2>1. "prepared" # Absent
    BY DEF Absent
  <2> QED  BY <1>6, <1>1, <2>1 DEF Prepare
<1>7. CASE Up
  <2>1. "identified" # Absent
    BY DEF Absent
  <2> QED  BY <1>7, <1>1, <2>1 DEF Up
<1>8. CASE Check
  BY <1>8, <1>1 DEF Check, Spools, Probe
<1>9. CASE Proxies
  BY <1>9, <1>1 DEF Proxies
<1>10. ASSUME NEW c \in {"exec", "dispatch"}, Command(c) PROVE StateInv' /\ CommandInv'
  BY <1>10 DEF Command, MayRun
<1>11. CASE Exec
  BY <1>11 DEF Exec
<1>12. CASE Dispatch
  BY <1>12 DEF Dispatch
<1>13. CASE Teardown
  BY <1>13 DEF Teardown
<1>14. CASE Find
  BY <1>14, <1>2 DEF Find
<1>15. CASE Abort
  BY <1>15, <1>2 DEF Abort
<1>16. CASE RemoveContainers \/ RemoveNetworks \/ RemoveSpools
  BY <1>16 DEF RemoveContainers, RemoveNetworks, RemoveSpools, Remove
<1>17. CASE InspectResidue
  BY <1>17 DEF InspectResidue
<1>18. CASE Erase
  BY <1>18 DEF Erase
<1>19. CASE Unstage
  BY <1>19 DEF Unstage
<1>20. CASE Forget
  BY <1>20, <1>2 DEF Forget
<1>21. CASE Cleanup
  BY <1>21 DEF Cleanup
<1>22. CASE Finish
  BY <1>22 DEF Finish
<1>23. CASE Die
  BY <1>23 DEF Die
<1>24. CASE UNCHANGED vars
  BY <1>24 DEF vars
<1> QED
  BY <1>3, <1>4, <1>5, <1>6, <1>7, <1>8, <1>9, <1>10, <1>11, <1>12, <1>13, <1>14, <1>15, <1>16,
     <1>17, <1>18, <1>19, <1>20, <1>21, <1>22, <1>23, <1>24
  DEF Next, Begin, Destroy

(* The residue: what is found stays, until the destroy ends or another begins. *)
LEMMA ResidueStep ==
  ASSUME TypeOK, CommandInv, ResidueInv, ~Beside, [Next]_vars
  PROVE  ResidueInv'
<1> USE DEF ResidueInv, Left, world
<1> DEFINE Late == {"erase", "unstage", "forget"}
<1>1. ASSUME pc' \notin Late PROVE ResidueInv'
  BY <1>1
<1>2. ASSUME Fail PROVE pc' \notin Late
  BY <1>2 DEF Fail
<1>3. ASSUME NEW outcome, Report(outcome) PROVE pc' \notin Late
  BY <1>3 DEF Report
<1>4. CASE Expire
  BY <1>4 DEF Expire
<1>5. CASE Start \/ Facade \/ Prepare \/ Up
  BY <1>5, <1>1, <1>2 DEF Start, Facade, Prepare, Up
<1>6. CASE Check \/ Proxies
  BY <1>6, <1>1, <1>2 DEF Check, Spools, Probe, Proxies
<1>7. ASSUME NEW c \in {"exec", "dispatch"}, Command(c) PROVE ResidueInv'
  BY <1>7 DEF Command
<1>8. CASE Exec \/ Dispatch
  BY <1>8, <1>1 DEF Exec, Dispatch, MayRun
<1>9. CASE Teardown
  BY <1>9, <1>1 DEF Teardown
<1>10. CASE Find \/ Abort
  BY <1>10, <1>1, <1>3 DEF Find, Abort
<1>11. CASE RemoveContainers \/ RemoveNetworks \/ RemoveSpools
  BY <1>11, <1>1 DEF RemoveContainers, RemoveNetworks, RemoveSpools, Remove
<1>12. CASE InspectResidue
  BY <1>12 DEF InspectResidue
<1>13. CASE Erase
  <2>1. pc = "erase" /\ pc' = "unstage" /\ docker' = docker
    BY <1>13 DEF Erase
  <2>2. Left \subseteq residue /\ residue \subseteq residue'
    BY <1>13, <2>1 DEF Erase
  <2>3. /\ secrets' => "lease-materialization" \in residue'
        /\ ledger' => "tool-request-ledger" \in residue'
    BY <1>13 DEF Erase
  <2> QED  BY <2>1, <2>2, <2>3
<1>14. CASE Unstage
  <2>1. pc = "unstage" /\ pc' = "forget" /\ UNCHANGED <<docker, secrets, ledger>>
    BY <1>14 DEF Unstage
  <2>2. /\ Left \subseteq residue
        /\ secrets => "lease-materialization" \in residue
        /\ ledger => "tool-request-ledger" \in residue
    BY <2>1
  <2>3. residue = {} \/ residue' = residue
    BY <1>14 DEF Unstage
  <2>4. residue' = {} => ~stage'
    BY <1>14, <2>3 DEF Unstage
  <2> QED  BY <2>1, <2>2, <2>3, <2>4
<1>15. CASE Forget
  BY <1>15, <1>1, <1>3 DEF Forget
<1>16. CASE Cleanup \/ Finish \/ Die
  BY <1>16, <1>1 DEF Cleanup, Finish, Die
<1>17. CASE UNCHANGED vars
  BY <1>17 DEF vars
<1> QED
  BY <1>4, <1>5, <1>6, <1>7, <1>8, <1>9, <1>10, <1>11, <1>12, <1>13, <1>14, <1>15, <1>16, <1>17
  DEF Next, Begin, Destroy

(* What only the state names is made under it, and it goes after all of that. *)
LEMMA FindableStep ==
  ASSUME TypeOK, Findable, StateInv, CommandInv, ResidueInv, ~Beside, [Next]_vars
  PROVE  Findable'
<1> USE DEF Findable, world
<1> DEFINE Nothing == docker \cap Objects = {} /\ ~ledger
<1>1. ASSUME state' # Absent PROVE Findable'
  BY <1>1
<1>2. ASSUME docker' \subseteq docker, ledger' => ledger, state' = state PROVE Findable'
  BY <1>2
<1>3. CASE Expire \/ Start \/ Facade
  BY <1>3, <1>2 DEF Expire, Start, Facade
<1>4. CASE Prepare
  BY <1>4, <1>1, <1>2 DEF Prepare, Absent
<1>5. CASE Up
  <2>1. state # Absent /\ (state' = state \/ state' = "identified")
    BY <1>5 DEF Up, StateInv, WithState
  <2> QED  BY <2>1, <1>1 DEF Absent
<1>6. CASE Check
  BY <1>6, <1>2 DEF Check
<1>7. CASE Proxies
  <2>1. state # Absent /\ state' = state
    BY <1>7 DEF Proxies, StateInv, WithState
  <2> QED  BY <2>1, <1>1
<1>8. ASSUME NEW c \in {"exec", "dispatch"}, Command(c) PROVE Findable'
  BY <1>8, <1>2 DEF Command
<1>9. CASE Exec
  BY <1>9, <1>1 DEF Exec, CommandInv
<1>10. CASE Dispatch
  BY <1>10, <1>1 DEF Dispatch, CommandInv
<1>11. CASE Teardown \/ Find \/ Abort
  BY <1>11, <1>2 DEF Teardown, Find, Abort
<1>12. ASSUME NEW objects, NEW next, Remove(objects, next) PROVE Findable'
  BY <1>12, <1>2 DEF Remove
<1>13. CASE RemoveContainers \/ RemoveNetworks \/ RemoveSpools
  BY <1>13, <1>12 DEF RemoveContainers, RemoveNetworks, RemoveSpools
<1>14. CASE InspectResidue
  BY <1>14, <1>2 DEF InspectResidue
<1>15. CASE Erase
  <2>1. state # Absent /\ state' = state
    BY <1>15 DEF Erase, StateInv, WithState
  <2> QED  BY <2>1, <1>1
<1>16. CASE Unstage
  BY <1>16, <1>2 DEF Unstage
<1>17. CASE Forget
  <2>1. CASE residue = {}
    <3>1. Nothing
      BY <1>17, <2>1 DEF Forget, ResidueInv, Left
    <3> QED  BY <1>17, <3>1 DEF Forget
  <2>2. CASE residue # {}
    BY <1>17, <2>2, <1>2 DEF Forget
  <2> QED  BY <2>1, <2>2
<1>18. CASE Cleanup \/ Finish \/ Die
  BY <1>18, <1>2 DEF Cleanup, Finish, Die
<1>19. CASE UNCHANGED vars
  BY <1>19, <1>2 DEF vars
<1> QED
  BY <1>3, <1>4, <1>5, <1>6, <1>7, <1>8, <1>9, <1>10, <1>11, <1>13, <1>14, <1>15, <1>16, <1>17,
     <1>18, <1>19
  DEF Next, Begin, Destroy

(* Of the containers of others none is removed by any step.                   *)
LEMMA NeighboursStep == ASSUME [Next]_vars PROVE docker \cap Neighbours \subseteq docker'
<1> USE DEF world
<1>1. ASSUME docker \subseteq docker' PROVE docker \cap Neighbours \subseteq docker'
  BY <1>1
<1>2. ASSUME NEW objects, NEW next, Remove(objects, next), objects \cap Neighbours = {}
      PROVE  docker \cap Neighbours \subseteq docker'
  BY <1>2 DEF Remove
<1>3. CASE RemoveContainers
  BY <1>3, <1>2, OwnedOnly DEF RemoveContainers
<1>4. CASE RemoveNetworks
  <2>1. (IF InUse THEN {} ELSE docker \cap {"network", "volume"}) \cap Neighbours = {}
    BY SpoolsOnly
  <2> QED  BY <1>4, <1>2, <2>1 DEF RemoveNetworks
<1>5. CASE RemoveSpools
  <2>1. (IF "primary" \in docker THEN {} ELSE docker \cap {"spool"}) \cap Neighbours = {}
    BY SpoolsOnly
  <2> QED  BY <1>5, <1>2, <2>1 DEF RemoveSpools
<1>6. CASE Expire \/ Start \/ Facade \/ Prepare
  BY <1>6, <1>1 DEF Expire, Start, Facade, Prepare
<1>7. CASE Up
  BY <1>7, <1>1 DEF Up
<1>8. CASE Check \/ Proxies
  BY <1>8, <1>1 DEF Check, Proxies, ReconcileProxy
<1>9. CASE (\E c \in {"exec", "dispatch"} : Command(c)) \/ Exec \/ Dispatch
  BY <1>9, <1>1 DEF Command, Exec, Dispatch
<1>10. CASE Teardown \/ Find \/ Abort \/ InspectResidue
  BY <1>10, <1>1 DEF Teardown, Find, Abort, InspectResidue
<1>11. CASE Erase \/ Unstage
  BY <1>11, <1>1 DEF Erase, Unstage
<1>12. CASE Forget
  BY <1>12, <1>1 DEF Forget
<1>13. CASE Cleanup \/ Finish \/ Die \/ UNCHANGED vars
  BY <1>13, <1>1 DEF Cleanup, Finish, Die, vars
<1> QED
  BY <1>3, <1>4, <1>5, <1>6, <1>7, <1>8, <1>9, <1>10, <1>11, <1>12, <1>13 DEF Next, Begin, Destroy

(* Only the last step of a destroy reports residue, or none.                  *)
LEMMA ReportStep ==
  ASSUME TypeOK, ResidueInv, [Next]_vars, report' \in {"residue", "clean"}, report' # report
  PROVE  Told
<1> USE DEF world
<1>1. Forget
  <2>1. ASSUME NEW outcome, Report(outcome) PROVE report' = outcome
    BY <2>1 DEF Report
  <2>2. ~ Expire /\ ~ Start /\ ~ Facade /\ ~ Prepare /\ ~ Up /\ ~ Check /\ ~ Proxies
    BY DEF Expire, Start, Facade, Prepare, Up, Check, Proxies
  <2>3. ~ (\E c \in {"exec", "dispatch"} : Command(c)) /\ ~ Exec /\ ~ Dispatch /\ ~ Teardown
    BY DEF Command, Exec, Dispatch, Teardown
  <2>4. ~ Find /\ ~ Abort
    BY <2>1 DEF Find, Abort
  <2>5. ~ RemoveContainers /\ ~ RemoveNetworks /\ ~ RemoveSpools
    BY DEF RemoveContainers, RemoveNetworks, RemoveSpools, Remove
  <2>6. ~ InspectResidue /\ ~ Erase /\ ~ Unstage /\ ~ Cleanup /\ ~ Finish /\ ~ Die
    BY DEF InspectResidue, Erase, Unstage, Cleanup, Finish, Die
  <2>7. ~ UNCHANGED vars
    BY DEF vars
  <2> QED  BY <2>2, <2>3, <2>4, <2>5, <2>6, <2>7 DEF Next, Begin, Destroy
<1>2. pc = "forget" /\ UNCHANGED <<docker, secrets, stage, ledger>> /\ residue \subseteq residue'
  BY <1>1 DEF Forget
<1>3. /\ Left \subseteq residue
      /\ secrets => "lease-materialization" \in residue
      /\ ledger => "tool-request-ledger" \in residue
      /\ residue = {} => ~stage
  BY <1>2 DEF ResidueInv
<1>4. Left' = Left
  BY <1>2 DEF Left
<1>5. report' = "clean" => residue = {} /\ residue' = {} /\ state' = Absent
  <2>1. ASSUME NEW outcome, Report(outcome) PROVE report' = outcome
    BY <2>1 DEF Report
  <2> QED  BY <1>1, <2>1 DEF Forget
<1>6. /\ secrets' => "lease-materialization" \in residue'
      /\ ledger' => "tool-request-ledger" \in residue'
      /\ report' = "clean" => residue' = {} /\ ~stage' /\ state' = Absent
  BY <1>2, <1>3, <1>5
<1> QED  BY <1>2, <1>3, <1>4, <1>6 DEF Told, Left

-----------------------------------------------------------------------------
(* The theorems.                                                              *)

(* The variables keep their types.                                            *)
THEOREM Types == Spec => []TypeOK
<1>1. Init => TypeOK
  BY InitInv DEF IInv
<1> QED  BY <1>1, TypeStep, PTL DEF Spec

LEMMA Invariance == ASSUME ~Beside PROVE Spec => []IInv
<1>1. Init => IInv
  BY InitInv
<1>2. IInv /\ [Next]_vars => IInv'
  BY TypeStep, StateStep, ResidueStep, FindableStep DEF IInv
<1> QED  BY <1>1, <1>2, PTL DEF Spec

(* Whatever fails or dies, what a run has left on the guest and only its      *)
(* provider state names can be found by a later teardown, if no command in    *)
(* the feature runs beside the teardown.                                      *)
THEOREM FindableAlways == ASSUME ~Beside PROVE Spec => []Findable
BY Invariance, PTL DEF IInv

(* A report of a destroy conceals nothing that it left, under the same        *)
(* condition.                                                                 *)
THEOREM ReportsTruthful == ASSUME ~Beside PROVE Spec => ReportTruthful
<1>1. IInv /\ [Next]_vars => [report' \in {"residue", "clean"} /\ report' # report => Told]_vars
  BY ReportStep DEF IInv
<1> QED  BY <1>1, Invariance, PTL DEF Spec, ReportTruthful

(* No step removes a container of another project, also not one that carries  *)
(* the label of the same worktree or has the name of the port proxy.          *)
THEOREM NeighboursStay == Spec => NeighboursKept
<1>1. [Next]_vars => [docker \cap Neighbours \subseteq docker']_vars
  BY NeighboursStep
<1> QED  BY <1>1, PTL DEF Spec, NeighboursKept
=============================================================================
